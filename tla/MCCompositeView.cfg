SPECIFICATION Spec
CONSTANTS
  Key = {k}
  Value = {v0, v1, v2}
  EmptyValue = v0
  Loc = {l1, l2}
  SyncId = {id}
  None = None
  MaxJournal = 3
SYMMETRY Symmetry
PROPERTY CrashSafe
