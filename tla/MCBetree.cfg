SPECIFICATION Spec
CONSTANTS
  MaxRef = 12
  NoIterator = NoIterator
  NumKeys = 3
  Value = {v0, v1}
  DefaultValue = v0
  MaxNumChildren = 3
  MaxLevels = 3
  MaxTotalBucketWeight = 2
  FlushTriggerWeight = 1
  Sync = FALSE
  None = None
VIEW TreeView
INVARIANTS
  TypeOK
  PolicyMakesProgress
  QueriesAnswered
PROPERTY ImplementsMap
CHECK_DEADLOCK FALSE
