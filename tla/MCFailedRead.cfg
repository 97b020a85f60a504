SPECIFICATION Spec
CONSTANTS
  NumBlocks = 4
  MinNodeBlockIndex = 1
  MaxRef = 1
  ReqId = {r1, r2}
  Value = {v1, v2}
  MaxCacheSize = 2
  MaxNumChildren = 2
  Garbage = Garbage
  ReadFaults = TRUE
  None = None
SYMMETRY Symmetry
VIEW LiveView
INVARIANT OutstandingReadsAnswered
