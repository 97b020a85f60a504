SPECIFICATION Spec
CONSTANTS
  NumBlocks = 4
  MinNodeBlockIndex = 1
  MaxRef = 3
  ReqId = {r1, r2}
  Value = {v1, v2}
  MaxCacheSize = 4
  MaxNumChildren = 3
  Garbage = Garbage
  ReadFaults = TRUE
  None = None
SYMMETRY Symmetry
VIEW LiveView
INVARIANTS
  TypeOK
  AllocatorExact
  RecoverableIntact
  NothingLost
  AnswersAccepted
  RequestsMatch
PROPERTIES
  LiveBlocksStable
  ImplementsStatesView
