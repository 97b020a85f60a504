SPECIFICATION Spec
CONSTANTS
  MaxRef = 6
  NoIterator = NoIterator
  NumKeys = 2
  Value = {v0}
  DefaultValue = v0
  MaxNumChildren = 2
  MaxLevels = 3
  MaxTotalBucketWeight = 2
  FlushTriggerWeight = 1
  Sync = TRUE
  None = None
INVARIANTS
  CountsExact
  QueueExact
  SearchSkipsNone
