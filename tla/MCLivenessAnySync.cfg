SPECIFICATION LiveSpec
CONSTANTS
  NumJournalBlocks = 2
  BlockCapacity = 2
  HeaderWeight = 1
  a = a
  b = b
  Entry = {a}
  EntryWeight <- EqualWeights
  None = None
  Loc = {l1, l2}
  ReqId = {r1, r2}
  CounterModulus = 3
  ReadFaults = FALSE
  MaxSyncId = 1
  MaxSyncReqs = 1
  GraphSync = {TRUE, FALSE}
  Corruption = Corruption
PROPERTIES
  WrittenSyncCompletes
