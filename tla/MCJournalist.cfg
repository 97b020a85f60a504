SPECIFICATION Spec
CONSTANTS
  NumJournalBlocks = 2
  BlockCapacity = 3
  HeaderWeight = 1
  a = a
  b = b
  Entry = {a, b}
  EntryWeight <- Weights
  None = None
  InitialCapacity = 1
  MaxPossibleEntries = 6
  MinEntryWeight = 1
INVARIANTS
  JournalistInv
  CapacityBounded
PROPERTY RefinesJournalQueues
