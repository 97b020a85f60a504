SPECIFICATION HSpec
CONSTANTS
  MaxInserts = 3
  NumJournalBlocks = 2
  BlockCapacity = 2
  HeaderWeight = 1
  a = a
  b = b
  Entry = {a}
  EntryWeight <- EqualWeights
  None = None
  Loc = {l1, l2}
  ReqId = {r1, r2}
  CounterModulus = 3
  ReadFaults = FALSE
  MaxSyncId = 2
  MaxSyncReqs = 2
  GraphSync = {TRUE, FALSE}
  Corruption = Corruption
SYMMETRY Symmetry
VIEW HistoryView
INVARIANTS
  DurabilityInv
  SyncDurable
  RecoversOnlyInserted
PROPERTY CommittedNeverLost
