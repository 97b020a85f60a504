SPECIFICATION Spec
CONSTANTS
  NumJournalBlocks = 3
  BlockCapacity = 2
  HeaderWeight = 1
  a = a
  b = b
  Entry = {a}
  EntryWeight <- EqualWeights
  None = None
  Loc = {l1, l2}
  ReqId = {r1, r2, r3}
  CounterModulus = 3
  ReadFaults = TRUE
  MaxSyncId = 1
  MaxSyncReqs = 1
  GraphSync = {TRUE, FALSE}
  Corruption = Corruption
SYMMETRY Symmetry
VIEW View
INVARIANTS
  TypeOK
  IInv
  InFlightOutsidePersistent
  ReadsInsidePersistent
  SuperblockWriteSpares
  CommitterKnowsCommit
  PersistentJournalReadable
  WaitsForInFlight
  CommitMatchesFreeze
  JournalFits
PROPERTIES
  CommittedBlocksStable
  CommitIsAtomic
