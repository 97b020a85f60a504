----------------------------- MODULE Committer -----------------------------
(***************************************************************************)
(* The committer of the store (Impl/CommitterImpl) with the sizes and the  *)
(* queues of its journalist (Impl/JournalistImpl): it loads the superblock *)
(* and the journal after a start, appends entries, writes the journal and  *)
(* the superblock out, and keeps the outstanding sync requests.            *)
(*                                                                         *)
(* One action per method.  Its guard holds the conditions under which the  *)
(* handlers (CoordinationImpl, HandleRead/WriteResponseImpl) call it.  The *)
(* fields that Committer.I() leaves out in a status keep their initial     *)
(* value while it lasts.                                                   *)
(***************************************************************************)
EXTENDS JournalDisk, SyncStatus, FiniteSets

CONSTANTS
  MaxSyncId,          \* 2^64 - 1: the largest id a sync request can get
  MaxSyncReqs,        \* 2^61: the most requests the map may hold
  GraphSync,          \* the values of graphSync the client passes to popSync
  Corruption          \* the result of reading a damaged superblock

ASSUME SyncAssumption == MaxSyncId \in Nat \ {0} /\ MaxSyncReqs \in Nat \ {0}
ASSUME GraphSyncAssumption == GraphSync \in SUBSET BOOLEAN
ASSUME CorruptionAssumption == Corruption \notin Superblock \cup {None}

Half == {"Front", "Back"}

VARIABLES
  status,                    \* loading phase or ready
  superblockRead,            \* [Slot -> whether a read of it is in flight]
  superblockResult,          \* [Slot -> what was read; None is SuperblockUnfinished]
  superblock,                \* the superblock last known to be committed
  whichSuperblock,           \* the slot it is in
  journalRead,               \* [Half -> id of the read in flight, or None]
  journalPart,               \* [Half -> the blocks read, or None]
  replayJournal,             \* entries left to replay
  inMemoryJournal,           \* entries appended since the last freeze or write
  inMemoryJournalFrozen,     \* entries the frozen table contains, unwritten
  writtenJournalBlocks,      \* blocks in use on disk, from superblock.journalStart
  frozenJournalBlocks,       \* blocks reserved for inMemoryJournalFrozen
  inMemoryWeight,            \* bytes of inMemoryJournal
  frozenLoc,                 \* where the frozen table is stored, once it is
  isFrozen,                  \* whether there is a frozen table
  frozenJournalPosition,     \* written blocks the frozen table makes obsolete
  newSuperblock,             \* the superblock being written
  commitStatus,              \* what that write commits
  superblockWrite,           \* whether that write is in flight
  outstandingJournalWrites,  \* ids of the journal writes in flight
  syncReqs                   \* [id -> SyncReqStatus] of the requests pushed

loadVars    == <<superblockRead, superblockResult, journalRead, journalPart>>
currentVars == <<superblock, whichSuperblock>>
queueVars   == <<inMemoryJournal, inMemoryJournalFrozen, inMemoryWeight,
                 writtenJournalBlocks, frozenJournalBlocks>>
frozenVars  == <<frozenLoc, isFrozen, frozenJournalPosition>>
writeVars   == <<newSuperblock, commitStatus, superblockWrite,
                 outstandingJournalWrites>>
committerVars == <<status, loadVars, currentVars, replayJournal, queueVars,
                   frozenVars, writeVars, syncReqs>>

SyncId == 1 .. MaxSyncId

CommitterTypeOK ==
  /\ status \in {"LoadingSuperblock", "LoadingOther", "Ready"}
  /\ superblockRead \in [Slot -> BOOLEAN]
  /\ superblockResult \in [Slot -> Superblock \cup {None, Corruption}]
  /\ superblock \in Superblock \cup {None}
  /\ whichSuperblock \in Slot
  /\ journalRead \in [Half -> ReqId \cup {None}]
  /\ DOMAIN journalPart = Half
  /\ inMemoryJournal \in Seq(Entry) /\ inMemoryJournalFrozen \in Seq(Entry)
  /\ writtenJournalBlocks \in 0 .. NumJournalBlocks
  /\ frozenJournalBlocks \in 0 .. NumJournalBlocks
  /\ inMemoryWeight \in 0 .. (BlockCapacity * NumJournalBlocks)
  /\ frozenLoc \in Loc \cup {None}
  /\ isFrozen \in BOOLEAN
  /\ frozenJournalPosition \in 0 .. NumJournalBlocks
  /\ newSuperblock \in Superblock \cup {None}
  /\ commitStatus \in {"CommitNone", "CommitAdvanceLog", "CommitAdvanceLocation"}
  /\ superblockWrite \in BOOLEAN
  /\ outstandingJournalWrites \in SUBSET ReqId
  /\ DOMAIN syncReqs \in SUBSET SyncId
  /\ \A id \in DOMAIN syncReqs : syncReqs[id] \in SyncReqStatus

Constructor ==
  /\ status = "LoadingSuperblock"
  /\ superblockRead = [which \in Slot |-> FALSE]
  /\ superblockResult = [which \in Slot |-> None]
  /\ superblock = None /\ whichSuperblock = 0
  /\ journalRead = [h \in Half |-> None] /\ journalPart = [h \in Half |-> None]
  /\ replayJournal = <<>>
  /\ inMemoryJournal = <<>> /\ inMemoryJournalFrozen = <<>> /\ inMemoryWeight = 0
  /\ writtenJournalBlocks = 0 /\ frozenJournalBlocks = 0
  /\ frozenLoc = None /\ isFrozen = FALSE /\ frozenJournalPosition = 0
  /\ newSuperblock = None /\ commitStatus = "CommitNone"
  /\ superblockWrite = FALSE /\ outstandingJournalWrites = {}
  /\ syncReqs = <<>>

\* A process that starts after a crash constructs a committer anew.
Restart ==
  /\ status' = "LoadingSuperblock"
  /\ superblockRead' = [which \in Slot |-> FALSE]
  /\ superblockResult' = [which \in Slot |-> None]
  /\ superblock' = None /\ whichSuperblock' = 0
  /\ journalRead' = [h \in Half |-> None] /\ journalPart' = [h \in Half |-> None]
  /\ replayJournal' = <<>>
  /\ inMemoryJournal' = <<>> /\ inMemoryJournalFrozen' = <<>> /\ inMemoryWeight' = 0
  /\ writtenJournalBlocks' = 0 /\ frozenJournalBlocks' = 0
  /\ frozenLoc' = None /\ isFrozen' = FALSE /\ frozenJournalPosition' = 0
  /\ newSuperblock' = None /\ commitStatus' = "CommitNone"
  /\ superblockWrite' = FALSE /\ outstandingJournalWrites' = {}
  /\ syncReqs' = <<>>

-----------------------------------------------------------------------------
\* Start: both superblocks are read, slot 0 first, and one is chosen.

BothSuperblocksRead ==
  \A which \in Slot : superblockResult[which] \in Superblock

CanRequestSuperblock(which) ==
  ~superblockRead[which] /\ superblockResult[which] = None

PageInSuperblockReq(which) ==
  /\ status = "LoadingSuperblock"
  /\ ~BothSuperblocksRead
  /\ CanRequestSuperblock(which)
  /\ which = 1 => ~CanRequestSuperblock(0)
  /\ superblockRead' = [superblockRead EXCEPT ![which] = TRUE]
  /\ RecvReadSuperblock(which)
  /\ UNCHANGED <<status, superblockResult, journalRead, journalPart, currentVars,
                 replayJournal, queueVars, frozenVars, writeVars, syncReqs>>

\* A checksum that does not match is SuperblockCorruption, and final.
ReadSuperblockResp(which) ==
  /\ superblockRead[which]
  /\ \E result \in {diskSuperblock[which]} \cup IF ReadFaults THEN {Corruption} ELSE {} :
       superblockResult' = [superblockResult EXCEPT ![which] = result]
  /\ superblockRead' = [superblockRead EXCEPT ![which] = FALSE]
  /\ AckReadSuperblock(which)
  /\ UNCHANGED <<status, journalRead, journalPart, currentVars, replayJournal,
                 queueVars, frozenVars, writeVars, syncReqs>>

FinishLoadingSuperblockPhase ==
  /\ status = "LoadingSuperblock"
  /\ BothSuperblocksRead
  /\ status' = "LoadingOther"
  /\ superblock' = SelectSuperblock(superblockResult)
  /\ whichSuperblock' = SelectSuperblockIndex(superblockResult)
  /\ superblockResult' = [which \in Slot |-> None]
  /\ UNCHANGED <<superblockRead, journalRead, journalPart, replayJournal, queueVars,
                 frozenVars, writeVars, syncReqs, diskVars>>

-----------------------------------------------------------------------------
\* Then the journal it names, in one read or in two if it wraps around.

NeedsPart(sb, h) ==
  IF h = "Front" THEN HasFront(Region(sb)) ELSE HasBack(Region(sb))

PartInterval(sb, h) ==
  IF h = "Front" THEN FrontInterval(Region(sb)) ELSE BackInterval(Region(sb))

CanRequestPart(h) ==
  NeedsPart(superblock, h) /\ journalRead[h] = None /\ journalPart[h] = None

PageInJournalReq(h, id) ==
  /\ status = "LoadingOther"
  /\ CanRequestPart(h)
  /\ h = "Back" => ~CanRequestPart("Front")
  /\ id \notin {journalRead[g] : g \in Half}      \* ids are never used again
  /\ journalRead' = [journalRead EXCEPT ![h] = id]
  /\ RecvReadJournal(id, PartInterval(superblock, h))
  /\ UNCHANGED <<status, superblockRead, superblockResult, journalPart, currentVars,
                 replayJournal, queueVars, frozenVars, writeVars, syncReqs>>

\* A bad block discards the answer and leaves the request recorded as pending.
PageInJournalResp(id) ==
  /\ status = "LoadingOther"
  /\ AckReadJournal(id)
  /\ LET range == JournalRangeAt(diskJournal, reqReadJournal[id])
     IN  \/ /\ HasJournalRange(range)
            /\ \E h \in Half :
                 /\ journalRead[h] = id
                 /\ journalPart' = [journalPart EXCEPT ![h] = range]
                 /\ journalRead' = [journalRead EXCEPT ![h] = None]
         \/ /\ ReadFaults \/ ~HasJournalRange(range)
            /\ UNCHANGED <<journalPart, journalRead>>
  /\ UNCHANGED <<status, superblockRead, superblockResult, currentVars,
                 replayJournal, queueVars, frozenVars, writeVars, syncReqs>>

\* A mistake: the parts are put together in the order of their positions.
LoadedRangeByPosition ==
  (IF journalPart["Back"] = None THEN <<>> ELSE journalPart["Back"])
  \o (IF journalPart["Front"] = None THEN <<>> ELSE journalPart["Front"])

LoadedRange ==
  (IF journalPart["Front"] = None THEN <<>> ELSE journalPart["Front"])
  \o (IF journalPart["Back"] = None THEN <<>> ELSE journalPart["Back"])

\* A mistake: the journal just loaded is not counted as written.
FinishLoadingForgettingLength ==
  /\ status = "LoadingOther"
  /\ \A h \in Half : NeedsPart(superblock, h) => journalPart[h] # None
  /\ Parses(LoadedRange)
  /\ status' = "Ready"
  /\ replayJournal' = ParsedEntries(LoadedRange)
  /\ journalPart' = [h \in Half |-> None]
  /\ UNCHANGED <<superblockRead, superblockResult, journalRead, currentVars, queueVars,
                 frozenVars, writeVars, syncReqs, diskVars>>

\* A range that does not parse leaves the committer in this phase.
FinishLoadingOtherPhase ==
  /\ status = "LoadingOther"
  /\ \A h \in Half : NeedsPart(superblock, h) => journalPart[h] # None
  /\ Parses(LoadedRange)
  /\ status' = "Ready"
  /\ replayJournal' = ParsedEntries(LoadedRange)
  /\ journalPart' = [h \in Half |-> None]
  /\ writtenJournalBlocks' = superblock.journalLen
  /\ UNCHANGED <<superblockRead, superblockResult, journalRead, currentVars,
                 inMemoryJournal, inMemoryJournalFrozen, inMemoryWeight,
                 frozenJournalBlocks, frozenVars, writeVars, syncReqs, diskVars>>

\* The head of the replay journal is inserted into the block cache.
JournalReplayOne ==
  /\ status = "Ready"
  /\ replayJournal # <<>>
  /\ replayJournal' = Tail(replayJournal)
  /\ UNCHANGED <<status, loadVars, currentVars, queueVars, frozenVars, writeVars,
                 syncReqs, diskVars>>

IsInitialized == status = "Ready" /\ replayJournal = <<>>

-----------------------------------------------------------------------------
\* Appending

\* A mistake: the blocks of the frozen journal are not counted.
CanAppendIgnoringFrozen(e) ==
  BlockCapacity * writtenJournalBlocks + inMemoryWeight + EntryWeight[e]
    + (IF inMemoryJournal = <<>> THEN HeaderWeight ELSE 0)
  <= BlockCapacity * NumJournalBlocks

CanAppend(e) ==
  BlockCapacity * (writtenJournalBlocks + frozenJournalBlocks)
    + inMemoryWeight + EntryWeight[e]
    + (IF inMemoryJournal = <<>> THEN HeaderWeight ELSE 0)
  <= BlockCapacity * NumJournalBlocks

JournalAppend(e) ==
  /\ IsInitialized
  /\ CanAppend(e)
  /\ inMemoryWeight' = inMemoryWeight + EntryWeight[e]
                         + (IF inMemoryJournal = <<>> THEN HeaderWeight ELSE 0)
  /\ inMemoryJournal' = Append(inMemoryJournal, e)
  /\ UNCHANGED <<status, loadVars, currentVars, replayJournal, inMemoryJournalFrozen,
                 writtenJournalBlocks, frozenJournalBlocks, frozenVars, writeVars,
                 syncReqs, diskVars>>

-----------------------------------------------------------------------------
\* Committing.  doSync runs for a popSync that may not succeed yet, with the
\* client's graphSync, and with graphSync for an insert the journal has no
\* room for.

DoSync(graphSync) ==
  /\ IsInitialized
  /\ \/ graphSync \in GraphSync
     \/ graphSync /\ \E e \in Entry : ~CanAppend(e)

\* The block cache reports that it froze its table.
Freeze ==
  /\ DoSync(TRUE)
  /\ ~isFrozen /\ ~superblockWrite
  /\ inMemoryJournalFrozen' = inMemoryJournalFrozen \o inMemoryJournal
  /\ inMemoryJournal' = <<>>
  /\ frozenJournalBlocks' = frozenJournalBlocks + BlocksFor(inMemoryWeight)
  /\ inMemoryWeight' = 0
  /\ frozenLoc' = None
  /\ frozenJournalPosition' = writtenJournalBlocks
  /\ isFrozen' = TRUE
  /\ syncReqs' = SyncReqs3to2(syncReqs)
  /\ UNCHANGED <<status, loadVars, currentVars, replayJournal, writtenJournalBlocks,
                 writeVars, diskVars>>

\* The block cache has stored the frozen table, never where the persistent one is.
ReceiveFrozenLoc(loc) ==
  /\ status = "Ready"
  /\ isFrozen /\ frozenLoc = None
  /\ loc # superblock.indirectionTableLoc
  /\ frozenLoc' = loc
  /\ UNCHANGED <<status, loadVars, currentVars, replayJournal, queueVars, isFrozen,
                 frozenJournalPosition, writeVars, syncReqs, diskVars>>

\* Mistakes: only a client that asks for no graph sync advances the location;
\* the log is advanced whether or not there is a frozen table.
AdvancingLocationWithoutGraph == isFrozen /\ frozenLoc # None /\ DoSync(FALSE)

AdvancingLogAnyway == DoSync(FALSE)

\* tryAdvanceLocation once the frozen table is stored, tryAdvanceLog without one.
AdvancingLocation == isFrozen /\ frozenLoc # None /\ \E g \in BOOLEAN : DoSync(g)
AdvancingLog      == ~isFrozen /\ DoSync(FALSE)

JournalToWrite == inMemoryJournalFrozen # <<>> \/ inMemoryJournal # <<>>

\* Frozen entries first; the write wraps around in two requests if it must.
WriteOutJournal ==
  /\ AdvancingLocation \/ AdvancingLog
  /\ ~superblockWrite
  /\ JournalToWrite
  /\ LET doingFrozen == inMemoryJournalFrozen # <<>>
         entries     == IF doingFrozen THEN inMemoryJournalFrozen ELSE inMemoryJournal
         numBlocks   == IF doingFrozen THEN frozenJournalBlocks
                                       ELSE BlocksFor(inMemoryWeight)
         range       == MarshallJournalEntries(entries, numBlocks)
         start       == JournalPosAdd(superblock.journalStart, writtenJournalBlocks)
     IN  /\ \/ /\ start + numBlocks <= NumJournalBlocks
               /\ \E id \in ReqId :
                    /\ RecvWriteJournal(id, start, range)
                    /\ outstandingJournalWrites' = outstandingJournalWrites \cup {id}
            \/ /\ start + numBlocks > NumJournalBlocks
               /\ \E id1, id2 \in ReqId :
                    /\ RecvWriteJournal2(id1, id2, start, range)
                    /\ outstandingJournalWrites' =
                         outstandingJournalWrites \cup {id1, id2}
         /\ writtenJournalBlocks' = writtenJournalBlocks + numBlocks
         /\ IF doingFrozen
              THEN /\ inMemoryJournalFrozen' = <<>>
                   /\ frozenJournalBlocks' = 0
                   /\ frozenJournalPosition' = writtenJournalBlocks'
                   /\ UNCHANGED <<inMemoryJournal, inMemoryWeight, syncReqs>>
              ELSE /\ inMemoryJournal' = <<>>
                   /\ inMemoryWeight' = 0
                   /\ syncReqs' = SyncReqs3to2(syncReqs)
                   /\ UNCHANGED <<inMemoryJournalFrozen, frozenJournalBlocks,
                                  frozenJournalPosition>>
  /\ UNCHANGED <<status, loadVars, currentVars, replayJournal, frozenLoc, isFrozen,
                 newSuperblock, commitStatus, superblockWrite>>

\* A mistake: the identifier stays in the set of outstanding writes.
WriteBackJournalRespKeepingId(id) ==
  /\ status = "Ready"
  /\ AckWriteJournal(id)
  /\ UNCHANGED <<status, loadVars, currentVars, replayJournal, queueVars, frozenVars,
                 writeVars, syncReqs>>

WriteBackJournalResp(id) ==
  /\ status = "Ready"
  /\ AckWriteJournal(id)
  /\ outstandingJournalWrites' = outstandingJournalWrites \ {id}
  /\ UNCHANGED <<status, loadVars, currentVars, replayJournal, queueVars, frozenVars,
                 newSuperblock, commitStatus, superblockWrite, syncReqs>>

\* A mistake: the superblock does not wait for the journal.
CanWriteSuperblockEarly == ~superblockWrite /\ ~JournalToWrite

\* The superblock goes to the other slot, once every journal write is acknowledged.
CanWriteSuperblock ==
  /\ ~superblockWrite
  /\ ~JournalToWrite
  /\ outstandingJournalWrites = {}

\* A mistake: the superblock is written over the current one.
SendSuperblockInPlace(sb, commit) ==
  /\ newSuperblock' = sb
  /\ commitStatus' = commit
  /\ superblockWrite' = TRUE
  /\ RecvWriteSuperblock(whichSuperblock, sb)
  /\ UNCHANGED <<status, loadVars, currentVars, replayJournal, queueVars, frozenVars,
                 outstandingJournalWrites, syncReqs>>

SendSuperblock(sb, commit) ==
  /\ newSuperblock' = sb
  /\ commitStatus' = commit
  /\ superblockWrite' = TRUE
  /\ RecvWriteSuperblock(1 - whichSuperblock, sb)
  /\ UNCHANGED <<status, loadVars, currentVars, replayJournal, queueVars, frozenVars,
                 outstandingJournalWrites, syncReqs>>

WriteOutSuperblockAdvanceLog ==
  /\ AdvancingLog
  /\ CanWriteSuperblock
  /\ SendSuperblock([counter |-> IncrementSuperblockCounter(superblock.counter),
                     journalStart |-> superblock.journalStart,
                     journalLen |-> writtenJournalBlocks,
                     indirectionTableLoc |-> superblock.indirectionTableLoc],
                    "CommitAdvanceLog")

\* A mistake: the journal still starts before what the frozen table contains.
AdvanceLocationKeepingJournal ==
  /\ AdvancingLocation
  /\ CanWriteSuperblock
  /\ SendSuperblock([counter |-> IncrementSuperblockCounter(superblock.counter),
                     journalStart |-> superblock.journalStart,
                     journalLen |-> writtenJournalBlocks,
                     indirectionTableLoc |-> frozenLoc],
                    "CommitAdvanceLocation")

WriteOutSuperblockAdvanceLocation ==
  /\ AdvancingLocation
  /\ CanWriteSuperblock
  /\ SendSuperblock([counter |-> IncrementSuperblockCounter(superblock.counter),
                     journalStart |-> JournalPosAdd(superblock.journalStart,
                                                    frozenJournalPosition),
                     journalLen |-> writtenJournalBlocks - frozenJournalPosition,
                     indirectionTableLoc |-> frozenLoc],
                    "CommitAdvanceLocation")

\* The acknowledgement makes newSuperblock the current one.
WriteBackSuperblockResp ==
  /\ status = "Ready" /\ superblockWrite
  /\ AckWriteSuperblock(1 - whichSuperblock)
  /\ superblockWrite' = FALSE
  /\ superblock' = newSuperblock
  /\ newSuperblock' = None
  /\ whichSuperblock' = 1 - whichSuperblock
  /\ syncReqs' = SyncReqs2to1(syncReqs)
  /\ commitStatus' = "CommitNone"
  /\ IF commitStatus = "CommitAdvanceLocation"
       THEN /\ writtenJournalBlocks' = writtenJournalBlocks - frozenJournalPosition
            /\ frozenJournalPosition' = 0
            /\ frozenLoc' = None
            /\ isFrozen' = FALSE
       ELSE UNCHANGED <<writtenJournalBlocks, frozenVars>>
  /\ UNCHANGED <<status, loadVars, replayJournal, inMemoryJournal,
                 inMemoryJournalFrozen, inMemoryWeight, frozenJournalBlocks,
                 outstandingJournalWrites>>

-----------------------------------------------------------------------------
\* Sync requests

\* freeId: one more than the largest id in use, unless ids have run out.
PushSync ==
  /\ \E maxId \in DOMAIN syncReqs \cup {0} :
       /\ \A id \in DOMAIN syncReqs : id <= maxId
       /\ maxId < MaxSyncId
       /\ Cardinality(DOMAIN syncReqs) < MaxSyncReqs
       /\ syncReqs' = PushReq(syncReqs, maxId + 1)
  /\ UNCHANGED <<status, loadVars, currentVars, replayJournal, queueVars, frozenVars,
                 writeVars, diskVars>>

PopSync(id) ==
  /\ id \in DOMAIN syncReqs
  /\ syncReqs[id] = "State1"
  /\ syncReqs' = PopReq(syncReqs, id)
  /\ UNCHANGED <<status, loadVars, currentVars, replayJournal, queueVars, frozenVars,
                 writeVars, diskVars>>
=============================================================================
