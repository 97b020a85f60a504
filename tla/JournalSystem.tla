--------------------------- MODULE JournalSystem ---------------------------
(***************************************************************************)
(* The committer and its disk (BlockCacheSystem/JournalSystem): what the   *)
(* handlers of the store do to them, the disk's own steps, and crashes.    *)
(* The block cache is the environment: it freezes its table, stores it,    *)
(* and lets an insertion or a replay go through, at moments of its own.    *)
(***************************************************************************)
EXTENDS Committer

vars == <<committerVars, diskVars>>

Init == Constructor /\ DiskInit

\* The machine starts over; the disk keeps what has reached it.
Crash == DiskCrash /\ Restart

Initialization ==
  \/ \E which \in Slot : PageInSuperblockReq(which)
  \/ FinishLoadingSuperblockPhase
  \/ \E h \in Half, id \in ReqId : PageInJournalReq(h, id)
  \/ FinishLoadingOtherPhase
  \/ JournalReplayOne

Commit ==
  \/ Freeze
  \/ WriteOutJournal
  \/ WriteOutSuperblockAdvanceLog
  \/ WriteOutSuperblockAdvanceLocation

Response ==
  \/ \E which \in Slot : ReadSuperblockResp(which)
  \/ \E id \in ReqId : PageInJournalResp(id)
  \/ \E id \in ReqId : WriteBackJournalResp(id)
  \/ WriteBackSuperblockResp
  \/ \E loc \in Loc : ReceiveFrozenLoc(loc)

DiskInternal ==
  /\ \E which \in Slot : ProcessWriteSuperblock(which)
  /\ UNCHANGED committerVars

Next ==
  \/ Initialization
  \/ \E e \in Entry : JournalAppend(e)
  \/ Commit
  \/ Response
  \/ PushSync
  \/ \E id \in SyncId : PopSync(id)
  \/ DiskInternal
  \/ Crash

Spec == Init /\ [][Next]_vars

\* Every variable but replayJournal, whose contents the refinement of
\* JournalView pins down, stays in its type (the fields of Committer and
\* JournalDisk.Variables, the widths of Journalist.WF).
TypeOK == CommitterTypeOK /\ DiskTypeOK

-----------------------------------------------------------------------------
\* What recovery would find on the disk now

PersistentSuperblock == SelectSuperblock(diskSuperblock)

PersistentInterval == Region(PersistentSuperblock)

WrittenInterval == [start |-> superblock.journalStart, len |-> writtenJournalBlocks]

\* Some superblock write has taken effect that the committer has not heard of.
HasUpdateOccurredUnacked ==
  superblockWrite /\ diskSuperblock[1 - whichSuperblock] = newSuperblock

Readable(interval) ==
  LET range == JournalRangeAt(diskJournal, interval)
  IN  HasJournalRange(range) /\ Parses(range)

-----------------------------------------------------------------------------
\* Invariants

\* No block being written belongs to the journal a crash would have to
\* replay: WriteOutJournal (CommitterImpl) starts past writtenJournalLen, and
\* AdvanceLocation hands blocks back to the ring only with no write in flight.
InFlightOutsidePersistent ==
  \A i \in InFlight : ~InCyclicRange(i, PersistentInterval)

\* Recovery reads nothing but the committed journal (PageInJournalReqFront
\* and ..Back), so what a torn write left elsewhere cannot matter.
ReadsInsidePersistent ==
  \A id \in DOMAIN reqReadJournal : \A i \in Pos :
     InCyclicRange(i, reqReadJournal[id]) => InCyclicRange(i, PersistentInterval)

\* A superblock write never overwrites the superblock recovery would choose
\* (writeOutSuperblockAdvanceLog/Location alternate the slots, and the wrapping
\* counter of IncrementSuperblockCounter still tells the newer one).
SuperblockWriteSpares ==
  \A which \in Slot :
    reqWriteSuperblock[which] # None =>
      \/ which # SelectSuperblockIndex(diskSuperblock)
      \/ diskSuperblock[which] = reqWriteSuperblock[which]

\* What the committer takes for committed is what recovery would choose,
\* except between a superblock write taking effect and its acknowledgement
\* (writeBackSuperblockResp).
CommitterKnowsCommit ==
  status = "Ready" =>
    PersistentSuperblock = IF HasUpdateOccurredUnacked THEN newSuperblock ELSE superblock

\* The committed journal is always made of whole chunks with good checksums,
\* so that parseJournals succeeds after any crash.
PersistentJournalReadable == Readable(PersistentInterval)

\* The journal always fits in its region however it is cut into blocks
\* (Journalist.Inv): the counters kept by append, freeze and the two package
\* methods are never below what the entries need.
JournalFits ==
  /\ BlockCapacity * (writtenJournalBlocks + frozenJournalBlocks) + inMemoryWeight
       <= BlockCapacity * NumJournalBlocks
  /\ WeightJournalEntries(inMemoryJournal) = inMemoryWeight
  /\ WeightJournalEntries(inMemoryJournalFrozen) <= BlockCapacity * frozenJournalBlocks

\* The writes the committer waits for are in flight: when tryAdvanceLog or
\* tryAdvanceLocation answer "wait", Framework.cpp's waitForOne has a task.
WaitsForInFlight ==
  /\ outstandingJournalWrites = DOMAIN reqWriteJournals
  /\ \A which \in Slot :
       reqWriteSuperblock[which] # None <=> superblockWrite /\ which # whichSuperblock

\* A location commit is in flight only for the table that is still frozen, and
\* a log commit only while none is: Freeze and the commits exclude each other
\* (doSync of CoordinationImpl).
CommitMatchesFreeze ==
  /\ commitStatus = "CommitAdvanceLocation" =>
       isFrozen /\ newSuperblock.indirectionTableLoc = frozenLoc
  /\ commitStatus = "CommitAdvanceLog" =>
       ~isFrozen /\ newSuperblock.indirectionTableLoc = superblock.indirectionTableLoc

-----------------------------------------------------------------------------
\* Action properties

\* Committed blocks are immutable: as long as recovery would choose the same
\* superblock, no step, not even a crash, changes a block of its journal.
CommittedBlocksStable ==
  [][PersistentSuperblock' = PersistentSuperblock =>
       \A i \in Pos : InCyclicRange(i, PersistentInterval) =>
                        diskJournal'[i] = diskJournal[i]]_vars

\* What recovery would choose changes only to the superblock the committer is
\* writing, and only while it waits for that write.
CommitIsAtomic ==
  [][PersistentSuperblock' # PersistentSuperblock =>
       superblockWrite /\ PersistentSuperblock' = newSuperblock]_vars
=============================================================================
