----------------------- MODULE JournalSystemInvariant -----------------------
(***************************************************************************)
(* The inductive invariant of JournalSystem: TypeOK, and what has to be    *)
(* known of the committer in each status for the safety invariants to be   *)
(* kept by every step; and a second one, on top of it, about the contents  *)
(* of the journal.                                                         *)
(***************************************************************************)
EXTENDS JournalSystem

\* Until the committer is ready it has written nothing and keeps no journal.
LoadingInv ==
  status # "Ready" =>
    /\ writtenJournalBlocks = 0 /\ frozenJournalBlocks = 0 /\ inMemoryWeight = 0
    /\ frozenLoc = None /\ ~isFrozen /\ frozenJournalPosition = 0
    /\ ~superblockWrite
    /\ outstandingJournalWrites = {}

\* What has been read of the superblocks is what is on disk.
SuperblockReadInv ==
  /\ status = "LoadingSuperblock" =>
       \A which \in Slot :
         superblockResult[which] \in {None, Corruption, diskSuperblock[which]}
  /\ status # "LoadingSuperblock" => superblock = diskSuperblock[whichSuperblock]

\* The reads of the journal in flight are those the committer has a use for.
JournalReadInv ==
  \A id \in DOMAIN reqReadJournal :
    /\ status = "LoadingOther"
    /\ \E h \in Half : /\ NeedsPart(superblock, h)
                       /\ journalRead[h] = id /\ journalPart[h] = None
                       /\ reqReadJournal[id] = PartInterval(superblock, h)

\* With no superblock write in flight, recovery would choose the current one.
IdleInv ==
  ~superblockWrite =>
    /\ newSuperblock = None /\ commitStatus = "CommitNone"
    /\ reqWriteSuperblock = [which \in Slot |-> None]
    /\ status # "LoadingSuperblock" =>
         whichSuperblock = SelectSuperblockIndex(diskSuperblock)

\* What the two kinds of commit write.
NewSuperblockInv ==
  /\ newSuperblock \in Superblock
  /\ newSuperblock.counter = IncrementSuperblockCounter(superblock.counter)
  /\ \/ /\ commitStatus = "CommitAdvanceLog"
        /\ ~isFrozen
        /\ newSuperblock.journalStart = superblock.journalStart
        /\ newSuperblock.journalLen = writtenJournalBlocks
        /\ newSuperblock.indirectionTableLoc = superblock.indirectionTableLoc
     \/ /\ commitStatus = "CommitAdvanceLocation"
        /\ isFrozen
        /\ newSuperblock.journalStart =
             JournalPosAdd(superblock.journalStart, frozenJournalPosition)
        /\ newSuperblock.journalLen = writtenJournalBlocks - frozenJournalPosition
        /\ newSuperblock.indirectionTableLoc = frozenLoc

\* A superblock write is for the other slot, and no journal write is in flight.
CommitInv ==
  superblockWrite =>
    /\ NewSuperblockInv
    /\ reqWriteSuperblock =
         [which \in Slot |-> IF which = whichSuperblock THEN None ELSE newSuperblock]
    /\ \/ diskSuperblock[1 - whichSuperblock] = newSuperblock
       \/ whichSuperblock = SelectSuperblockIndex(diskSuperblock)
    /\ outstandingJournalWrites = {}

\* The committed journal is a prefix of the written one, and there is room on
\* disk for what is frozen and what is in memory.
SizeInv ==
  /\ status = "Ready" => superblock.journalLen <= writtenJournalBlocks
  /\ frozenJournalPosition <= writtenJournalBlocks
  /\ writtenJournalBlocks + frozenJournalBlocks + BlocksFor(inMemoryWeight)
       <= NumJournalBlocks

\* The journal writes the committer waits for are in flight.
QueueInv == outstandingJournalWrites = DOMAIN reqWriteJournals

\* The inductive invariant.
IInv ==
  /\ TypeOK
  /\ LoadingInv
  /\ SuperblockReadInv
  /\ JournalReadInv
  /\ IdleInv
  /\ CommitInv
  /\ SizeInv
  /\ QueueInv
  /\ InFlightOutsidePersistent
-----------------------------------------------------------------------------
(***************************************************************************)
(* What the committer and the disk hold, for the properties about contents *)
(* (PersistentJournalReadable, JournalFits) and the refinement.            *)
(***************************************************************************)

\* Entries are kept only by a ready committer; those of the frozen table come
\* right after the blocks it makes obsolete, and no commit overtakes them.
EntriesInv ==
  /\ replayJournal \in Seq(Entry)
  /\ status # "Ready" => /\ inMemoryJournal = <<>> /\ inMemoryJournalFrozen = <<>>
                         /\ replayJournal = <<>>
  /\ inMemoryJournalFrozen # <<>> =>
       /\ isFrozen /\ ~superblockWrite
       /\ frozenJournalPosition = writtenJournalBlocks
  /\ ~isFrozen => frozenLoc = None /\ frozenJournalPosition = 0

\* What has been read of the journal is what is on disk, each half in its place.
LoadedInv ==
  /\ \A h \in Half :
       journalPart[h] # None =>
         /\ status = "LoadingOther" /\ NeedsPart(superblock, h)
         /\ journalPart[h] = JournalRangeAt(diskJournal, PartInterval(superblock, h))
  /\ journalRead["Front"] # None => journalRead["Front"] # journalRead["Back"]
  /\ status = "LoadingSuperblock" => journalRead = [h \in Half |-> None]

\* The blocks the frozen table makes obsolete, and those written since.
ObsoleteInterval ==
  [start |-> superblock.journalStart, len |-> frozenJournalPosition]

RecentInterval ==
  [start |-> JournalPosAdd(superblock.journalStart, frozenJournalPosition),
   len   |-> writtenJournalBlocks - frozenJournalPosition]

\* Every part of the journal that a commit may make the journal is whole chunks.
ChunksInv ==
  /\ Readable(PersistentInterval)
  /\ status = "Ready" => Readable(ObsoleteInterval) /\ Readable(RecentInterval)

ContentsInv ==
  /\ EntriesInv
  /\ LoadedInv
  /\ ChunksInv
  /\ JournalFits
=============================================================================
