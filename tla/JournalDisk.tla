---------------------------- MODULE JournalDisk ----------------------------
(***************************************************************************)
(* The disk as the committer sees it (BlockCacheSystem/JournalDisk): two   *)
(* superblock sectors, the journal ring, and the requests in flight.       *)
(*                                                                         *)
(* A journal write takes effect in diskJournal when it is requested, but a *)
(* crash before its acknowledgement may tear its blocks.  A superblock     *)
(* write takes effect, atomically, at some moment between its request and  *)
(* its acknowledgement, or never if the machine crashes first.             *)
(*                                                                         *)
(* Superblock requests need no identifier: each sector has its own         *)
(* location and the committer keeps at most one request for it.            *)
(***************************************************************************)
EXTENDS JournalBlocks, Maps

CONSTANTS
  Loc,                \* locations of an indirection table
  ReqId,              \* identifiers of disk requests
  CounterModulus,     \* 2^64: the superblock counter is a uint64
  ReadFaults          \* whether a read may come back with a bad checksum

\* With two or fewer values a counter would be its own successor's successor.
ASSUME CounterAssumption == CounterModulus \in Nat /\ CounterModulus >= 3
ASSUME DiskNoneAssumption == None \notin Loc /\ None \notin ReqId
ASSUME ReadFaultsAssumption == ReadFaults \in BOOLEAN

Slot == {0, 1}

Superblock == [counter : 0 .. (CounterModulus - 1), journalStart : Pos,
               journalLen : 0 .. NumJournalBlocks, indirectionTableLoc : Loc]

ASSUME SuperblockNoneAssumption == None \notin Superblock

VARIABLES
  diskSuperblock,      \* [Slot -> Superblock]
  diskJournal,         \* [Pos -> a block, or None if unreadable]
  reqReadSuperblock,   \* the slots with a read in flight
  reqReadJournal,      \* reads of the journal in flight: id -> interval
  reqWriteSuperblock,  \* [Slot -> the superblock being written, or None]
  reqWriteJournals     \* writes of the journal in flight: id -> interval

diskVars == <<diskSuperblock, diskJournal, reqReadSuperblock, reqReadJournal,
              reqWriteSuperblock, reqWriteJournals>>

DiskTypeOK ==
  /\ diskSuperblock \in [Slot -> Superblock]
  /\ diskJournal \in [Pos -> Block \cup {None}]
  /\ reqReadSuperblock \in SUBSET Slot
  /\ DOMAIN reqReadJournal \in SUBSET ReqId
  /\ \A id \in DOMAIN reqReadJournal : reqReadJournal[id] \in JournalInterval
  /\ reqWriteSuperblock \in [Slot -> Superblock \cup {None}]
  /\ DOMAIN reqWriteJournals \in SUBSET ReqId
  /\ \A id \in DOMAIN reqWriteJournals : reqWriteJournals[id] \in JournalInterval

\* Mkfs writes the same superblock in both sectors, with an empty journal.
DiskInit ==
  /\ \E loc \in Loc :
       diskSuperblock = [which \in Slot |-> [counter |-> 0, journalStart |-> 0,
                                journalLen |-> 0, indirectionTableLoc |-> loc]]
  /\ diskJournal = [i \in Pos |-> None]
  /\ reqReadSuperblock = {} /\ reqReadJournal = <<>>
  /\ reqWriteSuperblock = [which \in Slot |-> None] /\ reqWriteJournals = <<>>

\* A mistake: the counter stays at its maximum.
SaturatingCounter(i) == IF i = CounterModulus - 1 THEN i ELSE i + 1

IncrementSuperblockCounter(i) == IF i = CounterModulus - 1 THEN 0 ELSE i + 1

\* The slot recovery takes: the one whose counter follows the other's.
SelectSuperblockIndex(sb) ==
  IF sb[1].counter = IncrementSuperblockCounter(sb[0].counter) THEN 1 ELSE 0

SelectSuperblock(sb) == sb[SelectSuperblockIndex(sb)]

Region(sb) == [start |-> sb.journalStart, len |-> sb.journalLen]

-----------------------------------------------------------------------------
\* Reads

RecvReadSuperblock(which) ==
  /\ reqReadSuperblock' = reqReadSuperblock \cup {which}
  /\ UNCHANGED <<diskSuperblock, diskJournal, reqReadJournal,
                 reqWriteSuperblock, reqWriteJournals>>

AckReadSuperblock(which) ==
  /\ which \in reqReadSuperblock
  /\ reqReadSuperblock' = reqReadSuperblock \ {which}
  /\ UNCHANGED <<diskSuperblock, diskJournal, reqReadJournal,
                 reqWriteSuperblock, reqWriteJournals>>

RecvReadJournal(id, interval) ==
  /\ id \notin DOMAIN reqReadJournal
  /\ reqReadJournal' = Put(reqReadJournal, id, interval)
  /\ UNCHANGED <<diskSuperblock, diskJournal, reqReadSuperblock,
                 reqWriteSuperblock, reqWriteJournals>>

AckReadJournal(id) ==
  /\ id \in DOMAIN reqReadJournal
  /\ reqReadJournal' = Without(reqReadJournal, id)
  /\ UNCHANGED <<diskSuperblock, diskJournal, reqReadSuperblock,
                 reqWriteSuperblock, reqWriteJournals>>

-----------------------------------------------------------------------------
\* Writes

RecvWriteSuperblock(which, sb) ==
  /\ reqWriteSuperblock' = [reqWriteSuperblock EXCEPT ![which] = sb]
  /\ UNCHANGED <<diskSuperblock, diskJournal, reqReadSuperblock,
                 reqReadJournal, reqWriteJournals>>

\* The sector is replaced, atomically.
ProcessWriteSuperblock(which) ==
  /\ reqWriteSuperblock[which] # None
  /\ diskSuperblock' = [diskSuperblock EXCEPT ![which] = reqWriteSuperblock[which]]
  /\ UNCHANGED <<diskJournal, reqReadSuperblock, reqReadJournal,
                 reqWriteSuperblock, reqWriteJournals>>

AckWriteSuperblock(which) ==
  /\ reqWriteSuperblock[which] # None
  /\ diskSuperblock[which] = reqWriteSuperblock[which]
  /\ reqWriteSuperblock' = [reqWriteSuperblock EXCEPT ![which] = None]
  /\ UNCHANGED <<diskSuperblock, diskJournal, reqReadSuperblock,
                 reqReadJournal, reqWriteJournals>>

\* One write of a range that fits before the end of the region.
RecvWriteJournal(id, start, range) ==
  /\ id \notin DOMAIN reqWriteJournals
  /\ reqWriteJournals' = Put(reqWriteJournals, id,
                              [start |-> start, len |-> Len(range)])
  /\ diskJournal' = CyclicSplice(diskJournal, start, range)
  /\ UNCHANGED <<diskSuperblock, reqReadSuperblock, reqReadJournal, reqWriteSuperblock>>

\* Two writes, of the part before the end and of the part that wraps around.
RecvWriteJournal2(id1, id2, start, range) ==
  /\ id1 # id2
  /\ {id1, id2} \cap DOMAIN reqWriteJournals = {}
  /\ LET whole == [start |-> start, len |-> Len(range)]
     IN  reqWriteJournals' = Put(Put(reqWriteJournals, id1, FrontInterval(whole)),
                                 id2, BackInterval(whole))
  /\ diskJournal' = CyclicSplice(diskJournal, start, range)
  /\ UNCHANGED <<diskSuperblock, reqReadSuperblock, reqReadJournal, reqWriteSuperblock>>

AckWriteJournal(id) ==
  /\ id \in DOMAIN reqWriteJournals
  /\ reqWriteJournals' = Without(reqWriteJournals, id)
  /\ UNCHANGED <<diskSuperblock, diskJournal, reqReadSuperblock,
                 reqReadJournal, reqWriteSuperblock>>

-----------------------------------------------------------------------------
\* A crash forgets the queues; any block being written may be left unreadable.

InFlight == {i \in Pos : \E id \in DOMAIN reqWriteJournals :
                           InCyclicRange(i, reqWriteJournals[id])}

DiskCrash ==
  /\ \E torn \in SUBSET InFlight :
       diskJournal' = [i \in Pos |-> IF i \in torn THEN None ELSE diskJournal[i]]
  /\ reqReadSuperblock' = {} /\ reqReadJournal' = <<>>
  /\ reqWriteSuperblock' = [which \in Slot |-> None] /\ reqWriteJournals' = <<>>
  /\ UNCHANGED diskSuperblock
=============================================================================
