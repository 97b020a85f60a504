------------------------ MODULE JournalSystemProofs ------------------------
(***************************************************************************)
(* IInv is an inductive invariant of JournalSystem, and it implies the     *)
(* safety properties of the committer and its disk: one lemma per action   *)
(* shows that the action keeps IInv.  ContentsInv is invariant on top of   *)
(* it, so that what a crash leaves always parses and the journal always    *)
(* fits; with it JournalSystem implements JournalView.  HistoryInv is an   *)
(* invariant of HSpec, by which nothing a sync has covered, and nothing    *)
(* that was ever recoverable, is lost: each step is taken for the step of  *)
(* JournalView it was shown to be.                                         *)
(***************************************************************************)
EXTENDS JournalDurability, JournalBlocksProofs

USE DEF loadVars, currentVars, queueVars, frozenVars, writeVars, diskVars

-----------------------------------------------------------------------------
\* Regions

\* The superblock's region is an interval of the ring.
LEMMA RegionType ==
  ASSUME NEW sb \in Superblock
  PROVE  Region(sb) \in JournalInterval
  BY DEF Region, Superblock, JournalInterval

-----------------------------------------------------------------------------
\* Superblock counters

LEMMA IncrementType ==
  ASSUME NEW i \in 0 .. (CounterModulus - 1)
  PROVE  IncrementSuperblockCounter(i) \in 0 .. (CounterModulus - 1)
  BY CounterAssumption DEF IncrementSuperblockCounter

LEMMA SelectType ==
  ASSUME NEW sb
  PROVE  SelectSuperblockIndex(sb) \in Slot
  BY DEF SelectSuperblockIndex, Slot

\* The slot whose counter follows the other's is selected, wherever it is and
\* wherever the counter wraps around.
LEMMA SelectNewer ==
  ASSUME NEW sb \in [Slot -> Superblock], NEW which \in Slot,
         sb[1 - which].counter = IncrementSuperblockCounter(sb[which].counter)
  PROVE  SelectSuperblockIndex(sb) = 1 - which
<1>1. \A w \in Slot : sb[w].counter \in 0 .. (CounterModulus - 1)
  BY DEF Superblock
<1>2. CASE which = 0
  BY <1>2 DEF SelectSuperblockIndex
<1>3. CASE which = 1
  <2>1. sb[1].counter # IncrementSuperblockCounter(sb[0].counter)
    BY <1>1, <1>3, CounterAssumption DEF IncrementSuperblockCounter, Slot
  <2>. QED  BY <1>3, <2>1 DEF SelectSuperblockIndex
<1>. QED  BY <1>2, <1>3 DEF Slot

-----------------------------------------------------------------------------
\* Consequences of IInv

\* After the loading phase the committer knows a superblock that is on disk.
LEMMA LoadedSuperblock ==
  ASSUME IInv, status # "LoadingSuperblock"
  PROVE  /\ superblock \in Superblock
         /\ superblock = diskSuperblock[whichSuperblock]
  BY DEF IInv, TypeOK, CommitterTypeOK, DiskTypeOK, SuperblockReadInv

\* With no superblock write in flight it is the one recovery would choose.
LEMMA IdlePersistent ==
  ASSUME IInv, status # "LoadingSuperblock", ~superblockWrite
  PROVE  /\ PersistentSuperblock = superblock
         /\ PersistentInterval = Region(superblock)
  BY LoadedSuperblock DEF IInv, IdleInv, PersistentSuperblock, PersistentInterval,
     SelectSuperblock

\* The intervals the committer reads, and that they lie in the region.
LEMMA PartType ==
  ASSUME NEW sb \in Superblock, NEW h \in Half, NeedsPart(sb, h)
  PROVE  /\ PartInterval(sb, h) \in JournalInterval
         /\ \A i \in Pos : InCyclicRange(i, PartInterval(sb, h))
                             => InCyclicRange(i, Region(sb))
<1>. DEFINE p == sb.journalStart
            n == sb.journalLen
<1>1. p \in Pos /\ n \in 0 .. NumJournalBlocks
  BY DEF Superblock
<1>2. Region(sb) = [start |-> p, len |-> n]
  BY DEF Region
<1>3. CASE h = "Front"
  <2>1. PartInterval(sb, h) = FrontInterval([start |-> p, len |-> n])
    BY <1>2, <1>3 DEF PartInterval
  <2>2. FrontInterval([start |-> p, len |-> n]) \in JournalInterval
    BY <1>1, NumJournalBlocksAssumption DEF FrontInterval, JournalInterval, Pos
  <2>3. \A i \in Pos : InCyclicRange(i, FrontInterval([start |-> p, len |-> n]))
                         => InCyclicRange(i, [start |-> p, len |-> n])
    BY <1>1, NumJournalBlocksAssumption DEF FrontInterval, InCyclicRange, Pos
  <2>. QED  BY <1>2, <2>1, <2>2, <2>3
<1>4. CASE h = "Back"
  <2>1. PartInterval(sb, h) = BackInterval([start |-> p, len |-> n])
    BY <1>2, <1>4 DEF PartInterval
  <2>2. p + n > NumJournalBlocks
    BY <1>2, <1>4 DEF NeedsPart, HasBack
  <2>. QED  BY <1>1, <1>2, <2>1, <2>2, WrappedPartsType, WrappedPartsInside
<1>. QED  BY <1>3, <1>4 DEF Half

\* Where the next journal write starts, and that it fits.
LEMMA RoomOnDisk ==
  ASSUME IInv
  PROVE  /\ BlocksFor(inMemoryWeight) \in 0 .. NumJournalBlocks
         /\ writtenJournalBlocks + BlocksFor(inMemoryWeight) <= NumJournalBlocks
         /\ writtenJournalBlocks + frozenJournalBlocks <= NumJournalBlocks
<1>1. inMemoryWeight \in Nat
  BY WeightAssumption, NumJournalBlocksAssumption DEF IInv, TypeOK, CommitterTypeOK
<1>2. BlocksFor(inMemoryWeight) \in Nat
  BY <1>1, BlocksForType
<1>. QED  BY <1>2, NumJournalBlocksAssumption DEF IInv, TypeOK, CommitterTypeOK, SizeInv

-----------------------------------------------------------------------------
LEMMA ConstructorType == Constructor => CommitterTypeOK
<1>. SUFFICES ASSUME Constructor PROVE CommitterTypeOK
  OBVIOUS
<1>1. 0 \in 0 .. (BlockCapacity * NumJournalBlocks)
  BY WeightAssumption, NumJournalBlocksAssumption
<1>2. DOMAIN syncReqs = {}
  BY DEF Constructor
<1>3. /\ superblockRead \in [Slot -> BOOLEAN]
      /\ superblockResult \in [Slot -> Superblock \cup {None, Corruption}]
      /\ journalRead \in [Half -> ReqId \cup {None}]
      /\ DOMAIN journalPart = Half
  BY DEF Constructor
<1>4. <<>> \in Seq(Entry)
  OBVIOUS
<1>5. /\ syncReqs = <<>> /\ \A id \in DOMAIN syncReqs : syncReqs[id] \in SyncReqStatus
  BY <1>2 DEF Constructor
<1>6. /\ writtenJournalBlocks \in 0 .. NumJournalBlocks
      /\ frozenJournalBlocks \in 0 .. NumJournalBlocks
      /\ frozenJournalPosition \in 0 .. NumJournalBlocks
      /\ inMemoryWeight \in 0 .. (BlockCapacity * NumJournalBlocks)
  BY <1>1, NumJournalBlocksAssumption DEF Constructor
<1>7. /\ isFrozen \in BOOLEAN /\ superblockWrite \in BOOLEAN
      /\ whichSuperblock \in Slot /\ status \in {"LoadingSuperblock", "LoadingOther", "Ready"}
      /\ commitStatus \in {"CommitNone", "CommitAdvanceLog", "CommitAdvanceLocation"}
  BY DEF Constructor, Slot
<1>. QED  BY <1>2, <1>3, <1>4, <1>5, <1>6, <1>7 DEF Constructor, CommitterTypeOK

LEMMA InitIInv == Init => IInv
<1>. SUFFICES ASSUME Init PROVE IInv
  OBVIOUS
<1>1. CommitterTypeOK
  BY ConstructorType DEF Init
<1>2. DiskTypeOK
  BY NumJournalBlocksAssumption, CounterAssumption
     DEF Init, DiskInit, DiskTypeOK, Superblock, Pos, Slot
<1>3. SizeInv
  BY BlocksForZero, NumJournalBlocksAssumption DEF Init, Constructor, SizeInv
<1>4. InFlightOutsidePersistent
  BY DEF Init, DiskInit, InFlightOutsidePersistent, InFlight
<1>. QED
  BY <1>1, <1>2, <1>3, <1>4 DEF Init, Constructor, DiskInit, IInv, TypeOK, LoadingInv,
     SuperblockReadInv, JournalReadInv, IdleInv, CommitInv, QueueInv

-----------------------------------------------------------------------------
\* Loading

LEMMA PageInSuperblockReqKeepsIInv ==
  ASSUME IInv, NEW which \in Slot, PageInSuperblockReq(which)
  PROVE  IInv'
<1>1. CommitterTypeOK'
  BY DEF IInv, TypeOK, CommitterTypeOK, PageInSuperblockReq
<1>2. DiskTypeOK'
  BY DEF IInv, TypeOK, DiskTypeOK, PageInSuperblockReq, RecvReadSuperblock
<1>3. InFlightOutsidePersistent'
  BY DEF IInv, PageInSuperblockReq, RecvReadSuperblock, InFlightOutsidePersistent,
     InFlight, PersistentInterval, PersistentSuperblock
<1>. QED
  BY <1>1, <1>2, <1>3 DEF IInv, TypeOK, PageInSuperblockReq, RecvReadSuperblock, LoadingInv,
     SuperblockReadInv, JournalReadInv, IdleInv, CommitInv, NewSuperblockInv, SizeInv, QueueInv

LEMMA ReadSuperblockRespKeepsIInv ==
  ASSUME IInv, NEW which \in Slot, ReadSuperblockResp(which)
  PROVE  IInv'
<1>1. PICK result \in {diskSuperblock[which], Corruption} :
        superblockResult' = [superblockResult EXCEPT ![which] = result]
  BY DEF ReadSuperblockResp
<1>2. CommitterTypeOK'
  <2>1. result \in Superblock \cup {Corruption}
    BY DEF IInv, TypeOK, DiskTypeOK
  <2>2. superblockResult' \in [Slot -> Superblock \cup {None, Corruption}]
    BY <1>1, <2>1 DEF IInv, TypeOK, CommitterTypeOK
  <2>. QED  BY <2>2 DEF IInv, TypeOK, CommitterTypeOK, ReadSuperblockResp
<1>3. DiskTypeOK'
  BY DEF IInv, TypeOK, DiskTypeOK, ReadSuperblockResp, AckReadSuperblock
<1>4. SuperblockReadInv'
  <2>1. diskSuperblock' = diskSuperblock /\ status' = status /\ superblock' = superblock
        /\ whichSuperblock' = whichSuperblock
    BY DEF ReadSuperblockResp, AckReadSuperblock
  <2>2. \A w \in Slot : superblockResult'[w] = IF w = which THEN result ELSE superblockResult[w]
    BY <1>1 DEF IInv, TypeOK, CommitterTypeOK
  <2>. QED  BY <2>1, <2>2 DEF IInv, SuperblockReadInv
<1>5. InFlightOutsidePersistent'
  BY DEF IInv, ReadSuperblockResp, AckReadSuperblock, InFlightOutsidePersistent, InFlight,
     PersistentInterval, PersistentSuperblock
<1>6. JournalReadInv'
  BY DEF IInv, ReadSuperblockResp, AckReadSuperblock, JournalReadInv
<1>. QED
  BY <1>2, <1>3, <1>4, <1>5, <1>6 DEF IInv, TypeOK, ReadSuperblockResp, AckReadSuperblock,
     LoadingInv, IdleInv, CommitInv, NewSuperblockInv, SizeInv, QueueInv

LEMMA FinishLoadingSuperblockPhaseKeepsIInv ==
  ASSUME IInv, FinishLoadingSuperblockPhase
  PROVE  IInv'
<1>1. superblockResult = diskSuperblock
  <2>1. \A which \in Slot : superblockResult[which] = diskSuperblock[which]
    BY SuperblockNoneAssumption, CorruptionAssumption
       DEF IInv, SuperblockReadInv, FinishLoadingSuperblockPhase, BothSuperblocksRead
  <2>. QED  BY <2>1 DEF IInv, TypeOK, CommitterTypeOK, DiskTypeOK
<1>2. /\ whichSuperblock' = SelectSuperblockIndex(diskSuperblock)
      /\ whichSuperblock' \in Slot
      /\ superblock' = diskSuperblock[whichSuperblock']
      /\ superblock' \in Superblock
  BY <1>1, SelectType DEF IInv, TypeOK, DiskTypeOK, FinishLoadingSuperblockPhase, SelectSuperblock
<1>3. CommitterTypeOK'
  BY <1>2 DEF IInv, TypeOK, CommitterTypeOK, FinishLoadingSuperblockPhase
<1>4. DiskTypeOK'
  BY DEF IInv, TypeOK, DiskTypeOK, FinishLoadingSuperblockPhase
<1>5. LoadingInv' /\ ~superblockWrite
  BY DEF IInv, LoadingInv, FinishLoadingSuperblockPhase
<1>6. SuperblockReadInv' /\ IdleInv' /\ CommitInv'
  BY <1>2, <1>5 DEF IInv, SuperblockReadInv, IdleInv, CommitInv, FinishLoadingSuperblockPhase
<1>7. JournalReadInv'
  BY DEF IInv, JournalReadInv, FinishLoadingSuperblockPhase
<1>8. InFlightOutsidePersistent'
  BY DEF IInv, FinishLoadingSuperblockPhase, InFlightOutsidePersistent, InFlight,
     PersistentInterval, PersistentSuperblock
<1>. QED
  BY <1>3, <1>4, <1>5, <1>6, <1>7, <1>8 DEF IInv, TypeOK, FinishLoadingSuperblockPhase,
     SizeInv, QueueInv

LEMMA PageInJournalReqKeepsIInv ==
  ASSUME IInv, NEW h \in Half, NEW id \in ReqId, PageInJournalReq(h, id)
  PROVE  IInv'
<1>1. superblock \in Superblock /\ NeedsPart(superblock, h)
  BY LoadedSuperblock DEF PageInJournalReq, CanRequestPart
<1>2. PartInterval(superblock, h) \in JournalInterval
  BY <1>1, PartType
<1>3. CommitterTypeOK'
  BY DEF IInv, TypeOK, CommitterTypeOK, PageInJournalReq
<1>4. DiskTypeOK'
  <2>1. reqReadJournal' = Put(reqReadJournal, id, PartInterval(superblock, h))
    BY DEF PageInJournalReq, RecvReadJournal
  <2>2. DOMAIN reqReadJournal' = DOMAIN reqReadJournal \cup {id}
    BY <2>1 DEF Put
  <2>3. \A j \in DOMAIN reqReadJournal' : reqReadJournal'[j] \in JournalInterval
    BY <1>2, <2>1 DEF IInv, TypeOK, DiskTypeOK, Put
  <2>. QED  BY <2>2, <2>3 DEF IInv, TypeOK, DiskTypeOK, PageInJournalReq, RecvReadJournal
<1>5. JournalReadInv'
  <2>. SUFFICES ASSUME NEW j \in DOMAIN reqReadJournal'
                PROVE  \E g \in Half :
                         /\ NeedsPart(superblock, g)
                         /\ journalRead'[g] = j /\ journalPart[g] = None
                         /\ reqReadJournal'[j] = PartInterval(superblock, g)
    BY DEF JournalReadInv, PageInJournalReq
  <2>1. /\ reqReadJournal' = Put(reqReadJournal, id, PartInterval(superblock, h))
        /\ journalRead[h] = None /\ journalPart[h] = None
        /\ journalRead' = [journalRead EXCEPT ![h] = id]
        /\ id \notin DOMAIN reqReadJournal
    BY DEF PageInJournalReq, RecvReadJournal, CanRequestPart
  <2>2. CASE j = id
    BY <1>1, <2>1, <2>2 DEF IInv, TypeOK, CommitterTypeOK, Put
  <2>3. CASE j # id
    <3>1. j \in DOMAIN reqReadJournal /\ reqReadJournal'[j] = reqReadJournal[j]
      BY <2>1, <2>3 DEF Put
    <3>2. PICK g \in Half : /\ NeedsPart(superblock, g)
                            /\ journalRead[g] = j /\ journalPart[g] = None
                            /\ reqReadJournal[j] = PartInterval(superblock, g)
      BY <3>1 DEF IInv, JournalReadInv
    <3>3. g # h
      BY <2>1, <3>1, <3>2, DiskNoneAssumption DEF IInv, TypeOK, DiskTypeOK
    <3>. QED  BY <2>1, <3>1, <3>2, <3>3 DEF IInv, TypeOK, CommitterTypeOK
  <2>. QED  BY <2>2, <2>3
<1>6. InFlightOutsidePersistent'
  BY DEF IInv, PageInJournalReq, RecvReadJournal, InFlightOutsidePersistent, InFlight,
     PersistentInterval, PersistentSuperblock
<1>. QED
  BY <1>3, <1>4, <1>5, <1>6 DEF IInv, TypeOK, PageInJournalReq, RecvReadJournal, LoadingInv,
     SuperblockReadInv, IdleInv, CommitInv, NewSuperblockInv, SizeInv, QueueInv

LEMMA PageInJournalRespKeepsIInv ==
  ASSUME IInv, NEW id \in ReqId, PageInJournalResp(id)
  PROVE  IInv'
<1>1. /\ DOMAIN reqReadJournal' = DOMAIN reqReadJournal \ {id}
      /\ \A j \in DOMAIN reqReadJournal' : reqReadJournal'[j] = reqReadJournal[j]
      /\ status' = status /\ superblock' = superblock
  BY DEF PageInJournalResp, AckReadJournal, Without, Restrict
<1>2. CommitterTypeOK'
  BY DEF IInv, TypeOK, CommitterTypeOK, PageInJournalResp
<1>3. DiskTypeOK'
  BY <1>1 DEF IInv, TypeOK, DiskTypeOK, PageInJournalResp, AckReadJournal
<1>4. JournalReadInv'
  <2>. SUFFICES ASSUME NEW j \in DOMAIN reqReadJournal'
                PROVE  /\ status = "LoadingOther"
                       /\ \E g \in Half :
                            /\ NeedsPart(superblock, g)
                            /\ journalRead'[g] = j /\ journalPart'[g] = None
                            /\ reqReadJournal[j] = PartInterval(superblock, g)
    BY <1>1 DEF JournalReadInv
  <2>1. j \in DOMAIN reqReadJournal /\ j # id
    BY <1>1
  <2>2. PICK g \in Half : /\ NeedsPart(superblock, g)
                          /\ journalRead[g] = j /\ journalPart[g] = None
                          /\ reqReadJournal[j] = PartInterval(superblock, g)
    BY <2>1 DEF IInv, JournalReadInv
  <2>3. journalRead'[g] = j /\ journalPart'[g] = None
    BY <2>1, <2>2 DEF IInv, TypeOK, CommitterTypeOK, PageInJournalResp
  <2>. QED  BY <2>2, <2>3 DEF PageInJournalResp
<1>5. InFlightOutsidePersistent'
  BY DEF IInv, PageInJournalResp, AckReadJournal, InFlightOutsidePersistent, InFlight,
     PersistentInterval, PersistentSuperblock
<1>. QED
  BY <1>2, <1>3, <1>4, <1>5 DEF IInv, TypeOK, PageInJournalResp, AckReadJournal, LoadingInv,
     SuperblockReadInv, IdleInv, CommitInv, NewSuperblockInv, SizeInv, QueueInv

LEMMA FinishLoadingOtherPhaseKeepsIInv ==
  ASSUME IInv, FinishLoadingOtherPhase
  PROVE  IInv'
<1>1. /\ superblock \in Superblock
      /\ writtenJournalBlocks' = superblock.journalLen
      /\ superblock.journalLen \in 0 .. NumJournalBlocks
  BY LoadedSuperblock DEF FinishLoadingOtherPhase, Superblock
<1>2. CommitterTypeOK'
  BY <1>1 DEF IInv, TypeOK, CommitterTypeOK, FinishLoadingOtherPhase
<1>3. DiskTypeOK'
  BY DEF IInv, TypeOK, DiskTypeOK, FinishLoadingOtherPhase
<1>4. LoadingInv' /\ ~superblockWrite
  BY DEF IInv, LoadingInv, FinishLoadingOtherPhase
<1>5. JournalReadInv'
  <2>1. DOMAIN reqReadJournal = {}
    BY DEF IInv, JournalReadInv, FinishLoadingOtherPhase
  <2>. QED  BY <2>1 DEF JournalReadInv, FinishLoadingOtherPhase
<1>6. CommitInv'
  BY <1>4 DEF CommitInv, FinishLoadingOtherPhase
<1>7. SizeInv'
  <2>1. frozenJournalBlocks' = 0 /\ inMemoryWeight' = 0 /\ frozenJournalPosition' = 0
    BY DEF IInv, LoadingInv, FinishLoadingOtherPhase
  <2>2. superblock' = superblock
    BY DEF FinishLoadingOtherPhase
  <2>. QED  BY <1>1, <2>1, <2>2, BlocksForZero, NumJournalBlocksAssumption DEF SizeInv
<1>8. InFlightOutsidePersistent'
  BY DEF IInv, FinishLoadingOtherPhase, InFlightOutsidePersistent, InFlight,
     PersistentInterval, PersistentSuperblock
<1>. QED
  BY <1>2, <1>3, <1>4, <1>5, <1>6, <1>7, <1>8 DEF IInv, TypeOK, FinishLoadingOtherPhase,
     SuperblockReadInv, IdleInv, QueueInv

LEMMA JournalReplayOneKeepsIInv ==
  ASSUME IInv, JournalReplayOne
  PROVE  IInv'
<1>1. CommitterTypeOK'
  BY DEF IInv, TypeOK, CommitterTypeOK, JournalReplayOne
<1>2. DiskTypeOK'
  BY DEF IInv, TypeOK, DiskTypeOK, JournalReplayOne
<1>3. JournalReadInv'
  BY DEF IInv, JournalReplayOne, JournalReadInv
<1>4. InFlightOutsidePersistent'
  BY DEF IInv, JournalReplayOne, InFlightOutsidePersistent, InFlight,
     PersistentInterval, PersistentSuperblock
<1>. QED
  BY <1>1, <1>2, <1>3, <1>4 DEF IInv, TypeOK, JournalReplayOne, LoadingInv,
     SuperblockReadInv, IdleInv, CommitInv, NewSuperblockInv, SizeInv, QueueInv

-----------------------------------------------------------------------------
\* Appending and freezing

LEMMA JournalAppendKeepsIInv ==
  ASSUME IInv, NEW e \in Entry, JournalAppend(e)
  PROVE  IInv'
<1>. DEFINE used == writtenJournalBlocks + frozenJournalBlocks
            free == NumJournalBlocks - used
<1>1. /\ used \in 0 .. NumJournalBlocks /\ free \in Nat
      /\ inMemoryWeight \in Nat
  BY RoomOnDisk, NumJournalBlocksAssumption, WeightAssumption
     DEF IInv, TypeOK, CommitterTypeOK
<1>2. /\ inMemoryWeight' \in Nat
      /\ BlockCapacity * used + inMemoryWeight' <= BlockCapacity * NumJournalBlocks
  <2>1. EntryWeight[e] \in Nat /\ HeaderWeight \in Nat
    BY WeightAssumption
  <2>2. BlockCapacity * used \in Nat /\ BlockCapacity * NumJournalBlocks \in Nat
    BY <1>1, WeightAssumption, NumJournalBlocksAssumption
  <2>. DEFINE header == IF inMemoryJournal = <<>> THEN HeaderWeight ELSE 0
              bytes == BlockCapacity * used
              room == BlockCapacity * NumJournalBlocks
  <2>3. header \in Nat
    BY <2>1
  <2>4. inMemoryWeight' = inMemoryWeight + EntryWeight[e] + header
    BY DEF JournalAppend
  <2>5. bytes + inMemoryWeight + EntryWeight[e] + header <= room
    BY DEF JournalAppend, CanAppend
  <2>6. bytes \in Nat /\ room \in Nat
    BY <2>2
  <2>. HIDE DEF header, bytes, room
  <2>7. inMemoryWeight' \in Nat /\ bytes + inMemoryWeight' <= room
    BY <1>1, <2>1, <2>3, <2>4, <2>5, <2>6
  <2>. QED  BY <2>7 DEF bytes, room
<1>3. inMemoryWeight' <= BlockCapacity * free
  <2>1. BlockCapacity * NumJournalBlocks = BlockCapacity * used + BlockCapacity * free
    BY <1>1, WeightAssumption, NumJournalBlocksAssumption
  <2>2. BlockCapacity * used \in Nat /\ BlockCapacity * free \in Nat
    BY <1>1, WeightAssumption
  <2>. QED  BY <1>2, <2>1, <2>2
<1>4. CommitterTypeOK'
  <2>1. inMemoryWeight' \in 0 .. (BlockCapacity * NumJournalBlocks)
    <3>1. BlockCapacity * used \in Nat /\ BlockCapacity * NumJournalBlocks \in Nat
      BY <1>1, WeightAssumption, NumJournalBlocksAssumption
    <3>. QED  BY <1>2, <3>1
  <2>. QED  BY <2>1 DEF IInv, TypeOK, CommitterTypeOK, JournalAppend
<1>5. DiskTypeOK'
  BY DEF IInv, TypeOK, DiskTypeOK, JournalAppend
<1>6. SizeInv'
  <2>1. BlocksFor(inMemoryWeight') \in Nat /\ BlocksFor(inMemoryWeight') <= free
    BY <1>1, <1>2, <1>3, BlocksForType, BlocksForFits
  <2>2. used + BlocksFor(inMemoryWeight') <= NumJournalBlocks
    BY <1>1, <2>1, NumJournalBlocksAssumption
  <2>. QED  BY <2>2 DEF IInv, SizeInv, JournalAppend
<1>7. JournalReadInv'
  BY DEF IInv, JournalAppend, JournalReadInv
<1>8. InFlightOutsidePersistent'
  BY DEF IInv, JournalAppend, InFlightOutsidePersistent, InFlight,
     PersistentInterval, PersistentSuperblock
<1>9. LoadingInv'
  BY DEF JournalAppend, IsInitialized, LoadingInv
<1>. QED
  BY <1>4, <1>5, <1>6, <1>7, <1>8, <1>9 DEF IInv, TypeOK, JournalAppend,
     SuperblockReadInv, IdleInv, CommitInv, NewSuperblockInv, QueueInv

LEMMA FreezeKeepsIInv ==
  ASSUME IInv, Freeze
  PROVE  IInv'
<1>. DEFINE blocks == BlocksFor(inMemoryWeight)
<1>1. /\ blocks \in 0 .. NumJournalBlocks
      /\ writtenJournalBlocks + frozenJournalBlocks + blocks <= NumJournalBlocks
      /\ frozenJournalBlocks' = frozenJournalBlocks + blocks
      /\ inMemoryWeight' = 0
  BY RoomOnDisk DEF IInv, SizeInv, Freeze
<1>2. CommitterTypeOK'
  <2>1. /\ inMemoryJournalFrozen' \in Seq(Entry)
        /\ inMemoryJournal' \in Seq(Entry)
    BY DEF IInv, TypeOK, CommitterTypeOK, Freeze
  <2>2. frozenJournalBlocks' \in 0 .. NumJournalBlocks
    BY <1>1, NumJournalBlocksAssumption DEF IInv, TypeOK, CommitterTypeOK
  <2>3. inMemoryWeight' \in 0 .. (BlockCapacity * NumJournalBlocks)
    BY <1>1, WeightAssumption, NumJournalBlocksAssumption
  <2>4. /\ DOMAIN syncReqs' \in SUBSET SyncId
        /\ \A id \in DOMAIN syncReqs' : syncReqs'[id] \in SyncReqStatus
    BY DEF IInv, TypeOK, CommitterTypeOK, Freeze, SyncReqs3to2, SyncReqStatus
  <2>. QED  BY <2>1, <2>2, <2>3, <2>4 DEF IInv, TypeOK, CommitterTypeOK, Freeze
<1>3. DiskTypeOK'
  BY DEF IInv, TypeOK, DiskTypeOK, Freeze
<1>4. SizeInv'
  BY <1>1, BlocksForZero, NumJournalBlocksAssumption
     DEF IInv, TypeOK, CommitterTypeOK, SizeInv, Freeze
<1>5. JournalReadInv'
  BY DEF IInv, Freeze, JournalReadInv
<1>6. InFlightOutsidePersistent'
  BY DEF IInv, Freeze, InFlightOutsidePersistent, InFlight,
     PersistentInterval, PersistentSuperblock
<1>7. LoadingInv'
  BY DEF Freeze, DoSync, IsInitialized, LoadingInv
<1>8. CommitInv'
  BY DEF Freeze, CommitInv
<1>. QED
  BY <1>2, <1>3, <1>4, <1>5, <1>6, <1>7, <1>8 DEF IInv, TypeOK, Freeze,
     SuperblockReadInv, IdleInv, QueueInv

LEMMA ReceiveFrozenLocKeepsIInv ==
  ASSUME IInv, NEW loc \in Loc, ReceiveFrozenLoc(loc)
  PROVE  IInv'
<1>1. CommitterTypeOK'
  BY DEF IInv, TypeOK, CommitterTypeOK, ReceiveFrozenLoc
<1>2. DiskTypeOK'
  BY DEF IInv, TypeOK, DiskTypeOK, ReceiveFrozenLoc
<1>3. CommitInv'
  \* Nothing is being written: a location commit would need frozenLoc.
  <2>1. ~superblockWrite
    BY DiskNoneAssumption DEF IInv, CommitInv, NewSuperblockInv, ReceiveFrozenLoc, Superblock
  <2>. QED  BY <2>1 DEF CommitInv, ReceiveFrozenLoc
<1>4. JournalReadInv'
  BY DEF IInv, ReceiveFrozenLoc, JournalReadInv
<1>5. InFlightOutsidePersistent'
  BY DEF IInv, ReceiveFrozenLoc, InFlightOutsidePersistent, InFlight,
     PersistentInterval, PersistentSuperblock
<1>. QED
  BY <1>1, <1>2, <1>3, <1>4, <1>5 DEF IInv, TypeOK, ReceiveFrozenLoc, LoadingInv,
     SuperblockReadInv, IdleInv, SizeInv, QueueInv

-----------------------------------------------------------------------------
\* Writing the journal

\* What a journal write does to the disk, one request or two.
LEMMA WriteOutJournalOnDisk ==
  ASSUME IInv, WriteOutJournal
  PROVE  \E n \in 0 .. NumJournalBlocks, range \in Seq(Block) :
           LET start == JournalPosAdd(superblock.journalStart, writtenJournalBlocks)
               whole == [start |-> start, len |-> n]
           IN  /\ Len(range) = n
               /\ writtenJournalBlocks + n <= NumJournalBlocks
               /\ writtenJournalBlocks' = writtenJournalBlocks + n
               /\ n = IF inMemoryJournalFrozen # <<>> THEN frozenJournalBlocks
                                                      ELSE BlocksFor(inMemoryWeight)
               /\ diskJournal' = CyclicSplice(diskJournal, start, range)
               /\ DOMAIN reqWriteJournals' \in SUBSET ReqId
               /\ outstandingJournalWrites' = DOMAIN reqWriteJournals'
               /\ \A id \in DOMAIN reqWriteJournals' :
                    \/ /\ id \in DOMAIN reqWriteJournals
                       /\ reqWriteJournals'[id] = reqWriteJournals[id]
                    \/ /\ reqWriteJournals'[id] \in JournalInterval
                       /\ \A i \in Pos : InCyclicRange(i, reqWriteJournals'[id])
                                           => InCyclicRange(i, whole)
<1>. DEFINE doingFrozen == inMemoryJournalFrozen # <<>>
            entries == IF doingFrozen THEN inMemoryJournalFrozen ELSE inMemoryJournal
            n == IF doingFrozen THEN frozenJournalBlocks ELSE BlocksFor(inMemoryWeight)
            range == MarshallJournalEntries(entries, n)
            start == JournalPosAdd(superblock.journalStart, writtenJournalBlocks)
            whole == [start |-> start, len |-> n]
<1>1. status = "Ready"
  BY DEF WriteOutJournal, AdvancingLocation, AdvancingLog, DoSync, IsInitialized
<1>2. /\ n \in 0 .. NumJournalBlocks
      /\ writtenJournalBlocks + n <= NumJournalBlocks
      /\ entries \in Seq(Entry)
  BY RoomOnDisk DEF IInv, TypeOK, CommitterTypeOK
<1>3. range \in Seq(Block) /\ Len(range) = n
  BY <1>2, MarshallType
<1>4. start \in Pos
  <2>1. superblock.journalStart \in Pos
    BY <1>1, LoadedSuperblock DEF Superblock
  <2>. QED  BY <2>1, PosAddType DEF IInv, TypeOK, CommitterTypeOK
<1>5. /\ diskJournal' = CyclicSplice(diskJournal, start, range)
      /\ writtenJournalBlocks' = writtenJournalBlocks + n
  BY DEF WriteOutJournal, RecvWriteJournal, RecvWriteJournal2
<1>6. /\ DOMAIN reqWriteJournals' \in SUBSET ReqId
      /\ outstandingJournalWrites' = DOMAIN reqWriteJournals'
      /\ \A id \in DOMAIN reqWriteJournals' :
           \/ /\ id \in DOMAIN reqWriteJournals
              /\ reqWriteJournals'[id] = reqWriteJournals[id]
           \/ /\ reqWriteJournals'[id] \in JournalInterval
              /\ \A i \in Pos : InCyclicRange(i, reqWriteJournals'[id])
                                  => InCyclicRange(i, whole)
  <2>1. CASE start + n <= NumJournalBlocks
    <3>1. PICK id \in ReqId :
            /\ reqWriteJournals' = Put(reqWriteJournals, id, whole)
            /\ outstandingJournalWrites' = outstandingJournalWrites \cup {id}
      BY <1>2, <1>3, <1>4, <2>1, NumJournalBlocksAssumption
         DEF WriteOutJournal, RecvWriteJournal, Pos
    <3>2. whole \in JournalInterval
      BY <1>2, <1>4 DEF JournalInterval
    <3>. QED  BY <3>1, <3>2 DEF IInv, TypeOK, DiskTypeOK, QueueInv, Put
  <2>2. CASE start + n > NumJournalBlocks
    <3>1. PICK id1, id2 \in ReqId :
            /\ reqWriteJournals' = Put(Put(reqWriteJournals, id1, FrontInterval(whole)),
                                       id2, BackInterval(whole))
            /\ outstandingJournalWrites' = outstandingJournalWrites \cup {id1, id2}
      BY <1>2, <1>3, <1>4, <2>2, NumJournalBlocksAssumption
         DEF WriteOutJournal, RecvWriteJournal2, Pos
    <3>2. /\ FrontInterval(whole) \in JournalInterval
          /\ BackInterval(whole) \in JournalInterval
      BY <1>2, <1>4, <2>2, WrappedPartsType
    <3>3. \A i \in Pos : \/ InCyclicRange(i, FrontInterval(whole))
                         \/ InCyclicRange(i, BackInterval(whole))
                         => InCyclicRange(i, whole)
      BY <1>2, <1>4, <2>2, WrappedPartsInside
    <3>. QED  BY <3>1, <3>2, <3>3 DEF IInv, TypeOK, DiskTypeOK, QueueInv, Put
  <2>. QED  BY <1>2, <1>4, <2>1, <2>2, NumJournalBlocksAssumption DEF Pos
<1>. QED  BY <1>2, <1>3, <1>5, <1>6

\* A journal write touches no block of the committed journal.
LEMMA WriteOutJournalSparesPersistent ==
  ASSUME IInv, WriteOutJournal
  PROVE  /\ UNCHANGED diskSuperblock
         /\ \A i \in Pos : InCyclicRange(i, PersistentInterval) =>
              /\ diskJournal'[i] = diskJournal[i]
              /\ \A id \in DOMAIN reqWriteJournals' :
                   ~InCyclicRange(i, reqWriteJournals'[id])
<1>. DEFINE start == JournalPosAdd(superblock.journalStart, writtenJournalBlocks)
<1>1. PICK n \in 0 .. NumJournalBlocks, range \in Seq(Block) :
        /\ Len(range) = n
        /\ writtenJournalBlocks + n <= NumJournalBlocks
        /\ diskJournal' = CyclicSplice(diskJournal, start, range)
        /\ \A id \in DOMAIN reqWriteJournals' :
             \/ /\ id \in DOMAIN reqWriteJournals
                /\ reqWriteJournals'[id] = reqWriteJournals[id]
             \/ \A i \in Pos : InCyclicRange(i, reqWriteJournals'[id])
                                 => InCyclicRange(i, [start |-> start, len |-> n])
  BY WriteOutJournalOnDisk
<1>2. status = "Ready" /\ ~superblockWrite
  BY DEF WriteOutJournal, AdvancingLocation, AdvancingLog, DoSync, IsInitialized
<1>3. /\ superblock \in Superblock
      /\ PersistentInterval =
           [start |-> superblock.journalStart, len |-> superblock.journalLen]
  BY <1>2, LoadedSuperblock, IdlePersistent DEF Region
<1>4. /\ superblock.journalStart \in Pos
      /\ writtenJournalBlocks \in 0 .. NumJournalBlocks
      /\ superblock.journalLen \in 0 .. writtenJournalBlocks
      /\ n \in Nat
  BY <1>2, <1>3, NumJournalBlocksAssumption
     DEF IInv, TypeOK, CommitterTypeOK, SizeInv, Superblock
<1>5. \A i \in Pos : InCyclicRange(i, PersistentInterval) =>
        ~InCyclicRange(i, [start |-> start, len |-> n])
  BY <1>1, <1>3, <1>4, AppendedOutside
<1>6. \A i \in Pos : InCyclicRange(i, PersistentInterval) => diskJournal'[i] = diskJournal[i]
  BY <1>1, <1>5, SpliceOutside
<1>7. \A i \in Pos, id \in DOMAIN reqWriteJournals :
        InCyclicRange(i, PersistentInterval) => ~InCyclicRange(i, reqWriteJournals[id])
  BY DEF IInv, InFlightOutsidePersistent, InFlight
<1>8. UNCHANGED diskSuperblock
  BY DEF WriteOutJournal, RecvWriteJournal, RecvWriteJournal2
<1>. QED  BY <1>1, <1>5, <1>6, <1>7, <1>8

LEMMA WriteOutJournalKeepsIInv ==
  ASSUME IInv, WriteOutJournal
  PROVE  IInv'
<1>. DEFINE start == JournalPosAdd(superblock.journalStart, writtenJournalBlocks)
<1>1. PICK n \in 0 .. NumJournalBlocks, range \in Seq(Block) :
        /\ Len(range) = n
        /\ writtenJournalBlocks + n <= NumJournalBlocks
        /\ writtenJournalBlocks' = writtenJournalBlocks + n
        /\ n = IF inMemoryJournalFrozen # <<>> THEN frozenJournalBlocks
                                               ELSE BlocksFor(inMemoryWeight)
        /\ diskJournal' = CyclicSplice(diskJournal, start, range)
        /\ DOMAIN reqWriteJournals' \in SUBSET ReqId
        /\ outstandingJournalWrites' = DOMAIN reqWriteJournals'
        /\ \A id \in DOMAIN reqWriteJournals' :
             \/ /\ id \in DOMAIN reqWriteJournals
                /\ reqWriteJournals'[id] = reqWriteJournals[id]
             \/ reqWriteJournals'[id] \in JournalInterval
  BY WriteOutJournalOnDisk
<1>2. status = "Ready" /\ ~superblockWrite
  BY DEF WriteOutJournal, AdvancingLocation, AdvancingLog, DoSync, IsInitialized
<1>3. /\ UNCHANGED superblock
      /\ \/ /\ inMemoryJournalFrozen # <<>>
            /\ frozenJournalBlocks' = 0 /\ frozenJournalPosition' = writtenJournalBlocks'
            /\ UNCHANGED inMemoryWeight
         \/ /\ inMemoryJournalFrozen = <<>>
            /\ inMemoryWeight' = 0
            /\ UNCHANGED <<frozenJournalBlocks, frozenJournalPosition>>
  BY DEF WriteOutJournal, currentVars
<1>4. CommitterTypeOK'
  <2>1. /\ writtenJournalBlocks' \in 0 .. NumJournalBlocks
        /\ frozenJournalPosition' \in 0 .. NumJournalBlocks
    BY <1>1, <1>3, NumJournalBlocksAssumption DEF IInv, TypeOK, CommitterTypeOK
  <2>2. outstandingJournalWrites' \in SUBSET ReqId
    BY <1>1
  <2>3. /\ inMemoryJournal' \in Seq(Entry) /\ inMemoryJournalFrozen' \in Seq(Entry)
        /\ frozenJournalBlocks' \in 0 .. NumJournalBlocks
        /\ inMemoryWeight' \in 0 .. (BlockCapacity * NumJournalBlocks)
    <3>1. /\ 0 \in 0 .. (BlockCapacity * NumJournalBlocks)
          /\ 0 \in 0 .. NumJournalBlocks
      BY WeightAssumption, NumJournalBlocksAssumption
    <3>2. <<>> \in Seq(Entry)
      OBVIOUS
    <3>3. CASE inMemoryJournalFrozen # <<>>
      BY <3>1, <3>2, <3>3 DEF IInv, TypeOK, CommitterTypeOK, WriteOutJournal
    <3>4. CASE inMemoryJournalFrozen = <<>>
      BY <3>1, <3>2, <3>4 DEF IInv, TypeOK, CommitterTypeOK, WriteOutJournal
    <3>. QED  BY <3>3, <3>4
  <2>4. /\ DOMAIN syncReqs' \in SUBSET SyncId
        /\ \A id \in DOMAIN syncReqs' : syncReqs'[id] \in SyncReqStatus
    BY DEF IInv, TypeOK, CommitterTypeOK, WriteOutJournal, SyncReqs3to2, SyncReqStatus
  <2>. QED  BY <2>1, <2>2, <2>3, <2>4 DEF IInv, TypeOK, CommitterTypeOK, WriteOutJournal
<1>5. DiskTypeOK'
  <2>1. start \in Pos
    <3>1. superblock.journalStart \in Pos
      BY <1>2, LoadedSuperblock DEF Superblock
    <3>. QED  BY <3>1, PosAddType DEF IInv, TypeOK, CommitterTypeOK
  <2>2. diskJournal' \in [Pos -> Block \cup {None}]
    BY <1>1, <2>1, SpliceType DEF IInv, TypeOK, DiskTypeOK
  <2>3. \A id \in DOMAIN reqWriteJournals' : reqWriteJournals'[id] \in JournalInterval
    BY <1>1 DEF IInv, TypeOK, DiskTypeOK
  <2>. QED  BY <1>1, <2>2, <2>3 DEF IInv, TypeOK, DiskTypeOK, WriteOutJournal,
               RecvWriteJournal, RecvWriteJournal2
<1>6. SizeInv'
  <2>1. /\ frozenJournalPosition' <= writtenJournalBlocks'
        /\ superblock'.journalLen <= writtenJournalBlocks'
    <3>1. superblock.journalLen \in Nat
      BY <1>2, LoadedSuperblock, NumJournalBlocksAssumption DEF Superblock
    <3>2. /\ writtenJournalBlocks \in Nat /\ frozenJournalPosition \in Nat
          /\ frozenJournalPosition <= writtenJournalBlocks
          /\ superblock.journalLen <= writtenJournalBlocks
      BY <1>2, NumJournalBlocksAssumption DEF IInv, TypeOK, CommitterTypeOK, SizeInv
    <3>. QED  BY <1>1, <1>3, <3>1, <3>2
  <2>2. writtenJournalBlocks' + frozenJournalBlocks' + BlocksFor(inMemoryWeight')
          <= NumJournalBlocks
    <3>1. BlocksFor(inMemoryWeight) \in Nat
      BY RoomOnDisk
    <3>. QED  BY <1>1, <1>3, <3>1, BlocksForZero, NumJournalBlocksAssumption
              DEF IInv, TypeOK, CommitterTypeOK, SizeInv
  <2>. QED  BY <2>1, <2>2 DEF SizeInv
<1>7. LoadingInv' /\ CommitInv' /\ QueueInv'
  BY <1>1, <1>2 DEF LoadingInv, CommitInv, QueueInv, WriteOutJournal
<1>8. SuperblockReadInv' /\ IdleInv'
  BY DEF IInv, SuperblockReadInv, IdleInv, WriteOutJournal, RecvWriteJournal, RecvWriteJournal2
<1>9. JournalReadInv'
  BY DEF IInv, JournalReadInv, WriteOutJournal, RecvWriteJournal, RecvWriteJournal2
<1>10. InFlightOutsidePersistent'
  <2>1. PersistentInterval' = PersistentInterval
    BY WriteOutJournalSparesPersistent DEF PersistentInterval, PersistentSuperblock
  <2>. QED  BY <2>1, WriteOutJournalSparesPersistent DEF InFlightOutsidePersistent, InFlight
<1>. QED
  BY <1>4, <1>5, <1>6, <1>7, <1>8, <1>9, <1>10 DEF IInv, TypeOK

LEMMA WriteBackJournalRespKeepsIInv ==
  ASSUME IInv, NEW id \in ReqId, WriteBackJournalResp(id)
  PROVE  IInv'
<1>1. /\ DOMAIN reqWriteJournals' = DOMAIN reqWriteJournals \ {id}
      /\ \A j \in DOMAIN reqWriteJournals' : reqWriteJournals'[j] = reqWriteJournals[j]
      /\ outstandingJournalWrites' = outstandingJournalWrites \ {id}
      /\ diskSuperblock' = diskSuperblock
  BY DEF WriteBackJournalResp, AckWriteJournal, Without, Restrict
<1>2. CommitterTypeOK'
  BY DEF IInv, TypeOK, CommitterTypeOK, WriteBackJournalResp
<1>3. DiskTypeOK'
  BY <1>1 DEF IInv, TypeOK, DiskTypeOK, WriteBackJournalResp, AckWriteJournal
<1>4. InFlightOutsidePersistent'
  BY <1>1 DEF IInv, InFlightOutsidePersistent, InFlight, PersistentInterval,
     PersistentSuperblock
<1>5. JournalReadInv' /\ LoadingInv'
  BY DEF IInv, JournalReadInv, LoadingInv, WriteBackJournalResp, AckWriteJournal
<1>. QED
  BY <1>1, <1>2, <1>3, <1>4, <1>5 DEF IInv, TypeOK, WriteBackJournalResp, AckWriteJournal,
     SuperblockReadInv, IdleInv, CommitInv, NewSuperblockInv, SizeInv, QueueInv

-----------------------------------------------------------------------------
\* Writing the superblock

\* Either kind of commit, given what it writes.
LEMMA SendSuperblockKeepsIInv ==
  ASSUME IInv, NEW sb \in Superblock,
         NEW commit \in {"CommitAdvanceLog", "CommitAdvanceLocation"},
         status = "Ready", CanWriteSuperblock, SendSuperblock(sb, commit),
         NewSuperblockInv'
  PROVE  IInv'
<1>1. whichSuperblock \in Slot /\ 1 - whichSuperblock \in Slot
  BY DEF IInv, TypeOK, CommitterTypeOK, Slot
<1>2. CommitterTypeOK'
  BY DEF IInv, TypeOK, CommitterTypeOK, SendSuperblock
<1>3. DiskTypeOK'
  BY <1>1 DEF IInv, TypeOK, DiskTypeOK, SendSuperblock, RecvWriteSuperblock
<1>4. CommitInv'
  <2>1. reqWriteSuperblock = [which \in Slot |-> None]
    BY DEF IInv, IdleInv, CanWriteSuperblock
  <2>2. reqWriteSuperblock' =
          [which \in Slot |-> IF which = whichSuperblock THEN None ELSE sb]
    <3>1. reqWriteSuperblock' = [reqWriteSuperblock EXCEPT ![1 - whichSuperblock] = sb]
      BY DEF SendSuperblock, RecvWriteSuperblock
    <3>2. \A which \in Slot : which = 1 - whichSuperblock <=> which # whichSuperblock
      BY <1>1 DEF Slot
    <3>3. \A which \in Slot : reqWriteSuperblock'[which] =
            IF which = whichSuperblock THEN None ELSE sb
      BY <1>1, <2>1, <3>1, <3>2
    <3>4. reqWriteSuperblock' = [which \in Slot |-> reqWriteSuperblock'[which]]
      BY <2>1, <3>1
    <3>. QED  BY <3>3, <3>4
  <2>3. whichSuperblock = SelectSuperblockIndex(diskSuperblock)
    BY DEF IInv, IdleInv, CanWriteSuperblock
  <2>. QED  BY <2>2, <2>3 DEF CommitInv, CanWriteSuperblock, SendSuperblock,
               RecvWriteSuperblock
<1>5. LoadingInv' /\ IdleInv'
  BY DEF LoadingInv, IdleInv, SendSuperblock
<1>6. JournalReadInv'
  BY DEF IInv, JournalReadInv, SendSuperblock, RecvWriteSuperblock
<1>7. InFlightOutsidePersistent'
  BY DEF IInv, SendSuperblock, RecvWriteSuperblock, InFlightOutsidePersistent, InFlight,
     PersistentInterval, PersistentSuperblock
<1>. QED
  BY <1>2, <1>3, <1>4, <1>5, <1>6, <1>7 DEF IInv, TypeOK, SendSuperblock,
     RecvWriteSuperblock, SuperblockReadInv, SizeInv, QueueInv

LEMMA WriteOutSuperblockAdvanceLogKeepsIInv ==
  ASSUME IInv, WriteOutSuperblockAdvanceLog
  PROVE  IInv'
<1>. DEFINE sb == [counter |-> IncrementSuperblockCounter(superblock.counter),
                   journalStart |-> superblock.journalStart,
                   journalLen |-> writtenJournalBlocks,
                   indirectionTableLoc |-> superblock.indirectionTableLoc]
<1>1. /\ status = "Ready" /\ ~isFrozen /\ CanWriteSuperblock
      /\ SendSuperblock(sb, "CommitAdvanceLog")
  BY DEF WriteOutSuperblockAdvanceLog, AdvancingLog, DoSync, IsInitialized
<1>2. sb \in Superblock
  BY <1>1, LoadedSuperblock, IncrementType DEF IInv, TypeOK, CommitterTypeOK, Superblock
<1>3. NewSuperblockInv'
  BY <1>1, <1>2 DEF NewSuperblockInv, SendSuperblock
<1>. QED  BY <1>1, <1>2, <1>3, SendSuperblockKeepsIInv

LEMMA WriteOutSuperblockAdvanceLocationKeepsIInv ==
  ASSUME IInv, WriteOutSuperblockAdvanceLocation
  PROVE  IInv'
<1>. DEFINE sb == [counter |-> IncrementSuperblockCounter(superblock.counter),
                   journalStart |-> JournalPosAdd(superblock.journalStart,
                                                  frozenJournalPosition),
                   journalLen |-> writtenJournalBlocks - frozenJournalPosition,
                   indirectionTableLoc |-> frozenLoc]
<1>1. /\ status = "Ready" /\ isFrozen /\ frozenLoc # None /\ CanWriteSuperblock
      /\ SendSuperblock(sb, "CommitAdvanceLocation")
  BY DEF WriteOutSuperblockAdvanceLocation, AdvancingLocation, DoSync, IsInitialized
<1>2. sb \in Superblock
  <2>1. superblock \in Superblock
    BY <1>1, LoadedSuperblock
  <2>2. IncrementSuperblockCounter(superblock.counter) \in 0 .. (CounterModulus - 1)
    BY <2>1, IncrementType DEF Superblock
  <2>3. JournalPosAdd(superblock.journalStart, frozenJournalPosition) \in Pos
    BY <2>1, PosAddType DEF IInv, TypeOK, CommitterTypeOK, Superblock
  <2>4. writtenJournalBlocks - frozenJournalPosition \in 0 .. NumJournalBlocks
    BY NumJournalBlocksAssumption DEF IInv, TypeOK, CommitterTypeOK, SizeInv
  <2>5. frozenLoc \in Loc
    BY <1>1 DEF IInv, TypeOK, CommitterTypeOK
  <2>. QED  BY <2>2, <2>3, <2>4, <2>5 DEF Superblock
<1>3. NewSuperblockInv'
  BY <1>1, <1>2 DEF NewSuperblockInv, SendSuperblock
<1>. QED  BY <1>1, <1>2, <1>3, SendSuperblockKeepsIInv

\* Once the write has taken effect recovery would choose the new superblock.
LEMMA UpdatePersistent ==
  ASSUME IInv, HasUpdateOccurredUnacked
  PROVE  /\ SelectSuperblockIndex(diskSuperblock) = 1 - whichSuperblock
         /\ PersistentSuperblock = newSuperblock
<1>1. /\ diskSuperblock \in [Slot -> Superblock] /\ whichSuperblock \in Slot
      /\ status # "LoadingSuperblock"
      /\ diskSuperblock[1 - whichSuperblock] = newSuperblock
      /\ newSuperblock.counter = IncrementSuperblockCounter(superblock.counter)
  BY DEF IInv, TypeOK, CommitterTypeOK, DiskTypeOK, LoadingInv, CommitInv, NewSuperblockInv,
     HasUpdateOccurredUnacked
<1>2. superblock = diskSuperblock[whichSuperblock]
  BY <1>1, LoadedSuperblock
<1>3. SelectSuperblockIndex(diskSuperblock) = 1 - whichSuperblock
  BY <1>1, <1>2, SelectNewer
<1>. QED  BY <1>1, <1>3 DEF PersistentSuperblock, SelectSuperblock

LEMMA WriteBackSuperblockRespKeepsIInv ==
  ASSUME IInv, WriteBackSuperblockResp
  PROVE  IInv'
<1>1. /\ whichSuperblock \in Slot /\ whichSuperblock' = 1 - whichSuperblock
      /\ whichSuperblock' \in Slot /\ 1 - whichSuperblock' = whichSuperblock
      /\ status = "Ready" /\ superblockWrite /\ NewSuperblockInv
      /\ superblock' = newSuperblock /\ newSuperblock' = None
      /\ ~superblockWrite' /\ commitStatus' = "CommitNone"
      /\ diskSuperblock' = diskSuperblock
      /\ reqWriteSuperblock =
           [which \in Slot |-> IF which = whichSuperblock THEN None ELSE newSuperblock]
  BY DEF IInv, TypeOK, CommitterTypeOK, CommitInv, WriteBackSuperblockResp,
     AckWriteSuperblock, Slot
<1>2. diskSuperblock[1 - whichSuperblock] = newSuperblock /\ newSuperblock \in Superblock
  <2>1. reqWriteSuperblock[1 - whichSuperblock] = newSuperblock
    BY <1>1, NumJournalBlocksAssumption DEF Slot
  <2>. QED  BY <1>1, <2>1 DEF NewSuperblockInv, WriteBackSuperblockResp, AckWriteSuperblock
<1>3. CommitterTypeOK'
  <2>1. /\ writtenJournalBlocks' \in 0 .. NumJournalBlocks
        /\ frozenJournalPosition' \in 0 .. NumJournalBlocks
    BY NumJournalBlocksAssumption
       DEF IInv, TypeOK, CommitterTypeOK, SizeInv, WriteBackSuperblockResp
  <2>2. /\ DOMAIN syncReqs' \in SUBSET SyncId
        /\ \A id \in DOMAIN syncReqs' : syncReqs'[id] \in SyncReqStatus
    BY DEF IInv, TypeOK, CommitterTypeOK, WriteBackSuperblockResp, SyncReqs2to1, SyncReqStatus
  <2>3. isFrozen' \in BOOLEAN /\ frozenLoc' \in Loc \cup {None}
    BY DEF IInv, TypeOK, CommitterTypeOK, WriteBackSuperblockResp
  <2>4. superblock' \in Superblock /\ superblockWrite' \in BOOLEAN
    BY <1>1, <1>2 DEF WriteBackSuperblockResp
  <2>. QED  BY <1>1, <2>1, <2>2, <2>3, <2>4
            DEF IInv, TypeOK, CommitterTypeOK, WriteBackSuperblockResp
<1>4. DiskTypeOK'
  BY <1>1 DEF IInv, TypeOK, DiskTypeOK, WriteBackSuperblockResp, AckWriteSuperblock
<1>5. SuperblockReadInv' /\ LoadingInv'
  BY <1>1, <1>2 DEF SuperblockReadInv, LoadingInv, WriteBackSuperblockResp
<1>6. IdleInv'
  <2>1. SelectSuperblockIndex(diskSuperblock) = 1 - whichSuperblock
    BY <1>1, <1>2, UpdatePersistent DEF HasUpdateOccurredUnacked
  <2>2. reqWriteSuperblock' = [which \in Slot |-> None]
    BY <1>1 DEF WriteBackSuperblockResp, AckWriteSuperblock, Slot
  <2>. QED  BY <1>1, <2>1, <2>2 DEF IdleInv
<1>7. CommitInv'
  BY <1>1 DEF CommitInv
<1>8. SizeInv'
  <2>1. /\ writtenJournalBlocks \in Nat /\ frozenJournalPosition \in Nat
        /\ frozenJournalPosition <= writtenJournalBlocks
        /\ frozenJournalBlocks \in Nat /\ BlocksFor(inMemoryWeight) \in Nat
    BY RoomOnDisk, NumJournalBlocksAssumption DEF IInv, TypeOK, CommitterTypeOK, SizeInv
  <2>2. CASE commitStatus = "CommitAdvanceLocation"
    BY <1>1, <2>1, <2>2, NumJournalBlocksAssumption
       DEF IInv, SizeInv, NewSuperblockInv, WriteBackSuperblockResp
  <2>3. CASE commitStatus = "CommitAdvanceLog"
    BY <1>1, <2>1, <2>3, NumJournalBlocksAssumption
       DEF IInv, SizeInv, NewSuperblockInv, WriteBackSuperblockResp
  <2>. QED  BY <1>1, <2>2, <2>3 DEF NewSuperblockInv
<1>9. JournalReadInv' /\ QueueInv'
  BY <1>1 DEF IInv, JournalReadInv, QueueInv, WriteBackSuperblockResp, AckWriteSuperblock
<1>10. InFlightOutsidePersistent'
  BY DEF IInv, WriteBackSuperblockResp, AckWriteSuperblock, InFlightOutsidePersistent,
     InFlight, PersistentInterval, PersistentSuperblock
<1>. QED
  BY <1>3, <1>4, <1>5, <1>6, <1>7, <1>8, <1>9, <1>10 DEF IInv, TypeOK

-----------------------------------------------------------------------------
\* Sync requests

LEMMA PushSyncKeepsIInv ==
  ASSUME IInv, PushSync
  PROVE  IInv'
<1>1. CommitterTypeOK'
  <2>1. PICK maxId \in DOMAIN syncReqs \cup {0} :
           maxId < MaxSyncId /\ syncReqs' = PushReq(syncReqs, maxId + 1)
    BY DEF PushSync
  <2>2. maxId + 1 \in SyncId
    BY <2>1, SyncAssumption DEF IInv, TypeOK, CommitterTypeOK, SyncId
  <2>3. /\ DOMAIN syncReqs' \in SUBSET SyncId
        /\ \A id \in DOMAIN syncReqs' : syncReqs'[id] \in SyncReqStatus
    BY <2>1, <2>2 DEF IInv, TypeOK, CommitterTypeOK, PushReq, Put, SyncReqStatus
  <2>. QED  BY <2>3 DEF IInv, TypeOK, CommitterTypeOK, PushSync
<1>2. DiskTypeOK'
  BY DEF IInv, TypeOK, DiskTypeOK, PushSync
<1>3. JournalReadInv'
  BY DEF IInv, JournalReadInv, PushSync
<1>4. InFlightOutsidePersistent'
  BY DEF IInv, PushSync, InFlightOutsidePersistent, InFlight, PersistentInterval,
     PersistentSuperblock
<1>. QED
  BY <1>1, <1>2, <1>3, <1>4 DEF IInv, TypeOK, PushSync, LoadingInv, SuperblockReadInv,
     IdleInv, CommitInv, NewSuperblockInv, SizeInv, QueueInv

LEMMA PopSyncKeepsIInv ==
  ASSUME IInv, NEW id \in SyncId, PopSync(id)
  PROVE  IInv'
<1>1. CommitterTypeOK'
  BY DEF IInv, TypeOK, CommitterTypeOK, PopSync, PopReq, Without, Restrict
<1>2. DiskTypeOK'
  BY DEF IInv, TypeOK, DiskTypeOK, PopSync
<1>3. JournalReadInv'
  BY DEF IInv, JournalReadInv, PopSync
<1>4. InFlightOutsidePersistent'
  BY DEF IInv, PopSync, InFlightOutsidePersistent, InFlight, PersistentInterval,
     PersistentSuperblock
<1>. QED
  BY <1>1, <1>2, <1>3, <1>4 DEF IInv, TypeOK, PopSync, LoadingInv, SuperblockReadInv,
     IdleInv, CommitInv, NewSuperblockInv, SizeInv, QueueInv

-----------------------------------------------------------------------------
\* The disk's own steps, and crashes

\* Only the slot of the write in flight changes, and to what is being written.
LEMMA ProcessWriteOnDisk ==
  ASSUME IInv, DiskInternal
  PROVE  /\ superblockWrite /\ status = "Ready"
         /\ diskSuperblock' = [diskSuperblock EXCEPT ![1 - whichSuperblock] = newSuperblock]
         /\ newSuperblock \in Superblock
         /\ whichSuperblock \in Slot /\ 1 - whichSuperblock \in Slot
         /\ 1 - whichSuperblock # whichSuperblock
<1>1. PICK which \in Slot : ProcessWriteSuperblock(which)
  BY DEF DiskInternal
<1>2. superblockWrite
  BY <1>1 DEF IInv, IdleInv, ProcessWriteSuperblock
<1>3. which # whichSuperblock /\ reqWriteSuperblock[which] = newSuperblock
  BY <1>1, <1>2 DEF IInv, CommitInv, ProcessWriteSuperblock
<1>4. whichSuperblock \in Slot
  BY DEF IInv, TypeOK, CommitterTypeOK
<1>5. which = 1 - whichSuperblock
  BY <1>3, <1>4 DEF Slot
<1>. QED  BY <1>1, <1>2, <1>3, <1>4, <1>5
          DEF IInv, LoadingInv, CommitInv, NewSuperblockInv, ProcessWriteSuperblock

LEMMA DiskInternalKeepsIInv ==
  ASSUME IInv, DiskInternal
  PROVE  IInv'
<1>1. CommitterTypeOK'
  BY DEF IInv, TypeOK, CommitterTypeOK, DiskInternal, committerVars
<1>2. DiskTypeOK'
  BY ProcessWriteOnDisk DEF IInv, TypeOK, DiskTypeOK, DiskInternal, ProcessWriteSuperblock
<1>3. SuperblockReadInv'
  BY ProcessWriteOnDisk DEF IInv, TypeOK, DiskTypeOK, SuperblockReadInv, DiskInternal,
     committerVars
<1>4. CommitInv'
  <2>1. diskSuperblock'[1 - whichSuperblock] = newSuperblock
    BY ProcessWriteOnDisk DEF IInv, TypeOK, DiskTypeOK
  <2>2. UNCHANGED <<committerVars, reqWriteSuperblock>>
    BY DEF DiskInternal, ProcessWriteSuperblock
  <2>. QED  BY <2>1, <2>2 DEF IInv, CommitInv, NewSuperblockInv, committerVars
<1>5. IdleInv' /\ LoadingInv'
  BY ProcessWriteOnDisk DEF IInv, IdleInv, LoadingInv, DiskInternal, committerVars
<1>6. JournalReadInv'
  BY DEF IInv, JournalReadInv, DiskInternal, ProcessWriteSuperblock, committerVars
<1>7. QueueInv' /\ InFlightOutsidePersistent'
  <2>1. DOMAIN reqWriteJournals' = {} /\ outstandingJournalWrites' = {}
    BY ProcessWriteOnDisk DEF IInv, CommitInv, QueueInv, DiskInternal,
       ProcessWriteSuperblock, committerVars
  <2>. QED  BY <2>1 DEF QueueInv, InFlightOutsidePersistent, InFlight
<1>. QED
  BY <1>1, <1>2, <1>3, <1>4, <1>5, <1>6, <1>7 DEF IInv, TypeOK, SizeInv, DiskInternal,
     committerVars

LEMMA CrashKeepsIInv ==
  ASSUME IInv, Crash
  PROVE  IInv'
<1>1. Constructor'
  BY DEF Crash, Restart, Constructor
<1>2. CommitterTypeOK'
  BY <1>1, ConstructorType, PTL
<1>3. DiskTypeOK'
  BY DEF IInv, TypeOK, DiskTypeOK, Crash, DiskCrash
<1>4. SizeInv'
  BY BlocksForZero, NumJournalBlocksAssumption DEF Crash, Restart, SizeInv
<1>5. InFlightOutsidePersistent'
  BY DEF Crash, DiskCrash, InFlightOutsidePersistent, InFlight
<1>. QED
  BY <1>2, <1>3, <1>4, <1>5 DEF IInv, TypeOK, Crash, DiskCrash, Restart, LoadingInv,
     SuperblockReadInv, JournalReadInv, IdleInv, CommitInv, QueueInv

-----------------------------------------------------------------------------
\* Which actions change what is on disk

LEMMA DiskSuperblockChanges ==
  ASSUME [Next]_vars, diskSuperblock' # diskSuperblock
  PROVE  DiskInternal
<1>1. ~Initialization
  BY DEF Initialization, PageInSuperblockReq, RecvReadSuperblock,
     FinishLoadingSuperblockPhase, PageInJournalReq, RecvReadJournal,
     FinishLoadingOtherPhase, JournalReplayOne
<1>2. ~Commit
  BY DEF Commit, Freeze, WriteOutJournal, RecvWriteJournal, RecvWriteJournal2,
     WriteOutSuperblockAdvanceLog, WriteOutSuperblockAdvanceLocation, SendSuperblock,
     RecvWriteSuperblock
<1>3. ~Response
  BY DEF Response, ReadSuperblockResp, AckReadSuperblock, PageInJournalResp, AckReadJournal,
     WriteBackJournalResp, AckWriteJournal, WriteBackSuperblockResp, AckWriteSuperblock,
     ReceiveFrozenLoc
<1>4. /\ ~\E e \in Entry : JournalAppend(e)
      /\ ~PushSync /\ ~\E id \in SyncId : PopSync(id)
      /\ ~Crash
  BY DEF JournalAppend, PushSync, PopSync, Crash, DiskCrash
<1>. QED  BY <1>1, <1>2, <1>3, <1>4 DEF Next, vars

LEMMA DiskJournalChanges ==
  ASSUME [Next]_vars, ~WriteOutJournal, ~Crash
  PROVE  UNCHANGED diskJournal
<1>1. Initialization => UNCHANGED diskJournal
  BY DEF Initialization, PageInSuperblockReq, RecvReadSuperblock,
     FinishLoadingSuperblockPhase, PageInJournalReq, RecvReadJournal,
     FinishLoadingOtherPhase, JournalReplayOne
<1>2. Commit => UNCHANGED diskJournal
  BY DEF Commit, Freeze, WriteOutSuperblockAdvanceLog, WriteOutSuperblockAdvanceLocation,
     SendSuperblock, RecvWriteSuperblock
<1>3. Response => UNCHANGED diskJournal
  BY DEF Response, ReadSuperblockResp, AckReadSuperblock, PageInJournalResp, AckReadJournal,
     WriteBackJournalResp, AckWriteJournal, WriteBackSuperblockResp, AckWriteSuperblock,
     ReceiveFrozenLoc
<1>4. (\E e \in Entry : JournalAppend(e)) \/ PushSync \/ (\E id \in SyncId : PopSync(id))
        => UNCHANGED diskJournal
  BY DEF JournalAppend, PushSync, PopSync
<1>5. DiskInternal => UNCHANGED diskJournal
  BY DEF DiskInternal, ProcessWriteSuperblock
<1>. QED  BY <1>1, <1>2, <1>3, <1>4, <1>5 DEF Next, vars

-----------------------------------------------------------------------------
\* IInv is an invariant

LEMMA NextKeepsIInv == IInv /\ [Next]_vars => IInv'
<1>. SUFFICES ASSUME IInv, [Next]_vars PROVE IInv'
  OBVIOUS
<1>1. ASSUME NEW which \in Slot, PageInSuperblockReq(which) PROVE IInv'
  BY <1>1, PageInSuperblockReqKeepsIInv
<1>2. CASE FinishLoadingSuperblockPhase
  BY <1>2, FinishLoadingSuperblockPhaseKeepsIInv
<1>3. ASSUME NEW h \in Half, NEW id \in ReqId, PageInJournalReq(h, id) PROVE IInv'
  BY <1>3, PageInJournalReqKeepsIInv
<1>4. CASE FinishLoadingOtherPhase
  BY <1>4, FinishLoadingOtherPhaseKeepsIInv
<1>5. CASE JournalReplayOne
  BY <1>5, JournalReplayOneKeepsIInv
<1>6. ASSUME NEW e \in Entry, JournalAppend(e) PROVE IInv'
  BY <1>6, JournalAppendKeepsIInv
<1>7. CASE Freeze
  BY <1>7, FreezeKeepsIInv
<1>8. CASE WriteOutJournal
  BY <1>8, WriteOutJournalKeepsIInv
<1>9. CASE WriteOutSuperblockAdvanceLog
  BY <1>9, WriteOutSuperblockAdvanceLogKeepsIInv
<1>10. CASE WriteOutSuperblockAdvanceLocation
  BY <1>10, WriteOutSuperblockAdvanceLocationKeepsIInv
<1>11. ASSUME NEW which \in Slot, ReadSuperblockResp(which) PROVE IInv'
  BY <1>11, ReadSuperblockRespKeepsIInv
<1>12. ASSUME NEW id \in ReqId, PageInJournalResp(id) PROVE IInv'
  BY <1>12, PageInJournalRespKeepsIInv
<1>13. ASSUME NEW id \in ReqId, WriteBackJournalResp(id) PROVE IInv'
  BY <1>13, WriteBackJournalRespKeepsIInv
<1>14. CASE WriteBackSuperblockResp
  BY <1>14, WriteBackSuperblockRespKeepsIInv
<1>15. ASSUME NEW loc \in Loc, ReceiveFrozenLoc(loc) PROVE IInv'
  BY <1>15, ReceiveFrozenLocKeepsIInv
<1>16. CASE PushSync
  BY <1>16, PushSyncKeepsIInv
<1>17. ASSUME NEW id \in SyncId, PopSync(id) PROVE IInv'
  BY <1>17, PopSyncKeepsIInv
<1>18. CASE DiskInternal
  BY <1>18, DiskInternalKeepsIInv
<1>19. CASE Crash
  BY <1>19, CrashKeepsIInv
<1>20. CASE UNCHANGED vars
  <2>1. CommitterTypeOK' /\ DiskTypeOK'
    BY <1>20 DEF IInv, TypeOK, CommitterTypeOK, DiskTypeOK, vars, committerVars
  <2>2. JournalReadInv' /\ InFlightOutsidePersistent'
    BY <1>20 DEF IInv, JournalReadInv, InFlightOutsidePersistent, InFlight,
       PersistentInterval, PersistentSuperblock, vars, committerVars
  <2>. QED
    BY <1>20, <2>1, <2>2 DEF IInv, TypeOK, LoadingInv, SuperblockReadInv, IdleInv, CommitInv,
       NewSuperblockInv, SizeInv, QueueInv, vars, committerVars
<1>. QED
  BY <1>1, <1>2, <1>3, <1>4, <1>5, <1>6, <1>7, <1>8, <1>9, <1>10, <1>11, <1>12, <1>13,
     <1>14, <1>15, <1>16, <1>17, <1>18, <1>19, <1>20
     DEF Next, Initialization, Commit, Response

\* The inductive invariant holds of every state the committer and its disk can
\* reach, for any ring, any entries and any interleaving with crashes.
THEOREM Invariance == Spec => []IInv
  BY InitIInv, NextKeepsIInv, PTL DEF Spec

\* Every field stays in its type: positions and lengths inside the ring, the
\* counter inside its width (Committer.WF and Journalist.WF).
THEOREM TypeCorrect == Spec => []TypeOK
  BY Invariance, PTL DEF IInv

\* A journal write in flight, which a crash may tear, is never part of the
\* journal recovery would read (WriteOutJournal of CommitterImpl).
THEOREM InFlightSafe == Spec => []InFlightOutsidePersistent
  BY Invariance, PTL DEF IInv

-----------------------------------------------------------------------------
\* Consequences

\* The committer knows what is committed in every state of the invariant.
LEMMA KnowsCommit == IInv => CommitterKnowsCommit
<1>. SUFFICES ASSUME IInv, status = "Ready"
              PROVE  PersistentSuperblock =
                       IF HasUpdateOccurredUnacked THEN newSuperblock ELSE superblock
  BY DEF CommitterKnowsCommit
<1>1. CASE HasUpdateOccurredUnacked
  BY <1>1, UpdatePersistent
<1>2. CASE ~HasUpdateOccurredUnacked
  <2>1. whichSuperblock = SelectSuperblockIndex(diskSuperblock)
    BY <1>2 DEF IInv, IdleInv, CommitInv, HasUpdateOccurredUnacked
  <2>. QED  BY <1>2, <2>1, LoadedSuperblock DEF PersistentSuperblock, SelectSuperblock
<1>. QED  BY <1>1, <1>2

\* What the committer takes for committed is what recovery would choose, but
\* for a superblock write that has taken effect unacknowledged.
THEOREM CommitterKnows == Spec => []CommitterKnowsCommit
  BY KnowsCommit, Invariance, PTL

\* A superblock write never overwrites the superblock recovery would choose,
\* wherever the counter is when it wraps around.
THEOREM SuperblockSpared == Spec => []SuperblockWriteSpares
<1>1. IInv => SuperblockWriteSpares
  <2>. SUFFICES ASSUME IInv, NEW which \in Slot, reqWriteSuperblock[which] # None,
                       diskSuperblock[which] # reqWriteSuperblock[which]
                PROVE  which # SelectSuperblockIndex(diskSuperblock)
    BY DEF SuperblockWriteSpares
  <2>1. superblockWrite /\ which # whichSuperblock /\ reqWriteSuperblock[which] = newSuperblock
    BY DEF IInv, IdleInv, CommitInv
  <2>2. which = 1 - whichSuperblock
    BY <2>1 DEF IInv, TypeOK, CommitterTypeOK, Slot
  <2>3. whichSuperblock = SelectSuperblockIndex(diskSuperblock)
    BY <2>1, <2>2 DEF IInv, CommitInv
  <2>. QED  BY <2>1, <2>3
<1>. QED  BY <1>1, Invariance, PTL

\* Whatever the committer waits for is in flight, so that the loop around it
\* always has an answer to wait for.
THEOREM WaitingIsForSomething == Spec => []WaitsForInFlight
<1>1. IInv => WaitsForInFlight
  BY SuperblockNoneAssumption DEF IInv, IdleInv, CommitInv, NewSuperblockInv, QueueInv,
     WaitsForInFlight
<1>. QED  BY <1>1, Invariance, PTL

\* A location commit is for the table that is frozen, a log commit for none.
THEOREM CommitsMatchFreeze == Spec => []CommitMatchesFreeze
<1>1. IInv => CommitMatchesFreeze
  BY DEF IInv, IdleInv, CommitInv, NewSuperblockInv, CommitMatchesFreeze
<1>. QED  BY <1>1, Invariance, PTL

\* Recovery reads nothing outside the committed journal.
THEOREM ReadsSafe == Spec => []ReadsInsidePersistent
<1>1. IInv => ReadsInsidePersistent
  <2>. SUFFICES ASSUME IInv, NEW id \in DOMAIN reqReadJournal, NEW i \in Pos,
                       InCyclicRange(i, reqReadJournal[id])
                PROVE  InCyclicRange(i, PersistentInterval)
    BY DEF ReadsInsidePersistent
  <2>1. /\ status = "LoadingOther" /\ ~superblockWrite
        /\ \E h \in Half : /\ NeedsPart(superblock, h)
                           /\ reqReadJournal[id] = PartInterval(superblock, h)
    BY DEF IInv, JournalReadInv, LoadingInv
  <2>2. superblock \in Superblock /\ PersistentInterval = Region(superblock)
    BY <2>1, LoadedSuperblock, IdlePersistent
  <2>. QED  BY <2>1, <2>2, PartType
<1>. QED  BY <1>1, Invariance, PTL

-----------------------------------------------------------------------------
\* Action properties

\* Recovery's choice changes only to the superblock being written.
THEOREM CommitsAreAtomic == Spec => CommitIsAtomic
<1>1. IInv /\ IInv' /\ [Next]_vars =>
        (PersistentSuperblock' # PersistentSuperblock =>
           superblockWrite /\ PersistentSuperblock' = newSuperblock)
  <2>. SUFFICES ASSUME IInv, IInv', [Next]_vars,
                       PersistentSuperblock' # PersistentSuperblock
                PROVE  superblockWrite /\ PersistentSuperblock' = newSuperblock
    OBVIOUS
  <2>1. diskSuperblock' # diskSuperblock
    BY DEF PersistentSuperblock
  <2>2. DiskInternal
    BY <2>1, DiskSuperblockChanges
  <2>3. HasUpdateOccurredUnacked' /\ newSuperblock' = newSuperblock /\ superblockWrite
    BY <2>2, ProcessWriteOnDisk DEF IInv, TypeOK, DiskTypeOK, DiskInternal, committerVars,
       HasUpdateOccurredUnacked
  <2>4. (IInv /\ HasUpdateOccurredUnacked => PersistentSuperblock = newSuperblock)'
    BY UpdatePersistent, PTL
  <2>. QED  BY <2>3, <2>4
<1>. QED  BY <1>1, Invariance, PTL DEF Spec, CommitIsAtomic

\* A committed block keeps its contents as long as recovery would read it.
THEOREM CommittedStable == Spec => CommittedBlocksStable
<1>1. IInv /\ [Next]_vars =>
        (PersistentSuperblock' = PersistentSuperblock =>
           \A i \in Pos : InCyclicRange(i, PersistentInterval) =>
                            diskJournal'[i] = diskJournal[i])
  <2>. SUFFICES ASSUME IInv, [Next]_vars, NEW i \in Pos,
                       InCyclicRange(i, PersistentInterval)
                PROVE  diskJournal'[i] = diskJournal[i]
    OBVIOUS
  <2>1. CASE WriteOutJournal
    BY <2>1, WriteOutJournalSparesPersistent
  <2>2. CASE Crash
    <3>1. i \notin InFlight
      BY DEF IInv, InFlightOutsidePersistent
    <3>. QED  BY <2>2, <3>1 DEF Crash, DiskCrash
  <2>3. CASE ~WriteOutJournal /\ ~Crash
    BY <2>3, DiskJournalChanges
  <2>. QED  BY <2>1, <2>2, <2>3
<1>. QED  BY <1>1, Invariance, PTL DEF Spec, CommittedBlocksStable

-----------------------------------------------------------------------------
\* JournalView

\* Readable intervals of the ring

\* A range of no blocks has them all.
LEMMA EmptyHasRange == HasJournalRange(<<>>)
<1>1. DOMAIN <<>> = {}
  OBVIOUS
<1>. QED  BY <1>1 DEF HasJournalRange

\* An interval of no blocks is readable.
LEMMA EmptyReadable ==
  ASSUME NEW p
  PROVE  Readable([start |-> p, len |-> 0])
<1>1. JournalRangeAt(diskJournal, [start |-> p, len |-> 0]) = <<>>
  BY RangeEmpty
<1>2. DOMAIN <<>> = {}
  OBVIOUS
<1>. QED  BY <1>1, <1>2, ParsesEmpty DEF Readable, HasJournalRange

\* A readable interval holds blocks.
LEMMA ReadableBlocks ==
  ASSUME DiskTypeOK, NEW interval \in JournalInterval, Readable(interval)
  PROVE  /\ JournalRangeAt(diskJournal, interval) \in Seq(Block)
         /\ Len(JournalRangeAt(diskJournal, interval)) = interval.len
         /\ Parses(JournalRangeAt(diskJournal, interval))
  BY RangeType DEF DiskTypeOK, Readable

\* Every block of a range of blocks can be read.
LEMMA BlocksHaveRange ==
  ASSUME NEW range \in Seq(Block)
  PROVE  HasJournalRange(range)
<1>1. \A k \in DOMAIN range : range[k] \in Block
  OBVIOUS
<1>. QED  BY <1>1, NoneAssumption DEF HasJournalRange

\* Readable, of the disk before or after a step.
ReadableIn(journal, interval) ==
  LET range == JournalRangeAt(journal, interval)
  IN  HasJournalRange(range) /\ Parses(range)

EntriesIn(journal, start, len) ==
  ParsedEntries(JournalRangeAt(journal, [start |-> start, len |-> len]))

\* Two readable intervals, one after the other, make a readable one, that says
\* what the first says and then what the second says.
LEMMA IntervalsConcat ==
  ASSUME NEW journal \in [Pos -> Block \cup {None}],
         NEW p \in Pos, NEW a \in Nat, NEW b \in Nat, a + b <= NumJournalBlocks,
         ReadableIn(journal, [start |-> p, len |-> a]),
         ReadableIn(journal, [start |-> JournalPosAdd(p, a), len |-> b])
  PROVE  /\ ReadableIn(journal, [start |-> p, len |-> a + b])
         /\ EntriesIn(journal, p, a + b) =
              EntriesIn(journal, p, a) \o EntriesIn(journal, JournalPosAdd(p, a), b)
<1>. DEFINE first == JournalRangeAt(journal, [start |-> p, len |-> a])
            second == JournalRangeAt(journal, [start |-> JournalPosAdd(p, a), len |-> b])
            whole == JournalRangeAt(journal, [start |-> p, len |-> a + b])
<1>1. /\ [start |-> p, len |-> a] \in JournalInterval
      /\ [start |-> JournalPosAdd(p, a), len |-> b] \in JournalInterval
  <2>1. JournalPosAdd(p, a) \in Pos
    BY PosAddType, NumJournalBlocksAssumption
  <2>. QED  BY <2>1, NumJournalBlocksAssumption DEF JournalInterval
<1>2. first \in Seq(Block) /\ second \in Seq(Block) /\ Parses(first) /\ Parses(second)
  BY <1>1, RangeType DEF ReadableIn
<1>3. whole = first \o second
  BY RangeConcat
<1>. HIDE DEF first, second, whole
<1>4. whole \in Seq(Block) /\ Parses(whole)
  BY <1>2, <1>3, ParsesConcat, ConcatProperties
<1>5. ParsedEntries(whole) = ParsedEntries(first) \o ParsedEntries(second)
  BY <1>2, <1>3, ParsedConcat
<1>. QED  BY <1>4, <1>5, BlocksHaveRange DEF ReadableIn, EntriesIn, first, second, whole

\* Whole chunks followed by whole chunks are whole chunks, and hold their entries in order.
LEMMA ReadableConcat ==
  ASSUME DiskTypeOK, NEW p \in Pos, NEW a \in Nat, NEW b \in Nat,
         a + b <= NumJournalBlocks,
         Readable([start |-> p, len |-> a]),
         Readable([start |-> JournalPosAdd(p, a), len |-> b])
  PROVE  /\ Readable([start |-> p, len |-> a + b])
         /\ DiskJournalEntries(p, a + b) =
              DiskJournalEntries(p, a) \o DiskJournalEntries(JournalPosAdd(p, a), b)
<1>1. diskJournal \in [Pos -> Block \cup {None}]
  BY DEF DiskTypeOK
<1>. QED  BY <1>1, IntervalsConcat DEF Readable, ReadableIn, DiskJournalEntries, EntriesIn

\* What is readable depends on the blocks of the interval only.
LEMMA ReadableUnchanged ==
  ASSUME NEW interval \in JournalInterval,
         \A i \in Pos : InCyclicRange(i, interval) => diskJournal'[i] = diskJournal[i]
  PROVE  /\ JournalRangeAt(diskJournal', interval) = JournalRangeAt(diskJournal, interval)
         /\ Readable(interval) => ReadableIn(diskJournal', interval)
<1>1. JournalRangeAt(diskJournal', interval) = JournalRangeAt(diskJournal, interval)
  BY RangeUnchanged
<1>. QED  BY <1>1 DEF Readable, ReadableIn

-----------------------------------------------------------------------------
\* The intervals of ContentsInv

\* The intervals the invariant speaks of are inside the region.
LEMMA IntervalsType ==
  ASSUME IInv
  PROVE  /\ PersistentSuperblock \in Superblock
         /\ PersistentInterval \in JournalInterval
         /\ status # "LoadingSuperblock" =>
              /\ superblock.journalStart \in Pos
              /\ superblock.journalLen \in 0 .. NumJournalBlocks
              /\ ObsoleteInterval \in JournalInterval
              /\ RecentInterval \in JournalInterval
         /\ writtenJournalBlocks \in 0 .. NumJournalBlocks /\ writtenJournalBlocks \in Nat
         /\ frozenJournalPosition \in 0 .. writtenJournalBlocks
         /\ frozenJournalPosition \in 0 .. NumJournalBlocks
         /\ writtenJournalBlocks - frozenJournalPosition \in Nat
<1>1. PersistentSuperblock \in Superblock /\ PersistentInterval \in JournalInterval
  BY SelectType, RegionType DEF IInv, TypeOK, DiskTypeOK, PersistentSuperblock,
     PersistentInterval, SelectSuperblock
<1>2. /\ writtenJournalBlocks \in 0 .. NumJournalBlocks /\ writtenJournalBlocks \in Nat
      /\ frozenJournalPosition \in 0 .. writtenJournalBlocks
      /\ frozenJournalPosition \in 0 .. NumJournalBlocks
      /\ writtenJournalBlocks - frozenJournalPosition \in Nat
      /\ writtenJournalBlocks - frozenJournalPosition \in 0 .. NumJournalBlocks
  BY NumJournalBlocksAssumption DEF IInv, TypeOK, CommitterTypeOK, SizeInv
<1>3. ASSUME status # "LoadingSuperblock"
      PROVE  /\ superblock.journalStart \in Pos
             /\ superblock.journalLen \in 0 .. NumJournalBlocks
             /\ ObsoleteInterval \in JournalInterval
             /\ RecentInterval \in JournalInterval
  <2>1. superblock.journalStart \in Pos /\ superblock.journalLen \in 0 .. NumJournalBlocks
    BY <1>3, LoadedSuperblock DEF Superblock
  <2>2. JournalPosAdd(superblock.journalStart, frozenJournalPosition) \in Pos
    BY <1>2, <2>1, PosAddType
  <2>. QED  BY <1>2, <2>1, <2>2 DEF ObsoleteInterval, RecentInterval, JournalInterval
<1>. QED  BY <1>1, <1>2, <1>3

\* Together the two are all that is written.
LEMMA WrittenReadable ==
  ASSUME IInv, ContentsInv, status = "Ready"
  PROVE  /\ Readable(WrittenInterval)
         /\ DiskJournalEntries(superblock.journalStart, writtenJournalBlocks) =
              DiskJournalEntries(superblock.journalStart, frozenJournalPosition)
              \o DiskJournalEntries(JournalPosAdd(superblock.journalStart, frozenJournalPosition),
                                    writtenJournalBlocks - frozenJournalPosition)
<1>. DEFINE p == superblock.journalStart
            a == frozenJournalPosition
            b == writtenJournalBlocks - frozenJournalPosition
<1>1. p \in Pos /\ a \in Nat /\ b \in Nat /\ a + b = writtenJournalBlocks
      /\ a + b <= NumJournalBlocks
  BY IntervalsType, NumJournalBlocksAssumption
<1>2. /\ Readable([start |-> p, len |-> a])
      /\ Readable([start |-> JournalPosAdd(p, a), len |-> b])
  BY DEF ContentsInv, ChunksInv, ObsoleteInterval, RecentInterval
<1>3. DiskTypeOK
  BY DEF IInv, TypeOK
<1>. HIDE DEF p, a, b
<1>4. /\ Readable([start |-> p, len |-> a + b])
      /\ DiskJournalEntries(p, a + b) =
           DiskJournalEntries(p, a) \o DiskJournalEntries(JournalPosAdd(p, a), b)
  BY <1>1, <1>2, <1>3, ReadableConcat
<1>. QED  BY <1>1, <1>4 DEF WrittenInterval, p, a, b

-----------------------------------------------------------------------------
\* Parts of ContentsInv that a step leaves alone

\* What a step leaves alone keeps each part of ContentsInv.
LEMMA SameEntries ==
  ASSUME EntriesInv,
         UNCHANGED <<replayJournal, status, inMemoryJournal, inMemoryJournalFrozen, isFrozen,
                     superblockWrite, frozenJournalPosition, writtenJournalBlocks, frozenLoc>>
  PROVE  EntriesInv'
  BY DEF EntriesInv

\* The part about what has been read depends on the reads and on the region.
LEMMA SameLoaded ==
  ASSUME LoadedInv,
         UNCHANGED <<status, superblock, journalPart, journalRead, diskJournal>>
  PROVE  LoadedInv'
  BY DEF LoadedInv

\* Nothing is read once the committer is ready.
LEMMA ReadyLoaded ==
  ASSUME LoadedInv, status = "Ready", UNCHANGED <<status, journalPart, journalRead>>
  PROVE  LoadedInv'
  BY DEF LoadedInv

\* The part about chunks depends on the region and on where the journals end.
LEMMA SameChunks ==
  ASSUME ChunksInv,
         UNCHANGED <<status, superblock, frozenJournalPosition, writtenJournalBlocks,
                     diskJournal, diskSuperblock>>
  PROVE  ChunksInv'
  BY DEF ChunksInv, Readable, PersistentInterval, PersistentSuperblock, ObsoleteInterval,
     RecentInterval

\* The part about weights depends on the queues alone.
LEMMA SameFits ==
  ASSUME JournalFits, UNCHANGED queueVars
  PROVE  JournalFits'
  BY DEF JournalFits

-----------------------------------------------------------------------------
\* The start

\* An empty journal fits.
LEMMA EmptyFits ==
  ASSUME NEW n \in 0 .. NumJournalBlocks
  PROVE  BlockCapacity * (n + 0) + 0 <= BlockCapacity * NumJournalBlocks
<1>1. n + 0 = n /\ n \in Nat /\ NumJournalBlocks - n \in Nat
  BY NumJournalBlocksAssumption
<1>. DEFINE r == NumJournalBlocks - n
<1>2. BlockCapacity * NumJournalBlocks = BlockCapacity * n + BlockCapacity * r
  BY <1>1, WeightAssumption, NumJournalBlocksAssumption
<1>3. BlockCapacity * r \in Nat /\ BlockCapacity * n \in Nat
  BY <1>1, WeightAssumption
<1>. QED  BY <1>1, <1>2, <1>3

\* A new disk holds no entry and an empty journal.
LEMMA InitContents ==
  ASSUME Init
  PROVE  ContentsInv
<1>1. EntriesInv
  <2>1. <<>> \in Seq(Entry)
    OBVIOUS
  <2>. QED  BY <2>1 DEF Init, Constructor, EntriesInv
<1>2. LoadedInv
  BY DEF Init, Constructor, LoadedInv, Half
<1>3. ChunksInv
  <2>1. PICK loc \in Loc :
          diskSuperblock = [which \in Slot |-> [counter |-> 0, journalStart |-> 0,
                                journalLen |-> 0, indirectionTableLoc |-> loc]]
    BY DEF Init, DiskInit
  <2>2. PersistentInterval = [start |-> 0, len |-> 0]
    BY <2>1, SelectType DEF PersistentInterval, PersistentSuperblock, SelectSuperblock, Region
  <2>. QED  BY <2>2, EmptyReadable DEF ChunksInv, Init, Constructor
<1>4. JournalFits
  <2>1. 0 \in 0 .. NumJournalBlocks
    BY NumJournalBlocksAssumption
  <2>2. BlockCapacity * (0 + 0) + 0 <= BlockCapacity * NumJournalBlocks
    BY <2>1, EmptyFits
  <2>3. 0 <= BlockCapacity * 0
    BY WeightAssumption
  <2>. QED  BY <2>2, <2>3, WeightEmpty DEF JournalFits, Init, Constructor
<1>. QED  BY <1>1, <1>2, <1>3, <1>4 DEF ContentsInv

-----------------------------------------------------------------------------
\* Loading

\* Reading a superblock concerns no entry.
LEMMA PageInSuperblockReqKeepsContents ==
  ASSUME ContentsInv, NEW which \in Slot, PageInSuperblockReq(which)
  PROVE  ContentsInv'
  BY SameEntries, SameLoaded, SameChunks, SameFits
     DEF ContentsInv, PageInSuperblockReq, RecvReadSuperblock

\* Nor does the answer.
LEMMA ReadSuperblockRespKeepsContents ==
  ASSUME ContentsInv, NEW which \in Slot, ReadSuperblockResp(which)
  PROVE  ContentsInv'
  BY SameEntries, SameLoaded, SameChunks, SameFits
     DEF ContentsInv, ReadSuperblockResp, AckReadSuperblock

\* When the superblock is chosen, no half of the journal has been read.
LEMMA FinishLoadingSuperblockPhaseKeepsContents ==
  ASSUME ContentsInv, FinishLoadingSuperblockPhase
  PROVE  ContentsInv'
<1>1. EntriesInv'
  BY DEF ContentsInv, EntriesInv, FinishLoadingSuperblockPhase
<1>2. LoadedInv'
  BY DEF ContentsInv, LoadedInv, FinishLoadingSuperblockPhase, Half
<1>3. ChunksInv'
  BY DEF ContentsInv, ChunksInv, FinishLoadingSuperblockPhase, Readable, PersistentInterval,
     PersistentSuperblock
<1>. QED  BY <1>1, <1>2, <1>3, SameFits DEF ContentsInv, FinishLoadingSuperblockPhase

\* A half is asked for with an id the other half does not use.
LEMMA PageInJournalReqKeepsContents ==
  ASSUME IInv, ContentsInv, NEW h \in Half, NEW id \in ReqId, PageInJournalReq(h, id)
  PROVE  ContentsInv'
<1>1. LoadedInv'
  <2>1. /\ journalRead' = [journalRead EXCEPT ![h] = id]
        /\ id # journalRead["Front"] /\ id # journalRead["Back"]
        /\ journalRead \in [Half -> ReqId \cup {None}]
        /\ status = "LoadingOther"
        /\ UNCHANGED <<status, superblock, journalPart, diskJournal>>
    BY DEF PageInJournalReq, RecvReadJournal, IInv, TypeOK, CommitterTypeOK, Half
  <2>2. journalRead'["Front"] # None => journalRead'["Front"] # journalRead'["Back"]
    BY <2>1 DEF ContentsInv, LoadedInv, Half
  <2>. QED  BY <2>1, <2>2 DEF ContentsInv, LoadedInv
<1>. QED  BY <1>1, SameEntries, SameChunks, SameFits
          DEF ContentsInv, PageInJournalReq, RecvReadJournal

\* An answer brings the half its request asked for, as it is on disk.
LEMMA PageInJournalRespKeepsContents ==
  ASSUME IInv, ContentsInv, NEW id \in ReqId, PageInJournalResp(id)
  PROVE  ContentsInv'
<1>1. LoadedInv'
  <2>1. /\ status = "LoadingOther" /\ id \in DOMAIN reqReadJournal
        /\ UNCHANGED <<status, superblock, diskJournal>>
    BY DEF PageInJournalResp, AckReadJournal
  <2>2. PICK g \in Half : /\ NeedsPart(superblock, g) /\ journalRead[g] = id
                          /\ reqReadJournal[id] = PartInterval(superblock, g)
    BY <2>1 DEF IInv, JournalReadInv
  <2>3. CASE UNCHANGED <<journalPart, journalRead>>
    BY <2>1, <2>3 DEF ContentsInv, LoadedInv
  <2>4. ASSUME NEW h \in Half, journalRead[h] = id,
               journalPart' = [journalPart EXCEPT ![h] =
                                 JournalRangeAt(diskJournal, reqReadJournal[id])],
               journalRead' = [journalRead EXCEPT ![h] = None]
        PROVE  LoadedInv'
    <3>1. h = g
      BY <2>2, <2>4, DiskNoneAssumption DEF ContentsInv, LoadedInv, Half
    <3>2. journalRead \in [Half -> ReqId \cup {None}] /\ DOMAIN journalPart = Half
      BY DEF IInv, TypeOK, CommitterTypeOK
    <3>3. \A f \in Half : /\ f # h => journalPart'[f] = journalPart[f]
                          /\ f = h => journalPart'[f] =
                                        JournalRangeAt(diskJournal, PartInterval(superblock, h))
      BY <2>2, <2>4, <3>1, <3>2
    <3>4. journalRead'["Front"] # None => journalRead'["Front"] # journalRead'["Back"]
      BY <2>4, <3>2 DEF ContentsInv, LoadedInv, Half
    <3>. QED  BY <2>1, <2>2, <3>1, <3>3, <3>4 DEF ContentsInv, LoadedInv
  <2>. QED  BY <2>3, <2>4 DEF PageInJournalResp
<1>. QED  BY <1>1, SameEntries, SameChunks, SameFits
          DEF ContentsInv, PageInJournalResp, AckReadJournal

\* The halves put together are the journal the superblock names.
LEMMA LoadedIsPersistent ==
  ASSUME IInv, ContentsInv, status = "LoadingOther",
         \A h \in Half : NeedsPart(superblock, h) => journalPart[h] # None
  PROVE  /\ LoadedRange = JournalRangeAt(diskJournal, PersistentInterval)
         /\ LoadedRange \in Seq(Block)
<1>. DEFINE p == superblock.journalStart
            n == superblock.journalLen
            region == [start |-> p, len |-> n]
            at(interval) == JournalRangeAt(diskJournal, interval)
<1>1. superblock \in Superblock /\ PersistentInterval = region /\ Region(superblock) = region
  BY LoadedSuperblock, IdlePersistent DEF IInv, LoadingInv, Region
<1>2. p \in Pos /\ n \in 0 .. NumJournalBlocks /\ region \in JournalInterval
  BY <1>1, RegionType DEF Superblock
<1>3. \A h \in Half :
        /\ NeedsPart(superblock, h) => /\ journalPart[h] # None
                                       /\ journalPart[h] = at(PartInterval(superblock, h))
        /\ ~NeedsPart(superblock, h) => journalPart[h] = None
  BY DEF ContentsInv, LoadedInv
<1>4. diskJournal \in [Pos -> Block \cup {None}]
  BY DEF IInv, TypeOK, DiskTypeOK
<1>5. /\ NeedsPart(superblock, "Front") <=> n > 0
      /\ NeedsPart(superblock, "Back") <=> p + n > NumJournalBlocks
      /\ PartInterval(superblock, "Front") = FrontInterval(region)
      /\ PartInterval(superblock, "Back") = BackInterval(region)
  BY <1>1 DEF NeedsPart, HasFront, HasBack, PartInterval
<1>6. LoadedRange = at(region)
  <2>1. CASE n = 0
    <3>1. ~NeedsPart(superblock, "Front") /\ ~NeedsPart(superblock, "Back")
      BY <1>2, <1>5, <2>1, NumJournalBlocksAssumption DEF Pos
    <3>2. LoadedRange = <<>> \o <<>>
      BY <1>3, <3>1 DEF LoadedRange, Half
    <3>. QED  BY <2>1, <3>2, RangeEmpty
  <2>2. CASE n > 0 /\ p + n <= NumJournalBlocks
    <3>1. NeedsPart(superblock, "Front") /\ ~NeedsPart(superblock, "Back")
      BY <1>2, <1>5, <2>2, NumJournalBlocksAssumption DEF Pos
    <3>2. FrontInterval(region) = region
      BY <1>2, <2>2, NumJournalBlocksAssumption DEF FrontInterval, Pos
    <3>3. LoadedRange = at(region) \o <<>>
      BY <1>3, <1>5, <3>1, <3>2 DEF LoadedRange, Half
    <3>4. at(region) \in Seq(Block \cup {None})
      BY <1>2, <1>4, RangeType
    <3>. QED  BY <3>3, <3>4, ConcatEmptySeq
  <2>3. CASE p + n > NumJournalBlocks
    <3>. DEFINE a == NumJournalBlocks - p
                b == p + n - NumJournalBlocks
    <3>1. NeedsPart(superblock, "Front") /\ NeedsPart(superblock, "Back")
      BY <1>2, <1>5, <2>3, NumJournalBlocksAssumption DEF Pos
    <3>2. a \in Nat /\ b \in Nat /\ a + b = n /\ a + b <= NumJournalBlocks
      BY <1>2, <2>3, NumJournalBlocksAssumption DEF Pos
    <3>3. JournalPosAdd(p, a) = 0
      BY <1>2, NumJournalBlocksAssumption DEF JournalPosAdd, Pos
    <3>4. /\ FrontInterval(region) = [start |-> p, len |-> a]
          /\ BackInterval(region) = [start |-> JournalPosAdd(p, a), len |-> b]
      BY <1>2, <2>3, <3>3, NumJournalBlocksAssumption DEF FrontInterval, BackInterval, Pos
    <3>5. LoadedRange = at(FrontInterval(region)) \o at(BackInterval(region))
      BY <1>3, <1>5, <3>1 DEF LoadedRange, Half
    <3>. HIDE DEF a, b
    <3>6. at([start |-> p, len |-> a + b]) =
            at([start |-> p, len |-> a]) \o at([start |-> JournalPosAdd(p, a), len |-> b])
      BY <1>2, <1>4, <3>2, RangeConcat
    <3>. QED  BY <3>2, <3>4, <3>5, <3>6
  <2>. QED  BY <1>2, <2>1, <2>2, <2>3, NumJournalBlocksAssumption DEF Pos
<1>7. at(region) \in Seq(Block)
  BY <1>1, <1>2, ReadableBlocks DEF IInv, TypeOK, ContentsInv, ChunksInv
<1>. QED  BY <1>1, <1>6, <1>7

\* What has been loaded is the persistent journal, whole chunks.
LEMMA FinishLoadingOtherPhaseKeepsContents ==
  ASSUME IInv, ContentsInv, FinishLoadingOtherPhase
  PROVE  ContentsInv'
<1>1. /\ status = "LoadingOther" /\ status' = "Ready"
      /\ writtenJournalBlocks' = superblock.journalLen
      /\ replayJournal' = ParsedEntries(LoadedRange)
      /\ frozenJournalPosition' = 0 /\ frozenLoc' = None /\ ~isFrozen' /\ ~superblockWrite'
      /\ inMemoryJournal' = <<>> /\ inMemoryJournalFrozen' = <<>>
      /\ frozenJournalBlocks' = 0 /\ inMemoryWeight' = 0
      /\ superblock' = superblock /\ diskJournal' = diskJournal
      /\ diskSuperblock' = diskSuperblock
  BY DEF FinishLoadingOtherPhase, IInv, LoadingInv, ContentsInv, EntriesInv
<1>2. EntriesInv'
  <2>1. LoadedRange \in Seq(Block)
    BY LoadedIsPersistent DEF FinishLoadingOtherPhase
  <2>2. replayJournal' \in Seq(Entry)
    BY <1>1, <2>1, ParsedType
  <2>. QED  BY <1>1, <2>2 DEF EntriesInv
<1>3. LoadedInv'
  BY DEF FinishLoadingOtherPhase, LoadedInv, ContentsInv
<1>4. ChunksInv'
  <2>1. /\ superblock \in Superblock
        /\ PersistentInterval = [start |-> superblock.journalStart, len |-> superblock.journalLen]
    BY <1>1, LoadedSuperblock, IdlePersistent DEF IInv, LoadingInv, Region
  <2>2. /\ JournalPosAdd(superblock.journalStart, 0) = superblock.journalStart
        /\ superblock.journalLen - 0 = superblock.journalLen
    BY <2>1, PosAddZero, NumJournalBlocksAssumption DEF Superblock
  <2>3. PersistentInterval' = PersistentInterval
    BY <1>1 DEF PersistentInterval, PersistentSuperblock
  <2>4. /\ ObsoleteInterval' = [start |-> superblock.journalStart, len |-> 0]
        /\ RecentInterval' = PersistentInterval
    BY <1>1, <2>1, <2>2 DEF ObsoleteInterval, RecentInterval
  <2>5. Readable(PersistentInterval)
    BY DEF ContentsInv, ChunksInv
  <2>6. Readable([start |-> superblock.journalStart, len |-> 0])
    BY EmptyReadable
  <2>. QED  BY <1>1, <2>3, <2>4, <2>5, <2>6 DEF ChunksInv, Readable
<1>5. JournalFits'
  <2>1. superblock.journalLen \in 0 .. NumJournalBlocks
    BY <1>1, IntervalsType
  <2>2. 0 <= BlockCapacity * 0
    BY WeightAssumption
  <2>. QED  BY <1>1, <2>1, <2>2, EmptyFits, WeightEmpty DEF JournalFits
<1>. QED  BY <1>2, <1>3, <1>4, <1>5 DEF ContentsInv

\* Replaying drops the first entry of what is to be replayed.
LEMMA JournalReplayOneKeepsContents ==
  ASSUME ContentsInv, JournalReplayOne
  PROVE  ContentsInv'
<1>1. EntriesInv'
  <2>1. replayJournal' \in Seq(Entry)
    BY HeadTailProperties DEF ContentsInv, EntriesInv, JournalReplayOne
  <2>. QED  BY <2>1 DEF ContentsInv, EntriesInv, JournalReplayOne
<1>. QED  BY <1>1, SameLoaded, SameChunks, SameFits DEF ContentsInv, JournalReplayOne
-----------------------------------------------------------------------------
\* Appending and freezing

\* The room CanAppend looks for is the room the entry takes.
LEMMA JournalAppendKeepsContents ==
  ASSUME IInv, ContentsInv, NEW e \in Entry, JournalAppend(e)
  PROVE  ContentsInv'
<1>1. /\ status = "Ready" /\ CanAppend(e)
      /\ inMemoryJournal' = Append(inMemoryJournal, e)
      /\ inMemoryWeight' = inMemoryWeight + EntryWeight[e]
                             + (IF inMemoryJournal = <<>> THEN HeaderWeight ELSE 0)
      /\ UNCHANGED <<status, loadVars, currentVars, replayJournal, inMemoryJournalFrozen,
                     writtenJournalBlocks, frozenJournalBlocks, frozenVars, writeVars,
                     diskVars>>
  BY DEF JournalAppend, IsInitialized
<1>2. EntriesInv'
  BY <1>1 DEF ContentsInv, EntriesInv
<1>3. LoadedInv' /\ ChunksInv'
  BY <1>1, ReadyLoaded, SameChunks DEF ContentsInv
<1>4. JournalFits'
  <2>1. WeightJournalEntries(inMemoryJournal') = inMemoryWeight'
    BY <1>1, WeightAppend DEF ContentsInv, JournalFits, IInv, TypeOK, CommitterTypeOK
  <2>. DEFINE header == IF inMemoryJournal = <<>> THEN HeaderWeight ELSE 0
              used == BlockCapacity * (writtenJournalBlocks + frozenJournalBlocks)
              all == BlockCapacity * NumJournalBlocks
  <2>2. /\ used \in Nat /\ all \in Nat /\ inMemoryWeight \in Nat
        /\ EntryWeight[e] \in Nat /\ header \in Nat
    BY WeightAssumption, NumJournalBlocksAssumption DEF IInv, TypeOK, CommitterTypeOK
  <2>3. used + inMemoryWeight + EntryWeight[e] + header <= all
    BY <1>1 DEF CanAppend
  <2>. HIDE DEF header, used, all
  <2>4. used + (inMemoryWeight + EntryWeight[e] + header) <= all
    BY <2>2, <2>3
  <2>. QED  BY <1>1, <2>1, <2>4 DEF ContentsInv, JournalFits, used, all, header
<1>. QED  BY <1>2, <1>3, <1>4 DEF ContentsInv

\* What freezing leaves in the frozen journal fits the blocks counted for it.
LEMMA FreezeKeepsContents ==
  ASSUME IInv, ContentsInv, Freeze
  PROVE  ContentsInv'
<1>. DEFINE blocks == BlocksFor(inMemoryWeight)
<1>1. /\ status = "Ready" /\ ~isFrozen /\ ~superblockWrite
      /\ inMemoryJournalFrozen' = inMemoryJournalFrozen \o inMemoryJournal
      /\ inMemoryJournal' = <<>> /\ inMemoryWeight' = 0
      /\ frozenJournalBlocks' = frozenJournalBlocks + blocks
      /\ frozenLoc' = None /\ isFrozen' /\ frozenJournalPosition' = writtenJournalBlocks
      /\ UNCHANGED <<status, loadVars, currentVars, replayJournal, writtenJournalBlocks,
                     writeVars, diskVars>>
  BY DEF Freeze, DoSync, IsInitialized
<1>2. EntriesInv'
  BY <1>1 DEF ContentsInv, EntriesInv
<1>3. LoadedInv'
  BY <1>1, ReadyLoaded DEF ContentsInv
<1>4. ChunksInv'
  <2>1. Readable(WrittenInterval)
    BY <1>1, WrittenReadable
  <2>2. /\ ObsoleteInterval' = WrittenInterval
        /\ RecentInterval' = [start |-> RecentInterval'.start, len |-> 0]
        /\ PersistentInterval' = PersistentInterval
    <3>1. writtenJournalBlocks - writtenJournalBlocks = 0
      BY IntervalsType
    <3>. QED  BY <1>1, <3>1 DEF ObsoleteInterval, RecentInterval, WrittenInterval,
              PersistentInterval, PersistentSuperblock
  <2>3. Readable([start |-> RecentInterval'.start, len |-> 0])
    BY EmptyReadable
  <2>. QED  BY <1>1, <2>1, <2>2, <2>3 DEF ContentsInv, ChunksInv, Readable
<1>5. JournalFits'
  <2>1. /\ blocks \in Nat /\ frozenJournalBlocks \in Nat /\ writtenJournalBlocks \in Nat
        /\ inMemoryWeight \in Nat
        /\ writtenJournalBlocks + (frozenJournalBlocks + blocks) \in 0 .. NumJournalBlocks
    BY RoomOnDisk, NumJournalBlocksAssumption DEF IInv, TypeOK, CommitterTypeOK, SizeInv
  <2>2. inMemoryWeight <= BlockCapacity * blocks
    BY <2>1, BlocksForCovers
  <2>3. inMemoryJournal \in Seq(Entry) /\ inMemoryJournalFrozen \in Seq(Entry)
    BY DEF IInv, TypeOK, CommitterTypeOK
  <2>4. WeightJournalEntries(inMemoryJournalFrozen \o inMemoryJournal)
          <= WeightJournalEntries(inMemoryJournalFrozen) + inMemoryWeight
    BY <2>3, WeightConcat DEF ContentsInv, JournalFits
  <2>5. /\ WeightJournalEntries(inMemoryJournalFrozen \o inMemoryJournal) \in Nat
        /\ WeightJournalEntries(inMemoryJournalFrozen) \in Nat
    BY <2>3, WeightType, ConcatProperties
  <2>6. WeightJournalEntries(inMemoryJournalFrozen) <= BlockCapacity * frozenJournalBlocks
    BY DEF ContentsInv, JournalFits
  <2>. HIDE DEF blocks
  <2>7. /\ BlockCapacity * (frozenJournalBlocks + blocks) =
             BlockCapacity * frozenJournalBlocks + BlockCapacity * blocks
        /\ BlockCapacity * frozenJournalBlocks \in Nat /\ BlockCapacity * blocks \in Nat
    BY <2>1, WeightAssumption
  <2>8. WeightJournalEntries(inMemoryJournalFrozen \o inMemoryJournal)
          <= BlockCapacity * (frozenJournalBlocks + blocks)
    BY <2>1, <2>2, <2>4, <2>5, <2>6, <2>7
  <2>9. BlockCapacity * (writtenJournalBlocks + (frozenJournalBlocks + blocks)) + 0
          <= BlockCapacity * NumJournalBlocks
    <3>. DEFINE total == writtenJournalBlocks + (frozenJournalBlocks + blocks)
    <3>1. total + 0 = total
      BY <2>1
    <3>. QED  BY <2>1, <3>1, EmptyFits
  <2>. QED  BY <1>1, <2>8, <2>9, WeightEmpty DEF JournalFits
<1>. QED  BY <1>2, <1>3, <1>4, <1>5 DEF ContentsInv

\* The location of the frozen table concerns no entry.
LEMMA ReceiveFrozenLocKeepsContents ==
  ASSUME ContentsInv, NEW loc \in Loc, ReceiveFrozenLoc(loc)
  PROVE  ContentsInv'
<1>1. /\ status = "Ready" /\ isFrozen
      /\ UNCHANGED <<status, loadVars, currentVars, replayJournal, queueVars, isFrozen,
                     frozenJournalPosition, writeVars, diskVars>>
  BY DEF ReceiveFrozenLoc
<1>2. EntriesInv'
  BY <1>1 DEF ContentsInv, EntriesInv
<1>. QED  BY <1>1, <1>2, ReadyLoaded, SameChunks, SameFits DEF ContentsInv

-----------------------------------------------------------------------------
\* Writing the journal

\* What WriteOutJournal writes, and where.
EntriesToWrite ==
  IF inMemoryJournalFrozen # <<>> THEN inMemoryJournalFrozen ELSE inMemoryJournal

BlocksToWrite ==
  IF inMemoryJournalFrozen # <<>> THEN frozenJournalBlocks ELSE BlocksFor(inMemoryWeight)

WriteStart == JournalPosAdd(superblock.journalStart, writtenJournalBlocks)

\* A journal write is a chunk of at least one block, in the free part of the ring.
LEMMA WriteOutJournalChunk ==
  ASSUME IInv, ContentsInv, WriteOutJournal
  PROVE  /\ status = "Ready" /\ ~superblockWrite
         /\ EntriesToWrite \in Seq(Entry)
         /\ BlocksToWrite \in 1 .. NumJournalBlocks
         /\ writtenJournalBlocks + BlocksToWrite <= NumJournalBlocks
         /\ writtenJournalBlocks' = writtenJournalBlocks + BlocksToWrite
         /\ WriteStart \in Pos
         /\ diskJournal' = CyclicSplice(diskJournal, WriteStart,
                             MarshallJournalEntries(EntriesToWrite, BlocksToWrite))
         /\ diskJournal' \in [Pos -> Block \cup {None}]
<1>1. status = "Ready" /\ ~superblockWrite /\ EntriesToWrite # <<>>
  BY DEF WriteOutJournal, AdvancingLocation, AdvancingLog, DoSync, IsInitialized,
     JournalToWrite, EntriesToWrite
<1>2. /\ inMemoryJournal \in Seq(Entry) /\ inMemoryJournalFrozen \in Seq(Entry)
      /\ EntriesToWrite \in Seq(Entry)
      /\ frozenJournalBlocks \in Nat
  BY NumJournalBlocksAssumption DEF IInv, TypeOK, CommitterTypeOK, EntriesToWrite
<1>3. /\ BlocksToWrite \in 0 .. NumJournalBlocks
      /\ writtenJournalBlocks + BlocksToWrite <= NumJournalBlocks
  BY RoomOnDisk DEF IInv, TypeOK, CommitterTypeOK, BlocksToWrite
<1>4. BlocksToWrite # 0
  <2>1. CASE inMemoryJournalFrozen # <<>>
    <3>1. /\ WeightJournalEntries(inMemoryJournalFrozen) \in Nat \ {0}
          /\ WeightJournalEntries(inMemoryJournalFrozen) <= BlockCapacity * frozenJournalBlocks
      BY <1>2, <2>1, WeightPositive DEF ContentsInv, JournalFits
    <3>2. BlockCapacity * 0 = 0
      BY WeightAssumption
    <3>3. frozenJournalBlocks # 0
      BY <3>1, <3>2
    <3>. QED  BY <2>1, <3>3 DEF BlocksToWrite
  <2>2. CASE inMemoryJournalFrozen = <<>>
    <3>1. inMemoryWeight \in Nat \ {0}
      BY <1>1, <1>2, <2>2, WeightPositive DEF ContentsInv, JournalFits, EntriesToWrite
    <3>. QED  BY <2>2, <3>1, BlocksForPositive DEF BlocksToWrite
  <2>. QED  BY <2>1, <2>2
<1>5. WriteStart \in Pos
  BY <1>1, IntervalsType, PosAddType DEF WriteStart
<1>6. /\ diskJournal' = CyclicSplice(diskJournal, WriteStart,
                          MarshallJournalEntries(EntriesToWrite, BlocksToWrite))
      /\ writtenJournalBlocks' = writtenJournalBlocks + BlocksToWrite
  BY DEF WriteOutJournal, RecvWriteJournal, RecvWriteJournal2, EntriesToWrite,
     BlocksToWrite, WriteStart
<1>7. diskJournal' \in [Pos -> Block \cup {None}]
  <2>1. MarshallJournalEntries(EntriesToWrite, BlocksToWrite) \in Seq(Block)
    BY <1>2, <1>3, MarshallType
  <2>. QED  BY <1>5, <1>6, <2>1, SpliceType DEF IInv, TypeOK, DiskTypeOK
<1>8. BlocksToWrite \in 1 .. NumJournalBlocks
  BY <1>3, <1>4
<1>. QED  BY <1>1, <1>2, <1>3, <1>5, <1>6, <1>7, <1>8

\* It leaves what was written before as it was.
LEMMA WriteOutJournalKeepsRanges ==
  ASSUME IInv, ContentsInv, WriteOutJournal,
         NEW a \in 0 .. writtenJournalBlocks, NEW len \in 0 .. (writtenJournalBlocks - a)
  PROVE  JournalRangeAt(diskJournal', [start |-> JournalPosAdd(superblock.journalStart, a),
                                       len |-> len])
           = JournalRangeAt(diskJournal, [start |-> JournalPosAdd(superblock.journalStart, a),
                                          len |-> len])
<1>. DEFINE p == superblock.journalStart
            range == MarshallJournalEntries(EntriesToWrite, BlocksToWrite)
            interval == [start |-> JournalPosAdd(p, a), len |-> len]
<1>1. /\ status = "Ready" /\ p \in Pos
      /\ writtenJournalBlocks \in 0 .. NumJournalBlocks
      /\ writtenJournalBlocks \in Nat
      /\ BlocksToWrite \in Nat /\ BlocksToWrite \in 0 .. NumJournalBlocks
      /\ writtenJournalBlocks + BlocksToWrite <= NumJournalBlocks
  BY WriteOutJournalChunk, IntervalsType, NumJournalBlocksAssumption
<1>2. Len(range) = BlocksToWrite
  BY <1>1, WriteOutJournalChunk, MarshallType
<1>3. interval \in JournalInterval
  BY <1>1, PosAddType, NumJournalBlocksAssumption DEF JournalInterval
<1>4. \A i \in Pos : InCyclicRange(i, interval) =>
        InCyclicRange(i, [start |-> JournalPosAdd(p, a), len |-> writtenJournalBlocks - a])
  <2>. DEFINE q == JournalPosAdd(p, a)
              whole == writtenJournalBlocks - a
  <2>1. q \in Int /\ whole \in Int /\ len \in Int /\ len <= whole
    <3>1. a \in 0 .. NumJournalBlocks
      BY <1>1, NumJournalBlocksAssumption
    <3>2. JournalPosAdd(p, a) \in Pos
      BY <1>1, <3>1, PosAddType
    <3>3. q \in Int
      BY <3>2, NumJournalBlocksAssumption DEF Pos
    <3>. QED  BY <1>1, <3>3
  <2>. HIDE DEF q, whole
  <2>2. \A i \in Pos : InCyclicRange(i, [start |-> q, len |-> len]) =>
                       InCyclicRange(i, [start |-> q, len |-> whole])
    BY <2>1, NumJournalBlocksAssumption DEF InCyclicRange, Pos
  <2>. QED  BY <2>2 DEF q, whole
<1>5. \A i \in Pos : InCyclicRange(i, interval) =>
        ~InCyclicRange(i, [start |-> JournalPosAdd(p, writtenJournalBlocks),
                           len |-> BlocksToWrite])
  BY <1>1, <1>4, AppendedBeyond
<1>6. diskJournal' = CyclicSplice(diskJournal, JournalPosAdd(p, writtenJournalBlocks), range)
  BY WriteOutJournalChunk DEF WriteStart
<1>7. \A i \in Pos : InCyclicRange(i, interval) => diskJournal'[i] = diskJournal[i]
  BY <1>2, <1>5, <1>6, SpliceOutside
<1>. QED  BY <1>3, <1>7, RangeUnchanged

\* A readable end of the journal stays readable and says what it said before
\* and then what has been written.
LEMMA WriteOutJournalExtends ==
  ASSUME IInv, ContentsInv, WriteOutJournal,
         NEW a \in 0 .. writtenJournalBlocks,
         Readable([start |-> JournalPosAdd(superblock.journalStart, a),
                   len |-> writtenJournalBlocks - a])
  PROVE  /\ ReadableIn(diskJournal', [start |-> JournalPosAdd(superblock.journalStart, a),
                                      len |-> writtenJournalBlocks' - a])
         /\ EntriesIn(diskJournal', JournalPosAdd(superblock.journalStart, a),
                      writtenJournalBlocks' - a)
              = DiskJournalEntries(JournalPosAdd(superblock.journalStart, a),
                                   writtenJournalBlocks - a)
                \o EntriesToWrite
<1>. DEFINE p == JournalPosAdd(superblock.journalStart, a)
            len == writtenJournalBlocks - a
            n == BlocksToWrite
            range == MarshallJournalEntries(EntriesToWrite, n)
<1>1. /\ status = "Ready" /\ superblock.journalStart \in Pos /\ WriteStart \in Pos
      /\ writtenJournalBlocks \in 0 .. NumJournalBlocks
      /\ writtenJournalBlocks \in Nat /\ a \in Nat /\ len \in Nat
      /\ n \in Nat /\ n \in 1 .. NumJournalBlocks /\ n \in 0 .. NumJournalBlocks
      /\ writtenJournalBlocks' = writtenJournalBlocks + n
      /\ writtenJournalBlocks + n <= NumJournalBlocks
      /\ EntriesToWrite \in Seq(Entry)
      /\ diskJournal' \in [Pos -> Block \cup {None}]
      /\ diskJournal' = CyclicSplice(diskJournal, WriteStart, range)
  BY WriteOutJournalChunk, IntervalsType, NumJournalBlocksAssumption
<1>2. p \in Pos /\ JournalPosAdd(p, len) = WriteStart
  <2>1. p \in Pos
    BY <1>1, PosAddType, NumJournalBlocksAssumption
  <2>2. JournalPosAdd(p, len) = JournalPosAdd(superblock.journalStart, a + len)
    BY <1>1, PosAddAdd
  <2>3. a + len = writtenJournalBlocks
    BY <1>1
  <2>. QED  BY <2>1, <2>2, <2>3 DEF WriteStart
<1>3. len + n = writtenJournalBlocks' - a /\ len + n <= NumJournalBlocks
  <2>1. /\ writtenJournalBlocks \in Nat /\ a \in Nat /\ n \in Nat
        /\ writtenJournalBlocks' = writtenJournalBlocks + n
        /\ writtenJournalBlocks + n <= NumJournalBlocks
    BY <1>1
  <2>. QED  BY <2>1, NumJournalBlocksAssumption
<1>4. JournalRangeAt(diskJournal', [start |-> p, len |-> len])
        = JournalRangeAt(diskJournal, [start |-> p, len |-> len])
  <2>1. len \in 0 .. len
    BY <1>1
  <2>. QED  BY <2>1, WriteOutJournalKeepsRanges
<1>5. JournalRangeAt(diskJournal', [start |-> WriteStart, len |-> n]) = range
  <2>1. range \in Seq(Block) /\ Len(range) = n
    BY <1>1, MarshallType
  <2>. QED  BY <1>1, <2>1, RangeOfSplice
<1>6. /\ ReadableIn(diskJournal', [start |-> p, len |-> len])
      /\ EntriesIn(diskJournal', p, len) = DiskJournalEntries(p, len)
  BY <1>4 DEF Readable, ReadableIn, EntriesIn, DiskJournalEntries
<1>7. /\ ReadableIn(diskJournal', [start |-> WriteStart, len |-> n])
      /\ EntriesIn(diskJournal', WriteStart, n) = EntriesToWrite
  <2>1. range \in Seq(Block) /\ Parses(range) /\ ParsedEntries(range) = EntriesToWrite
    BY <1>1, MarshallType, ParsesChunk, ParsedChunk
  <2>. HIDE DEF range
  <2>. QED  BY <1>5, <2>1, BlocksHaveRange DEF ReadableIn, EntriesIn
<1>. HIDE DEF p, len, n, range
<1>8. /\ ReadableIn(diskJournal', [start |-> p, len |-> len + n])
      /\ EntriesIn(diskJournal', p, len + n) =
           EntriesIn(diskJournal', p, len) \o EntriesIn(diskJournal', WriteStart, n)
  <2>1. /\ diskJournal' \in [Pos -> Block \cup {None}]
        /\ p \in Pos /\ len \in Nat /\ n \in Nat /\ len + n <= NumJournalBlocks
    BY <1>1, <1>2, <1>3
  <2>2. ReadableIn(diskJournal', [start |-> JournalPosAdd(p, len), len |-> n])
    BY <1>2, <1>7
  <2>3. EntriesIn(diskJournal', p, len + n) =
          EntriesIn(diskJournal', p, len) \o EntriesIn(diskJournal', JournalPosAdd(p, len), n)
        /\ ReadableIn(diskJournal', [start |-> p, len |-> len + n])
    BY <1>6, <2>1, <2>2, IntervalsConcat
  <2>. QED  BY <1>2, <2>3
<1>. QED  BY <1>3, <1>6, <1>7, <1>8 DEF p, len

\* The two cases of WriteOutJournal: the frozen entries, or those in memory.
LEMMA WriteOutJournalCases ==
  ASSUME IInv, ContentsInv, WriteOutJournal
  PROVE  /\ UNCHANGED <<status, loadVars, currentVars, replayJournal, frozenLoc, isFrozen,
                        newSuperblock, commitStatus, superblockWrite, diskSuperblock>>
         /\ \/ /\ inMemoryJournalFrozen # <<>> /\ isFrozen
               /\ EntriesToWrite = inMemoryJournalFrozen
               /\ BlocksToWrite = frozenJournalBlocks
               /\ frozenJournalPosition = writtenJournalBlocks
               /\ frozenJournalPosition' = writtenJournalBlocks'
               /\ inMemoryJournalFrozen' = <<>> /\ frozenJournalBlocks' = 0
               /\ UNCHANGED <<inMemoryJournal, inMemoryWeight, syncReqs>>
            \/ /\ inMemoryJournalFrozen = <<>>
               /\ EntriesToWrite = inMemoryJournal
               /\ BlocksToWrite = BlocksFor(inMemoryWeight)
               /\ inMemoryJournal' = <<>> /\ inMemoryWeight' = 0
               /\ syncReqs' = SyncReqs3to2(syncReqs)
               /\ UNCHANGED <<inMemoryJournalFrozen, frozenJournalBlocks,
                              frozenJournalPosition>>
  BY DEF WriteOutJournal, RecvWriteJournal, RecvWriteJournal2, EntriesToWrite, BlocksToWrite,
     ContentsInv, EntriesInv
\* What is written of the journal, from a position on.
LEMMA WriteOutJournalKeepsContents ==
  ASSUME IInv, ContentsInv, WriteOutJournal
  PROVE  ContentsInv'
<1>. DEFINE p == superblock.journalStart
            at(a) == JournalPosAdd(p, a)
            w == writtenJournalBlocks
<1>1. /\ status = "Ready" /\ ~superblockWrite
      /\ w \in 0 .. NumJournalBlocks /\ w \in Nat
      /\ frozenJournalPosition \in 0 .. w
      /\ BlocksToWrite \in Nat
      /\ w' = w + BlocksToWrite
      /\ p \in Pos /\ at(0) = p
      /\ superblock.journalLen \in 0 .. w
  <2>1. p \in Pos /\ superblock.journalLen \in 0 .. w
    BY WriteOutJournalChunk, IntervalsType, NumJournalBlocksAssumption DEF IInv, SizeInv
  <2>. QED  BY <2>1, WriteOutJournalChunk, IntervalsType, PosAddZero, NumJournalBlocksAssumption
<1>2. /\ UNCHANGED <<status, loadVars, currentVars, replayJournal, frozenLoc, isFrozen,
                     newSuperblock, commitStatus, superblockWrite, diskSuperblock>>
  BY WriteOutJournalCases
<1>3. EntriesInv'
  BY <1>1, <1>2, WriteOutJournalCases DEF ContentsInv, EntriesInv
<1>4. LoadedInv'
  BY <1>1, <1>2, ReadyLoaded DEF ContentsInv
<1>5. ChunksInv'
  <2>1. /\ Readable([start |-> at(0), len |-> w - 0])
        /\ Readable([start |-> at(0), len |-> frozenJournalPosition])
        /\ Readable([start |-> at(frozenJournalPosition), len |-> w - frozenJournalPosition])
    <3>1. w - 0 = w
      BY <1>1
    <3>. QED  BY <1>1, <3>1, WrittenReadable DEF ContentsInv, ChunksInv, WrittenInterval,
              ObsoleteInterval, RecentInterval
  <2>2. ReadableIn(diskJournal', PersistentInterval')
    <3>1. \A i \in Pos : InCyclicRange(i, PersistentInterval) => diskJournal'[i] = diskJournal[i]
      BY WriteOutJournalSparesPersistent
    <3>2. PersistentInterval' = PersistentInterval
      BY <1>2 DEF PersistentInterval, PersistentSuperblock
    <3>. QED  BY <3>1, <3>2, IntervalsType, ReadableUnchanged DEF ContentsInv, ChunksInv
  <2>3. /\ ReadableIn(diskJournal', ObsoleteInterval')
        /\ ReadableIn(diskJournal', RecentInterval')
    <3>1. CASE /\ frozenJournalPosition = w
               /\ frozenJournalPosition' = writtenJournalBlocks'
      <4>1. 0 \in 0 .. w /\ writtenJournalBlocks' - 0 = writtenJournalBlocks'
            /\ writtenJournalBlocks' - writtenJournalBlocks' = 0
        BY <1>1
      <4>2. ReadableIn(diskJournal', [start |-> at(0), len |-> writtenJournalBlocks' - 0])
        BY <2>1, <4>1, WriteOutJournalExtends
      <4>3. ObsoleteInterval' = [start |-> at(0), len |-> writtenJournalBlocks' - 0]
        BY <1>1, <1>2, <3>1, <4>1 DEF ObsoleteInterval
      <4>4. RecentInterval' = [start |-> RecentInterval'.start, len |-> 0]
        BY <3>1, <4>1 DEF RecentInterval
      <4>5. ReadableIn(diskJournal', RecentInterval')
        BY <4>4, RangeEmpty, ParsesEmpty, EmptyHasRange DEF ReadableIn
      <4>. QED  BY <4>2, <4>3, <4>5
    <3>2. CASE UNCHANGED frozenJournalPosition
      <4>1. RecentInterval' = [start |-> at(frozenJournalPosition),
                               len |-> writtenJournalBlocks' - frozenJournalPosition]
        BY <1>2, <3>2 DEF RecentInterval
      <4>2. ReadableIn(diskJournal', RecentInterval')
        BY <1>1, <2>1, <4>1, WriteOutJournalExtends
      <4>3. ObsoleteInterval' = [start |-> at(0), len |-> frozenJournalPosition]
        BY <1>1, <1>2, <3>2 DEF ObsoleteInterval
      <4>4. JournalRangeAt(diskJournal', [start |-> at(0), len |-> frozenJournalPosition])
              = JournalRangeAt(diskJournal, [start |-> at(0), len |-> frozenJournalPosition])
        <5>1. 0 \in 0 .. w /\ w - 0 = w
          BY <1>1
        <5>. QED  BY <1>1, <5>1, WriteOutJournalKeepsRanges
      <4>. QED  BY <2>1, <4>2, <4>3, <4>4 DEF Readable, ReadableIn
    <3>. QED  BY <3>1, <3>2, WriteOutJournalCases
  <2>. QED  BY <2>2, <2>3 DEF ChunksInv, Readable, ReadableIn
<1>6. JournalFits'
  <2>1. /\ frozenJournalBlocks \in Nat /\ inMemoryWeight \in Nat
        /\ w + frozenJournalBlocks + BlocksFor(inMemoryWeight) <= NumJournalBlocks
        /\ BlocksFor(inMemoryWeight) \in Nat
    BY NumJournalBlocksAssumption, RoomOnDisk DEF IInv, SizeInv, TypeOK, CommitterTypeOK
  <2>2. CASE inMemoryJournalFrozen # <<>>
    <3>1. /\ inMemoryJournalFrozen' = <<>> /\ frozenJournalBlocks' = 0
          /\ UNCHANGED <<inMemoryJournal, inMemoryWeight>>
          /\ BlocksToWrite = frozenJournalBlocks
      BY <2>2, WriteOutJournalCases
    <3>2. writtenJournalBlocks' + frozenJournalBlocks' = w + frozenJournalBlocks
      BY <1>1, <2>1, <3>1
    <3>3. 0 <= BlockCapacity * 0
      BY WeightAssumption
    <3>. QED  BY <3>1, <3>2, <3>3, WeightEmpty DEF ContentsInv, JournalFits
  <2>3. CASE inMemoryJournalFrozen = <<>>
    <3>1. /\ inMemoryJournal' = <<>> /\ inMemoryWeight' = 0
          /\ UNCHANGED <<inMemoryJournalFrozen, frozenJournalBlocks>>
          /\ BlocksToWrite = BlocksFor(inMemoryWeight)
      BY <2>3, WriteOutJournalCases
    <3>. DEFINE total == writtenJournalBlocks' + frozenJournalBlocks'
    <3>2. total \in 0 .. NumJournalBlocks /\ total + 0 = total
      BY <1>1, <2>1, <3>1, NumJournalBlocksAssumption
    <3>3. BlockCapacity * total + 0 <= BlockCapacity * NumJournalBlocks
      BY <3>2, EmptyFits
    <3>. QED  BY <3>1, <3>3, WeightEmpty DEF ContentsInv, JournalFits
  <2>. QED  BY <2>2, <2>3
<1>. QED  BY <1>3, <1>4, <1>5, <1>6 DEF ContentsInv

-----------------------------------------------------------------------------
\* Acknowledgements and superblock writes

\* A journal write took effect when requested; its answer changes no contents.
LEMMA WriteBackJournalRespKeepsContents ==
  ASSUME ContentsInv, NEW id \in ReqId, WriteBackJournalResp(id)
  PROVE  ContentsInv'
  BY SameEntries, SameLoaded, SameChunks, SameFits
     DEF ContentsInv, WriteBackJournalResp, AckWriteJournal

\* A superblock is sent only once nothing is left to write of the journal.
LEMMA SendSuperblockKeepsContents ==
  ASSUME IInv, ContentsInv, NEW sb, NEW commit, status = "Ready", CanWriteSuperblock,
         SendSuperblock(sb, commit)
  PROVE  ContentsInv'
<1>1. /\ inMemoryJournalFrozen = <<>>
      /\ UNCHANGED <<status, loadVars, currentVars, replayJournal, queueVars, frozenVars>>
      /\ UNCHANGED <<diskSuperblock, diskJournal>>
  BY DEF CanWriteSuperblock, JournalToWrite, SendSuperblock, RecvWriteSuperblock
<1>2. EntriesInv'
  BY <1>1 DEF ContentsInv, EntriesInv
<1>. QED  BY <1>1, <1>2, SameLoaded, SameChunks, SameFits DEF ContentsInv

\* A superblock is sent when no frozen entry is left to write.
LEMMA WriteOutSuperblockKeepsContents ==
  ASSUME IInv, ContentsInv,
         WriteOutSuperblockAdvanceLog \/ WriteOutSuperblockAdvanceLocation
  PROVE  ContentsInv'
  BY SendSuperblockKeepsContents DEF WriteOutSuperblockAdvanceLog,
     WriteOutSuperblockAdvanceLocation, AdvancingLog, AdvancingLocation, DoSync, IsInitialized

\* The acknowledgement of a location commit drops the obsolete blocks.
LEMMA WriteBackSuperblockRespKeepsContents ==
  ASSUME IInv, ContentsInv, WriteBackSuperblockResp
  PROVE  ContentsInv'
<1>1. /\ status = "Ready" /\ superblockWrite /\ ~superblockWrite'
      /\ inMemoryJournalFrozen = <<>>
      /\ superblock' = newSuperblock /\ NewSuperblockInv
      /\ UNCHANGED <<status, loadVars, replayJournal, inMemoryJournal, inMemoryJournalFrozen,
                     inMemoryWeight, frozenJournalBlocks, diskSuperblock, diskJournal>>
  BY DEF WriteBackSuperblockResp, AckWriteSuperblock, IInv, CommitInv, ContentsInv, EntriesInv
<1>2. LoadedInv'
  BY <1>1, ReadyLoaded DEF ContentsInv
<1>3. Readable(PersistentInterval)' /\ Readable(ObsoleteInterval) /\ Readable(RecentInterval)
  BY <1>1 DEF ContentsInv, ChunksInv, Readable, PersistentInterval, PersistentSuperblock
<1>4. CASE commitStatus = "CommitAdvanceLocation"
  <2>1. /\ writtenJournalBlocks' = writtenJournalBlocks - frozenJournalPosition
        /\ frozenJournalPosition' = 0 /\ frozenLoc' = None /\ ~isFrozen'
        /\ superblock'.journalStart = RecentInterval.start
    BY <1>1, <1>4 DEF WriteBackSuperblockResp, NewSuperblockInv, RecentInterval
  <2>2. EntriesInv'
    BY <1>1, <2>1 DEF ContentsInv, EntriesInv
  <2>3. ChunksInv'
    <3>1. /\ writtenJournalBlocks - frozenJournalPosition - 0
               = writtenJournalBlocks - frozenJournalPosition
          /\ RecentInterval.start \in Pos
      BY <1>1, IntervalsType DEF JournalInterval
    <3>2. RecentInterval' = RecentInterval
      BY <2>1, <3>1, PosAddZero DEF RecentInterval
    <3>3. ObsoleteInterval' = [start |-> superblock'.journalStart, len |-> 0]
      BY <2>1 DEF ObsoleteInterval
    <3>4. Readable([start |-> superblock'.journalStart, len |-> 0])
      BY EmptyReadable
    <3>. QED  BY <1>1, <1>3, <3>2, <3>3, <3>4 DEF ChunksInv, Readable
  <2>4. JournalFits'
    <3>. DEFINE used == writtenJournalBlocks + frozenJournalBlocks
                less == (writtenJournalBlocks - frozenJournalPosition) + frozenJournalBlocks
    <3>1. /\ used \in Nat /\ less \in Nat /\ less <= used /\ inMemoryWeight \in Nat
      BY NumJournalBlocksAssumption DEF IInv, SizeInv, TypeOK, CommitterTypeOK
    <3>2. BlockCapacity * used + inMemoryWeight <= BlockCapacity * NumJournalBlocks
      BY DEF ContentsInv, JournalFits
    <3>. HIDE DEF used, less
    <3>3. BlockCapacity * less + inMemoryWeight <= BlockCapacity * NumJournalBlocks
      <4>. DEFINE gap == used - less
      <4>1. gap \in Nat /\ used = less + gap
        BY <3>1
      <4>. HIDE DEF gap
      <4>2. BlockCapacity * used = BlockCapacity * less + BlockCapacity * gap
        BY <3>1, <4>1, WeightAssumption
      <4>3. /\ BlockCapacity * less \in Nat /\ BlockCapacity * gap \in Nat
            /\ BlockCapacity * NumJournalBlocks \in Nat
        BY <3>1, <4>1, WeightAssumption, NumJournalBlocksAssumption
      <4>. QED  BY <3>1, <3>2, <4>2, <4>3
    <3>. QED  BY <1>1, <2>1, <3>3 DEF ContentsInv, JournalFits, less
  <2>. QED  BY <1>2, <2>2, <2>3, <2>4 DEF ContentsInv
<1>5. CASE commitStatus = "CommitAdvanceLog"
  <2>1. /\ UNCHANGED <<writtenJournalBlocks, frozenVars>>
        /\ superblock'.journalStart = superblock.journalStart
    BY <1>1, <1>5 DEF WriteBackSuperblockResp, NewSuperblockInv
  <2>2. EntriesInv'
    BY <1>1, <2>1 DEF ContentsInv, EntriesInv
  <2>3. ChunksInv'
    BY <1>1, <1>3, <2>1 DEF ChunksInv, Readable, RecentInterval, ObsoleteInterval
  <2>. QED  BY <1>1, <1>2, <2>1, <2>2, <2>3, SameFits DEF ContentsInv
<1>. QED  BY <1>1, <1>4, <1>5 DEF NewSuperblockInv

-----------------------------------------------------------------------------
\* Sync requests, the disk's own steps, and crashes

\* Sync requests concern no entry.
LEMMA SyncKeepsContents ==
  ASSUME ContentsInv, PushSync \/ \E id \in SyncId : PopSync(id)
  PROVE  ContentsInv'
  BY SameEntries, SameLoaded, SameChunks, SameFits DEF ContentsInv, PushSync, PopSync

\* What the commits make the journal.
LEMMA CommittedInterval ==
  ASSUME IInv, NewSuperblockInv
  PROVE  Region(newSuperblock) = IF commitStatus = "CommitAdvanceLog"
                                   THEN WrittenInterval ELSE RecentInterval
  BY DEF NewSuperblockInv, Region, WrittenInterval, RecentInterval

\* What recovery chooses after a step of the disk is what is being written.
LEMMA DiskInternalCommits ==
  ASSUME IInv, DiskInternal
  PROVE  /\ superblockWrite /\ status = "Ready" /\ NewSuperblockInv
         /\ PersistentSuperblock' = newSuperblock
         /\ HasUpdateOccurredUnacked'
         /\ UNCHANGED <<committerVars, diskJournal>>
<1>1. IInv'
  BY DiskInternalKeepsIInv
<1>2. HasUpdateOccurredUnacked' /\ newSuperblock' = newSuperblock /\ superblockWrite
  BY ProcessWriteOnDisk DEF IInv, TypeOK, DiskTypeOK, DiskInternal, committerVars,
     HasUpdateOccurredUnacked
<1>3. (IInv /\ HasUpdateOccurredUnacked => PersistentSuperblock = newSuperblock)'
  BY UpdatePersistent, PTL
<1>4. UNCHANGED <<committerVars, diskJournal>>
  BY DEF DiskInternal, ProcessWriteSuperblock
<1>. QED  BY <1>1, <1>2, <1>3, <1>4, ProcessWriteOnDisk DEF IInv, CommitInv

\* When a superblock takes effect, the journal it names is one of whole chunks.
LEMMA DiskInternalKeepsContents ==
  ASSUME IInv, ContentsInv, DiskInternal
  PROVE  ContentsInv'
<1>1. /\ status = "Ready" /\ NewSuperblockInv /\ PersistentSuperblock' = newSuperblock
      /\ UNCHANGED <<committerVars, diskJournal>>
  BY DiskInternalCommits
<1>2. EntriesInv' /\ LoadedInv' /\ JournalFits'
  BY <1>1, SameEntries, SameLoaded, SameFits DEF ContentsInv, committerVars
<1>3. ChunksInv'
  <2>1. Readable(WrittenInterval) /\ Readable(RecentInterval) /\ Readable(ObsoleteInterval)
    BY <1>1, WrittenReadable DEF ContentsInv, ChunksInv
  <2>2. Readable(Region(newSuperblock))
    BY <1>1, <2>1, CommittedInterval
  <2>3. /\ PersistentInterval' = Region(newSuperblock)
        /\ UNCHANGED <<ObsoleteInterval, RecentInterval>>
    BY <1>1 DEF PersistentInterval, committerVars, ObsoleteInterval, RecentInterval
  <2>. QED  BY <1>1, <2>1, <2>2, <2>3 DEF ChunksInv, Readable
<1>. QED  BY <1>2, <1>3 DEF ContentsInv

\* A crash keeps the committed journal.
LEMMA CrashKeepsPersistent ==
  ASSUME IInv, Crash
  PROVE  /\ UNCHANGED <<diskSuperblock, PersistentSuperblock, PersistentInterval>>
         /\ JournalRangeAt(diskJournal', PersistentInterval)
              = JournalRangeAt(diskJournal, PersistentInterval)
<1>1. UNCHANGED <<diskSuperblock, PersistentSuperblock, PersistentInterval>>
  BY DEF Crash, DiskCrash, PersistentSuperblock, PersistentInterval
<1>2. \A i \in Pos : InCyclicRange(i, PersistentInterval) => diskJournal'[i] = diskJournal[i]
  <2>1. \A i \in Pos : InCyclicRange(i, PersistentInterval) => i \notin InFlight
    BY DEF IInv, InFlightOutsidePersistent
  <2>. QED  BY <2>1 DEF Crash, DiskCrash
<1>3. PersistentInterval \in JournalInterval
  BY IntervalsType
<1>. QED  BY <1>1, <1>2, <1>3, RangeUnchanged

\* A crash tears only blocks outside the persistent journal.
LEMMA CrashKeepsContents ==
  ASSUME IInv, ContentsInv, Crash
  PROVE  ContentsInv'
<1>1. EntriesInv'
  <2>1. <<>> \in Seq(Entry)
    OBVIOUS
  <2>. QED  BY <2>1 DEF Crash, Restart, EntriesInv
<1>2. LoadedInv'
  BY DEF Crash, Restart, LoadedInv, Half
<1>3. ChunksInv'
  BY CrashKeepsPersistent DEF Crash, Restart, ContentsInv, ChunksInv, Readable
<1>4. JournalFits'
  <2>1. 0 \in 0 .. NumJournalBlocks
    BY NumJournalBlocksAssumption
  <2>2. BlockCapacity * (0 + 0) + 0 <= BlockCapacity * NumJournalBlocks
    BY <2>1, EmptyFits
  <2>3. 0 <= BlockCapacity * 0
    BY WeightAssumption
  <2>. QED  BY <2>2, <2>3, WeightEmpty DEF JournalFits, Crash, Restart
<1>. QED  BY <1>1, <1>2, <1>3, <1>4 DEF ContentsInv

-----------------------------------------------------------------------------
\* ContentsInv is an invariant

\* Every step keeps ContentsInv.
LEMMA NextKeepsContents == IInv /\ ContentsInv /\ [Next]_vars => ContentsInv'
<1>. SUFFICES ASSUME IInv, ContentsInv, [Next]_vars PROVE ContentsInv'
  OBVIOUS
<1>1. CASE Initialization
  BY <1>1, PageInSuperblockReqKeepsContents, FinishLoadingSuperblockPhaseKeepsContents,
     PageInJournalReqKeepsContents, FinishLoadingOtherPhaseKeepsContents,
     JournalReplayOneKeepsContents DEF Initialization
<1>2. CASE \E e \in Entry : JournalAppend(e)
  BY <1>2, JournalAppendKeepsContents
<1>3. CASE Commit
  BY <1>3, FreezeKeepsContents, WriteOutJournalKeepsContents, WriteOutSuperblockKeepsContents
     DEF Commit
<1>4. CASE Response
  BY <1>4, ReadSuperblockRespKeepsContents, PageInJournalRespKeepsContents,
     WriteBackJournalRespKeepsContents, WriteBackSuperblockRespKeepsContents,
     ReceiveFrozenLocKeepsContents DEF Response
<1>5. CASE PushSync \/ \E id \in SyncId : PopSync(id)
  BY <1>5, SyncKeepsContents
<1>6. CASE DiskInternal
  BY <1>6, DiskInternalKeepsContents
<1>7. CASE Crash
  BY <1>7, CrashKeepsContents
<1>8. CASE UNCHANGED vars
  BY <1>8, SameEntries, SameLoaded, SameChunks, SameFits DEF ContentsInv, vars, committerVars
<1>. QED  BY <1>1, <1>2, <1>3, <1>4, <1>5, <1>6, <1>7, <1>8 DEF Next

\* The contents of the journal, in memory and on disk, are as ContentsInv says.
THEOREM ContentsInvariance == Spec => []ContentsInv
<1>1. Init => ContentsInv
  BY InitContents
<1>. QED  BY <1>1, Invariance, NextKeepsContents, PTL DEF Spec

\* The committed journal is always whole chunks with good checksums, so that
\* parseJournals (JournalistParsing) succeeds after any crash.
THEOREM JournalAlwaysReadable == Spec => []PersistentJournalReadable
<1>1. ContentsInv => PersistentJournalReadable
  BY DEF ContentsInv, ChunksInv, PersistentJournalReadable
<1>. QED  BY <1>1, ContentsInvariance, PTL

\* The journal fits in its region however it is cut into blocks, so that the
\* package methods never run past the reserved ones (Journalist.Inv).
THEOREM JournalAlwaysFits == Spec => []JournalFits
<1>1. ContentsInv => JournalFits
  BY DEF ContentsInv
<1>. QED  BY <1>1, ContentsInvariance, PTL
-----------------------------------------------------------------------------
(***************************************************************************)
(* JournalSystem implements JournalView.  What the refinement mapping      *)
(* shows is first put in terms of two readings of the disk; then each      *)
(* action is shown to be one of JournalView's, or to change nothing shown. *)
(***************************************************************************)

\* Everything written, and what of it the frozen table does not contain.
WrittenEntries == DiskJournalEntries(superblock.journalStart, writtenJournalBlocks)

RecentEntries ==
  DiskJournalEntries(JournalPosAdd(superblock.journalStart, frozenJournalPosition),
                     writtenJournalBlocks - frozenJournalPosition)

\* A location commit has taken effect that the committer has not heard of.
LocationInEffect == HasUpdateOccurredUnacked /\ commitStatus = "CommitAdvanceLocation"

\* Before the committer is ready all the journals are the committed one.
LEMMA LoadingShows ==
  ASSUME IInv, status # "Ready"
  PROVE  /\ FrozenJournal = PersistentJournal /\ EphemeralJournal = PersistentJournal
         /\ GammaJournal = PersistentJournal /\ DeltaJournal = <<>>
         /\ FrozenLoc = None /\ SyncReqs = syncReqs
  BY DEF Ready, FrozenJournal, EphemeralJournal, GammaJournal, DeltaJournal, FrozenLoc,
     SyncReqs, HasUpdateOccurredUnacked, IInv, LoadingInv

\* What a ready committer shows.
LEMMA ReadyShows ==
  ASSUME IInv, ContentsInv, status = "Ready"
  PROVE  /\ WrittenEntries \in Seq(Entry) /\ RecentEntries \in Seq(Entry)
         /\ FrozenJournal = RecentEntries
         /\ GammaJournal = (IF LocationInEffect THEN RecentEntries ELSE WrittenEntries)
                             \o inMemoryJournalFrozen
         /\ EphemeralJournal = replayJournal
         /\ DeltaJournal = inMemoryJournal
         /\ FrozenLoc = frozenLoc
<1>1. WrittenEntries \in Seq(Entry) /\ RecentEntries \in Seq(Entry)
  <2>1. /\ Readable(WrittenInterval) /\ Readable(RecentInterval)
        /\ DiskTypeOK
    BY WrittenReadable DEF ContentsInv, ChunksInv, IInv, TypeOK
  <2>2. WrittenInterval \in JournalInterval /\ RecentInterval \in JournalInterval
    BY IntervalsType DEF WrittenInterval, JournalInterval
  <2>3. /\ JournalRangeAt(diskJournal, WrittenInterval) \in Seq(Block)
        /\ JournalRangeAt(diskJournal, RecentInterval) \in Seq(Block)
    BY <2>1, <2>2, ReadableBlocks
  <2>. QED  BY <2>3, ParsedType DEF WrittenEntries, RecentEntries, DiskJournalEntries,
            WrittenInterval, RecentInterval
<1>2. FrozenJournal = RecentEntries
  <2>1. CASE isFrozen
    BY <2>1 DEF FrozenJournal, RecentEntries, Ready
  <2>2. CASE ~isFrozen
    <3>1. /\ frozenJournalPosition = 0
          /\ JournalPosAdd(superblock.journalStart, 0) = superblock.journalStart
          /\ writtenJournalBlocks - 0 = writtenJournalBlocks
      BY <2>2, IntervalsType, PosAddZero DEF ContentsInv, EntriesInv
    <3>. QED  BY <2>2, <3>1 DEF FrozenJournal, RecentEntries, Ready
  <2>. QED  BY <2>1, <2>2
<1>3. GammaJournal = (IF LocationInEffect THEN RecentEntries ELSE WrittenEntries)
                       \o inMemoryJournalFrozen
  <2>1. PersistentSuperblock = IF HasUpdateOccurredUnacked THEN newSuperblock ELSE superblock
    BY KnowsCommit DEF CommitterKnowsCommit
  <2>2. CASE LocationInEffect
    <3>1. PersistentSuperblock.journalStart =
            JournalPosAdd(superblock.journalStart, frozenJournalPosition)
      BY <2>1, <2>2 DEF LocationInEffect, HasUpdateOccurredUnacked, IInv, CommitInv,
         NewSuperblockInv
    <3>. QED  BY <2>2, <3>1 DEF GammaJournal, RecentEntries, LocationInEffect, Ready
  <2>3. CASE ~LocationInEffect
    <3>1. PersistentSuperblock.journalStart = superblock.journalStart
      BY <2>1, <2>3 DEF LocationInEffect, HasUpdateOccurredUnacked, IInv, CommitInv,
         NewSuperblockInv
    <3>2. writtenJournalBlocks - 0 = writtenJournalBlocks
      BY IntervalsType
    <3>. QED  BY <2>3, <3>1, <3>2 DEF GammaJournal, WrittenEntries, LocationInEffect, Ready
  <2>. QED  BY <2>2, <2>3
<1>. QED  BY <1>1, <1>2, <1>3 DEF EphemeralJournal, DeltaJournal, FrozenLoc, Ready

\* The readings of the disk depend on these variables only.
LEMMA SameReadings ==
  ASSUME UNCHANGED <<superblock, writtenJournalBlocks, frozenJournalPosition, diskJournal>>
  PROVE  UNCHANGED <<WrittenEntries, RecentEntries>>
  BY DEF WrittenEntries, RecentEntries, DiskJournalEntries

\* The persistent journal is on disk: only the disk changes it.
LEMMA SamePersistent ==
  ASSUME UNCHANGED <<diskSuperblock, diskJournal>>
  PROVE  UNCHANGED <<PersistentSuperblock, PersistentJournal>>
  BY DEF PersistentSuperblock, PersistentJournal, DiskJournalEntries

\* What a step that leaves these alone shows does not change.
LEMMA SameShown ==
  ASSUME UNCHANGED <<status, superblock, whichSuperblock, writtenJournalBlocks, isFrozen,
                     frozenJournalPosition, newSuperblock, commitStatus, superblockWrite,
                     diskSuperblock, diskJournal>>
  PROVE  /\ UNCHANGED <<PersistentJournal, FrozenJournal, PersistentSuperblock>>
         /\ UNCHANGED HasUpdateOccurredUnacked
         /\ inMemoryJournalFrozen' = inMemoryJournalFrozen => UNCHANGED GammaJournal
         /\ replayJournal' = replayJournal => UNCHANGED EphemeralJournal
         /\ inMemoryJournal' = inMemoryJournal => UNCHANGED DeltaJournal
         /\ frozenLoc' = frozenLoc => UNCHANGED FrozenLoc
         /\ syncReqs' = syncReqs => UNCHANGED SyncReqs
<1>1. UNCHANGED <<PersistentSuperblock, PersistentJournal>>
  BY SamePersistent
<1>2. UNCHANGED HasUpdateOccurredUnacked
  BY DEF HasUpdateOccurredUnacked
<1>3. UNCHANGED FrozenJournal
  BY <1>1 DEF FrozenJournal, Ready, DiskJournalEntries
<1>4. inMemoryJournalFrozen' = inMemoryJournalFrozen => UNCHANGED GammaJournal
  BY <1>1, <1>2 DEF GammaJournal, Ready, DiskJournalEntries
<1>. QED  BY <1>1, <1>2, <1>3, <1>4 DEF EphemeralJournal, DeltaJournal, FrozenLoc, SyncReqs,
          Ready

-----------------------------------------------------------------------------
\* The two status maps of the modules are the same

\* The abstract specification upgrades and counts requests as the committer does.
LEMMA SameSyncReqs ==
  ASSUME NEW reqs, NEW id
  PROVE  /\ JV!SyncReqs2to1(reqs) = SyncReqs2to1(reqs)
         /\ JV!SyncReqs3to2(reqs) = SyncReqs3to2(reqs)
         /\ JV!PushReq(reqs, id) = PushReq(reqs, id)
         /\ JV!PopReq(reqs, id) = PopReq(reqs, id)
  BY DEF JV!SyncReqs2to1, SyncReqs2to1, JV!SyncReqs3to2, SyncReqs3to2, JV!PushReq, PushReq,
     JV!PopReq, PopReq, JV!Put, Put, JV!Without, Without, JV!Restrict, Restrict

\* Only requests that were pushed are in the map, and all in one of the states.
LEMMA PushedLater ==
  ASSUME NEW reqs, NEW id
  PROVE  SyncReqs2to1(PushReq(reqs, id)) = PushReq(SyncReqs2to1(reqs), id)
  BY DEF SyncReqs2to1, PushReq, Put

\* Removing a request commutes with the upgrade a commit makes of the others.
LEMMA PoppedLater ==
  ASSUME NEW reqs, NEW id
  PROVE  /\ SyncReqs2to1(PopReq(reqs, id)) = PopReq(SyncReqs2to1(reqs), id)
         /\ DOMAIN SyncReqs2to1(reqs) = DOMAIN reqs
         /\ id \in DOMAIN reqs /\ reqs[id] = "State1" => SyncReqs2to1(reqs)[id] = "State1"
  BY DEF SyncReqs2to1, PopReq, Without, Restrict

-----------------------------------------------------------------------------
\* The start, and the steps of loading

\* A new disk shows the initial state of JournalView.
LEMMA InitRefines == Init => JV!Init
<1>. SUFFICES ASSUME Init PROVE JV!Init
  OBVIOUS
<1>1. PICK loc \in Loc :
        diskSuperblock = [which \in Slot |-> [counter |-> 0, journalStart |-> 0,
                              journalLen |-> 0, indirectionTableLoc |-> loc]]
  BY DEF Init, DiskInit
<1>2. /\ PersistentSuperblock.journalStart = 0 /\ PersistentSuperblock.journalLen = 0
      /\ PersistentSuperblock.indirectionTableLoc = loc
  BY <1>1, SelectType DEF PersistentSuperblock, SelectSuperblock
<1>3. PersistentJournal = <<>>
  BY <1>2, RangeEmpty, ParsedEmpty DEF PersistentJournal, DiskJournalEntries
<1>4. IInv /\ status # "Ready" /\ syncReqs = <<>>
  BY InitIInv DEF Init, Constructor
<1>. QED  BY <1>2, <1>3, <1>4, LoadingShows DEF JV!Init

\* A step that stays in the loading phases shows nothing.
LEMMA LoadingStutters ==
  ASSUME IInv, IInv', status # "Ready", status' # "Ready",
         UNCHANGED <<diskSuperblock, diskJournal, syncReqs>>
  PROVE  UNCHANGED JV!vars
<1>1. (IInv /\ status # "Ready" =>
         /\ FrozenJournal = PersistentJournal /\ EphemeralJournal = PersistentJournal
         /\ GammaJournal = PersistentJournal /\ DeltaJournal = <<>>
         /\ FrozenLoc = None /\ SyncReqs = syncReqs)'
  BY LoadingShows, PTL
<1>. QED  BY <1>1, LoadingShows, SamePersistent DEF JV!vars

\* The journal the committer begins with is the one that was committed.
LEMMA FinishLoadingOtherStutters ==
  ASSUME IInv, ContentsInv, IInv', ContentsInv', FinishLoadingOtherPhase
  PROVE  UNCHANGED JV!vars
<1>1. /\ status = "LoadingOther" /\ status' = "Ready"
      /\ writtenJournalBlocks' = superblock.journalLen
      /\ replayJournal' = ParsedEntries(LoadedRange)
      /\ frozenJournalPosition' = 0 /\ frozenLoc' = None /\ ~superblockWrite
      /\ ~superblockWrite' /\ inMemoryJournal' = <<>> /\ inMemoryJournalFrozen' = <<>>
      /\ UNCHANGED <<superblock, diskJournal, diskSuperblock, syncReqs>>
  BY DEF FinishLoadingOtherPhase, IInv, LoadingInv, ContentsInv, EntriesInv
<1>2. /\ superblock = PersistentSuperblock /\ superblock \in Superblock
      /\ superblock.journalStart \in Pos
  BY <1>1, IdlePersistent, LoadedSuperblock DEF Superblock
<1>3. UNCHANGED <<PersistentSuperblock, PersistentJournal>>
  BY <1>1, SamePersistent
<1>4. WrittenEntries' = PersistentJournal
  BY <1>1, <1>2 DEF WrittenEntries, PersistentJournal, DiskJournalEntries
<1>5. RecentEntries' = PersistentJournal
  <2>1. /\ JournalPosAdd(superblock.journalStart, 0) = superblock.journalStart
        /\ superblock.journalLen - 0 = superblock.journalLen
    BY <1>2, PosAddZero, NumJournalBlocksAssumption DEF Superblock
  <2>. QED  BY <1>1, <1>2, <2>1 DEF RecentEntries, PersistentJournal, DiskJournalEntries
<1>6. replayJournal' = PersistentJournal
  <2>1. LoadedRange = JournalRangeAt(diskJournal, PersistentInterval)
    BY LoadedIsPersistent DEF FinishLoadingOtherPhase
  <2>. QED  BY <1>1, <2>1 DEF PersistentJournal, DiskJournalEntries, PersistentInterval, Region
<1>7. /\ FrozenJournal' = RecentEntries' /\ EphemeralJournal' = replayJournal'
      /\ GammaJournal' = WrittenEntries' \o <<>> /\ WrittenEntries' \in Seq(Entry)
      /\ DeltaJournal' = <<>> /\ FrozenLoc' = None
  <2>1. (IInv /\ ContentsInv /\ status = "Ready" =>
           /\ WrittenEntries \in Seq(Entry)
           /\ FrozenJournal = RecentEntries
           /\ GammaJournal = (IF LocationInEffect THEN RecentEntries ELSE WrittenEntries)
                               \o inMemoryJournalFrozen
           /\ EphemeralJournal = replayJournal
           /\ DeltaJournal = inMemoryJournal
           /\ FrozenLoc = frozenLoc)'
    BY ReadyShows, PTL
  <2>2. ~LocationInEffect'
    BY <1>1 DEF LocationInEffect, HasUpdateOccurredUnacked
  <2>. QED  BY <1>1, <2>1, <2>2
<1>8. GammaJournal' = PersistentJournal
  BY <1>4, <1>7, ConcatEmptySeq
<1>9. SyncReqs' = SyncReqs
  BY <1>1 DEF SyncReqs, HasUpdateOccurredUnacked
<1>. QED  BY <1>1, <1>3, <1>5, <1>6, <1>7, <1>8, <1>9, LoadingShows DEF JV!vars
-----------------------------------------------------------------------------
\* Replaying, appending and freezing

\* Replaying an entry is a Replay of the abstract journal.
LEMMA JournalReplayOneRefines ==
  ASSUME JournalReplayOne
  PROVE  JV!Replay
<1>1. /\ status = "Ready" /\ replayJournal # <<>> /\ replayJournal' = Tail(replayJournal)
      /\ UNCHANGED <<status, loadVars, currentVars, queueVars, frozenVars, writeVars,
                     syncReqs, diskVars>>
  BY DEF JournalReplayOne
<1>2. /\ EphemeralJournal # <<>> /\ EphemeralJournal' = Tail(EphemeralJournal)
  BY <1>1 DEF EphemeralJournal, Ready
<1>. QED  BY <1>1, <1>2, SameShown DEF JV!Replay

\* An append is a Move3.
LEMMA JournalAppendRefines ==
  ASSUME NEW e \in Entry, JournalAppend(e)
  PROVE  JV!Move3(e)
<1>1. /\ status = "Ready" /\ replayJournal = <<>>
      /\ inMemoryJournal' = Append(inMemoryJournal, e)
      /\ UNCHANGED <<status, loadVars, currentVars, replayJournal, inMemoryJournalFrozen,
                     writtenJournalBlocks, frozenVars, writeVars, syncReqs, diskVars>>
  BY DEF JournalAppend, IsInitialized
<1>2. EphemeralJournal = <<>> /\ DeltaJournal' = Append(DeltaJournal, e)
  BY <1>1 DEF EphemeralJournal, DeltaJournal, Ready
<1>. QED  BY <1>1, <1>2, SameShown DEF JV!Move3

\* What a ready committer shows, before a step and after it.
LEMMA ReadyShowsAfter ==
  ASSUME IInv', ContentsInv', status' = "Ready"
  PROVE  /\ WrittenEntries' \in Seq(Entry) /\ RecentEntries' \in Seq(Entry)
         /\ FrozenJournal' = RecentEntries'
         /\ GammaJournal' = (IF LocationInEffect' THEN RecentEntries' ELSE WrittenEntries')
                              \o inMemoryJournalFrozen'
         /\ EphemeralJournal' = replayJournal'
         /\ DeltaJournal' = inMemoryJournal'
         /\ FrozenLoc' = frozenLoc'
<1>1. (IInv /\ ContentsInv /\ status = "Ready" =>
         /\ WrittenEntries \in Seq(Entry) /\ RecentEntries \in Seq(Entry)
         /\ FrozenJournal = RecentEntries
         /\ GammaJournal = (IF LocationInEffect THEN RecentEntries ELSE WrittenEntries)
                             \o inMemoryJournalFrozen
         /\ EphemeralJournal = replayJournal
         /\ DeltaJournal = inMemoryJournal
         /\ FrozenLoc = frozenLoc)'
  BY ReadyShows, PTL
<1>. QED  BY <1>1

\* The table in use is never stored at the missing location.
LEMMA PersistentLocType ==
  ASSUME IInv
  PROVE  PersistentSuperblock.indirectionTableLoc \in Loc
  BY IntervalsType DEF Superblock

\* No entry is written after the last one.
LEMMA NothingRecent ==
  ASSUME NEW journal, NEW p, NEW n \in Nat
  PROVE  ParsedEntries(JournalRangeAt(journal, [start |-> p, len |-> n - n])) = <<>>
<1>1. n - n = 0
  OBVIOUS
<1>. QED  BY <1>1, RangeEmpty, ParsedEmpty

\* The frozen table holds all there is: what comes after it is empty, and
\* the entries in memory join those it contains.
LEMMA FreezeRefines ==
  ASSUME IInv, ContentsInv, IInv', ContentsInv', Freeze
  PROVE  JV!Move2to3
<1>1. /\ status = "Ready" /\ replayJournal = <<>> /\ ~isFrozen /\ ~superblockWrite
      /\ inMemoryJournalFrozen' = inMemoryJournalFrozen \o inMemoryJournal
      /\ inMemoryJournal' = <<>>
      /\ frozenLoc' = None /\ frozenJournalPosition' = writtenJournalBlocks
      /\ syncReqs' = SyncReqs3to2(syncReqs)
      /\ UNCHANGED <<status, loadVars, currentVars, replayJournal, writtenJournalBlocks,
                     writeVars, diskVars>>
  BY DEF Freeze, DoSync, IsInitialized
<1>2. ~LocationInEffect /\ ~LocationInEffect' /\ SyncReqs = syncReqs /\ SyncReqs' = syncReqs'
  BY <1>1 DEF LocationInEffect, SyncReqs, HasUpdateOccurredUnacked
<1>3. WrittenEntries' = WrittenEntries
  BY <1>1 DEF WrittenEntries, DiskJournalEntries
<1>4. RecentEntries' = <<>>
  <2>1. writtenJournalBlocks \in Nat
    BY IntervalsType
  <2>. QED  BY <1>1, <2>1, NothingRecent DEF RecentEntries, DiskJournalEntries
<1>5. GammaJournal' = GammaJournal \o DeltaJournal
  <2>1. /\ inMemoryJournal \in Seq(Entry) /\ inMemoryJournalFrozen \in Seq(Entry)
        /\ WrittenEntries \in Seq(Entry)
    BY ReadyShows, <1>1 DEF IInv, TypeOK, CommitterTypeOK
  <2>2. /\ GammaJournal = WrittenEntries \o inMemoryJournalFrozen
        /\ DeltaJournal = inMemoryJournal
        /\ GammaJournal' = WrittenEntries \o (inMemoryJournalFrozen \o inMemoryJournal)
    BY <1>1, <1>2, <1>3, ReadyShows, ReadyShowsAfter
  <2>. QED  BY <2>1, <2>2, ConcatAssoc
<1>6. /\ FrozenJournal' = <<>> /\ EphemeralJournal = <<>> /\ EphemeralJournal' = <<>>
      /\ DeltaJournal' = <<>> /\ FrozenLoc' = None
  BY <1>1, <1>4, ReadyShows, ReadyShowsAfter
<1>7. FrozenLoc # PersistentSuperblock.indirectionTableLoc
  <2>1. FrozenLoc = None
    BY <1>1, ReadyShows DEF ContentsInv, EntriesInv
  <2>. QED  BY <2>1, PersistentLocType, DiskNoneAssumption
<1>8. UNCHANGED <<PersistentSuperblock, PersistentJournal>>
  BY <1>1, SamePersistent
<1>9. SyncReqs' = JV!SyncReqs3to2(SyncReqs)
  BY <1>1, <1>2, SameSyncReqs
<1>. QED  BY <1>5, <1>6, <1>7, <1>8, <1>9 DEF JV!Move2to3

\* Storing the frozen table is an ObtainFrozenLoc.
LEMMA ReceiveFrozenLocRefines ==
  ASSUME NEW loc \in Loc, ReceiveFrozenLoc(loc)
  PROVE  JV!ObtainFrozenLoc(loc)
<1>1. /\ status = "Ready" /\ frozenLoc' = loc
      /\ UNCHANGED <<status, loadVars, currentVars, replayJournal, queueVars, isFrozen,
                     frozenJournalPosition, writeVars, syncReqs, diskVars>>
  BY DEF ReceiveFrozenLoc
<1>2. FrozenLoc' = loc
  BY <1>1 DEF FrozenLoc, Ready
<1>. QED  BY <1>1, <1>2, SameShown DEF JV!ObtainFrozenLoc

-----------------------------------------------------------------------------
\* Writing the journal

\* After a write, what is written is what was and then what has been written.
LEMMA WriteOutJournalReadings ==
  ASSUME IInv, ContentsInv, WriteOutJournal
  PROVE  /\ WrittenEntries' = WrittenEntries \o EntriesToWrite
         /\ UNCHANGED frozenJournalPosition => RecentEntries' = RecentEntries \o EntriesToWrite
<1>. DEFINE p == superblock.journalStart
<1>1. /\ status = "Ready" /\ p \in Pos /\ JournalPosAdd(p, 0) = p
      /\ writtenJournalBlocks \in Nat /\ writtenJournalBlocks' \in Nat
      /\ writtenJournalBlocks - 0 = writtenJournalBlocks
      /\ writtenJournalBlocks' - 0 = writtenJournalBlocks'
      /\ 0 \in 0 .. writtenJournalBlocks
      /\ frozenJournalPosition \in 0 .. writtenJournalBlocks
      /\ superblock' = superblock
  <2>1. /\ status = "Ready" /\ p \in Pos /\ writtenJournalBlocks \in Nat
        /\ writtenJournalBlocks' = writtenJournalBlocks + BlocksToWrite
        /\ BlocksToWrite \in Nat
        /\ frozenJournalPosition \in 0 .. writtenJournalBlocks
    BY WriteOutJournalChunk, IntervalsType, NumJournalBlocksAssumption
  <2>. QED  BY <2>1, WriteOutJournalCases, PosAddZero
<1>2. WrittenEntries' = WrittenEntries \o EntriesToWrite
  <2>1. Readable([start |-> JournalPosAdd(p, 0), len |-> writtenJournalBlocks - 0])
    BY <1>1, WrittenReadable DEF WrittenInterval
  <2>2. EntriesIn(diskJournal', JournalPosAdd(p, 0), writtenJournalBlocks' - 0)
          = DiskJournalEntries(JournalPosAdd(p, 0), writtenJournalBlocks - 0) \o EntriesToWrite
    BY <1>1, <2>1, WriteOutJournalExtends
  <2>. QED  BY <1>1, <2>2 DEF WrittenEntries, EntriesIn, DiskJournalEntries
<1>3. ASSUME UNCHANGED frozenJournalPosition
      PROVE  RecentEntries' = RecentEntries \o EntriesToWrite
  <2>1. Readable([start |-> JournalPosAdd(p, frozenJournalPosition),
                  len |-> writtenJournalBlocks - frozenJournalPosition])
    BY <1>1 DEF ContentsInv, ChunksInv, RecentInterval
  <2>2. EntriesIn(diskJournal', JournalPosAdd(p, frozenJournalPosition),
                  writtenJournalBlocks' - frozenJournalPosition)
          = DiskJournalEntries(JournalPosAdd(p, frozenJournalPosition),
                               writtenJournalBlocks - frozenJournalPosition) \o EntriesToWrite
    BY <1>1, <2>1, WriteOutJournalExtends
  <2>. QED  BY <1>1, <1>3, <2>2 DEF RecentEntries, EntriesIn, DiskJournalEntries
<1>. QED  BY <1>2, <1>3

\* What both cases of a write leave alone.
LEMMA WriteOutJournalShows ==
  ASSUME IInv, ContentsInv, WriteOutJournal
  PROVE  /\ status = "Ready" /\ status' = "Ready"
         /\ ~LocationInEffect /\ ~LocationInEffect'
         /\ SyncReqs = syncReqs /\ SyncReqs' = syncReqs'
         /\ UNCHANGED <<PersistentSuperblock, PersistentJournal>>
         /\ UNCHANGED <<replayJournal, frozenLoc>>
<1>1. status = "Ready" /\ ~superblockWrite
  BY WriteOutJournalChunk
<1>2. UNCHANGED <<status, replayJournal, frozenLoc, superblockWrite, diskSuperblock>>
  BY WriteOutJournalCases
<1>3. UNCHANGED PersistentSuperblock
  BY <1>2 DEF PersistentSuperblock
<1>4. UNCHANGED PersistentJournal
  <2>1. \A i \in Pos : InCyclicRange(i, PersistentInterval) => diskJournal'[i] = diskJournal[i]
    BY WriteOutJournalSparesPersistent
  <2>2. JournalRangeAt(diskJournal', PersistentInterval)
          = JournalRangeAt(diskJournal, PersistentInterval)
    BY <2>1, IntervalsType, RangeUnchanged
  <2>. QED  BY <1>3, <2>2 DEF PersistentJournal, DiskJournalEntries, PersistentInterval, Region
<1>. QED  BY <1>1, <1>2, <1>3, <1>4 DEF LocationInEffect, SyncReqs, HasUpdateOccurredUnacked

\* Frozen entries only move from memory to the disk; with none, the entries in
\* memory join what the next commit makes persistent.
LEMMA WriteOutJournalRefines ==
  ASSUME IInv, ContentsInv, IInv', ContentsInv', WriteOutJournal
  PROVE  JV!ExtendLog2 \/ UNCHANGED JV!vars
<1>1. /\ status = "Ready" /\ status' = "Ready"
      /\ ~LocationInEffect /\ ~LocationInEffect'
      /\ SyncReqs = syncReqs /\ SyncReqs' = syncReqs'
      /\ UNCHANGED <<PersistentSuperblock, PersistentJournal>>
      /\ UNCHANGED <<replayJournal, frozenLoc>>
  BY WriteOutJournalShows
<1>2. /\ GammaJournal = WrittenEntries \o inMemoryJournalFrozen
      /\ GammaJournal' = WrittenEntries' \o inMemoryJournalFrozen'
      /\ DeltaJournal = inMemoryJournal /\ DeltaJournal' = inMemoryJournal'
      /\ FrozenJournal = RecentEntries /\ FrozenJournal' = RecentEntries'
      /\ UNCHANGED <<EphemeralJournal, FrozenLoc>>
      /\ WrittenEntries \in Seq(Entry) /\ WrittenEntries' \in Seq(Entry)
  BY <1>1, ReadyShows, ReadyShowsAfter
<1>3. WrittenEntries' = WrittenEntries \o EntriesToWrite
  BY WriteOutJournalReadings
<1>4. CASE inMemoryJournalFrozen # <<>>
  <2>1. /\ EntriesToWrite = inMemoryJournalFrozen
        /\ frozenJournalPosition = writtenJournalBlocks
        /\ frozenJournalPosition' = writtenJournalBlocks'
        /\ inMemoryJournalFrozen' = <<>>
        /\ UNCHANGED <<inMemoryJournal, syncReqs>>
    BY <1>4, WriteOutJournalCases
  <2>2. UNCHANGED GammaJournal
    BY <1>2, <1>3, <2>1, ConcatEmptySeq
  <2>3. UNCHANGED FrozenJournal
    <3>1. writtenJournalBlocks \in Nat /\ writtenJournalBlocks' \in Nat
      BY IntervalsType, WriteOutJournalChunk, NumJournalBlocksAssumption
    <3>2. RecentEntries = <<>> /\ RecentEntries' = <<>>
      BY <2>1, <3>1, NothingRecent DEF RecentEntries, DiskJournalEntries
    <3>. QED  BY <1>2, <3>2
  <2>. QED  BY <1>1, <1>2, <2>1, <2>2, <2>3 DEF JV!vars
<1>5. CASE inMemoryJournalFrozen = <<>>
  <2>1. /\ EntriesToWrite = inMemoryJournal /\ inMemoryJournal' = <<>>
        /\ syncReqs' = SyncReqs3to2(syncReqs) /\ inMemoryJournalFrozen' = <<>>
        /\ UNCHANGED frozenJournalPosition
    BY <1>5, WriteOutJournalCases
  <2>2. GammaJournal' = GammaJournal \o DeltaJournal
    <3>1. GammaJournal = WrittenEntries /\ GammaJournal' = WrittenEntries'
      BY <1>2, <1>5, <2>1, ConcatEmptySeq
    <3>. QED  BY <1>2, <1>3, <2>1, <3>1
  <2>3. FrozenJournal' = FrozenJournal \o DeltaJournal
    BY <1>2, <2>1, WriteOutJournalReadings
  <2>4. SyncReqs' = JV!SyncReqs3to2(SyncReqs) /\ DeltaJournal' = <<>>
    BY <1>1, <1>2, <2>1, SameSyncReqs
  <2>. QED  BY <1>1, <1>2, <2>2, <2>3, <2>4 DEF JV!ExtendLog2
<1>. QED  BY <1>4, <1>5
-----------------------------------------------------------------------------
\* Superblock writes

\* The counter being written tells it from what the other slot holds: a write
\* does not count as done before the disk has done it.
LEMMA SendSuperblockNotInEffect ==
  ASSUME IInv, NEW sb \in Superblock, NEW commit, status = "Ready", ~superblockWrite,
         sb.counter = IncrementSuperblockCounter(superblock.counter),
         SendSuperblock(sb, commit)
  PROVE  ~HasUpdateOccurredUnacked /\ ~HasUpdateOccurredUnacked'
<1>1. /\ whichSuperblock \in Slot /\ 1 - whichSuperblock \in Slot
      /\ 1 - whichSuperblock # whichSuperblock
      /\ whichSuperblock = SelectSuperblockIndex(diskSuperblock)
      /\ superblock = diskSuperblock[whichSuperblock]
      /\ diskSuperblock \in [Slot -> Superblock]
  BY DEF IInv, TypeOK, CommitterTypeOK, DiskTypeOK, IdleInv, SuperblockReadInv, Slot
<1>2. newSuperblock' = sb /\ UNCHANGED <<whichSuperblock, diskSuperblock>>
  BY DEF SendSuperblock, RecvWriteSuperblock
<1>3. diskSuperblock[1 - whichSuperblock] # sb
  BY <1>1, SelectNewer
<1>. QED  BY <1>2, <1>3 DEF HasUpdateOccurredUnacked

\* A superblock that has not taken effect shows nothing new.
LEMMA SendSuperblockStutters ==
  ASSUME IInv, ContentsInv, IInv', ContentsInv', NEW sb \in Superblock, NEW commit,
         status = "Ready", ~superblockWrite,
         sb.counter = IncrementSuperblockCounter(superblock.counter),
         SendSuperblock(sb, commit)
  PROVE  UNCHANGED JV!vars
<1>1. ~HasUpdateOccurredUnacked /\ ~HasUpdateOccurredUnacked'
  BY SendSuperblockNotInEffect
<1>2. UNCHANGED <<status, loadVars, currentVars, replayJournal, queueVars, frozenVars, syncReqs,
                  diskSuperblock, diskJournal>>
  BY DEF SendSuperblock, RecvWriteSuperblock
<1>3. ~LocationInEffect /\ ~LocationInEffect' /\ UNCHANGED SyncReqs
  BY <1>1, <1>2 DEF LocationInEffect, SyncReqs
<1>4. UNCHANGED <<PersistentSuperblock, PersistentJournal, WrittenEntries, RecentEntries>>
  BY <1>2, SamePersistent, SameReadings
<1>. QED  BY <1>2, <1>3, <1>4, ReadyShows, ReadyShowsAfter DEF JV!vars

\* So does sending either kind.
LEMMA WriteOutSuperblockStutters ==
  ASSUME IInv, ContentsInv, IInv', ContentsInv',
         WriteOutSuperblockAdvanceLog \/ WriteOutSuperblockAdvanceLocation
  PROVE  UNCHANGED JV!vars
<1>1. status = "Ready" /\ ~superblockWrite
  BY DEF WriteOutSuperblockAdvanceLog, WriteOutSuperblockAdvanceLocation, CanWriteSuperblock,
     AdvancingLog, AdvancingLocation, DoSync, IsInitialized
<1>2. \E commit : /\ SendSuperblock(newSuperblock', commit)
                  /\ newSuperblock'.counter = IncrementSuperblockCounter(superblock.counter)
  BY DEF WriteOutSuperblockAdvanceLog, WriteOutSuperblockAdvanceLocation, SendSuperblock
<1>3. newSuperblock' \in Superblock
  <2>1. superblockWrite'
    BY DEF WriteOutSuperblockAdvanceLog, WriteOutSuperblockAdvanceLocation, SendSuperblock
  <2>. QED  BY <2>1 DEF IInv, CommitInv, NewSuperblockInv
<1>. QED  BY <1>1, <1>2, <1>3, SendSuperblockStutters

\* The acknowledgement shows only that the frozen table is in use now.
LEMMA WriteBackSuperblockRespRefines ==
  ASSUME IInv, ContentsInv, IInv', ContentsInv', WriteBackSuperblockResp
  PROVE  JV!CleanUp \/ UNCHANGED JV!vars
<1>1. /\ status = "Ready" /\ superblockWrite /\ ~superblockWrite'
      /\ superblock' = newSuperblock /\ NewSuperblockInv
      /\ syncReqs' = SyncReqs2to1(syncReqs)
      /\ UNCHANGED <<status, loadVars, replayJournal, inMemoryJournal, inMemoryJournalFrozen,
                     diskSuperblock, diskJournal>>
  BY DEF WriteBackSuperblockResp, AckWriteSuperblock, IInv, CommitInv
<1>2. HasUpdateOccurredUnacked
  <2>1. /\ whichSuperblock \in Slot /\ 1 - whichSuperblock \in Slot
        /\ 1 - whichSuperblock # whichSuperblock
    BY DEF IInv, TypeOK, CommitterTypeOK, Slot
  <2>2. /\ diskSuperblock[1 - whichSuperblock] = reqWriteSuperblock[1 - whichSuperblock]
        /\ reqWriteSuperblock =
             [which \in Slot |-> IF which = whichSuperblock THEN None ELSE newSuperblock]
    BY <1>1 DEF WriteBackSuperblockResp, AckWriteSuperblock, IInv, CommitInv
  <2>. QED  BY <1>1, <2>1, <2>2 DEF HasUpdateOccurredUnacked
<1>3. /\ PersistentSuperblock = newSuperblock
      /\ UNCHANGED <<PersistentSuperblock, PersistentJournal>>
  BY <1>1, <1>2, UpdatePersistent, SamePersistent
<1>4. ~LocationInEffect' /\ UNCHANGED SyncReqs
  BY <1>1, <1>2 DEF LocationInEffect, SyncReqs, HasUpdateOccurredUnacked
<1>5. UNCHANGED <<EphemeralJournal, DeltaJournal>>
  BY <1>1, ReadyShows, ReadyShowsAfter
<1>6. CASE commitStatus = "CommitAdvanceLocation"
  <2>1. /\ writtenJournalBlocks' = writtenJournalBlocks - frozenJournalPosition
        /\ frozenJournalPosition' = 0 /\ frozenLoc' = None
        /\ superblock'.journalStart =
             JournalPosAdd(superblock.journalStart, frozenJournalPosition)
        /\ newSuperblock.indirectionTableLoc = frozenLoc
    BY <1>1, <1>6 DEF WriteBackSuperblockResp, NewSuperblockInv
  <2>2. WrittenEntries' = RecentEntries
    BY <1>1, <2>1 DEF WrittenEntries, RecentEntries, DiskJournalEntries
  <2>3. RecentEntries' = RecentEntries
    <3>1. /\ writtenJournalBlocks - frozenJournalPosition - 0
               = writtenJournalBlocks - frozenJournalPosition
          /\ superblock'.journalStart \in Pos
      BY <1>1, IntervalsType DEF NewSuperblockInv, Superblock
    <3>2. JournalPosAdd(superblock'.journalStart, 0) = superblock'.journalStart
      BY <3>1, PosAddZero
    <3>. QED  BY <1>1, <2>1, <3>1, <3>2 DEF RecentEntries, DiskJournalEntries
  <2>4. LocationInEffect
    BY <1>2, <1>6 DEF LocationInEffect
  <2>5. UNCHANGED <<GammaJournal, FrozenJournal>>
    BY <1>1, <1>4, <2>2, <2>3, <2>4, ReadyShows, ReadyShowsAfter
  <2>6. FrozenLoc = PersistentSuperblock.indirectionTableLoc /\ FrozenLoc' = None
    BY <1>1, <1>3, <2>1, ReadyShows, ReadyShowsAfter
  <2>. QED  BY <1>3, <1>4, <1>5, <2>5, <2>6 DEF JV!CleanUp
<1>7. CASE commitStatus = "CommitAdvanceLog"
  <2>1. /\ UNCHANGED <<writtenJournalBlocks, frozenVars>>
        /\ superblock'.journalStart = superblock.journalStart
    BY <1>1, <1>7 DEF WriteBackSuperblockResp, NewSuperblockInv
  <2>2. UNCHANGED <<WrittenEntries, RecentEntries>>
    BY <1>1, <2>1 DEF WrittenEntries, RecentEntries, DiskJournalEntries
  <2>3. ~LocationInEffect
    BY <1>7 DEF LocationInEffect
  <2>4. UNCHANGED <<GammaJournal, FrozenJournal, FrozenLoc>>
    BY <1>1, <1>4, <2>1, <2>2, <2>3, ReadyShows, ReadyShowsAfter
  <2>. QED  BY <1>3, <1>4, <1>5, <2>4 DEF JV!vars
<1>. QED  BY <1>1, <1>6, <1>7 DEF NewSuperblockInv

-----------------------------------------------------------------------------
\* Sync requests, the disk's own steps, and crashes

\* A new request is a PushSync with the id CommitterImpl gives it.
LEMMA PushSyncRefines ==
  ASSUME IInv, PushSync
  PROVE  \E id \in SyncId : JV!PushSync(id)
<1>1. PICK maxId \in DOMAIN syncReqs \cup {0} :
        /\ \A id \in DOMAIN syncReqs : id <= maxId
        /\ maxId < MaxSyncId
        /\ syncReqs' = PushReq(syncReqs, maxId + 1)
  BY DEF PushSync
<1>. DEFINE new == maxId + 1
<1>2. new \in SyncId /\ new \notin DOMAIN syncReqs
  <2>1. DOMAIN syncReqs \in SUBSET SyncId
    BY DEF IInv, TypeOK, CommitterTypeOK
  <2>2. maxId \in Nat
    BY <2>1 DEF SyncId
  <2>. QED  BY <1>1, <2>1, <2>2, SyncAssumption DEF SyncId
<1>. HIDE DEF new
<1>3. syncReqs' = PushReq(syncReqs, new)
  BY <1>1 DEF new
<1>4. UNCHANGED <<status, loadVars, currentVars, replayJournal, queueVars, frozenVars,
                  writeVars, diskVars>>
  BY DEF PushSync
<1>5. /\ UNCHANGED <<PersistentJournal, FrozenJournal, EphemeralJournal, GammaJournal,
                     DeltaJournal, PersistentSuperblock, FrozenLoc>>
      /\ UNCHANGED HasUpdateOccurredUnacked
  BY <1>4, SameShown
<1>6. SyncReqs' = JV!PushReq(SyncReqs, new) /\ new \notin DOMAIN SyncReqs
  BY <1>2, <1>3, <1>5, SameSyncReqs, PushedLater, PoppedLater DEF SyncReqs
<1>. QED  BY <1>2, <1>5, <1>6 DEF JV!PushSync

\* A request popped in State1 is in State1 for the abstract journal too.
LEMMA PopSyncRefines ==
  ASSUME NEW id \in SyncId, PopSync(id)
  PROVE  JV!PopSync(id)
<1>1. /\ id \in DOMAIN syncReqs /\ syncReqs[id] = "State1"
      /\ syncReqs' = PopReq(syncReqs, id)
      /\ UNCHANGED <<status, loadVars, currentVars, replayJournal, queueVars, frozenVars,
                     writeVars, diskVars>>
  BY DEF PopSync
<1>2. /\ UNCHANGED <<PersistentJournal, FrozenJournal, EphemeralJournal, GammaJournal,
                     DeltaJournal, PersistentSuperblock, FrozenLoc>>
      /\ UNCHANGED HasUpdateOccurredUnacked
  BY <1>1, SameShown
<1>3. /\ id \in DOMAIN SyncReqs /\ SyncReqs[id] = "State1"
      /\ SyncReqs' = JV!PopReq(SyncReqs, id)
  BY <1>1, <1>2, SameSyncReqs, PoppedLater DEF SyncReqs
<1>. QED  BY <1>2, <1>3 DEF JV!PopSync

\* The moment a commit takes effect: of the journal alone, or of the frozen
\* table with the journal after it.
LEMMA DiskInternalRefines ==
  ASSUME IInv, ContentsInv, IInv', ContentsInv', DiskInternal
  PROVE  JV!ExtendLog1 \/ JV!Move1to2 \/ UNCHANGED JV!vars
<1>1. /\ superblockWrite /\ status = "Ready" /\ NewSuperblockInv
      /\ PersistentSuperblock' = newSuperblock
      /\ HasUpdateOccurredUnacked'
      /\ UNCHANGED <<committerVars, diskJournal>>
  BY DiskInternalCommits
<1>2. UNCHANGED <<status, loadVars, currentVars, replayJournal, queueVars, frozenVars,
                  writeVars, syncReqs>>
  BY <1>1 DEF committerVars
<1>3. CASE HasUpdateOccurredUnacked
  <2>1. UNCHANGED diskSuperblock
    <3>1. /\ diskSuperblock' =
               [diskSuperblock EXCEPT ![1 - whichSuperblock] = newSuperblock]
          /\ diskSuperblock[1 - whichSuperblock] = newSuperblock
          /\ diskSuperblock \in [Slot -> Superblock]
      BY <1>3, ProcessWriteOnDisk DEF HasUpdateOccurredUnacked, IInv, TypeOK, DiskTypeOK
    <3>. QED  BY <3>1
  <2>. QED  BY <1>1, <1>2, <2>1, SameShown DEF JV!vars
<1>4. CASE ~HasUpdateOccurredUnacked
  <2>1. /\ SyncReqs = syncReqs /\ SyncReqs' = JV!SyncReqs2to1(SyncReqs)
        /\ PersistentSuperblock = superblock /\ ~LocationInEffect
        /\ inMemoryJournalFrozen = <<>>
    BY <1>1, <1>2, <1>4, KnowsCommit, SameSyncReqs DEF SyncReqs, CommitterKnowsCommit,
       LocationInEffect, ContentsInv, EntriesInv
  <2>2. UNCHANGED <<WrittenEntries, RecentEntries>>
    BY <1>1, <1>2, SameReadings
  <2>3. /\ GammaJournal = WrittenEntries
        /\ GammaJournal' = IF commitStatus = "CommitAdvanceLocation" THEN RecentEntries
                                                                     ELSE WrittenEntries
        /\ UNCHANGED <<FrozenJournal, EphemeralJournal, DeltaJournal, FrozenLoc>>
        /\ FrozenJournal = RecentEntries /\ FrozenLoc = frozenLoc
    <3>1. /\ GammaJournal = WrittenEntries \o <<>>
          /\ GammaJournal' = (IF LocationInEffect' THEN RecentEntries ELSE WrittenEntries) \o <<>>
          /\ WrittenEntries \in Seq(Entry) /\ RecentEntries \in Seq(Entry)
      BY <1>1, <1>2, <2>1, <2>2, ReadyShows, ReadyShowsAfter
    <3>2. LocationInEffect' <=> commitStatus = "CommitAdvanceLocation"
      BY <1>1, <1>2 DEF LocationInEffect
    <3>3. /\ WrittenEntries \o <<>> = WrittenEntries
          /\ RecentEntries \o <<>> = RecentEntries
      BY <3>1, ConcatEmptySeq
    <3>. QED  BY <1>1, <1>2, <2>2, <3>1, <3>2, <3>3, ReadyShows, ReadyShowsAfter
  <2>4. PersistentJournal' = DiskJournalEntries(newSuperblock.journalStart,
                                                newSuperblock.journalLen)
    BY <1>1 DEF PersistentJournal, DiskJournalEntries
  <2>5. CASE commitStatus = "CommitAdvanceLog"
    <3>1. /\ PersistentJournal' = WrittenEntries
          /\ newSuperblock.indirectionTableLoc = superblock.indirectionTableLoc
      BY <1>1, <2>4, <2>5 DEF NewSuperblockInv, WrittenEntries
    <3>. QED  BY <1>1, <2>1, <2>3, <2>5, <3>1 DEF JV!ExtendLog1
  <2>6. CASE commitStatus = "CommitAdvanceLocation"
    <3>1. /\ PersistentJournal' = RecentEntries
          /\ newSuperblock.indirectionTableLoc = frozenLoc
          /\ newSuperblock \in Superblock
      BY <1>1, <2>4, <2>6 DEF NewSuperblockInv, RecentEntries
    <3>2. frozenLoc # None
      BY <3>1, DiskNoneAssumption DEF Superblock
    <3>. QED  BY <1>1, <2>1, <2>3, <2>6, <3>1, <3>2 DEF JV!Move1to2
  <2>. QED  BY <1>1, <2>5, <2>6 DEF NewSuperblockInv
<1>. QED  BY <1>3, <1>4

\* A crash leaves the persistent journal and forgets the others.
LEMMA CrashRefines ==
  ASSUME IInv, IInv', Crash
  PROVE  JV!Crash
<1>1. status' # "Ready" /\ syncReqs' = <<>>
  BY DEF Crash, Restart
<1>2. UNCHANGED <<PersistentSuperblock, PersistentJournal>>
  BY CrashKeepsPersistent DEF PersistentJournal, DiskJournalEntries, PersistentInterval, Region
<1>3. (IInv /\ status # "Ready" =>
         /\ FrozenJournal = PersistentJournal /\ EphemeralJournal = PersistentJournal
         /\ GammaJournal = PersistentJournal /\ DeltaJournal = <<>>
         /\ FrozenLoc = None /\ SyncReqs = syncReqs)'
  BY LoadingShows, PTL
<1>. QED  BY <1>1, <1>2, <1>3 DEF JV!Crash

-----------------------------------------------------------------------------
\* JournalSystem implements JournalView

\* Every step of JournalSystem is a step of JournalView or a stutter.
LEMMA NextRefinesView ==
  IInv /\ ContentsInv /\ IInv' /\ ContentsInv' /\ [Next]_vars => [JV!Next]_JV!vars
<1>. SUFFICES ASSUME IInv, ContentsInv, IInv', ContentsInv', [Next]_vars
              PROVE  JV!Next \/ UNCHANGED JV!vars
  OBVIOUS
<1>1. CASE \/ \E which \in Slot : PageInSuperblockReq(which)
           \/ FinishLoadingSuperblockPhase
           \/ \E h \in Half, id \in ReqId : PageInJournalReq(h, id)
           \/ \E id \in ReqId : PageInJournalResp(id)
  <2>1. /\ status # "Ready" /\ status' # "Ready"
        /\ UNCHANGED <<diskSuperblock, diskJournal, syncReqs>>
    BY <1>1 DEF PageInSuperblockReq, RecvReadSuperblock, FinishLoadingSuperblockPhase,
       PageInJournalReq, RecvReadJournal, PageInJournalResp, AckReadJournal
  <2>. QED  BY <2>1, LoadingStutters
<1>2. CASE \E which \in Slot : ReadSuperblockResp(which)
  BY <1>2, SameShown DEF ReadSuperblockResp, AckReadSuperblock, JV!vars
<1>3. CASE FinishLoadingOtherPhase
  BY <1>3, FinishLoadingOtherStutters
<1>4. CASE JournalReplayOne
  BY <1>4, JournalReplayOneRefines DEF JV!Next
<1>5. CASE \E e \in Entry : JournalAppend(e)
  BY <1>5, JournalAppendRefines DEF JV!Next
<1>6. CASE Freeze
  BY <1>6, FreezeRefines DEF JV!Next
<1>7. CASE WriteOutJournal
  BY <1>7, WriteOutJournalRefines DEF JV!Next
<1>8. CASE WriteOutSuperblockAdvanceLog \/ WriteOutSuperblockAdvanceLocation
  BY <1>8, WriteOutSuperblockStutters
<1>9. CASE \E id \in ReqId : WriteBackJournalResp(id)
  BY <1>9, SameShown DEF WriteBackJournalResp, AckWriteJournal, JV!vars
<1>10. CASE WriteBackSuperblockResp
  BY <1>10, WriteBackSuperblockRespRefines DEF JV!Next
<1>11. CASE \E loc \in Loc : ReceiveFrozenLoc(loc)
  BY <1>11, ReceiveFrozenLocRefines DEF JV!Next
<1>12. CASE PushSync
  BY <1>12, PushSyncRefines DEF JV!Next
<1>13. CASE \E id \in SyncId : PopSync(id)
  BY <1>13, PopSyncRefines DEF JV!Next
<1>14. CASE DiskInternal
  BY <1>14, DiskInternalRefines DEF JV!Next
<1>15. CASE Crash
  BY <1>15, CrashRefines DEF JV!Next
<1>16. CASE UNCHANGED vars
  BY <1>16, SameShown DEF vars, committerVars, JV!vars
<1>. QED  BY <1>1, <1>2, <1>3, <1>4, <1>5, <1>6, <1>7, <1>8, <1>9, <1>10, <1>11, <1>12,
          <1>13, <1>14, <1>15, <1>16 DEF Next, Initialization, Commit, Response

\* The committer with its journal, through crashes and recoveries, does only
\* what JournalView promises (JournalSystem_Refines_JournalView).
THEOREM JournalSystemImplementsView == Spec => RefinesJournalView
  BY InitRefines, NextRefinesView, Invariance, ContentsInvariance, PTL
     DEF Spec, RefinesJournalView, JV!Spec

-----------------------------------------------------------------------------
\* The history

USE DEF historyVars

\* The history only watches: what JournalSystem does is not changed by it.

\* The history variables restrict the steps, and add none.
LEMMA HNextIsNext == [HNext]_<<vars, historyVars>> => [Next]_vars
  BY DEF HNext, HAppend, HFreeze, HStoreTable, HPushSync, HPopSync, HCrash, HOther, Next,
     Commit, Response, vars

\* So what holds of Spec holds of HSpec.
LEMMA HSpecIsSpec == HSpec => Spec
<1>1. HInit => Init
  BY DEF HInit
<1>. QED  BY <1>1, HNextIsNext, PTL DEF HSpec, Spec

-----------------------------------------------------------------------------
\* What the refinement mapping shows

\* The journals shown are sequences of entries.
LEMMA ShownType ==
  ASSUME IInv, ContentsInv
  PROVE  /\ PersistentJournal \in Seq(Entry) /\ FrozenJournal \in Seq(Entry)
         /\ GammaJournal \in Seq(Entry) /\ DeltaJournal \in Seq(Entry)
         /\ PersistentSuperblock.indirectionTableLoc \in Loc
         /\ DOMAIN SyncReqs = DOMAIN syncReqs
<1>1. PersistentJournal \in Seq(Entry)
  <2>1. JournalRangeAt(diskJournal, PersistentInterval) \in Seq(Block)
    BY IntervalsType, ReadableBlocks DEF ContentsInv, ChunksInv, IInv, TypeOK
  <2>. QED  BY <2>1, ParsedType DEF PersistentJournal, DiskJournalEntries, PersistentInterval,
            Region
<1>2. DOMAIN SyncReqs = DOMAIN syncReqs
  BY PoppedLater DEF SyncReqs
<1>3. CASE status # "Ready"
  <2>1. <<>> \in Seq(Entry)
    OBVIOUS
  <2>. QED  BY <1>1, <1>2, <1>3, <2>1, LoadingShows, PersistentLocType
<1>4. CASE status = "Ready"
  <2>1. inMemoryJournal \in Seq(Entry) /\ inMemoryJournalFrozen \in Seq(Entry)
    BY DEF IInv, TypeOK, CommitterTypeOK
  <2>2. GammaJournal \in Seq(Entry)
    BY <1>4, <2>1, ReadyShows, ConcatProperties
  <2>. QED  BY <1>1, <1>2, <1>4, <2>1, <2>2, ReadyShows, PersistentLocType
<1>. QED  BY <1>3, <1>4

\* The committed journal is a part of what the next commit would commit.
LEMMA PersistentIsPart ==
  ASSUME IInv, ContentsInv
  PROVE  Len(PersistentJournal) <= Len(GammaJournal)
<1>1. CASE status # "Ready"
  <2>1. Len(PersistentJournal) \in Nat
    BY ShownType
  <2>. QED  BY <1>1, <2>1, LoadingShows
<1>2. CASE status = "Ready"
  <2>. DEFINE p == superblock.journalStart
              len == superblock.journalLen
              rest == writtenJournalBlocks - len
  <2>1. PersistentSuperblock = IF HasUpdateOccurredUnacked THEN newSuperblock ELSE superblock
    BY <1>2, KnowsCommit DEF CommitterKnowsCommit
  <2>2. /\ WrittenEntries \in Seq(Entry) /\ RecentEntries \in Seq(Entry)
        /\ inMemoryJournalFrozen \in Seq(Entry)
        /\ GammaJournal = (IF LocationInEffect THEN RecentEntries ELSE WrittenEntries)
                            \o inMemoryJournalFrozen
    BY <1>2, ReadyShows DEF IInv, TypeOK, CommitterTypeOK
  <2>3. Len(PersistentJournal) <=
          Len(IF LocationInEffect THEN RecentEntries ELSE WrittenEntries)
    <3>1. CASE HasUpdateOccurredUnacked
      <4>1. PersistentJournal = IF LocationInEffect THEN RecentEntries ELSE WrittenEntries
        BY <2>1, <3>1 DEF HasUpdateOccurredUnacked, LocationInEffect, IInv, CommitInv,
           NewSuperblockInv, PersistentJournal, RecentEntries, WrittenEntries
      <4>2. Len(PersistentJournal) \in Nat
        BY ShownType
      <4>. QED  BY <4>1, <4>2
    <3>2. CASE ~HasUpdateOccurredUnacked
      <4>1. /\ p \in Pos /\ len \in Nat /\ rest \in Nat /\ len + rest = writtenJournalBlocks
            /\ len + rest <= NumJournalBlocks
            /\ diskJournal \in [Pos -> Block \cup {None}]
        BY <1>2, IntervalsType, NumJournalBlocksAssumption
           DEF IInv, SizeInv, TypeOK, DiskTypeOK
      <4>2. PersistentJournal = DiskJournalEntries(p, len) /\ ~LocationInEffect
        BY <2>1, <3>2 DEF PersistentJournal, LocationInEffect
      <4>. DEFINE first == JournalRangeAt(diskJournal, [start |-> p, len |-> len])
                  second == JournalRangeAt(diskJournal,
                                           [start |-> JournalPosAdd(p, len), len |-> rest])
                  whole == JournalRangeAt(diskJournal, [start |-> p, len |-> len + rest])
      <4>3. whole = first \o second
        BY <4>1, RangeConcat
      <4>4. whole \in Seq(Block)
        <5>1. WrittenInterval \in JournalInterval /\ WrittenInterval = [start |-> p, len |-> len + rest]
          BY <1>2, <4>1, IntervalsType DEF WrittenInterval, JournalInterval
        <5>. QED  BY <1>2, <5>1, WrittenReadable, ReadableBlocks DEF IInv, TypeOK
      <4>5. /\ first \in Seq(Block \cup {None}) /\ Len(first) = len
            /\ second \in Seq(Block \cup {None}) /\ Len(second) = rest
        <5>1. /\ [start |-> p, len |-> len] \in JournalInterval
              /\ [start |-> JournalPosAdd(p, len), len |-> rest] \in JournalInterval
          BY <4>1, PosAddType, NumJournalBlocksAssumption DEF JournalInterval
        <5>. QED  BY <4>1, <5>1, RangeType
      <4>6. WrittenEntries = ParsedEntries(whole) /\ PersistentJournal = ParsedEntries(first)
        BY <4>1, <4>2 DEF WrittenEntries, DiskJournalEntries
      <4>. HIDE DEF first, second, whole, len, rest
      <4>7. first \in Seq(Block) /\ second \in Seq(Block)
        BY <4>1, <4>3, <4>4, <4>5
      <4>8. ParsedEntries(whole) = ParsedEntries(first) \o ParsedEntries(second)
        BY <4>3, <4>7, ParsedConcat
      <4>9. ParsedEntries(first) \in Seq(Entry) /\ ParsedEntries(second) \in Seq(Entry)
        BY <4>7, ParsedType
      <4>. QED  BY <4>2, <4>6, <4>8, <4>9, LenProperties
    <3>. QED  BY <3>1, <3>2
  <2>. QED  BY <2>2, <2>3, ShownType, ConcatProperties
<1>. QED  BY <1>1, <1>2
\* The parts of HistoryInv, with their types, and that they bound each other.
LEMMA HistoryCounts ==
  ASSUME IInv, ContentsInv, HistoryInv
  PROVE  /\ Coverable \in Nat /\ Recoverable \in Nat /\ Recoverable <= Coverable
         /\ Len(PersistentJournal) \in Nat /\ Len(GammaJournal) \in Nat
         /\ Len(FrozenJournal) \in Nat /\ Len(DeltaJournal) \in Nat
         /\ inserted \in Nat /\ Coverable <= inserted /\ frozenAt \in Nat
         /\ tableAt[PersistentSuperblock.indirectionTableLoc] \in Nat
         /\ \A id \in DOMAIN syncReqs : coveredBy[id] \in Nat
<1>. DEFINE t == tableAt[PersistentSuperblock.indirectionTableLoc]
<1>1. /\ t \in Nat /\ inserted \in Nat /\ frozenAt \in Nat
      /\ \A id \in DOMAIN syncReqs : coveredBy[id] \in Nat
  BY ShownType DEF HistoryInv, HistoryTypeOK
<1>2. /\ Len(PersistentJournal) \in Nat /\ Len(GammaJournal) \in Nat
      /\ Len(FrozenJournal) \in Nat /\ Len(DeltaJournal) \in Nat
      /\ Len(PersistentJournal) <= Len(GammaJournal)
  BY ShownType, PersistentIsPart, LenProperties
<1>3. Coverable = t + Len(GammaJournal) /\ Recoverable = t + Len(PersistentJournal)
  BY DEF Coverable, Recoverable
<1>4. inserted = Coverable + Len(DeltaJournal)
  BY DEF HistoryInv, InsertedInv
<1>5. /\ Coverable \in Nat /\ Recoverable \in Nat /\ Recoverable <= Coverable
      /\ Coverable <= inserted
  <2>. HIDE DEF t
  <2>. QED  BY <1>1, <1>2, <1>3, <1>4
<1>. QED  BY <1>1, <1>2, <1>5

-----------------------------------------------------------------------------
\* The steps, each as the step of JournalView it is

\* Nothing has been inserted on a new disk.
LEMMA InitHistory ==
  ASSUME HInit
  PROVE  HistoryInv
<1>1. Init /\ inserted = 0 /\ frozenAt = 0 /\ tableAt = [loc \in Loc |-> 0] /\ coveredBy = <<>>
  BY DEF HInit
<1>2. /\ GammaJournal = <<>> /\ DeltaJournal = <<>> /\ DOMAIN syncReqs = {} /\ ~Ready
      /\ PersistentSuperblock.indirectionTableLoc \in Loc
  <2>1. syncReqs = <<>> /\ status # "Ready"
    BY <1>1 DEF Init, Constructor
  <2>. QED  BY <1>1, <2>1, InitRefines DEF JV!Init, Ready
<1>3. HistoryTypeOK
  <2>1. DOMAIN <<>> = {}
    OBVIOUS
  <2>. QED  BY <1>1, <1>2 DEF HistoryTypeOK
<1>4. InsertedInv
  BY <1>1, <1>2 DEF InsertedInv, Coverable
<1>. QED  BY <1>1, <1>2, <1>3, <1>4 DEF HistoryInv, FrozenInv, CoveredInv

\* A step that shows nothing, unless that the frozen table is forgotten.
LEMMA SameHistory ==
  ASSUME HistoryInv, IInv, ContentsInv, IInv', ContentsInv', UNCHANGED historyVars,
         UNCHANGED <<PersistentJournal, FrozenJournal, GammaJournal, DeltaJournal,
                     PersistentSuperblock.indirectionTableLoc, SyncReqs>>,
         Ready' /\ isFrozen' => Ready /\ isFrozen,
         Ready' /\ frozenLoc' # None => Ready /\ frozenLoc' = frozenLoc
  PROVE  HistoryInv' /\ Recoverable' = Recoverable
<1>1. Coverable' = Coverable /\ Recoverable' = Recoverable
  BY DEF Coverable, Recoverable
<1>2. DOMAIN syncReqs' = DOMAIN syncReqs
  <2>1. (IInv /\ ContentsInv => DOMAIN SyncReqs = DOMAIN syncReqs)'
    BY ShownType, PTL
  <2>. QED  BY <2>1, ShownType
<1>3. HistoryTypeOK'
  BY <1>2 DEF HistoryInv, HistoryTypeOK
<1>4. InsertedInv'
  BY <1>1 DEF HistoryInv, InsertedInv
<1>5. FrozenInv'
  BY DEF HistoryInv, FrozenInv
<1>6. CoveredInv'
  BY <1>1, <1>2 DEF HistoryInv, CoveredInv
<1>. QED  BY <1>1, <1>3, <1>4, <1>5, <1>6 DEF HistoryInv

\* An append counts one insertion more, and one entry more in memory.
LEMMA AppendKeepsHistory ==
  ASSUME HistoryInv, IInv, ContentsInv, HAppend
  PROVE  HistoryInv' /\ Recoverable' = Recoverable
<1>1. PICK e \in Entry : JournalAppend(e)
  BY DEF HAppend
<1>2. /\ DeltaJournal' = Append(DeltaJournal, e)
      /\ UNCHANGED <<PersistentJournal, FrozenJournal, GammaJournal,
                     PersistentSuperblock.indirectionTableLoc, SyncReqs>>
  BY <1>1, JournalAppendRefines DEF JV!Move3
<1>3. UNCHANGED <<status, isFrozen, frozenLoc, syncReqs>>
  BY <1>1 DEF JournalAppend
<1>4. inserted' = inserted + 1 /\ UNCHANGED <<frozenAt, tableAt, coveredBy>>
  BY DEF HAppend
<1>5. Len(DeltaJournal') = Len(DeltaJournal) + 1
  BY <1>2, ShownType
<1>6. Coverable' = Coverable /\ Recoverable' = Recoverable
  BY <1>2, <1>4 DEF Coverable, Recoverable
<1>7. HistoryTypeOK'
  BY <1>3, <1>4 DEF HistoryInv, HistoryTypeOK
<1>8. InsertedInv'
  BY <1>4, <1>5, <1>6, HistoryCounts DEF HistoryInv, InsertedInv
<1>9. FrozenInv'
  BY <1>2, <1>3, <1>4, <1>5, HistoryCounts DEF HistoryInv, FrozenInv, Ready
<1>10. CoveredInv'
  BY <1>2, <1>3, <1>4, <1>6, HistoryCounts DEF HistoryInv, CoveredInv
<1>. QED  BY <1>6, <1>7, <1>8, <1>9, <1>10 DEF HistoryInv

\* The frozen table contains every insertion.
LEMMA FreezeKeepsHistory ==
  ASSUME HistoryInv, IInv, ContentsInv, IInv', ContentsInv', HFreeze
  PROVE  HistoryInv' /\ Recoverable' = Recoverable
<1>1. /\ FrozenJournal' = EphemeralJournal
      /\ GammaJournal' = GammaJournal \o DeltaJournal /\ DeltaJournal' = <<>>
      /\ FrozenLoc' = None /\ SyncReqs' = SyncReqs3to2(SyncReqs)
      /\ UNCHANGED <<PersistentJournal, EphemeralJournal,
                     PersistentSuperblock.indirectionTableLoc>>
  BY FreezeRefines, SameSyncReqs DEF HFreeze, JV!Move2to3
<1>2. /\ status = "Ready" /\ EphemeralJournal = <<>> /\ frozenLoc' = None
      /\ DOMAIN syncReqs' = DOMAIN syncReqs
  BY DEF HFreeze, Freeze, DoSync, IsInitialized, EphemeralJournal, Ready, SyncReqs3to2
<1>3. frozenAt' = inserted /\ UNCHANGED <<inserted, tableAt, coveredBy>>
  BY DEF HFreeze
<1>4. Len(GammaJournal') = Len(GammaJournal) + Len(DeltaJournal)
  BY <1>1, ShownType, ConcatProperties
<1>5. /\ Len(DeltaJournal') = 0 /\ Len(FrozenJournal') = 0
  BY <1>1, <1>2
<1>6. Coverable' = inserted /\ Recoverable' = Recoverable
  <2>1. /\ Coverable = tableAt[PersistentSuperblock.indirectionTableLoc] + Len(GammaJournal)
        /\ Coverable' = tableAt[PersistentSuperblock.indirectionTableLoc] + Len(GammaJournal')
        /\ inserted = Coverable + Len(DeltaJournal)
        /\ Recoverable' = Recoverable
    BY <1>1, <1>3 DEF Coverable, Recoverable, HistoryInv, InsertedInv
  <2>2. /\ tableAt[PersistentSuperblock.indirectionTableLoc] \in Nat
        /\ Len(GammaJournal) \in Nat /\ Len(DeltaJournal) \in Nat
    BY HistoryCounts
  <2>. QED  BY <1>4, <2>1, <2>2
<1>7. HistoryTypeOK'
  BY <1>2, <1>3 DEF HistoryInv, HistoryTypeOK
<1>8. InsertedInv'
  BY <1>3, <1>5, <1>6, HistoryCounts DEF InsertedInv
<1>9. FrozenInv'
  BY <1>2, <1>3, <1>5, HistoryCounts DEF FrozenInv
<1>10. CoveredInv'
  <2>1. \A id \in DOMAIN syncReqs : SyncReqs'[id] = "State1" => SyncReqs[id] = "State1"
    BY <1>1, ShownType DEF SyncReqs3to2
  <2>. QED  BY <1>2, <1>3, <1>6, <2>1 DEF HistoryInv, CoveredInv
<1>. QED  BY <1>6, <1>7, <1>8, <1>9, <1>10 DEF HistoryInv

\* A table is never stored over the one recovery would load.
LEMMA StoreTableKeepsHistory ==
  ASSUME HistoryInv, IInv, ContentsInv, HStoreTable
  PROVE  HistoryInv' /\ Recoverable' = Recoverable
<1>1. PICK loc \in Loc : /\ ReceiveFrozenLoc(loc)
                         /\ tableAt' = [tableAt EXCEPT ![loc] = frozenAt]
  BY DEF HStoreTable
<1>2. /\ status = "Ready" /\ isFrozen /\ frozenLoc = None
      /\ loc # superblock.indirectionTableLoc
      /\ frozenLoc' = loc /\ UNCHANGED <<status, isFrozen, syncReqs>>
  BY <1>1 DEF ReceiveFrozenLoc
<1>3. UNCHANGED <<PersistentJournal, FrozenJournal, GammaJournal, DeltaJournal,
                  PersistentSuperblock.indirectionTableLoc, SyncReqs>>
  BY <1>1, ReceiveFrozenLocRefines DEF JV!ObtainFrozenLoc
<1>4. UNCHANGED <<inserted, frozenAt, coveredBy>>
  BY DEF HStoreTable
<1>5. loc # PersistentSuperblock.indirectionTableLoc
  <2>1. ~superblockWrite
    BY <1>2, DiskNoneAssumption DEF IInv, CommitInv, NewSuperblockInv, Superblock
  <2>. QED  BY <1>2, <2>1, IdlePersistent
<1>6. tableAt \in [Loc -> Nat] /\ frozenAt \in Nat
  BY DEF HistoryInv, HistoryTypeOK
<1>7. Coverable' = Coverable /\ Recoverable' = Recoverable
  BY <1>1, <1>3, <1>5, <1>6, ShownType DEF Coverable, Recoverable
<1>8. HistoryTypeOK'
  BY <1>1, <1>2, <1>4, <1>6 DEF HistoryInv, HistoryTypeOK
<1>9. InsertedInv' /\ CoveredInv'
  BY <1>2, <1>3, <1>4, <1>7 DEF HistoryInv, InsertedInv, CoveredInv
<1>10. FrozenInv'
  BY <1>1, <1>2, <1>3, <1>4, <1>6 DEF HistoryInv, FrozenInv, Ready
<1>. QED  BY <1>7, <1>8, <1>9, <1>10 DEF HistoryInv
\* A new request covers everything inserted so far.
LEMMA PushSyncKeepsHistory ==
  ASSUME HistoryInv, IInv, ContentsInv, HPushSync
  PROVE  HistoryInv' /\ Recoverable' = Recoverable
<1>1. PICK id \in SyncId : JV!PushSync(id)
  BY PushSyncRefines DEF HPushSync
<1>2. /\ UNCHANGED <<PersistentJournal, FrozenJournal, GammaJournal, DeltaJournal,
                     PersistentSuperblock.indirectionTableLoc>>
      /\ SyncReqs' = PushReq(SyncReqs, id)
  BY <1>1, SameSyncReqs DEF JV!PushSync
<1>3. UNCHANGED <<status, isFrozen, frozenLoc, inserted, frozenAt, tableAt>>
  BY DEF HPushSync, PushSync
<1>4. coveredBy' = [j \in DOMAIN syncReqs' |->
                      IF j \in DOMAIN syncReqs THEN coveredBy[j] ELSE inserted]
  BY DEF HPushSync
<1>5. DOMAIN SyncReqs = DOMAIN syncReqs
  BY ShownType
<1>6. \A j \in DOMAIN syncReqs' :
        /\ j \notin DOMAIN syncReqs => SyncReqs'[j] = "State3"
        /\ j \in DOMAIN syncReqs => SyncReqs'[j] = SyncReqs[j] \/ SyncReqs'[j] = "State3"
  <2>1. DOMAIN syncReqs' = DOMAIN SyncReqs'
    BY PoppedLater DEF SyncReqs
  <2>. QED  BY <1>2, <1>5, <2>1 DEF PushReq, Put
<1>7. Coverable' = Coverable /\ Recoverable' = Recoverable
  BY <1>2, <1>3 DEF Coverable, Recoverable
<1>8. HistoryTypeOK'
  BY <1>3, <1>4, HistoryCounts DEF HistoryInv, HistoryTypeOK
<1>9. InsertedInv' /\ FrozenInv'
  BY <1>2, <1>3, <1>7 DEF HistoryInv, InsertedInv, FrozenInv, Ready
<1>10. CoveredInv'
  BY <1>3, <1>4, <1>6, <1>7, HistoryCounts DEF HistoryInv, CoveredInv
<1>. QED  BY <1>7, <1>8, <1>9, <1>10 DEF HistoryInv

\* A popped request leaves the others as they are.
LEMMA PopSyncKeepsHistory ==
  ASSUME HistoryInv, IInv, ContentsInv, HPopSync
  PROVE  HistoryInv' /\ Recoverable' = Recoverable
<1>1. PICK id \in SyncId : PopSync(id)
  BY DEF HPopSync
<1>2. /\ UNCHANGED <<PersistentJournal, FrozenJournal, GammaJournal, DeltaJournal,
                     PersistentSuperblock.indirectionTableLoc>>
      /\ SyncReqs' = PopReq(SyncReqs, id)
  BY <1>1, PopSyncRefines, SameSyncReqs DEF JV!PopSync
<1>3. /\ UNCHANGED <<status, isFrozen, frozenLoc>>
      /\ syncReqs' = PopReq(syncReqs, id)
  BY <1>1 DEF PopSync
<1>4. /\ coveredBy' = Restrict(coveredBy, DOMAIN syncReqs')
      /\ UNCHANGED <<inserted, frozenAt, tableAt>>
  BY DEF HPopSync
<1>5. DOMAIN SyncReqs = DOMAIN syncReqs /\ coveredBy \in [DOMAIN syncReqs -> Nat]
  BY ShownType DEF HistoryInv, HistoryTypeOK
<1>6. DOMAIN syncReqs' = DOMAIN syncReqs \ {id}
  BY <1>3 DEF PopReq, Without, Restrict
<1>7. \A j \in DOMAIN syncReqs' : SyncReqs'[j] = SyncReqs[j] /\ coveredBy'[j] = coveredBy[j]
  BY <1>2, <1>4, <1>5, <1>6 DEF PopReq, Without, Restrict
<1>8. Coverable' = Coverable /\ Recoverable' = Recoverable
  BY <1>2, <1>4 DEF Coverable, Recoverable
<1>9. HistoryTypeOK'
  BY <1>4, <1>5, <1>6 DEF HistoryInv, HistoryTypeOK, Restrict
<1>10. InsertedInv' /\ FrozenInv'
  BY <1>2, <1>3, <1>4, <1>8 DEF HistoryInv, InsertedInv, FrozenInv, Ready
<1>11. CoveredInv'
  BY <1>4, <1>6, <1>7, <1>8 DEF HistoryInv, CoveredInv
<1>. QED  BY <1>8, <1>9, <1>10, <1>11 DEF HistoryInv

\* A crash leaves what was recoverable.
LEMMA CrashKeepsHistory ==
  ASSUME HistoryInv, IInv, ContentsInv, IInv', HCrash
  PROVE  HistoryInv' /\ Recoverable' = Recoverable
<1>1. /\ GammaJournal' = PersistentJournal /\ DeltaJournal' = <<>>
      /\ UNCHANGED <<PersistentJournal, PersistentSuperblock.indirectionTableLoc>>
  BY CrashRefines DEF HCrash, JV!Crash
<1>2. status' # "Ready" /\ syncReqs' = <<>>
  BY DEF HCrash, Crash, Restart
<1>3. inserted' = Recoverable /\ coveredBy' = <<>> /\ UNCHANGED <<frozenAt, tableAt>>
  BY DEF HCrash
<1>4. Coverable' = Recoverable /\ Recoverable' = Recoverable
  BY <1>1, <1>3 DEF Coverable, Recoverable
<1>5. DOMAIN <<>> = {} /\ Len(<<>>) = 0
  OBVIOUS
<1>6. HistoryTypeOK'
  BY <1>2, <1>3, <1>5, HistoryCounts DEF HistoryInv, HistoryTypeOK
<1>7. InsertedInv'
  BY <1>1, <1>3, <1>4, <1>5, HistoryCounts DEF InsertedInv
<1>. QED  BY <1>2, <1>4, <1>5, <1>6, <1>7 DEF HistoryInv, FrozenInv, CoveredInv, Ready

\* A commit takes effect: what was coverable is recoverable from then on.
LEMMA DiskInternalKeepsHistory ==
  ASSUME HistoryInv, IInv, ContentsInv, IInv', ContentsInv', DiskInternal,
         UNCHANGED historyVars
  PROVE  HistoryInv' /\ Recoverable' >= Recoverable
<1>1. UNCHANGED <<status, isFrozen, frozenLoc, syncReqs>>
  BY DEF DiskInternal, committerVars
<1>2. CASE UNCHANGED JV!vars
  <2>1. HistoryInv' /\ Recoverable' = Recoverable
    BY <1>1, <1>2, SameHistory DEF JV!vars, Ready
  <2>. QED  BY <2>1, HistoryCounts
<1>3. CASE JV!ExtendLog1 \/ JV!Move1to2
  <2>1. /\ UNCHANGED <<FrozenJournal, DeltaJournal>>
        /\ SyncReqs' = SyncReqs2to1(SyncReqs)
        /\ PersistentJournal' = GammaJournal'
    BY <1>3, SameSyncReqs DEF JV!ExtendLog1, JV!Move1to2
  <2>2. Recoverable' = Coverable /\ Coverable' = Coverable
    <3>1. CASE JV!ExtendLog1
      <4>1. /\ PersistentJournal' = GammaJournal
            /\ UNCHANGED <<GammaJournal, PersistentSuperblock.indirectionTableLoc>>
        BY <3>1 DEF JV!ExtendLog1
      <4>. QED  BY <4>1 DEF Recoverable, Coverable
    <3>2. CASE JV!Move1to2
      <4>1. /\ FrozenLoc # None /\ PersistentSuperblock'.indirectionTableLoc = FrozenLoc
            /\ PersistentJournal' = FrozenJournal /\ GammaJournal' = FrozenJournal
        BY <3>2 DEF JV!Move1to2
      <4>2. Ready /\ frozenLoc # None /\ FrozenLoc = frozenLoc
        BY <4>1 DEF FrozenLoc
      <4>3. isFrozen
        BY <4>2 DEF ContentsInv, EntriesInv
      <4>4. /\ tableAt[FrozenLoc] = frozenAt
            /\ inserted = frozenAt + Len(FrozenJournal) + Len(DeltaJournal)
            /\ inserted = Coverable + Len(DeltaJournal)
        BY <4>2, <4>3 DEF HistoryInv, FrozenInv, InsertedInv
      <4>5. Coverable = frozenAt + Len(FrozenJournal)
        BY <4>4, HistoryCounts
      <4>. QED  BY <4>1, <4>4, <4>5 DEF Recoverable, Coverable
    <3>. QED  BY <1>3, <3>1, <3>2
  <2>3. HistoryTypeOK'
    BY <1>1 DEF HistoryInv, HistoryTypeOK
  <2>4. InsertedInv' /\ FrozenInv'
    BY <1>1, <2>1, <2>2 DEF HistoryInv, InsertedInv, FrozenInv, Ready
  <2>5. CoveredInv'
    <3>1. \A id \in DOMAIN syncReqs :
            /\ SyncReqs'[id] = "State1" => SyncReqs[id] = "State1" \/ SyncReqs[id] = "State2"
            /\ SyncReqs'[id] # "State2"
      BY <2>1, ShownType DEF SyncReqs2to1
    <3>2. \A id \in DOMAIN syncReqs : SyncReqs[id] = "State1" => coveredBy[id] <= Coverable
      BY HistoryCounts DEF HistoryInv, CoveredInv
    <3>. QED  BY <1>1, <2>2, <3>1, <3>2 DEF HistoryInv, CoveredInv
  <2>. QED  BY <2>2, <2>3, <2>4, <2>5, HistoryCounts DEF HistoryInv
<1>. QED  BY <1>2, <1>3, DiskInternalRefines

\* Writing the journal makes what it covers coverable by the next commit.
LEMMA WriteOutJournalKeepsHistory ==
  ASSUME HistoryInv, IInv, ContentsInv, IInv', ContentsInv', WriteOutJournal,
         UNCHANGED historyVars
  PROVE  HistoryInv' /\ Recoverable' = Recoverable
<1>1. UNCHANGED <<status, isFrozen, frozenLoc>> /\ DOMAIN syncReqs' = DOMAIN syncReqs
  BY DEF WriteOutJournal, SyncReqs3to2
<1>2. CASE UNCHANGED JV!vars
  BY <1>1, <1>2, SameHistory DEF JV!vars, Ready
<1>3. CASE JV!ExtendLog2
  <2>1. /\ FrozenJournal' = FrozenJournal \o DeltaJournal
        /\ GammaJournal' = GammaJournal \o DeltaJournal /\ DeltaJournal' = <<>>
        /\ SyncReqs' = SyncReqs3to2(SyncReqs)
        /\ UNCHANGED <<PersistentJournal, PersistentSuperblock.indirectionTableLoc>>
    BY <1>3, SameSyncReqs DEF JV!ExtendLog2
  <2>2. /\ Len(GammaJournal') = Len(GammaJournal) + Len(DeltaJournal)
        /\ Len(FrozenJournal') = Len(FrozenJournal) + Len(DeltaJournal)
        /\ Len(DeltaJournal') = 0
    BY <2>1, ShownType, ConcatProperties
  <2>3. Coverable' = inserted /\ Recoverable' = Recoverable
    <3>1. /\ Coverable = tableAt[PersistentSuperblock.indirectionTableLoc] + Len(GammaJournal)
          /\ Coverable' = tableAt[PersistentSuperblock.indirectionTableLoc]
                            + Len(GammaJournal')
          /\ inserted = Coverable + Len(DeltaJournal)
          /\ Recoverable' = Recoverable
      BY <2>1 DEF Coverable, Recoverable, HistoryInv, InsertedInv
    <3>2. /\ tableAt[PersistentSuperblock.indirectionTableLoc] \in Nat
          /\ Len(GammaJournal) \in Nat /\ Len(DeltaJournal) \in Nat
      BY HistoryCounts
    <3>. QED  BY <2>2, <3>1, <3>2
  <2>4. HistoryTypeOK'
    BY <1>1 DEF HistoryInv, HistoryTypeOK
  <2>5. InsertedInv'
    BY <2>2, <2>3, HistoryCounts DEF InsertedInv
  <2>6. FrozenInv'
    BY <1>1, <2>2, HistoryCounts DEF HistoryInv, FrozenInv, Ready
  <2>7. CoveredInv'
    <3>1. \A id \in DOMAIN syncReqs : SyncReqs'[id] = "State1" => SyncReqs[id] = "State1"
      BY <2>1, ShownType DEF SyncReqs3to2
    <3>. QED  BY <1>1, <2>3, <3>1 DEF HistoryInv, CoveredInv
  <2>. QED  BY <2>3, <2>4, <2>5, <2>6, <2>7 DEF HistoryInv
<1>. QED  BY <1>2, <1>3, WriteOutJournalRefines

\* Steps that count nothing move entries between journals, or commit them.
LEMMA OtherKeepsHistory ==
  ASSUME HistoryInv, IInv, ContentsInv, IInv', ContentsInv', HOther
  PROVE  HistoryInv' /\ Recoverable' >= Recoverable
<1>0. UNCHANGED historyVars
  BY DEF HOther
<1>1. CASE WriteOutJournal
  BY <1>0, <1>1, WriteOutJournalKeepsHistory, HistoryCounts
<1>2. CASE DiskInternal
  BY <1>0, <1>2, DiskInternalKeepsHistory
<1>3. CASE \/ \E which \in Slot : PageInSuperblockReq(which)
           \/ FinishLoadingSuperblockPhase
           \/ \E h \in Half, id \in ReqId : PageInJournalReq(h, id)
           \/ \E which \in Slot : ReadSuperblockResp(which)
           \/ \E id \in ReqId : PageInJournalResp(id)
  <2>1. /\ UNCHANGED <<diskSuperblock, diskJournal, syncReqs, isFrozen, frozenLoc>>
        /\ Ready' => Ready /\ UNCHANGED <<status, superblock, whichSuperblock>>
    BY <1>3 DEF PageInSuperblockReq, RecvReadSuperblock, FinishLoadingSuperblockPhase,
       PageInJournalReq, RecvReadJournal, ReadSuperblockResp, AckReadSuperblock,
       PageInJournalResp, AckReadJournal, Ready
  <2>2. UNCHANGED JV!vars
    <3>1. CASE status = "Ready"
      BY <1>3, <3>1, SameShown DEF PageInSuperblockReq, FinishLoadingSuperblockPhase,
         PageInJournalReq, ReadSuperblockResp, AckReadSuperblock, PageInJournalResp, JV!vars
    <3>2. CASE status # "Ready"
      BY <2>1, <3>2, LoadingStutters DEF Ready
    <3>. QED  BY <3>1, <3>2
  <2>3. HistoryInv' /\ Recoverable' = Recoverable
    BY <1>0, <2>1, <2>2, SameHistory DEF JV!vars
  <2>. QED  BY <2>3, HistoryCounts
<1>4. CASE FinishLoadingOtherPhase
  <2>1. ~isFrozen' /\ frozenLoc' = None
    BY <1>4 DEF FinishLoadingOtherPhase, IInv, LoadingInv
  <2>2. HistoryInv' /\ Recoverable' = Recoverable
    BY <1>0, <1>4, <2>1, FinishLoadingOtherStutters, SameHistory DEF JV!vars
  <2>. QED  BY <2>2, HistoryCounts
<1>5. CASE JournalReplayOne
  <2>1. UNCHANGED <<status, isFrozen, frozenLoc>>
    BY <1>5 DEF JournalReplayOne
  <2>2. HistoryInv' /\ Recoverable' = Recoverable
    BY <1>0, <1>5, <2>1, JournalReplayOneRefines, SameHistory DEF JV!Replay, Ready
  <2>. QED  BY <2>2, HistoryCounts
<1>6. CASE WriteOutSuperblockAdvanceLog \/ WriteOutSuperblockAdvanceLocation
  <2>1. UNCHANGED <<status, isFrozen, frozenLoc>>
    BY <1>6 DEF WriteOutSuperblockAdvanceLog, WriteOutSuperblockAdvanceLocation, SendSuperblock
  <2>2. HistoryInv' /\ Recoverable' = Recoverable
    BY <1>0, <1>6, <2>1, WriteOutSuperblockStutters, SameHistory DEF JV!vars, Ready
  <2>. QED  BY <2>2, HistoryCounts
<1>7. CASE \E id \in ReqId : WriteBackJournalResp(id)
  <2>1. UNCHANGED <<status, isFrozen, frozenLoc>>
    BY <1>7 DEF WriteBackJournalResp
  <2>2. UNCHANGED JV!vars
    BY <1>7, SameShown DEF WriteBackJournalResp, AckWriteJournal, JV!vars
  <2>3. HistoryInv' /\ Recoverable' = Recoverable
    BY <1>0, <2>1, <2>2, SameHistory DEF JV!vars, Ready
  <2>. QED  BY <2>3, HistoryCounts
<1>8. CASE WriteBackSuperblockResp
  <2>1. /\ UNCHANGED status
        /\ (isFrozen' => isFrozen) /\ (frozenLoc' # None => frozenLoc' = frozenLoc)
    BY <1>8 DEF WriteBackSuperblockResp
  <2>2. UNCHANGED <<PersistentJournal, FrozenJournal, GammaJournal, DeltaJournal,
                    PersistentSuperblock.indirectionTableLoc, SyncReqs>>
    BY <1>8, WriteBackSuperblockRespRefines DEF JV!CleanUp, JV!vars
  <2>3. HistoryInv' /\ Recoverable' = Recoverable
    BY <1>0, <2>1, <2>2, SameHistory DEF Ready
  <2>. QED  BY <2>3, HistoryCounts
<1>. QED  BY <1>1, <1>2, <1>3, <1>4, <1>5, <1>6, <1>7, <1>8 DEF HOther, Initialization

\* Every step keeps HistoryInv, and makes no fewer insertions recoverable.
LEMMA HNextKeepsHistory ==
  IInv /\ ContentsInv /\ IInv' /\ ContentsInv' /\ HistoryInv /\ [HNext]_<<vars, historyVars>>
    => HistoryInv' /\ Recoverable' >= Recoverable
<1>. SUFFICES ASSUME IInv, ContentsInv, IInv', ContentsInv', HistoryInv,
                     [HNext]_<<vars, historyVars>>
              PROVE  HistoryInv' /\ Recoverable' >= Recoverable
  OBVIOUS
<1>1. CASE \/ HAppend \/ HFreeze \/ HStoreTable \/ HPushSync \/ HPopSync \/ HCrash
  <2>1. HistoryInv' /\ Recoverable' = Recoverable
    BY <1>1, AppendKeepsHistory, FreezeKeepsHistory, StoreTableKeepsHistory,
       PushSyncKeepsHistory, PopSyncKeepsHistory, CrashKeepsHistory
  <2>. QED  BY <2>1, HistoryCounts
<1>2. CASE HOther
  BY <1>2, OtherKeepsHistory
<1>3. CASE UNCHANGED <<vars, historyVars>>
  <2>1. UNCHANGED JV!vars /\ UNCHANGED <<status, isFrozen, frozenLoc>>
    BY <1>3, SameShown DEF vars, committerVars, JV!vars
  <2>2. HistoryInv' /\ Recoverable' = Recoverable
    BY <1>3, <2>1, SameHistory DEF JV!vars, Ready
  <2>. QED  BY <2>2, HistoryCounts
<1>. QED  BY <1>1, <1>2, <1>3 DEF HNext

-----------------------------------------------------------------------------
\* What a client relies on

\* Each insertion is counted once, in the table recovery would load or in the
\* journals after it, and each request knows where what it covers is.
THEOREM HistoryInvariance == HSpec => []DurabilityInv
<1>1. HInit => HistoryInv
  BY InitHistory
<1>2. HSpec => [](IInv /\ ContentsInv)
  BY HSpecIsSpec, Invariance, ContentsInvariance, PTL
<1>. QED  BY <1>1, <1>2, HNextKeepsHistory, PTL DEF HSpec, DurabilityInv

\* When popSync (CommitterImpl) answers, every insertion made before the
\* matching pushSync survives a crash.
THEOREM SyncsAreDurable == HSpec => []SyncDurable
<1>1. IInv /\ ContentsInv /\ HistoryInv => SyncDurable
  <2>. SUFFICES ASSUME IInv, ContentsInv, HistoryInv,
                       NEW id \in DOMAIN syncReqs, syncReqs[id] = "State1"
                PROVE  coveredBy[id] <= Recoverable
    BY DEF SyncDurable
  <2>1. SyncReqs[id] = "State1"
    BY PoppedLater DEF SyncReqs
  <2>. QED  BY <2>1 DEF HistoryInv, CoveredInv
<1>. QED  BY <1>1, HistoryInvariance, PTL DEF DurabilityInv

\* A crash recovers no insertion twice and none that was never made.
THEOREM NothingInvented == HSpec => []RecoversOnlyInserted
<1>1. IInv /\ ContentsInv /\ HistoryInv => RecoversOnlyInserted
  BY HistoryCounts DEF RecoversOnlyInserted
<1>. QED  BY <1>1, HistoryInvariance, PTL DEF DurabilityInv

\* What a crash would recover never shrinks, whatever the step, a crash
\* included.
THEOREM NothingCommittedLost == HSpec => CommittedNeverLost
  BY HistoryInvariance, HNextKeepsHistory, PTL DEF HSpec, CommittedNeverLost, DurabilityInv
=============================================================================
