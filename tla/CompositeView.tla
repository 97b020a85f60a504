--------------------------- MODULE CompositeView ---------------------------
(***************************************************************************)
(* Versions/CompositeView: the two halves of the store side by side, the   *)
(* maps the block cache keeps (StatesView) and the journals the committer  *)
(* keeps (JournalView), taking steps together where a handler of           *)
(* CoordinationImpl calls both.  An entry of the journal is an insertion,  *)
(* so a map and the journal after it are a newer map; with these three     *)
(* maps the two halves implement ThreeStateVersioned.                      *)
(***************************************************************************)
EXTENDS Naturals, Sequences, SyncStatus

CONSTANTS
  Key, Value, EmptyValue,
  Loc,          \* locations of an indirection table, that is of a whole map
  SyncId, None,
  MaxJournal    \* bound of an instance: entries not yet in the persistent map

MapState == [Key -> Value]

Entry == [key : Key, value : Value]

ASSUME CompositeAssumption ==
  /\ EmptyValue \in Value
  /\ None \notin Loc /\ None \notin MapState

VARIABLES
  disk, persistentLoc, frozenLoc, frozenState, ephemeralState,
  j1, j2, j3, gamma, delta, journalPersistentLoc, journalFrozenLoc, syncReqs

tsm == <<disk, persistentLoc, frozenLoc, frozenState, ephemeralState>>

jc == <<j1, j2, j3, gamma, delta, journalPersistentLoc, journalFrozenLoc, syncReqs>>

vars == <<tsm, jc>>

EmptyMap == [k \in Key |-> EmptyValue]

IsEmptyMap(m) == m = EmptyMap

\* A journal entry is an insertion.
Apply(m, je) == [m EXCEPT ![je.key] = je.value]

ApplySeq(m, jes) ==
  LET applied[n \in 0 .. Len(jes)] ==
        IF n = 0 THEN m ELSE Apply(applied[n - 1], jes[n])
  IN  applied[Len(jes)]

MapNext(m, n) == \E je \in Entry : n = Apply(m, je)

StatesViewMap == INSTANCE StatesView WITH SMInit <- IsEmptyMap, SMNext <- MapNext

JournalView == INSTANCE JournalView WITH
  persistentLoc <- journalPersistentLoc, frozenLoc <- journalFrozenLoc

\* Both start from the same location.
Init ==
  /\ disk \in [Loc -> MapState \cup {None}]
  /\ StatesViewMap!Init
  /\ JournalView!Init
  /\ IsEmptyMap(disk[journalPersistentLoc])

-----------------------------------------------------------------------------
\* One action for each label of Versions/VOp

SendPersistentLocOp ==
  /\ StatesViewMap!ObtainPersistentLoc
  /\ persistentLoc' = journalPersistentLoc
  /\ UNCHANGED jc

\* A client's insertion: into the tree and into the journal.
AdvanceOp(je) ==
  /\ Len(gamma \o delta) < MaxJournal
  /\ JournalView!Move3(je)
  /\ ephemeralState # None /\ ephemeralState' = Apply(ephemeralState, je)
  /\ StatesViewMap!Advance

\* An insertion that an earlier run of the program wrote to the journal.
ReplayOp ==
  /\ JournalView!Replay
  /\ ephemeralState # None /\ ephemeralState' = Apply(ephemeralState, Head(j3))
  /\ StatesViewMap!Advance

CrashOp ==
  /\ disk' \in [Loc -> MapState \cup {None}]
  /\ StatesViewMap!Crash
  /\ JournalView!Crash

FreezeOp == StatesViewMap!Freeze /\ JournalView!Move2to3

\* The block cache writes nodes and tables.
StatesInternalOp ==
  /\ disk' \in [Loc -> MapState \cup {None}]
  /\ StatesViewMap!DiskChange
  /\ UNCHANGED jc

\* The journal is written, or a superblock takes effect.
JournalInternalOp ==
  /\ JournalView!Move1to2 \/ JournalView!ExtendLog1 \/ JournalView!ExtendLog2
  /\ UNCHANGED tsm

SendFrozenLocOp ==
  /\ StatesViewMap!ProvideFrozenLoc
  /\ JournalView!ObtainFrozenLoc(frozenLoc')

CleanUpOp == StatesViewMap!ForgetOld /\ JournalView!CleanUp

PushSyncOp(id) == JournalView!PushSync(id) /\ UNCHANGED tsm

PopSyncOp(id) == JournalView!PopSync(id) /\ UNCHANGED tsm

Next ==
  \/ SendPersistentLocOp
  \/ \E je \in Entry : AdvanceOp(je)
  \/ ReplayOp \/ CrashOp \/ FreezeOp \/ StatesInternalOp \/ JournalInternalOp
  \/ SendFrozenLocOp \/ CleanUpOp
  \/ \E id \in SyncId : PushSyncOp(id) \/ PopSyncOp(id)

Spec == Init /\ [][Next]_vars

-----------------------------------------------------------------------------
\* The three maps. The committer knows which one is persistent: a superblock may
\* have taken effect before the block cache hears of it.
PersistentMap == disk[journalPersistentLoc]

FrozenMap == IF frozenState # None THEN frozenState ELSE PersistentMap

EphemeralMap == IF ephemeralState # None THEN ephemeralState ELSE PersistentMap

\* Where the two halves agree about locations.
LocationsAgree ==
  /\ journalFrozenLoc # None => frozenLoc = journalFrozenLoc
  /\ persistentLoc # None => journalPersistentLoc \in {persistentLoc, journalFrozenLoc}
  /\ frozenLoc # None => frozenState # None /\ disk[frozenLoc] = frozenState
  /\ frozenState # None => ephemeralState # None
  /\ ephemeralState # None => persistentLoc # None
  /\ PersistentMap # None

\* How the three maps and the five journals are related: gamma leads from the
\* persistent map to where j2 leads from the frozen one, and j2 and delta from
\* there to where j3 leads from the ephemeral one.
PathsMeet ==
  /\ ApplySeq(PersistentMap, gamma) = ApplySeq(FrozenMap, j2)
  /\ ApplySeq(FrozenMap, j2 \o delta) = ApplySeq(EphemeralMap, j3)

TypeOK ==
  /\ disk \in [Loc -> MapState \cup {None}]
  /\ {persistentLoc, frozenLoc, journalFrozenLoc} \subseteq Loc \cup {None}
  /\ journalPersistentLoc \in Loc
  /\ {frozenState, ephemeralState} \subseteq MapState \cup {None}
  /\ {j1, j2, j3, gamma, delta} \subseteq Seq(Entry)

\* The inductive invariant.
Inv == TypeOK /\ LocationsAgree /\ PathsMeet

ThreeStates == INSTANCE ThreeStateVersioned WITH
  s1 <- ApplySeq(PersistentMap, j1),
  s2 <- ApplySeq(FrozenMap, j2),
  s3 <- ApplySeq(EphemeralMap, j3),
  outstandingSyncReqs <- syncReqs

(***************************************************************************)
(* Crash safety of the whole store: what a client sees is the ephemeral    *)
(* map with what is left to replay; only insertions change it, replaying,  *)
(* freezing, committing and cleaning up do not; after a crash it is the    *)
(* persistent one, which a completed sync has brought up to date.          *)
(***************************************************************************)
CrashSafe == ThreeStates!Spec
=============================================================================
