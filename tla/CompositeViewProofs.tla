------------------------ MODULE CompositeViewProofs ------------------------
(***************************************************************************)
(* The two halves of the store together are crash safe: CompositeView      *)
(* implements ThreeStateVersioned, for every set of keys, values and       *)
(* locations and journals of any length.                                   *)
(***************************************************************************)
EXTENDS CompositeView, IterationProofs

USE CompositeAssumption

-----------------------------------------------------------------------------
\* What a journal makes of a map

\* An insertion gives a map.
LEMMA ApplyType ==
  ASSUME NEW m \in MapState, NEW je \in Entry
  PROVE  Apply(m, je) \in MapState
  BY DEF Apply, MapState, Entry

\* The maps on the way.
Applies(g, m, jes) ==
  /\ g \in [0 .. Len(jes) -> MapState]
  /\ g[0] = m
  /\ \A i \in 1 .. Len(jes) : g[i] = Apply(g[i - 1], jes[i])

\* ApplySeq is the last of them.
LEMMA ApplySeqApplies ==
  ASSUME NEW m \in MapState, NEW jes \in Seq(Entry)
  PROVE  \E g : Applies(g, m, jes) /\ ApplySeq(m, jes) = g[Len(jes)]
<1>. DEFINE n == Len(jes)
            step == [x \in MapState \X (1 .. n) |-> Apply(x[1], jes[x[2]])]
<1>1. n \in Nat /\ \A i \in 1 .. n : jes[i] \in Entry
  OBVIOUS
<1>2. step \in [MapState \X (1 .. n) -> MapState]
  <2>. HIDE DEF n
  <2>. QED  BY <1>1, ApplyType
<1>. HIDE DEF step, n
<1>3. PICK g \in [0 .. n -> MapState] : Iterates(g, m, step, n)
  BY <1>1, <1>2, IterationExists, Zenon
<1>. DEFINE W(f) == f = [k \in 0 .. n |-> IF k = 0 THEN m ELSE Apply(f[k - 1], jes[k])]
            h    == CHOOSE f : W(f)
<1>4. \A i \in 1 .. n : g[i] = Apply(g[i - 1], jes[i])
  <2>1. ASSUME NEW i \in 1 .. n
        PROVE  g[i - 1] \in MapState
    BY <1>1
  <2>. QED  BY <1>3, <2>1 DEF Iterates, step
<1>5. W(g)
  <2>1. ASSUME NEW i \in 0 .. n
        PROVE  g[i] = IF i = 0 THEN m ELSE Apply(g[i - 1], jes[i])
    BY <1>1, <1>3, <1>4 DEF Iterates
  <2>. QED  BY <1>3, <2>1, Zenon
<1>6. W(h) /\ ApplySeq(m, jes) = h[n]
  <2>1. W(h)
    BY <1>5, Zenon
  <2>. QED  BY <2>1 DEF ApplySeq, n
<1>. HIDE DEF h
<1>7. \A i \in 0 .. n : h[i] = IF i = 0 THEN m ELSE Apply(h[i - 1], jes[i])
  BY <1>6, Zenon
<1>. HIDE DEF W
<1>8. \A i \in 0 .. n : h[i] = g[i]
  <2>. DEFINE T == {k \in 0 .. n : h[k] = g[k]}
  <2>1. 0 \in T
    BY <1>1, <1>3, <1>7 DEF Iterates
  <2>2. ASSUME NEW k \in 0 .. (n - 1), k \in T
        PROVE  k + 1 \in T
    <3>1. k + 1 \in 1 .. n /\ k + 1 \in 0 .. n /\ (k + 1) - 1 = k /\ k + 1 # 0
      BY <1>1
    <3>. QED  BY <1>4, <1>7, <2>2, <3>1
  <2>. HIDE DEF T
  <2>3. \A k \in 0 .. n : k \in T
    BY <1>1, <2>1, <2>2, Induction
  <2>. QED  BY <2>3 DEF T
<1>9. Applies(g, m, jes)
  BY <1>3, <1>4 DEF Applies, Iterates, n
<1>. QED  BY <1>1, <1>6, <1>8, <1>9 DEF n

\* Any such maps are the same.
LEMMA ApplySeqIs ==
  ASSUME NEW m \in MapState, NEW jes \in Seq(Entry), NEW h, Applies(h, m, jes)
  PROVE  ApplySeq(m, jes) = h[Len(jes)]
<1>. DEFINE n == Len(jes)
<1>1. PICK g : Applies(g, m, jes) /\ ApplySeq(m, jes) = g[n]
  BY ApplySeqApplies
<1>2. n \in Nat
  OBVIOUS
<1>. DEFINE T == {k \in 0 .. n : h[k] = g[k]}
<1>3. 0 \in T
  BY <1>1, <1>2 DEF Applies
<1>4. ASSUME NEW k \in 0 .. (n - 1), k \in T
      PROVE  k + 1 \in T
  <2>1. k + 1 \in 1 .. n /\ k + 1 \in 0 .. n /\ (k + 1) - 1 = k
    BY <1>2
  <2>. QED  BY <1>1, <1>4, <2>1 DEF Applies
<1>. HIDE DEF T, n
<1>5. \A k \in 0 .. n : k \in T
  BY <1>2, <1>3, <1>4, Induction
<1>. QED  BY <1>1, <1>2, <1>5 DEF T, n

\* A journal makes a map of a map.
LEMMA ApplySeqType ==
  ASSUME NEW m \in MapState, NEW jes \in Seq(Entry)
  PROVE  ApplySeq(m, jes) \in MapState
<1>1. PICK g : Applies(g, m, jes) /\ ApplySeq(m, jes) = g[Len(jes)]
  BY ApplySeqApplies
<1>. QED  BY <1>1 DEF Applies

\* Nothing to apply changes nothing.
LEMMA ApplyNone ==
  ASSUME NEW m \in MapState
  PROVE  ApplySeq(m, <<>>) = m
<1>. DEFINE none == <<>>
<1>1. none \in Seq(Entry) /\ Len(none) = 0
  OBVIOUS
<1>. HIDE DEF none
<1>2. PICK g : Applies(g, m, none) /\ ApplySeq(m, none) = g[Len(none)]
  BY <1>1, ApplySeqApplies
<1>. QED  BY <1>1, <1>2 DEF Applies, none

\* Two journals, one after the other (ApplySeqAdditive).
LEMMA ApplySeqAdditive ==
  ASSUME NEW m \in MapState, NEW a \in Seq(Entry), NEW b \in Seq(Entry)
  PROVE  ApplySeq(m, a \o b) = ApplySeq(ApplySeq(m, a), b)
<1>. DEFINE middle == ApplySeq(m, a)
<1>1. PICK g : Applies(g, m, a) /\ middle = g[Len(a)]
  BY ApplySeqApplies
<1>2. middle \in MapState
  BY ApplySeqType
<1>. HIDE DEF middle
<1>3. PICK h : Applies(h, middle, b) /\ ApplySeq(middle, b) = h[Len(b)]
  BY <1>2, ApplySeqApplies
<1>. DEFINE c == a \o b
            both == [i \in 0 .. Len(c) |-> IF i <= Len(a) THEN g[i] ELSE h[i - Len(a)]]
<1>4. c \in Seq(Entry) /\ Len(c) = Len(a) + Len(b) /\ Len(a) \in Nat /\ Len(b) \in Nat
  OBVIOUS
<1>5. \A i \in 1 .. Len(c) : c[i] = IF i <= Len(a) THEN a[i] ELSE b[i - Len(a)]
  OBVIOUS
<1>6. h[0] = g[Len(a)]
  BY <1>1, <1>3 DEF Applies
<1>. HIDE DEF c
<1>7. \A i \in 0 .. Len(c) :
        both[i] = IF i <= Len(a) THEN g[i] ELSE h[i - Len(a)]
  OBVIOUS
<1>8. Applies(both, m, c)
  <2>1. both \in [0 .. Len(c) -> MapState]
    BY <1>1, <1>3, <1>4 DEF Applies
  <2>2. both[0] = m
    BY <1>1, <1>4, <1>7 DEF Applies
  <2>3. ASSUME NEW i \in 1 .. Len(c)
        PROVE  both[i] = Apply(both[i - 1], c[i])
    <3>1. i - 1 \in 0 .. Len(c) /\ i \in 0 .. Len(c)
      BY <1>4
    <3>. HIDE DEF both
    <3>2. CASE i <= Len(a)
      <4>1. both[i] = g[i] /\ both[i - 1] = g[i - 1] /\ c[i] = a[i] /\ i \in 1 .. Len(a)
        BY <1>4, <1>5, <1>7, <3>1, <3>2
      <4>. QED  BY <1>1, <4>1 DEF Applies
    <3>3. CASE i = Len(a) + 1
      <4>1. both[i] = h[1] /\ both[i - 1] = g[Len(a)] /\ c[i] = b[1] /\ 1 \in 1 .. Len(b)
        BY <1>4, <1>5, <1>7, <3>1, <3>3
      <4>2. h[1] = Apply(h[1 - 1], b[1])
        BY <1>3, <4>1 DEF Applies
      <4>. QED  BY <1>6, <4>1, <4>2
    <3>4. CASE i > Len(a) + 1
      <4>. DEFINE j == i - Len(a)
      <4>1. /\ both[i] = h[j] /\ both[i - 1] = h[j - 1] /\ c[i] = b[j] /\ j \in 1 .. Len(b)
        BY <1>4, <1>5, <1>7, <3>1, <3>4
      <4>. QED  BY <1>3, <4>1 DEF Applies
    <3>. QED  BY <1>4, <3>1, <3>2, <3>3, <3>4
  <2>. HIDE DEF both
  <2>. QED  BY <2>1, <2>2, <2>3 DEF Applies
<1>9. both[Len(c)] = h[Len(b)]
  <2>1. CASE Len(b) = 0
    BY <1>4, <1>6, <1>7, <2>1
  <2>2. CASE Len(b) # 0
    BY <1>4, <1>7, <2>2
  <2>. QED  BY <2>1, <2>2
<1>. HIDE DEF both
<1>10. ApplySeq(m, c) = both[Len(c)]
  BY <1>4, <1>8, ApplySeqIs
<1>. QED  BY <1>3, <1>9, <1>10 DEF c, middle

\* A journal of one entry.
LEMMA ApplyOne ==
  ASSUME NEW m \in MapState, NEW je \in Entry
  PROVE  ApplySeq(m, <<je>>) = Apply(m, je)
<1>. DEFINE s == <<je>>
<1>1. s \in Seq(Entry) /\ Len(s) = 1 /\ s[1] = je
  OBVIOUS
<1>. HIDE DEF s
<1>2. PICK g : Applies(g, m, s) /\ ApplySeq(m, s) = g[Len(s)]
  BY <1>1, ApplySeqApplies
<1>3. 1 \in 1 .. Len(s) /\ 1 - 1 = 0
  BY <1>1
<1>4. g[1] = Apply(g[1 - 1], s[1])
  BY <1>2, <1>3 DEF Applies
<1>. QED  BY <1>1, <1>2, <1>3, <1>4 DEF Applies, s

\* A newer entry is applied last.
LEMMA ApplyAppend ==
  ASSUME NEW m \in MapState, NEW s \in Seq(Entry), NEW je \in Entry
  PROVE  ApplySeq(m, Append(s, je)) = Apply(ApplySeq(m, s), je)
<1>1. Append(s, je) = s \o <<je>> /\ <<je>> \in Seq(Entry)
  OBVIOUS
<1>2. ApplySeq(m, s \o <<je>>) = ApplySeq(ApplySeq(m, s), <<je>>)
  BY <1>1, ApplySeqAdditive
<1>3. ApplySeq(ApplySeq(m, s), <<je>>) = Apply(ApplySeq(m, s), je)
  BY ApplySeqType, ApplyOne
<1>. QED  BY <1>1, <1>2, <1>3, Zenon

\* Replaying the first entry leads to the same map.
LEMMA ApplyHead ==
  ASSUME NEW m \in MapState, NEW s \in Seq(Entry), s # <<>>
  PROVE  /\ Head(s) \in Entry /\ Tail(s) \in Seq(Entry)
         /\ ApplySeq(m, s) = ApplySeq(Apply(m, Head(s)), Tail(s))
<1>1. Head(s) \in Entry /\ Tail(s) \in Seq(Entry) /\ <<Head(s)>> \in Seq(Entry)
  OBVIOUS
<1>2. s = <<Head(s)>> \o Tail(s)
  OBVIOUS
<1>3. ApplySeq(m, <<Head(s)>> \o Tail(s)) = ApplySeq(ApplySeq(m, <<Head(s)>>), Tail(s))
  BY <1>1, ApplySeqAdditive
<1>4. ApplySeq(m, <<Head(s)>>) = Apply(m, Head(s))
  BY <1>1, ApplyOne
<1>. QED  BY <1>1, <1>2, <1>3, <1>4, Zenon

-----------------------------------------------------------------------------
\* The invariant

\* There is a map in each of the three places.
LEMMA MapsType ==
  ASSUME TypeOK, LocationsAgree
  PROVE  PersistentMap \in MapState /\ FrozenMap \in MapState /\ EphemeralMap \in MapState
  BY DEF TypeOK, LocationsAgree, PersistentMap, FrozenMap, EphemeralMap

\* The store starts with three times the empty map.
LEMMA InitInv == Init => Inv /\ ThreeStates!Init
<1>. SUFFICES ASSUME Init
              PROVE  Inv /\ ThreeStates!Init
  OBVIOUS
<1>1. /\ j1 = <<>> /\ j2 = <<>> /\ j3 = <<>> /\ gamma = <<>> /\ delta = <<>>
      /\ journalPersistentLoc \in Loc /\ journalFrozenLoc = None /\ syncReqs = <<>>
  BY DEF Init, JournalView!Init
<1>2. /\ persistentLoc = None /\ frozenLoc = None
      /\ frozenState = None /\ ephemeralState = None
  BY DEF Init, StatesViewMap!Init
<1>3. disk \in [Loc -> MapState \cup {None}] /\ disk[journalPersistentLoc] = EmptyMap
  BY DEF Init, IsEmptyMap
<1>4. EmptyMap \in MapState
  BY DEF EmptyMap, MapState
<1>5. PersistentMap = EmptyMap /\ FrozenMap = EmptyMap /\ EphemeralMap = EmptyMap
  BY <1>2, <1>3 DEF PersistentMap, FrozenMap, EphemeralMap
<1>6. TypeOK
  BY <1>1, <1>2, <1>3 DEF TypeOK
<1>7. LocationsAgree
  BY <1>1, <1>2, <1>4, <1>5 DEF LocationsAgree
<1>8. ApplySeq(EmptyMap, <<>>) = EmptyMap /\ <<>> \o <<>> = <<>>
  BY <1>4, ApplyNone
<1>9. PathsMeet
  BY <1>1, <1>5, <1>8 DEF PathsMeet
<1>10. ThreeStates!Init
  BY <1>1, <1>5, <1>8 DEF ThreeStates!Init, ThreeStates!SM!Init, EmptyMap
<1>. QED  BY <1>6, <1>7, <1>9, <1>10 DEF Inv

-----------------------------------------------------------------------------
\* The steps

\* Whatever the disk does, it spares the persistent map and the written frozen one.
LEMMA KnownMapsSpared ==
  ASSUME Inv
  PROVE  /\ journalPersistentLoc \in StatesViewMap!KnownLocs
         /\ frozenLoc # None => frozenLoc \in StatesViewMap!KnownLocs
<1>1. journalPersistentLoc # None /\ journalPersistentLoc \in Loc
  BY DEF Inv, TypeOK
<1>2. CASE persistentLoc = None
  BY <1>1, <1>2 DEF Inv, LocationsAgree, PersistentMap, StatesViewMap!KnownLocs
<1>3. CASE persistentLoc # None
  BY <1>1, <1>3 DEF Inv, LocationsAgree, StatesViewMap!KnownLocs
<1>. QED  BY <1>2, <1>3

\* Told where the table is, the block cache loads the map that already was the ephemeral one.
LEMMA SendPersistentLocStep ==
  ASSUME Inv, SendPersistentLocOp
  PROVE  Inv' /\ UNCHANGED ThreeStates!vars
<1>1. /\ persistentLoc = None /\ persistentLoc' = journalPersistentLoc
      /\ ephemeralState' = disk[journalPersistentLoc]
      /\ UNCHANGED <<disk, frozenLoc, frozenState>> /\ UNCHANGED jc
  BY DEF SendPersistentLocOp, StatesViewMap!ObtainPersistentLoc
<1>2. ephemeralState = None /\ frozenState = None /\ frozenLoc = None /\ PersistentMap # None
  BY <1>1 DEF Inv, LocationsAgree
<1>3. UNCHANGED <<PersistentMap, FrozenMap, EphemeralMap>>
  BY <1>1, <1>2 DEF jc, PersistentMap, FrozenMap, EphemeralMap
<1>4. TypeOK'
  BY <1>1, <1>2 DEF Inv, TypeOK, jc
<1>5. LocationsAgree'
  BY <1>1, <1>2, <1>3 DEF Inv, TypeOK, LocationsAgree, jc
<1>6. PathsMeet' /\ UNCHANGED ThreeStates!vars
  BY <1>1, <1>3 DEF Inv, PathsMeet, jc, ThreeStates!vars
<1>. QED  BY <1>4, <1>5, <1>6 DEF Inv

\* An insertion is one for the client.
LEMMA AdvanceStep ==
  ASSUME Inv, NEW je \in Entry, AdvanceOp(je)
  PROVE  Inv' /\ ThreeStates!Move3
<1>1. /\ j3 = <<>> /\ delta' = Append(delta, je)
      /\ ephemeralState # None /\ ephemeralState' = Apply(ephemeralState, je)
      /\ UNCHANGED <<disk, persistentLoc, frozenLoc, frozenState>>
      /\ UNCHANGED <<j1, j2, j3, gamma, journalPersistentLoc, journalFrozenLoc, syncReqs>>
  BY DEF AdvanceOp, StatesViewMap!Advance, JournalView!Move3
<1>2. TypeOK
  BY DEF Inv
<1>3. ephemeralState \in MapState /\ ephemeralState' \in MapState
  BY <1>1, <1>2, ApplyType DEF TypeOK
<1>4. EphemeralMap = ephemeralState /\ EphemeralMap' = ephemeralState'
      /\ UNCHANGED <<PersistentMap, FrozenMap>>
  BY <1>1, <1>3 DEF PersistentMap, FrozenMap, EphemeralMap
<1>5. TypeOK'
  <2>1. delta' \in Seq(Entry)
    BY <1>1, <1>2 DEF TypeOK
  <2>. QED  BY <1>1, <1>2, <1>3, <2>1 DEF TypeOK
<1>6. LocationsAgree'
  BY <1>1, <1>3, <1>4 DEF Inv, LocationsAgree
<1>7. ApplySeq(EphemeralMap, j3) = ephemeralState /\ ApplySeq(EphemeralMap', j3') = ephemeralState'
  BY <1>1, <1>3, <1>4, ApplyNone
<1>8. PathsMeet'
  <2>1. FrozenMap \in MapState /\ j2 \o delta \in Seq(Entry)
        /\ j2 \o Append(delta, je) = Append(j2 \o delta, je)
    BY <1>2, MapsType DEF Inv, TypeOK
  <2>2. ApplySeq(FrozenMap, j2' \o delta') = Apply(ApplySeq(FrozenMap, j2 \o delta), je)
    BY <1>1, <2>1, ApplyAppend
  <2>3. ApplySeq(FrozenMap, j2 \o delta) = ephemeralState
    BY <1>7 DEF Inv, PathsMeet
  <2>4. ApplySeq(FrozenMap', j2' \o delta') = ApplySeq(EphemeralMap', j3')
    BY <1>1, <1>4, <1>7, <2>2, <2>3
  <2>. QED  BY <1>1, <1>4, <2>4 DEF Inv, PathsMeet
<1>9. ThreeStates!Move3
  <2>1. je.key \in Key /\ je.value \in Value
    BY DEF Entry
  <2>2. ThreeStates!SM!Next
    BY <1>1, <1>7, <2>1 DEF ThreeStates!SM!Next, ThreeStates!SM!Write, Apply
  <2>. QED  BY <1>1, <1>4, <2>2 DEF ThreeStates!Move3
<1>. QED  BY <1>5, <1>6, <1>8, <1>9 DEF Inv

\* Replaying an insertion changes nothing for the client.
LEMMA ReplayStep ==
  ASSUME Inv, ReplayOp
  PROVE  Inv' /\ UNCHANGED ThreeStates!vars
<1>1. /\ j3 # <<>> /\ j3' = Tail(j3)
      /\ ephemeralState # None /\ ephemeralState' = Apply(ephemeralState, Head(j3))
      /\ UNCHANGED <<disk, persistentLoc, frozenLoc, frozenState>>
      /\ UNCHANGED <<j1, j2, gamma, delta, journalPersistentLoc, journalFrozenLoc, syncReqs>>
  BY DEF ReplayOp, StatesViewMap!Advance, JournalView!Replay
<1>2. TypeOK
  BY DEF Inv
<1>3. ephemeralState \in MapState /\ j3 \in Seq(Entry)
  BY <1>1, <1>2 DEF TypeOK
<1>4. /\ Head(j3) \in Entry /\ j3' \in Seq(Entry) /\ ephemeralState' \in MapState
      /\ ApplySeq(ephemeralState, j3) = ApplySeq(ephemeralState', j3')
  BY <1>1, <1>3, ApplyHead, ApplyType
<1>5. EphemeralMap = ephemeralState /\ EphemeralMap' = ephemeralState'
      /\ UNCHANGED <<PersistentMap, FrozenMap>>
  BY <1>1, <1>3, <1>4 DEF PersistentMap, FrozenMap, EphemeralMap
<1>6. TypeOK'
  BY <1>1, <1>2, <1>4 DEF TypeOK
<1>7. LocationsAgree'
  BY <1>1, <1>4, <1>5 DEF Inv, LocationsAgree
<1>8. PathsMeet' /\ UNCHANGED ThreeStates!vars
  BY <1>1, <1>4, <1>5 DEF Inv, PathsMeet, ThreeStates!vars
<1>. QED  BY <1>6, <1>7, <1>8 DEF Inv

\* A crash leaves the persistent map and its journal.
LEMMA CrashStep ==
  ASSUME Inv, CrashOp
  PROVE  Inv' /\ ThreeStates!Crash
<1>1. /\ j2' = j1 /\ j3' = j1 /\ gamma' = j1 /\ delta' = <<>>
      /\ journalFrozenLoc' = None /\ syncReqs' = <<>> /\ UNCHANGED <<j1, journalPersistentLoc>>
      /\ persistentLoc' = None /\ frozenLoc' = None
      /\ frozenState' = None /\ ephemeralState' = None
      /\ disk' \in [Loc -> MapState \cup {None}]
  BY DEF CrashOp, StatesViewMap!Crash, JournalView!Crash
<1>2. disk'[journalPersistentLoc] = disk[journalPersistentLoc]
  BY KnownMapsSpared DEF CrashOp, StatesViewMap!Crash,
     StatesViewMap!DiskChangesPreservesPersistentAndFrozen
<1>3. PersistentMap' = PersistentMap /\ FrozenMap' = PersistentMap /\ EphemeralMap' = PersistentMap
  BY <1>1, <1>2 DEF PersistentMap, FrozenMap, EphemeralMap
<1>4. TypeOK'
  BY <1>1 DEF Inv, TypeOK
<1>5. LocationsAgree'
  BY <1>1, <1>3 DEF Inv, LocationsAgree
<1>6. PathsMeet'
  <2>1. j2' \o delta' = j1
    BY <1>1 DEF Inv, TypeOK
  <2>. QED  BY <1>1, <1>3, <2>1 DEF PathsMeet
<1>7. ThreeStates!Crash
  BY <1>1, <1>3 DEF ThreeStates!Crash
<1>. QED  BY <1>4, <1>5, <1>6, <1>7 DEF Inv

\* A freeze makes the ephemeral map the frozen one.
LEMMA FreezeStep ==
  ASSUME Inv, FreezeOp
  PROVE  Inv' /\ ThreeStates!Move2to3
<1>1. /\ journalFrozenLoc # journalPersistentLoc
      /\ j2' = j3 /\ gamma' = gamma \o delta /\ delta' = <<>> /\ journalFrozenLoc' = None
      /\ syncReqs' = SyncReqs3to2(syncReqs) /\ UNCHANGED <<j1, j3, journalPersistentLoc>>
      /\ frozenLoc' = None /\ frozenState' = ephemeralState
      /\ UNCHANGED <<disk, persistentLoc, ephemeralState>>
  BY DEF FreezeOp, StatesViewMap!Freeze, JournalView!Move2to3, JournalView!SyncReqs3to2,
     SyncReqs3to2
<1>2. FrozenMap' = EphemeralMap /\ UNCHANGED <<PersistentMap, EphemeralMap>>
  BY <1>1 DEF PersistentMap, FrozenMap, EphemeralMap
<1>3. TypeOK
  BY DEF Inv
<1>4. TypeOK'
  <2>1. gamma' \in Seq(Entry) /\ delta' \in Seq(Entry)
    BY <1>1, <1>3 DEF TypeOK
  <2>. QED  BY <1>1, <1>3, <2>1 DEF TypeOK
<1>5. LocationsAgree'
  BY <1>1, <1>2 DEF Inv, LocationsAgree
<1>6. PathsMeet'
  <2>1. /\ PersistentMap \in MapState /\ FrozenMap \in MapState
        /\ gamma \in Seq(Entry) /\ delta \in Seq(Entry) /\ j2 \in Seq(Entry)
    BY <1>3, MapsType DEF Inv, TypeOK
  <2>2. ApplySeq(PersistentMap, gamma \o delta) = ApplySeq(ApplySeq(PersistentMap, gamma), delta)
    BY <2>1, ApplySeqAdditive
  <2>3. ApplySeq(FrozenMap, j2 \o delta) = ApplySeq(ApplySeq(FrozenMap, j2), delta)
    BY <2>1, ApplySeqAdditive
  <2>4. ApplySeq(PersistentMap, gamma \o delta) = ApplySeq(EphemeralMap, j3)
    BY <2>2, <2>3 DEF Inv, PathsMeet
  <2>5. j2' \o delta' = j3
    BY <1>1, <1>3 DEF TypeOK
  <2>. QED  BY <1>1, <1>2, <2>4, <2>5 DEF PathsMeet
<1>7. ThreeStates!Move2to3
  BY <1>1, <1>2 DEF ThreeStates!Move2to3, ThreeStates!SyncReqs3to2, SyncReqs3to2
<1>. QED  BY <1>4, <1>5, <1>6, <1>7 DEF Inv

\* What the block cache writes is not what anybody would see.
LEMMA StatesInternalStep ==
  ASSUME Inv, StatesInternalOp
  PROVE  Inv' /\ UNCHANGED ThreeStates!vars
<1>1. /\ disk' \in [Loc -> MapState \cup {None}] /\ UNCHANGED jc
      /\ UNCHANGED <<persistentLoc, frozenLoc, frozenState, ephemeralState>>
  BY DEF StatesInternalOp, StatesViewMap!DiskChange
<1>2. /\ disk'[journalPersistentLoc] = disk[journalPersistentLoc]
      /\ frozenLoc # None => disk'[frozenLoc] = disk[frozenLoc]
  BY KnownMapsSpared DEF StatesInternalOp, StatesViewMap!DiskChange,
     StatesViewMap!DiskChangesPreservesPersistentAndFrozen
<1>3. UNCHANGED <<PersistentMap, FrozenMap, EphemeralMap>>
  BY <1>1, <1>2 DEF jc, PersistentMap, FrozenMap, EphemeralMap
<1>4. TypeOK'
  BY <1>1 DEF Inv, TypeOK, jc
<1>5. LocationsAgree'
  BY <1>1, <1>2, <1>3 DEF Inv, LocationsAgree, jc
<1>6. PathsMeet' /\ UNCHANGED ThreeStates!vars
  BY <1>1, <1>3 DEF Inv, PathsMeet, jc, ThreeStates!vars
<1>. QED  BY <1>4, <1>5, <1>6 DEF Inv

\* The frozen table and the journal after it become persistent.
LEMMA Move1to2Step ==
  ASSUME Inv, JournalView!Move1to2, UNCHANGED tsm
  PROVE  Inv' /\ ThreeStates!Move1to2
<1>1. /\ journalFrozenLoc # None
      /\ j1' = j2 /\ gamma' = j2 /\ journalPersistentLoc' = journalFrozenLoc
      /\ syncReqs' = SyncReqs2to1(syncReqs) /\ UNCHANGED <<j2, j3, delta, journalFrozenLoc>>
      /\ UNCHANGED <<disk, persistentLoc, frozenLoc, frozenState, ephemeralState>>
  BY DEF JournalView!Move1to2, JournalView!SyncReqs2to1, SyncReqs2to1, tsm
<1>2. /\ frozenLoc = journalFrozenLoc /\ frozenState # None /\ ephemeralState # None
      /\ disk[frozenLoc] = frozenState
  BY <1>1 DEF Inv, LocationsAgree
<1>3. PersistentMap' = FrozenMap /\ UNCHANGED <<FrozenMap, EphemeralMap>>
  BY <1>1, <1>2 DEF PersistentMap, FrozenMap, EphemeralMap
<1>4. TypeOK'
  BY <1>1 DEF Inv, TypeOK
<1>5. LocationsAgree'
  BY <1>1, <1>2, <1>3 DEF Inv, LocationsAgree, FrozenMap
<1>6. PathsMeet'
  BY <1>1, <1>3 DEF Inv, PathsMeet
<1>7. ThreeStates!Move1to2
  BY <1>1, <1>3 DEF ThreeStates!Move1to2, ThreeStates!SyncReqs2to1, SyncReqs2to1
<1>. QED  BY <1>4, <1>5, <1>6, <1>7 DEF Inv

\* The journal up to the end of gamma becomes persistent, which leads to what is frozen.
LEMMA ExtendLog1Step ==
  ASSUME Inv, JournalView!ExtendLog1, UNCHANGED tsm
  PROVE  Inv' /\ ThreeStates!Move1to2
<1>1. /\ j1' = gamma /\ syncReqs' = SyncReqs2to1(syncReqs)
      /\ UNCHANGED <<j2, j3, gamma, delta, journalPersistentLoc, journalFrozenLoc>>
      /\ UNCHANGED <<disk, persistentLoc, frozenLoc, frozenState, ephemeralState>>
  BY DEF JournalView!ExtendLog1, JournalView!SyncReqs2to1, SyncReqs2to1, tsm
<1>2. UNCHANGED <<PersistentMap, FrozenMap, EphemeralMap>>
  BY <1>1 DEF PersistentMap, FrozenMap, EphemeralMap
<1>3. TypeOK'
  BY <1>1 DEF Inv, TypeOK
<1>4. LocationsAgree' /\ PathsMeet'
  BY <1>1, <1>2 DEF Inv, LocationsAgree, PathsMeet
<1>5. ThreeStates!Move1to2
  BY <1>1, <1>2 DEF Inv, PathsMeet, ThreeStates!Move1to2, ThreeStates!SyncReqs2to1, SyncReqs2to1
<1>. QED  BY <1>3, <1>4, <1>5 DEF Inv

\* The journal in memory joins what the next commit makes persistent.
LEMMA ExtendLog2Step ==
  ASSUME Inv, JournalView!ExtendLog2, UNCHANGED tsm
  PROVE  Inv' /\ ThreeStates!Move2to3
<1>1. /\ j2' = j2 \o delta /\ gamma' = gamma \o delta /\ delta' = <<>>
      /\ syncReqs' = SyncReqs3to2(syncReqs)
      /\ UNCHANGED <<j1, j3, journalPersistentLoc, journalFrozenLoc>>
      /\ UNCHANGED <<disk, persistentLoc, frozenLoc, frozenState, ephemeralState>>
  BY DEF JournalView!ExtendLog2, JournalView!SyncReqs3to2, SyncReqs3to2, tsm
<1>2. UNCHANGED <<PersistentMap, FrozenMap, EphemeralMap>>
  BY <1>1 DEF PersistentMap, FrozenMap, EphemeralMap
<1>3. TypeOK
  BY DEF Inv
<1>4. j2' \in Seq(Entry) /\ gamma' \in Seq(Entry) /\ delta' \in Seq(Entry) /\ j2' \o delta' = j2'
  BY <1>1, <1>3 DEF TypeOK
<1>5. TypeOK'
  BY <1>1, <1>3, <1>4 DEF TypeOK
<1>6. LocationsAgree'
  BY <1>1, <1>2 DEF Inv, LocationsAgree
<1>7. ApplySeq(FrozenMap', j2') = ApplySeq(EphemeralMap, j3)
  BY <1>1, <1>2 DEF Inv, PathsMeet
<1>8. PathsMeet'
  <2>1. /\ PersistentMap \in MapState /\ FrozenMap \in MapState
        /\ gamma \in Seq(Entry) /\ delta \in Seq(Entry) /\ j2 \in Seq(Entry)
    BY <1>3, MapsType DEF Inv, TypeOK
  <2>2. ApplySeq(PersistentMap, gamma \o delta) = ApplySeq(ApplySeq(PersistentMap, gamma), delta)
    BY <2>1, ApplySeqAdditive
  <2>3. ApplySeq(FrozenMap, j2 \o delta) = ApplySeq(ApplySeq(FrozenMap, j2), delta)
    BY <2>1, ApplySeqAdditive
  <2>4. ApplySeq(PersistentMap', gamma') = ApplySeq(FrozenMap', j2')
    BY <1>1, <1>2, <2>2, <2>3 DEF Inv, PathsMeet
  <2>. QED  BY <1>1, <1>2, <1>4, <1>7, <2>4 DEF PathsMeet
<1>9. ThreeStates!Move2to3
  BY <1>1, <1>2, <1>7 DEF ThreeStates!Move2to3, ThreeStates!SyncReqs3to2, SyncReqs3to2
<1>. QED  BY <1>5, <1>6, <1>8, <1>9 DEF Inv

\* The committer hears where the frozen table is.
LEMMA SendFrozenLocStep ==
  ASSUME Inv, SendFrozenLocOp
  PROVE  Inv' /\ UNCHANGED ThreeStates!vars
<1>1. /\ frozenLoc = None /\ frozenState # None
      /\ frozenLoc' \in Loc /\ disk[frozenLoc'] = frozenState /\ journalFrozenLoc' = frozenLoc'
      /\ UNCHANGED <<disk, persistentLoc, frozenState, ephemeralState>>
      /\ UNCHANGED <<j1, j2, j3, gamma, delta, journalPersistentLoc, syncReqs>>
  BY DEF SendFrozenLocOp, StatesViewMap!ProvideFrozenLoc, JournalView!ObtainFrozenLoc
<1>2. UNCHANGED <<PersistentMap, FrozenMap, EphemeralMap>>
  BY <1>1 DEF PersistentMap, FrozenMap, EphemeralMap
<1>3. TypeOK'
  BY <1>1 DEF Inv, TypeOK
<1>4. journalFrozenLoc = None /\ journalPersistentLoc # None
  BY <1>1 DEF Inv, LocationsAgree, TypeOK
<1>5. LocationsAgree'
  BY <1>1, <1>2, <1>4 DEF Inv, LocationsAgree
<1>6. PathsMeet' /\ UNCHANGED ThreeStates!vars
  BY <1>1, <1>2 DEF Inv, PathsMeet, ThreeStates!vars
<1>. QED  BY <1>3, <1>5, <1>6 DEF Inv

\* The block cache hears that its frozen table is the persistent one.
LEMMA CleanUpStep ==
  ASSUME Inv, CleanUpOp
  PROVE  Inv' /\ UNCHANGED ThreeStates!vars
<1>1. /\ journalFrozenLoc = journalPersistentLoc /\ journalFrozenLoc' = None
      /\ UNCHANGED <<j1, j2, j3, gamma, delta, journalPersistentLoc, syncReqs>>
      /\ persistentLoc' = frozenLoc /\ frozenLoc' = None /\ frozenState' = None
      /\ UNCHANGED <<disk, ephemeralState>>
  BY DEF CleanUpOp, StatesViewMap!ForgetOld, JournalView!CleanUp
<1>2. journalFrozenLoc # None
  BY <1>1 DEF Inv, TypeOK
<1>3. /\ frozenLoc = journalPersistentLoc /\ frozenState # None /\ ephemeralState # None
      /\ disk[frozenLoc] = frozenState
  BY <1>1, <1>2 DEF Inv, LocationsAgree
<1>4. UNCHANGED <<PersistentMap, FrozenMap, EphemeralMap>>
  BY <1>1, <1>3 DEF PersistentMap, FrozenMap, EphemeralMap
<1>5. TypeOK'
  BY <1>1 DEF Inv, TypeOK
<1>6. LocationsAgree'
  BY <1>1, <1>2, <1>3, <1>4 DEF Inv, LocationsAgree
<1>7. PathsMeet' /\ UNCHANGED ThreeStates!vars
  BY <1>1, <1>4 DEF Inv, PathsMeet, ThreeStates!vars
<1>. QED  BY <1>5, <1>6, <1>7 DEF Inv

\* Only sync requests change.
LEMMA SyncReqsStep ==
  ASSUME Inv, UNCHANGED tsm,
         UNCHANGED <<j1, j2, j3, gamma, delta, journalPersistentLoc, journalFrozenLoc>>
  PROVE  /\ Inv'
         /\ UNCHANGED <<ApplySeq(PersistentMap, j1), ApplySeq(FrozenMap, j2),
                        ApplySeq(EphemeralMap, j3)>>
<1>1. UNCHANGED <<PersistentMap, FrozenMap, EphemeralMap>>
  BY DEF tsm, PersistentMap, FrozenMap, EphemeralMap
<1>2. TypeOK'
  BY DEF Inv, TypeOK, tsm
<1>3. LocationsAgree' /\ PathsMeet'
  BY <1>1 DEF Inv, LocationsAgree, PathsMeet, tsm
<1>. QED  BY <1>1, <1>2, <1>3 DEF Inv

\* A request is pushed.
LEMMA PushSyncStep ==
  ASSUME Inv, NEW id \in SyncId, PushSyncOp(id)
  PROVE  Inv' /\ ThreeStates!PushSync(id)
<1>1. /\ id \notin DOMAIN syncReqs /\ syncReqs' = PushReq(syncReqs, id)
      /\ UNCHANGED <<j1, j2, j3, gamma, delta, journalPersistentLoc, journalFrozenLoc>>
      /\ UNCHANGED tsm
  BY DEF PushSyncOp, JournalView!PushSync, JournalView!PushReq, PushReq, JournalView!Put, Put
<1>. QED  BY <1>1, SyncReqsStep DEF ThreeStates!PushSync, ThreeStates!PushReq, PushReq,
          ThreeStates!Put, Put

\* A request is popped.
LEMMA PopSyncStep ==
  ASSUME Inv, NEW id \in SyncId, PopSyncOp(id)
  PROVE  Inv' /\ ThreeStates!PopSync(id)
<1>1. /\ id \in DOMAIN syncReqs /\ syncReqs[id] = "State1"
      /\ syncReqs' = PopReq(syncReqs, id)
      /\ UNCHANGED <<j1, j2, j3, gamma, delta, journalPersistentLoc, journalFrozenLoc>>
      /\ UNCHANGED tsm
  BY DEF PopSyncOp, JournalView!PopSync, JournalView!PopReq, PopReq, JournalView!Without, Without,
     JournalView!Restrict, Restrict
<1>. QED  BY <1>1, SyncReqsStep DEF ThreeStates!PopSync, ThreeStates!PopReq, PopReq,
          ThreeStates!Without, Without, ThreeStates!Restrict, Restrict

\* Each step keeps the invariant and is a step of ThreeStateVersioned or none.
LEMMA NextIsStep == Inv /\ [Next]_vars => Inv' /\ [ThreeStates!Next]_ThreeStates!vars
<1>. SUFFICES ASSUME Inv, [Next]_vars
              PROVE  Inv' /\ (ThreeStates!Next \/ UNCHANGED ThreeStates!vars)
  OBVIOUS
<1>1. CASE SendPersistentLocOp
  BY <1>1, SendPersistentLocStep
<1>2. ASSUME NEW je \in Entry, AdvanceOp(je)
      PROVE  Inv' /\ ThreeStates!Next
  BY <1>2, AdvanceStep DEF ThreeStates!Next
<1>3. CASE ReplayOp
  BY <1>3, ReplayStep
<1>4. CASE CrashOp
  BY <1>4, CrashStep DEF ThreeStates!Next
<1>5. CASE FreezeOp
  BY <1>5, FreezeStep DEF ThreeStates!Next
<1>6. CASE StatesInternalOp
  BY <1>6, StatesInternalStep
<1>7. CASE JournalInternalOp
  BY <1>7, Move1to2Step, ExtendLog1Step, ExtendLog2Step DEF JournalInternalOp, ThreeStates!Next
<1>8. CASE SendFrozenLocOp
  BY <1>8, SendFrozenLocStep
<1>9. CASE CleanUpOp
  BY <1>9, CleanUpStep
<1>10. ASSUME NEW id \in SyncId, PushSyncOp(id) \/ PopSyncOp(id)
       PROVE  Inv' /\ ThreeStates!Next
  BY <1>10, PushSyncStep, PopSyncStep DEF ThreeStates!Next
<1>11. CASE UNCHANGED vars
  <2>1. UNCHANGED tsm /\ UNCHANGED jc
    BY <1>11 DEF vars
  <2>. QED  BY <2>1, SyncReqsStep DEF jc, ThreeStates!vars
<1>. QED  BY <1>1, <1>2, <1>3, <1>4, <1>5, <1>6, <1>7, <1>8, <1>9, <1>10, <1>11 DEF Next

-----------------------------------------------------------------------------
\* The theorems

\* The two halves agree where the maps are and what the journals lead to
\* (CompositeView.Inv).
THEOREM HalvesAgree == Spec => []Inv
  BY InitInv, NextIsStep, PTL DEF Spec

\* The store is crash safe (CompositeView_Refines_ThreeStateVersionedMap).
THEOREM StoreIsCrashSafe == Spec => CrashSafe
  BY InitInv, NextIsStep, PTL DEF Spec, CrashSafe, ThreeStates!Spec
=============================================================================
