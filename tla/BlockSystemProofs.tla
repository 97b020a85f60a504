------------------------- MODULE BlockSystemProofs -------------------------
(***************************************************************************)
(* SInv is an inductive invariant of BlockSystem.  It implies that the     *)
(* allocator is exact, that nothing is lost and no block of any version    *)
(* overwritten, and that every version a crash may leave is whole.  The    *)
(* changes of the tree are edits passed from one bookkeeping step to the   *)
(* next, and so the proof about them is about edits: each step keeps       *)
(* EditOK, and committing an edit that is EditOK keeps SInv.  Then come    *)
(* the reads, and the refinement of StatesView.                            *)
(***************************************************************************)
EXTENDS BlockSystemRefinesStatesView, BlockSystemInvariant, SequenceTheorems, FiniteSetTheorems,
        WellFoundedInduction, TLAPS

-----------------------------------------------------------------------------
\* Tables and maps

LEMMA TableNotNone == \A t : IsTable(t) => t # None
<1>. SUFFICES ASSUME NEW t, IsTable(t) PROVE t \in Table
  BY NoneAssumption
<1>1. DOMAIN t.locs \in SUBSET Ref /\ DOMAIN t.graph \in SUBSET Ref
  BY DEF IsTable
<1>2. /\ t.locs \in UNION {[refs -> NodeBlock] : refs \in SUBSET Ref}
      /\ t.graph \in UNION {[refs -> Seq(Ref)] : refs \in SUBSET Ref}
  BY <1>1 DEF IsTable
<1>. QED  BY <1>2 DEF IsTable, Table

\* A table still is well formed when a location is taken from it or added to it.
LEMMA WithoutLoc ==
  ASSUME NEW t, WellFormed(t), NEW ref
  PROVE  /\ Without(t.locs, ref) \in [DOMAIN t.locs \ {ref} -> NodeBlock]
         /\ Range(Without(t.locs, ref)) =
              IF ref \in DOMAIN t.locs THEN Blocks(t) \ {t.locs[ref]} ELSE Blocks(t)
         /\ \A r1, r2 \in DOMAIN Without(t.locs, ref) :
              Without(t.locs, ref)[r1] = Without(t.locs, ref)[r2] => r1 = r2
<1>1. /\ DOMAIN Without(t.locs, ref) = DOMAIN t.locs \ {ref}
      /\ \A j \in DOMAIN t.locs \ {ref} : Without(t.locs, ref)[j] = t.locs[j]
      /\ Without(t.locs, ref) \in [DOMAIN t.locs \ {ref} -> NodeBlock]
  BY DEF Without, Restrict, WellFormed, IsTable
<1>2. \A r1, r2 \in DOMAIN t.locs : t.locs[r1] = t.locs[r2] => r1 = r2
  BY DEF WellFormed, InitLocBitmapSucceeds
<1>. QED  BY <1>1, <1>2 DEF Range, Blocks

LEMMA RemoveLocWellFormed ==
  ASSUME NEW t, WellFormed(t), NEW ref
  PROVE  /\ WellFormed(RemoveLoc(t, ref))
         /\ Blocks(RemoveLoc(t, ref)) = Range(Without(t.locs, ref))
<1>. DEFINE u == RemoveLoc(t, ref)
<1>1. /\ u.locs = Without(t.locs, ref) /\ u.graph = t.graph
      /\ u \in [locs : [DOMAIN t.locs \ {ref} -> NodeBlock],
                graph : [DOMAIN t.graph -> Seq(Ref)]]
  BY WithoutLoc DEF RemoveLoc, WellFormed, IsTable
<1>2. DOMAIN Without(t.locs, ref) = DOMAIN t.locs \ {ref}
  BY WithoutLoc
<1>3. IsTable(u) /\ Root \in DOMAIN u.graph
  BY <1>1, <1>2 DEF WellFormed, IsTable
<1>6. Closed(u)
  BY <1>1 DEF WellFormed, Closed
<1>4. InitLocBitmapSucceeds(u)
  <2>1. \A r1, r2 \in DOMAIN Without(t.locs, ref) :
          Without(t.locs, ref)[r1] = Without(t.locs, ref)[r2] => r1 = r2
    BY WithoutLoc
  <2>2. u.locs = Without(t.locs, ref)
    BY <1>1
  <2>. HIDE DEF u
  <2>. QED  BY <2>1, <2>2 DEF InitLocBitmapSucceeds
<1>5. Blocks(u) = Range(Without(t.locs, ref))
  BY <1>1 DEF Blocks
<1>. QED  BY <1>3, <1>4, <1>5, <1>6 DEF WellFormed

LEMMA UpdateAndRemoveLocWellFormed ==
  ASSUME NEW t, WellFormed(t), NEW ref \in Ref, NEW succs \in Seq(Ref),
         Range(succs) \subseteq DOMAIN t.graph \cup {ref}
  PROVE  /\ WellFormed(UpdateAndRemoveLoc(t, ref, succs))
         /\ Blocks(UpdateAndRemoveLoc(t, ref, succs)) = Range(Without(t.locs, ref))
<1>. DEFINE u == UpdateAndRemoveLoc(t, ref, succs)
<1>0. Put(t.graph, ref, succs) \in [DOMAIN t.graph \cup {ref} -> Seq(Ref)]
  BY DEF Put, WellFormed, IsTable
<1>1. /\ u.locs = Without(t.locs, ref) /\ u.graph = Put(t.graph, ref, succs)
      /\ u \in [locs : [DOMAIN t.locs \ {ref} -> NodeBlock],
                graph : [DOMAIN t.graph \cup {ref} -> Seq(Ref)]]
  BY <1>0, WithoutLoc DEF UpdateAndRemoveLoc, WellFormed, IsTable
<1>2. /\ DOMAIN Without(t.locs, ref) = DOMAIN t.locs \ {ref}
      /\ DOMAIN Put(t.graph, ref, succs) = DOMAIN t.graph \cup {ref}
  BY <1>0, WithoutLoc
<1>3. IsTable(u) /\ Root \in DOMAIN u.graph
  BY <1>1, <1>2 DEF WellFormed, IsTable
<1>6. Closed(u)
  <2>1. /\ u.graph[ref] = succs
        /\ \A r \in DOMAIN t.graph \ {ref} : u.graph[r] = t.graph[r]
    BY <1>1 DEF Put
  <2>2. DOMAIN u.graph = DOMAIN t.graph \cup {ref}
    BY <1>1, <1>2
  <2>. HIDE DEF u
  <2>. QED  BY <2>1, <2>2 DEF WellFormed, Closed
<1>4. InitLocBitmapSucceeds(u)
  <2>1. \A r1, r2 \in DOMAIN Without(t.locs, ref) :
          Without(t.locs, ref)[r1] = Without(t.locs, ref)[r2] => r1 = r2
    BY WithoutLoc
  <2>2. u.locs = Without(t.locs, ref)
    BY <1>1
  <2>. HIDE DEF u
  <2>. QED  BY <2>1, <2>2 DEF InitLocBitmapSucceeds
<1>5. Blocks(u) = Range(Without(t.locs, ref))
  BY <1>1 DEF Blocks
<1>. QED  BY <1>3, <1>4, <1>5, <1>6 DEF WellFormed

LEMMA RemoveRefWellFormed ==
  ASSUME NEW t, WellFormed(t), NEW ref \in Deallocable(t)
  PROVE  /\ WellFormed(RemoveRef(t, ref))
         /\ Blocks(RemoveRef(t, ref)) = Range(Without(t.locs, ref))
<1>. DEFINE u == RemoveRef(t, ref)
<1>0. Without(t.graph, ref) \in [DOMAIN t.graph \ {ref} -> Seq(Ref)]
  BY DEF Without, Restrict, WellFormed, IsTable
<1>1. /\ u.locs = Without(t.locs, ref) /\ u.graph = Without(t.graph, ref)
      /\ u \in [locs : [DOMAIN t.locs \ {ref} -> NodeBlock],
                graph : [DOMAIN t.graph \ {ref} -> Seq(Ref)]]
  BY <1>0, WithoutLoc DEF RemoveRef, WellFormed, IsTable
<1>7. ref # Root
  BY DEF Deallocable
<1>2. /\ DOMAIN Without(t.locs, ref) = DOMAIN t.locs \ {ref}
      /\ DOMAIN Without(t.graph, ref) = DOMAIN t.graph \ {ref}
  BY <1>0, WithoutLoc
<1>3. IsTable(u) /\ Root \in DOMAIN u.graph
  BY <1>1, <1>2, <1>7 DEF WellFormed, IsTable
<1>6. Closed(u)
  <2>1. \A r \in DOMAIN t.graph \ {ref} : u.graph[r] = t.graph[r]
    BY <1>1 DEF Without, Restrict
  <2>2. DOMAIN u.graph = DOMAIN t.graph \ {ref}
    BY <1>1, <1>2
  <2>. HIDE DEF u
  <2>. QED  BY <2>1, <2>2 DEF WellFormed, Closed, Deallocable
<1>4. InitLocBitmapSucceeds(u)
  <2>1. \A r1, r2 \in DOMAIN Without(t.locs, ref) :
          Without(t.locs, ref)[r1] = Without(t.locs, ref)[r2] => r1 = r2
    BY WithoutLoc
  <2>2. u.locs = Without(t.locs, ref)
    BY <1>1
  <2>. HIDE DEF u
  <2>. QED  BY <2>1, <2>2 DEF InitLocBitmapSucceeds
<1>5. Blocks(u) = Range(Without(t.locs, ref))
  BY <1>1 DEF Blocks
<1>. QED  BY <1>3, <1>4, <1>5, <1>6 DEF WellFormed

LEMMA AddLocWellFormed ==
  ASSUME NEW t, WellFormed(t), NEW ref, NEW loc \in NodeBlock, loc \notin Blocks(t)
  PROVE  /\ WellFormed(AddLocIfPresent(t, ref, loc))
         /\ Blocks(AddLocIfPresent(t, ref, loc)) =
              IF AddsLoc(t, ref) THEN Blocks(t) \cup {loc} ELSE Blocks(t)
<1>1. CASE ~AddsLoc(t, ref)
  BY <1>1 DEF AddLocIfPresent
<1>2. CASE AddsLoc(t, ref)
  <2>. DEFINE u == AddLocIfPresent(t, ref, loc)
              L == Put(t.locs, ref, loc)
  <2>1. ref \in DOMAIN t.graph /\ ref \notin DOMAIN t.locs
    BY <1>2 DEF AddsLoc, HasEmptyLoc
  <2>2. /\ DOMAIN L = DOMAIN t.locs \cup {ref} /\ L[ref] = loc
        /\ \A j \in DOMAIN t.locs : L[j] = t.locs[j]
        /\ L \in [DOMAIN t.locs \cup {ref} -> NodeBlock]
    BY <2>1 DEF Put, WellFormed, IsTable
  <2>3. /\ u.locs = L /\ u.graph = t.graph
        /\ u \in [locs : [DOMAIN t.locs \cup {ref} -> NodeBlock],
                  graph : [DOMAIN t.graph -> Seq(Ref)]]
    BY <1>2, <2>2 DEF AddLocIfPresent, WellFormed, IsTable
  <2>4. IsTable(u) /\ Root \in DOMAIN u.graph
    BY <2>1, <2>2, <2>3 DEF WellFormed, IsTable
  <2>5. \A r \in DOMAIN t.locs : t.locs[r] # loc
    BY DEF Blocks, Range
  <2>6. InitLocBitmapSucceeds(u)
    BY <2>2, <2>3, <2>5 DEF WellFormed, InitLocBitmapSucceeds
  <2>7. Blocks(u) = Blocks(t) \cup {loc}
    BY <2>2, <2>3 DEF Blocks, Range
  <2>8. Closed(u)
    BY <2>3 DEF WellFormed, Closed
  <2>. QED  BY <1>2, <2>4, <2>6, <2>7, <2>8 DEF WellFormed
<1>. QED  BY <1>1, <1>2

\* The largest reference of a table that has one.
LEMMA RefUpperBoundType ==
  ASSUME NEW t, WellFormed(t)
  PROVE  /\ RefUpperBound(t) \in Ref
         /\ \A r \in DOMAIN t.graph : r <= RefUpperBound(t)
<1>. DEFINE D == DOMAIN t.graph
            Above(r) == (r + 1) .. MaxRef
            T == {Above(r) : r \in D}
<1>1. D \in SUBSET Ref /\ D # {}
  BY DEF WellFormed, IsTable
<1>2. T \subseteq FiniteSubsetsOf(Nat) /\ T # {}
  <2>. SUFFICES ASSUME NEW r \in D PROVE Above(r) \in FiniteSubsetsOf(Nat)
    BY <1>1
  <2>1. r \in Nat /\ r + 1 \in Int /\ MaxRef \in Int
    BY <1>1, MaxRefAssumption DEF Ref
  <2>2. IsFiniteSet(Above(r))
    BY <2>1, FS_Interval
  <2>3. Above(r) \subseteq Nat
    BY <2>1
  <2>. QED  BY <2>2, <2>3 DEF FiniteSubsetsOf
<1>3. \E x \in T : \A y \in T : ~ (<<y, x>> \in StrictSubsetOrdering(Nat))
  <2>1. IsWellFoundedOn(StrictSubsetOrdering(Nat), FiniteSubsetsOf(Nat))
    BY FS_StrictSubsetOrderingWellFounded
  <2>. QED  BY <1>2, <2>1, WFMin
<1>4. PICK r \in D : \A s \in D : ~ (<<Above(s), Above(r)>> \in StrictSubsetOrdering(Nat))
  BY <1>3
<1>5. ASSUME NEW s \in D PROVE s <= r
  <2>. SUFFICES ASSUME s > r PROVE FALSE
    BY <1>1 DEF Ref
  <2>1. Above(s) \in SUBSET Nat /\ Above(r) \in SUBSET Nat
    BY <1>1, MaxRefAssumption DEF Ref
  <2>2. Above(s) \subseteq Above(r) /\ s \in Above(r) /\ s \notin Above(s)
    BY <1>1, MaxRefAssumption DEF Ref
  <2>3. Above(s) # Above(r)
    BY <2>2
  <2>. QED  BY <1>4, <2>1, <2>2, <2>3 DEF StrictSubsetOrdering
<1>. QED  BY <1>1, <1>5 DEF RefUpperBound

-----------------------------------------------------------------------------
\* Edits

\* full is the union of the other bitmaps.
FullExact(ba) ==
  ba.full = UNION {ba.ephemeral, ba.frozen, ba.persistent, ba.outstanding}

\* The types, and an allocator that is exact for the table of the edit.
EditTypeOK(e) ==
  /\ e \in [table : {e.table}, bound : Ref, cache : [DOMAIN e.cache -> Node],
            allocator : BlockAllocator]
  /\ WellFormed(e.table) /\ DOMAIN e.cache \in SUBSET Ref
  /\ e.allocator.ephemeral = Reserved \cup Blocks(e.table)
  /\ e.allocator.frozen = blockAllocator.frozen
  /\ e.allocator.persistent = blockAllocator.persistent
  /\ e.allocator.outstanding = blockAllocator.outstanding
  /\ FullExact(e.allocator)

\* A reference that has a location is as it was before the edit.
EditLocsOK(e) ==
  \A ref \in DOMAIN e.table.locs :
    /\ ref \in DOMAIN ephemeralIndirectionTable.locs
    /\ e.table.locs[ref] = ephemeralIndirectionTable.locs[ref]
    /\ e.table.graph[ref] = ephemeralIndirectionTable.graph[ref]
    /\ ref \in DOMAIN e.cache <=> ref \in DOMAIN cache
    /\ ref \in DOMAIN cache => e.cache[ref] = cache[ref]

EditCacheOK(e) ==
  /\ DOMAIN e.cache \subseteq DOMAIN e.table.graph
  /\ \A ref \in DOMAIN e.cache : e.cache[ref].children = e.table.graph[ref]
  /\ RefsWithNoLoc(e.table) \subseteq DOMAIN e.cache
  /\ \A ref \in DOMAIN e.table.graph : ref <= e.bound

\* What others rely on: the frozen version, and the reads of nodes.
EditSparesOthers(e) ==
  /\ HasFrozen => \A ref \in RefsWithNoLoc(frozenIndirectionTable) :
       /\ ref \in RefsWithNoLoc(e.table)
       /\ frozenIndirectionTable.graph[ref] = e.table.graph[ref]
  /\ \A id \in DOMAIN outstandingBlockReads :
       outstandingBlockReads[id] \in DOMAIN e.table.locs \ DOMAIN e.cache

EditOK(e) == EditTypeOK(e) /\ EditLocsOK(e) /\ EditCacheOK(e) /\ EditSparesOthers(e)

LEMMA MarkFreeEphemeralExact ==
  ASSUME NEW ba \in BlockAllocator, FullExact(ba), NEW i \in BlockIndex
  PROVE  /\ MarkFreeEphemeral(ba, i) \in BlockAllocator
         /\ MarkFreeEphemeral(ba, i).ephemeral = ba.ephemeral \ {i}
         /\ MarkFreeEphemeral(ba, i).frozen = ba.frozen
         /\ MarkFreeEphemeral(ba, i).persistent = ba.persistent
         /\ MarkFreeEphemeral(ba, i).outstanding = ba.outstanding
         /\ FullExact(MarkFreeEphemeral(ba, i))
<1>. DEFINE a == MarkFreeEphemeral(ba, i)
<1>1. /\ a \in BlockAllocator
      /\ a.ephemeral = ba.ephemeral \ {i} /\ a.frozen = ba.frozen
      /\ a.persistent = ba.persistent /\ a.outstanding = ba.outstanding
      /\ a.full = IF i \in ba.frozen \cup ba.outstanding \cup ba.persistent
                  THEN ba.full ELSE ba.full \ {i}
  BY DEF MarkFreeEphemeral, BlockAllocator
<1>. HIDE DEF a
<1>2. a.full = UNION {a.ephemeral, a.frozen, a.persistent, a.outstanding}
  BY <1>1 DEF FullExact
<1>. QED  BY <1>1, <1>2 DEF FullExact, a

LEMMA FreeLocExact ==
  ASSUME NEW e, EditTypeOK(e), NEW ref
  PROVE  /\ FreeLoc(e, ref) \in BlockAllocator
         /\ FreeLoc(e, ref).ephemeral = Reserved \cup Range(Without(e.table.locs, ref))
         /\ FreeLoc(e, ref).frozen = blockAllocator.frozen
         /\ FreeLoc(e, ref).persistent = blockAllocator.persistent
         /\ FreeLoc(e, ref).outstanding = blockAllocator.outstanding
         /\ FullExact(FreeLoc(e, ref))
<1>1. WellFormed(e.table) /\ e.allocator \in BlockAllocator
  BY DEF EditTypeOK
<1>2. CASE ref \notin DOMAIN e.table.locs
  <2>1. FreeLoc(e, ref) = e.allocator
    BY <1>2 DEF FreeLoc
  <2>2. Range(Without(e.table.locs, ref)) = Blocks(e.table)
    BY <1>1, <1>2, WithoutLoc
  <2>. QED  BY <1>1, <2>1, <2>2 DEF EditTypeOK
<1>3. CASE ref \in DOMAIN e.table.locs
  <2>. DEFINE i == e.table.locs[ref]
  <2>1. FreeLoc(e, ref) = MarkFreeEphemeral(e.allocator, i)
    BY <1>3 DEF FreeLoc
  <2>2. Range(Without(e.table.locs, ref)) = Blocks(e.table) \ {i}
    BY <1>1, <1>3, WithoutLoc
  <2>3. i \in NodeBlock
    BY <1>1, <1>3 DEF WellFormed, IsTable
  <2>4. i \in BlockIndex /\ i \notin Reserved
    BY <2>3, LayoutAssumption DEF NodeBlock, BlockIndex, Reserved
  <2>. HIDE DEF i
  <2>5. FullExact(e.allocator)
    BY DEF EditTypeOK
  <2>6. e.allocator.ephemeral \ {i} = Reserved \cup Range(Without(e.table.locs, ref))
    BY <2>2, <2>4 DEF EditTypeOK
  <2>. QED  BY <1>1, <2>1, <2>4, <2>5, <2>6, MarkFreeEphemeralExact DEF EditTypeOK
<1>. QED  BY <1>2, <1>3

\* A bookkeeping step that touches one reference, which nobody else relies on.
LEMMA EditStepOK ==
  ASSUME NEW e, EditOK(e), NEW w, EditTypeOK(w), NEW ref,
         w.table.locs = Without(e.table.locs, ref),
         DOMAIN w.table.graph \ {ref} = DOMAIN e.table.graph \ {ref},
         \A r \in DOMAIN w.table.graph \ {ref} : w.table.graph[r] = e.table.graph[r],
         DOMAIN w.cache \ {ref} = DOMAIN e.cache \ {ref},
         \A r \in DOMAIN w.cache \ {ref} : w.cache[r] = e.cache[r],
         ref \in DOMAIN w.cache <=> ref \in DOMAIN w.table.graph,
         ref \in DOMAIN w.cache => w.cache[ref].children = w.table.graph[ref],
         e.bound <= w.bound, ref \in DOMAIN w.table.graph => ref <= w.bound,
         CanDirty(ref), ref \notin Range(outstandingBlockReads)
  PROVE  EditOK(w)
<1>1. /\ DOMAIN w.table.locs = DOMAIN e.table.locs \ {ref}
      /\ \A r \in DOMAIN w.table.locs : w.table.locs[r] = e.table.locs[r]
  BY DEF Without, Restrict
<1>2. /\ DOMAIN w.table.locs \subseteq DOMAIN w.table.graph
      /\ DOMAIN e.table.locs \subseteq DOMAIN e.table.graph
      /\ DOMAIN w.table.graph \subseteq Ref /\ DOMAIN e.table.graph \subseteq Ref
      /\ w.bound \in Ref /\ e.bound \in Ref
  BY DEF EditOK, EditTypeOK, WellFormed, IsTable
<1>3. EditLocsOK(w)
  BY <1>1, <1>2 DEF EditOK, EditLocsOK
<1>4. EditCacheOK(w)
  <2>1. DOMAIN w.cache \subseteq DOMAIN w.table.graph
    BY DEF EditOK, EditCacheOK
  <2>2. \A r \in DOMAIN w.cache : w.cache[r].children = w.table.graph[r]
    BY <2>1 DEF EditOK, EditCacheOK
  <2>3. RefsWithNoLoc(w.table) \subseteq DOMAIN w.cache
    BY <1>1 DEF EditOK, EditCacheOK, RefsWithNoLoc
  <2>4. ASSUME NEW r \in DOMAIN w.table.graph PROVE r <= w.bound
    <3>1. CASE r = ref
      BY <3>1
    <3>2. CASE r # ref
      <4>1. r \in DOMAIN e.table.graph /\ r <= e.bound
        BY <3>2 DEF EditOK, EditCacheOK
      <4>. QED  BY <1>2, <4>1 DEF Ref
    <3>. QED  BY <3>1, <3>2
  <2>. QED  BY <2>1, <2>2, <2>3, <2>4 DEF EditCacheOK
<1>5. EditSparesOthers(w)
  <2>1. ASSUME HasFrozen, NEW r \in RefsWithNoLoc(frozenIndirectionTable)
        PROVE  /\ r \in RefsWithNoLoc(w.table)
               /\ frozenIndirectionTable.graph[r] = w.table.graph[r]
    <3>1. r # ref
      BY <2>1 DEF CanDirty, HasEmptyLoc, RefsWithNoLoc
    <3>2. /\ r \in RefsWithNoLoc(e.table)
          /\ frozenIndirectionTable.graph[r] = e.table.graph[r]
      BY <2>1 DEF EditOK, EditSparesOthers
    <3>. QED  BY <1>1, <3>1, <3>2 DEF RefsWithNoLoc
  <2>2. ASSUME NEW id \in DOMAIN outstandingBlockReads
        PROVE  outstandingBlockReads[id] \in DOMAIN w.table.locs \ DOMAIN w.cache
    <3>1. outstandingBlockReads[id] # ref
      BY DEF Range
    <3>2. outstandingBlockReads[id] \in DOMAIN e.table.locs \ DOMAIN e.cache
      BY DEF EditOK, EditSparesOthers
    <3>. QED  BY <1>1, <3>1, <3>2
  <2>. QED  BY <2>1, <2>2 DEF EditSparesOthers
<1>. QED  BY <1>3, <1>4, <1>5 DEF EditOK

\* A cached reference that may be dirtied, or a new one, is nobody else's.
Rewritable(e, ref) == (ref \in DOMAIN e.cache /\ CanDirty(ref)) \/ ref > e.bound

LEMMA RewritableIsFree ==
  ASSUME NEW e, EditOK(e), NEW ref \in Ref, Rewritable(e, ref)
  PROVE  CanDirty(ref) /\ ref \notin Range(outstandingBlockReads)
<1>1. CASE ref \in DOMAIN e.cache /\ CanDirty(ref)
  BY <1>1 DEF EditOK, EditSparesOthers, Range
<1>2. CASE ref > e.bound
  <2>1. e.bound \in Ref
    BY DEF EditOK, EditTypeOK
  <2>2. ref \notin DOMAIN e.table.graph
    BY <1>2, <2>1 DEF EditOK, EditCacheOK, Ref
  <2>3. ref \notin DOMAIN e.table.locs
    BY <2>2 DEF EditOK, EditTypeOK, WellFormed, IsTable
  <2>. QED  BY <2>2, <2>3 DEF EditOK, EditSparesOthers, Range, CanDirty, HasEmptyLoc, RefsWithNoLoc
<1>. QED  BY <1>1, <1>2 DEF Rewritable

LEMMA WriteNodeOK ==
  ASSUME NEW e, EditOK(e), NEW ref \in Ref, NEW node \in Node, Rewritable(e, ref),
         Range(node.children) \subseteq DOMAIN e.table.graph \cup {ref}
  PROVE  EditOK(WriteNode(e, ref, node))
<1>. DEFINE w == WriteNode(e, ref, node)
<1>0. EditTypeOK(e)
  BY DEF EditOK
<1>1. /\ w.table = UpdateAndRemoveLoc(e.table, ref, node.children)
      /\ w.bound = (IF ref > e.bound THEN ref ELSE e.bound)
      /\ w.cache = Put(e.cache, ref, node)
      /\ w.allocator = FreeLoc(e, ref)
      /\ w = [table |-> w.table, bound |-> w.bound, cache |-> w.cache,
              allocator |-> w.allocator]
  BY DEF WriteNode
<1>2. /\ w.cache \in [DOMAIN e.cache \cup {ref} -> Node] /\ w.cache[ref] = node
      /\ \A r \in DOMAIN e.cache \ {ref} : w.cache[r] = e.cache[r]
  BY <1>0, <1>1 DEF Put, EditTypeOK
<1>3. w.bound \in Ref
  BY <1>0, <1>1 DEF EditTypeOK
<1>4. w.allocator \in BlockAllocator
  BY <1>0, <1>1, FreeLocExact
<1>5. node.children \in Seq(Ref)
  BY DEF Node
<1>6. /\ w.table.locs = Without(e.table.locs, ref)
      /\ w.table.graph = Put(e.table.graph, ref, node.children)
  BY <1>0, <1>1 DEF UpdateAndRemoveLoc, EditTypeOK, WellFormed, IsTable
<1>. HIDE DEF w
<1>7. WellFormed(w.table) /\ Blocks(w.table) = Range(Without(e.table.locs, ref))
  BY <1>0, <1>1, <1>5, UpdateAndRemoveLocWellFormed DEF EditTypeOK
<1>8. EditTypeOK(w)
  <2>1. w \in [table : {w.table}, bound : Ref, cache : [DOMAIN w.cache -> Node],
               allocator : BlockAllocator]
    BY <1>1, <1>2, <1>3, <1>4
  <2>. QED  BY <1>0, <1>1, <1>2, <1>7, <2>1, FreeLocExact DEF EditTypeOK
<1>9. /\ DOMAIN w.table.graph = DOMAIN e.table.graph \cup {ref}
      /\ w.table.graph[ref] = node.children
      /\ \A r \in DOMAIN e.table.graph \ {ref} : w.table.graph[r] = e.table.graph[r]
  BY <1>6 DEF Put
<1>10. e.bound <= w.bound /\ ref <= w.bound
  BY <1>0, <1>1 DEF EditTypeOK, Ref
<1>11. EditOK(w)
  BY <1>2, <1>6, <1>8, <1>9, <1>10, RewritableIsFree, EditStepOK
<1>. QED  BY <1>11 DEF w

LEMMA RewriteNodeOK ==
  ASSUME NEW e, EditOK(e), NEW ref \in DOMAIN e.cache, NEW node \in Node, CanDirty(ref),
         node.children = e.cache[ref].children
  PROVE  EditOK(RewriteNode(e, ref, node))
<1>. DEFINE w == RewriteNode(e, ref, node)
<1>0. EditTypeOK(e)
  BY DEF EditOK
<1>1. /\ w.table = RemoveLoc(e.table, ref) /\ w.bound = e.bound
      /\ w.cache = Put(e.cache, ref, node) /\ w.allocator = FreeLoc(e, ref)
      /\ w = [table |-> w.table, bound |-> w.bound, cache |-> w.cache,
              allocator |-> w.allocator]
  BY DEF RewriteNode
<1>2. /\ w.cache \in [DOMAIN e.cache -> Node] /\ w.cache[ref] = node
      /\ \A r \in DOMAIN e.cache \ {ref} : w.cache[r] = e.cache[r]
  BY <1>0, <1>1 DEF Put, EditTypeOK
<1>4. w.allocator \in BlockAllocator /\ w.bound \in Ref /\ ref \in Ref
  BY <1>0, <1>1, FreeLocExact DEF EditTypeOK
<1>6. w.table.locs = Without(e.table.locs, ref) /\ w.table.graph = e.table.graph
  BY <1>0, <1>1 DEF RemoveLoc, EditTypeOK, WellFormed, IsTable
<1>. HIDE DEF w
<1>7. WellFormed(w.table) /\ Blocks(w.table) = Range(Without(e.table.locs, ref))
  BY <1>0, <1>1, RemoveLocWellFormed DEF EditTypeOK
<1>8. EditTypeOK(w)
  <2>1. w \in [table : {w.table}, bound : Ref, cache : [DOMAIN w.cache -> Node],
               allocator : BlockAllocator]
    BY <1>1, <1>2, <1>4
  <2>. QED  BY <1>0, <1>1, <1>2, <1>7, <2>1, FreeLocExact DEF EditTypeOK
<1>9. ref \in DOMAIN e.table.graph /\ node.children = e.table.graph[ref] /\ ref <= e.bound
  BY DEF EditOK, EditCacheOK
<1>10. e.bound <= w.bound
  BY <1>1, <1>4 DEF Ref
<1>11. Rewritable(e, ref)
  BY DEF Rewritable
<1>12. EditOK(w)
  BY <1>1, <1>2, <1>4, <1>6, <1>8, <1>9, <1>10, <1>11, RewritableIsFree, EditStepOK
<1>. QED  BY <1>12 DEF w

LEMMA RemoveNodeOK ==
  ASSUME NEW e, EditOK(e), NEW ref \in Deallocable(e.table), CanDirty(ref),
         ref \notin Range(outstandingBlockReads)
  PROVE  EditOK(RemoveNode(e, ref))
<1>. DEFINE w == RemoveNode(e, ref)
<1>0. EditTypeOK(e)
  BY DEF EditOK
<1>1. /\ w.table = RemoveRef(e.table, ref) /\ w.bound = e.bound
      /\ w.cache = Without(e.cache, ref) /\ w.allocator = FreeLoc(e, ref)
      /\ w = [table |-> w.table, bound |-> w.bound, cache |-> w.cache,
              allocator |-> w.allocator]
  BY DEF RemoveNode
<1>2. /\ w.cache \in [DOMAIN e.cache \ {ref} -> Node]
      /\ \A r \in DOMAIN e.cache \ {ref} : w.cache[r] = e.cache[r]
  BY <1>0, <1>1 DEF Without, Restrict, EditTypeOK
<1>4. w.allocator \in BlockAllocator /\ w.bound \in Ref
  BY <1>0, <1>1, FreeLocExact DEF EditTypeOK
<1>6. /\ w.table.locs = Without(e.table.locs, ref)
      /\ w.table.graph = Without(e.table.graph, ref)
  BY <1>0, <1>1 DEF RemoveRef, EditTypeOK, WellFormed, IsTable
<1>. HIDE DEF w
<1>7. WellFormed(w.table) /\ Blocks(w.table) = Range(Without(e.table.locs, ref))
  BY <1>0, <1>1, RemoveRefWellFormed DEF EditTypeOK
<1>8. EditTypeOK(w)
  <2>1. w \in [table : {w.table}, bound : Ref, cache : [DOMAIN w.cache -> Node],
               allocator : BlockAllocator]
    BY <1>1, <1>2, <1>4
  <2>. QED  BY <1>0, <1>1, <1>2, <1>7, <2>1, FreeLocExact DEF EditTypeOK
<1>9. /\ DOMAIN w.table.graph = DOMAIN e.table.graph \ {ref}
      /\ \A r \in DOMAIN w.table.graph : w.table.graph[r] = e.table.graph[r]
  BY <1>6 DEF Without, Restrict
<1>10. e.bound <= w.bound
  BY <1>1, <1>4 DEF Ref
<1>12. EditOK(w)
  BY <1>2, <1>6, <1>8, <1>9, <1>10, EditStepOK
<1>. QED  BY <1>12 DEF w

-----------------------------------------------------------------------------
\* Changes of the tree

USE DEF loadVars, persistentVars, frozenVars, treeVars, blockCacheVars, reqVars,
        blockDiskVars, systemVars

LEMMA TreeOK ==
  ASSUME SInv, mode = "Ready"
  PROVE  EditOK(Tree)
<1>. DEFINE e == Tree
<1>1. /\ e.table = ephemeralIndirectionTable /\ e.bound = refUpperBound
      /\ e.cache = cache /\ e.allocator = blockAllocator
      /\ e = [table |-> e.table, bound |-> e.bound, cache |-> e.cache,
              allocator |-> e.allocator]
  BY DEF Tree
<1>. HIDE DEF e
<1>2. /\ e \in [table : {e.table}, bound : Ref, cache : [DOMAIN e.cache -> Node],
                allocator : BlockAllocator]
      /\ DOMAIN e.cache \in SUBSET Ref
  BY <1>1 DEF SInv, TypeOK, BlockCacheTypeOK
<1>3. e.allocator.ephemeral = Reserved \cup Blocks(e.table)
  BY <1>1 DEF SInv, AllocatorExact
<1>4. FullExact(e.allocator)
  BY <1>1 DEF SInv, AllocatorExact, FullExact, UsedBlocks, Frozen
<1>5. WellFormed(e.table)
  BY <1>1 DEF SInv, TablesInv
<1>6. EditTypeOK(e)
  BY <1>1, <1>2, <1>3, <1>4, <1>5 DEF EditTypeOK
<1>7. EditLocsOK(e)
  BY <1>1 DEF EditLocsOK
<1>8. EditCacheOK(e)
  BY <1>1 DEF SInv, CacheInv, EditCacheOK
<1>9. EditSparesOthers(e)
  BY <1>1 DEF SInv, FrozenInv, ReadInv, EditSparesOthers
<1>. QED  BY <1>6, <1>7, <1>8, <1>9 DEF EditOK, e

\* What an edit changes and what it leaves alone.
Edits(e) ==
  /\ mode = "Ready" /\ EditOK(e) /\ Commit(e)
  /\ UNCHANGED <<blockDiskVars, systemVars>>

LEMMA CommitKeepsSInv ==
  ASSUME SInv, NEW e, Edits(e)
  PROVE  SInv'
<1>. USE DEF Edits, Commit
<1>0. EditTypeOK(e) /\ EditLocsOK(e) /\ EditCacheOK(e) /\ EditSparesOthers(e)
  BY DEF EditOK
<1>1. TypeOK'
  <2>1. BlockDiskTypeOK'
    BY DEF SInv, TypeOK, BlockDiskTypeOK
  <2>2. /\ IsTable(ephemeralIndirectionTable') /\ refUpperBound' \in Ref
        /\ DOMAIN cache' \in SUBSET Ref /\ cache' \in [DOMAIN cache' -> Node]
        /\ blockAllocator' \in BlockAllocator
    BY <1>0 DEF EditTypeOK, WellFormed
  <2>3. BlockCacheTypeOK'
    BY <2>2 DEF SInv, TypeOK, BlockCacheTypeOK
  <2>. QED  BY <2>1, <2>3 DEF SInv, TypeOK
<1>2. TablesInv'
  <2>1. WellFormed(ephemeralIndirectionTable')
    BY <1>0 DEF EditTypeOK
  <2>2. Intact(ephemeralIndirectionTable)
    BY DEF SInv, TablesInv
  <2>3. Intact(ephemeralIndirectionTable)'
    BY <1>0, <2>2 DEF Intact, IntactOn, EditLocsOK
  <2>. QED  BY <2>1, <2>3 DEF SInv, TablesInv, HasFrozen, Whole, Intact, IntactOn
<1>3. LoadInv'
  BY DEF SInv, LoadInv
<1>4. SaveInv'
  BY DEF SInv, SaveInv, WrittenBlocks
<1>5. CacheInv'
  <2>1. ASSUME NEW ref \in DOMAIN cache' \cap DOMAIN ephemeralIndirectionTable.locs'
        PROVE  cache'[ref] = nodes'[ephemeralIndirectionTable.locs'[ref]]
    BY <1>0 DEF SInv, CacheInv, EditLocsOK
  <2>. QED  BY <1>0, <2>1 DEF CacheInv, EditCacheOK
<1>6. FrozenInv'
  BY <1>0 DEF FrozenInv, EditSparesOthers, HasFrozen
<1>7. WriteInv'
  <2>1. Blocks(persistentIndirectionTable') \cap WrittenBlocks' = {}
    BY DEF SInv, WriteInv, WrittenBlocks
  <2>2. ASSUME NEW ref \in DOMAIN ephemeralIndirectionTable.locs',
               NEW id \in DOMAIN outstandingBlockWrites',
               outstandingBlockWrites'[id].loc = ephemeralIndirectionTable.locs'[ref]
        PROVE  outstandingBlockWrites'[id].ref = ref /\ ref \in DOMAIN cache'
    BY <1>0, <2>2 DEF SInv, WriteInv, EditLocsOK
  <2>. QED  BY <2>1, <2>2 DEF WriteInv
<1>8. ReadInv'
  <2>1. ASSUME NEW id \in DOMAIN outstandingBlockReads
        PROVE  /\ outstandingBlockReads[id] \in DOMAIN e.table.locs \ DOMAIN e.cache
               /\ e.table.locs[outstandingBlockReads[id]] =
                    ephemeralIndirectionTable.locs[outstandingBlockReads[id]]
    BY <1>0 DEF EditLocsOK, EditSparesOthers
  <2>2. DOMAIN reqReadNodes \subseteq DOMAIN outstandingBlockReads
    BY DEF SInv, RequestsMatch
  <2>. QED  BY <2>1, <2>2 DEF SInv, ReadInv
<1>9. AllocatorExact'
  BY <1>0 DEF SInv, AllocatorExact, EditTypeOK, FullExact, UsedBlocks, Frozen, WrittenBlocks, HasFrozen
<1>10. RequestsMatch'
  BY DEF SInv, RequestsMatch, HasFrozen
<1>. QED  BY <1>1, <1>2, <1>3, <1>4, <1>5, <1>6, <1>7, <1>8, <1>9, <1>10 DEF SInv

LEMMA RewrittenType ==
  ASSUME NEW node \in Node, NEW children \in Seq(Ref), NEW n \in Rewritten(node, children)
  PROVE  n \in Node /\ n.children = children
  BY DEF Rewritten, Node

LEMMA CachedNode ==
  ASSUME SInv, mode = "Ready", NEW ref \in DOMAIN cache
  PROVE  /\ ref \in Ref /\ cache[ref] \in Node /\ cache[ref].children \in Seq(Ref)
         /\ Range(cache[ref].children) \subseteq DOMAIN ephemeralIndirectionTable.graph
<1>1. ref \in Ref /\ cache[ref] \in Node
  BY DEF SInv, TypeOK, BlockCacheTypeOK
<1>2. /\ ref \in DOMAIN ephemeralIndirectionTable.graph
      /\ cache[ref].children = ephemeralIndirectionTable.graph[ref]
  BY DEF SInv, CacheInv
<1>3. Closed(ephemeralIndirectionTable)
  BY DEF SInv, TablesInv, WellFormed
<1>. QED  BY <1>1, <1>2, <1>3 DEF Closed, Node

LEMMA FreeRefType ==
  ASSUME NEW e, NEW avoid, NEW ref \in FreeRef(e, avoid)
  PROVE  /\ ref \in Ref /\ ref > e.bound /\ ref \notin avoid
         /\ \A r \in Ref : r > e.bound /\ r \notin DOMAIN e.cache \cup avoid => ref <= r
         /\ ref \notin DOMAIN e.cache
  BY DEF FreeRef

LEMMA WriteNodeExtends ==
  ASSUME NEW e, EditOK(e), NEW ref, NEW node
  PROVE  /\ DOMAIN WriteNode(e, ref, node).table.graph = DOMAIN e.table.graph \cup {ref}
         /\ DOMAIN WriteNode(e, ref, node).cache = DOMAIN e.cache \cup {ref}
         /\ WriteNode(e, ref, node).bound = IF ref > e.bound THEN ref ELSE e.bound
<1>1. UpdateAndRemoveLoc(e.table, ref, node.children).graph =
        Put(e.table.graph, ref, node.children)
  BY DEF UpdateAndRemoveLoc, EditOK, EditTypeOK, WellFormed, IsTable
<1>. QED  BY <1>1 DEF WriteNode, Put

LEMMA InsertKeyValueKeepsSInv ==
  ASSUME SInv, InsertKeyValue, UNCHANGED <<blockDiskVars, systemVars>>
  PROVE  SInv'
<1>1. mode = "Ready" /\ Root \in DOMAIN cache /\ CanDirty(Root)
  BY DEF InsertKeyValue
<1>2. PICK root \in Rewritten(cache[Root], cache[Root].children) :
        Commit(RewriteNode(Tree, Root, root))
  BY DEF InsertKeyValue
<1>3. root \in Node /\ root.children = cache[Root].children
  BY <1>1, <1>2, CachedNode, RewrittenType
<1>4. EditOK(RewriteNode(Tree, Root, root))
  <2>1. Tree.cache = cache
    BY DEF Tree
  <2>. QED  BY <1>1, <1>3, <2>1, TreeOK, RewriteNodeOK
<1>. QED  BY <1>1, <1>2, <1>4, CommitKeepsSInv DEF Edits

\* Grow and Flush: a copy of a cached node under a new reference, and a node in
\* the cache whose children are those it had and the copy.
LEMMA CopyUnderOK ==
  ASSUME SInv, mode = "Ready", NEW source \in DOMAIN cache, NEW ref \in DOMAIN cache,
         CanDirty(ref), NEW newref \in FreeRef(Tree, {}), NEW node \in Node,
         Range(node.children) \subseteq Range(cache[ref].children) \cup {newref}
  PROVE  EditOK(WriteNode(WriteNode(Tree, newref, cache[source]), ref, node))
<1>. DEFINE e == WriteNode(Tree, newref, cache[source])
<1>1. EditOK(Tree) /\ Tree.table = ephemeralIndirectionTable /\ Tree.cache = cache
  BY TreeOK DEF Tree
<1>2. newref \in Ref /\ Rewritable(Tree, newref)
  BY FreeRefType DEF Rewritable
<1>3. EditOK(e)
  BY <1>1, <1>2, CachedNode, WriteNodeOK
<1>4. /\ DOMAIN e.table.graph = DOMAIN ephemeralIndirectionTable.graph \cup {newref}
      /\ DOMAIN e.cache = DOMAIN cache \cup {newref}
  BY <1>1, WriteNodeExtends
<1>5. ref \in Ref /\ Range(cache[ref].children) \subseteq DOMAIN ephemeralIndirectionTable.graph
  BY CachedNode
<1>. HIDE DEF e
<1>6. Rewritable(e, ref) /\ Range(node.children) \subseteq DOMAIN e.table.graph \cup {ref}
  BY <1>4, <1>5 DEF Rewritable
<1>7. EditOK(WriteNode(e, ref, node))
  BY <1>3, <1>5, <1>6, WriteNodeOK
<1>. QED  BY <1>7 DEF e

LEMMA GrowKeepsSInv ==
  ASSUME SInv, Grow, UNCHANGED <<blockDiskVars, systemVars>>
  PROVE  SInv'
<1>1. mode = "Ready" /\ Root \in DOMAIN cache /\ CanDirty(Root)
  BY DEF Grow
<1>2. PICK newref \in FreeRef(Tree, {}) : \E newroot \in Rewritten(cache[Root], <<newref>>) :
        Commit(WriteNode(WriteNode(Tree, newref, cache[Root]), Root, newroot))
  BY DEF Grow
<1>3. PICK newroot \in Rewritten(cache[Root], <<newref>>) :
        Commit(WriteNode(WriteNode(Tree, newref, cache[Root]), Root, newroot))
  BY <1>2
<1>4. <<newref>> \in Seq(Ref) /\ Range(<<newref>>) = {newref}
  BY FreeRefType DEF Range
<1>5. newroot \in Node /\ newroot.children = <<newref>>
  BY <1>1, <1>4, CachedNode, RewrittenType
<1>6. EditOK(WriteNode(WriteNode(Tree, newref, cache[Root]), Root, newroot))
  BY <1>1, <1>4, <1>5, CopyUnderOK
<1>. QED  BY <1>1, <1>3, <1>6, CommitKeepsSInv DEF Edits

LEMMA FlushKeepsSInv ==
  ASSUME SInv, mode = "Ready", NEW parent \in DOMAIN cache, NEW slot \in OpenSlots(parent),
         Flush(parent, slot), UNCHANGED <<blockDiskVars, systemVars>>
  PROVE  SInv'
<1>. DEFINE children == cache[parent].children
<1>1. /\ children \in Seq(Ref) /\ slot \in DOMAIN children
      /\ children[slot] \in DOMAIN cache /\ CanDirty(parent)
  BY CachedNode DEF OpenSlots, Flush
<1>2. PICK newref \in FreeRef(Tree, {}) :
        \E newparent \in Rewritten(cache[parent], [children EXCEPT ![slot] = newref]) :
          Commit(WriteNode(WriteNode(Tree, newref, cache[children[slot]]), parent, newparent))
  BY DEF Flush
<1>. DEFINE new == [children EXCEPT ![slot] = newref]
<1>3. PICK newparent \in Rewritten(cache[parent], new) :
        Commit(WriteNode(WriteNode(Tree, newref, cache[children[slot]]), parent, newparent))
  BY <1>2
<1>4. newref \in Ref
  BY FreeRefType
<1>. HIDE DEF children
<1>5. new \in Seq(Ref) /\ Range(new) \subseteq Range(children) \cup {newref}
  BY <1>1, <1>4 DEF Range
<1>. USE DEF children
<1>. HIDE DEF new
<1>6. newparent \in Node /\ newparent.children = new
  BY <1>5, CachedNode, RewrittenType
<1>7. EditOK(WriteNode(WriteNode(Tree, newref, cache[children[slot]]), parent, newparent))
  BY <1>1, <1>5, <1>6, CopyUnderOK
<1>. QED  BY <1>3, <1>7, CommitKeepsSInv DEF Edits

\* Parts of a sequence, and a sequence with one element replaced by two.
LEMMA PartOfSeq ==
  ASSUME NEW s \in Seq(Ref), NEW m \in 1 .. (Len(s) + 1), NEW n \in 0 .. Len(s)
  PROVE  /\ SubSeq(s, m, n) \in Seq(Ref)
         /\ Range(SubSeq(s, m, n)) \subseteq Range(s)
<1>1. \A i \in m .. n : i \in 1 .. Len(s) /\ s[i] \in Ref
  OBVIOUS
<1>2. /\ SubSeq(s, m, n) \in Seq(Ref)
      /\ Len(SubSeq(s, m, n)) = (IF m <= n THEN n - m + 1 ELSE 0)
      /\ \A i \in 1 .. (n - m + 1) : SubSeq(s, m, n)[i] = s[m + i - 1]
  BY <1>1, SubSeqProperties
<1>3. DOMAIN SubSeq(s, m, n) = 1 .. Len(SubSeq(s, m, n)) /\ DOMAIN s = 1 .. Len(s)
  BY <1>2
<1>4. ASSUME NEW i \in DOMAIN SubSeq(s, m, n) PROVE SubSeq(s, m, n)[i] \in Range(s)
  <2>1. i \in 1 .. (n - m + 1) /\ m + i - 1 \in 1 .. Len(s)
    BY <1>2, <1>3
  <2>. QED  BY <1>2, <1>3, <2>1 DEF Range
<1>. QED  BY <1>2, <1>4 DEF Range

LEMMA ConcatRange ==
  ASSUME NEW s \in Seq(Ref), NEW t \in Seq(Ref)
  PROVE  /\ s \o t \in Seq(Ref)
         /\ Range(s \o t) \subseteq Range(s) \cup Range(t)
<1>1. /\ s \o t \in Seq(Ref) /\ Len(s \o t) = Len(s) + Len(t)
      /\ \A i \in 1 .. (Len(s) + Len(t)) : (s \o t)[i] =
           IF i <= Len(s) THEN s[i] ELSE t[i - Len(s)]
  BY ConcatProperties
<1>2. ASSUME NEW i \in DOMAIN (s \o t) PROVE (s \o t)[i] \in Range(s) \cup Range(t)
  <2>1. i \in 1 .. (Len(s) + Len(t)) /\ DOMAIN s = 1 .. Len(s) /\ DOMAIN t = 1 .. Len(t)
    BY <1>1
  <2>2. CASE i <= Len(s)
    BY <1>1, <2>1, <2>2 DEF Range
  <2>3. CASE i > Len(s)
    <3>1. i - Len(s) \in DOMAIN t
      BY <2>1, <2>3
    <3>. QED  BY <1>1, <2>1, <2>3, <3>1 DEF Range
  <2>. QED  BY <2>1, <2>2, <2>3
<1>. QED  BY <1>1, <1>2 DEF Range

LEMMA TwoForOne ==
  ASSUME NEW s \in Seq(Ref), NEW i \in DOMAIN s, NEW left \in Ref, NEW right \in Ref
  PROVE  /\ InsertAt(ReplaceAt(s, i, right), i, left) \in Seq(Ref)
         /\ Range(InsertAt(ReplaceAt(s, i, right), i, left)) \subseteq Range(s) \cup {left, right}
<1>. DEFINE t == ReplaceAt(s, i, right)
<1>1. /\ t \in Seq(Ref) /\ Len(t) = Len(s) /\ i \in 1 .. Len(s)
      /\ Range(t) \subseteq Range(s) \cup {right}
  BY DEF ReplaceAt, Range
<1>. HIDE DEF t
<1>2. /\ SubSeq(t, 1, i - 1) \in Seq(Ref) /\ Range(SubSeq(t, 1, i - 1)) \subseteq Range(t)
      /\ SubSeq(t, i, Len(t)) \in Seq(Ref) /\ Range(SubSeq(t, i, Len(t))) \subseteq Range(t)
  <2>1. 1 \in 1 .. (Len(t) + 1) /\ i - 1 \in 0 .. Len(t)
        /\ i \in 1 .. (Len(t) + 1) /\ Len(t) \in 0 .. Len(t)
    BY <1>1
  <2>. QED  BY <1>1, <2>1, PartOfSeq
<1>3. <<left>> \in Seq(Ref) /\ Range(<<left>>) = {left}
  BY DEF Range
<1>. DEFINE a == SubSeq(t, 1, i - 1) \o <<left>>
<1>4. a \in Seq(Ref) /\ Range(a) \subseteq Range(t) \cup {left}
  BY <1>2, <1>3, ConcatRange
<1>. DEFINE b == SubSeq(t, i, Len(t))
<1>5. InsertAt(t, i, left) = a \o b
  BY DEF InsertAt
<1>6. b \in Seq(Ref) /\ Range(b) \subseteq Range(t)
  BY <1>2
<1>. HIDE DEF a, b
<1>7. a \o b \in Seq(Ref) /\ Range(a \o b) \subseteq Range(a) \cup Range(b)
  BY <1>4, <1>6, ConcatRange
<1>8. Range(a \o b) \subseteq Range(t) \cup {left}
  BY <1>4, <1>6, <1>7
<1>. QED  BY <1>1, <1>5, <1>7, <1>8 DEF t

LEMMA PartType ==
  ASSUME NEW node \in Node, NEW m \in 1 .. (Len(node.children) + 1),
         NEW n \in 0 .. Len(node.children)
  PROVE  /\ Part(node, m, n) \in Node
         /\ Range(Part(node, m, n).children) \subseteq Range(node.children)
<1>1. node.children \in Seq(Ref)
  BY DEF Node
<1>2. /\ Part(node, m, n).children = SubSeq(node.children, m, n)
      /\ SubSeq(node.children, m, n) \in Seq(Ref) => Part(node, m, n) \in Node
  BY DEF Part, Node
<1>. QED  BY <1>1, <1>2, PartOfSeq

LEMMA SplitKeepsSInv ==
  ASSUME SInv, mode = "Ready", NEW parent \in DOMAIN cache, NEW slot \in OpenSlots(parent),
         Split(parent, slot), UNCHANGED <<blockDiskVars, systemVars>>
  PROVE  SInv'
<1>. DEFINE children == cache[parent].children
            child    == cache[children[slot]]
            half     == Len(child.children) \div 2
            front    == Part(child, 1, half)
            back     == Part(child, half + 1, Len(child.children))
            New(l, r) == InsertAt(ReplaceAt(children, slot, r), slot, l)
            E1(l)    == WriteNode(Tree, l, front)
            E2(l, r) == WriteNode(E1(l), r, back)
<1>1. /\ children \in Seq(Ref) /\ slot \in DOMAIN children
      /\ children[slot] \in DOMAIN cache /\ CanDirty(parent) /\ parent \in Ref
      /\ Range(children) \subseteq DOMAIN ephemeralIndirectionTable.graph
  BY CachedNode DEF OpenSlots, Split
<1>2. /\ child \in Node /\ child.children \in Seq(Ref)
      /\ Range(child.children) \subseteq DOMAIN ephemeralIndirectionTable.graph
  BY <1>1, CachedNode
<1>3. PICK left \in FreeRef(Tree, {}) : \E right \in FreeRef(Tree, {left}) :
        \E newparent \in Rewritten(cache[parent], New(left, right)) :
          Commit(WriteNode(E2(left, right), parent, newparent))
  BY DEF Split
<1>4. PICK right \in FreeRef(Tree, {left}) :
        \E newparent \in Rewritten(cache[parent], New(left, right)) :
          Commit(WriteNode(E2(left, right), parent, newparent))
  BY <1>3
<1>5. PICK newparent \in Rewritten(cache[parent], New(left, right)) :
        Commit(WriteNode(E2(left, right), parent, newparent))
  BY <1>4
<1>6. /\ Tree.table = ephemeralIndirectionTable /\ Tree.cache = cache
      /\ Tree.bound = refUpperBound /\ EditOK(Tree) /\ refUpperBound \in Ref
  BY TreeOK DEF Tree, SInv, TypeOK, BlockCacheTypeOK
<1>7. /\ left \in Ref /\ right \in Ref /\ left > refUpperBound /\ right > left
  <2>1. /\ left \in Ref /\ left > refUpperBound /\ right \in Ref /\ right > refUpperBound
        /\ right # left
        /\ \A r \in Ref : r > refUpperBound /\ r \notin DOMAIN cache => left <= r
        /\ right \notin DOMAIN cache
    BY <1>6, FreeRefType
  <2>. QED  BY <2>1 DEF Ref
<1>8. half \in 0 .. Len(child.children)
  <2>1. Len(child.children) \in Nat
    BY <1>2
  <2>2. \A k \in Nat : k \div 2 \in 0 .. k
    OBVIOUS
  <2>. QED  BY <2>1, <2>2
<1>. HIDE DEF child, half
<1>9. /\ front \in Node /\ Range(front.children) \subseteq Range(child.children)
      /\ back \in Node /\ Range(back.children) \subseteq Range(child.children)
  <2>1. /\ 1 \in 1 .. (Len(child.children) + 1) /\ half + 1 \in 1 .. (Len(child.children) + 1)
        /\ Len(child.children) \in 0 .. Len(child.children)
    BY <1>2, <1>8
  <2>. QED  BY <1>2, <1>8, <2>1, PartType
<1>. HIDE DEF front, back
<1>10. /\ EditOK(E1(left)) /\ E1(left).bound = left
       /\ DOMAIN E1(left).table.graph = DOMAIN ephemeralIndirectionTable.graph \cup {left}
       /\ DOMAIN E1(left).cache = DOMAIN cache \cup {left}
  <2>1. Rewritable(Tree, left)
    BY <1>6, <1>7 DEF Rewritable
  <2>. QED  BY <1>2, <1>6, <1>7, <1>9, <2>1, WriteNodeOK, WriteNodeExtends
<1>. HIDE DEF E1
<1>11. /\ EditOK(E2(left, right))
       /\ DOMAIN E2(left, right).table.graph =
            DOMAIN ephemeralIndirectionTable.graph \cup {left, right}
       /\ DOMAIN E2(left, right).cache = DOMAIN cache \cup {left, right}
  <2>1. Rewritable(E1(left), right)
    BY <1>7, <1>10 DEF Rewritable
  <2>. QED  BY <1>2, <1>7, <1>9, <1>10, <2>1, WriteNodeOK, WriteNodeExtends
<1>. HIDE DEF E2
<1>12. /\ New(left, right) \in Seq(Ref)
       /\ Range(New(left, right)) \subseteq Range(children) \cup {left, right}
  BY <1>1, <1>7, TwoForOne
<1>. HIDE DEF New
<1>13. newparent \in Node /\ newparent.children = New(left, right)
  BY <1>5, <1>12, CachedNode, RewrittenType
<1>14. EditOK(WriteNode(E2(left, right), parent, newparent))
  <2>1. Rewritable(E2(left, right), parent)
    BY <1>1, <1>11 DEF Rewritable
  <2>. QED  BY <1>1, <1>11, <1>12, <1>13, <2>1, WriteNodeOK
<1>. QED  BY <1>5, <1>14, CommitKeepsSInv DEF Edits

LEMMA RepivotLeafKeepsSInv ==
  ASSUME SInv, mode = "Ready", NEW ref \in DOMAIN cache, RepivotLeaf(ref),
         UNCHANGED <<blockDiskVars, systemVars>>
  PROVE  SInv'
<1>1. PICK leaf \in Rewritten(cache[ref], <<>>) : Commit(WriteNode(Tree, ref, leaf))
  BY DEF RepivotLeaf
<1>2. <<>> \in Seq(Ref) /\ Range(<<>>) = {}
  BY DEF Range
<1>3. leaf \in Node /\ leaf.children = <<>>
  BY <1>1, <1>2, CachedNode, RewrittenType
<1>4. ref \in Ref /\ Rewritable(Tree, ref)
  BY CachedNode DEF Rewritable, Tree, RepivotLeaf
<1>5. EditOK(WriteNode(Tree, ref, leaf))
  BY <1>2, <1>3, <1>4, TreeOK, WriteNodeOK
<1>. QED  BY <1>1, <1>5, CommitKeepsSInv DEF Edits

LEMMA EditTreeKeepsSInv ==
  ASSUME SInv, EditTree
  PROVE  SInv'
<1>1. CASE InsertKeyValue
  BY <1>1, InsertKeyValueKeepsSInv DEF EditTree
<1>2. CASE Grow
  BY <1>2, GrowKeepsSInv DEF EditTree
<1>3. CASE RunFlushPolicy
  <2>1. PICK parent \in OnPath : \E slot \in OpenSlots(parent) :
          Flush(parent, slot) \/ Split(parent, slot)
            \/ RepivotLeaf(cache[parent].children[slot])
    BY <1>3 DEF RunFlushPolicy
  <2>2. PICK slot \in OpenSlots(parent) :
          Flush(parent, slot) \/ Split(parent, slot)
            \/ RepivotLeaf(cache[parent].children[slot])
    BY <2>1
  <2>3. mode = "Ready" /\ parent \in DOMAIN cache
    BY <1>3 DEF RunFlushPolicy, OnPath
  <2>4. cache[parent].children[slot] \in DOMAIN cache
    BY DEF OpenSlots
  <2>. QED  BY <2>2, <2>3, <2>4, FlushKeepsSInv, SplitKeepsSInv, RepivotLeafKeepsSInv
            DEF EditTree
<1>. QED  BY <1>1, <1>2, <1>3 DEF EditTree

LEMMA DeallocKeepsSInv ==
  ASSUME SInv, mode = "Ready", NEW ref \in Deallocable(ephemeralIndirectionTable),
         Dealloc(ref), UNCHANGED <<blockDiskVars, systemVars>>
  PROVE  SInv'
<1>1. EditOK(RemoveNode(Tree, ref))
  <2>1. Tree.table = ephemeralIndirectionTable
    BY DEF Tree
  <2>. QED  BY <2>1, TreeOK, RemoveNodeOK DEF Dealloc
<1>. QED  BY <1>1, CommitKeepsSInv DEF Dealloc, Edits

-----------------------------------------------------------------------------
\* The initial state

LEMMA EmptyMap ==
  /\ DOMAIN <<>> = {} /\ Range(<<>>) = {}
  /\ \A S : <<>> \in [DOMAIN <<>> -> S]
  /\ \A f : DOMAIN f = {} => Range(f) = {}
<1>1. DOMAIN <<>> = {}
  OBVIOUS
<1>2. \A S : <<>> \in Seq(S)
  OBVIOUS
<1>3. \A S : <<>> \in [1 .. Len(<<>>) -> S]
  BY <1>2
<1>. QED  BY <1>1, <1>3 DEF Range

LEMMA EmptyTableType == IsTable(EmptyTable)
  BY EmptyMap DEF EmptyTable, IsTable

LEMMA NewAllocatorType == NewBlockAllocator({}) \in BlockAllocator
  BY DEF NewBlockAllocator, BlockAllocator

\* Mkfs makes a whole tree of the root alone.
LEMMA MkfsWhole ==
  ASSUME NEW loc \in TableLoc, BlockDiskInit(loc)
  PROVE  Whole(indirectionTables[loc]) /\ BlockDiskTypeOK
<1>. DEFINE t == indirectionTables[loc]
<1>1. t = [locs |-> Put(<<>>, Root, MinNodeBlockIndex), graph |-> Put(<<>>, Root, <<>>)]
  BY DEF BlockDiskInit
<1>2. /\ DOMAIN t.locs = {Root} /\ t.locs[Root] = MinNodeBlockIndex
      /\ DOMAIN t.graph = {Root} /\ t.graph[Root] = <<>>
  BY <1>1 DEF Put
<1>3. MinNodeBlockIndex \in NodeBlock /\ Root \in Ref
  BY LayoutAssumption, MaxRefAssumption DEF NodeBlock, Ref, Root
<1>4. <<>> \in Seq(Ref) /\ Range(<<>>) = {}
  BY EmptyMap
<1>5. IsTable(t)
  <2>1. Put(<<>>, Root, MinNodeBlockIndex) \in [{Root} -> NodeBlock]
    BY <1>3 DEF Put
  <2>2. Put(<<>>, Root, <<>>) \in [{Root} -> Seq(Ref)]
    BY <1>4 DEF Put
  <2>. QED  BY <1>1, <1>2, <1>3, <2>1, <2>2 DEF IsTable
<1>. HIDE DEF t
<1>6. WellFormed(t)
  BY <1>2, <1>4, <1>5 DEF WellFormed, Closed, InitLocBitmapSucceeds
<1>7. PICK val \in Value :
        nodes = [i \in NodeBlock |-> IF i = MinNodeBlockIndex
                                     THEN [val |-> val, children |-> <<>>] ELSE Garbage]
  BY DEF BlockDiskInit
<1>8. [val |-> val, children |-> <<>>] \in Node
  BY <1>4 DEF Node
<1>9. /\ nodes \in [NodeBlock -> Node \cup {Garbage}]
      /\ nodes[MinNodeBlockIndex] = [val |-> val, children |-> <<>>]
      /\ nodes[MinNodeBlockIndex] # Garbage
  BY <1>3, <1>7, <1>8, GarbageAssumption
<1>10. Intact(t)
  BY <1>2, <1>9 DEF Intact, IntactOn
<1>11. Whole(t)
  BY <1>2, <1>6, <1>10 DEF Whole
<1>12. BlockDiskTypeOK
  <2>1. /\ DOMAIN indirectionTables = TableLoc
        /\ \A l \in TableLoc : indirectionTables[l] = Garbage \/ l = loc
    BY DEF BlockDiskInit
  <2>2. \A l \in TableLoc : indirectionTables[l] = Garbage \/ IsTable(indirectionTables[l])
    BY <1>5, <2>1 DEF t
  <2>. QED  BY <1>9, <2>1, <2>2, EmptyMap DEF BlockDiskInit, BlockDiskTypeOK
<1>. QED  BY <1>11, <1>12 DEF t

LEMMA InitSInv == Init => SInv
<1>. SUFFICES ASSUME Init PROVE SInv
  OBVIOUS
<1>1. PICK loc \in TableLoc : BlockDiskInit(loc) /\ superblockLocs = {loc}
  BY DEF Init
<1>2. BlockDiskTypeOK /\ Whole(indirectionTables[loc])
  BY <1>1, MkfsWhole
<1>3. BlockCacheTypeOK
  <2>1. 0 \in Ref
    BY MaxRefAssumption DEF Ref
  <2>. QED
    BY <2>1, EmptyMap, EmptyTableType, NewAllocatorType
       DEF Init, BlockCacheInit, BlockCacheTypeOK
<1>4. TypeOK
  BY <1>1, <1>2, <1>3 DEF Init, TypeOK
<1>5. TablesInv /\ CacheInv /\ FrozenInv /\ WriteInv /\ AllocatorExact
  BY DEF Init, BlockCacheInit, TablesInv, CacheInv, FrozenInv, WriteInv, AllocatorExact
<1>6. LoadInv
  BY <1>1, <1>2, EmptyMap DEF Init, BlockCacheInit, BlockDiskInit, LoadInv
<1>7. SaveInv /\ ReadInv
  BY <1>1, EmptyMap DEF Init, BlockCacheInit, BlockDiskInit, SaveInv, ReadInv
<1>8. RequestsMatch
  <2>1. reqWriteNodes = [id \in DOMAIN outstandingBlockWrites |-> outstandingBlockWrites[id].loc]
    BY <1>1, EmptyMap DEF Init, BlockCacheInit, BlockDiskInit
  <2>. QED
    BY <1>1, <2>1, EmptyMap DEF Init, BlockCacheInit, BlockDiskInit, RequestsMatch, HasFrozen
<1>. QED  BY <1>4, <1>5, <1>6, <1>7, <1>8 DEF SInv

-----------------------------------------------------------------------------
\* Loading

\* With or without a table in memory, the recoverable tables on disk are whole,
\* and neither they nor their nodes are being written.
LEMMA RecoverableWhole ==
  ASSUME SInv, NEW loc \in superblockLocs
  PROVE  /\ loc \in TableLoc /\ Whole(indirectionTables[loc])
         /\ loc \notin Range(reqWriteIndirectionTables)
         /\ Blocks(indirectionTables[loc]) \cap Range(reqWriteNodes) = {}
<1>0. loc \in TableLoc
  BY DEF SInv, TypeOK
<1>1. Range(reqWriteNodes) = WrittenBlocks
  BY DEF SInv, RequestsMatch, WrittenBlocks, Range
<1>2. CASE mode # "Ready"
  <2>1. Whole(indirectionTables[loc])
    BY <1>2 DEF SInv, LoadInv
  <2>2. WrittenBlocks = {}
    BY <1>2 DEF SInv, LoadInv, WrittenBlocks
  <2>3. DOMAIN reqWriteIndirectionTables = {}
    BY <1>2 DEF SInv, LoadInv, RequestsMatch
  <2>. QED  BY <1>0, <1>1, <2>1, <2>2, <2>3, EmptyMap
<1>3. CASE mode = "Ready" /\ loc = persistentIndirectionTableLoc
  <2>1. indirectionTables[loc] = persistentIndirectionTable
    BY <1>3 DEF SInv, SaveInv
  <2>2. Whole(indirectionTables[loc])
    BY <1>3, <2>1 DEF SInv, TablesInv
  <2>3. Blocks(indirectionTables[loc]) \cap Range(reqWriteNodes) = {}
    BY <1>1, <1>3, <2>1 DEF SInv, WriteInv
  <2>4. ASSUME NEW id \in DOMAIN reqWriteIndirectionTables
        PROVE  reqWriteIndirectionTables[id] # loc
    <3>1. /\ reqWriteIndirectionTables[id] = frozenIndirectionTableLoc
          /\ id = outstandingIndirectionTableWrite /\ id # None
      BY DEF SInv, SaveInv, RequestsMatch
    <3>2. frozenIndirectionTableLoc = otherIndirectionTableLoc(loc)
      BY <1>3, <3>1 DEF SInv, SaveInv
    <3>. QED  BY <1>0, <3>1, <3>2 DEF otherIndirectionTableLoc, TableLoc
  <2>. QED  BY <1>0, <2>2, <2>3, <2>4 DEF Range
<1>4. CASE mode = "Ready" /\ loc # persistentIndirectionTableLoc
  <2>1. committer = "Writing" /\ loc = frozenIndirectionTableLoc
    BY <1>4 DEF SInv, LoadInv
  <2>2. /\ loc # None /\ HasFrozen /\ outstandingIndirectionTableWrite = None
        /\ DOMAIN reqWriteIndirectionTables = {}
    BY <2>1 DEF SInv, RequestsMatch
  <2>3. /\ indirectionTables[loc] = frozenIndirectionTable
        /\ RefsWithNoLoc(frozenIndirectionTable) = {}
        /\ Blocks(frozenIndirectionTable) \cap WrittenBlocks = {}
    BY <2>1, <2>2 DEF SInv, SaveInv
  <2>4. WellFormed(frozenIndirectionTable) /\ Intact(frozenIndirectionTable)
    BY <1>4, <2>2 DEF SInv, TablesInv
  <2>5. DOMAIN frozenIndirectionTable.locs = DOMAIN frozenIndirectionTable.graph
    BY <2>3, <2>4 DEF RefsWithNoLoc, WellFormed, IsTable
  <2>. QED  BY <1>0, <1>1, <2>2, <2>3, <2>4, <2>5, EmptyMap DEF Whole
<1>. QED  BY <1>2, <1>3, <1>4

LEMMA ReceiveLocKeepsSInv ==
  ASSUME SInv, NEW loc \in superblockLocs, receiveLoc(loc), UNCHANGED blockDiskVars,
         UNCHANGED systemVars
  PROVE  SInv'
<1>. USE DEF receiveLoc
<1>1. loc \in TableLoc /\ superblockLocs = {loc}
  BY DEF SInv, TypeOK, LoadInv
<1>2. TypeOK'
  BY <1>1 DEF SInv, TypeOK, BlockDiskTypeOK, BlockCacheTypeOK
<1>3. LoadInv'
  <2>1. DOMAIN reqReadIndirectionTables = {}
    BY DEF SInv, LoadInv
  <2>. QED  BY <1>1, <2>1 DEF SInv, LoadInv, Whole, Intact, IntactOn
<1>4. SaveInv'
  <2>1. committer = "Idle" /\ outstandingIndirectionTableWrite = None
    BY DEF SInv, LoadInv
  <2>2. frozenIndirectionTableLoc = None
    BY <2>1 DEF SInv, SaveInv
  <2>. QED  BY <2>1, <2>2 DEF SInv, SaveInv
<1>5. TablesInv' /\ CacheInv' /\ FrozenInv' /\ WriteInv' /\ AllocatorExact'
  BY DEF TablesInv, CacheInv, FrozenInv, WriteInv, AllocatorExact
<1>6. ReadInv' /\ RequestsMatch'
  BY DEF SInv, ReadInv, RequestsMatch, HasFrozen
<1>. QED  BY <1>2, <1>3, <1>4, <1>5, <1>6 DEF SInv

LEMMA PageInTableReqKeepsSInv ==
  ASSUME SInv, NEW id \in FreshReqId, PageInIndirectionTableReq(id), UNCHANGED systemVars
  PROVE  SInv'
<1>. USE DEF PageInIndirectionTableReq, RecvReadIndirectionTable
<1>1. id \in ReqId /\ persistentIndirectionTableLoc \in TableLoc
  BY DEF FreshReqId, SInv, LoadInv
<1>2. TypeOK'
  <2>1. /\ DOMAIN reqReadIndirectionTables' \in SUBSET ReqId
        /\ Range(reqReadIndirectionTables') \subseteq TableLoc
    BY <1>1 DEF SInv, TypeOK, BlockDiskTypeOK, Put, Range
  <2>2. BlockDiskTypeOK'
    BY <2>1 DEF SInv, TypeOK, BlockDiskTypeOK
  <2>3. BlockCacheTypeOK'
    BY <1>1 DEF SInv, TypeOK, BlockCacheTypeOK
  <2>. QED  BY <2>2, <2>3 DEF SInv, TypeOK
<1>3. LoadInv'
  <2>1. DOMAIN reqReadIndirectionTables = {}
    BY <1>1, NoneAssumption DEF SInv, LoadInv, TypeOK, BlockDiskTypeOK
  <2>2. /\ DOMAIN reqReadIndirectionTables' = {id}
        /\ reqReadIndirectionTables'[id] = persistentIndirectionTableLoc
    BY <2>1 DEF Put
  <2>. QED  BY <1>1, <2>2 DEF SInv, LoadInv, Whole, Intact, IntactOn
<1>4. SaveInv' /\ ReadInv' /\ RequestsMatch'
  BY DEF SInv, SaveInv, ReadInv, RequestsMatch, HasFrozen, WrittenBlocks
<1>5. TablesInv' /\ CacheInv' /\ FrozenInv' /\ WriteInv' /\ AllocatorExact'
  BY DEF TablesInv, CacheInv, FrozenInv, WriteInv, AllocatorExact
<1>. QED  BY <1>2, <1>3, <1>4, <1>5 DEF SInv

LEMMA PageInTableRespKeepsSInv ==
  ASSUME SInv, NEW id \in DOMAIN reqReadIndirectionTables,
         NEW table \in ReadResults(indirectionTables[reqReadIndirectionTables[id]]),
         PageInIndirectionTableResp(id, table), UNCHANGED systemVars
  PROVE  SInv'
<1>. USE DEF PageInIndirectionTableResp, AckReadIndirectionTable
<1>. DEFINE taken == /\ mode = "Loading" /\ id = indirectionTableRead
                     /\ table # Garbage /\ InitLocBitmapSucceeds(table)
<1>1. /\ mode = "Loading" /\ id = indirectionTableRead
      /\ reqReadIndirectionTables[id] = persistentIndirectionTableLoc
      /\ DOMAIN reqReadIndirectionTables = {id}
      /\ persistentIndirectionTableLoc \in superblockLocs
  BY DEF SInv, LoadInv
<1>2. /\ DOMAIN reqReadIndirectionTables' = {}
      /\ Range(reqReadIndirectionTables') \subseteq TableLoc
  BY <1>1 DEF Without, Restrict, Range
<1>3. BlockDiskTypeOK'
  BY <1>2 DEF SInv, TypeOK, BlockDiskTypeOK
<1>4. CASE ~taken
  <2>1. UNCHANGED <<loadVars, persistentVars, frozenVars, treeVars,
                    outstandingBlockWrites, outstandingBlockReads>>
    BY <1>4
  <2>2. TypeOK'
    BY <1>3, <2>1 DEF SInv, TypeOK, BlockCacheTypeOK
  <2>3. LoadInv'
    BY <1>2, <2>1 DEF SInv, LoadInv, Whole, Intact, IntactOn
  <2>4. SaveInv' /\ ReadInv' /\ RequestsMatch'
    BY <1>1, <2>1 DEF SInv, SaveInv, ReadInv, RequestsMatch, HasFrozen, WrittenBlocks
  <2>5. TablesInv' /\ CacheInv' /\ FrozenInv' /\ WriteInv' /\ AllocatorExact'
    BY <1>1, <2>1 DEF TablesInv, CacheInv, FrozenInv, WriteInv, AllocatorExact
  <2>. QED  BY <2>2, <2>3, <2>4, <2>5 DEF SInv
<1>5. CASE taken
  <2>1. /\ mode' = "Ready" /\ indirectionTableRead' = None
        /\ persistentIndirectionTable' = table /\ ephemeralIndirectionTable' = table
        /\ refUpperBound' = RefUpperBound(table)
        /\ blockAllocator' = NewBlockAllocator(InitLocBitmap(table))
    BY <1>5
  <2>2. table = indirectionTables[persistentIndirectionTableLoc]
    BY <1>1, <1>5 DEF ReadResults
  <2>3. Whole(table)
    BY <1>1, <2>2, RecoverableWhole
  <2>4. WellFormed(table) /\ Intact(table) /\ DOMAIN table.locs = DOMAIN table.graph
    BY <2>3 DEF Whole
  <2>5. /\ Intact(table)' /\ WellFormed(table)'
    BY <2>4 DEF Intact, IntactOn, WellFormed
  <2>6. RefUpperBound(table) \in Ref /\ \A r \in DOMAIN table.graph : r <= RefUpperBound(table)
    BY <2>4, RefUpperBoundType
  <2>7. /\ committer = "Idle" /\ ~HasFrozen /\ outstandingIndirectionTableWrite = None
        /\ DOMAIN outstandingBlockWrites = {} /\ DOMAIN outstandingBlockReads = {}
        /\ DOMAIN cache = {} /\ frozenIndirectionTableLoc = None
    BY <1>1 DEF SInv, LoadInv, SaveInv, RequestsMatch
  <2>8. Blocks(table) \subseteq BlockIndex /\ Reserved \subseteq BlockIndex
    <3>1. Blocks(table) \subseteq NodeBlock
      BY <2>4 DEF Blocks, Range, WellFormed, IsTable
    <3>. QED  BY <3>1, LayoutAssumption DEF NodeBlock, BlockIndex, Reserved
  <2>9. TypeOK'
    <3>1. blockAllocator' \in BlockAllocator
      BY <2>1, <2>8 DEF NewBlockAllocator, InitLocBitmap, BlockAllocator
    <3>2. BlockCacheTypeOK'
      BY <2>1, <2>4, <2>6, <3>1 DEF SInv, TypeOK, BlockCacheTypeOK, WellFormed
    <3>. QED  BY <1>3, <3>2 DEF SInv, TypeOK
  <2>10. TablesInv'
    BY <2>1, <2>4, <2>5, <2>7 DEF TablesInv, HasFrozen, Whole, Intact, IntactOn
  <2>11. LoadInv'
    BY <1>1, <1>2, <2>1 DEF SInv, LoadInv
  <2>12. SaveInv' /\ RequestsMatch'
    BY <2>1, <2>2, <2>7 DEF SInv, SaveInv, RequestsMatch, HasFrozen
  <2>13. CacheInv' /\ FrozenInv' /\ WriteInv'
    BY <2>1, <2>4, <2>6, <2>7
       DEF CacheInv, FrozenInv, WriteInv, HasFrozen, RefsWithNoLoc, WrittenBlocks
  <2>14. ReadInv'
    BY <2>1, <2>7 DEF SInv, ReadInv, RequestsMatch
  <2>15. AllocatorExact'
    BY <2>1, <2>7 DEF AllocatorExact, NewBlockAllocator, InitLocBitmap, Frozen, UsedBlocks,
                      WrittenBlocks, HasFrozen
  <2>. QED  BY <2>9, <2>10, <2>11, <2>12, <2>13, <2>14, <2>15 DEF SInv
<1>. QED  BY <1>4, <1>5

LEMMA LoadKeepsSInv ==
  ASSUME SInv, Load
  PROVE  SInv'
  BY ReceiveLocKeepsSInv, PageInTableReqKeepsSInv, PageInTableRespKeepsSInv DEF Load

-----------------------------------------------------------------------------
\* Reading nodes

\* A node that is wanted is in the tree, and on disk.
LEMMA WantedOnDisk ==
  ASSUME SInv, mode = "Ready", NEW ref \in Wanted
  PROVE  ref \in DOMAIN ephemeralIndirectionTable.locs \ DOMAIN cache
<1>1. ref \notin DOMAIN cache
  BY DEF Wanted
<1>2. ref \in DOMAIN ephemeralIndirectionTable.graph
  <2>1. CASE ref = Root
    BY <2>1 DEF SInv, TablesInv, WellFormed
  <2>2. CASE \E p \in OnPath : ref \in Range(cache[p].children)
    <3>1. PICK p \in DOMAIN cache : ref \in Range(cache[p].children)
      BY <2>2 DEF OnPath
    <3>. QED  BY <3>1, CachedNode
  <2>. QED  BY <2>1, <2>2 DEF Wanted
<1>. QED  BY <1>1, <1>2 DEF SInv, CacheInv, RefsWithNoLoc

LEMMA PageInNodeReqKeepsSInv ==
  ASSUME SInv, mode = "Ready", NEW ref \in Wanted, NEW id \in FreshReqId,
         PageInNodeReq(id, ref), UNCHANGED systemVars
  PROVE  SInv'
<1>. USE DEF PageInNodeReq, RecvReadNode
<1>1. /\ id \in ReqId /\ id \notin DOMAIN outstandingBlockReads
      /\ id \notin DOMAIN reqReadNodes
  BY DEF FreshReqId, Requests
<1>2. /\ ref \in DOMAIN ephemeralIndirectionTable.locs \ DOMAIN cache
      /\ ref \in Ref /\ ephemeralIndirectionTable.locs[ref] \in NodeBlock
  BY WantedOnDisk DEF SInv, TablesInv, WellFormed, IsTable
<1>3. TypeOK'
  <2>1. /\ DOMAIN reqReadNodes' \in SUBSET ReqId /\ Range(reqReadNodes') \subseteq NodeBlock
        /\ DOMAIN outstandingBlockReads' \in SUBSET ReqId
        /\ Range(outstandingBlockReads') \subseteq Ref
    BY <1>1, <1>2 DEF SInv, TypeOK, BlockDiskTypeOK, BlockCacheTypeOK, Put, Range
  <2>2. BlockDiskTypeOK'
    BY <2>1 DEF SInv, TypeOK, BlockDiskTypeOK
  <2>3. BlockCacheTypeOK'
    BY <2>1 DEF SInv, TypeOK, BlockCacheTypeOK
  <2>. QED  BY <2>2, <2>3 DEF SInv, TypeOK
<1>4. ReadInv'
  <2>1. /\ DOMAIN outstandingBlockReads' = DOMAIN outstandingBlockReads \cup {id}
        /\ outstandingBlockReads'[id] = ref
        /\ \A i \in DOMAIN outstandingBlockReads :
             outstandingBlockReads'[i] = outstandingBlockReads[i] /\ outstandingBlockReads[i] # ref
    BY <1>1 DEF Put, Range
  <2>2. /\ DOMAIN reqReadNodes' = DOMAIN reqReadNodes \cup {id}
        /\ reqReadNodes'[id] = ephemeralIndirectionTable.locs[ref]
        /\ \A i \in DOMAIN reqReadNodes : reqReadNodes'[i] = reqReadNodes[i]
    BY <1>1 DEF Put
  <2>3. DOMAIN reqReadNodes \subseteq DOMAIN outstandingBlockReads
    BY DEF SInv, RequestsMatch
  <2>4. ASSUME NEW i \in DOMAIN outstandingBlockReads'
        PROVE  /\ outstandingBlockReads'[i] \in DOMAIN ephemeralIndirectionTable.locs \ DOMAIN cache
               /\ \A j \in DOMAIN outstandingBlockReads' :
                    outstandingBlockReads'[j] = outstandingBlockReads'[i] => j = i
    BY <1>2, <2>1 DEF SInv, ReadInv
  <2>5. ASSUME NEW i \in DOMAIN reqReadNodes'
        PROVE  reqReadNodes'[i] = ephemeralIndirectionTable.locs[outstandingBlockReads'[i]]
    BY <1>1, <2>1, <2>2, <2>3 DEF SInv, ReadInv
  <2>. QED  BY <2>4, <2>5 DEF ReadInv
<1>5. RequestsMatch'
  BY DEF SInv, RequestsMatch, HasFrozen, Put
<1>6. TablesInv' /\ LoadInv' /\ SaveInv'
  BY DEF SInv, TablesInv, LoadInv, SaveInv, Whole, Intact, IntactOn, HasFrozen, WrittenBlocks
<1>7. CacheInv' /\ FrozenInv' /\ WriteInv' /\ AllocatorExact'
  BY DEF SInv, CacheInv, FrozenInv, WriteInv, AllocatorExact, HasFrozen, WrittenBlocks,
         UsedBlocks, Frozen
<1>. QED  BY <1>3, <1>4, <1>5, <1>6, <1>7 DEF SInv

LEMMA PageInNodeRespKeepsSInv ==
  ASSUME SInv, NEW id \in DOMAIN reqReadNodes,
         NEW node \in ReadResults(nodes[reqReadNodes[id]]), PageInNodeResp(id, node),
         UNCHANGED systemVars
  PROVE  SInv'
<1>. USE DEF PageInNodeResp, AckReadNode
<1>1. /\ DOMAIN reqReadNodes' = DOMAIN reqReadNodes \ {id}
      /\ \A i \in DOMAIN reqReadNodes' : reqReadNodes'[i] = reqReadNodes[i]
      /\ DOMAIN reqReadNodes \subseteq DOMAIN outstandingBlockReads
  BY DEF SInv, RequestsMatch, Without, Restrict
<1>2. BlockDiskTypeOK'
  <2>1. DOMAIN reqReadNodes' \in SUBSET ReqId /\ Range(reqReadNodes') \subseteq NodeBlock
    BY <1>1 DEF SInv, TypeOK, BlockDiskTypeOK, Range
  <2>. QED  BY <2>1 DEF SInv, TypeOK, BlockDiskTypeOK
<1>4. mode = "Ready"
  BY <1>1 DEF SInv, LoadInv
<1>5. TablesInv' /\ LoadInv' /\ SaveInv' /\ FrozenInv' /\ AllocatorExact'
  BY <1>4 DEF SInv, TablesInv, LoadInv, SaveInv, FrozenInv, AllocatorExact, Whole, Intact, IntactOn,
              HasFrozen, WrittenBlocks, UsedBlocks, Frozen
<1>6. CASE ~Accepts(id, node)
  <2>1. UNCHANGED <<cache, outstandingBlockReads>>
    BY <1>6
  <2>2. TypeOK'
    BY <1>2, <2>1 DEF SInv, TypeOK, BlockCacheTypeOK
  <2>3. CacheInv' /\ WriteInv'
    BY <2>1 DEF SInv, CacheInv, WriteInv, WrittenBlocks
  <2>4. ReadInv' /\ RequestsMatch'
    BY <1>1, <2>1 DEF SInv, ReadInv, RequestsMatch, HasFrozen
  <2>. QED  BY <1>5, <2>2, <2>3, <2>4 DEF SInv
<1>7. CASE Accepts(id, node)
  <2>. DEFINE ref == outstandingBlockReads[id]
  <2>1. /\ cache' = Put(cache, ref, node)
        /\ outstandingBlockReads' = Without(outstandingBlockReads, id)
    BY <1>7
  <2>2. /\ id \in DOMAIN outstandingBlockReads
        /\ ref \in DOMAIN ephemeralIndirectionTable.locs \ DOMAIN cache
        /\ node # Garbage /\ node.children = ephemeralIndirectionTable.graph[ref]
    BY <1>7 DEF Accepts
  <2>3. /\ node = nodes[ephemeralIndirectionTable.locs[ref]]
        /\ \A i \in DOMAIN outstandingBlockReads : outstandingBlockReads[i] = ref => i = id
    BY <2>2 DEF SInv, ReadInv, ReadResults
  <2>4. /\ ref \in DOMAIN ephemeralIndirectionTable.graph /\ ref \in Ref
        /\ ephemeralIndirectionTable.locs[ref] \in NodeBlock
    BY <1>4, <2>2 DEF SInv, TablesInv, WellFormed, IsTable
  <2>5. node \in Node
    BY <2>2, <2>3, <2>4 DEF SInv, TypeOK, BlockDiskTypeOK
  <2>. HIDE DEF ref
  <2>6. /\ DOMAIN cache' = DOMAIN cache \cup {ref} /\ cache'[ref] = node
        /\ \A r \in DOMAIN cache : cache'[r] = cache[r]
    BY <2>1, <2>2 DEF Put
  <2>7. /\ DOMAIN outstandingBlockReads' = DOMAIN outstandingBlockReads \ {id}
        /\ \A i \in DOMAIN outstandingBlockReads' :
             outstandingBlockReads'[i] = outstandingBlockReads[i]
    BY <2>1 DEF Without, Restrict
  <2>8. TypeOK'
    <3>1. DOMAIN cache' \in SUBSET Ref /\ cache' \in [DOMAIN cache' -> Node]
      BY <2>1, <2>4, <2>5, <2>6 DEF SInv, TypeOK, BlockCacheTypeOK, Put
    <3>2. /\ DOMAIN outstandingBlockReads' \in SUBSET ReqId
          /\ Range(outstandingBlockReads') \subseteq Ref
      BY <2>7 DEF SInv, TypeOK, BlockCacheTypeOK, Range
    <3>3. BlockCacheTypeOK'
      BY <3>1, <3>2 DEF SInv, TypeOK, BlockCacheTypeOK
    <3>. QED  BY <1>2, <3>3 DEF SInv, TypeOK
  <2>9. CacheInv'
    BY <2>2, <2>3, <2>4, <2>6 DEF SInv, CacheInv
  <2>10. WriteInv'
    BY <2>6 DEF SInv, WriteInv, WrittenBlocks
  <2>11. ReadInv'
    <3>1. ASSUME NEW i \in DOMAIN outstandingBlockReads'
          PROVE  /\ outstandingBlockReads'[i]
                      \in DOMAIN ephemeralIndirectionTable.locs \ DOMAIN cache'
                 /\ \A j \in DOMAIN outstandingBlockReads' :
                      outstandingBlockReads'[j] = outstandingBlockReads'[i] => j = i
      BY <2>3, <2>6, <2>7 DEF SInv, ReadInv
    <3>2. ASSUME NEW i \in DOMAIN reqReadNodes'
          PROVE  reqReadNodes'[i] = ephemeralIndirectionTable.locs[outstandingBlockReads'[i]]
      BY <1>1, <2>7 DEF SInv, ReadInv
    <3>. QED  BY <3>1, <3>2 DEF ReadInv
  <2>12. RequestsMatch'
    BY <1>1, <2>7 DEF SInv, RequestsMatch, HasFrozen
  <2>. QED  BY <1>5, <2>8, <2>9, <2>10, <2>11, <2>12 DEF SInv
<1>. QED  BY <1>6, <1>7

LEMMA ReadKeepsSInv ==
  ASSUME SInv, Read
  PROVE  SInv'
  BY PageInNodeReqKeepsSInv, PageInNodeRespKeepsSInv DEF Read

-----------------------------------------------------------------------------
\* Writing nodes

\* A block that is allocated belongs to no version and is not being written.
LEMMA AllocatedIsUnused ==
  ASSUME SInv, mode = "Ready", NEW loc \in Alloc(blockAllocator)
  PROVE  /\ loc \in NodeBlock /\ loc \in BlockIndex /\ loc \notin Reserved
         /\ loc \notin Blocks(ephemeralIndirectionTable)
         /\ HasFrozen => loc \notin Blocks(frozenIndirectionTable)
         /\ loc \notin Blocks(persistentIndirectionTable) /\ loc \notin WrittenBlocks
<1>1. loc \in BlockIndex /\ loc \notin blockAllocator.full
  BY DEF Alloc
<1>2. loc \notin Reserved /\ loc \notin UsedBlocks
  BY <1>1 DEF SInv, AllocatorExact
<1>3. loc \in NodeBlock
  BY <1>1, <1>2, LayoutAssumption DEF BlockIndex, Reserved, NodeBlock
<1>. QED  BY <1>1, <1>2, <1>3 DEF UsedBlocks, Frozen

\* A write to an unused block leaves every version as it is, and so does a
\* location added for a node that is what the version needs.
LEMMA WriteKeepsIntact ==
  ASSUME NEW disk \in [NodeBlock -> Node \cup {Garbage}], NEW t, WellFormed(t),
         IntactOn(disk, t), NEW loc \in NodeBlock, loc \notin Blocks(t), NEW node \in Node,
         NEW ref, AddsLoc(t, ref) => node.children = t.graph[ref]
  PROVE  /\ IntactOn([disk EXCEPT ![loc] = node], t)
         /\ \A r \in DOMAIN t.locs : [disk EXCEPT ![loc] = node][t.locs[r]] = disk[t.locs[r]]
         /\ IntactOn([disk EXCEPT ![loc] = node], AddLocIfPresent(t, ref, loc))
<1>. DEFINE new == [disk EXCEPT ![loc] = node]
<1>1. \A r \in DOMAIN t.locs : t.locs[r] # loc /\ t.locs[r] \in NodeBlock
  BY DEF Blocks, Range, WellFormed, IsTable
<1>2. \A r \in DOMAIN t.locs : new[t.locs[r]] = disk[t.locs[r]]
  BY <1>1
<1>3. new[loc] = node /\ node # Garbage
  BY GarbageAssumption
<1>. HIDE DEF new
<1>4. IntactOn(new, t)
  BY <1>2 DEF IntactOn
<1>5. CASE AddsLoc(t, ref)
  <2>. DEFINE u == AddLocIfPresent(t, ref, loc)
  <2>1. u.locs = Put(t.locs, ref, loc) /\ u.graph = t.graph
    BY <1>5 DEF AddLocIfPresent, WellFormed, IsTable
  <2>2. /\ DOMAIN u.locs = DOMAIN t.locs \cup {ref} /\ u.locs[ref] = loc
        /\ \A r \in DOMAIN t.locs \ {ref} : u.locs[r] = t.locs[r]
    BY <2>1 DEF Put
  <2>. HIDE DEF u
  <2>3. IntactOn(new, u)
    BY <1>2, <1>3, <1>5, <2>1, <2>2 DEF IntactOn
  <2>. QED  BY <1>2, <1>4, <2>3 DEF u, new
<1>6. CASE ~AddsLoc(t, ref)
  <2>1. AddLocIfPresent(t, ref, loc) = t
    BY <1>6 DEF AddLocIfPresent
  <2>. QED  BY <1>2, <1>4, <2>1 DEF new
<1>. QED  BY <1>5, <1>6

\* Where the references of a table are after a location is added.
LEMMA AddLocLocs ==
  ASSUME NEW t, WellFormed(t), NEW ref, NEW loc
  PROVE  /\ AddLocIfPresent(t, ref, loc).graph = t.graph
         /\ AddsLoc(t, ref) =>
              /\ DOMAIN AddLocIfPresent(t, ref, loc).locs = DOMAIN t.locs \cup {ref}
              /\ AddLocIfPresent(t, ref, loc).locs[ref] = loc
         /\ ~AddsLoc(t, ref) => AddLocIfPresent(t, ref, loc) = t
         /\ \A r \in DOMAIN t.locs : AddLocIfPresent(t, ref, loc).locs[r] = t.locs[r]
         /\ RefsWithNoLoc(AddLocIfPresent(t, ref, loc)) = RefsWithNoLoc(t) \ {ref}
<1>1. CASE ~AddsLoc(t, ref)
  BY <1>1 DEF AddLocIfPresent, AddsLoc, HasEmptyLoc, RefsWithNoLoc
<1>2. CASE AddsLoc(t, ref)
  <2>. DEFINE u == AddLocIfPresent(t, ref, loc)
  <2>1. /\ u.locs = Put(t.locs, ref, loc) /\ u.graph = t.graph
        /\ ref \in DOMAIN t.graph \ DOMAIN t.locs
    BY <1>2 DEF AddLocIfPresent, WellFormed, IsTable, AddsLoc, HasEmptyLoc
  <2>2. /\ DOMAIN u.locs = DOMAIN t.locs \cup {ref} /\ u.locs[ref] = loc
        /\ \A r \in DOMAIN t.locs : u.locs[r] = t.locs[r]
    BY <2>1 DEF Put
  <2>. HIDE DEF u
  <2>3. RefsWithNoLoc(u) = RefsWithNoLoc(t) \ {ref}
    BY <2>1, <2>2 DEF RefsWithNoLoc
  <2>. QED  BY <1>2, <2>1, <2>2, <2>3 DEF u
<1>. QED  BY <1>1, <1>2

LEMMA TryToWriteBlockKeepsSInv ==
  ASSUME SInv, mode = "Ready", NEW id \in FreshReqId, NEW ref \in DOMAIN cache,
         TryToWriteBlock(id, ref), UNCHANGED systemVars
  PROVE  SInv'
<1>. DEFINE E == ephemeralIndirectionTable
            F == frozenIndirectionTable
            P == persistentIndirectionTable
            inE == AddsLoc(E, ref)
            inF == HasFrozen /\ AddsLoc(F, ref)
<1>1. PICK loc \in Alloc(blockAllocator) :
        LET used0 == IF inE THEN MarkUsedEphemeral(blockAllocator, loc) ELSE blockAllocator
            used1 == MarkUsedOutstanding(used0, loc)
        IN  /\ RecvWriteNode(id, loc, cache[ref])
            /\ E' = AddLocIfPresent(E, ref, loc)
            /\ outstandingBlockWrites' =
                 Put(outstandingBlockWrites, id, [ref |-> ref, loc |-> loc])
            /\ F' = IF HasFrozen THEN AddLocIfPresent(F, ref, loc) ELSE None
            /\ blockAllocator' = IF inF THEN MarkUsedFrozen(used1, loc) ELSE used1
            /\ UNCHANGED <<loadVars, persistentVars, refUpperBound, frozenIndirectionTableLoc,
                       outstandingIndirectionTableWrite, outstandingBlockReads, cache>>
  BY DEF TryToWriteBlock
<1>2. /\ loc \in NodeBlock /\ loc \in BlockIndex /\ loc \notin Reserved
      /\ loc \notin Blocks(E)
      /\ HasFrozen => loc \notin Blocks(F)
      /\ loc \notin Blocks(P) /\ loc \notin WrittenBlocks
  BY AllocatedIsUnused
<1>3. /\ id \in ReqId /\ id \notin DOMAIN reqWriteNodes
      /\ id \notin DOMAIN outstandingBlockWrites /\ ref \in Ref /\ cache[ref] \in Node
  BY CachedNode DEF FreshReqId, Requests, SInv, RequestsMatch
<1>4. /\ UNCHANGED <<loadVars, persistentVars, refUpperBound, frozenIndirectionTableLoc,
                     outstandingIndirectionTableWrite, outstandingBlockReads, cache,
                     indirectionTables, reqReadIndirectionTables, reqReadNodes,
                     reqWriteIndirectionTables, systemVars>>
      /\ nodes' = [nodes EXCEPT ![loc] = cache[ref]]
      /\ reqWriteNodes' = Put(reqWriteNodes, id, loc)
  BY <1>1 DEF RecvWriteNode
<1>5. /\ WellFormed(E) /\ Intact(E) /\ WellFormed(P) /\ Intact(P)
      /\ DOMAIN P.locs = DOMAIN P.graph
      /\ HasFrozen => WellFormed(F) /\ Intact(F)
      /\ nodes \in [NodeBlock -> Node \cup {Garbage}]
  BY DEF SInv, TablesInv, Whole, TypeOK, BlockDiskTypeOK
<1>6. /\ ref \in DOMAIN E.graph /\ cache[ref].children = E.graph[ref]
      /\ inF => inE /\ cache[ref].children = F.graph[ref]
  BY DEF SInv, CacheInv, FrozenInv, AddsLoc, HasEmptyLoc, RefsWithNoLoc
<1>7. /\ E' = AddLocIfPresent(E, ref, loc) /\ E'.graph = E.graph
      /\ \A r \in DOMAIN E.locs : E'.locs[r] = E.locs[r]
      /\ inE => DOMAIN E'.locs = DOMAIN E.locs \cup {ref} /\ E'.locs[ref] = loc
      /\ ~inE => E' = E
      /\ RefsWithNoLoc(E') = RefsWithNoLoc(E) \ {ref}
      /\ WellFormed(E')
      /\ Blocks(E') = IF inE THEN Blocks(E) \cup {loc} ELSE Blocks(E)
  <2>1. E' = AddLocIfPresent(E, ref, loc)
    BY <1>1
  <2>2. /\ WellFormed(AddLocIfPresent(E, ref, loc))
        /\ Blocks(AddLocIfPresent(E, ref, loc)) = IF inE THEN Blocks(E) \cup {loc} ELSE Blocks(E)
    BY <1>2, <1>5, AddLocWellFormed
  <2>. DEFINE u == AddLocIfPresent(E, ref, loc)
  <2>3. /\ u.graph = E.graph
        /\ \A r \in DOMAIN E.locs : u.locs[r] = E.locs[r]
        /\ inE => DOMAIN u.locs = DOMAIN E.locs \cup {ref} /\ u.locs[ref] = loc
        /\ ~inE => u = E
        /\ RefsWithNoLoc(u) = RefsWithNoLoc(E) \ {ref}
    BY <1>5, AddLocLocs
  <2>. HIDE DEF u, E, inE
  <2>. QED  BY <2>1, <2>2, <2>3 DEF u
<1>8. /\ HasFrozen' <=> HasFrozen
      /\ HasFrozen =>
           /\ F' = AddLocIfPresent(F, ref, loc) /\ F'.graph = F.graph
           /\ ~inF => F' = F
           /\ RefsWithNoLoc(F') = RefsWithNoLoc(F) \ {ref}
           /\ WellFormed(F')
           /\ Blocks(F') = IF inF THEN Blocks(F) \cup {loc} ELSE Blocks(F)
  <2>1. CASE ~HasFrozen
    BY <1>1, <2>1 DEF HasFrozen
  <2>2. CASE HasFrozen
    <3>1. /\ F' = AddLocIfPresent(F, ref, loc) /\ F'.graph = F.graph
          /\ ~inF => F' = F
          /\ RefsWithNoLoc(F') = RefsWithNoLoc(F) \ {ref}
          /\ WellFormed(F')
          /\ Blocks(F') = IF inF THEN Blocks(F) \cup {loc} ELSE Blocks(F)
      <4>1. F' = AddLocIfPresent(F, ref, loc)
        BY <1>1, <2>2
      <4>2. /\ WellFormed(AddLocIfPresent(F, ref, loc))
            /\ Blocks(AddLocIfPresent(F, ref, loc)) =
                 IF AddsLoc(F, ref) THEN Blocks(F) \cup {loc} ELSE Blocks(F)
        BY <1>2, <1>5, <2>2, AddLocWellFormed
      <4>. DEFINE u == AddLocIfPresent(F, ref, loc)
      <4>3. /\ u.graph = F.graph
            /\ ~AddsLoc(F, ref) => u = F
            /\ RefsWithNoLoc(u) = RefsWithNoLoc(F) \ {ref}
        BY <1>5, <2>2, AddLocLocs
      <4>. HIDE DEF u, F
      <4>. QED  BY <2>2, <4>1, <4>2, <4>3 DEF u
    <3>2. F' # None
      BY <3>1, TableNotNone DEF WellFormed
    <3>. QED  BY <2>2, <3>1, <3>2 DEF HasFrozen
  <2>. QED  BY <2>1, <2>2
<1>9. /\ DOMAIN outstandingBlockWrites' = DOMAIN outstandingBlockWrites \cup {id}
      /\ outstandingBlockWrites'[id] = [ref |-> ref, loc |-> loc]
      /\ \A i \in DOMAIN outstandingBlockWrites :
           outstandingBlockWrites'[i] = outstandingBlockWrites[i]
      /\ WrittenBlocks' = WrittenBlocks \cup {loc}
  <2>1. /\ DOMAIN outstandingBlockWrites' = DOMAIN outstandingBlockWrites \cup {id}
        /\ outstandingBlockWrites'[id] = [ref |-> ref, loc |-> loc]
        /\ \A i \in DOMAIN outstandingBlockWrites :
             outstandingBlockWrites'[i] = outstandingBlockWrites[i]
    BY <1>1, <1>3 DEF Put
  <2>. QED  BY <1>3, <2>1 DEF WrittenBlocks
<1>10. /\ Intact(E)' /\ Intact(P)' /\ IntactOn(nodes', E)
       /\ HasFrozen => Intact(F)'
       /\ \A r \in DOMAIN E.locs : nodes'[E.locs[r]] = nodes[E.locs[r]]
  <2>1. /\ IntactOn(nodes', AddLocIfPresent(E, ref, loc)) /\ IntactOn(nodes', E)
        /\ \A r \in DOMAIN E.locs : nodes'[E.locs[r]] = nodes[E.locs[r]]
    <3>1. AddsLoc(E, ref) => cache[ref].children = E.graph[ref]
      BY <1>6
    <3>2. WellFormed(E) /\ IntactOn(nodes, E) /\ loc \notin Blocks(E)
      BY <1>2, <1>5 DEF Intact
    <3>3. /\ loc \in NodeBlock /\ cache[ref] \in Node
          /\ nodes \in [NodeBlock -> Node \cup {Garbage}]
          /\ nodes' = [nodes EXCEPT ![loc] = cache[ref]]
      BY <1>2, <1>3, <1>4, <1>5
    <3>. HIDE DEF E
    <3>4. IntactOn(nodes', AddLocIfPresent(E, ref, loc))
      BY <3>1, <3>2, <3>3, WriteKeepsIntact
    <3>5. IntactOn(nodes', E)
      BY <3>1, <3>2, <3>3, WriteKeepsIntact
    <3>6. \A r \in DOMAIN E.locs : nodes'[E.locs[r]] = nodes[E.locs[r]]
      BY <3>1, <3>2, <3>3, WriteKeepsIntact
    <3>. QED  BY <3>4, <3>5, <3>6
  <2>2. IntactOn(nodes', P)
    <3>1. \A r \in DOMAIN P.graph : r \notin RefsWithNoLoc(P)
      BY <1>5 DEF RefsWithNoLoc
    <3>2. ~AddsLoc(P, ref)
      BY <3>1 DEF AddsLoc, HasEmptyLoc, RefsWithNoLoc
    <3>. QED  BY <1>2, <1>3, <1>4, <1>5, <3>2, WriteKeepsIntact DEF Intact
  <2>3. ASSUME HasFrozen PROVE IntactOn(nodes', AddLocIfPresent(F, ref, loc))
    <3>1. AddsLoc(F, ref) => cache[ref].children = F.graph[ref]
      BY <1>6, <2>3
    <3>2. WellFormed(F) /\ IntactOn(nodes, F) /\ loc \notin Blocks(F)
      BY <1>2, <1>5, <2>3 DEF Intact
    <3>. HIDE DEF F
    <3>. QED  BY <1>2, <1>3, <1>4, <1>5, <3>1, <3>2, WriteKeepsIntact
  <2>. QED  BY <1>4, <1>7, <1>8, <2>1, <2>2, <2>3 DEF Intact
<1>11. blockAllocator' \in BlockAllocator
       /\ blockAllocator'.ephemeral =
            (IF inE THEN blockAllocator.ephemeral \cup {loc} ELSE blockAllocator.ephemeral)
       /\ blockAllocator'.frozen =
            (IF inF THEN blockAllocator.frozen \cup {loc} ELSE blockAllocator.frozen)
       /\ blockAllocator'.persistent = blockAllocator.persistent
       /\ blockAllocator'.outstanding = blockAllocator.outstanding \cup {loc}
       /\ blockAllocator'.full = blockAllocator.full \cup {loc}
  <2>. DEFINE ba == blockAllocator
              used0 == IF inE THEN MarkUsedEphemeral(ba, loc) ELSE ba
              used1 == MarkUsedOutstanding(used0, loc)
              used2 == IF inF THEN MarkUsedFrozen(used1, loc) ELSE used1
  <2>1. ba \in BlockAllocator
    BY DEF SInv, TypeOK, BlockCacheTypeOK
  <2>2. /\ used0 \in BlockAllocator
        /\ used0.ephemeral = IF inE THEN ba.ephemeral \cup {loc} ELSE ba.ephemeral
        /\ used0.frozen = ba.frozen /\ used0.persistent = ba.persistent
        /\ used0.outstanding = ba.outstanding
        /\ used0.full = ba.full \/ used0.full = ba.full \cup {loc}
    BY <1>2, <2>1 DEF MarkUsedEphemeral, BlockAllocator
  <2>. HIDE DEF used0
  <2>3. /\ used1 \in BlockAllocator
        /\ used1.ephemeral = used0.ephemeral
        /\ used1.frozen = used0.frozen /\ used1.persistent = used0.persistent
        /\ used1.outstanding = used0.outstanding \cup {loc}
        /\ used1.full = used0.full \cup {loc}
    BY <1>2, <2>2 DEF MarkUsedOutstanding, BlockAllocator
  <2>. HIDE DEF used1
  <2>4. /\ used2 \in BlockAllocator
        /\ used2.ephemeral = used1.ephemeral
        /\ used2.frozen = IF inF THEN used1.frozen \cup {loc} ELSE used1.frozen
        /\ used2.persistent = used1.persistent
        /\ used2.outstanding = used1.outstanding
        /\ used2.full = used1.full \cup {loc}
    BY <1>2, <2>3 DEF MarkUsedFrozen, BlockAllocator
  <2>. HIDE DEF used2
  <2>5. blockAllocator' = used2
    BY <1>1 DEF used0, used1, used2
  <2>. QED  BY <2>2, <2>3, <2>4, <2>5
<1>12. UNCHANGED <<P, mode, committer, superblockLocs>>
  BY <1>4
<1>13. TypeOK'
  <2>1. DOMAIN reqWriteNodes' \in SUBSET ReqId /\ Range(reqWriteNodes') \subseteq NodeBlock
    BY <1>2, <1>3, <1>4 DEF SInv, TypeOK, BlockDiskTypeOK, Put, Range
  <2>2. nodes' \in [NodeBlock -> Node \cup {Garbage}]
    BY <1>3, <1>4, <1>5
  <2>3. BlockDiskTypeOK'
    BY <1>4, <2>1, <2>2 DEF SInv, TypeOK, BlockDiskTypeOK
  <2>4. /\ DOMAIN outstandingBlockWrites' \in SUBSET ReqId
        /\ Range(outstandingBlockWrites') \subseteq [ref : Ref, loc : NodeBlock]
    BY <1>2, <1>3, <1>9 DEF SInv, TypeOK, BlockCacheTypeOK, Range
  <2>5. IsTable(E') /\ (F' = None \/ IsTable(F'))
    BY <1>7, <1>8 DEF WellFormed, HasFrozen
  <2>6. BlockCacheTypeOK'
    BY <1>4, <1>11, <2>4, <2>5 DEF SInv, TypeOK, BlockCacheTypeOK
  <2>. QED  BY <1>4, <2>3, <2>6 DEF SInv, TypeOK
<1>14. TablesInv'
  BY <1>5, <1>7, <1>8, <1>10, <1>12 DEF TablesInv, Whole
<1>15. LoadInv'
  BY <1>4 DEF SInv, LoadInv
<1>. HIDE DEF inE, inF
<1>16. SaveInv'
  <2>1. ASSUME frozenIndirectionTableLoc # None
        PROVE  F' = F /\ HasFrozen
    <3>1. committer # "Idle" /\ RefsWithNoLoc(F) = {}
      BY <2>1 DEF SInv, SaveInv
    <3>2. HasFrozen
      BY <3>1 DEF SInv, RequestsMatch
    <3>3. ~AddsLoc(F, ref)
      BY <3>1 DEF AddsLoc, HasEmptyLoc, RefsWithNoLoc
    <3>. QED  BY <1>8, <3>2, <3>3 DEF inF
  <2>. QED  BY <1>2, <1>4, <1>9, <2>1 DEF SInv, SaveInv
<1>17. CacheInv'
  <2>1. ASSUME NEW r \in DOMAIN cache \cap DOMAIN E'.locs
        PROVE  cache[r] = nodes'[E'.locs[r]]
    <3>1. CASE r \in DOMAIN E.locs
      BY <1>7, <1>10, <3>1 DEF SInv, CacheInv
    <3>2. CASE r \notin DOMAIN E.locs
      <4>1. r = ref /\ E'.locs[r] = loc
        BY <1>7, <3>2
      <4>. QED  BY <1>2, <1>4, <1>5, <4>1
    <3>. QED  BY <3>1, <3>2
  <2>. QED  BY <1>4, <1>7, <2>1 DEF SInv, CacheInv
<1>18. FrozenInv'
  BY <1>4, <1>7, <1>8 DEF SInv, FrozenInv
<1>19. WriteInv'
  <2>1. Blocks(P') \cap WrittenBlocks' = {}
    BY <1>2, <1>9, <1>12 DEF SInv, WriteInv
  <2>2. ASSUME NEW r \in DOMAIN E'.locs, NEW i \in DOMAIN outstandingBlockWrites',
               outstandingBlockWrites'[i].loc = E'.locs[r]
        PROVE  outstandingBlockWrites'[i].ref = r /\ r \in DOMAIN cache'
    <3>1. CASE i = id
      <4>1. E'.locs[r] = loc
        BY <1>9, <2>2, <3>1
      <4>2. r \notin DOMAIN E.locs
        BY <1>2, <1>7, <4>1 DEF Blocks, Range
      <4>3. r = ref
        BY <1>7, <4>2
      <4>. QED  BY <1>4, <1>9, <3>1, <4>3
    <3>2. CASE i # id
      <4>1. i \in DOMAIN outstandingBlockWrites /\ outstandingBlockWrites'[i] = outstandingBlockWrites[i]
        BY <1>9, <3>2
      <4>2. E'.locs[r] # loc
        BY <1>2, <2>2, <4>1 DEF WrittenBlocks
      <4>3. r \in DOMAIN E.locs /\ E'.locs[r] = E.locs[r]
        BY <1>7, <4>2
      <4>. QED  BY <1>4, <2>2, <4>1, <4>3 DEF SInv, WriteInv
    <3>. QED  BY <3>1, <3>2
  <2>. QED  BY <2>1, <2>2 DEF WriteInv
<1>20. ReadInv'
  <2>1. \A r \in DOMAIN E.locs : r \in DOMAIN E'.locs /\ E'.locs[r] = E.locs[r]
    BY <1>7
  <2>2. DOMAIN reqReadNodes \subseteq DOMAIN outstandingBlockReads
    BY DEF SInv, RequestsMatch
  <2>. QED  BY <1>4, <2>1, <2>2 DEF SInv, ReadInv
<1>21. AllocatorExact'
  <2>1. /\ blockAllocator.ephemeral = Reserved \cup Blocks(E)
        /\ blockAllocator.frozen = (IF HasFrozen THEN Reserved \cup Blocks(F) ELSE {})
        /\ blockAllocator.persistent = Reserved \cup Blocks(P)
        /\ blockAllocator.outstanding = WrittenBlocks
        /\ blockAllocator.full = Reserved \cup UsedBlocks
    BY DEF SInv, AllocatorExact, Frozen
  <2>2. /\ Blocks(P') = Blocks(P)
        /\ HasFrozen => Frozen' = (IF inF THEN Frozen \cup {loc} ELSE Frozen)
        /\ ~HasFrozen => Frozen' = Frozen /\ ~inF
    BY <1>8, <1>12 DEF Frozen, inF
  <2>3. UsedBlocks' = UsedBlocks \cup {loc}
    BY <1>7, <1>9, <2>2 DEF UsedBlocks
  <2>4. blockAllocator'.frozen = IF HasFrozen' THEN Reserved \cup Frozen' ELSE {}
    BY <1>8, <1>11, <2>1, <2>2 DEF Frozen
  <2>. QED  BY <1>7, <1>9, <1>11, <2>1, <2>2, <2>3, <2>4 DEF AllocatorExact
<1>22. RequestsMatch'
  <2>1. reqWriteNodes = [i \in DOMAIN outstandingBlockWrites |-> outstandingBlockWrites[i].loc]
    BY DEF SInv, RequestsMatch
  <2>2. reqWriteNodes' = [i \in DOMAIN outstandingBlockWrites' |-> outstandingBlockWrites'[i].loc]
    BY <1>4, <1>9, <2>1 DEF Put
  <2>3. \A i \in DOMAIN reqWriteNodes : reqWriteNodes[i] # loc
    BY <1>2, <2>1 DEF WrittenBlocks
  <2>4. \A i, j \in DOMAIN reqWriteNodes' : reqWriteNodes'[i] = reqWriteNodes'[j] => i = j
    BY <1>4, <2>3 DEF SInv, RequestsMatch, Put
  <2>. QED  BY <1>4, <1>8, <2>2, <2>4 DEF SInv, RequestsMatch
<1>. QED
  BY <1>13, <1>14, <1>15, <1>16, <1>17, <1>18, <1>19, <1>20, <1>21, <1>22 DEF SInv

LEMMA EvictKeepsSInv ==
  ASSUME SInv, mode = "Ready", NEW ref \in DOMAIN cache, ~NeedToWrite(ref), CanEvict(ref),
         cache' = Without(cache, ref),
         UNCHANGED <<loadVars, persistentVars, frozenVars, refUpperBound,
                     ephemeralIndirectionTable, blockAllocator, outstandingBlockWrites,
                     outstandingBlockReads, blockDiskVars, systemVars>>
  PROVE  SInv'
<1>1. /\ DOMAIN cache' = DOMAIN cache \ {ref}
      /\ \A r \in DOMAIN cache' : cache'[r] = cache[r]
      /\ cache \in [DOMAIN cache -> Node] => cache' \in [DOMAIN cache' -> Node]
  BY DEF Without, Restrict
<1>2. TypeOK'
  BY <1>1 DEF SInv, TypeOK, BlockDiskTypeOK, BlockCacheTypeOK
<1>3. ref \in DOMAIN ephemeralIndirectionTable.locs
  BY DEF NeedToWrite, HasEmptyLoc, SInv, CacheInv
<1>4. CacheInv'
  BY <1>1, <1>3 DEF SInv, CacheInv, RefsWithNoLoc
<1>5. WriteInv'
  <2>1. ref \in DOMAIN ephemeralIndirectionTable.graph
    BY DEF SInv, CacheInv
  <2>2. ASSUME NEW id \in DOMAIN outstandingBlockWrites
        PROVE  outstandingBlockWrites[id].loc # ephemeralIndirectionTable.locs[ref]
    <3>. SUFFICES ASSUME outstandingBlockWrites[id].loc = ephemeralIndirectionTable.locs[ref]
                  PROVE  FALSE
      OBVIOUS
    <3>1. outstandingBlockWrites[id].ref = ref
      BY <1>3 DEF SInv, WriteInv
    <3>2. outstandingBlockWrites[id] \in [ref : Ref, loc : NodeBlock]
      BY DEF SInv, TypeOK, BlockCacheTypeOK, Range
    <3>3. outstandingBlockWrites[id] = [ref |-> ref, loc |-> ephemeralIndirectionTable.locs[ref]]
      BY <3>1, <3>2
    <3>. QED  BY <2>1, <3>3 DEF CanEvict, Range
  <2>. QED  BY <1>1, <2>2 DEF SInv, WriteInv, WrittenBlocks
<1>6. ReadInv' /\ RequestsMatch' /\ FrozenInv' /\ AllocatorExact'
  BY <1>1 DEF SInv, ReadInv, RequestsMatch, FrozenInv, AllocatorExact, HasFrozen, WrittenBlocks,
              UsedBlocks, Frozen
<1>7. TablesInv' /\ LoadInv' /\ SaveInv'
  BY DEF SInv, TablesInv, LoadInv, SaveInv, Whole, Intact, IntactOn, HasFrozen, WrittenBlocks
<1>. QED  BY <1>2, <1>4, <1>5, <1>6, <1>7 DEF SInv

LEMMA MakeRoomKeepsSInv ==
  ASSUME SInv, MakeRoom
  PROVE  SInv'
<1>1. EvictOrDealloc /\ UNCHANGED systemVars /\ mode = "Ready"
  BY DEF MakeRoom, EvictOrDealloc
<1>2. CASE \E ref \in Deallocable(ephemeralIndirectionTable) :
             Dealloc(ref) /\ UNCHANGED blockDiskVars
  BY <1>1, <1>2, DeallocKeepsSInv
<1>3. ASSUME NEW ref \in DOMAIN cache, NEW id \in FreshReqId, TryToWriteBlock(id, ref)
      PROVE  SInv'
  BY <1>1, <1>3, TryToWriteBlockKeepsSInv
<1>4. ASSUME NEW ref \in DOMAIN cache, ~NeedToWrite(ref), CanEvict(ref),
             cache' = Without(cache, ref),
             UNCHANGED <<loadVars, persistentVars, frozenVars, refUpperBound,
                         ephemeralIndirectionTable, blockAllocator, outstandingBlockWrites,
                         outstandingBlockReads, blockDiskVars>>
      PROVE  SInv'
  BY <1>1, <1>4, EvictKeepsSInv
<1>. QED  BY <1>1, <1>2, <1>3, <1>4 DEF EvictOrDealloc

\* The acknowledgement of a node: its block is not written by another request.
LEMMA NodeWrittenKeepsSInv ==
  ASSUME SInv, NodeWritten
  PROVE  SInv'
<1>1. PICK id \in DOMAIN reqWriteNodes : writeNodeResponse(id)
  BY DEF NodeWritten
<1>. USE DEF writeNodeResponse, AckWriteNode
<1>. DEFINE loc == outstandingBlockWrites[id].loc
<1>2. /\ mode = "Ready" /\ mode' = "Ready" /\ id \in DOMAIN outstandingBlockWrites
      /\ UNCHANGED <<loadVars, persistentVars, frozenVars, ephemeralIndirectionTable,
                     refUpperBound, cache, outstandingBlockReads, systemVars, nodes,
                     indirectionTables, reqReadIndirectionTables, reqReadNodes,
                     reqWriteIndirectionTables>>
  BY <1>1 DEF NodeWritten
<1>3. /\ DOMAIN outstandingBlockWrites' = DOMAIN outstandingBlockWrites \ {id}
      /\ \A i \in DOMAIN outstandingBlockWrites' :
           outstandingBlockWrites'[i] = outstandingBlockWrites[i]
  BY <1>1 DEF Without, Restrict
<1>4. /\ DOMAIN reqWriteNodes' = DOMAIN reqWriteNodes \ {id}
      /\ \A i \in DOMAIN reqWriteNodes' : reqWriteNodes'[i] = reqWriteNodes[i]
      /\ reqWriteNodes' = [i \in DOMAIN reqWriteNodes \ {id} |-> reqWriteNodes[i]]
  BY <1>1 DEF Without, Restrict
<1>5. /\ reqWriteNodes = [i \in DOMAIN outstandingBlockWrites |-> outstandingBlockWrites[i].loc]
      /\ \A i, j \in DOMAIN reqWriteNodes : reqWriteNodes[i] = reqWriteNodes[j] => i = j
  BY DEF SInv, RequestsMatch
<1>6. loc \in NodeBlock /\ loc \in WrittenBlocks
  <2>1. outstandingBlockWrites[id] \in [ref : Ref, loc : NodeBlock]
    BY <1>2 DEF SInv, TypeOK, BlockCacheTypeOK, Range
  <2>. QED  BY <1>2, <2>1 DEF WrittenBlocks
<1>7. WrittenBlocks' = WrittenBlocks \ {loc}
  <2>1. \A i \in DOMAIN outstandingBlockWrites : outstandingBlockWrites[i].loc = loc => i = id
    BY <1>2, <1>5
  <2>. QED  BY <1>2, <1>3, <2>1 DEF WrittenBlocks
<1>8. blockAllocator' = MarkFreeOutstanding(blockAllocator, loc)
  BY <1>1
<1>9. /\ blockAllocator' \in BlockAllocator
      /\ blockAllocator'.ephemeral = blockAllocator.ephemeral
      /\ blockAllocator'.frozen = blockAllocator.frozen
      /\ blockAllocator'.persistent = blockAllocator.persistent
      /\ blockAllocator'.outstanding = blockAllocator.outstanding \ {loc}
      /\ blockAllocator'.full =
           (IF loc \in blockAllocator.frozen \cup blockAllocator.ephemeral
                        \cup blockAllocator.persistent
            THEN blockAllocator.full ELSE blockAllocator.full \ {loc})
  <2>1. blockAllocator \in BlockAllocator
    BY DEF SInv, TypeOK, BlockCacheTypeOK
  <2>. QED  BY <1>8, <2>1 DEF MarkFreeOutstanding, BlockAllocator
<1>10. TypeOK'
  <2>1. DOMAIN reqWriteNodes' \in SUBSET ReqId /\ Range(reqWriteNodes') \subseteq NodeBlock
    BY <1>4 DEF SInv, TypeOK, BlockDiskTypeOK, Range
  <2>2. BlockDiskTypeOK'
    BY <1>2, <2>1 DEF SInv, TypeOK, BlockDiskTypeOK
  <2>3. /\ DOMAIN outstandingBlockWrites' \in SUBSET ReqId
        /\ Range(outstandingBlockWrites') \subseteq [ref : Ref, loc : NodeBlock]
    BY <1>3 DEF SInv, TypeOK, BlockCacheTypeOK, Range
  <2>4. BlockCacheTypeOK'
    BY <1>2, <1>9, <2>3 DEF SInv, TypeOK, BlockCacheTypeOK
  <2>. QED  BY <1>2, <2>2, <2>4 DEF SInv, TypeOK
<1>. HIDE DEF writeNodeResponse, AckWriteNode, loc
<1>11. TablesInv' /\ LoadInv' /\ CacheInv' /\ FrozenInv'
  BY <1>2 DEF SInv, TablesInv, LoadInv, CacheInv, FrozenInv, Whole, Intact, IntactOn, HasFrozen
<1>12. SaveInv' /\ WriteInv' /\ ReadInv'
  BY <1>2, <1>3, <1>7 DEF SInv, SaveInv, WriteInv, ReadInv
<1>13. AllocatorExact'
  <2>1. /\ blockAllocator.ephemeral = Reserved \cup Blocks(ephemeralIndirectionTable)
        /\ blockAllocator.frozen = (IF HasFrozen THEN Reserved \cup Frozen ELSE {})
        /\ blockAllocator.persistent = Reserved \cup Blocks(persistentIndirectionTable)
        /\ blockAllocator.outstanding = WrittenBlocks
        /\ blockAllocator.full = Reserved \cup UsedBlocks
    BY <1>2 DEF SInv, AllocatorExact
  <2>2. loc \notin Reserved
    BY <1>6, LayoutAssumption DEF NodeBlock, Reserved
  <2>3. /\ Frozen' = Frozen /\ (HasFrozen' <=> HasFrozen)
        /\ ~HasFrozen => Frozen = {}
    BY <1>2 DEF Frozen, HasFrozen
  <2>4. UsedBlocks' = UNION {Blocks(ephemeralIndirectionTable), Frozen,
                             Blocks(persistentIndirectionTable), WrittenBlocks \ {loc}}
    BY <1>2, <1>7, <2>3 DEF UsedBlocks
  <2>5. blockAllocator'.full = Reserved \cup UsedBlocks'
    BY <1>6, <1>9, <2>1, <2>2, <2>3, <2>4 DEF UsedBlocks
  <2>. QED  BY <1>2, <1>7, <1>9, <2>1, <2>3, <2>5 DEF AllocatorExact
<1>14. RequestsMatch'
  <2>1. reqWriteNodes' = [i \in DOMAIN outstandingBlockWrites' |-> outstandingBlockWrites'[i].loc]
    BY <1>2, <1>3, <1>4, <1>5
  <2>2. \A i, j \in DOMAIN reqWriteNodes' : reqWriteNodes'[i] = reqWriteNodes'[j] => i = j
    BY <1>4, <1>5
  <2>. QED  BY <1>2, <2>1, <2>2 DEF SInv, RequestsMatch, HasFrozen
<1>. QED  BY <1>10, <1>11, <1>12, <1>13, <1>14 DEF SInv

-----------------------------------------------------------------------------
\* Freezing, writing the frozen table and making it the persistent one

LEMMA FreezeKeepsSInv ==
  ASSUME SInv, Freeze, committer = "Idle", committer' = "Frozen",
         UNCHANGED <<blockDiskVars, superblockLocs>>
  PROVE  SInv'
<1>. USE DEF Freeze
<1>1. /\ WellFormed(ephemeralIndirectionTable) /\ Intact(ephemeralIndirectionTable)
      /\ IsTable(ephemeralIndirectionTable) /\ ephemeralIndirectionTable # None
  BY TableNotNone DEF SInv, TablesInv, WellFormed
<1>2. HasFrozen' /\ frozenIndirectionTableLoc' = None
  BY <1>1 DEF HasFrozen
<1>3. /\ blockAllocator' \in BlockAllocator
      /\ blockAllocator'.ephemeral = blockAllocator.ephemeral
      /\ blockAllocator'.frozen = blockAllocator.ephemeral
      /\ blockAllocator'.persistent = blockAllocator.persistent
      /\ blockAllocator'.outstanding = blockAllocator.outstanding
      /\ blockAllocator'.full = blockAllocator.full
  BY DEF SInv, TypeOK, BlockCacheTypeOK, CopyEphemeralToFrozen, BlockAllocator
<1>4. TypeOK'
  BY <1>1, <1>3 DEF SInv, TypeOK, BlockDiskTypeOK, BlockCacheTypeOK
<1>5. TablesInv'
  BY <1>1 DEF SInv, TablesInv, Whole, Intact, IntactOn
<1>6. LoadInv' /\ ReadInv' /\ CacheInv' /\ WriteInv'
  BY DEF SInv, LoadInv, ReadInv, CacheInv, WriteInv, Whole, Intact, IntactOn, WrittenBlocks
<1>7. SaveInv'
  BY <1>2 DEF SInv, SaveInv, WrittenBlocks
<1>8. FrozenInv'
  BY DEF FrozenInv, RefsWithNoLoc
<1>9. AllocatorExact'
  BY <1>2, <1>3 DEF SInv, AllocatorExact, Frozen, UsedBlocks, WrittenBlocks, HasFrozen
<1>10. RequestsMatch'
  BY <1>2 DEF SInv, RequestsMatch
<1>. QED  BY <1>4, <1>5, <1>6, <1>7, <1>8, <1>9, <1>10 DEF SInv

LEMMA SyncUnfrozenKeepsSInv ==
  ASSUME SInv, SyncUnfrozen
  PROVE  SInv'
<1>1. CASE Freeze /\ committer' = "Frozen"
  BY <1>1, FreezeKeepsSInv DEF SyncUnfrozen
<1>2. CASE DeallocBeforeFreeze /\ UNCHANGED committer
  BY <1>2, DeallocKeepsSInv DEF SyncUnfrozen, DeallocBeforeFreeze, systemVars
<1>. QED  BY <1>1, <1>2 DEF SyncUnfrozen

LEMMA WriteFrozenTableKeepsSInv ==
  ASSUME SInv, committer = "Frozen", NEW id \in FreshReqId, WriteFrozenTable(id),
         UNCHANGED systemVars
  PROVE  SInv'
<1>. USE DEF WriteFrozenTable, RecvWriteIndirectionTable
<1>. DEFINE loc == otherIndirectionTableLoc(persistentIndirectionTableLoc)
<1>1. /\ mode = "Ready" /\ HasFrozen /\ id \in ReqId /\ id # None
      /\ persistentIndirectionTableLoc \in TableLoc
  BY NoneAssumption DEF FrozenNodesWritten, FreshReqId, SInv, LoadInv
<1>2. loc \in TableLoc /\ loc # persistentIndirectionTableLoc /\ loc # None
  BY <1>1, NoneAssumption DEF otherIndirectionTableLoc, TableLoc
<1>3. outstandingIndirectionTableWrite = None /\ DOMAIN reqWriteIndirectionTables = {}
  BY DEF SInv, SaveInv, RequestsMatch
<1>4. /\ DOMAIN reqWriteIndirectionTables' = {id} /\ reqWriteIndirectionTables'[id] = loc
      /\ Range(reqWriteIndirectionTables') = {loc}
  BY <1>3 DEF Put, Range
<1>5. /\ DOMAIN indirectionTables' = TableLoc
      /\ indirectionTables'[loc] = frozenIndirectionTable
      /\ \A l \in TableLoc \ {loc} : indirectionTables'[l] = indirectionTables[l]
  BY <1>2 DEF SInv, TypeOK, BlockDiskTypeOK
<1>6. /\ frozenIndirectionTableLoc' = loc /\ outstandingIndirectionTableWrite' = id
      /\ frozenIndirectionTable' = frozenIndirectionTable
      /\ persistentIndirectionTableLoc' = persistentIndirectionTableLoc
      /\ UNCHANGED <<loadVars, persistentVars, frozenIndirectionTable, treeVars,
                     outstandingBlockWrites, outstandingBlockReads, nodes,
                     reqReadIndirectionTables, reqReadNodes, reqWriteNodes, systemVars>>
  OBVIOUS
<1>7. IsTable(frozenIndirectionTable)
  BY <1>1 DEF SInv, TypeOK, BlockCacheTypeOK, HasFrozen
<1>8. RefsWithNoLoc(frozenIndirectionTable) = {} /\ WrittenBlocks = {}
  BY EmptyMap DEF FrozenNodesWritten, WrittenBlocks
<1>. HIDE DEF WriteFrozenTable, RecvWriteIndirectionTable
<1>9. TypeOK'
  <2>1. \A l \in TableLoc : indirectionTables'[l] = Garbage \/ IsTable(indirectionTables'[l])
    BY <1>5, <1>7 DEF SInv, TypeOK, BlockDiskTypeOK
  <2>2. BlockDiskTypeOK'
    BY <1>1, <1>2, <1>4, <1>5, <1>6, <2>1 DEF SInv, TypeOK, BlockDiskTypeOK
  <2>3. BlockCacheTypeOK'
    BY <1>1, <1>2, <1>6 DEF SInv, TypeOK, BlockCacheTypeOK
  <2>. QED  BY <1>6, <2>2, <2>3 DEF SInv, TypeOK
<1>10. SaveInv'
  <2>1. indirectionTables'[persistentIndirectionTableLoc] = persistentIndirectionTable
    BY <1>1, <1>2, <1>5 DEF SInv, SaveInv
  <2>2. WrittenBlocks' = {}
    BY <1>6, <1>8 DEF WrittenBlocks
  <2>3. /\ committer' = "Frozen" /\ mode' = "Ready"
        /\ RefsWithNoLoc(frozenIndirectionTable') = {}
        /\ Blocks(frozenIndirectionTable') \cap WrittenBlocks' = {}
        /\ indirectionTables'[frozenIndirectionTableLoc'] = frozenIndirectionTable'
        /\ indirectionTables'[persistentIndirectionTableLoc'] = persistentIndirectionTable'
    BY <1>1, <1>5, <1>6, <1>8, <2>1, <2>2
  <2>4. \A i \in DOMAIN reqWriteIndirectionTables' :
          reqWriteIndirectionTables'[i] = frozenIndirectionTableLoc'
    BY <1>4, <1>6
  <2>. QED  BY <1>2, <1>6, <2>3, <2>4 DEF SaveInv
<1>11. RequestsMatch'
  BY <1>1, <1>2, <1>4, <1>6 DEF SInv, RequestsMatch, HasFrozen
<1>12. LoadInv' /\ TablesInv'
  BY <1>1, <1>6 DEF SInv, LoadInv, TablesInv, Whole, Intact, IntactOn, HasFrozen
<1>13. CacheInv' /\ FrozenInv' /\ WriteInv' /\ ReadInv' /\ AllocatorExact'
  BY <1>6 DEF SInv, CacheInv, FrozenInv, WriteInv, ReadInv, AllocatorExact, HasFrozen,
              WrittenBlocks, UsedBlocks, Frozen
<1>. QED  BY <1>9, <1>10, <1>11, <1>12, <1>13 DEF SInv

LEMMA SyncFrozenKeepsSInv ==
  ASSUME SInv, SyncFrozen
  PROVE  SInv'
<1>1. committer = "Frozen" /\ UNCHANGED systemVars
  BY DEF SyncFrozen
<1>2. ASSUME NEW id \in FreshReqId, NEW ref \in RefsWithNoLoc(frozenIndirectionTable),
             WriteFrozenNode(id, ref)
      PROVE  SInv'
  <2>1. mode = "Ready" /\ HasFrozen /\ TryToWriteBlock(id, ref)
    BY <1>1, <1>2 DEF WriteFrozenNode, SInv, RequestsMatch
  <2>2. ref \in DOMAIN cache
    BY <2>1 DEF SInv, FrozenInv, CacheInv
  <2>. QED  BY <1>1, <2>1, <2>2, TryToWriteBlockKeepsSInv
<1>3. ASSUME NEW id \in FreshReqId, WriteFrozenTable(id)
      PROVE  SInv'
  BY <1>1, <1>3, WriteFrozenTableKeepsSInv
<1>. QED  BY <1>2, <1>3 DEF SyncFrozen

LEMMA FrozenTableWrittenKeepsSInv ==
  ASSUME SInv, FrozenTableWritten
  PROVE  SInv'
<1>1. PICK id \in DOMAIN reqWriteIndirectionTables : writeIndirectionTableResponse(id)
  BY DEF FrozenTableWritten
<1>. USE DEF writeIndirectionTableResponse, AckWriteIndirectionTable
<1>2. /\ mode = "Ready" /\ id = outstandingIndirectionTableWrite
      /\ outstandingIndirectionTableWrite' = None /\ committer' = "Located"
      /\ UNCHANGED <<loadVars, persistentVars, frozenIndirectionTable, treeVars,
                     frozenIndirectionTableLoc, outstandingBlockWrites, outstandingBlockReads,
                     indirectionTables, nodes, reqReadIndirectionTables, reqReadNodes,
                     reqWriteNodes, superblockLocs>>
      /\ reqWriteIndirectionTables' = Without(reqWriteIndirectionTables, id)
  BY <1>1 DEF FrozenTableWritten
<1>3. /\ DOMAIN reqWriteIndirectionTables = {id}
      /\ committer = "Frozen" /\ frozenIndirectionTableLoc # None /\ HasFrozen
  BY <1>2 DEF SInv, RequestsMatch, SaveInv
<1>. HIDE DEF writeIndirectionTableResponse, AckWriteIndirectionTable
<1>4. DOMAIN reqWriteIndirectionTables' = {} /\ Range(reqWriteIndirectionTables') = {}
  BY <1>2, <1>3 DEF Without, Restrict, Range
<1>5. TypeOK'
  BY <1>2, <1>4 DEF SInv, TypeOK, BlockDiskTypeOK, BlockCacheTypeOK
<1>6. SaveInv' /\ RequestsMatch'
  BY <1>2, <1>3, <1>4 DEF SInv, SaveInv, RequestsMatch, HasFrozen, WrittenBlocks
<1>7. LoadInv' /\ TablesInv'
  BY <1>2, <1>3 DEF SInv, LoadInv, TablesInv, Whole, Intact, IntactOn, HasFrozen
<1>8. CacheInv' /\ FrozenInv' /\ WriteInv' /\ ReadInv' /\ AllocatorExact'
  BY <1>2 DEF SInv, CacheInv, FrozenInv, WriteInv, ReadInv, AllocatorExact, HasFrozen,
              WrittenBlocks, UsedBlocks, Frozen
<1>. QED  BY <1>5, <1>6, <1>7, <1>8 DEF SInv

LEMMA WriteSuperblockKeepsSInv ==
  ASSUME SInv, WriteSuperblock
  PROVE  SInv'
<1>1. /\ committer = "Located" /\ committer' = "Writing" /\ UNCHANGED <<blockDiskVars, blockCacheVars>>
      /\ superblockLocs' = superblockLocs \cup {frozenIndirectionTableLoc}
  BY DEF WriteSuperblock
<1>2. /\ frozenIndirectionTableLoc # None /\ outstandingIndirectionTableWrite = None
      /\ frozenIndirectionTableLoc \in TableLoc /\ mode = "Ready"
  BY <1>1 DEF SInv, RequestsMatch, LoadInv, TypeOK, BlockCacheTypeOK
<1>3. TypeOK' /\ RequestsMatch' /\ LoadInv'
  BY <1>1, <1>2 DEF SInv, TypeOK, BlockDiskTypeOK, BlockCacheTypeOK, RequestsMatch, LoadInv,
                    HasFrozen
<1>4. SaveInv' /\ TablesInv'
  BY <1>1, <1>2 DEF SInv, SaveInv, TablesInv, Whole, Intact, IntactOn, HasFrozen, WrittenBlocks
<1>5. CacheInv' /\ FrozenInv' /\ WriteInv' /\ ReadInv' /\ AllocatorExact'
  BY <1>1 DEF SInv, CacheInv, FrozenInv, WriteInv, ReadInv, AllocatorExact, HasFrozen,
              WrittenBlocks, UsedBlocks, Frozen
<1>. QED  BY <1>3, <1>4, <1>5 DEF SInv

LEMMA SuperblockWrittenKeepsSInv ==
  ASSUME SInv, SuperblockWritten
  PROVE  SInv'
<1>1. /\ committer = "Writing" /\ committer' = "Idle"
      /\ superblockLocs' = {frozenIndirectionTableLoc}
      /\ persistentIndirectionTable' = frozenIndirectionTable
      /\ persistentIndirectionTableLoc' = frozenIndirectionTableLoc
      /\ frozenIndirectionTable' = None /\ frozenIndirectionTableLoc' = None
      /\ blockAllocator' = MoveFrozenToPersistent(blockAllocator)
      /\ UNCHANGED <<loadVars, outstandingIndirectionTableWrite, ephemeralIndirectionTable,
                     refUpperBound, cache, outstandingBlockWrites, outstandingBlockReads,
                     blockDiskVars>>
  BY DEF SuperblockWritten, cleanUp
<1>2. /\ frozenIndirectionTableLoc # None /\ outstandingIndirectionTableWrite = None
      /\ frozenIndirectionTableLoc \in TableLoc /\ mode = "Ready" /\ HasFrozen
  BY <1>1 DEF SInv, RequestsMatch, LoadInv, TypeOK, BlockCacheTypeOK
<1>3. /\ WellFormed(frozenIndirectionTable) /\ Intact(frozenIndirectionTable)
      /\ RefsWithNoLoc(frozenIndirectionTable) = {}
      /\ Blocks(frozenIndirectionTable) \cap WrittenBlocks = {}
      /\ indirectionTables[frozenIndirectionTableLoc] = frozenIndirectionTable
  BY <1>2 DEF SInv, TablesInv, SaveInv
<1>4. Whole(frozenIndirectionTable)
  BY <1>3 DEF Whole, RefsWithNoLoc, WellFormed, IsTable
<1>5. ~HasFrozen'
  BY <1>1 DEF HasFrozen
<1>6. /\ blockAllocator.ephemeral = Reserved \cup Blocks(ephemeralIndirectionTable)
      /\ blockAllocator.frozen = Reserved \cup Blocks(frozenIndirectionTable)
      /\ blockAllocator.outstanding = WrittenBlocks
  BY <1>2 DEF SInv, AllocatorExact, Frozen
<1>7. /\ blockAllocator' \in BlockAllocator
      /\ blockAllocator'.ephemeral = blockAllocator.ephemeral
      /\ blockAllocator'.frozen = {}
      /\ blockAllocator'.persistent = blockAllocator.frozen
      /\ blockAllocator'.outstanding = blockAllocator.outstanding
      /\ blockAllocator'.full = blockAllocator.ephemeral \cup blockAllocator.frozen
                                  \cup blockAllocator.outstanding
  <2>1. blockAllocator \in BlockAllocator
    BY DEF SInv, TypeOK, BlockCacheTypeOK
  <2>. QED  BY <1>1, <2>1 DEF MoveFrozenToPersistent, BlockAllocator
<1>8. TypeOK'
  BY <1>1, <1>2, <1>3, <1>7
     DEF SInv, TypeOK, BlockDiskTypeOK, BlockCacheTypeOK, WellFormed
<1>9. TablesInv'
  BY <1>1, <1>4, <1>5 DEF SInv, TablesInv, Whole, Intact, IntactOn
<1>10. SaveInv' /\ LoadInv' /\ RequestsMatch'
  BY <1>1, <1>2, <1>3, <1>5 DEF SInv, SaveInv, LoadInv, RequestsMatch, WrittenBlocks
<1>11. CacheInv' /\ FrozenInv' /\ ReadInv'
  BY <1>1, <1>5 DEF SInv, CacheInv, FrozenInv, ReadInv
<1>12. WriteInv'
  BY <1>1, <1>2, <1>3 DEF SInv, WriteInv, WrittenBlocks
<1>13. AllocatorExact'
  BY <1>1, <1>5, <1>6, <1>7 DEF AllocatorExact, Frozen, UsedBlocks, WrittenBlocks
<1>. QED  BY <1>8, <1>9, <1>10, <1>11, <1>12, <1>13 DEF SInv

\* What is being written may be lost: no recoverable table is, nor a node of one.
LEMMA CrashKeepsSInv ==
  ASSUME SInv, Crash
  PROVE  SInv'
<1>. USE DEF Crash, BlockCacheCrash
<1>1. PICK loc \in superblockLocs : superblockLocs' = {loc}
  OBVIOUS
<1>2. PICK tornTables \in SUBSET Range(reqWriteIndirectionTables) :
        indirectionTables' = Havoc(indirectionTables, tornTables)
  BY DEF BlockDiskCrash
<1>3. PICK tornNodes \in SUBSET Range(reqWriteNodes) : nodes' = Havoc(nodes, tornNodes)
  BY DEF BlockDiskCrash
<1>. DEFINE t == indirectionTables[loc]
<1>4. /\ loc \in TableLoc /\ Whole(t) /\ loc \notin tornTables
      /\ Blocks(t) \cap tornNodes = {}
  BY <1>1, RecoverableWhole
<1>5. /\ DOMAIN indirectionTables' = TableLoc /\ indirectionTables'[loc] = t
      /\ \A l \in TableLoc : \/ indirectionTables'[l] = Garbage
                             \/ indirectionTables'[l] = indirectionTables[l]
  BY <1>2, <1>4 DEF Havoc, SInv, TypeOK, BlockDiskTypeOK
<1>6. /\ nodes' \in [NodeBlock -> Node \cup {Garbage}]
      /\ \A i \in NodeBlock \ tornNodes : nodes'[i] = nodes[i]
  BY <1>3 DEF Havoc, SInv, TypeOK, BlockDiskTypeOK
<1>7. /\ reqReadIndirectionTables' = <<>> /\ reqReadNodes' = <<>>
      /\ reqWriteIndirectionTables' = <<>> /\ reqWriteNodes' = <<>>
  BY DEF BlockDiskCrash
<1>8. Whole(indirectionTables[loc])'
  <2>. HIDE DEF t
  <2>1. \A ref \in DOMAIN t.locs : t.locs[ref] \in NodeBlock \ tornNodes
    BY <1>4 DEF Blocks, Range, Whole, WellFormed, IsTable
  <2>2. WellFormed(t) /\ IntactOn(nodes, t) /\ DOMAIN t.locs = DOMAIN t.graph
    BY <1>4 DEF Whole, Intact
  <2>3. IntactOn(nodes', t)
    BY <1>6, <2>1, <2>2 DEF IntactOn
  <2>. QED  BY <1>5, <2>2, <2>3 DEF Whole, Intact
<1>9. TypeOK'
  <2>1. BlockDiskTypeOK'
    BY <1>5, <1>6, <1>7, EmptyMap DEF SInv, TypeOK, BlockDiskTypeOK
  <2>2. 0 \in Ref
    BY MaxRefAssumption DEF Ref
  <2>3. BlockCacheTypeOK'
    BY <2>2, EmptyMap, EmptyTableType, NewAllocatorType DEF BlockCacheTypeOK
  <2>. QED  BY <1>1, <1>4, <2>1, <2>3 DEF TypeOK
<1>10. TablesInv' /\ CacheInv' /\ FrozenInv' /\ WriteInv' /\ AllocatorExact'
  BY DEF TablesInv, CacheInv, FrozenInv, WriteInv, AllocatorExact
<1>11. LoadInv'
  BY <1>1, <1>4, <1>7, <1>8, EmptyMap DEF LoadInv
<1>12. SaveInv' /\ ReadInv'
  BY <1>7, EmptyMap DEF SaveInv, ReadInv
<1>13. RequestsMatch'
  <2>1. reqWriteNodes' = [id \in DOMAIN outstandingBlockWrites' |-> outstandingBlockWrites'[id].loc]
    BY <1>7, EmptyMap
  <2>. QED  BY <1>7, <2>1, EmptyMap DEF RequestsMatch, HasFrozen
<1>. QED  BY <1>9, <1>10, <1>11, <1>12, <1>13 DEF SInv

-----------------------------------------------------------------------------
\* Theorems of the specification

LEMMA StutterKeepsSInv ==
  ASSUME SInv, UNCHANGED vars
  PROVE  SInv'
<1>. USE DEF vars
<1>1. TypeOK' /\ RequestsMatch' /\ LoadInv' /\ SaveInv' /\ TablesInv'
  BY DEF SInv, TypeOK, BlockDiskTypeOK, BlockCacheTypeOK, RequestsMatch, LoadInv, SaveInv,
         TablesInv, Whole, Intact, IntactOn, HasFrozen, WrittenBlocks
<1>2. CacheInv' /\ FrozenInv' /\ WriteInv' /\ ReadInv' /\ AllocatorExact'
  BY DEF SInv, CacheInv, FrozenInv, WriteInv, ReadInv, AllocatorExact, HasFrozen,
         WrittenBlocks, UsedBlocks, Frozen
<1>. QED  BY <1>1, <1>2 DEF SInv

LEMMA NextKeepsSInv == SInv /\ [Next]_vars => SInv'
<1>. SUFFICES ASSUME SInv, [Next]_vars PROVE SInv'
  OBVIOUS
<1>1. CASE Load
  BY <1>1, LoadKeepsSInv
<1>2. CASE EditTree
  BY <1>2, EditTreeKeepsSInv
<1>3. CASE Read
  BY <1>3, ReadKeepsSInv
<1>4. CASE MakeRoom
  BY <1>4, MakeRoomKeepsSInv
<1>5. CASE NodeWritten
  BY <1>5, NodeWrittenKeepsSInv
<1>6. CASE SyncUnfrozen
  BY <1>6, SyncUnfrozenKeepsSInv
<1>7. CASE SyncFrozen
  BY <1>7, SyncFrozenKeepsSInv
<1>8. CASE FrozenTableWritten
  BY <1>8, FrozenTableWrittenKeepsSInv
<1>9. CASE WriteSuperblock
  BY <1>9, WriteSuperblockKeepsSInv
<1>10. CASE SuperblockWritten
  BY <1>10, SuperblockWrittenKeepsSInv
<1>11. CASE Crash
  BY <1>11, CrashKeepsSInv
<1>12. CASE UNCHANGED vars
  BY <1>12, StutterKeepsSInv
<1>. QED
  BY <1>1, <1>2, <1>3, <1>4, <1>5, <1>6, <1>7, <1>8, <1>9, <1>10, <1>11, <1>12 DEF Next

\* The inductive invariant holds in every state of the specification.
THEOREM BlockSystemInvariance == Spec => []SInv
<1>1. Init => SInv
  BY InitSInv
<1>2. SInv /\ [Next]_vars => SInv'
  BY NextKeepsSInv
<1>. QED  BY <1>1, <1>2, PTL DEF Spec

\* Disk, cache and requests have their types.
THEOREM TypeCorrect == Spec => []TypeOK
<1>1. SInv => TypeOK
  BY DEF SInv
<1>. QED  BY <1>1, BlockSystemInvariance, PTL

\* No block is leaked and none handed out twice (BlockAllocatorImpl and its callers).
THEOREM AllocatorIsExact == Spec => []AllocatorExact
<1>1. SInv => AllocatorExact
  BY DEF SInv
<1>. QED  BY <1>1, BlockSystemInvariance, PTL

\* What the cache remembers of its requests is what is in flight (IOImpl, SyncImpl).
THEOREM RequestsAgree == Spec => []RequestsMatch
<1>1. SInv => RequestsMatch
  BY DEF SInv
<1>. QED  BY <1>1, BlockSystemInvariance, PTL

\* A crash at any moment leaves a whole tree to load (SyncImpl, IOImpl).
THEOREM RecoverableAlwaysIntact == Spec => []RecoverableIntact
<1>1. SInv => RecoverableIntact
  <2>. SUFFICES ASSUME SInv, NEW loc \in superblockLocs
                PROVE  /\ loc \notin Range(reqWriteIndirectionTables)
                       /\ CompleteTable(indirectionTables[loc])
                       /\ Blocks(indirectionTables[loc]) \cap Range(reqWriteNodes) = {}
    BY DEF RecoverableIntact
  <2>. DEFINE t == indirectionTables[loc]
  <2>1. /\ Whole(t) /\ loc \notin Range(reqWriteIndirectionTables)
        /\ Blocks(t) \cap Range(reqWriteNodes) = {}
    BY RecoverableWhole
  <2>. HIDE DEF t
  <2>2. t # Garbage
    <3>1. IsTable(t)
      BY <2>1 DEF Whole, WellFormed
    <3>2. DOMAIN t.locs \in SUBSET Ref /\ DOMAIN t.graph \in SUBSET Ref
      BY <3>1 DEF IsTable
    <3>3. /\ t.locs \in UNION {[refs -> NodeBlock] : refs \in SUBSET Ref}
          /\ t.graph \in UNION {[refs -> Seq(Ref)] : refs \in SUBSET Ref}
      BY <3>1, <3>2 DEF IsTable
    <3>. QED  BY <3>1, <3>3, GarbageAssumption DEF IsTable, Table
  <2>3. CompleteTable(t)
    BY <2>1, <2>2 DEF CompleteTable, Whole, WellFormed, Closed, Intact, IntactOn
  <2>. QED  BY <2>1, <2>3 DEF t
<1>. QED  BY <1>1, BlockSystemInvariance, PTL

\* Every node of every version is on disk or in the cache, and the one copy in
\* the cache serves the frozen version too (SyncImpl.syncFoundInFrozen).
THEOREM NothingIsLost == Spec => []NothingLost
<1>1. SInv => NothingLost
  <2>. SUFFICES ASSUME SInv, mode = "Ready" PROVE NothingLost
    BY DEF NothingLost
  <2>1. HasFrozen => RefsWithNoLoc(frozenIndirectionTable)
                       \subseteq RefsWithNoLoc(ephemeralIndirectionTable)
    BY DEF SInv, FrozenInv
  <2>. QED  BY <2>1 DEF NothingLost, SInv, CacheInv, RefsWithNoLoc
<1>. QED  BY <1>1, BlockSystemInvariance, PTL

\* Only a block in no version and in no write is written to.
LEMMA WritesSpareUsedBlocks ==
  ASSUME SInv, mode = "Ready", NEW id, NEW ref, TryToWriteBlock(id, ref),
         NEW i \in UsedBlocks
  PROVE  nodes'[i] = nodes[i]
<1>1. PICK loc \in Alloc(blockAllocator) : RecvWriteNode(id, loc, cache[ref])
  BY DEF TryToWriteBlock
<1>2. i # loc
  BY <1>1, AllocatedIsUnused DEF UsedBlocks, Frozen
<1>3. nodes' = [nodes EXCEPT ![loc] = cache[ref]]
  BY <1>1 DEF RecvWriteNode
<1>4. nodes \in [NodeBlock -> Node \cup {Garbage}] /\ loc \in NodeBlock
  BY AllocatedIsUnused DEF SInv, TypeOK, BlockDiskTypeOK
<1>. QED  BY <1>2, <1>3, <1>4

\* A block that is in use is not overwritten while the system runs.
THEOREM LiveBlocksKept == Spec => LiveBlocksStable
<1>1. SInv /\ [Next]_vars =>
        (mode = "Ready" /\ mode' = "Ready" => \A i \in UsedBlocks : nodes'[i] = nodes[i])
  <2>. SUFFICES ASSUME SInv, [Next]_vars, mode = "Ready", mode' = "Ready", NEW i \in UsedBlocks
                PROVE  nodes'[i] = nodes[i]
    OBVIOUS
  <2>1. CASE MakeRoom
    <3>1. CASE \E ref \in DOMAIN cache : \E id \in FreshReqId : TryToWriteBlock(id, ref)
      BY <3>1, WritesSpareUsedBlocks
    <3>2. CASE UNCHANGED nodes
      BY <3>2
    <3>. QED  BY <2>1, <3>1, <3>2 DEF MakeRoom, EvictOrDealloc
  <2>2. CASE SyncFrozen
    <3>1. CASE \E id \in FreshReqId : WriteFrozenTable(id)
      BY <3>1 DEF WriteFrozenTable, RecvWriteIndirectionTable
    <3>2. CASE \E id \in FreshReqId : \E ref \in RefsWithNoLoc(frozenIndirectionTable) :
                 WriteFrozenNode(id, ref)
      BY <3>2, WritesSpareUsedBlocks DEF WriteFrozenNode
    <3>. QED  BY <2>2, <3>1, <3>2 DEF SyncFrozen
  <2>3. CASE Load \/ Read \/ NodeWritten \/ FrozenTableWritten
    BY <2>3 DEF Load, PageInIndirectionTableReq, RecvReadIndirectionTable,
       PageInIndirectionTableResp, AckReadIndirectionTable, Read, PageInNodeReq, RecvReadNode,
       PageInNodeResp, AckReadNode, NodeWritten, writeNodeResponse, AckWriteNode,
       FrozenTableWritten, writeIndirectionTableResponse, AckWriteIndirectionTable
  <2>4. CASE EditTree \/ SyncUnfrozen \/ WriteSuperblock \/ SuperblockWritten \/ UNCHANGED vars
    BY <2>4 DEF EditTree, SyncUnfrozen, WriteSuperblock, SuperblockWritten, vars
  <2>5. CASE Crash
    BY <2>5 DEF Crash, BlockCacheCrash
  <2>. QED  BY <2>1, <2>2, <2>3, <2>4, <2>5 DEF Next
<1>. QED  BY <1>1, BlockSystemInvariance, PTL DEF Spec, LiveBlocksStable

-----------------------------------------------------------------------------
\* Reads: one that succeeds is taken, and a node that is being read is never to be
\* deallocated.  The second needs that the node stays in the tree: an operation that
\* takes a node out of the tree puts in copies with the same children, and what is
\* being read is not in the cache, where the operations take nodes from.

\* A reference of the tree other than the root has a predecessor.
LEMMA ReachableIsHeld ==
  ASSUME NEW t, Root \in DOMAIN t.graph, Closed(t), NEW ref, Reachable(t, ref)
  PROVE  ref \notin Deallocable(t)
<1>. SUFFICES ASSUME ref \in Deallocable(t) PROVE FALSE
  OBVIOUS
<1>. DEFINE S == DOMAIN t.graph \ {ref}
<1>1. ref # Root /\ \A r \in DOMAIN t.graph : ref \notin Range(t.graph[r])
  BY DEF Deallocable
<1>2. ClosedFromRoot(t, S)
  BY <1>1 DEF ClosedFromRoot, Closed
<1>. QED  BY <1>2 DEF Reachable

\* The node a query or the flush policy misses on its way is one of the tree.
LEMMA WantedIsReachable ==
  ASSUME SInv, mode = "Ready", NEW ref \in Wanted
  PROVE  Reachable(ephemeralIndirectionTable, ref)
<1>. DEFINE t == ephemeralIndirectionTable
<1>1. SUFFICES ASSUME NEW S \in SUBSET DOMAIN t.graph, ClosedFromRoot(t, S)
               PROVE  ref \in S
  BY DEF Reachable
<1>2. \A p \in DOMAIN cache : p \in DOMAIN t.graph /\ cache[p].children = t.graph[p]
  BY DEF SInv, CacheInv
<1>3. OnPath \subseteq S
  <2>. DEFINE C == S \cap DOMAIN cache
  <2>1. C \in SUBSET DOMAIN cache /\ (Root \in DOMAIN cache => Root \in C)
    BY <1>1 DEF ClosedFromRoot
  <2>2. \A p \in C : Range(cache[p].children) \cap DOMAIN cache \subseteq C
    BY <1>1, <1>2 DEF ClosedFromRoot
  <2>. HIDE DEF C
  <2>3. OnPath \subseteq C
    BY <2>1, <2>2 DEF OnPath
  <2>. QED  BY <2>3 DEF C
<1>4. CASE ref = Root
  BY <1>1, <1>4 DEF ClosedFromRoot
<1>5. CASE ref # Root
  <2>1. PICK p \in OnPath : ref \in Range(cache[p].children)
    BY <1>5 DEF Wanted
  <2>2. p \in S /\ p \in DOMAIN cache
    BY <1>3, <2>1 DEF OnPath
  <2>. QED  BY <1>1, <1>2, <2>1, <2>2 DEF ClosedFromRoot
<1>. QED  BY <1>4, <1>5

\* New nodes hang below p and between them have the children that c had.
Grafted(t, u, new, p, c) ==
  /\ p \in DOMAIN t.graph /\ c \in DOMAIN t.graph
  /\ new \cap DOMAIN t.graph = {} /\ DOMAIN u.graph = DOMAIN t.graph \cup new
  /\ \A r \in DOMAIN t.graph \ {p} : u.graph[r] = t.graph[r]
  /\ new \subseteq Range(u.graph[p])
  /\ \A r \in Range(t.graph[c]) : \E n \in new : r \in Range(u.graph[n])
  /\ \A r \in Range(t.graph[p]) :
       r \in Range(u.graph[p]) \/ r = c \/ \E n \in new : r \in Range(u.graph[n])

\* Whatever else was in the tree still is, whether or not c is.
LEMMA GraftKeepsReachable ==
  ASSUME NEW t, NEW u, Root \in DOMAIN t.graph, Closed(t),
         NEW new, NEW p, NEW c, Grafted(t, u, new, p, c),
         NEW ref, ref # c, ref \in DOMAIN t.graph, Reachable(t, ref)
  PROVE  Reachable(u, ref)
<1>. USE DEF Grafted
<1>. SUFFICES ASSUME NEW S \in SUBSET DOMAIN u.graph, ClosedFromRoot(u, S)
              PROVE  ref \in S
  BY DEF Reachable
<1>. DEFINE T == (S \cap DOMAIN t.graph) \cup (IF new \subseteq S THEN {c} ELSE {})
<1>1. Root \in S /\ \A r \in S : Range(u.graph[r]) \subseteq S
  BY DEF ClosedFromRoot
<1>2. ASSUME NEW r \in T PROVE Range(t.graph[r]) \subseteq T
  <2>1. Range(t.graph[r]) \subseteq DOMAIN t.graph
    BY DEF Closed
  <2>2. new \subseteq S => \A n \in new : Range(u.graph[n]) \subseteq S
    BY <1>1
  <2>3. CASE r = c /\ new \subseteq S
    BY <2>1, <2>2, <2>3
  <2>4. CASE r \in S /\ r = p
    <3>1. new \subseteq S /\ Range(u.graph[p]) \subseteq S
      BY <1>1, <2>4
    <3>. QED  BY <2>1, <2>2, <2>4, <3>1
  <2>5. CASE r \in S /\ r \in DOMAIN t.graph /\ r # p
    BY <1>1, <2>1, <2>5
  <2>. QED  BY <2>3, <2>4, <2>5
<1>3. ClosedFromRoot(t, T) /\ T \subseteq DOMAIN t.graph
  BY <1>1, <1>2 DEF ClosedFromRoot
<1>4. ref \in T
  BY <1>3 DEF Reachable
<1>. QED  BY <1>4

LEMMA SameGraphKeepsReachable ==
  ASSUME NEW t, NEW u, DOMAIN u.graph = DOMAIN t.graph,
         \A r \in DOMAIN t.graph : u.graph[r] = t.graph[r],
         NEW ref, Reachable(t, ref)
  PROVE  Reachable(u, ref)
  BY DEF Reachable, ClosedFromRoot

\* Without a node that nothing points to.
LEMMA RemovalKeepsReachable ==
  ASSUME NEW t, NEW u, Closed(t), NEW gone \in Deallocable(t),
         DOMAIN u.graph = DOMAIN t.graph \ {gone},
         \A r \in DOMAIN u.graph : u.graph[r] = t.graph[r],
         NEW ref, Reachable(t, ref)
  PROVE  Reachable(u, ref)
<1>. SUFFICES ASSUME NEW S \in SUBSET DOMAIN u.graph, ClosedFromRoot(u, S)
              PROVE  ref \in S
  BY DEF Reachable
<1>1. ClosedFromRoot(t, S) /\ S \subseteq DOMAIN t.graph
  BY DEF ClosedFromRoot
<1>. QED  BY <1>1 DEF Reachable

-----------------------------------------------------------------------------
\* The changes of the tree


LEMMA WriteNodeGraph ==
  ASSUME NEW e, WellFormed(e.table), NEW ref, NEW node
  PROVE  /\ DOMAIN WriteNode(e, ref, node).table.graph = DOMAIN e.table.graph \cup {ref}
         /\ WriteNode(e, ref, node).table.graph[ref] = node.children
         /\ \A r \in DOMAIN e.table.graph \ {ref} :
              WriteNode(e, ref, node).table.graph[r] = e.table.graph[r]
<1>1. WriteNode(e, ref, node).table.graph = Put(e.table.graph, ref, node.children)
  BY DEF WriteNode, UpdateAndRemoveLoc, WellFormed, IsTable
<1>. QED  BY <1>1 DEF Put

LEMMA RemoveLocGraph ==
  ASSUME NEW t, WellFormed(t), NEW ref
  PROVE  RemoveLoc(t, ref).graph = t.graph
  BY DEF RemoveLoc, WellFormed, IsTable

\* What SInv says of the tree and of the nodes being read.
LEMMA ReadNodes ==
  ASSUME SInv, mode = "Ready"
  PROVE  /\ Tree.table = ephemeralIndirectionTable /\ EditOK(Tree)
         /\ WellFormed(ephemeralIndirectionTable) /\ Closed(ephemeralIndirectionTable)
         /\ Root \in DOMAIN ephemeralIndirectionTable.graph
         /\ \A r \in DOMAIN cache : /\ r \in DOMAIN ephemeralIndirectionTable.graph
                                    /\ cache[r].children = ephemeralIndirectionTable.graph[r]
         /\ \A r \in DOMAIN ephemeralIndirectionTable.graph : r <= refUpperBound
         /\ \A id \in DOMAIN outstandingBlockReads :
              /\ outstandingBlockReads[id] \in DOMAIN ephemeralIndirectionTable.graph
              /\ outstandingBlockReads[id] \notin DOMAIN cache
<1>1. WellFormed(ephemeralIndirectionTable)
  BY DEF SInv, TablesInv
<1>2. DOMAIN ephemeralIndirectionTable.locs \subseteq DOMAIN ephemeralIndirectionTable.graph
  BY <1>1 DEF WellFormed, IsTable
<1>. QED  BY <1>1, <1>2, TreeOK DEF SInv, CacheInv, ReadInv, WellFormed, Tree

\* A new reference is none of the tree.
LEMMA FreeRefIsNew ==
  ASSUME SInv, mode = "Ready", NEW avoid, NEW ref \in FreeRef(Tree, avoid)
  PROVE  ref \notin DOMAIN ephemeralIndirectionTable.graph /\ ref \in Ref /\ ref \notin avoid
<1>1. ref \in Ref /\ ref > refUpperBound /\ ref \notin avoid
  BY FreeRefType DEF Tree
<1>2. refUpperBound \in Nat /\ ref \in Nat
  BY <1>1 DEF SInv, TypeOK, BlockCacheTypeOK, Ref
<1>3. \A r \in DOMAIN ephemeralIndirectionTable.graph : r \in Nat /\ r <= refUpperBound
  BY ReadNodes DEF WellFormed, IsTable, Ref
<1>. QED  BY <1>1, <1>2, <1>3

LEMMA CopyOK ==
  ASSUME SInv, mode = "Ready", NEW source \in DOMAIN cache, NEW newref \in FreeRef(Tree, {})
  PROVE  EditOK(WriteNode(Tree, newref, cache[source]))
<1>1. EditOK(Tree) /\ Tree.table = ephemeralIndirectionTable
  BY TreeOK DEF Tree
<1>2. newref \in Ref /\ Rewritable(Tree, newref)
  BY FreeRefType DEF Rewritable
<1>. QED  BY <1>1, <1>2, CachedNode, WriteNodeOK

\* Grow and Flush
LEMMA CopyUnderKeepsReachable ==
  ASSUME SInv, ReachInv, mode = "Ready", NEW source \in DOMAIN cache, NEW p \in DOMAIN cache,
         NEW newref \in FreeRef(Tree, {}), NEW node, newref \in Range(node.children),
         Range(cache[p].children) \subseteq
           Range(node.children) \cup {source} \cup Range(cache[source].children),
         EditOK(WriteNode(Tree, newref, cache[source])),
         Commit(WriteNode(WriteNode(Tree, newref, cache[source]), p, node))
  PROVE  ReachInv'
<1>. DEFINE t == ephemeralIndirectionTable
            e == WriteNode(Tree, newref, cache[source])
            u == WriteNode(e, p, node).table
<1>1. /\ WellFormed(t) /\ Closed(t) /\ Root \in DOMAIN t.graph /\ Tree.table = t
      /\ p \in DOMAIN t.graph /\ source \in DOMAIN t.graph
      /\ cache[p].children = t.graph[p] /\ cache[source].children = t.graph[source]
  BY ReadNodes
<1>2. newref \notin DOMAIN t.graph
  BY FreeRefIsNew
<1>3. /\ DOMAIN e.table.graph = DOMAIN t.graph \cup {newref}
      /\ e.table.graph[newref] = t.graph[source]
      /\ \A r \in DOMAIN t.graph : e.table.graph[r] = t.graph[r]
  BY <1>1, <1>2, WriteNodeGraph
<1>4. WellFormed(e.table)
  BY DEF EditOK, EditTypeOK
<1>. HIDE DEF e
<1>5. /\ DOMAIN u.graph = DOMAIN t.graph \cup {newref}
      /\ u.graph[p] = node.children /\ u.graph[newref] = t.graph[source]
      /\ \A r \in DOMAIN t.graph \ {p} : u.graph[r] = t.graph[r]
  BY <1>1, <1>2, <1>3, <1>4, WriteNodeGraph
<1>6. t' = u /\ outstandingBlockReads' = outstandingBlockReads
  BY DEF Commit, e
<1>. HIDE DEF u, t
<1>7. ASSUME NEW id \in DOMAIN outstandingBlockReads
      PROVE  Reachable(u, outstandingBlockReads[id])
  <2>. DEFINE ref == outstandingBlockReads[id]
  <2>1. ref # source /\ ref \in DOMAIN t.graph /\ Reachable(t, ref)
    BY ReadNodes DEF ReachInv, t
  <2>. HIDE DEF ref
  <2>2. Grafted(t, u, {newref}, p, source)
    BY <1>1, <1>2, <1>5 DEF Grafted
  <2>3. Reachable(u, ref)
    BY <1>1, <2>1, <2>2, GraftKeepsReachable
  <2>. QED  BY <2>3 DEF ref
<1>. QED  BY <1>6, <1>7 DEF ReachInv, t

LEMMA GrowKeepsReachable ==
  ASSUME SInv, ReachInv, Grow
  PROVE  ReachInv'
<1>1. mode = "Ready" /\ Root \in DOMAIN cache
  BY DEF Grow
<1>2. PICK newref \in FreeRef(Tree, {}) : \E newroot \in Rewritten(cache[Root], <<newref>>) :
        Commit(WriteNode(WriteNode(Tree, newref, cache[Root]), Root, newroot))
  BY DEF Grow
<1>3. PICK newroot \in Rewritten(cache[Root], <<newref>>) :
        Commit(WriteNode(WriteNode(Tree, newref, cache[Root]), Root, newroot))
  BY <1>2
<1>4. newroot.children = <<newref>> /\ newref \in Range(<<newref>>)
  BY DEF Rewritten, Range
<1>5. EditOK(WriteNode(Tree, newref, cache[Root]))
  BY <1>1, CopyOK
<1>. QED  BY <1>1, <1>3, <1>4, <1>5, CopyUnderKeepsReachable

LEMMA FlushKeepsReachable ==
  ASSUME SInv, ReachInv, mode = "Ready", NEW parent \in DOMAIN cache,
         NEW slot \in OpenSlots(parent), Flush(parent, slot)
  PROVE  ReachInv'
<1>. DEFINE children == cache[parent].children
<1>1. /\ children \in Seq(Ref) /\ slot \in DOMAIN children /\ children[slot] \in DOMAIN cache
  BY CachedNode DEF OpenSlots
<1>2. PICK newref \in FreeRef(Tree, {}) :
        \E newparent \in Rewritten(cache[parent], [children EXCEPT ![slot] = newref]) :
          Commit(WriteNode(WriteNode(Tree, newref, cache[children[slot]]), parent, newparent))
  BY DEF Flush
<1>. DEFINE new == [children EXCEPT ![slot] = newref]
<1>3. PICK newparent \in Rewritten(cache[parent], new) :
        Commit(WriteNode(WriteNode(Tree, newref, cache[children[slot]]), parent, newparent))
  BY <1>2
<1>4. newparent.children = new
  BY DEF Rewritten
<1>. HIDE DEF children
<1>5. newref \in Range(new) /\ Range(children) \subseteq Range(new) \cup {children[slot]}
  BY <1>1 DEF Range
<1>. HIDE DEF new
<1>6. EditOK(WriteNode(Tree, newref, cache[children[slot]]))
  BY <1>1, CopyOK
<1>. QED  BY <1>1, <1>3, <1>4, <1>5, <1>6, CopyUnderKeepsReachable DEF children

\* The two parts of a sequence have all that is in it.
LEMMA PartsCover ==
  ASSUME NEW s \in Seq(Ref), NEW h \in 0 .. Len(s)
  PROVE  Range(s) \subseteq Range(SubSeq(s, 1, h)) \cup Range(SubSeq(s, h + 1, Len(s)))
<1>1. \A i \in 1 .. Len(s) : s[i] \in Ref
  OBVIOUS
<1>2. /\ Len(SubSeq(s, 1, h)) = h /\ DOMAIN SubSeq(s, 1, h) = 1 .. h
      /\ \A i \in 1 .. h : SubSeq(s, 1, h)[i] = s[i]
  BY SubSeqProperties
<1>3. /\ Len(SubSeq(s, h + 1, Len(s))) = Len(s) - h
      /\ DOMAIN SubSeq(s, h + 1, Len(s)) = 1 .. (Len(s) - h)
      /\ \A i \in 1 .. (Len(s) - h) : SubSeq(s, h + 1, Len(s))[i] = s[h + i]
  BY SubSeqProperties
<1>4. ASSUME NEW i \in 1 .. Len(s)
      PROVE  s[i] \in Range(SubSeq(s, 1, h)) \cup Range(SubSeq(s, h + 1, Len(s)))
  <2>1. CASE i <= h
    <3>1. i \in DOMAIN SubSeq(s, 1, h) /\ SubSeq(s, 1, h)[i] = s[i]
      BY <1>2, <2>1
    <3>. QED  BY <3>1 DEF Range
  <2>2. CASE i > h
    <3>1. i - h \in 1 .. (Len(s) - h) /\ h + (i - h) = i
      BY <2>2
    <3>2. SubSeq(s, h + 1, Len(s))[i - h] = s[i]
      BY <1>3, <3>1
    <3>. QED  BY <1>3, <3>1, <3>2 DEF Range
  <2>. QED  BY <2>1, <2>2
<1>5. DOMAIN s = 1 .. Len(s)
  OBVIOUS
<1>. QED  BY <1>4, <1>5 DEF Range

LEMMA ConcatCovers ==
  ASSUME NEW s \in Seq(Ref), NEW t \in Seq(Ref)
  PROVE  Range(s) \cup Range(t) \subseteq Range(s \o t)
<1>1. /\ Len(s \o t) = Len(s) + Len(t) /\ s \o t \in Seq(Ref)
      /\ \A i \in 1 .. (Len(s) + Len(t)) : (s \o t)[i] =
           IF i <= Len(s) THEN s[i] ELSE t[i - Len(s)]
  BY ConcatProperties
<1>2. /\ DOMAIN (s \o t) = 1 .. (Len(s) + Len(t)) /\ DOMAIN s = 1 .. Len(s)
      /\ DOMAIN t = 1 .. Len(t) /\ Len(s) \in Nat /\ Len(t) \in Nat
  BY <1>1
<1>3. ASSUME NEW i \in DOMAIN s PROVE s[i] \in Range(s \o t)
  <2>1. i \in 1 .. (Len(s) + Len(t)) /\ i <= Len(s)
    BY <1>2
  <2>2. (s \o t)[i] = s[i]
    BY <1>1, <2>1
  <2>. QED  BY <1>2, <2>1, <2>2 DEF Range
<1>4. ASSUME NEW i \in DOMAIN t PROVE t[i] \in Range(s \o t)
  <2>1. /\ Len(s) + i \in 1 .. (Len(s) + Len(t)) /\ ~ (Len(s) + i <= Len(s))
        /\ (Len(s) + i) - Len(s) = i
    BY <1>2
  <2>2. (s \o t)[Len(s) + i] = t[i]
    BY <1>1, <2>1
  <2>. QED  BY <1>2, <2>1, <2>2 DEF Range
<1>. QED  BY <1>3, <1>4 DEF Range

LEMMA TwoForOneCovers ==
  ASSUME NEW s \in Seq(Ref), NEW i \in DOMAIN s, NEW left \in Ref, NEW right \in Ref
  PROVE  /\ {left, right} \subseteq Range(InsertAt(ReplaceAt(s, i, right), i, left))
         /\ Range(s) \subseteq Range(InsertAt(ReplaceAt(s, i, right), i, left)) \cup {s[i]}
<1>. DEFINE t == ReplaceAt(s, i, right)
<1>1. /\ t \in Seq(Ref) /\ Len(t) = Len(s) /\ i \in 1 .. Len(s)
      /\ right \in Range(t) /\ Range(s) \subseteq Range(t) \cup {s[i]}
  BY DEF ReplaceAt, Range
<1>. HIDE DEF t
<1>. DEFINE front == SubSeq(t, 1, i - 1)
            back  == SubSeq(t, i, Len(t))
<1>2. front \in Seq(Ref) /\ back \in Seq(Ref)
  <2>1. 1 \in 1 .. (Len(t) + 1) /\ i - 1 \in 0 .. Len(t)
        /\ i \in 1 .. (Len(t) + 1) /\ Len(t) \in 0 .. Len(t)
    BY <1>1
  <2>. QED  BY <1>1, <2>1, PartOfSeq
<1>3. Range(t) \subseteq Range(front) \cup Range(back)
  <2>1. i - 1 \in 0 .. Len(t) /\ (i - 1) + 1 = i
    BY <1>1
  <2>2. Range(t) \subseteq Range(SubSeq(t, 1, i - 1)) \cup Range(SubSeq(t, (i - 1) + 1, Len(t)))
    BY <1>1, <2>1, PartsCover
  <2>. QED  BY <2>1, <2>2
<1>4. InsertAt(t, i, left) = (front \o <<left>>) \o back
  BY DEF InsertAt
<1>5. <<left>> \in Seq(Ref) /\ left \in Range(<<left>>)
  BY DEF Range
<1>. HIDE DEF front, back
<1>6. /\ front \o <<left>> \in Seq(Ref)
      /\ Range(front) \cup Range(<<left>>) \subseteq Range(front \o <<left>>)
  BY <1>2, <1>5, ConcatRange, ConcatCovers
<1>7. Range(front \o <<left>>) \cup Range(back) \subseteq Range((front \o <<left>>) \o back)
  BY <1>2, <1>6, ConcatCovers
<1>. QED  BY <1>1, <1>3, <1>4, <1>5, <1>6, <1>7 DEF t

LEMMA SplitKeepsReachable ==
  ASSUME SInv, ReachInv, mode = "Ready", NEW parent \in DOMAIN cache,
         NEW slot \in OpenSlots(parent), Split(parent, slot)
  PROVE  ReachInv'
<1>. DEFINE t        == ephemeralIndirectionTable
            children == cache[parent].children
            child    == cache[children[slot]]
            half     == Len(child.children) \div 2
            front    == Part(child, 1, half)
            back     == Part(child, half + 1, Len(child.children))
            New(l, r) == InsertAt(ReplaceAt(children, slot, r), slot, l)
            E1(l)    == WriteNode(Tree, l, front)
            E2(l, r) == WriteNode(E1(l), r, back)
<1>1. /\ children \in Seq(Ref) /\ slot \in DOMAIN children
      /\ children[slot] \in DOMAIN cache
  BY CachedNode DEF OpenSlots
<1>2. /\ child \in Node /\ child.children \in Seq(Ref)
      /\ Range(child.children) \subseteq DOMAIN t.graph
  BY <1>1, CachedNode
<1>3. PICK left \in FreeRef(Tree, {}) : \E right \in FreeRef(Tree, {left}) :
        \E newparent \in Rewritten(cache[parent], New(left, right)) :
          Commit(WriteNode(E2(left, right), parent, newparent))
  BY DEF Split
<1>4. PICK right \in FreeRef(Tree, {left}) :
        \E newparent \in Rewritten(cache[parent], New(left, right)) :
          Commit(WriteNode(E2(left, right), parent, newparent))
  BY <1>3
<1>5. PICK newparent \in Rewritten(cache[parent], New(left, right)) :
        Commit(WriteNode(E2(left, right), parent, newparent))
  BY <1>4
<1>6. /\ WellFormed(t) /\ Closed(t) /\ Root \in DOMAIN t.graph /\ Tree.table = t
      /\ EditOK(Tree) /\ Tree.cache = cache /\ Tree.bound = refUpperBound
      /\ parent \in DOMAIN t.graph /\ children[slot] \in DOMAIN t.graph
      /\ children = t.graph[parent] /\ child.children = t.graph[children[slot]]
  BY <1>1, ReadNodes DEF Tree
<1>7. /\ left \notin DOMAIN t.graph /\ right \notin DOMAIN t.graph /\ left # right
      /\ left \in Ref /\ right \in Ref /\ left > refUpperBound /\ right > left
  <2>1. /\ left \in Ref /\ left > refUpperBound /\ right \in Ref /\ right > refUpperBound
        /\ right # left
        /\ \A r \in Ref : r > refUpperBound /\ r \notin DOMAIN cache => left <= r
        /\ right \notin DOMAIN cache
    BY <1>6, FreeRefType
  <2>2. right > left
    BY <2>1 DEF Ref
  <2>. QED  BY <2>1, <2>2, FreeRefIsNew
<1>8. newparent.children = New(left, right)
  BY <1>5 DEF Rewritten
<1>9. half \in 0 .. Len(child.children)
  <2>1. Len(child.children) \in Nat
    BY <1>2
  <2>2. \A k \in Nat : k \div 2 \in 0 .. k
    OBVIOUS
  <2>. QED  BY <2>1, <2>2
<1>. HIDE DEF half, child
<1>10. /\ front \in Node /\ Range(front.children) \subseteq Range(child.children)
       /\ back \in Node /\ Range(back.children) \subseteq Range(child.children)
       /\ Range(child.children) \subseteq Range(front.children) \cup Range(back.children)
  <2>1. /\ 1 \in 1 .. (Len(child.children) + 1)
        /\ half + 1 \in 1 .. (Len(child.children) + 1)
        /\ Len(child.children) \in 0 .. Len(child.children)
    <3>1. Len(child.children) \in Nat
      BY <1>2 DEF Node
    <3>. QED  BY <1>9, <3>1
  <2>2. /\ front.children = SubSeq(child.children, 1, half)
        /\ back.children = SubSeq(child.children, half + 1, Len(child.children))
    BY <1>2 DEF Part, Node
  <2>. QED  BY <1>2, <1>9, <2>1, <2>2, PartType, PartsCover
<1>11. /\ {left, right} \subseteq Range(New(left, right))
       /\ Range(children) \subseteq Range(New(left, right)) \cup {children[slot]}
  BY <1>1, <1>7, TwoForOneCovers
<1>. HIDE DEF front, back, New
<1>12. /\ WellFormed(E1(left).table)
       /\ DOMAIN E1(left).table.graph = DOMAIN t.graph \cup {left}
       /\ E1(left).table.graph[left] = front.children
       /\ \A r \in DOMAIN t.graph : E1(left).table.graph[r] = t.graph[r]
       /\ EditOK(E1(left)) /\ E1(left).bound = left
  <2>1. Rewritable(Tree, left)
    BY <1>6, <1>7 DEF Rewritable
  <2>2. EditOK(E1(left)) /\ E1(left).bound = left
    BY <1>2, <1>6, <1>7, <1>10, <2>1, WriteNodeOK, WriteNodeExtends
  <2>. QED  BY <1>6, <1>7, <2>2, WriteNodeGraph DEF EditOK, EditTypeOK
<1>. HIDE DEF E1
<1>13. /\ WellFormed(E2(left, right).table)
       /\ DOMAIN E2(left, right).table.graph = DOMAIN t.graph \cup {left, right}
       /\ E2(left, right).table.graph[left] = front.children
       /\ E2(left, right).table.graph[right] = back.children
       /\ \A r \in DOMAIN t.graph : E2(left, right).table.graph[r] = t.graph[r]
  <2>1. Rewritable(E1(left), right)
    BY <1>7, <1>12 DEF Rewritable
  <2>2. Range(back.children) \subseteq DOMAIN E1(left).table.graph
    BY <1>2, <1>10, <1>12
  <2>3. EditOK(E2(left, right))
    BY <1>7, <1>10, <1>12, <2>1, <2>2, WriteNodeOK
  <2>. QED  BY <1>7, <1>12, <2>3, WriteNodeGraph DEF EditOK, EditTypeOK
<1>. HIDE DEF E2
<1>. DEFINE u == WriteNode(E2(left, right), parent, newparent).table
<1>14. /\ DOMAIN u.graph = DOMAIN t.graph \cup {left, right}
       /\ u.graph[parent] = New(left, right)
       /\ u.graph[left] = front.children /\ u.graph[right] = back.children
       /\ \A r \in DOMAIN t.graph \ {parent} : u.graph[r] = t.graph[r]
  BY <1>6, <1>7, <1>8, <1>13, WriteNodeGraph
<1>15. t' = u /\ outstandingBlockReads' = outstandingBlockReads
  BY <1>5 DEF Commit
<1>. HIDE DEF u
<1>16. Grafted(t, u, {left, right}, parent, children[slot])
  BY <1>6, <1>7, <1>10, <1>11, <1>14 DEF Grafted
<1>17. ASSUME NEW id \in DOMAIN outstandingBlockReads
       PROVE  Reachable(u, outstandingBlockReads[id])
  <2>. DEFINE ref == outstandingBlockReads[id]
  <2>1. ref # children[slot] /\ ref \in DOMAIN t.graph /\ Reachable(t, ref)
    BY <1>1, ReadNodes DEF ReachInv
  <2>. HIDE DEF ref, t, children
  <2>2. Reachable(u, ref)
    BY <1>6, <1>16, <2>1, GraftKeepsReachable
  <2>. QED  BY <2>2 DEF ref
<1>. QED  BY <1>15, <1>17 DEF ReachInv

\* Every operation of the tree: insertion and the split of a leaf in place leave
\* the references as they are.
LEMMA EditTreeKeepsReachable ==
  ASSUME SInv, ReachInv, EditTree
  PROVE  ReachInv'
<1>. DEFINE t == ephemeralIndirectionTable
<1>1. ASSUME t'.graph = t.graph, outstandingBlockReads' = outstandingBlockReads
      PROVE  ReachInv'
  BY <1>1 DEF ReachInv, Reachable, ClosedFromRoot
<1>2. CASE InsertKeyValue
  <2>1. PICK root : Commit(RewriteNode(Tree, Root, root))
    BY <1>2 DEF InsertKeyValue
  <2>2. mode = "Ready"
    BY <1>2 DEF InsertKeyValue
  <2>3. RemoveLoc(t, Root).graph = t.graph
    BY <2>2, ReadNodes, RemoveLocGraph
  <2>. QED  BY <1>1, <2>1, <2>3 DEF Commit, RewriteNode, Tree
<1>3. CASE Grow
  BY <1>3, GrowKeepsReachable
<1>4. ASSUME mode = "Ready", NEW ref \in DOMAIN cache, RepivotLeaf(ref)
      PROVE  ReachInv'
  <2>1. PICK leaf \in Rewritten(cache[ref], <<>>) : Commit(WriteNode(Tree, ref, leaf))
    BY <1>4 DEF RepivotLeaf
  <2>2. /\ leaf.children = <<>> /\ cache[ref].children = <<>> /\ WellFormed(t)
        /\ ref \in DOMAIN t.graph /\ t.graph[ref] = <<>> /\ Tree.table = t
    BY <1>4, ReadNodes DEF Rewritten, RepivotLeaf, IsLeaf
  <2>. DEFINE u == WriteNode(Tree, ref, leaf).table
  <2>3. DOMAIN u.graph = DOMAIN t.graph /\ \A r \in DOMAIN t.graph : u.graph[r] = t.graph[r]
    <3>1. /\ DOMAIN u.graph = DOMAIN t.graph \cup {ref} /\ u.graph[ref] = <<>>
          /\ \A r \in DOMAIN t.graph \ {ref} : u.graph[r] = t.graph[r]
      BY <2>2, WriteNodeGraph
    <3>. HIDE DEF u, t
    <3>. QED  BY <2>2, <3>1
  <2>4. t' = u /\ outstandingBlockReads' = outstandingBlockReads
    BY <2>1 DEF Commit
  <2>. HIDE DEF u
  <2>5. ASSUME NEW id \in DOMAIN outstandingBlockReads
        PROVE  Reachable(u, outstandingBlockReads[id])
    BY <2>3, SameGraphKeepsReachable DEF ReachInv
  <2>. QED  BY <2>4, <2>5 DEF ReachInv
<1>5. CASE RunFlushPolicy
  <2>1. PICK parent \in OnPath : \E slot \in OpenSlots(parent) :
          Flush(parent, slot) \/ Split(parent, slot)
            \/ RepivotLeaf(cache[parent].children[slot])
    BY <1>5 DEF RunFlushPolicy
  <2>2. PICK slot \in OpenSlots(parent) :
          Flush(parent, slot) \/ Split(parent, slot)
            \/ RepivotLeaf(cache[parent].children[slot])
    BY <2>1
  <2>3. mode = "Ready" /\ parent \in DOMAIN cache
    BY <1>5 DEF RunFlushPolicy, OnPath
  <2>4. cache[parent].children[slot] \in DOMAIN cache
    BY DEF OpenSlots
  <2>. QED  BY <1>4, <2>2, <2>3, <2>4, FlushKeepsReachable, SplitKeepsReachable
<1>. QED  BY <1>2, <1>3, <1>5 DEF EditTree

LEMMA DeallocKeepsReachable ==
  ASSUME SInv, ReachInv, mode = "Ready", NEW gone \in Deallocable(ephemeralIndirectionTable),
         Dealloc(gone)
  PROVE  ReachInv'
<1>. DEFINE t == ephemeralIndirectionTable
            u == RemoveRef(t, gone)
<1>1. WellFormed(t) /\ Closed(t) /\ Tree.table = t
  BY ReadNodes
<1>2. u.graph = Without(t.graph, gone)
  BY <1>1 DEF RemoveRef, WellFormed, IsTable
<1>3. DOMAIN u.graph = DOMAIN t.graph \ {gone} /\ \A r \in DOMAIN u.graph : u.graph[r] = t.graph[r]
  BY <1>2 DEF Without, Restrict
<1>4. t' = u /\ outstandingBlockReads' = outstandingBlockReads
  BY <1>1 DEF Dealloc, Commit, RemoveNode
<1>. HIDE DEF u, t
<1>5. ASSUME NEW id \in DOMAIN outstandingBlockReads
      PROVE  Reachable(u, outstandingBlockReads[id])
  <2>1. Reachable(t, outstandingBlockReads[id])
    BY DEF ReachInv, t
  <2>. QED  BY <1>1, <1>3, <2>1, RemovalKeepsReachable DEF t
<1>. QED  BY <1>4, <1>5 DEF ReachInv, t

LEMMA TryToWriteBlockKeepsReachable ==
  ASSUME SInv, ReachInv, mode = "Ready", NEW id, NEW ref, TryToWriteBlock(id, ref)
  PROVE  ReachInv'
<1>. DEFINE t == ephemeralIndirectionTable
<1>1. PICK loc : /\ t' = AddLocIfPresent(t, ref, loc)
                 /\ outstandingBlockReads' = outstandingBlockReads
  BY DEF TryToWriteBlock
<1>2. AddLocIfPresent(t, ref, loc).graph = t.graph
  BY ReadNodes, AddLocLocs
<1>3. t'.graph = t.graph
  BY <1>1, <1>2
<1>. QED  BY <1>1, <1>3 DEF ReachInv, Reachable, ClosedFromRoot

LEMMA ReadKeepsReachable ==
  ASSUME SInv, ReachInv, Read
  PROVE  ReachInv'
<1>1. UNCHANGED ephemeralIndirectionTable
  BY DEF Read, PageInNodeReq, PageInNodeResp
<1>2. ASSUME mode = "Ready", NEW ref \in Wanted, NEW id \in FreshReqId, PageInNodeReq(id, ref)
      PROVE  ReachInv'
  <2>1. outstandingBlockReads' = Put(outstandingBlockReads, id, ref)
    BY <1>2 DEF PageInNodeReq
  <2>2. Reachable(ephemeralIndirectionTable, ref)
    BY <1>2, WantedIsReachable
  <2>3. ASSUME NEW i \in DOMAIN outstandingBlockReads'
        PROVE  Reachable(ephemeralIndirectionTable, outstandingBlockReads'[i])
    BY <2>1, <2>2 DEF Put, ReachInv
  <2>. QED  BY <1>1, <2>3 DEF ReachInv
<1>3. ASSUME NEW id, NEW node, PageInNodeResp(id, node)
      PROVE  ReachInv'
  <2>1. /\ DOMAIN outstandingBlockReads' \subseteq DOMAIN outstandingBlockReads
        /\ \A i \in DOMAIN outstandingBlockReads' :
             outstandingBlockReads'[i] = outstandingBlockReads[i]
    BY <1>3 DEF PageInNodeResp, Without, Restrict
  <2>. QED  BY <1>1, <2>1 DEF ReachInv
<1>. QED  BY <1>2, <1>3 DEF Read

LEMMA NextKeepsReachable ==
  ASSUME SInv, ReachInv, [Next]_vars
  PROVE  ReachInv'
<1>1. ASSUME UNCHANGED <<ephemeralIndirectionTable, outstandingBlockReads>>
      PROVE  ReachInv'
  BY <1>1 DEF ReachInv
<1>2. ASSUME DOMAIN outstandingBlockReads' = {}
      PROVE  ReachInv'
  BY <1>2 DEF ReachInv
<1>3. CASE Load
  <2>1. mode # "Ready"
    BY <1>3 DEF Load, receiveLoc, PageInIndirectionTableReq, SInv, LoadInv
  <2>2. outstandingBlockReads' = outstandingBlockReads
    BY <1>3 DEF Load, receiveLoc, PageInIndirectionTableReq, PageInIndirectionTableResp
  <2>. QED  BY <1>2, <2>1, <2>2 DEF SInv, LoadInv
<1>4. CASE EditTree
  BY <1>4, EditTreeKeepsReachable
<1>5. CASE Read
  BY <1>5, ReadKeepsReachable
<1>6. CASE MakeRoom
  <2>1. mode = "Ready"
    BY <1>6 DEF MakeRoom, EvictOrDealloc
  <2>2. \/ \E ref \in Deallocable(ephemeralIndirectionTable) : Dealloc(ref)
        \/ \E ref \in DOMAIN cache : \E id \in FreshReqId : TryToWriteBlock(id, ref)
        \/ UNCHANGED <<ephemeralIndirectionTable, outstandingBlockReads>>
    BY <1>6 DEF MakeRoom, EvictOrDealloc
  <2>. QED  BY <1>1, <2>1, <2>2, DeallocKeepsReachable, TryToWriteBlockKeepsReachable
<1>7. CASE SyncUnfrozen
  <2>1. mode = "Ready"
    BY <1>7 DEF SyncUnfrozen, Freeze, DeallocBeforeFreeze
  <2>2. \/ \E ref \in Deallocable(ephemeralIndirectionTable) : Dealloc(ref)
        \/ UNCHANGED <<ephemeralIndirectionTable, outstandingBlockReads>>
    BY <1>7 DEF SyncUnfrozen, Freeze, DeallocBeforeFreeze
  <2>. QED  BY <1>1, <2>1, <2>2, DeallocKeepsReachable
<1>8. CASE SyncFrozen
  BY <1>1, <1>8, TryToWriteBlockKeepsReachable DEF SyncFrozen, WriteFrozenNode, WriteFrozenTable
<1>9. CASE NodeWritten \/ FrozenTableWritten \/ WriteSuperblock \/ SuperblockWritten
             \/ UNCHANGED vars
  BY <1>1, <1>9 DEF NodeWritten, writeNodeResponse, FrozenTableWritten,
     writeIndirectionTableResponse, WriteSuperblock, SuperblockWritten, cleanUp, vars
<1>10. CASE Crash
  BY <1>2, <1>10, EmptyMap DEF Crash, BlockCacheCrash
<1>. QED  BY <1>3, <1>4, <1>5, <1>6, <1>7, <1>8, <1>9, <1>10 DEF Next

\* A read that succeeds is taken (IOImpl.PageInNodeResp), and no node being read
\* is to be deallocated (DeallocImpl).
THEOREM AnswersAreAccepted == Spec => []AnswersAccepted
<1>1. Init => ReachInv
  BY EmptyMap DEF Init, BlockCacheInit, ReachInv
<1>2. SInv /\ ReachInv /\ [Next]_vars => ReachInv'
  BY NextKeepsReachable
<1>3. SInv /\ ReachInv => AnswersAccepted
  <2>. SUFFICES ASSUME SInv, ReachInv PROVE AnswersAccepted
    OBVIOUS
  <2>1. ASSUME NEW id \in DOMAIN reqReadNodes
        PROVE  /\ Accepts(id, nodes[reqReadNodes[id]])
               /\ ephemeralIndirectionTable.locs[outstandingBlockReads[id]] = reqReadNodes[id]
               /\ reqReadNodes[id] \notin Range(reqWriteNodes)
    <3>. DEFINE ref == outstandingBlockReads[id]
    <3>1. /\ id \in DOMAIN outstandingBlockReads /\ mode = "Ready"
          /\ ref \in DOMAIN ephemeralIndirectionTable.locs \ DOMAIN cache
          /\ reqReadNodes[id] = ephemeralIndirectionTable.locs[ref]
      BY DEF SInv, RequestsMatch, ReadInv, LoadInv
    <3>2. /\ nodes[reqReadNodes[id]] # Garbage
          /\ nodes[reqReadNodes[id]].children = ephemeralIndirectionTable.graph[ref]
      BY <3>1 DEF SInv, TablesInv, Intact, IntactOn
    <3>3. reqReadNodes[id] \notin Range(reqWriteNodes)
      BY <3>1 DEF SInv, WriteInv, RequestsMatch, Range
    <3>. QED  BY <3>1, <3>2, <3>3 DEF Accepts
  <2>2. ASSUME NEW id \in DOMAIN outstandingBlockReads
        PROVE  outstandingBlockReads[id] \notin Deallocable(ephemeralIndirectionTable)
    <3>1. mode = "Ready"
      BY DEF SInv, LoadInv
    <3>. QED  BY <3>1, ReadNodes, ReachableIsHeld DEF ReachInv
  <2>. QED  BY <2>1, <2>2 DEF AnswersAccepted, Range
<1>. QED  BY <1>1, <1>2, <1>3, BlockSystemInvariance, PTL DEF Spec

-----------------------------------------------------------------------------
\* The refinement of StatesView.  A node is looked up on disk or in the cache; SInv
\* says that moving it from one to the other does not change what is found, and that
\* what is written spares every version.  What is left is to follow the changes of the
\* tree: a step of an edit puts one node into the graph or takes one out of it.

\* Graphs

\* What a whole table on disk describes.
LEMMA WholeGraph ==
  ASSUME SInv, NEW loc \in TableLoc, Whole(indirectionTables[loc])
  PROVE  /\ DiskGraphMap[loc] = DiskCacheGraph(indirectionTables[loc])
         /\ DiskGraphMap[loc] # None
<1>. DEFINE t == indirectionTables[loc]
<1>1. /\ IsTable(t) /\ Closed(t) /\ Intact(t) /\ DOMAIN t.locs = DOMAIN t.graph
      /\ DOMAIN t.graph \in SUBSET Ref /\ t.locs \in [DOMAIN t.locs -> NodeBlock]
  BY DEF Whole, WellFormed, IsTable
<1>2. t # Garbage
  <2>1. t \in Table
    BY <1>1 DEF IsTable, Table
  <2>. QED  BY <2>1, GarbageAssumption
<1>. HIDE DEF t
<1>3. WFDiskGraph(t)
  BY <1>1, <1>2 DEF WFDiskGraph, Closed, Intact, IntactOn
<1>4. DiskGraphMap[loc] = [ref \in DOMAIN t.graph |-> nodes[t.locs[ref]]]
  BY <1>3 DEF DiskGraphMap, t
<1>5. DiskCacheGraph(t) = [ref \in DOMAIN t.graph |-> nodes[t.locs[ref]]]
  BY <1>1 DEF DiskCacheGraph, DiskCacheLookup
<1>6. \A ref \in DOMAIN t.graph : nodes[t.locs[ref]] \in Node
  <2>1. nodes \in [NodeBlock -> Node \cup {Garbage}]
    BY DEF SInv, TypeOK, BlockDiskTypeOK
  <2>. QED  BY <1>1, <2>1 DEF Intact, IntactOn
<1>7. DiskGraphMap[loc] \in [DOMAIN t.graph -> Node]
  BY <1>4, <1>6
<1>. QED  BY <1>1, <1>4, <1>5, <1>7, NoneIsNoGraph DEF t

\* A step that spares a table and its blocks leaves its graph as it is.
LEMMA GraphKept ==
  ASSUME SInv, NEW loc \in TableLoc, Whole(indirectionTables[loc]),
         indirectionTables'[loc] = indirectionTables[loc],
         \A i \in Blocks(indirectionTables[loc]) : nodes'[i] = nodes[i]
  PROVE  DiskGraphMap'[loc] = DiskGraphMap[loc]
<1>. DEFINE t == indirectionTables[loc]
<1>1. DOMAIN t.locs = DOMAIN t.graph
  BY DEF Whole
<1>2. \A ref \in DOMAIN t.locs : nodes'[t.locs[ref]] = nodes[t.locs[ref]]
  BY DEF Blocks, Range
<1>3. indirectionTables'[loc] = t
  OBVIOUS
<1>. HIDE DEF t
<1>4. WFDiskGraph(indirectionTables[loc])' <=> WFDiskGraph(t)
  BY <1>1, <1>2, <1>3 DEF WFDiskGraph
<1>5. DiskGraphMap'[loc] =
        IF WFDiskGraph(indirectionTables[loc])'
        THEN [ref \in DOMAIN t.graph |-> nodes'[t.locs[ref]]] ELSE None
  BY <1>3 DEF DiskGraphMap
<1>6. DiskGraphMap[loc] =
        IF WFDiskGraph(t) THEN [ref \in DOMAIN t.graph |-> nodes[t.locs[ref]]] ELSE None
  BY DEF DiskGraphMap, t
<1>. QED  BY <1>1, <1>2, <1>4, <1>5, <1>6

\* The graph of the tree in memory: its type, and what the cache says of it.
LEMMA EphemeralGraphType ==
  ASSUME SInv, mode = "Ready"
  PROVE  /\ EphemeralGraph \in [DOMAIN ephemeralIndirectionTable.graph -> Node]
         /\ EphemeralGraph # None
         /\ ClosedGraph(EphemeralGraph) /\ Root \in DOMAIN EphemeralGraph
         /\ \A ref \in DOMAIN cache :
              ref \in DOMAIN EphemeralGraph /\ EphemeralGraph[ref] = cache[ref]
<1>. DEFINE t == ephemeralIndirectionTable
<1>1. /\ IsTable(t) /\ Closed(t) /\ Root \in DOMAIN t.graph /\ Intact(t)
      /\ DOMAIN t.graph \in SUBSET Ref /\ t.locs \in [DOMAIN t.locs -> NodeBlock]
      /\ DOMAIN t.locs \subseteq DOMAIN t.graph
  BY DEF SInv, TablesInv, WellFormed, IsTable
<1>2. /\ DOMAIN cache \subseteq DOMAIN t.graph
      /\ \A ref \in DOMAIN cache : cache[ref].children = t.graph[ref]
      /\ RefsWithNoLoc(t) \subseteq DOMAIN cache
      /\ \A ref \in DOMAIN cache \cap DOMAIN t.locs : cache[ref] = nodes[t.locs[ref]]
      /\ \A ref \in DOMAIN cache : cache[ref] \in Node
      /\ nodes \in [NodeBlock -> Node \cup {Garbage}]
  BY DEF SInv, CacheInv, TypeOK, BlockCacheTypeOK, BlockDiskTypeOK
<1>3. EphemeralGraph =
        [ref \in DOMAIN t.graph |->
           IF ref \in DOMAIN t.locs THEN nodes[t.locs[ref]] ELSE cache[ref]]
  BY DEF EphemeralGraph, DiskCacheGraph, DiskCacheLookup
<1>. HIDE DEF t
<1>4. \A ref \in DOMAIN t.graph :
        EphemeralGraph[ref] \in Node /\ EphemeralGraph[ref].children = t.graph[ref]
  BY <1>1, <1>2, <1>3 DEF Intact, IntactOn, RefsWithNoLoc
<1>5. EphemeralGraph \in [DOMAIN t.graph -> Node]
  BY <1>3, <1>4
<1>6. EphemeralGraph # None
  BY <1>1, <1>5, NoneIsNoGraph
<1>7. ClosedGraph(EphemeralGraph) /\ Root \in DOMAIN EphemeralGraph
  BY <1>1, <1>4, <1>5 DEF ClosedGraph, Closed
<1>8. \A ref \in DOMAIN cache :
        ref \in DOMAIN EphemeralGraph /\ EphemeralGraph[ref] = cache[ref]
  BY <1>2, <1>3
<1>. QED  BY <1>5, <1>6, <1>7, <1>8 DEF t

\* The locations StatesView knows of: what is there is whole and stays.
LEMMA KnownWhole ==
  ASSUME SInv, mode = "Ready", NEW loc \in View!KnownLocs
  PROVE  /\ loc \in TableLoc /\ Whole(indirectionTables[loc])
         /\ Blocks(indirectionTables[loc]) \subseteq UsedBlocks
         /\ Blocks(indirectionTables[loc]) \cap Range(reqWriteNodes) = {}
         /\ loc \notin Range(reqWriteIndirectionTables)
         /\ loc = persistentIndirectionTableLoc \/ loc = frozenIndirectionTableLoc
<1>1. /\ persistentIndirectionTableLoc \in TableLoc /\ persistentIndirectionTableLoc # None
      /\ persistentIndirectionTableLoc \in superblockLocs
      /\ indirectionTables[persistentIndirectionTableLoc] = persistentIndirectionTable
  BY NoneAssumption DEF SInv, LoadInv, SaveInv, TableLoc
<1>2. loc = persistentIndirectionTableLoc \/ (loc = FrozenLoc /\ FrozenLoc # None)
  BY <1>1 DEF View!KnownLocs
<1>3. CASE loc = persistentIndirectionTableLoc
  BY <1>1, <1>3, RecoverableWhole DEF UsedBlocks
<1>4. CASE loc = FrozenLoc /\ FrozenLoc # None
  <2>1. /\ loc = frozenIndirectionTableLoc /\ loc # None
        /\ outstandingIndirectionTableWrite = None
    BY <1>4 DEF FrozenLoc
  <2>2. /\ committer # "Idle" /\ HasFrozen /\ loc \in TableLoc
        /\ indirectionTables[loc] = frozenIndirectionTable
        /\ RefsWithNoLoc(frozenIndirectionTable) = {}
        /\ Blocks(frozenIndirectionTable) \cap WrittenBlocks = {}
        /\ DOMAIN reqWriteIndirectionTables = {}
        /\ WrittenBlocks = Range(reqWriteNodes)
    BY <2>1 DEF SInv, SaveInv, RequestsMatch, TypeOK, BlockCacheTypeOK, WrittenBlocks, Range
  <2>3. WellFormed(frozenIndirectionTable) /\ Intact(frozenIndirectionTable)
    BY <2>2 DEF SInv, TablesInv
  <2>4. DOMAIN frozenIndirectionTable.locs = DOMAIN frozenIndirectionTable.graph
    BY <2>2, <2>3 DEF RefsWithNoLoc, WellFormed, IsTable
  <2>5. Blocks(indirectionTables[loc]) \subseteq UsedBlocks
    BY <2>2 DEF UsedBlocks, Frozen
  <2>6. Range(reqWriteIndirectionTables) = {}
    BY <2>2 DEF Range
  <2>. QED  BY <2>1, <2>2, <2>3, <2>4, <2>5, <2>6 DEF Whole
<1>. QED  BY <1>2, <1>3, <1>4

\* The graphs at the locations a recovery may read, and the frozen one once its
\* table is written, are those of the tables in memory.
LEMMA SavedGraphs ==
  ASSUME SInv
  PROVE  /\ mode = "Ready" =>
              DiskGraphMap[persistentIndirectionTableLoc] =
                DiskCacheGraph(persistentIndirectionTable)
         /\ mode = "Ready" /\ FrozenLoc # None =>
              /\ DiskGraphMap[FrozenLoc] = FrozenGraph
              /\ FrozenGraph # None
         /\ \A loc \in superblockLocs : DiskGraphMap[loc] # None
<1>1. ASSUME mode = "Ready"
      PROVE  DiskGraphMap[persistentIndirectionTableLoc] =
                DiskCacheGraph(persistentIndirectionTable)
  <2>1. /\ persistentIndirectionTableLoc \in TableLoc
        /\ indirectionTables[persistentIndirectionTableLoc] = persistentIndirectionTable
        /\ Whole(persistentIndirectionTable)
    BY <1>1 DEF SInv, LoadInv, SaveInv, TablesInv
  <2>. QED  BY <2>1, WholeGraph
<1>2. ASSUME mode = "Ready", FrozenLoc # None
      PROVE  DiskGraphMap[FrozenLoc] = FrozenGraph /\ FrozenGraph # None
  <2>1. FrozenLoc \in View!KnownLocs /\ FrozenLoc = frozenIndirectionTableLoc
    <3>1. persistentIndirectionTableLoc \in TableLoc
      BY <1>2 DEF SInv, LoadInv
    <3>. QED  BY <1>2, <3>1, NoneAssumption DEF View!KnownLocs, FrozenLoc, TableLoc
  <2>2. HasFrozen /\ indirectionTables[FrozenLoc] = frozenIndirectionTable
    BY <1>2, <2>1 DEF SInv, SaveInv, RequestsMatch
  <2>3. FrozenLoc \in TableLoc /\ Whole(indirectionTables[FrozenLoc])
    BY <1>2, <2>1, KnownWhole
  <2>4. /\ DiskGraphMap[FrozenLoc] = DiskCacheGraph(frozenIndirectionTable)
        /\ DiskGraphMap[FrozenLoc] # None
    BY <2>2, <2>3, WholeGraph
  <2>. QED  BY <2>2, <2>4 DEF FrozenGraph
<1>3. \A loc \in superblockLocs : DiskGraphMap[loc] # None
  BY RecoverableWhole, WholeGraph
<1>. QED  BY <1>1, <1>2, <1>3

LEMMA SavedGraphsNow ==
  SInv /\ mode = "Ready" /\ FrozenLoc # None =>
    DiskGraphMap[FrozenLoc] = FrozenGraph /\ FrozenGraph # None
BY SavedGraphs

LEMMA SavedGraphsNext ==
  (SInv /\ mode = "Ready" /\ FrozenLoc # None =>
    DiskGraphMap[FrozenLoc] = FrozenGraph /\ FrozenGraph # None)'
BY SavedGraphsNow, PTL

-----------------------------------------------------------------------------
\* What is to be shown of a step

StepOfView == [View!Next]_View!vars

\* The second half of ImplementsStatesView.
OnlyEditsEdit ==
  mode = "Ready" /\ mode' = "Ready" => PartOf(EphemeralGraph', EphemeralGraph) \/ EditTree

\* The nodes of the frozen version that are only in the cache.
FrozenInCache == IF HasFrozen THEN RefsWithNoLoc(frozenIndirectionTable) ELSE {}

LEMMA FrozenGraphKept ==
  ASSUME UNCHANGED <<frozenIndirectionTable, nodes>>,
         \A ref \in FrozenInCache : cache'[ref] = cache[ref]
  PROVE  FrozenGraph' = FrozenGraph
<1>1. CASE ~HasFrozen
  BY <1>1 DEF FrozenGraph, HasFrozen
<1>2. CASE HasFrozen
  <2>. DEFINE t == frozenIndirectionTable
  <2>1. \A ref \in DOMAIN t.graph : DiskCacheLookup(t, ref)' = DiskCacheLookup(t, ref)
    BY <1>2 DEF DiskCacheLookup, FrozenInCache, RefsWithNoLoc
  <2>2. DiskCacheGraph(t)' = DiskCacheGraph(t)
    BY <2>1 DEF DiskCacheGraph
  <2>. QED  BY <1>2, <2>2 DEF FrozenGraph, HasFrozen
<1>. QED  BY <1>1, <1>2

LEMMA DiskGraphsKept ==
  ASSUME UNCHANGED <<indirectionTables, nodes>>
  PROVE  DiskGraphMap' = DiskGraphMap
  BY DEF DiskGraphMap, WFDiskGraph

LEMMA EphemeralGraphKept ==
  ASSUME SInv, UNCHANGED <<mode, ephemeralIndirectionTable, indirectionTables, nodes,
                           persistentIndirectionTableLoc>>,
         \A ref \in RefsWithNoLoc(ephemeralIndirectionTable) : cache'[ref] = cache[ref]
  PROVE  EphemeralGraph' = EphemeralGraph
<1>. DEFINE t == ephemeralIndirectionTable
<1>1. \A ref \in DOMAIN t.graph : DiskCacheLookup(t, ref)' = DiskCacheLookup(t, ref)
  BY DEF DiskCacheLookup, RefsWithNoLoc
<1>2. DiskCacheGraph(t)' = DiskCacheGraph(t)
  BY <1>1 DEF DiskCacheGraph
<1>3. DiskGraphMap' = DiskGraphMap
  BY DiskGraphsKept
<1>. QED  BY <1>2, <1>3 DEF EphemeralGraph

\* Steps that change no graph: requests, acknowledgements and what is read.
LEMMA QuietStep ==
  ASSUME SInv, UNCHANGED <<mode, ephemeralIndirectionTable, frozenIndirectionTable,
                           indirectionTables, nodes, persistentIndirectionTableLoc, FrozenLoc>>,
         \A ref \in RefsWithNoLoc(ephemeralIndirectionTable) : cache'[ref] = cache[ref]
  PROVE  StepOfView /\ OnlyEditsEdit
<1>1. EphemeralGraph' = EphemeralGraph
  BY EphemeralGraphKept
<1>2. FrozenGraph' = FrozenGraph
  <2>1. CASE mode = "Ready" /\ HasFrozen
    <3>1. FrozenInCache \subseteq RefsWithNoLoc(ephemeralIndirectionTable)
      BY <2>1 DEF SInv, FrozenInv, FrozenInCache
    <3>. QED  BY <3>1, FrozenGraphKept
  <2>2. CASE ~HasFrozen
    BY <2>2 DEF FrozenGraph, HasFrozen
  <2>3. mode # "Ready" => ~HasFrozen
    BY DEF SInv, LoadInv, RequestsMatch
  <2>. QED  BY <2>1, <2>2, <2>3
<1>3. DiskGraphMap' = DiskGraphMap
  BY DiskGraphsKept
<1>4. PartOf(EphemeralGraph', EphemeralGraph)
  BY <1>1 DEF PartOf
<1>. QED  BY <1>1, <1>2, <1>3, <1>4 DEF StepOfView, View!vars, OnlyEditsEdit

-----------------------------------------------------------------------------
\* Changes of the tree

\* The graph of the tree in the middle of an edit.
EditGraph(e) ==
  [ref \in DOMAIN e.table.graph |->
     IF ref \in DOMAIN e.table.locs THEN nodes[e.table.locs[ref]] ELSE e.cache[ref]]

\* An edit that loses no node, nor one that the frozen version has only in the cache.
EditLosesNone(e) ==
  /\ e.table = [locs |-> e.table.locs, graph |-> e.table.graph]
  /\ RefsWithNoLoc(e.table) \subseteq DOMAIN e.cache
  /\ \A ref \in FrozenInCache : ref \in DOMAIN e.cache /\ e.cache[ref] = cache[ref]

\* A bookkeeping step that rewrites a node puts it into the graph.
LEMMA RewritingPuts ==
  ASSUME NEW e, EditLosesNone(e), NEW ref, ref \notin FrozenInCache, NEW node, NEW w,
         w.table = [locs |-> Without(e.table.locs, ref), graph |-> w.table.graph],
         DOMAIN w.table.graph = DOMAIN e.table.graph \cup {ref},
         w.cache = Put(e.cache, ref, node)
  PROVE  EditLosesNone(w) /\ EditGraph(w) = Put(EditGraph(e), ref, node)
<1>1. /\ DOMAIN w.table.locs = DOMAIN e.table.locs \ {ref}
      /\ \A r \in DOMAIN e.table.locs \ {ref} : w.table.locs[r] = e.table.locs[r]
      /\ DOMAIN w.cache = DOMAIN e.cache \cup {ref} /\ w.cache[ref] = node
      /\ \A r \in DOMAIN e.cache \ {ref} : w.cache[r] = e.cache[r]
  BY DEF Put, Without, Restrict
<1>2. EditLosesNone(w)
  BY <1>1 DEF EditLosesNone, RefsWithNoLoc
<1>3. EditGraph(w) = Put(EditGraph(e), ref, node)
  BY <1>1 DEF EditGraph, Put, EditLosesNone, RefsWithNoLoc
<1>. QED  BY <1>2, <1>3

LEMMA WriteNodePuts ==
  ASSUME NEW e, EditLosesNone(e), NEW ref, ref \notin FrozenInCache, NEW node
  PROVE  /\ EditLosesNone(WriteNode(e, ref, node))
         /\ EditGraph(WriteNode(e, ref, node)) = Put(EditGraph(e), ref, node)
<1>. DEFINE w == WriteNode(e, ref, node)
<1>1. /\ w.table = [locs  |-> Without(e.table.locs, ref),
                    graph |-> Put(e.table.graph, ref, node.children)]
      /\ w.cache = Put(e.cache, ref, node)
  BY DEF WriteNode, UpdateAndRemoveLoc, EditLosesNone
<1>. HIDE DEF w
<1>2. /\ w.table = [locs |-> Without(e.table.locs, ref), graph |-> w.table.graph]
      /\ DOMAIN w.table.graph = DOMAIN e.table.graph \cup {ref}
  BY <1>1 DEF Put
<1>3. EditLosesNone(w) /\ EditGraph(w) = Put(EditGraph(e), ref, node)
  BY <1>1, <1>2, RewritingPuts
<1>. QED  BY <1>3 DEF w

LEMMA RewriteNodePuts ==
  ASSUME NEW e, EditLosesNone(e), NEW ref \in DOMAIN e.table.graph, ref \notin FrozenInCache,
         NEW node
  PROVE  /\ EditLosesNone(RewriteNode(e, ref, node))
         /\ EditGraph(RewriteNode(e, ref, node)) = Put(EditGraph(e), ref, node)
<1>. DEFINE w == RewriteNode(e, ref, node)
<1>1. /\ w.table = [locs |-> Without(e.table.locs, ref), graph |-> e.table.graph]
      /\ w.cache = Put(e.cache, ref, node)
  BY DEF RewriteNode, RemoveLoc, EditLosesNone
<1>. HIDE DEF w
<1>2. EditLosesNone(w) /\ EditGraph(w) = Put(EditGraph(e), ref, node)
  BY <1>1, RewritingPuts
<1>. QED  BY <1>2 DEF w

LEMMA RemoveNodeTakesOut ==
  ASSUME NEW e, EditLosesNone(e), NEW ref \in DOMAIN e.table.graph, ref \notin FrozenInCache
  PROVE  /\ EditLosesNone(RemoveNode(e, ref))
         /\ EditGraph(RemoveNode(e, ref)) = Without(EditGraph(e), ref)
<1>. DEFINE w == RemoveNode(e, ref)
<1>1. /\ w.table = [locs |-> Without(e.table.locs, ref), graph |-> Without(e.table.graph, ref)]
      /\ w.cache = Without(e.cache, ref)
  BY DEF RemoveNode, RemoveRef, EditLosesNone
<1>. HIDE DEF w
<1>2. /\ DOMAIN w.table.locs = DOMAIN e.table.locs \ {ref}
      /\ \A r \in DOMAIN e.table.locs \ {ref} : w.table.locs[r] = e.table.locs[r]
      /\ DOMAIN w.table.graph = DOMAIN e.table.graph \ {ref}
      /\ DOMAIN w.cache = DOMAIN e.cache \ {ref}
      /\ \A r \in DOMAIN e.cache \ {ref} : w.cache[r] = e.cache[r]
  BY <1>1 DEF Without, Restrict
<1>3. EditLosesNone(w)
  BY <1>1, <1>2 DEF EditLosesNone, RefsWithNoLoc
<1>4. EditGraph(w) = Without(EditGraph(e), ref)
  BY <1>2 DEF EditGraph, Without, Restrict, EditLosesNone, RefsWithNoLoc
<1>. QED  BY <1>3, <1>4 DEF w

LEMMA TreeLosesNone ==
  ASSUME SInv, mode = "Ready"
  PROVE  /\ EditLosesNone(Tree) /\ EditGraph(Tree) = EphemeralGraph
         /\ Tree.table = ephemeralIndirectionTable /\ Tree.cache = cache
         /\ FrozenInCache \subseteq DOMAIN ephemeralIndirectionTable.graph
         /\ \A ref : CanDirty(ref) => ref \notin FrozenInCache
<1>1. /\ Tree.table = ephemeralIndirectionTable /\ Tree.cache = cache
      /\ IsTable(ephemeralIndirectionTable)
      /\ RefsWithNoLoc(ephemeralIndirectionTable) \subseteq DOMAIN cache
  BY DEF Tree, SInv, TablesInv, WellFormed, CacheInv
<1>2. FrozenInCache \subseteq RefsWithNoLoc(ephemeralIndirectionTable)
  BY DEF FrozenInCache, SInv, FrozenInv
<1>3. EditLosesNone(Tree)
  BY <1>1, <1>2 DEF EditLosesNone, IsTable
<1>4. EditGraph(Tree) = EphemeralGraph
  BY <1>1 DEF EditGraph, EphemeralGraph, DiskCacheGraph, DiskCacheLookup
<1>5. \A ref : CanDirty(ref) => ref \notin FrozenInCache
  BY DEF CanDirty, FrozenInCache, HasEmptyLoc, RefsWithNoLoc
<1>. QED  BY <1>1, <1>2, <1>3, <1>4, <1>5 DEF RefsWithNoLoc

\* The tree is a whole graph, also in the next state.
LEMMA EphemeralGraphNow ==
  SInv /\ mode = "Ready" =>
    EphemeralGraph # None /\ ClosedGraph(EphemeralGraph) /\ Root \in DOMAIN EphemeralGraph
BY EphemeralGraphType

LEMMA EphemeralGraphNext ==
  (SInv /\ mode = "Ready" =>
    EphemeralGraph # None /\ ClosedGraph(EphemeralGraph) /\ Root \in DOMAIN EphemeralGraph)'
BY EphemeralGraphNow, PTL

\* What committing an edit does to the graphs.
LEMMA CommittedGraphs ==
  ASSUME SInv, SInv', mode = "Ready", NEW e, EditLosesNone(e), Commit(e),
         UNCHANGED <<blockDiskVars, systemVars>>
  PROVE  /\ EphemeralGraph' = EditGraph(e) /\ mode' = "Ready"
         /\ EphemeralGraph # None /\ EphemeralGraph' # None
         /\ ClosedGraph(EphemeralGraph') /\ Root \in DOMAIN EphemeralGraph'
         /\ UNCHANGED <<DiskGraphMap, persistentIndirectionTableLoc, FrozenLoc, FrozenGraph>>
<1>1. /\ ephemeralIndirectionTable' = e.table /\ cache' = e.cache
      /\ UNCHANGED <<mode, persistentIndirectionTableLoc, frozenIndirectionTable,
                     frozenIndirectionTableLoc, outstandingIndirectionTableWrite,
                     indirectionTables, nodes>>
  BY DEF Commit
<1>2. EphemeralGraph' = EditGraph(e)
  BY <1>1 DEF EditGraph, EphemeralGraph, DiskCacheGraph, DiskCacheLookup
<1>3. FrozenGraph' = FrozenGraph
  BY <1>1, FrozenGraphKept DEF EditLosesNone
<1>4. DiskGraphMap' = DiskGraphMap
  BY <1>1, DiskGraphsKept
<1>5. EphemeralGraph # None
  BY EphemeralGraphType
<1>6. EphemeralGraph' # None /\ ClosedGraph(EphemeralGraph') /\ Root \in DOMAIN EphemeralGraph'
  BY <1>1, EphemeralGraphNext
<1>. QED  BY <1>1, <1>2, <1>3, <1>4, <1>5, <1>6 DEF FrozenLoc

\* At most two new references.
LEMMA TwoAtMost ==
  ASSUME NEW a, NEW b, NEW S, S \subseteq {a, b}
  PROVE  Cardinality(S) <= 2
<1>1. IsFiniteSet({a}) /\ Cardinality({a}) = 1
  BY FS_Singleton
<1>2. IsFiniteSet({a} \cup {b}) /\ Cardinality({a} \cup {b}) \in {1, 2}
  BY <1>1, FS_AddElement
<1>3. {a} \cup {b} = {a, b}
  OBVIOUS
<1>4. Cardinality(S) <= Cardinality({a, b}) /\ Cardinality(S) \in Nat
  BY <1>2, <1>3, FS_Subset, FS_CardinalityType
<1>. QED  BY <1>2, <1>3, <1>4

\* An operation of the tree: one node is rewritten and up to two are new.
LEMMA RewritingIsTreeStep ==
  ASSUME SInv, SInv', mode = "Ready", NEW e, EditLosesNone(e), Commit(e),
         UNCHANGED <<blockDiskVars, systemVars>>, EditTree,
         NEW a, NEW b, NEW p \in DOMAIN EphemeralGraph,
         DOMAIN EphemeralGraph \subseteq DOMAIN EditGraph(e),
         DOMAIN EditGraph(e) \subseteq DOMAIN EphemeralGraph \cup {a, b},
         \A r \in DOMAIN EphemeralGraph \ {p} : EditGraph(e)[r] = EphemeralGraph[r]
  PROVE  StepOfView /\ OnlyEditsEdit
<1>1. /\ EphemeralGraph' = EditGraph(e) /\ mode' = "Ready"
      /\ EphemeralGraph # None /\ EphemeralGraph' # None
      /\ ClosedGraph(EphemeralGraph') /\ Root \in DOMAIN EphemeralGraph'
      /\ UNCHANGED <<DiskGraphMap, persistentIndirectionTableLoc, FrozenLoc, FrozenGraph>>
  BY CommittedGraphs
<1>. DEFINE before == EphemeralGraph
            after  == EphemeralGraph'
            kept   == DOMAIN before \cap DOMAIN after
<1>2. kept = DOMAIN before /\ p \in kept
  BY <1>1
<1>3. Cardinality(DOMAIN after \ kept) <= 2
  BY <1>1, <1>2, TwoAtMost
<1>4. \A r \in kept \ {p} : after[r] = before[r]
  BY <1>1
<1>5. TreeStep(EphemeralGraph, EphemeralGraph')
  BY <1>1, <1>2, <1>3, <1>4 DEF TreeStep
<1>6. View!Advance
  BY <1>1, <1>5 DEF View!Advance
<1>. QED  BY <1>6 DEF StepOfView, View!Next, OnlyEditsEdit

LEMMA DeallocIsStep ==
  ASSUME SInv, mode = "Ready", NEW ref \in Deallocable(ephemeralIndirectionTable),
         Dealloc(ref), UNCHANGED <<blockDiskVars, systemVars>>
  PROVE  StepOfView /\ OnlyEditsEdit
<1>. DEFINE e == RemoveNode(Tree, ref)
<1>1. SInv' /\ Commit(e)
  BY DeallocKeepsSInv DEF Dealloc
<1>2. EditLosesNone(e) /\ EditGraph(e) = Without(EphemeralGraph, ref)
  BY TreeLosesNone, RemoveNodeTakesOut DEF Dealloc, Deallocable
<1>. HIDE DEF e
<1>3. /\ EphemeralGraph' = EditGraph(e) /\ mode' = "Ready"
      /\ EphemeralGraph # None /\ EphemeralGraph' # None
      /\ ClosedGraph(EphemeralGraph') /\ Root \in DOMAIN EphemeralGraph'
      /\ UNCHANGED <<DiskGraphMap, persistentIndirectionTableLoc, FrozenLoc, FrozenGraph>>
  BY <1>1, <1>2, CommittedGraphs
<1>4. ref \in DOMAIN EphemeralGraph
  BY EphemeralGraphType DEF Deallocable
<1>5. /\ DOMAIN EphemeralGraph' = DOMAIN EphemeralGraph \ {ref}
      /\ \A r \in DOMAIN EphemeralGraph' : EphemeralGraph'[r] = EphemeralGraph[r]
  BY <1>2, <1>3 DEF Without, Restrict
<1>. DEFINE kept == DOMAIN EphemeralGraph \cap DOMAIN EphemeralGraph'
<1>6. DOMAIN EphemeralGraph' = kept /\ DOMAIN EphemeralGraph \ kept = {ref}
  BY <1>4, <1>5
<1>7. Cardinality(DOMAIN EphemeralGraph \ kept) = 1
  BY <1>6, FS_Singleton
<1>8. TreeStep(EphemeralGraph, EphemeralGraph')
  BY <1>3, <1>5, <1>6, <1>7 DEF TreeStep
<1>9. View!Advance
  BY <1>3, <1>8 DEF View!Advance
<1>10. PartOf(EphemeralGraph', EphemeralGraph)
  BY <1>5 DEF PartOf
<1>. QED  BY <1>9, <1>10 DEF StepOfView, View!Next, OnlyEditsEdit

LEMMA InsertKeyValueIsStep ==
  ASSUME SInv, EditTree, InsertKeyValue
  PROVE  StepOfView /\ OnlyEditsEdit
<1>1. mode = "Ready" /\ Root \in DOMAIN cache /\ CanDirty(Root)
  BY DEF InsertKeyValue
<1>2. PICK root : Commit(RewriteNode(Tree, Root, root))
  BY DEF InsertKeyValue
<1>. DEFINE e == RewriteNode(Tree, Root, root)
<1>3. Root \in DOMAIN EphemeralGraph /\ Root \in DOMAIN ephemeralIndirectionTable.graph
  BY <1>1, EphemeralGraphType
<1>4. EditLosesNone(e) /\ EditGraph(e) = Put(EphemeralGraph, Root, root)
  BY <1>1, <1>3, TreeLosesNone, RewriteNodePuts
<1>5. /\ DOMAIN EditGraph(e) = DOMAIN EphemeralGraph
      /\ \A r \in DOMAIN EphemeralGraph \ {Root} : EditGraph(e)[r] = EphemeralGraph[r]
  BY <1>3, <1>4 DEF Put
<1>. HIDE DEF e
<1>6. SInv' /\ Commit(e) /\ UNCHANGED <<blockDiskVars, systemVars>>
  BY <1>2, EditTreeKeepsSInv DEF e, EditTree
<1>. QED  BY <1>1, <1>3, <1>4, <1>5, <1>6, RewritingIsTreeStep

\* Grow and Flush
LEMMA CopyUnderIsStep ==
  ASSUME SInv, EditTree, mode = "Ready", NEW p \in DOMAIN cache, CanDirty(p),
         NEW newref \in FreeRef(Tree, {}), NEW copy, NEW node,
         Commit(WriteNode(WriteNode(Tree, newref, copy), p, node))
  PROVE  StepOfView /\ OnlyEditsEdit
<1>. DEFINE c == WriteNode(Tree, newref, copy)
            e == WriteNode(c, p, node)
<1>1. newref \notin FrozenInCache /\ p \notin FrozenInCache
  BY TreeLosesNone, FreeRefIsNew
<1>2. EditLosesNone(c) /\ EditGraph(c) = Put(EphemeralGraph, newref, copy)
  BY <1>1, TreeLosesNone, WriteNodePuts
<1>. HIDE DEF c
<1>3. EditLosesNone(e) /\ EditGraph(e) = Put(EditGraph(c), p, node)
  BY <1>1, <1>2, WriteNodePuts
<1>4. p \in DOMAIN EphemeralGraph /\ newref \notin DOMAIN EphemeralGraph
  BY EphemeralGraphType, FreeRefIsNew
<1>5. /\ DOMAIN EditGraph(e) = DOMAIN EphemeralGraph \cup {newref, newref}
      /\ \A r \in DOMAIN EphemeralGraph \ {p} : EditGraph(e)[r] = EphemeralGraph[r]
  BY <1>2, <1>3, <1>4 DEF Put
<1>6. SInv' /\ Commit(e) /\ UNCHANGED <<blockDiskVars, systemVars>>
  BY EditTreeKeepsSInv DEF c, EditTree
<1>. HIDE DEF e
<1>. QED  BY <1>3, <1>4, <1>5, <1>6, RewritingIsTreeStep

LEMMA GrowIsStep ==
  ASSUME SInv, EditTree, Grow
  PROVE  StepOfView /\ OnlyEditsEdit
<1>1. mode = "Ready" /\ Root \in DOMAIN cache /\ CanDirty(Root)
  BY DEF Grow
<1>2. PICK newref \in FreeRef(Tree, {}) : \E newroot \in Rewritten(cache[Root], <<newref>>) :
        Commit(WriteNode(WriteNode(Tree, newref, cache[Root]), Root, newroot))
  BY DEF Grow
<1>. QED  BY <1>1, <1>2, CopyUnderIsStep

LEMMA FlushIsStep ==
  ASSUME SInv, EditTree, mode = "Ready", NEW parent \in DOMAIN cache, NEW slot,
         Flush(parent, slot)
  PROVE  StepOfView /\ OnlyEditsEdit
<1>. DEFINE children == cache[parent].children
<1>1. PICK newref \in FreeRef(Tree, {}) :
        \E newparent \in Rewritten(cache[parent], [children EXCEPT ![slot] = newref]) :
          Commit(WriteNode(WriteNode(Tree, newref, cache[children[slot]]), parent, newparent))
  BY DEF Flush
<1>2. CanDirty(parent)
  BY DEF Flush
<1>. QED  BY <1>1, <1>2, CopyUnderIsStep

LEMMA SplitIsStep ==
  ASSUME SInv, EditTree, mode = "Ready", NEW parent \in DOMAIN cache, NEW slot,
         Split(parent, slot)
  PROVE  StepOfView /\ OnlyEditsEdit
<1>. DEFINE children == cache[parent].children
            child    == cache[children[slot]]
            half     == Len(child.children) \div 2
            front    == Part(child, 1, half)
            back     == Part(child, half + 1, Len(child.children))
            E1(l)    == WriteNode(Tree, l, front)
            E2(l, r) == WriteNode(E1(l), r, back)
<1>1. PICK left \in FreeRef(Tree, {}) : \E right \in FreeRef(Tree, {left}) :
        \E newparent : Commit(WriteNode(E2(left, right), parent, newparent))
  BY DEF Split
<1>2. PICK right \in FreeRef(Tree, {left}) :
        \E newparent : Commit(WriteNode(E2(left, right), parent, newparent))
  BY <1>1
<1>3. PICK newparent : Commit(WriteNode(E2(left, right), parent, newparent))
  BY <1>2
<1>. DEFINE e == WriteNode(E2(left, right), parent, newparent)
<1>4. CanDirty(parent)
  BY DEF Split
<1>. HIDE DEF front, back
<1>5. /\ left \notin FrozenInCache /\ right \notin FrozenInCache /\ parent \notin FrozenInCache
  BY <1>4, TreeLosesNone, FreeRefIsNew
<1>6. EditLosesNone(E1(left)) /\ EditGraph(E1(left)) = Put(EphemeralGraph, left, front)
  BY <1>5, TreeLosesNone, WriteNodePuts
<1>. HIDE DEF E1
<1>7. /\ EditLosesNone(E2(left, right))
      /\ EditGraph(E2(left, right)) = Put(EditGraph(E1(left)), right, back)
  BY <1>5, <1>6, WriteNodePuts
<1>. HIDE DEF E2
<1>8. EditLosesNone(e) /\ EditGraph(e) = Put(EditGraph(E2(left, right)), parent, newparent)
  BY <1>5, <1>7, WriteNodePuts
<1>9. /\ parent \in DOMAIN EphemeralGraph
      /\ left \notin DOMAIN EphemeralGraph /\ right \notin DOMAIN EphemeralGraph
  BY EphemeralGraphType, FreeRefIsNew
<1>10. /\ DOMAIN EditGraph(e) = DOMAIN EphemeralGraph \cup {left, right}
      /\ \A r \in DOMAIN EphemeralGraph \ {parent} : EditGraph(e)[r] = EphemeralGraph[r]
  BY <1>6, <1>7, <1>8, <1>9 DEF Put
<1>11. SInv' /\ Commit(e) /\ UNCHANGED <<blockDiskVars, systemVars>>
  BY <1>3, EditTreeKeepsSInv DEF EditTree
<1>. HIDE DEF e
<1>. QED  BY <1>8, <1>9, <1>10, <1>11, RewritingIsTreeStep

LEMMA RepivotLeafIsStep ==
  ASSUME SInv, EditTree, mode = "Ready", NEW ref \in DOMAIN cache, RepivotLeaf(ref)
  PROVE  StepOfView /\ OnlyEditsEdit
<1>1. PICK leaf : Commit(WriteNode(Tree, ref, leaf))
  BY DEF RepivotLeaf
<1>. DEFINE e == WriteNode(Tree, ref, leaf)
<1>2. ref \notin FrozenInCache /\ ref \in DOMAIN EphemeralGraph
  BY TreeLosesNone, EphemeralGraphType DEF RepivotLeaf
<1>3. EditLosesNone(e) /\ EditGraph(e) = Put(EphemeralGraph, ref, leaf)
  BY <1>2, TreeLosesNone, WriteNodePuts
<1>4. /\ DOMAIN EditGraph(e) = DOMAIN EphemeralGraph
      /\ \A r \in DOMAIN EphemeralGraph \ {ref} : EditGraph(e)[r] = EphemeralGraph[r]
  BY <1>2, <1>3 DEF Put
<1>. HIDE DEF e
<1>5. SInv' /\ Commit(e) /\ UNCHANGED <<blockDiskVars, systemVars>>
  BY <1>1, EditTreeKeepsSInv DEF e, EditTree
<1>. QED  BY <1>2, <1>3, <1>4, <1>5, RewritingIsTreeStep

LEMMA EditTreeIsStep ==
  ASSUME SInv, EditTree
  PROVE  StepOfView /\ OnlyEditsEdit
<1>1. CASE RunFlushPolicy
  <2>1. PICK parent \in OnPath : \E slot \in OpenSlots(parent) :
          Flush(parent, slot) \/ Split(parent, slot)
            \/ RepivotLeaf(cache[parent].children[slot])
    BY <1>1 DEF RunFlushPolicy
  <2>2. PICK slot \in OpenSlots(parent) :
          Flush(parent, slot) \/ Split(parent, slot)
            \/ RepivotLeaf(cache[parent].children[slot])
    BY <2>1
  <2>3. mode = "Ready" /\ parent \in DOMAIN cache
    BY <1>1 DEF RunFlushPolicy, OnPath
  <2>4. cache[parent].children[slot] \in DOMAIN cache
    BY DEF OpenSlots
  <2>. QED  BY <2>2, <2>3, <2>4, FlushIsStep, SplitIsStep, RepivotLeafIsStep
<1>. QED  BY <1>1, InsertKeyValueIsStep, GrowIsStep DEF EditTree

-----------------------------------------------------------------------------
\* Loading and reading

\* Before the superblock is read no location is known.
UnreadyInv == mode = "Unready" => persistentIndirectionTableLoc = None

LEMMA LoadIsStep ==
  ASSUME SInv, UnreadyInv, Load
  PROVE  StepOfView /\ OnlyEditsEdit
<1>. USE DEF Load
<1>1. CASE \E loc \in superblockLocs : receiveLoc(loc) /\ UNCHANGED blockDiskVars
  <2>1. PICK loc \in superblockLocs : receiveLoc(loc) /\ UNCHANGED blockDiskVars
    BY <1>1
  <2>2. /\ mode = "Unready" /\ mode' = "Loading" /\ persistentIndirectionTableLoc' = loc
        /\ UNCHANGED <<frozenIndirectionTable, frozenIndirectionTableLoc, cache,
                       outstandingIndirectionTableWrite, indirectionTables, nodes>>
    BY <2>1 DEF receiveLoc
  <2>3. /\ ~HasFrozen /\ persistentIndirectionTableLoc = None
    BY <2>2 DEF SInv, LoadInv, RequestsMatch, UnreadyInv
  <2>4. DiskGraphMap' = DiskGraphMap
    BY <2>2, DiskGraphsKept
  <2>5. loc \in TableLoc /\ DiskGraphMap[loc] # None /\ EphemeralGraph' = DiskGraphMap[loc]
    BY <2>2, <2>4, SavedGraphs, RecoverableWhole DEF EphemeralGraph
  <2>6. FrozenLoc' = FrozenLoc /\ FrozenGraph' = FrozenGraph
    BY <2>2, <2>3 DEF FrozenLoc, FrozenGraph, HasFrozen
  <2>7. View!ObtainPersistentLoc
    BY <2>2, <2>3, <2>4, <2>5, <2>6 DEF View!ObtainPersistentLoc
  <2>. QED  BY <2>2, <2>7 DEF StepOfView, View!Next, OnlyEditsEdit
<1>2. CASE \E id \in FreshReqId : PageInIndirectionTableReq(id)
  BY <1>2, QuietStep DEF PageInIndirectionTableReq, RecvReadIndirectionTable, FrozenLoc
<1>3. CASE \E id \in DOMAIN reqReadIndirectionTables :
           \E table \in ReadResults(indirectionTables[reqReadIndirectionTables[id]]) :
             PageInIndirectionTableResp(id, table)
  <2>1. PICK id \in DOMAIN reqReadIndirectionTables :
          \E table \in ReadResults(indirectionTables[reqReadIndirectionTables[id]]) :
            PageInIndirectionTableResp(id, table)
    BY <1>3
  <2>2. PICK table \in ReadResults(indirectionTables[reqReadIndirectionTables[id]]) :
          PageInIndirectionTableResp(id, table)
    BY <2>1
  <2>3. UNCHANGED <<indirectionTables, nodes, persistentIndirectionTableLoc, cache,
                    frozenIndirectionTable, frozenIndirectionTableLoc,
                    outstandingIndirectionTableWrite>>
    BY <2>2 DEF PageInIndirectionTableResp, AckReadIndirectionTable
  <2>4. CASE UNCHANGED <<mode, ephemeralIndirectionTable>>
    BY <2>3, <2>4, QuietStep DEF FrozenLoc
  <2>5. CASE ~ UNCHANGED <<mode, ephemeralIndirectionTable>>
    <3>1. /\ mode = "Loading" /\ table # Garbage /\ mode' = "Ready"
          /\ ephemeralIndirectionTable' = table
      BY <2>2, <2>5 DEF PageInIndirectionTableResp
    <3>2. /\ reqReadIndirectionTables[id] = persistentIndirectionTableLoc
          /\ persistentIndirectionTableLoc \in superblockLocs
      BY <3>1 DEF SInv, LoadInv
    <3>3. table = indirectionTables[persistentIndirectionTableLoc]
      BY <2>2, <3>1, <3>2 DEF ReadResults
    <3>4. DiskGraphMap[persistentIndirectionTableLoc] = DiskCacheGraph(table)
      BY <3>2, <3>3, RecoverableWhole, WholeGraph
    <3>5. DiskCacheGraph(ephemeralIndirectionTable)' = DiskCacheGraph(table)
      BY <2>3, <3>1 DEF DiskCacheGraph, DiskCacheLookup
    <3>6. EphemeralGraph' = EphemeralGraph
      BY <3>1, <3>4, <3>5 DEF EphemeralGraph
    <3>7. ~HasFrozen
      BY <3>1 DEF SInv, LoadInv, RequestsMatch
    <3>8. FrozenLoc' = FrozenLoc /\ FrozenGraph' = FrozenGraph
      BY <2>3, <3>7 DEF FrozenLoc, FrozenGraph, HasFrozen
    <3>9. DiskGraphMap' = DiskGraphMap
      BY <2>3, DiskGraphsKept
    <3>. QED  BY <2>3, <3>1, <3>6, <3>8, <3>9 DEF StepOfView, View!vars, OnlyEditsEdit
  <2>. QED  BY <2>4, <2>5
<1>. QED  BY <1>1, <1>2, <1>3

LEMMA ReadIsStep ==
  ASSUME SInv, Read
  PROVE  StepOfView /\ OnlyEditsEdit
<1>1. CASE \E ref \in Wanted : \E id \in FreshReqId : PageInNodeReq(id, ref)
  BY <1>1, QuietStep DEF PageInNodeReq, RecvReadNode, FrozenLoc
<1>2. CASE \E id \in DOMAIN reqReadNodes :
           \E node \in ReadResults(nodes[reqReadNodes[id]]) : PageInNodeResp(id, node)
  <2>1. PICK id \in DOMAIN reqReadNodes : \E node : PageInNodeResp(id, node)
    BY <1>2
  <2>2. PICK node : PageInNodeResp(id, node)
    BY <2>1
  <2>3. UNCHANGED <<mode, ephemeralIndirectionTable, frozenIndirectionTable,
                    indirectionTables, nodes, persistentIndirectionTableLoc,
                    frozenIndirectionTableLoc, outstandingIndirectionTableWrite>>
    BY <2>2 DEF PageInNodeResp, AckReadNode
  <2>4. ASSUME NEW ref \in RefsWithNoLoc(ephemeralIndirectionTable)
        PROVE  cache'[ref] = cache[ref]
    <3>1. CASE Accepts(id, node)
      <4>1. /\ cache' = Put(cache, outstandingBlockReads[id], node)
            /\ outstandingBlockReads[id] \in DOMAIN ephemeralIndirectionTable.locs
            /\ mode = "Ready"
        BY <2>2, <3>1 DEF PageInNodeResp, Accepts
      <4>2. ref # outstandingBlockReads[id] /\ ref \in DOMAIN cache
        BY <4>1 DEF RefsWithNoLoc, SInv, CacheInv
      <4>. QED  BY <4>1, <4>2 DEF Put
    <3>2. CASE ~Accepts(id, node)
      BY <2>2, <3>2 DEF PageInNodeResp
    <3>. QED  BY <3>1, <3>2
  <2>. QED  BY <2>3, <2>4, QuietStep DEF FrozenLoc
<1>. QED  BY <1>1, <1>2 DEF Read

-----------------------------------------------------------------------------
\* Writing and evicting nodes

\* A step of the disk that spares what StatesView knows of.
LEMMA SparingStep ==
  ASSUME SInv, mode = "Ready",
         \A loc \in View!KnownLocs : indirectionTables'[loc] = indirectionTables[loc],
         \A loc \in View!KnownLocs : \A i \in Blocks(indirectionTables[loc]) :
           nodes'[i] = nodes[i]
  PROVE  View!DiskChangesPreservesPersistentAndFrozen
<1>. SUFFICES ASSUME NEW loc \in View!KnownLocs
              PROVE  DiskGraphMap[loc] # None /\ DiskGraphMap'[loc] = DiskGraphMap[loc]
  BY DEF View!DiskChangesPreservesPersistentAndFrozen
<1>1. loc \in TableLoc /\ Whole(indirectionTables[loc])
  BY KnownWhole
<1>. QED  BY <1>1, WholeGraph, GraphKept

\* What is found is the same after a node of a version is written to a block of
\* its own.
LEMMA WrittenGraph ==
  ASSUME NEW t, WellFormed(t), NEW ref, NEW loc \in NodeBlock, loc \notin Blocks(t),
         NEW mem, NEW disk, NEW new, new[loc] = mem[ref],
         \A i \in NodeBlock \ {loc} : new[i] = disk[i],
         NEW u, u = AddLocIfPresent(t, ref, loc)
  PROVE  /\ u.graph = t.graph
         /\ \A r \in DOMAIN t.graph :
              (IF r \in DOMAIN u.locs THEN new[u.locs[r]] ELSE mem[r])
                = (IF r \in DOMAIN t.locs THEN disk[t.locs[r]] ELSE mem[r])
<1>1. /\ u.graph = t.graph
      /\ AddsLoc(t, ref) => DOMAIN u.locs = DOMAIN t.locs \cup {ref} /\ u.locs[ref] = loc
      /\ ~AddsLoc(t, ref) => u = t
      /\ \A r \in DOMAIN t.locs : u.locs[r] = t.locs[r]
  BY AddLocLocs
<1>2. new[loc] = mem[ref]
  OBVIOUS
<1>3. \A r \in DOMAIN t.locs : new[t.locs[r]] = disk[t.locs[r]]
  <2>1. \A r \in DOMAIN t.locs : t.locs[r] # loc /\ t.locs[r] \in NodeBlock
    BY DEF Blocks, Range, WellFormed, IsTable
  <2>. QED  BY <2>1
<1>4. CASE AddsLoc(t, ref)
  BY <1>1, <1>2, <1>3, <1>4 DEF AddsLoc, HasEmptyLoc
<1>5. CASE ~AddsLoc(t, ref)
  BY <1>1, <1>3, <1>5
<1>. QED  BY <1>4, <1>5

LEMMA TryToWriteBlockIsStep ==
  ASSUME SInv, mode = "Ready", NEW id, NEW ref, TryToWriteBlock(id, ref)
  PROVE  StepOfView /\ OnlyEditsEdit
<1>. DEFINE E == ephemeralIndirectionTable
            F == frozenIndirectionTable
<1>1. PICK loc \in Alloc(blockAllocator) :
        /\ RecvWriteNode(id, loc, cache[ref])
        /\ E' = AddLocIfPresent(E, ref, loc)
        /\ F' = IF HasFrozen THEN AddLocIfPresent(F, ref, loc) ELSE None
        /\ UNCHANGED <<loadVars, persistentVars, frozenIndirectionTableLoc,
                       outstandingIndirectionTableWrite, cache>>
  BY DEF TryToWriteBlock
<1>2. UNCHANGED <<mode, indirectionTables, cache, persistentIndirectionTableLoc,
                  frozenIndirectionTableLoc, outstandingIndirectionTableWrite>>
  BY <1>1 DEF RecvWriteNode
<1>3. /\ loc \in NodeBlock /\ loc \notin Blocks(E) /\ WellFormed(E)
      /\ HasFrozen => loc \notin Blocks(F) /\ WellFormed(F)
  BY AllocatedIsUnused DEF SInv, TablesInv
<1>4. nodes'[loc] = cache[ref] /\ \A i \in NodeBlock \ {loc} : nodes'[i] = nodes[i]
  <2>1. nodes' = [nodes EXCEPT ![loc] = cache[ref]] /\ DOMAIN nodes = NodeBlock
    BY <1>1 DEF RecvWriteNode, SInv, TypeOK, BlockDiskTypeOK
  <2>. QED  BY <1>3, <2>1
<1>5. EphemeralGraph' = EphemeralGraph
  <2>1. /\ E'.graph = E.graph
        /\ \A r \in DOMAIN E.graph :
             (IF r \in DOMAIN E'.locs THEN nodes'[E'.locs[r]] ELSE cache[r])
               = (IF r \in DOMAIN E.locs THEN nodes[E.locs[r]] ELSE cache[r])
    BY <1>1, <1>3, <1>4, WrittenGraph
  <2>2. DiskCacheGraph(E)' = DiskCacheGraph(E)
    BY <1>2, <2>1 DEF DiskCacheGraph, DiskCacheLookup
  <2>. QED  BY <1>2, <2>2 DEF EphemeralGraph
<1>6. FrozenGraph' = FrozenGraph
  <2>1. CASE ~HasFrozen
    BY <1>1, <2>1 DEF FrozenGraph, HasFrozen
  <2>2. CASE HasFrozen
    <3>1. F' = AddLocIfPresent(F, ref, loc)
      BY <1>1, <2>2
    <3>2. F' # None
      BY <1>3, <2>2, <3>1, AddLocWellFormed, TableNotNone DEF WellFormed
    <3>3. /\ F'.graph = F.graph
          /\ \A r \in DOMAIN F.graph :
               (IF r \in DOMAIN F'.locs THEN nodes'[F'.locs[r]] ELSE cache[r])
                 = (IF r \in DOMAIN F.locs THEN nodes[F.locs[r]] ELSE cache[r])
      BY <1>3, <1>4, <2>2, <3>1, WrittenGraph
    <3>4. DiskCacheGraph(F)' = DiskCacheGraph(F)
      BY <1>2, <3>3 DEF DiskCacheGraph, DiskCacheLookup
    <3>. QED  BY <2>2, <3>2, <3>4 DEF FrozenGraph, HasFrozen
  <2>. QED  BY <2>1, <2>2
<1>7. View!DiskChangesPreservesPersistentAndFrozen
  <2>1. ASSUME NEW l \in View!KnownLocs, NEW i \in Blocks(indirectionTables[l])
        PROVE  nodes'[i] = nodes[i]
    BY <2>1, KnownWhole, WritesSpareUsedBlocks
  <2>. QED  BY <1>2, <2>1, SparingStep
<1>8. FrozenLoc' = FrozenLoc
  BY <1>2 DEF FrozenLoc
<1>9. View!DiskChange
  BY <1>2, <1>5, <1>6, <1>7, <1>8 DEF View!DiskChange
<1>10. PartOf(EphemeralGraph', EphemeralGraph)
  BY <1>5 DEF PartOf
<1>. QED  BY <1>9, <1>10 DEF StepOfView, View!Next, OnlyEditsEdit

LEMMA EvictIsStep ==
  ASSUME SInv, mode = "Ready", NEW ref, ~NeedToWrite(ref),
         cache' = Without(cache, ref),
         UNCHANGED <<loadVars, persistentVars, frozenVars, ephemeralIndirectionTable,
                     blockDiskVars>>
  PROVE  StepOfView /\ OnlyEditsEdit
<1>1. ASSUME NEW r \in RefsWithNoLoc(ephemeralIndirectionTable)
      PROVE  cache'[r] = cache[r]
  <2>1. r # ref
    BY DEF NeedToWrite, HasEmptyLoc, RefsWithNoLoc
  <2>2. r \in DOMAIN cache
    BY DEF SInv, CacheInv
  <2>. QED  BY <2>1, <2>2 DEF Without, Restrict
<1>. QED  BY <1>1, QuietStep DEF FrozenLoc

LEMMA MakeRoomIsStep ==
  ASSUME SInv, MakeRoom
  PROVE  StepOfView /\ OnlyEditsEdit
<1>1. mode = "Ready" /\ EvictOrDealloc /\ UNCHANGED systemVars
  BY DEF MakeRoom, EvictOrDealloc
<1>2. CASE \E ref \in Deallocable(ephemeralIndirectionTable) :
             Dealloc(ref) /\ UNCHANGED blockDiskVars
  BY <1>1, <1>2, DeallocIsStep
<1>3. CASE \E ref \in DOMAIN cache : \E id \in FreshReqId : TryToWriteBlock(id, ref)
  BY <1>1, <1>3, TryToWriteBlockIsStep
<1>4. ASSUME NEW ref, ~NeedToWrite(ref), cache' = Without(cache, ref),
             UNCHANGED <<loadVars, persistentVars, frozenVars, ephemeralIndirectionTable,
                         blockDiskVars>>
      PROVE  StepOfView /\ OnlyEditsEdit
  BY <1>1, <1>4, EvictIsStep
<1>. QED  BY <1>1, <1>2, <1>3, <1>4 DEF EvictOrDealloc

LEMMA NodeWrittenIsStep ==
  ASSUME SInv, NodeWritten
  PROVE  StepOfView /\ OnlyEditsEdit
  BY QuietStep DEF NodeWritten, writeNodeResponse, AckWriteNode, FrozenLoc

-----------------------------------------------------------------------------
\* Freezing and saving a version

LEMMA SyncUnfrozenIsStep ==
  ASSUME SInv, SyncUnfrozen
  PROVE  StepOfView /\ OnlyEditsEdit
<1>1. CASE Freeze
  <2>1. /\ mode = "Ready" /\ frozenIndirectionTableLoc = None
        /\ frozenIndirectionTable' = ephemeralIndirectionTable
        /\ UNCHANGED <<mode, indirectionTables, nodes, cache, ephemeralIndirectionTable,
                       persistentIndirectionTableLoc, frozenIndirectionTableLoc>>
    BY <1>1 DEF Freeze, SyncUnfrozen
  <2>2. ephemeralIndirectionTable # None
    BY <2>1, TableNotNone DEF SInv, TypeOK, BlockCacheTypeOK
  <2>3. DiskCacheGraph(frozenIndirectionTable)' = DiskCacheGraph(ephemeralIndirectionTable)
    BY <2>1 DEF DiskCacheGraph, DiskCacheLookup
  <2>4. FrozenGraph' = EphemeralGraph /\ FrozenLoc' = None
    BY <2>1, <2>2, <2>3 DEF FrozenGraph, EphemeralGraph, HasFrozen, FrozenLoc
  <2>5. EphemeralGraph' = EphemeralGraph
    BY <2>1, EphemeralGraphKept
  <2>6. DiskGraphMap' = DiskGraphMap
    BY <2>1, DiskGraphsKept
  <2>7. View!Freeze
    BY <2>1, <2>4, <2>5, <2>6 DEF View!Freeze
  <2>. QED  BY <2>5, <2>7 DEF StepOfView, View!Next, OnlyEditsEdit, PartOf
<1>2. CASE DeallocBeforeFreeze /\ UNCHANGED committer
  BY <1>2, DeallocIsStep DEF DeallocBeforeFreeze, SyncUnfrozen
<1>. QED  BY <1>1, <1>2 DEF SyncUnfrozen

LEMMA WriteFrozenTableIsStep ==
  ASSUME SInv, NEW id \in FreshReqId, WriteFrozenTable(id)
  PROVE  StepOfView /\ OnlyEditsEdit
<1>. DEFINE loc == otherIndirectionTableLoc(persistentIndirectionTableLoc)
<1>1. /\ mode = "Ready" /\ frozenIndirectionTableLoc = None
      /\ indirectionTables' = [indirectionTables EXCEPT ![loc] = frozenIndirectionTable]
      /\ outstandingIndirectionTableWrite' = id /\ id # None
      /\ UNCHANGED <<mode, nodes, cache, ephemeralIndirectionTable, frozenIndirectionTable,
                     persistentIndirectionTableLoc>>
  BY NoneAssumption DEF WriteFrozenTable, RecvWriteIndirectionTable, FreshReqId
<1>2. FrozenLoc = None /\ FrozenLoc' = None
  BY <1>1 DEF FrozenLoc
<1>3. /\ persistentIndirectionTableLoc \in TableLoc /\ loc \in TableLoc
      /\ loc # persistentIndirectionTableLoc
      /\ persistentIndirectionTableLoc # None
  BY <1>1, NoneAssumption DEF SInv, LoadInv, otherIndirectionTableLoc, TableLoc
<1>4. View!KnownLocs = {persistentIndirectionTableLoc}
  BY <1>2, <1>3 DEF View!KnownLocs
<1>5. View!DiskChangesPreservesPersistentAndFrozen
  BY <1>1, <1>3, <1>4, SparingStep
<1>6. EphemeralGraph' = EphemeralGraph
  <2>1. DiskCacheGraph(ephemeralIndirectionTable)' = DiskCacheGraph(ephemeralIndirectionTable)
    BY <1>1 DEF DiskCacheGraph, DiskCacheLookup
  <2>. QED  BY <1>1, <2>1 DEF EphemeralGraph
<1>7. FrozenGraph' = FrozenGraph
  BY <1>1, FrozenGraphKept
<1>8. View!DiskChange
  BY <1>1, <1>2, <1>5, <1>6, <1>7 DEF View!DiskChange
<1>. QED  BY <1>6, <1>8 DEF StepOfView, View!Next, OnlyEditsEdit, PartOf

LEMMA SyncFrozenIsStep ==
  ASSUME SInv, SyncFrozen
  PROVE  StepOfView /\ OnlyEditsEdit
<1>1. PICK id \in FreshReqId :
        \/ \E ref \in RefsWithNoLoc(frozenIndirectionTable) : WriteFrozenNode(id, ref)
        \/ WriteFrozenTable(id)
  BY DEF SyncFrozen
<1>. QED  BY <1>1, TryToWriteBlockIsStep, WriteFrozenTableIsStep DEF WriteFrozenNode

LEMMA FrozenTableWrittenIsStep ==
  ASSUME SInv, SInv', FrozenTableWritten
  PROVE  StepOfView /\ OnlyEditsEdit
<1>1. /\ mode = "Ready" /\ outstandingIndirectionTableWrite # None
      /\ outstandingIndirectionTableWrite' = None
      /\ UNCHANGED <<mode, indirectionTables, nodes, cache, ephemeralIndirectionTable,
                     frozenIndirectionTable, frozenIndirectionTableLoc,
                     persistentIndirectionTableLoc>>
  <2>1. PICK id \in DOMAIN reqWriteIndirectionTables : writeIndirectionTableResponse(id)
    BY DEF FrozenTableWritten
  <2>2. id \in ReqId
    BY DEF SInv, TypeOK, BlockDiskTypeOK
  <2>. QED  BY <2>1, <2>2, NoneAssumption
            DEF writeIndirectionTableResponse, AckWriteIndirectionTable
<1>2. /\ FrozenLoc = None /\ FrozenLoc' = frozenIndirectionTableLoc
      /\ frozenIndirectionTableLoc # None
  BY <1>1 DEF FrozenLoc, SInv, SaveInv
<1>3. EphemeralGraph' = EphemeralGraph /\ FrozenGraph' = FrozenGraph
  BY <1>1, EphemeralGraphKept, FrozenGraphKept
<1>4. DiskGraphMap' = DiskGraphMap
  BY <1>1, DiskGraphsKept
<1>5. /\ frozenIndirectionTableLoc \in TableLoc
      /\ DiskGraphMap[frozenIndirectionTableLoc] = FrozenGraph /\ FrozenGraph # None
  BY <1>1, <1>2, <1>3, <1>4, SavedGraphsNext DEF SInv, TypeOK, BlockCacheTypeOK
<1>6. View!ProvideFrozenLoc
  BY <1>1, <1>2, <1>3, <1>4, <1>5 DEF View!ProvideFrozenLoc
<1>. QED  BY <1>3, <1>6 DEF StepOfView, View!Next, OnlyEditsEdit, PartOf

LEMMA WriteSuperblockIsStep ==
  ASSUME SInv, WriteSuperblock
  PROVE  StepOfView /\ OnlyEditsEdit
  BY QuietStep DEF WriteSuperblock, FrozenLoc

LEMMA SuperblockWrittenIsStep ==
  ASSUME SInv, SuperblockWritten
  PROVE  StepOfView /\ OnlyEditsEdit
<1>1. /\ committer = "Writing" /\ persistentIndirectionTableLoc' = frozenIndirectionTableLoc
      /\ frozenIndirectionTable' = None /\ frozenIndirectionTableLoc' = None
      /\ UNCHANGED <<mode, indirectionTables, nodes, cache, ephemeralIndirectionTable>>
  BY DEF SuperblockWritten, cleanUp
<1>2. mode = "Ready" /\ FrozenLoc = frozenIndirectionTableLoc
  BY <1>1 DEF SInv, RequestsMatch, LoadInv, FrozenLoc
<1>3. FrozenLoc' = None /\ FrozenGraph' = None
  BY <1>1 DEF FrozenLoc, FrozenGraph, HasFrozen
<1>4. EphemeralGraph' = EphemeralGraph
  <2>1. DiskCacheGraph(ephemeralIndirectionTable)' = DiskCacheGraph(ephemeralIndirectionTable)
    BY <1>1 DEF DiskCacheGraph, DiskCacheLookup
  <2>. QED  BY <1>1, <1>2, <2>1 DEF EphemeralGraph
<1>5. DiskGraphMap' = DiskGraphMap
  BY <1>1, DiskGraphsKept
<1>6. View!ForgetOld
  BY <1>1, <1>2, <1>3, <1>4, <1>5 DEF View!ForgetOld
<1>. QED  BY <1>4, <1>6 DEF StepOfView, View!Next, OnlyEditsEdit, PartOf

LEMMA CrashIsStep ==
  ASSUME SInv, UnreadyInv, Crash
  PROVE  StepOfView /\ OnlyEditsEdit
<1>1. /\ persistentIndirectionTableLoc' = None /\ mode' = "Unready"
      /\ FrozenLoc' = None /\ FrozenGraph' = None /\ EphemeralGraph' = None
  BY DEF Crash, BlockCacheCrash, FrozenLoc, FrozenGraph, HasFrozen, EphemeralGraph
<1>2. PICK tornTables \in SUBSET Range(reqWriteIndirectionTables) :
        indirectionTables' = Havoc(indirectionTables, tornTables)
  BY DEF Crash, BlockDiskCrash
<1>3. PICK tornNodes \in SUBSET Range(reqWriteNodes) : nodes' = Havoc(nodes, tornNodes)
  BY DEF Crash, BlockDiskCrash
<1>4. View!DiskChangesPreservesPersistentAndFrozen
  <2>1. CASE mode = "Ready"
    <3>1. ASSUME NEW loc \in View!KnownLocs
          PROVE  /\ indirectionTables'[loc] = indirectionTables[loc]
                 /\ \A i \in Blocks(indirectionTables[loc]) : nodes'[i] = nodes[i]
      <4>1. /\ loc \in TableLoc /\ loc \notin tornTables
            /\ Blocks(indirectionTables[loc]) \cap tornNodes = {}
            /\ Whole(indirectionTables[loc])
        BY <2>1, KnownWhole
      <4>3. Blocks(indirectionTables[loc]) \subseteq NodeBlock
        BY <4>1 DEF Whole, WellFormed, IsTable, Blocks, Range
      <4>2. DOMAIN indirectionTables = TableLoc /\ DOMAIN nodes = NodeBlock
        BY DEF SInv, TypeOK, BlockDiskTypeOK
      <4>. QED  BY <1>2, <1>3, <4>1, <4>2, <4>3 DEF Havoc
    <3>. QED  BY <2>1, <3>1, SparingStep
  <2>2. CASE mode # "Ready"
    <3>1. /\ DOMAIN reqWriteIndirectionTables = {} /\ DOMAIN reqWriteNodes = {}
      BY <2>2 DEF SInv, LoadInv, RequestsMatch
    <3>2. tornTables = {} /\ tornNodes = {}
      BY <3>1 DEF Range
    <3>3. DOMAIN indirectionTables = TableLoc /\ nodes \in [NodeBlock -> Node \cup {Garbage}]
      BY DEF SInv, TypeOK, BlockDiskTypeOK
    <3>4. \A loc \in TableLoc : indirectionTables'[loc] = indirectionTables[loc]
      BY <1>2, <3>2, <3>3 DEF Havoc
    <3>5. nodes' = nodes
      BY <1>3, <3>2, <3>3 DEF Havoc
    <3>6. DiskGraphMap' = DiskGraphMap
      BY <3>4, <3>5 DEF DiskGraphMap, WFDiskGraph
    <3>7. ASSUME NEW loc \in View!KnownLocs PROVE DiskGraphMap[loc] # None
      <4>1. frozenIndirectionTableLoc = None
        BY <2>2 DEF SInv, LoadInv, SaveInv
      <4>2. mode = "Loading" => persistentIndirectionTableLoc \in superblockLocs
        BY DEF SInv, LoadInv
      <4>3. mode \in {"Unready", "Loading", "Ready"}
        BY DEF SInv, TypeOK, BlockCacheTypeOK
      <4>. QED  BY <2>2, <4>1, <4>2, <4>3, SavedGraphs DEF View!KnownLocs, FrozenLoc, UnreadyInv
    <3>. QED  BY <3>6, <3>7 DEF View!DiskChangesPreservesPersistentAndFrozen
  <2>. QED  BY <2>1, <2>2
<1>5. View!Crash
  BY <1>1, <1>4 DEF View!Crash
<1>. QED  BY <1>1, <1>5 DEF StepOfView, View!Next, OnlyEditsEdit

-----------------------------------------------------------------------------
\* The refinement

LEMMA InitIsInit == Init => View!Init
<1>. SUFFICES ASSUME Init PROVE View!Init
  OBVIOUS
<1>1. PICK loc \in TableLoc : BlockDiskInit(loc) /\ superblockLocs = {loc}
  BY DEF Init
<1>2. /\ persistentIndirectionTableLoc = None /\ FrozenLoc = None
      /\ FrozenGraph = None /\ EphemeralGraph = None
  BY DEF Init, BlockCacheInit, FrozenLoc, FrozenGraph, HasFrozen, EphemeralGraph
<1>. DEFINE t == indirectionTables[loc]
<1>3. /\ SInv /\ t = [locs |-> Put(<<>>, Root, MinNodeBlockIndex), graph |-> Put(<<>>, Root, <<>>)]
      /\ mode = "Unready"
  BY <1>1, InitSInv DEF Init, BlockDiskInit, BlockCacheInit
<1>. HIDE DEF t
<1>4. Whole(t)
  BY <1>1, <1>3, RecoverableWhole DEF t
<1>5. DiskGraphMap[loc] = DiskCacheGraph(t) /\ DiskGraphMap[loc] # None
  BY <1>3, <1>4, WholeGraph DEF t
<1>6. /\ DOMAIN t.graph = {Root} /\ DOMAIN t.locs = {Root} /\ t.locs[Root] = MinNodeBlockIndex
      /\ t.graph[Root] = <<>>
  BY <1>3 DEF Put
<1>7. nodes[MinNodeBlockIndex].children = <<>>
  BY <1>4, <1>6 DEF Whole, Intact, IntactOn
<1>8. EmptyTree(DiskGraphMap[loc])
  BY <1>5, <1>6, <1>7 DEF EmptyTree, DiskCacheGraph, DiskCacheLookup
<1>. QED  BY <1>2, <1>5, <1>8 DEF View!Init

LEMMA NextKeepsUnreadyInv ==
  ASSUME SInv, UnreadyInv, [Next]_vars
  PROVE  UnreadyInv'
<1>. SUFFICES ASSUME mode' = "Unready" PROVE persistentIndirectionTableLoc' = None
  BY DEF UnreadyInv
<1>1. CASE Crash
  BY <1>1 DEF Crash, BlockCacheCrash
<1>2. CASE Load \/ Read
  BY <1>2 DEF Load, receiveLoc, PageInIndirectionTableReq, PageInIndirectionTableResp,
              Read, PageInNodeReq, PageInNodeResp, UnreadyInv
<1>3. CASE EditTree
  <2>1. mode = "Ready"
    BY <1>3 DEF EditTree, InsertKeyValue, Grow, RunFlushPolicy
  <2>2. \E e : Commit(e)
    <3>1. ASSUME NEW parent, NEW slot, Flush(parent, slot) PROVE \E e : Commit(e)
      BY <3>1 DEF Flush
    <3>2. ASSUME NEW parent, NEW slot, Split(parent, slot) PROVE \E e : Commit(e)
      BY <3>2 DEF Split
    <3>3. ASSUME NEW ref, RepivotLeaf(ref) PROVE \E e : Commit(e)
      BY <3>3 DEF RepivotLeaf
    <3>4. InsertKeyValue \/ Grow => \E e : Commit(e)
      BY DEF InsertKeyValue, Grow
    <3>. QED  BY <1>3, <3>1, <3>2, <3>3, <3>4 DEF EditTree, RunFlushPolicy
  <2>. QED  BY <2>1, <2>2 DEF Commit
<1>4. CASE MakeRoom
  BY <1>4 DEF MakeRoom, EvictOrDealloc, Dealloc, TryToWriteBlock, Commit
<1>5. CASE SyncUnfrozen \/ SyncFrozen
  BY <1>5 DEF SyncUnfrozen, Freeze, DeallocBeforeFreeze, Dealloc, Commit,
              SyncFrozen, WriteFrozenNode, TryToWriteBlock, WriteFrozenTable
<1>6. CASE NodeWritten \/ FrozenTableWritten
  BY <1>6 DEF NodeWritten, writeNodeResponse, FrozenTableWritten, writeIndirectionTableResponse
<1>7. CASE SuperblockWritten
  BY <1>7 DEF SuperblockWritten, cleanUp, SInv, LoadInv
<1>8. CASE WriteSuperblock \/ UNCHANGED vars
  BY <1>8 DEF WriteSuperblock, vars, UnreadyInv
<1>. QED  BY <1>1, <1>2, <1>3, <1>4, <1>5, <1>6, <1>7, <1>8 DEF Next

LEMMA NextIsStep ==
  ASSUME SInv, UnreadyInv, [Next]_vars
  PROVE  StepOfView /\ OnlyEditsEdit
<1>1. SInv'
  BY NextKeepsSInv
<1>2. CASE UNCHANGED vars
  BY <1>2, QuietStep DEF vars, FrozenLoc
<1>. QED  BY <1>1, <1>2, LoadIsStep, EditTreeIsStep, ReadIsStep, MakeRoomIsStep,
            NodeWrittenIsStep, SyncUnfrozenIsStep, SyncFrozenIsStep, FrozenTableWrittenIsStep,
            WriteSuperblockIsStep, SuperblockWrittenIsStep, CrashIsStep DEF Next

\* The block cache implements StatesView: whatever it writes, evicts and reads,
\* the saved versions stay, the frozen one is a copy of the tree, and only the
\* operations of the tree change it (BlockSystem_Refines_StatesView).
THEOREM CacheImplementsStatesView == Spec => ImplementsStatesView
<1>1. Init => UnreadyInv
  BY DEF Init, BlockCacheInit, UnreadyInv
<1>2. SInv /\ UnreadyInv /\ [Next]_vars => UnreadyInv'
  BY NextKeepsUnreadyInv
<1>3. Spec => []UnreadyInv
  BY <1>1, <1>2, BlockSystemInvariance, PTL DEF Spec
<1>4. SInv /\ UnreadyInv /\ [Next]_vars =>
        /\ [View!Next]_View!vars
        /\ (mode = "Ready" /\ mode' = "Ready" =>
              PartOf(EphemeralGraph', EphemeralGraph) \/ EditTree)
  BY NextIsStep DEF StepOfView, OnlyEditsEdit
<1>. QED  BY <1>3, <1>4, InitIsInit, BlockSystemInvariance, PTL
          DEF Spec, ImplementsStatesView, View!Spec
=============================================================================
