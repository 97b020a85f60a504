-------------------------- MODULE IndirectionTable --------------------------
(***************************************************************************)
(* What the block cache asks of an indirection table                       *)
(* (Impl/IndirectionTable): the references of the tree with the successors *)
(* of each, and the location of those whose node is on disk.  How the      *)
(* table counts predecessors and finds its answers is RefCountTable.       *)
(***************************************************************************)
EXTENDS BlockAllocator, Maps, Sequences

CONSTANTS MaxRef       \* the largest reference, 2^64 - 1 in the code

ASSUME MaxRefAssumption == MaxRef \in Nat

Ref  == 0 .. MaxRef
Root == 0

\* graph maps a reference to the sequence of its successors, locs to a block.
Table ==
  [locs  : UNION {[refs -> NodeBlock] : refs \in SUBSET Ref},
   graph : UNION {[refs -> Seq(Ref)] : refs \in SUBSET Ref}]

\* The members of Table with locations only for references of the tree.
IsTable(t) ==
  /\ t \in [locs : [DOMAIN t.locs -> NodeBlock], graph : [DOMAIN t.graph -> Seq(Ref)]]
  /\ DOMAIN t.graph \in SUBSET Ref
  /\ DOMAIN t.locs \in SUBSET DOMAIN t.graph

Blocks(t) == Range(t.locs)

HasEmptyLoc(t, ref) == ref \in DOMAIN t.graph \ DOMAIN t.locs

RefsWithNoLoc(t) == DOMAIN t.graph \ DOMAIN t.locs

\* References nothing points to; the root is never one of them.
Deallocable(t) ==
  {ref \in DOMAIN t.graph \ {Root} :
     \A r \in DOMAIN t.graph : ref \notin Range(t.graph[r])}

\* No location where the reference has one already, or was removed.
AddsLoc(t, ref) == HasEmptyLoc(t, ref)
AddLocIfPresent(t, ref, loc) ==
  IF AddsLoc(t, ref) THEN [t EXCEPT !.locs = Put(@, ref, loc)] ELSE t

RemoveLoc(t, ref) == [t EXCEPT !.locs = Without(@, ref)]

UpdateAndRemoveLoc(t, ref, succs) ==
  [t EXCEPT !.locs = Without(@, ref), !.graph = Put(@, ref, succs)]

RemoveRef(t, ref) ==
  [t EXCEPT !.locs = Without(@, ref), !.graph = Without(@, ref)]

\* The bitmap of a loaded table; it is refused if two references share a block.
InitLocBitmap(t) == Reserved \cup Blocks(t)
InitLocBitmapSucceeds(t) ==
  \A r1, r2 \in DOMAIN t.locs : t.locs[r1] = t.locs[r2] => r1 = r2

RefUpperBound(t) ==
  CHOOSE ref \in DOMAIN t.graph : \A r \in DOMAIN t.graph : r <= ref
=============================================================================
