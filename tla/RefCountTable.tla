--------------------------- MODULE RefCountTable ---------------------------
(***************************************************************************)
(* How an indirection table (Impl/IndirectionTable) answers the questions  *)
(* of the block cache without a search: with every entry it keeps the      *)
(* number of its predecessors, in garbageQueue (a LinearUSeq) the          *)
(* references that have none, and in findLoclessIterator how far the       *)
(* search for a reference without a location has come.                     *)
(*                                                                         *)
(* Whether an entry has a location is all that is kept of the location,    *)
(* which BlockCache has.  The hash map is iterated in the order of the     *)
(* references, where the code takes the order of its slots.                *)
(***************************************************************************)
EXTENDS Naturals, FiniteSets, SequencesExt, Maps

CONSTANTS
  MaxRef,        \* the largest reference
  NoIterator     \* the search starts from the first entry

ASSUME RefAssumption == MaxRef \in Nat /\ NoIterator \notin Nat

Ref  == 0 .. MaxRef
Root == 0
End  == MaxRef + 1      \* an iterator at the end

Entry(hasLoc, succs, predCount) ==
  [hasLoc |-> hasLoc, succs |-> succs, predCount |-> predCount]

\* Entries whose successors have entries.
Graphs(D) == [D -> [hasLoc : BOOLEAN, succs : Seq(D), predCount : Nat]]

IsGraph(entries) == DOMAIN entries \subseteq Ref /\ entries \in Graphs(DOMAIN entries)

IsRefCountTable(t) ==
  LET D == DOMAIN t.entries
  IN  /\ D \subseteq Ref
      /\ t \in [entries : Graphs(D), garbageQueue : Seq(D), refUpperBound : Ref,
                findLoclessIterator : Ref \cup {End, NoIterator}]

-----------------------------------------------------------------------------
\* Changes of the predecessor counts

Enqueue(queue, ref) == IF Contains(queue, ref) THEN queue ELSE Append(queue, ref)

PredInc(t, ref) ==
  [t EXCEPT !.entries[ref].predCount = @ + 1,
            !.garbageQueue = IF t.entries[ref].predCount = 0 THEN RemoveFirst(@, ref) ELSE @]

PredDec(t, ref) ==
  [t EXCEPT !.entries[ref].predCount = @ - 1,
            !.garbageQueue = IF t.entries[ref].predCount = 1 THEN Enqueue(@, ref) ELSE @]

\* The loops over the successors of an entry.
PredIncAll(t, succs) ==
  LET after[i \in 0 .. Len(succs)] ==
        IF i = 0 THEN t ELSE PredInc(after[i - 1], succs[i])
  IN  after[Len(succs)]

PredDecAll(t, succs) ==
  LET after[i \in 0 .. Len(succs)] ==
        IF i = 0 THEN t ELSE PredDec(after[i - 1], succs[i])
  IN  after[Len(succs)]

\* A mistake: the first old successor keeps its count.
UpdatePredCountsSkipsFirst(t, newSuccs, oldSuccs) ==
  PredDecAll(PredIncAll(t, newSuccs), IF oldSuccs = <<>> THEN <<>> ELSE Tail(oldSuccs))

\* The new successors first, so that one which stays is never without predecessor.
UpdatePredCounts(t, newSuccs, oldSuccs) == PredDecAll(PredIncAll(t, newSuccs), oldSuccs)

\* Another location will be found, or none: the search starts again.
Restarted(t) == [t EXCEPT !.findLoclessIterator = NoIterator]

RemoveLoc(t, ref) == Restarted([t EXCEPT !.entries[ref].hasLoc = FALSE])

AddLocIfPresent(t, ref) ==
  IF ref \in DOMAIN t.entries THEN [t EXCEPT !.entries[ref].hasLoc = TRUE] ELSE t

\* A mistake: what is removed stays in the queue.
RemoveRefStaysQueued(t, ref) ==
  Restarted(UpdatePredCounts([t EXCEPT !.entries = Without(@, ref)],
                             <<>>, t.entries[ref].succs))

RemoveRef(t, ref) ==
  Restarted(UpdatePredCounts([t EXCEPT !.entries = Without(@, ref),
                                       !.garbageQueue = RemoveFirst(@, ref)],
                             <<>>, t.entries[ref].succs))

UpdateAndRemoveLoc(t, ref, succs) ==
  LET isNew    == ref \notin DOMAIN t.entries
      old      == IF isNew THEN Entry(FALSE, <<>>, 0) ELSE t.entries[ref]
      inserted ==
        [t EXCEPT !.entries = Put(@, ref, Entry(FALSE, succs, old.predCount)),
                  !.garbageQueue = IF isNew THEN Enqueue(@, ref) ELSE @,
                  !.refUpperBound = IF ref > @ THEN ref ELSE @]
  IN  Restarted(UpdatePredCounts(inserted, succs, old.succs))

-----------------------------------------------------------------------------
\* The questions

HasEmptyLoc(t, ref) == ref \in DOMAIN t.entries /\ ~t.entries[ref].hasLoc

\* A set of one reference, or of none.
FindDeallocable(t) == IF t.garbageQueue = <<>> THEN {} ELSE {Head(t.garbageQueue)}

\* Where the search ends: at an entry without a location, or at the end.
SearchFrom(t) == IF t.findLoclessIterator = NoIterator THEN 0 ELSE t.findLoclessIterator

LoclessPosition(t) ==
  LET found == {ref \in DOMAIN t.entries : ref >= SearchFrom(t) /\ HasEmptyLoc(t, ref)}
  IN  IF found = {} THEN End ELSE CHOOSE ref \in found : \A r \in found : ref <= r

\* A mistake: the iterator moves past what it has found.
FindRefWithNoLocMovesOn(t) ==
  [t EXCEPT !.findLoclessIterator =
     IF LoclessPosition(t) = End THEN End ELSE LoclessPosition(t) + 1]

\* The table after the search.
FindRefWithNoLoc(t) == [t EXCEPT !.findLoclessIterator = LoclessPosition(t)]

\* A copy is not asked for garbage, and searched from the start.
Clone(t) == Restarted([t EXCEPT !.garbageQueue = <<>>])

-----------------------------------------------------------------------------
\* A table read from disk, where an entry has a location and its successors.

CountSuccs(entries, succs) ==
  LET after[i \in 0 .. Len(succs)] ==
        IF i = 0 THEN entries ELSE [after[i - 1] EXCEPT ![succs[i]].predCount = @ + 1]
  IN  after[Len(succs)]

ComputeRefCounts(entries) ==
  LET uncounted == [ref \in DOMAIN entries |->
                      [entries[ref] EXCEPT !.predCount = IF ref = Root THEN 1 ELSE 0]]
      after[n \in 0 .. End] ==
        IF n = 0 THEN uncounted
        ELSE IF n - 1 \in DOMAIN entries THEN CountSuccs(after[n - 1], entries[n - 1].succs)
        ELSE after[n - 1]
  IN  after[End]

\* MakeGarbageQueue and ComputeRefUpperBound
ValToIndirectionTable(entries) ==
  LET counted == ComputeRefCounts(entries)
  IN  [entries             |-> counted,
       garbageQueue        |->
         Ascending({ref \in DOMAIN entries : counted[ref].predCount = 0}),
       refUpperBound       |-> Max(DOMAIN entries),
       findLoclessIterator |-> NoIterator]
=============================================================================
