----------------------------- MODULE BetreeNode -----------------------------
(***************************************************************************)
(* Nodes of the B-epsilon tree (Impl/NodeImpl, PivotBetree/                *)
(* PivotBetreeSpec) and their parts, pivots and buckets (lib/Buckets).     *)
(* Pivot i and pivot i + 1 bound bucket i; bucket i holds messages that    *)
(* are newer than anything below child i.  The messages of the program     *)
(* all define a value, so a bucket maps keys to values.                    *)
(*                                                                         *)
(* A key is a number: 0 is the empty key, the least one, and NumKeys       *)
(* stands for the Max_Element above all keys.  A message weighs 1.         *)
(***************************************************************************)
EXTENDS Naturals, FiniteSets, SequencesExt, Maps

CONSTANTS
  NumKeys,
  Value

ASSUME KeyAssumption == NumKeys \in Nat /\ NumKeys >= 2

Key   == 0 .. (NumKeys - 1)
Pivot == 0 .. NumKeys

EmptyBucket == <<>>

InitPivotTable == <<0, NumKeys>>

EmptyNode ==
  [pivotTable |-> InitPivotTable, children |-> <<>>, buckets |-> <<EmptyBucket>>]

IsLeaf(node) == node.children = <<>>

-----------------------------------------------------------------------------
\* Pivots

BoundedKey(pt, key) == pt[1] <= key /\ key < Last(pt)

ContainsAllKeys(pt) == pt[1] = 0 /\ Last(pt) = NumKeys

\* The bucket a key belongs to, for a bounded key.
Route(pt, key) ==
  CHOOSE i \in 1 .. (Len(pt) - 1) : pt[i] <= key /\ key < pt[i + 1]

PivotInsertable(pt, i, pivot) == pt[i - 1] < pivot /\ pivot < pt[i]

ValidLeftCutOffKey(pt, pivot) == pt[1] < pivot /\ pivot <= Last(pt)

\* The bucket a bound belongs to as an upper bound.
CutoffForLeft(pt, pivot) ==
  CHOOSE i \in 1 .. (Len(pt) - 1) : pt[i] < pivot /\ pivot <= pt[i + 1]

-----------------------------------------------------------------------------
\* Buckets

BucketWeight(bucket) == Cardinality(DOMAIN bucket)

\* The messages of a node, with their slots.
MessagesOf(node) == UNION {{i} \X DOMAIN node.buckets[i] : i \in DOMAIN node.buckets}

NodeWeight(node) == Cardinality(MessagesOf(node))

SplitBucketLeft(bucket, pivot)  == Restrict(bucket, {k \in DOMAIN bucket : k < pivot})
SplitBucketRight(bucket, pivot) == Restrict(bucket, {k \in DOMAIN bucket : k >= pivot})

\* A mistake: one key too low, which may be the least of them.
getKeyBelowMiddle(bucket) ==
  LET keys == Ascending(DOMAIN bucket)
      key  == IF Len(keys) < 2 THEN 0 ELSE keys[Len(keys) \div 2]
  IN  IF key = 0 THEN 1 ELSE key

\* The key 1 stands in for an empty bucket, and for the empty key.
getMiddleKey(bucket) ==
  LET keys == Ascending(DOMAIN bucket)
      key  == IF keys = <<>> THEN 0 ELSE keys[Len(keys) \div 2 + 1]
  IN  IF key = 0 THEN 1 ELSE key

BucketBounded(bucket, pt) == \A k \in DOMAIN bucket : BoundedKey(pt, k)

\* The slot with the heaviest bucket, the first of them.
BiggestSlot(node) ==
  LET weight(i) == BucketWeight(node.buckets[i])
  IN  CHOOSE i \in DOMAIN node.buckets :
        \A j \in DOMAIN node.buckets : weight(j) <= weight(i) /\ (weight(j) = weight(i) => i <= j)

-----------------------------------------------------------------------------
\* Nodes

NodeInsertKeyValue(node, key, value) ==
  [node EXCEPT !.buckets[Route(node.pivotTable, key)] = Put(@, key, value)]

CutoffNodeAndKeepLeft(node, pivot) ==
  LET c == CutoffForLeft(node.pivotTable, pivot)
  IN  [pivotTable |-> Append(SubSeq(node.pivotTable, 1, c), pivot),
       children   |-> IF IsLeaf(node) THEN <<>> ELSE SubSeq(node.children, 1, c),
       buckets    |-> Append(SubSeq(node.buckets, 1, c - 1),
                             SplitBucketLeft(node.buckets[c], pivot))]

CutoffNodeAndKeepRight(node, pivot) ==
  LET c == Route(node.pivotTable, pivot)
      n == Len(node.buckets)
  IN  [pivotTable |-> <<pivot>> \o SubSeq(node.pivotTable, c + 1, n + 1),
       children   |-> IF IsLeaf(node) THEN <<>> ELSE SubSeq(node.children, c, n),
       buckets    |-> <<SplitBucketRight(node.buckets[c], pivot)>>
                        \o SubSeq(node.buckets, c + 1, n)]

\* NumKeys as upper bound leaves the right end as it is.
CutoffNode(node, lbound, ubound) ==
  CutoffNodeAndKeepRight(
    IF ubound = NumKeys THEN node ELSE CutoffNodeAndKeepLeft(node, ubound), lbound)

SplitChildLeft(node, numLeft) ==
  [pivotTable |-> SubSeq(node.pivotTable, 1, numLeft + 1),
   children   |-> SubSeq(node.children, 1, IF IsLeaf(node) THEN 0 ELSE numLeft),
   buckets    |-> SubSeq(node.buckets, 1, numLeft)]

SplitChildRight(node, numLeft) ==
  LET n == Len(node.buckets)
  IN  [pivotTable |-> SubSeq(node.pivotTable, numLeft + 1, n + 1),
       children   |-> IF IsLeaf(node) THEN <<>> ELSE SubSeq(node.children, numLeft + 1, n),
       buckets    |-> SubSeq(node.buckets, numLeft + 1, n)]

Replace1with2(s, a, b, i) == InsertAt(ReplaceAt(s, i, b), i, a)

\* A mistake: both slots have all the messages.
SplitParentCopiesBucket(node, slot, pivot, left, right) ==
  [pivotTable |-> InsertAt(node.pivotTable, slot + 1, pivot),
   children   |-> Replace1with2(node.children, left, right, slot),
   buckets    |-> InsertAt(node.buckets, slot, node.buckets[slot])]

SplitParent(node, slot, pivot, left, right) ==
  [pivotTable |-> InsertAt(node.pivotTable, slot + 1, pivot),
   children   |-> Replace1with2(node.children, left, right, slot),
   buckets    |-> Replace1with2(node.buckets, SplitBucketLeft(node.buckets[slot], pivot),
                                SplitBucketRight(node.buckets[slot], pivot), slot)]

\* LeafImpl: the bucket is split at its middle key; the pivots span all keys
\* again, whatever they were.
RepivotedLeaf(node) ==
  LET bucket == node.buckets[1]
      pivot  == getMiddleKey(bucket)
  IN  [pivotTable |-> InsertAt(InitPivotTable, 2, pivot),
       children   |-> <<>>,
       buckets    |-> <<SplitBucketLeft(bucket, pivot), SplitBucketRight(bucket, pivot)>>]

\* A mistake: what the child has is taken for newer.
MergedUnder(node, msgs) ==
  [node EXCEPT !.buckets =
     [i \in DOMAIN @ |->
        Over(@[i], Restrict(msgs, {k \in DOMAIN msgs : Route(node.pivotTable, k) = i}))]]

\* The messages of a parent go over those of a child, each to its bucket.
MergedOver(node, msgs) ==
  [node EXCEPT !.buckets =
     [i \in DOMAIN @ |->
        Over(Restrict(msgs, {k \in DOMAIN msgs : Route(node.pivotTable, k) = i}), @[i])]]

Bucket == UNION {[ks -> Value] : ks \in SUBSET Key}

WFNode(node) ==
  LET pt == node.pivotTable
  IN  /\ node \in [pivotTable : Seq(Pivot), children : {node.children}, buckets : Seq(Bucket)]
      /\ Len(pt) >= 2 /\ \A i \in 2 .. Len(pt) : pt[i - 1] < pt[i]
      /\ Len(node.buckets) = Len(pt) - 1
      /\ IsLeaf(node) \/ Len(node.children) = Len(node.buckets)
      /\ \A i \in DOMAIN node.buckets :
           \A k \in DOMAIN node.buckets[i] : pt[i] <= k /\ k < pt[i + 1]
=============================================================================
