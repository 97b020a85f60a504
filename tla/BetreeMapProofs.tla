-------------------------- MODULE BetreeMapProofs --------------------------
(***************************************************************************)
(* Betree is a map.  A search of the tree ends, and finds one value for    *)
(* every key, whatever the pivots of the child it is sent to: ValueOn.     *)
(* MapInv says what keeps it from failing on its way, and each step of the *)
(* tree keeps MapInv and what is found for every key but the one it        *)
(* writes.  From it follow the refinement of the map, that the policy      *)
(* chooses what can be done, and that a range query answers what the map   *)
(* has in its range.                                                       *)
(***************************************************************************)
EXTENDS BetreeProofs

USE KeyAssumption, TreeAssumption, RefAssumption DEF Ref, Root, End

-----------------------------------------------------------------------------
\* Searches

\* Searches in the nodes of any version.

\* Whether a search goes through a node, and what it finds from there when below
\* is what it finds from the children.
Passing(ns, ref, key) == ref \in DOMAIN ns /\ BoundedKey(ns[ref].pivotTable, key)

StepValue(node, below, key) ==
  IF key \in DOMAIN BucketAt(node, key) THEN BucketAt(node, key)[key]
  ELSE IF IsLeaf(node) THEN DefaultValue
  ELSE below[ChildAt(node, key)][key]

Visit(ns, f, counter) ==
  [ref \in Ref |-> [key \in Key |->
     IF counter = 0 \/ ~Passing(ns, ref, key) THEN None
     ELSE StepValue(ns[ref], f[counter - 1], key)]]

IterOn(ns) == CHOOSE f : f = [counter \in Nat |-> Visit(ns, f, counter)]

\* The recursive query is the iteration on the nodes in memory.
LEMMA QueryIsIter == queryIterate = IterOn(nodes)
  BY DEF queryIterate, IterOn, Visit, StepValue, Passing, Passable, BucketFor, ChildFor,
         BucketAt, ChildAt

Answering == [Ref -> [Key -> Value \cup {None}]]

\* Within its bounds a node has a slot for the key, and an inner node a child there.
LEMMA RoutedChild ==
  ASSUME NEW ns, IsTree(ns), NEW ref \in DOMAIN ns, NEW key \in Nat,
         BoundedKey(ns[ref].pivotTable, key)
  PROVE  /\ WFNode(ns[ref]) /\ BucketAt(ns[ref], key) \in Bucket
         /\ Route(ns[ref].pivotTable, key) \in 1 .. Len(ns[ref].buckets)
         /\ ~IsLeaf(ns[ref]) => /\ ChildAt(ns[ref], key) \in DOMAIN ns
                                /\ Route(ns[ref].pivotTable, key) \in 1 .. Len(ns[ref].children)
<1>. DEFINE slot == Route(ns[ref].pivotTable, key)
<1>1. WFNode(ns[ref])
  BY DEF IsTree
<1>2. slot \in 1 .. Len(ns[ref].buckets) /\ BucketAt(ns[ref], key) \in Bucket
  BY <1>1, RouteInNode
<1>. HIDE DEF slot
<1>3. ~IsLeaf(ns[ref]) => /\ ns[ref].children[slot] \in DOMAIN ns
                          /\ slot \in 1 .. Len(ns[ref].children)
  BY <1>2, ChildInTree
<1>. QED  BY <1>1, <1>2, <1>3 DEF ChildAt, slot

\* One step of a search finds a value or none.
LEMMA StepValueTyped ==
  ASSUME NEW ns, IsTree(ns), NEW f \in Answering, NEW ref \in DOMAIN ns, NEW key \in Key,
         BoundedKey(ns[ref].pivotTable, key)
  PROVE  StepValue(ns[ref], f, key) \in Value \cup {None}
<1>1. key \in Nat
  BY DEF Key
<1>2. /\ BucketAt(ns[ref], key) \in Bucket
      /\ ~IsLeaf(ns[ref]) => ChildAt(ns[ref], key) \in DOMAIN ns
  BY <1>1, RoutedChild
<1>3. DOMAIN ns \subseteq Ref
  BY DEF IsTree
<1>4. CASE key \in DOMAIN BucketAt(ns[ref], key)
  <2>. DEFINE b == BucketAt(ns[ref], key)
  <2>1. b \in Bucket /\ key \in DOMAIN b
    BY <1>2, <1>4
  <2>. HIDE DEF b
  <2>2. b[key] \in Value
    BY <2>1, BucketFacts
  <2>3. StepValue(ns[ref], f, key) = b[key]
    BY <1>4 DEF StepValue, b
  <2>. QED  BY <2>2, <2>3
<1>5. CASE key \notin DOMAIN BucketAt(ns[ref], key) /\ IsLeaf(ns[ref])
  BY <1>5 DEF StepValue
<1>6. CASE key \notin DOMAIN BucketAt(ns[ref], key) /\ ~IsLeaf(ns[ref])
  <2>. DEFINE c == ChildAt(ns[ref], key)
  <2>1. c \in Ref
    BY <1>2, <1>3, <1>6
  <2>2. StepValue(ns[ref], f, key) = f[c][key]
    BY <1>6 DEF StepValue
  <2>. HIDE DEF c
  <2>3. f[c] \in [Key -> Value \cup {None}]
    BY <2>1 DEF Answering
  <2>. QED  BY <2>2, <2>3
<1>. QED  BY <1>4, <1>5, <1>6

\* One level of a search.
Level(ns, f) ==
  [ref \in Ref |-> [key \in Key |->
     IF ~Passing(ns, ref, key) THEN None ELSE StepValue(ns[ref], f, key)]]

\* One more step of all searches gives answers again.
LEMMA LevelTyped ==
  ASSUME NEW ns, IsTree(ns), NEW f \in Answering
  PROVE  Level(ns, f) \in Answering
<1>1. ASSUME NEW ref \in Ref, NEW key \in Key
      PROVE  (IF ~Passing(ns, ref, key) THEN None ELSE StepValue(ns[ref], f, key))
               \in Value \cup {None}
  <2>1. CASE Passing(ns, ref, key)
    <3>1. StepValue(ns[ref], f, key) \in Value \cup {None}
      BY <2>1, StepValueTyped DEF Passing
    <3>. QED  BY <2>1, <3>1
  <2>2. CASE ~Passing(ns, ref, key)
    BY <2>2
  <2>. QED  BY <2>1, <2>2
<1>. QED  BY <1>1 DEF Level, Answering

\* The iteration has its recursive equation.
LEMMA IterFacts ==
  ASSUME NEW ns, IsTree(ns)
  PROVE  /\ \A n \in Nat : IterOn(ns)[n] \in Answering
         /\ \A ref \in Ref, key \in Key : IterOn(ns)[0][ref][key] = None
         /\ \A n \in Nat : IterOn(ns)[n + 1] = Level(ns, IterOn(ns)[n])
<1>. DEFINE none == [ref \in Ref |-> [key \in Key |-> None]]
            step == [f \in Answering |-> Level(ns, f)]
            W(f) == f = [counter \in Nat |-> Visit(ns, f, counter)]
            h == CHOOSE f : W(f)
<1>1. none \in Answering
  BY DEF Answering
<1>2. step \in [Answering -> Answering]
  BY LevelTyped
<1>. HIDE DEF none, step
<1>3. PICK g \in [Nat -> Answering] :
        g[0] = none /\ \A n \in Nat : g[n + 1] = step[g[n]]
  BY <1>1, <1>2, EndlessIterationExists
<1>4. \A f : Visit(ns, f, 0) = none
  <2>1. ASSUME NEW f
        PROVE  Visit(ns, f, 0) = none
    BY DEF Visit, none
  <2>. QED  BY <2>1
<1>5. ASSUME NEW f, NEW n \in Nat
      PROVE  Visit(ns, f, n + 1) = Level(ns, f[n])
  <2>1. n + 1 # 0 /\ (n + 1) - 1 = n
    OBVIOUS
  <2>2. Visit(ns, f, n + 1) =
          [ref \in Ref |-> [key \in Key |->
             IF ~Passing(ns, ref, key) THEN None
             ELSE StepValue(ns[ref], f[(n + 1) - 1], key)]]
    BY <2>1 DEF Visit
  <2>. QED  BY <2>1, <2>2 DEF Level
<1>6. ASSUME NEW n \in Nat
      PROVE  g[n] = Visit(ns, g, n)
  <2>1. CASE n = 0
    BY <1>3, <1>4, <2>1
  <2>2. CASE n # 0
    <3>. DEFINE m == n - 1
    <3>1. m \in Nat /\ m + 1 = n
      BY <2>2
    <3>. HIDE DEF m
    <3>2. g[m] \in Answering /\ g[m + 1] = step[g[m]]
      BY <1>3, <3>1
    <3>3. step[g[m]] = Level(ns, g[m])
      BY <3>2 DEF step
    <3>4. Visit(ns, g, m + 1) = Level(ns, g[m])
      BY <1>5, <3>1
    <3>. QED  BY <3>1, <3>2, <3>3, <3>4
  <2>. QED  BY <2>1, <2>2
<1>7. W(g)
  <2>. DEFINE r == [counter \in Nat |-> Visit(ns, g, counter)]
  <2>1. \A n \in Nat : g[n] = r[n]
    BY <1>6
  <2>2. g = [n \in Nat |-> g[n]] /\ r = [n \in Nat |-> r[n]]
    OBVIOUS
  <2>. HIDE DEF r
  <2>3. g = r
    BY <2>1, <2>2, Zenon
  <2>. QED  BY <2>3 DEF r
<1>. HIDE DEF W
<1>8. W(h)
  BY <1>7, Zenon
<1>. HIDE DEF h
<1>9. IterOn(ns) = h
  BY DEF IterOn, W, h
<1>10. \A n \in Nat : h[n] = Visit(ns, h, n)
  <2>1. h = [counter \in Nat |-> Visit(ns, h, counter)]
    BY <1>8 DEF W
  <2>. QED  BY <2>1, Zenon
<1>11. h[0] = none
  BY <1>4, <1>10
<1>12. \A n \in Nat : h[n + 1] = Level(ns, h[n])
  <2>1. \A n \in Nat : n + 1 \in Nat
    OBVIOUS
  <2>. QED  BY <1>5, <1>10, <2>1
<1>13. \A n \in Nat : h[n] \in Answering
  <2>1. ASSUME NEW n \in Nat
        PROVE  h[n] \in Answering
    <3>. DEFINE T == {k \in Nat : h[k] \in Answering}
    <3>1. 0 \in T
      BY <1>1, <1>11
    <3>2. ASSUME NEW k \in 0 .. (n - 1), k \in T
          PROVE  k + 1 \in T
      <4>1. k \in Nat /\ k + 1 \in Nat /\ h[k] \in Answering
        BY <3>2
      <4>2. Level(ns, h[k]) \in Answering
        BY <4>1, LevelTyped
      <4>. QED  BY <4>1, <4>2, <1>12
    <3>. HIDE DEF T
    <3>3. \A k \in 0 .. n : k \in T
      BY <3>1, <3>2, Induction
    <3>4. n \in T
      BY <3>3
    <3>. QED  BY <3>4 DEF T
  <2>. QED  BY <2>1
<1>14. \A ref \in Ref, key \in Key : none[ref][key] = None
  BY DEF none
<1>. QED  BY <1>9, <1>11, <1>12, <1>13, <1>14

-----------------------------------------------------------------------------
\* No way down comes back: the nodes can be numbered so that every child has a
\* lower number.
Ranked(ns, rank) ==
  \A ref \in DOMAIN ns :
    /\ rank[ref] \in Nat
    /\ \A i \in DOMAIN ns[ref].children : rank[ns[ref].children[i]] < rank[ref]

Acyclic(ns) == \E rank : Ranked(ns, rank)

\* The numbers of the references are enough.
LEMMA LowRanks ==
  ASSUME NEW ns, IsTree(ns), Acyclic(ns)
  PROVE  \E rank : Ranked(ns, rank) /\ \A ref \in DOMAIN ns : rank[ref] <= MaxRef
<1>. DEFINE D == DOMAIN ns
<1>1. PICK rank : Ranked(ns, rank)
  BY DEF Acyclic
<1>. DEFINE lower(ref) == {x \in D : rank[x] < rank[ref]}
            low == [ref \in D |-> Cardinality(lower(ref))]
<1>2. D \subseteq Ref /\ IsFiniteSet(Ref) /\ Cardinality(Ref) = MaxRef + 1
  <2>1. IsFiniteSet(0 .. MaxRef) /\ Cardinality(0 .. MaxRef) = MaxRef + 1
    <3>1. 0 \in Int /\ MaxRef \in Int
      OBVIOUS
    <3>2. IsFiniteSet(0 .. MaxRef) /\ Cardinality(0 .. MaxRef) =
            IF 0 > MaxRef THEN 0 ELSE MaxRef - 0 + 1
      BY <3>1, FS_Interval
    <3>. QED  BY <3>2
  <2>. QED  BY <2>1 DEF IsTree
<1>3. \A ref \in D : rank[ref] \in Nat
  BY <1>1 DEF Ranked
<1>. HIDE DEF D
<1>4. ASSUME NEW ref \in D
      PROVE  /\ IsFiniteSet(lower(ref)) /\ Cardinality(lower(ref)) \in Nat
             /\ IsFiniteSet(lower(ref) \cup {ref})
             /\ Cardinality(lower(ref) \cup {ref}) = Cardinality(lower(ref)) + 1
  <2>1. lower(ref) \in SUBSET Ref
    BY <1>2
  <2>2. ref \notin lower(ref)
    BY <1>3
  <2>. DEFINE S == lower(ref)
  <2>. HIDE DEF S
  <2>3. IsFiniteSet(S)
    BY <1>2, <2>1, FS_Subset DEF S
  <2>4. Cardinality(S) \in Nat
    BY <2>3, FS_CardinalityType
  <2>5. IsFiniteSet(S \cup {ref}) /\ Cardinality(S \cup {ref}) = Cardinality(S) + 1
    <3>1. ref \notin S
      BY <2>2 DEF S
    <3>. QED  BY <2>3, <3>1, FS_AddElement
  <2>. QED  BY <2>3, <2>4, <2>5 DEF S
<1>5. ASSUME NEW ref \in D
      PROVE  low[ref] \in Nat /\ low[ref] <= MaxRef
  <2>1. low[ref] = Cardinality(lower(ref))
    OBVIOUS
  <2>2. lower(ref) \cup {ref} \in SUBSET Ref
    BY <1>2
  <2>. DEFINE S == lower(ref) \cup {ref}
  <2>. HIDE DEF S, low
  <2>3. Cardinality(S) <= MaxRef + 1
    BY <1>2, <2>2, FS_Subset DEF S
  <2>4. Cardinality(S) = Cardinality(lower(ref)) + 1 /\ Cardinality(lower(ref)) \in Nat
    BY <1>4 DEF S
  <2>. QED  BY <2>1, <2>3, <2>4
<1>6. ASSUME NEW ref \in D, NEW i \in DOMAIN ns[ref].children
      PROVE  low[ns[ref].children[i]] < low[ref]
  <2>. DEFINE c == ns[ref].children[i]
  <2>1. c \in D
    <3>. DEFINE cs == ns[ref].children
    <3>1. cs \in Seq(D)
      BY DEF IsTree, D
    <3>2. i \in 1 .. Len(cs)
      BY <3>1
    <3>. HIDE DEF cs
    <3>3. cs[i] \in D
      BY <3>1, <3>2, ElementOfSeq
    <3>. QED  BY <3>3 DEF cs
  <2>2. rank[c] < rank[ref]
    BY <1>1 DEF Ranked, D
  <2>. HIDE DEF c
  <2>3. lower(c) \cup {c} \in SUBSET lower(ref)
    <3>1. ASSUME NEW x \in D, rank[x] < rank[c]
          PROVE  rank[x] < rank[ref]
      <4>1. rank[x] \in Nat /\ rank[c] \in Nat /\ rank[ref] \in Nat
        BY <1>3, <2>1
      <4>. QED  BY <2>2, <3>1, <4>1
    <3>. QED  BY <2>1, <2>2, <3>1
  <2>. DEFINE S == lower(c) \cup {c}  T == lower(ref)
  <2>4. IsFiniteSet(T) /\ Cardinality(T) \in Nat
    BY <1>4
  <2>5. Cardinality(S) = Cardinality(lower(c)) + 1 /\ Cardinality(lower(c)) \in Nat
    BY <1>4, <2>1
  <2>6. low[c] = Cardinality(lower(c)) /\ low[ref] = Cardinality(T)
    BY <2>1
  <2>. HIDE DEF S, T, low
  <2>7. Cardinality(S) <= Cardinality(T)
    BY <2>3, <2>4, FS_Subset DEF S, T
  <2>8. low[c] < low[ref]
    BY <2>4, <2>5, <2>6, <2>7
  <2>. QED  BY <2>8 DEF c
<1>. HIDE DEF low
<1>7. Ranked(ns, low)
  BY <1>5, <1>6 DEF Ranked, D
<1>. QED  BY <1>5, <1>7 DEF D

\* A search goes down in rank.
LEMMA ChildRanked ==
  ASSUME NEW ns, IsTree(ns), NEW rank, Ranked(ns, rank), NEW ref \in DOMAIN ns, NEW key \in Nat,
         BoundedKey(ns[ref].pivotTable, key), ~IsLeaf(ns[ref])
  PROVE  /\ ChildAt(ns[ref], key) \in DOMAIN ns
         /\ rank[ChildAt(ns[ref], key)] < rank[ref]
         /\ rank[ChildAt(ns[ref], key)] \in Nat /\ rank[ref] \in Nat
<1>. DEFINE slot == Route(ns[ref].pivotTable, key)
<1>1. ChildAt(ns[ref], key) \in DOMAIN ns /\ slot \in 1 .. Len(ns[ref].children)
  BY RoutedChild
<1>2. slot \in DOMAIN ns[ref].children
  BY <1>1 DEF IsTree
<1>3. ChildAt(ns[ref], key) = ns[ref].children[slot]
  BY DEF ChildAt
<1>. HIDE DEF slot
<1>. QED  BY <1>1, <1>2, <1>3 DEF Ranked

\* With more levels than the number of a node, a search from it is settled.
LEMMA Settled ==
  ASSUME NEW ns, IsTree(ns), NEW rank, Ranked(ns, rank)
  PROVE  \A n \in Nat : \A ref \in DOMAIN ns : rank[ref] < n =>
           \A key \in Key : IterOn(ns)[n + 1][ref][key] = IterOn(ns)[n][ref][key]
<1>. DEFINE f == IterOn(ns)
            ok(n) == \A ref \in DOMAIN ns : rank[ref] < n =>
                       \A key \in Key : f[n + 1][ref][key] = f[n][ref][key]
<1>1. \A n \in Nat : f[n] \in Answering /\ f[n + 1] = Level(ns, f[n])
  BY IterFacts
<1>. HIDE DEF f
<1>2. DOMAIN ns \subseteq Ref
  BY DEF IsTree
<1>3. ok(0)
  <2>1. \A ref \in DOMAIN ns : ~(rank[ref] < 0)
    BY DEF Ranked
  <2>. QED  BY <2>1
<1>4. ASSUME NEW n \in Nat, ok(n)
      PROVE  ok(n + 1)
  <2>1. ASSUME NEW ref \in DOMAIN ns, rank[ref] < n + 1, NEW key \in Key
        PROVE  f[(n + 1) + 1][ref][key] = f[n + 1][ref][key]
    <3>. DEFINE m == n + 1
    <3>1. m \in Nat /\ f[m + 1] = Level(ns, f[m]) /\ f[m] = Level(ns, f[n])
      BY <1>1
    <3>2. key \in Nat /\ ref \in Ref
      BY <1>2 DEF Key
    <3>. HIDE DEF m
    <3>3. /\ Level(ns, f[m])[ref][key] =
               IF ~Passing(ns, ref, key) THEN None ELSE StepValue(ns[ref], f[m], key)
          /\ Level(ns, f[n])[ref][key] =
               IF ~Passing(ns, ref, key) THEN None ELSE StepValue(ns[ref], f[n], key)
      BY <3>2 DEF Level
    <3>4. CASE ~Passing(ns, ref, key)
      BY <3>1, <3>3, <3>4 DEF m
    <3>5. CASE Passing(ns, ref, key)
      <4>1. BoundedKey(ns[ref].pivotTable, key)
        BY <3>5 DEF Passing
      <4>2. CASE IsLeaf(ns[ref])
        <5>1. StepValue(ns[ref], f[m], key) = StepValue(ns[ref], f[n], key)
          BY <4>2 DEF StepValue
        <5>. QED  BY <3>1, <3>3, <5>1 DEF m
      <4>3. CASE ~IsLeaf(ns[ref])
        <5>. DEFINE c == ChildAt(ns[ref], key)
        <5>1. c \in DOMAIN ns /\ rank[c] < rank[ref] /\ rank[c] \in Nat /\ rank[ref] \in Nat
          BY <3>2, <4>1, <4>3, ChildRanked
        <5>. HIDE DEF c
        <5>2. rank[c] < n
          BY <2>1, <5>1
        <5>3. f[m][c][key] = f[n][c][key]
          BY <1>4, <5>1, <5>2 DEF m
        <5>4. StepValue(ns[ref], f[m], key) = StepValue(ns[ref], f[n], key)
          BY <5>3 DEF StepValue, c
        <5>. QED  BY <3>1, <3>3, <5>4 DEF m
      <4>. QED  BY <4>2, <4>3
    <3>. QED  BY <3>4, <3>5
  <2>. QED  BY <2>1
<1>5. ASSUME NEW n \in Nat
      PROVE  ok(n)
  <2>. DEFINE T == {k \in Nat : ok(k)}
  <2>. HIDE DEF ok
  <2>1. 0 \in T
    BY <1>3
  <2>2. ASSUME NEW k \in 0 .. (n - 1), k \in T
        PROVE  k + 1 \in T
    <3>1. k \in Nat /\ k + 1 \in Nat /\ ok(k)
      BY <2>2
    <3>. QED  BY <3>1, <1>4
  <2>. HIDE DEF T
  <2>3. \A k \in 0 .. n : k \in T
    BY <2>1, <2>2, Induction
  <2>4. n \in T
    BY <2>3
  <2>. QED  BY <2>4 DEF T
<1>. QED  BY <1>5 DEF f

\* What is found from a node in the end.
ValueOn(ns) == IterOn(ns)[MaxRef + 1]

\* What is found from a node is its message for the key, or what is found from its child.
LEMMA ValueStep ==
  ASSUME NEW ns, IsTree(ns), Acyclic(ns)
  PROVE  \A ref \in DOMAIN ns, key \in Key :
           ValueOn(ns)[ref][key] =
             IF BoundedKey(ns[ref].pivotTable, key) THEN StepValue(ns[ref], ValueOn(ns), key)
             ELSE None
<1>. DEFINE f == IterOn(ns)  n == MaxRef + 1
<1>1. PICK rank : Ranked(ns, rank) /\ \A ref \in DOMAIN ns : rank[ref] <= MaxRef
  BY LowRanks
<1>2. n \in Nat
  OBVIOUS
<1>3. f[n + 1] = Level(ns, f[n])
  BY <1>2, IterFacts
<1>4. DOMAIN ns \subseteq Ref
  BY DEF IsTree
<1>5. ASSUME NEW ref \in DOMAIN ns, NEW key \in Key
      PROVE  f[n][ref][key] =
               IF BoundedKey(ns[ref].pivotTable, key) THEN StepValue(ns[ref], f[n], key)
               ELSE None
  <2>1. rank[ref] < n
    <3>1. rank[ref] \in Nat /\ rank[ref] <= MaxRef
      BY <1>1 DEF Ranked
    <3>. QED  BY <3>1
  <2>. HIDE DEF n, f
  <2>2. f[n + 1][ref][key] = f[n][ref][key]
    BY <1>1, <1>2, <2>1, Settled DEF f
  <2>3. Level(ns, f[n])[ref][key] =
          IF ~Passing(ns, ref, key) THEN None ELSE StepValue(ns[ref], f[n], key)
    BY <1>4 DEF Level
  <2>. QED  BY <1>3, <2>2, <2>3 DEF Passing
<1>. QED  BY <1>5 DEF ValueOn

-----------------------------------------------------------------------------
\* Changes of one node

\* The bounds of a child are those of its slot.  A leaf that was repivoted has
\* wider ones, with its middle pivot within the slot.
Fits(node, from, to) ==
  \/ node.pivotTable[1] = from /\ Last(node.pivotTable) = to
  \/ /\ IsLeaf(node) /\ Len(node.pivotTable) = 3
     /\ node.pivotTable[1] <= from /\ from < node.pivotTable[2]
     /\ node.pivotTable[2] < to /\ to <= Last(node.pivotTable)

\* The slot of a node, and the child there.
SlotFits(ns, node, i) ==
  /\ node.children[i] # Root
  /\ Fits(ns[node.children[i]], node.pivotTable[i], node.pivotTable[i + 1])

Searchable(ns) ==
  /\ ContainsAllKeys(ns[Root].pivotTable)
  /\ \A ref \in DOMAIN ns : \A i \in DOMAIN ns[ref].children : SlotFits(ns, ns[ref], i)

\* A version whose searches end, and find what is there.
Good(ns) == Acyclic(ns) /\ Searchable(ns)

\* The bounds of the slots ascend within those of the node.
LEMMA BoundsOfNode ==
  ASSUME NEW node, WFNode(node)
  PROVE  /\ Len(node.pivotTable) \in Nat /\ Len(node.buckets) \in Nat
         /\ Len(node.buckets) >= 1 /\ Len(node.pivotTable) = Len(node.buckets) + 1
         /\ node.pivotTable[1] \in 0 .. NumKeys /\ Last(node.pivotTable) \in 0 .. NumKeys
         /\ Last(node.pivotTable) = node.pivotTable[Len(node.pivotTable)]
         /\ \A i \in 1 .. Len(node.buckets) :
              /\ node.pivotTable[i] \in 0 .. NumKeys /\ node.pivotTable[i + 1] \in 0 .. NumKeys
              /\ node.pivotTable[i] < node.pivotTable[i + 1]
              /\ node.pivotTable[1] <= node.pivotTable[i]
              /\ node.pivotTable[i + 1] <= Last(node.pivotTable)
<1>. DEFINE pt == node.pivotTable  n == Len(node.buckets)
<1>1. Parts(pt, node.children, node.buckets)
  BY PartsOfNode
<1>. HIDE DEF pt
<1>2. /\ Len(pt) \in Nat /\ n \in Nat /\ n >= 1 /\ Len(pt) = n + 1
      /\ \A i \in 1 .. Len(pt) : pt[i] \in 0 .. NumKeys
  BY <1>1, PartsTyped
<1>3. \A i, j \in 1 .. Len(pt) : i < j => pt[i] < pt[j]
  BY <1>1, PivotsAscend
<1>4. Last(pt) = pt[Len(pt)]
  BY DEF Last
<1>. HIDE DEF n
<1>5. /\ 1 \in 1 .. Len(pt) /\ Len(pt) \in 1 .. Len(pt)
      /\ \A i \in 1 .. n : i \in 1 .. Len(pt) /\ i + 1 \in 1 .. Len(pt) /\ i < i + 1
                           /\ (1 = i \/ 1 < i) /\ (i + 1 = Len(pt) \/ i + 1 < Len(pt))
  BY <1>2
<1>6. pt[1] \in 0 .. NumKeys /\ Last(pt) \in 0 .. NumKeys
  BY <1>2, <1>4, <1>5
<1>7. ASSUME NEW i \in 1 .. n
      PROVE  /\ pt[i] \in 0 .. NumKeys /\ pt[i + 1] \in 0 .. NumKeys
             /\ pt[i] < pt[i + 1] /\ pt[1] <= pt[i] /\ pt[i + 1] <= Last(pt)
  <2>1. pt[i] \in 0 .. NumKeys /\ pt[i + 1] \in 0 .. NumKeys /\ pt[i] < pt[i + 1]
    BY <1>2, <1>3, <1>5
  <2>2. pt[1] = pt[i] \/ pt[1] < pt[i]
    BY <1>3, <1>5
  <2>3. pt[i + 1] = Last(pt) \/ pt[i + 1] < Last(pt)
    BY <1>3, <1>4, <1>5
  <2>. QED  BY <1>6, <2>1, <2>2, <2>3
<1>. QED  BY <1>2, <1>4, <1>6, <1>7 DEF pt, n

\* A child takes every key of its slot.
LEMMA FitsCovers ==
  ASSUME NEW node, WFNode(node), NEW from \in Int, NEW to \in Int, Fits(node, from, to)
  PROVE  /\ node.pivotTable[1] <= from /\ to <= Last(node.pivotTable)
         /\ \A key \in Nat : from <= key /\ key < to => BoundedKey(node.pivotTable, key)
<1>1. node.pivotTable[1] \in Int /\ Last(node.pivotTable) \in Int
  BY BoundsOfNode
<1>2. node.pivotTable[1] <= from /\ to <= Last(node.pivotTable)
  BY <1>1 DEF Fits
<1>. DEFINE a == node.pivotTable[1]  b == Last(node.pivotTable)
<1>. HIDE DEF a, b
<1>3. \A key \in Nat : from <= key /\ key < to => a <= key /\ key < b
  <2>1. a \in Int /\ b \in Int /\ a <= from /\ to <= b
    BY <1>1, <1>2 DEF a, b
  <2>. QED  BY <2>1
<1>. QED  BY <1>2, <1>3 DEF BoundedKey, a, b

\* In a searchable version the child a search is sent to has the key in its bounds.
LEMMA ChildBounded ==
  ASSUME NEW ns, IsTree(ns), Searchable(ns), NEW ref \in DOMAIN ns, NEW key \in Nat,
         BoundedKey(ns[ref].pivotTable, key), ~IsLeaf(ns[ref])
  PROVE  BoundedKey(ns[ChildAt(ns[ref], key)].pivotTable, key)
<1>. DEFINE node == ns[ref]  slot == Route(node.pivotTable, key)  c == node.children[slot]
<1>1. WFNode(node) /\ c \in DOMAIN ns /\ slot \in 1 .. Len(node.children)
  BY RoutedChild DEF ChildAt
<1>2. /\ slot \in 1 .. Len(node.buckets)
      /\ node.pivotTable[slot] <= key /\ key < node.pivotTable[slot + 1]
  BY <1>1, RouteInNode, SMTT(30)
<1>3. slot \in DOMAIN node.children
  BY <1>1, SMTT(30) DEF IsTree
<1>4. ChildAt(ns[ref], key) = c
  BY DEF ChildAt
<1>. HIDE DEF slot
<1>5. Fits(ns[c], node.pivotTable[slot], node.pivotTable[slot + 1])
  BY <1>3 DEF Searchable, SlotFits
<1>. HIDE DEF node, c
<1>6. node.pivotTable[slot] \in Int /\ node.pivotTable[slot + 1] \in Int
  <2>1. WFNode(node) /\ slot \in 1 .. Len(node.buckets)
    BY <1>1, <1>2
  <2>2. \A i \in 1 .. Len(node.buckets) :
          node.pivotTable[i] \in 0 .. NumKeys /\ node.pivotTable[i + 1] \in 0 .. NumKeys
    BY <2>1, BoundsOfNode
  <2>3. node.pivotTable[slot] \in 0 .. NumKeys /\ node.pivotTable[slot + 1] \in 0 .. NumKeys
    BY <2>1, <2>2
  <2>. QED  BY <2>3
<1>7. WFNode(ns[c])
  BY <1>1 DEF IsTree
<1>8. BoundedKey(ns[c].pivotTable, key)
  BY <1>2, <1>5, <1>6, <1>7, FitsCovers
<1>. QED  BY <1>4, <1>8

-----------------------------------------------------------------------------
\* One node is replaced, and new ones may be added below it.
Changed(ns, ms, p, fresh) ==
  /\ p \in DOMAIN ns /\ fresh \cap DOMAIN ns = {} /\ DOMAIN ms = DOMAIN ns \cup fresh
  /\ \A r \in DOMAIN ns : r # p => ms[r] = ns[r]

\* A child with a lower number than p, or a new one.
Under(ns, rank, p, extra) == extra \cup {c \in DOMAIN ns : rank[c] < rank[p]}

ChildrenIn(node, S) == \A i \in DOMAIN node.children : node.children[i] \in S

\* A change stays acyclic if the nodes it touches refer to lower ones and to the new ones.
LEMMA ChangeAcyclic ==
  ASSUME NEW ns, IsTree(ns), NEW rank, Ranked(ns, rank), NEW ms, NEW p, NEW fresh,
         Changed(ns, ms, p, fresh), ChildrenIn(ms[p], Under(ns, rank, p, fresh)),
         \A x \in fresh : ChildrenIn(ms[x], Under(ns, rank, p, {}))
  PROVE  Acyclic(ms)
<1>. DEFINE D == DOMAIN ns
            new == [r \in D \cup fresh |-> IF r \in D THEN 2 * rank[r] + 2 ELSE 2 * rank[p] + 1]
<1>1. /\ p \in D /\ fresh \cap D = {} /\ DOMAIN ms = D \cup fresh
      /\ \A r \in D : r # p => ms[r] = ns[r]
  BY DEF Changed
<1>2. \A r \in D : rank[r] \in Nat
  BY DEF Ranked
<1>3. /\ \A r \in D : new[r] = 2 * rank[r] + 2
      /\ \A x \in fresh : new[x] = 2 * rank[p] + 1
  BY <1>1
<1>. HIDE DEF new, D
<1>4. ASSUME NEW r \in D, NEW c \in D, rank[c] < rank[r]
      PROVE  new[c] < new[r] /\ new[c] < 2 * rank[r] + 1
  <2>1. new[c] = 2 * rank[c] + 2 /\ new[r] = 2 * rank[r] + 2
    BY <1>3
  <2>. HIDE DEF new
  <2>. QED  BY <1>2, <1>4, <2>1
<1>5. \A r \in D \cup fresh : new[r] \in Nat
  <2>1. ASSUME NEW r \in D
        PROVE  new[r] \in Nat
    <3>1. rank[r] \in Nat /\ new[r] = 2 * rank[r] + 2
      BY <1>2, <1>3
    <3>. QED  BY <3>1
  <2>2. ASSUME NEW r \in fresh
        PROVE  new[r] \in Nat
    <3>1. rank[p] \in Nat /\ new[r] = 2 * rank[p] + 1
      BY <1>1, <1>2, <1>3
    <3>. QED  BY <3>1
  <2>. QED  BY <2>1, <2>2
<1>6. ASSUME NEW r \in D \cup fresh, NEW i \in DOMAIN ms[r].children
      PROVE  new[ms[r].children[i]] < new[r]
  <2>. DEFINE c == ms[r].children[i]
  <2>1. CASE r \in fresh
    <3>1. c \in D /\ rank[c] < rank[p]
      BY <2>1 DEF ChildrenIn, Under, D
    <3>2. new[c] < 2 * rank[p] + 1
      <4>. HIDE DEF c
      <4>. QED  BY <1>1, <1>4, <3>1
    <3>. QED  BY <1>3, <2>1, <3>2
  <2>2. CASE r = p
    <3>1. c \in fresh \/ (c \in D /\ rank[c] < rank[p])
      BY <2>2 DEF ChildrenIn, Under, D
    <3>2. new[p] = 2 * rank[p] + 2 /\ rank[p] \in Nat
      BY <1>1, <1>2, <1>3
    <3>3. CASE c \in fresh
      <4>1. new[c] = 2 * rank[p] + 1
        BY <1>3, <3>3
      <4>2. 2 * rank[p] + 1 < 2 * rank[p] + 2
        BY <3>2
      <4>. QED  BY <2>2, <3>2, <4>1, <4>2
    <3>4. CASE c \in D /\ rank[c] < rank[p]
      <4>. HIDE DEF c
      <4>1. new[c] < new[p]
        BY <1>1, <1>4, <3>4
      <4>. QED  BY <2>2, <4>1 DEF c
    <3>. QED  BY <3>1, <3>3, <3>4
  <2>3. CASE r \in D /\ r # p
    <3>1. ms[r] = ns[r]
      BY <1>1, <2>3
    <3>2. rank[c] < rank[r]
      BY <2>3, <3>1 DEF Ranked, D
    <3>3. c \in D
      <4>. DEFINE cs == ns[r].children
      <4>1. cs \in Seq(D) /\ i \in DOMAIN cs
        BY <2>3, <3>1 DEF IsTree, D
      <4>. HIDE DEF cs
      <4>2. cs[i] \in D
        BY <4>1
      <4>. QED  BY <3>1, <4>2 DEF cs
    <3>. HIDE DEF c
    <3>4. new[c] < new[r]
      BY <1>4, <2>3, <3>2, <3>3
    <3>. QED  BY <3>4 DEF c
  <2>. QED  BY <2>1, <2>2, <2>3
<1>7. Ranked(ms, new)
  BY <1>1, <1>5, <1>6 DEF Ranked
<1>. QED  BY <1>7 DEF Acyclic

\* A slot that was there before, with the same child.
OldSlot(ns, node, i) ==
  \E r \in DOMAIN ns : \E j \in DOMAIN ns[r].children :
    /\ node.children[i] = ns[r].children[j]
    /\ node.pivotTable[i] = ns[r].pivotTable[j]
    /\ node.pivotTable[i + 1] = ns[r].pivotTable[j + 1]

\* A change stays searchable if the node fits where it did, and its slots fit.
LEMMA ChangeSearchable ==
  ASSUME NEW ns, IsTree(ns), Searchable(ns), NEW ms, NEW p, NEW fresh,
         Changed(ns, ms, p, fresh), ContainsAllKeys(ms[Root].pivotTable),
         \A from, to : p # Root /\ Fits(ns[p], from, to) => Fits(ms[p], from, to),
         \A x \in fresh \cup {p} : \A i \in DOMAIN ms[x].children :
           OldSlot(ns, ms[x], i) \/ SlotFits(ms, ms[x], i)
  PROVE  Searchable(ms)
<1>. DEFINE D == DOMAIN ns
<1>1. /\ p \in D /\ fresh \cap D = {} /\ DOMAIN ms = D \cup fresh
      /\ \A r \in D : r # p => ms[r] = ns[r]
  BY DEF Changed
<1>2. ASSUME NEW node, NEW i, OldSlot(ns, node, i)
      PROVE  SlotFits(ms, node, i)
  <2>a. PICK r \in D : \E j \in DOMAIN ns[r].children :
          /\ node.children[i] = ns[r].children[j]
          /\ node.pivotTable[i] = ns[r].pivotTable[j]
          /\ node.pivotTable[i + 1] = ns[r].pivotTable[j + 1]
    BY <1>2 DEF OldSlot
  <2>1. PICK j \in DOMAIN ns[r].children :
          /\ node.children[i] = ns[r].children[j]
          /\ node.pivotTable[i] = ns[r].pivotTable[j]
          /\ node.pivotTable[i + 1] = ns[r].pivotTable[j + 1]
    BY <2>a
  <2>. DEFINE c == node.children[i]
  <2>2. c # Root /\ Fits(ns[c], node.pivotTable[i], node.pivotTable[i + 1])
    BY <2>1 DEF Searchable, SlotFits
  <2>3. c \in D
    <3>. DEFINE cs == ns[r].children
    <3>1. cs \in Seq(D) /\ j \in DOMAIN cs
      BY <2>1 DEF IsTree
    <3>. HIDE DEF cs, D
    <3>2. cs[j] \in D
      BY <3>1
    <3>. QED  BY <2>1, <3>2 DEF cs
  <2>4. Fits(ms[c], node.pivotTable[i], node.pivotTable[i + 1])
    <3>1. CASE c = p
      BY <2>2, <3>1
    <3>2. CASE c # p
      BY <1>1, <2>2, <2>3, <3>2
    <3>. QED  BY <3>1, <3>2
  <2>. QED  BY <2>2, <2>4 DEF SlotFits
<1>3. ASSUME NEW r \in DOMAIN ms, NEW i \in DOMAIN ms[r].children
      PROVE  SlotFits(ms, ms[r], i)
  <2>1. CASE r \in fresh \cup {p}
    BY <1>2, <2>1
  <2>2. CASE r \notin fresh \cup {p}
    <3>1. r \in D /\ ms[r] = ns[r]
      BY <1>1, <2>2
    <3>2. OldSlot(ns, ms[r], i)
      BY <3>1 DEF OldSlot
    <3>. QED  BY <1>2, <3>2
  <2>. QED  BY <2>1, <2>2
<1>. QED  BY <1>3 DEF Searchable

-----------------------------------------------------------------------------
\* The values found from nodes with a lower number than p are the same.
Agreeing(ns, ms, rank, p, key) ==
  \A c \in DOMAIN ns : rank[c] < rank[p] /\ BoundedKey(ns[c].pivotTable, key) =>
                         ValueOn(ms)[c][key] = ValueOn(ns)[c][key]

\* Then so are those found from a node that looks the same for the key.
NotAbove(rank, ref, p) == ref = p \/ rank[ref] < rank[p]

\* A node that looks the same for a key gives the same value when those below it do.
LEMMA StepAgrees ==
  ASSUME NEW ns, IsTree(ns), Searchable(ns), NEW rank, Ranked(ns, rank),
         NEW ms, NEW p \in DOMAIN ns, NEW key \in Key, Agreeing(ns, ms, rank, p, key),
         NEW ref \in DOMAIN ns, NotAbove(rank, ref, p),
         NEW node, Same(node, ns[ref], key)
  PROVE  StepValue(node, ValueOn(ms), key) = StepValue(ns[ref], ValueOn(ns), key)
<1>1. key \in Nat /\ BoundedKey(ns[ref].pivotTable, key)
  BY DEF Key, Same
<1>2. ASSUME ~IsLeaf(ns[ref])
      PROVE  /\ ChildAt(node, key) = ChildAt(ns[ref], key)
             /\ ValueOn(ms)[ChildAt(ns[ref], key)][key] = ValueOn(ns)[ChildAt(ns[ref], key)][key]
  <2>. DEFINE c == ChildAt(ns[ref], key)
  <2>1. c \in DOMAIN ns /\ rank[c] < rank[ref] /\ rank[c] \in Nat /\ rank[ref] \in Nat
    BY <1>1, <1>2, ChildRanked
  <2>2. BoundedKey(ns[c].pivotTable, key)
    BY <1>1, <1>2, ChildBounded
  <2>. HIDE DEF c
  <2>3. rank[c] < rank[p]
    <3>1. rank[p] \in Nat
      BY DEF Ranked
    <3>. QED  BY <2>1, <3>1 DEF NotAbove
  <2>4. ValueOn(ms)[c][key] = ValueOn(ns)[c][key]
    BY <2>1, <2>2, <2>3 DEF Agreeing
  <2>5. ChildAt(node, key) = ChildAt(ns[ref], key)
    BY <1>2 DEF Same
  <2>. QED  BY <2>4, <2>5 DEF c
<1>. HIDE DEF ValueOn
<1>3. Agree(BucketAt(node, key), BucketAt(ns[ref], key), key) /\ (IsLeaf(node) <=> IsLeaf(ns[ref]))
  BY DEF Same
<1>. QED  BY <1>2, <1>3 DEF StepValue, Agree

\* What is left to show of a change is the value found from p.
LEMMA ChangeValues ==
  ASSUME NEW ns, IsTree(ns), Searchable(ns), NEW rank, Ranked(ns, rank),
         NEW ms, IsTree(ms), Acyclic(ms), NEW p, NEW fresh, Changed(ns, ms, p, fresh),
         NEW key \in Key,
         BoundedKey(ns[p].pivotTable, key) /\ Agreeing(ns, ms, rank, p, key) =>
           ValueOn(ms)[p][key] = ValueOn(ns)[p][key]
  PROVE  ValueOn(ms)[Root][key] = ValueOn(ns)[Root][key]
<1>. DEFINE v == ValueOn(ns)  w == ValueOn(ms)
            B == {r \in DOMAIN ns : BoundedKey(ns[r].pivotTable, key)}
            T == {r \in B : w[r][key] = v[r][key]}
<1>1. /\ p \in DOMAIN ns /\ DOMAIN ms = DOMAIN ns \cup fresh
      /\ \A r \in DOMAIN ns : r # p => ms[r] = ns[r]
  BY DEF Changed
<1>2. Acyclic(ns)
  BY DEF Acyclic
<1>3. ASSUME NEW r \in B, \A c \in B : rank[c] < rank[r] => c \in T
      PROVE  r \in T
  <2>1. CASE r = p
    <3>1. Agreeing(ns, ms, rank, p, key)
      BY <1>3, <2>1 DEF Agreeing
    <3>. QED  BY <2>1, <3>1
  <2>2. CASE r # p
    <3>1. ms[r] = ns[r] /\ r \in DOMAIN ms /\ r \in DOMAIN ns /\ BoundedKey(ns[r].pivotTable, key)
      BY <1>1, <2>2
    <3>2. Agreeing(ns, ms, rank, r, key)
      BY <1>3 DEF Agreeing
    <3>3. Same(ns[r], ns[r], key)
      BY <3>1 DEF Same, Agree
    <3>4. StepValue(ns[r], w, key) = StepValue(ns[r], v, key)
      BY <3>1, <3>2, <3>3, StepAgrees DEF NotAbove
    <3>. HIDE DEF w, v
    <3>5. v[r][key] = StepValue(ns[r], v, key)
      BY <1>2, <3>1, ValueStep DEF v
    <3>6. w[r][key] = StepValue(ms[r], w, key)
      BY <3>1, ValueStep DEF w
    <3>7. w[r][key] = v[r][key]
      BY <3>1, <3>4, <3>5, <3>6
    <3>. QED  BY <3>7
  <2>. QED  BY <2>1, <2>2
<1>4. \A r \in B : rank[r] \in Nat
  BY DEF Ranked
<1>5. Root \in B
  <2>1. Root \in DOMAIN ns
    BY DEF IsTree
  <2>2. \A k \in Key : BoundedKey(ns[Root].pivotTable, k)
    BY DEF Searchable, ContainsAllKeys, BoundedKey, Key
  <2>. QED  BY <2>1, <2>2
<1>6. \A r \in B : r \in T
  <2>. HIDE DEF B, T
  <2>. QED  BY <1>3, <1>4, RankInduction
<1>7. Root \in T
  BY <1>5, <1>6
<1>. HIDE DEF v, w
<1>. QED  BY <1>7 DEF v, w

-----------------------------------------------------------------------------
\* What a step of the tree keeps.
KeepsValue(ns, ms, key) == ValueOn(ms)[Root][key] = ValueOn(ns)[Root][key]

\* Replacing a node changes one,
LEMMA PutOne ==
  ASSUME NEW ns, NEW ref \in DOMAIN ns, NEW node
  PROVE  Changed(ns, Put(ns, ref, node), ref, {}) /\ Put(ns, ref, node)[ref] = node
  BY DEF Put, Changed

\* also with a new node below it,
LEMMA PutTwo ==
  ASSUME NEW ns, NEW ref \in DOMAIN ns, NEW node, NEW newref, newref \notin DOMAIN ns, NEW new
  PROVE  LET ms == Put(Put(ns, newref, new), ref, node)
         IN  Changed(ns, ms, ref, {newref}) /\ ms[ref] = node /\ ms[newref] = new
  BY DEF Put, Changed

\* or with two.
LEMMA PutThree ==
  ASSUME NEW ns, NEW ref \in DOMAIN ns, NEW node, NEW left, left \notin DOMAIN ns, NEW lower,
         NEW right, right \notin DOMAIN ns, left # right, NEW upper
  PROVE  LET ms == Put(Put(Put(ns, left, lower), right, upper), ref, node)
         IN  /\ Changed(ns, ms, ref, {left, right})
             /\ ms[ref] = node /\ ms[left] = lower /\ ms[right] = upper
  BY DEF Put, Changed

\* The children of a node that is not above another are under that one.
LEMMA OwnChildren ==
  ASSUME NEW ns, IsTree(ns), NEW rank, Ranked(ns, rank), NEW p \in DOMAIN ns,
         NEW ref \in DOMAIN ns, NotAbove(rank, ref, p), NEW i \in DOMAIN ns[ref].children,
         NEW extra
  PROVE  ns[ref].children[i] \in Under(ns, rank, p, extra)
<1>. DEFINE D == DOMAIN ns  cs == ns[ref].children
<1>1. cs[i] \in D
  <2>1. cs \in Seq(D) /\ i \in DOMAIN cs
    BY DEF IsTree
  <2>. HIDE DEF cs, D
  <2>. QED  BY <2>1
<1>2. rank[cs[i]] < rank[ref] /\ rank[ref] \in Nat /\ rank[p] \in Nat /\ rank[cs[i]] \in Nat
  BY <1>1 DEF Ranked
<1>3. rank[cs[i]] < rank[p]
  <2>. DEFINE a == rank[cs[i]]
  <2>. HIDE DEF a
  <2>1. a < rank[ref] /\ a \in Nat /\ rank[ref] \in Nat /\ rank[p] \in Nat
    BY <1>2 DEF a
  <2>2. a < rank[p]
    BY <2>1 DEF NotAbove
  <2>. QED  BY <2>2 DEF a
<1>. QED  BY <1>1, <1>3 DEF Under

\* A node looks like itself.
LEMMA SameItself ==
  ASSUME NEW node, NEW key, BoundedKey(node.pivotTable, key)
  PROVE  Same(node, node, key)
  BY DEF Same, Agree

\* A node that is replaced, with what its value comes from.
LEMMA ValueOfChanged ==
  ASSUME NEW ns, IsTree(ns), Good(ns), NEW rank, Ranked(ns, rank),
         NEW ms, IsTree(ms), Acyclic(ms), NEW p, NEW fresh, Changed(ns, ms, p, fresh),
         NEW key \in Key,
         BoundedKey(ns[p].pivotTable, key) /\ Agreeing(ns, ms, rank, p, key) =>
           /\ BoundedKey(ms[p].pivotTable, key)
           /\ StepValue(ms[p], ValueOn(ms), key) = StepValue(ns[p], ValueOn(ns), key)
  PROVE  KeepsValue(ns, ms, key)
<1>1. p \in DOMAIN ns /\ p \in DOMAIN ms /\ Searchable(ns) /\ Acyclic(ns)
  BY DEF Changed, Good
<1>2. ASSUME BoundedKey(ns[p].pivotTable, key), Agreeing(ns, ms, rank, p, key)
      PROVE  ValueOn(ms)[p][key] = ValueOn(ns)[p][key]
  <2>1. ValueOn(ns)[p][key] = StepValue(ns[p], ValueOn(ns), key)
    BY <1>1, <1>2, ValueStep
  <2>2. ValueOn(ms)[p][key] = StepValue(ms[p], ValueOn(ms), key)
    BY <1>1, <1>2, ValueStep
  <2>. HIDE DEF ValueOn
  <2>. QED  BY <1>2, <2>1, <2>2
<1>3. ValueOn(ms)[Root][key] = ValueOn(ns)[Root][key]
  <2>. HIDE DEF ValueOn
  <2>. QED  BY <1>1, <1>2, ChangeValues
<1>. QED  BY <1>3 DEF KeepsValue

\* The case of a node that looks the same for the key.
LEMMA SameKeepsValue ==
  ASSUME NEW ns, IsTree(ns), Good(ns), NEW rank, Ranked(ns, rank),
         NEW ms, IsTree(ms), Acyclic(ms), NEW p, NEW fresh, Changed(ns, ms, p, fresh),
         NEW key \in Key, BoundedKey(ns[p].pivotTable, key) => Same(ms[p], ns[p], key)
  PROVE  KeepsValue(ns, ms, key)
<1>1. p \in DOMAIN ns /\ Searchable(ns)
  BY DEF Changed, Good
<1>2. ASSUME BoundedKey(ns[p].pivotTable, key), Agreeing(ns, ms, rank, p, key)
      PROVE  /\ BoundedKey(ms[p].pivotTable, key)
             /\ StepValue(ms[p], ValueOn(ms), key) = StepValue(ns[p], ValueOn(ns), key)
  <2>. DEFINE node == ms[p]
  <2>1. Same(node, ns[p], key) /\ BoundedKey(node.pivotTable, key)
    BY <1>2 DEF Same
  <2>. HIDE DEF node
  <2>2. NotAbove(rank, p, p)
    BY DEF NotAbove
  <2>3. StepValue(node, ValueOn(ms), key) = StepValue(ns[p], ValueOn(ns), key)
    <3>. HIDE DEF ValueOn, StepValue
    <3>. QED  BY <1>1, <1>2, <2>1, <2>2, StepAgrees
  <2>. QED  BY <2>1, <2>3 DEF node
<1>. QED  BY <1>2, ValueOfChanged

\* A node that looks for the key the way an old one did gives its value.
LEMMA SameGives ==
  ASSUME NEW ns, IsTree(ns), Good(ns), NEW rank, Ranked(ns, rank),
         NEW ms, IsTree(ms), Acyclic(ms), NEW p \in DOMAIN ns,
         NEW key \in Key, Agreeing(ns, ms, rank, p, key),
         NEW ref \in DOMAIN ns, NotAbove(rank, ref, p),
         NEW new \in DOMAIN ms, Same(ms[new], ns[ref], key)
  PROVE  ValueOn(ms)[new][key] = StepValue(ns[ref], ValueOn(ns), key)
<1>. DEFINE node == ms[new]
<1>1. Searchable(ns) /\ Same(node, ns[ref], key) /\ BoundedKey(node.pivotTable, key)
  BY DEF Good, Same
<1>2. ValueOn(ms)[new][key] = StepValue(node, ValueOn(ms), key)
  BY <1>1, ValueStep
<1>. HIDE DEF node, ValueOn, StepValue
<1>3. StepValue(node, ValueOn(ms), key) = StepValue(ns[ref], ValueOn(ns), key)
  BY <1>1, StepAgrees
<1>. QED  BY <1>2, <1>3

\* An insertion gives its key the value, and leaves all others.
LEMMA InsertGood ==
  ASSUME IsTree(nodes), Good(nodes), IsTree(nodes'),
         NEW key \in Key, NEW value \in Value, Insert(key, value)
  PROVE  /\ Good(nodes')
         /\ \A k \in Key : k # key => KeepsValue(nodes, nodes', k)
         /\ ValueOn(nodes')[Root][key] = value
<1>. DEFINE root == Root
            node == nodes[root]
            q == NodeInsertKeyValue(node, key, value)
<1>1. /\ root \in DOMAIN nodes /\ WFNode(node) /\ nodes = [r \in DOMAIN nodes |-> nodes[r]]
      /\ BoundedKey(node.pivotTable, key) /\ nodes' = [nodes EXCEPT ![root] = q]
  BY DEF IsTree, Insert
<1>. HIDE DEF root
<1>2. /\ WFNode(q) /\ q.pivotTable = node.pivotTable /\ q.children = node.children
      /\ key \in DOMAIN BucketAt(q, key) /\ BucketAt(q, key)[key] = value
      /\ \A k \in Nat : BoundedKey(node.pivotTable, k) /\ k # key => Same(q, node, k)
  BY <1>1, InsertNode
<1>. HIDE DEF q
<1>3. nodes' = Put(nodes, root, q)
  BY <1>1, ExceptIsPut
<1>4. Changed(nodes, nodes', root, {}) /\ nodes'[root] = q
  <2>1. root \in DOMAIN nodes
    BY <1>1
  <2>. HIDE DEF node
  <2>2. Changed(nodes, Put(nodes, root, q), root, {}) /\ Put(nodes, root, q)[root] = q
    BY <2>1, PutOne
  <2>. QED  BY <1>3, <2>2
<1>5. PICK rank : Ranked(nodes, rank)
  BY DEF Good, Acyclic
<1>6. Acyclic(nodes')
  <2>1. ChildrenIn(q, Under(nodes, rank, root, {}))
    BY <1>1, <1>2, <1>5, OwnChildren DEF ChildrenIn, NotAbove
  <2>. QED  BY <1>4, <1>5, <2>1, ChangeAcyclic
<1>7. Searchable(nodes')
  <2>1. ContainsAllKeys(nodes'[Root].pivotTable) /\ Searchable(nodes)
    BY <1>2, <1>4 DEF Good, Searchable, root
  <2>2. \A from, to : root # Root /\ Fits(nodes[root], from, to) => Fits(nodes'[root], from, to)
    BY DEF root
  <2>3. ASSUME NEW i \in DOMAIN q.children
        PROVE  OldSlot(nodes, q, i)
    BY <1>1, <1>2 DEF OldSlot
  <2>4. \A x \in {} \cup {root} : \A i \in DOMAIN nodes'[x].children :
          OldSlot(nodes, nodes'[x], i) \/ SlotFits(nodes', nodes'[x], i)
    BY <1>4, <2>3
  <2>. QED  BY <1>4, <2>1, <2>2, <2>4, ChangeSearchable
<1>8. ASSUME NEW k \in Key, k # key
      PROVE  KeepsValue(nodes, nodes', k)
  <2>1. k \in Nat
    BY DEF Key
  <2>2. BoundedKey(nodes[root].pivotTable, k) => Same(nodes'[root], nodes[root], k)
    BY <1>2, <1>4, <1>8, <2>1
  <2>. QED  BY <1>4, <1>5, <1>6, <2>2, SameKeepsValue
<1>9. ValueOn(nodes')[Root][key] = value
  <2>1. Root \in DOMAIN nodes' /\ BoundedKey(nodes'[Root].pivotTable, key)
    BY <1>1, <1>2, <1>4 DEF IsTree, root
  <2>2. ValueOn(nodes')[Root][key] = StepValue(nodes'[Root], ValueOn(nodes'), key)
    BY <1>6, <2>1, ValueStep
  <2>. HIDE DEF ValueOn
  <2>3. StepValue(nodes'[Root], ValueOn(nodes'), key) = value
    BY <1>2, <1>4 DEF StepValue, root
  <2>. QED  BY <2>2, <2>3
<1>. QED  BY <1>6, <1>7, <1>8, <1>9 DEF Good

\* Under a new root everything is found as before.
LEMMA GrowGood ==
  ASSUME Sound(nodes, table), Good(nodes), IsTree(nodes'), Grow
  PROVE  Good(nodes') /\ \A key \in Key : KeepsValue(nodes, nodes', key)
<1>. DEFINE root == Root  old == nodes[root]
<1>1. PICK newref \in FreeRef(table.refUpperBound) :
        nodes' = Put(Put(nodes, newref, old), root, [EmptyNode EXCEPT !.children = <<newref>>])
  BY DEF Grow
<1>. DEFINE cs == <<newref>>  q == [EmptyNode EXCEPT !.children = cs]
<1>2. IsTree(nodes) /\ newref \notin DOMAIN nodes /\ newref # Root
  BY FreeIsNew DEF Sound, Version
<1>3. Len(cs) = 1 /\ cs[1] = newref
  OBVIOUS
<1>. HIDE DEF cs
<1>4. /\ q.children = cs /\ q.pivotTable = InitPivotTable /\ ContainsAllKeys(q.pivotTable)
      /\ \A k \in Key : /\ BoundedKey(q.pivotTable, k)
                        /\ BucketAt(q, k) = EmptyBucket /\ ChildAt(q, k) = cs[1]
  BY <1>3, OneSlot
<1>. HIDE DEF q
<1>5. root \in DOMAIN nodes
  BY <1>2 DEF IsTree
<1>6. nodes' = Put(Put(nodes, newref, old), root, q)
  BY <1>1 DEF q, cs
<1>. HIDE DEF root
<1>7. Changed(nodes, nodes', root, {newref}) /\ nodes'[root] = q /\ nodes'[newref] = old
  <2>. HIDE DEF old
  <2>. QED  BY <1>2, <1>5, <1>6, PutTwo
<1>8. PICK rank : Ranked(nodes, rank)
  BY DEF Good, Acyclic
<1>9. DOMAIN cs = {1}
  <2>1. DOMAIN <<newref>> = {1}
    OBVIOUS
  <2>. QED  BY <2>1 DEF cs
<1>10. Acyclic(nodes')
  <2>1. ChildrenIn(q, Under(nodes, rank, root, {newref}))
    BY <1>3, <1>4, <1>9 DEF ChildrenIn, Under
  <2>2. ChildrenIn(old, Under(nodes, rank, root, {}))
    BY <1>2, <1>5, <1>8, OwnChildren DEF ChildrenIn, NotAbove
  <2>3. \A x \in {newref} : ChildrenIn(nodes'[x], Under(nodes, rank, root, {}))
    BY <1>7, <2>2
  <2>. QED  BY <1>2, <1>7, <1>8, <2>1, <2>3, ChangeAcyclic
<1>11. ContainsAllKeys(old.pivotTable) /\ Searchable(nodes)
  BY DEF Good, Searchable, root
<1>12. Searchable(nodes')
  <2>1. ContainsAllKeys(nodes'[Root].pivotTable)
    BY <1>4, <1>7 DEF root
  <2>2. \A from, to : root # Root /\ Fits(nodes[root], from, to) => Fits(nodes'[root], from, to)
    BY DEF root
  <2>3. \A i \in DOMAIN old.children : OldSlot(nodes, old, i)
    BY <1>5 DEF OldSlot
  <2>4. SlotFits(nodes', q, 1)
    <3>1. q.pivotTable[1] = 0 /\ q.pivotTable[1 + 1] = NumKeys
      BY <1>4 DEF InitPivotTable
    <3>2. Fits(old, 0, NumKeys)
      BY <1>11 DEF Fits, ContainsAllKeys
    <3>. QED  BY <1>2, <1>3, <1>4, <1>7, <3>1, <3>2 DEF SlotFits
  <2>5. \A x \in {newref} \cup {root} : \A i \in DOMAIN nodes'[x].children :
          OldSlot(nodes, nodes'[x], i) \/ SlotFits(nodes', nodes'[x], i)
    BY <1>4, <1>7, <1>9, <2>3, <2>4
  <2>. QED  BY <1>2, <1>7, <1>11, <2>1, <2>2, <2>5, ChangeSearchable
<1>13. ASSUME NEW key \in Key
       PROVE  KeepsValue(nodes, nodes', key)
  <2>1. ASSUME BoundedKey(nodes[root].pivotTable, key), Agreeing(nodes, nodes', rank, root, key)
        PROVE  /\ BoundedKey(nodes'[root].pivotTable, key)
               /\ StepValue(nodes'[root], ValueOn(nodes'), key) = StepValue(nodes[root], ValueOn(nodes), key)
    <3>1. BoundedKey(q.pivotTable, key) /\ BucketAt(q, key) = EmptyBucket /\ ChildAt(q, key) = newref
      BY <1>3, <1>4
    <3>2. key \notin DOMAIN EmptyBucket /\ ~IsLeaf(q)
      <4>1. q.children # <<>>
        BY <1>4 DEF cs
      <4>. QED  BY <4>1, EmptyIsBucket DEF IsLeaf
    <3>3. StepValue(q, ValueOn(nodes'), key) = ValueOn(nodes')[newref][key]
      <4>. HIDE DEF ValueOn
      <4>. QED  BY <3>1, <3>2 DEF StepValue
    <3>4. newref \in DOMAIN nodes' /\ Same(nodes'[newref], nodes[root], key)
      BY <1>7, <2>1, SameItself DEF Changed
    <3>5. ValueOn(nodes')[newref][key] = StepValue(nodes[root], ValueOn(nodes), key)
      <4>1. NotAbove(rank, root, root)
        BY DEF NotAbove
      <4>. QED  BY <1>2, <1>5, <1>8, <1>10, <2>1, <3>4, <4>1, SameGives
    <3>. HIDE DEF ValueOn
    <3>. QED  BY <1>7, <3>1, <3>3, <3>5
  <2>. QED  BY <1>2, <1>7, <1>8, <1>10, <2>1, ValueOfChanged
<1>. QED  BY <1>10, <1>12, <1>13 DEF Good

-----------------------------------------------------------------------------
\* Flushes

HIDE DEF Ref, Root, End

\* What a flush does to the nodes: the messages that move go to a new copy of
\* the child, which takes its slot.
Flushed(ns, ms, p, slot, moved, newref) ==
  LET node   == ns[p]
      child  == ns[node.children[slot]]
      bucket == node.buckets[slot]
  IN  /\ ~IsLeaf(node) /\ slot \in 1 .. Len(node.buckets)
      /\ moved \in SUBSET DOMAIN bucket /\ BucketBounded(bucket, child.pivotTable)
      /\ newref # Root /\ Changed(ns, ms, p, {newref})
      /\ ms[p] = FlushedParent(node, slot, moved, newref)
      /\ ms[newref] = MergedOver(child, Restrict(bucket, moved))

\* The new copy of the child has its pivots and children, and the messages on
\* top of its own; the parent has only another child, and lacks the messages.
FlushedShape(ns, ms, p, slot, moved, newref) ==
  LET node   == ns[p]
      cref   == node.children[slot]
      child  == ns[cref]
      bucket == node.buckets[slot]
      new    == ms[newref]
      q      == ms[p]
  IN  /\ slot \in DOMAIN node.children /\ cref \in DOMAIN ns
      /\ WFNode(node) /\ WFNode(child) /\ WFNode(new) /\ WFNode(q) /\ ~IsLeaf(q)
      /\ new.pivotTable = child.pivotTable /\ new.children = child.children
      /\ q.pivotTable = node.pivotTable
      /\ DOMAIN q.children = DOMAIN node.children
      /\ q.children[slot] = newref
      /\ \A i \in DOMAIN node.children : i # slot =>
           q.children[i] = node.children[i] /\ q.buckets[i] = node.buckets[i]
      /\ DOMAIN q.buckets[slot] = DOMAIN bucket \ moved
      /\ \A k \in DOMAIN q.buckets[slot] : q.buckets[slot][k] = bucket[k]
      /\ \A k \in Nat : BoundedKey(child.pivotTable, k) =>
           /\ k \in moved => k \in DOMAIN BucketAt(new, k) /\ BucketAt(new, k)[k] = bucket[k]
           /\ k \notin moved => Agree(BucketAt(new, k), BucketAt(child, k), k)

\* What a flush makes of the two nodes, slot by slot.
LEMMA FlushShape ==
  ASSUME NEW ns, IsTree(ns), NEW ms, NEW p, NEW slot, NEW moved, NEW newref,
         Flushed(ns, ms, p, slot, moved, newref)
  PROVE  FlushedShape(ns, ms, p, slot, moved, newref)
<1>. DEFINE D      == DOMAIN ns
            node   == ns[p]
            cref   == node.children[slot]
            child  == ns[cref]
            bucket == node.buckets[slot]
            msgs   == Restrict(bucket, moved)
            new    == ms[newref]
            q      == ms[p]
<1>1. /\ p \in D /\ ~IsLeaf(node) /\ slot \in 1 .. Len(node.buckets)
      /\ moved \in SUBSET DOMAIN bucket /\ BucketBounded(bucket, child.pivotTable)
      /\ q = FlushedParent(node, slot, moved, newref) /\ new = MergedOver(child, msgs)
  BY DEF Flushed, Changed
<1>2. /\ slot \in 1 .. Len(node.children) /\ cref \in D
      /\ WFNode(node) /\ node.children \in Seq(D) /\ WFNode(child)
  BY <1>1, ChildInTree
<1>3. bucket \in Bucket
  BY <1>1, <1>2, WithinSlot
<1>. HIDE DEF node, child, bucket, new, q, D
<1>4. msgs \in Bucket /\ DOMAIN msgs = moved /\ \A k \in moved : msgs[k] = bucket[k]
  BY <1>1, <1>3, RestrictFacts
<1>5. BucketBounded(msgs, child.pivotTable)
  BY <1>1, <1>4 DEF BucketBounded
<1>. HIDE DEF msgs
<1>6. /\ WFNode(new) /\ new.pivotTable = child.pivotTable /\ new.children = child.children
      /\ \A k \in Nat : BoundedKey(child.pivotTable, k) =>
           BucketAt(new, k) \in Bucket
           /\ (k \in DOMAIN BucketAt(new, k)
                 <=> k \in DOMAIN msgs \/ k \in DOMAIN BucketAt(child, k))
           /\ (k \in DOMAIN msgs => BucketAt(new, k)[k] = msgs[k])
           /\ (k \in DOMAIN BucketAt(child, k) /\ k \notin DOMAIN msgs
                 => BucketAt(new, k)[k] = BucketAt(child, k)[k])
  <2>. DEFINE m == MergedOver(child, msgs)
  <2>1. /\ WFNode(m) /\ m.pivotTable = child.pivotTable /\ m.children = child.children
        /\ \A k \in Nat : BoundedKey(child.pivotTable, k) =>
             BucketAt(m, k) \in Bucket
             /\ (k \in DOMAIN BucketAt(m, k)
                   <=> k \in DOMAIN msgs \/ k \in DOMAIN BucketAt(child, k))
             /\ (k \in DOMAIN msgs => BucketAt(m, k)[k] = msgs[k])
             /\ (k \in DOMAIN BucketAt(child, k) /\ k \notin DOMAIN msgs
                   => BucketAt(m, k)[k] = BucketAt(child, k)[k])
    BY <1>2, <1>4, <1>5, MergedNode
  <2>2. new = m
    BY <1>1
  <2>. HIDE DEF m
  <2>. QED  BY <2>1, <2>2
<1>7. ASSUME NEW k \in Nat, BoundedKey(child.pivotTable, k)
      PROVE  /\ k \in moved => k \in DOMAIN BucketAt(new, k) /\ BucketAt(new, k)[k] = bucket[k]
             /\ k \notin moved => Agree(BucketAt(new, k), BucketAt(child, k), k)
  BY <1>4, <1>6, <1>7 DEF Agree
<1>8. /\ WFNode(q) /\ ~IsLeaf(q)
      /\ q.pivotTable = node.pivotTable /\ Len(q.buckets) = Len(node.buckets)
      /\ q.children[slot] = newref
      /\ \A i \in 1 .. Len(node.buckets) : i # slot =>
           q.children[i] = node.children[i] /\ q.buckets[i] = node.buckets[i]
      /\ DOMAIN q.buckets[slot] = DOMAIN bucket \ moved
      /\ \A k \in DOMAIN q.buckets[slot] : q.buckets[slot][k] = bucket[k]
      /\ q.children \in Seq(D \cup {newref})
  <2>. DEFINE S == D \cup {newref}  cs == node.children
              m == FlushedParent(node, slot, moved, newref)
  <2>1. D \subseteq S /\ newref \in S
    OBVIOUS
  <2>2. cs \in Seq(D)
    BY <1>2
  <2>. HIDE DEF S
  <2>3. cs \in Seq(S)
    <3>. HIDE DEF cs
    <3>. QED  BY <2>1, <2>2, SeqOfLarger
  <2>4. FlushedFrom(S, m, node, slot, moved, newref)
    BY <1>1, <1>2, <2>1, <2>3, FlushedNode
  <2>5. q = m
    BY <1>1
  <2>. HIDE DEF m
  <2>. QED  BY <2>4, <2>5 DEF S, bucket, OtherSlots, FlushedFrom
<1>9. DOMAIN node.children = 1 .. Len(node.buckets) /\ DOMAIN q.children = 1 .. Len(node.buckets)
  <2>1. Len(node.children) = Len(node.buckets) /\ Len(q.children) = Len(q.buckets)
    BY <1>1, <1>2, <1>8 DEF WFNode
  <2>. DEFINE a == node.children  b == q.children  S == D \cup {newref}
  <2>2. a \in Seq(D) /\ b \in Seq(S)
    BY <1>2, <1>8
  <2>. HIDE DEF a, b, S
  <2>3. DOMAIN a = 1 .. Len(a) /\ DOMAIN b = 1 .. Len(b)
    BY <2>2
  <2>. QED  BY <1>8, <2>1, <2>3 DEF a, b
<1>10. /\ slot \in DOMAIN node.children
       /\ DOMAIN q.children = DOMAIN node.children
       /\ \A i \in DOMAIN node.children : i # slot =>
            q.children[i] = node.children[i] /\ q.buckets[i] = node.buckets[i]
  BY <1>1, <1>8, <1>9
<1>. QED  BY <1>2, <1>6, <1>7, <1>8, <1>10
          DEF FlushedShape, node, child, bucket, new, q, D

\* A flush makes no cycle: the copy has the children of the child.
LEMMA FlushedAcyclic ==
  ASSUME NEW ns, IsTree(ns), Good(ns), NEW ms, NEW p, NEW slot, NEW moved, NEW newref,
         Flushed(ns, ms, p, slot, moved, newref), NEW rank, Ranked(ns, rank)
  PROVE  Acyclic(ms)
<1>. DEFINE node  == ns[p]
            cref  == node.children[slot]
            child == ns[cref]
            new   == ms[newref]
            q     == ms[p]
<1>1. Changed(ns, ms, p, {newref}) /\ p \in DOMAIN ns
  BY DEF Flushed, Changed
<1>2. /\ slot \in DOMAIN node.children /\ cref \in DOMAIN ns
      /\ new.children = child.children
      /\ DOMAIN q.children = DOMAIN node.children /\ q.children[slot] = newref
      /\ \A i \in DOMAIN node.children : i # slot => q.children[i] = node.children[i]
  BY FlushShape DEF FlushedShape
<1>3. NotAbove(rank, p, p) /\ NotAbove(rank, cref, p)
  BY <1>1, <1>2 DEF NotAbove, Ranked
<1>4. ChildrenIn(q, Under(ns, rank, p, {newref}))
  <2>1. ASSUME NEW i \in DOMAIN node.children, i # slot
        PROVE  node.children[i] \in Under(ns, rank, p, {newref})
    BY <1>1, <1>3, OwnChildren
  <2>2. newref \in Under(ns, rank, p, {newref})
    BY DEF Under
  <2>. HIDE DEF q, node
  <2>. QED  BY <1>2, <2>1, <2>2 DEF ChildrenIn
<1>5. ChildrenIn(new, Under(ns, rank, p, {}))
  <2>. HIDE DEF cref
  <2>1. ASSUME NEW i \in DOMAIN child.children
        PROVE  child.children[i] \in Under(ns, rank, p, {})
    BY <1>1, <1>2, <1>3, OwnChildren
  <2>. HIDE DEF new, child
  <2>. QED  BY <1>2, <2>1 DEF ChildrenIn
<1>. QED  BY <1>1, <1>4, <1>5, ChangeAcyclic

\* The copy of a child fits the slot that the child fit.
LEMMA FlushedSearchable ==
  ASSUME NEW ns, IsTree(ns), Good(ns), NEW ms, NEW p, NEW slot, NEW moved, NEW newref,
         Flushed(ns, ms, p, slot, moved, newref)
  PROVE  Searchable(ms)
<1>. DEFINE node  == ns[p]
            cref  == node.children[slot]
            child == ns[cref]
            new   == ms[newref]
            q     == ms[p]
<1>1. /\ Changed(ns, ms, p, {newref}) /\ p \in DOMAIN ns /\ ~IsLeaf(node) /\ newref # Root
      /\ Searchable(ns) /\ Root \in DOMAIN ns
  BY DEF Flushed, Changed, Good, IsTree
<1>2. /\ slot \in DOMAIN node.children /\ cref \in DOMAIN ns
      /\ new.pivotTable = child.pivotTable /\ new.children = child.children
      /\ q.pivotTable = node.pivotTable
      /\ DOMAIN q.children = DOMAIN node.children /\ q.children[slot] = newref
      /\ \A i \in DOMAIN node.children : i # slot => q.children[i] = node.children[i]
  BY FlushShape DEF FlushedShape
<1>3. ContainsAllKeys(ms[Root].pivotTable)
  <2>1. ms[Root].pivotTable = ns[Root].pivotTable
    BY <1>1, <1>2 DEF Changed
  <2>. QED  BY <1>1, <2>1 DEF Searchable
<1>4. \A from, to : Fits(node, from, to) => Fits(q, from, to)
  BY <1>1, <1>2 DEF Fits
<1>5. ASSUME NEW i \in DOMAIN new.children
      PROVE  OldSlot(ns, new, i)
  BY <1>2 DEF OldSlot
<1>6. ASSUME NEW i \in DOMAIN node.children, i # slot
      PROVE  OldSlot(ns, q, i)
  BY <1>1, <1>2, <1>6 DEF OldSlot
<1>7. SlotFits(ms, q, slot)
  <2>1. Fits(child, node.pivotTable[slot], node.pivotTable[slot + 1])
    BY <1>1, <1>2 DEF Searchable, SlotFits
  <2>2. Fits(new, node.pivotTable[slot], node.pivotTable[slot + 1])
    <3>. HIDE DEF new, child, node
    <3>. QED  BY <1>2, <2>1 DEF Fits, IsLeaf
  <2>. QED  BY <1>1, <1>2, <2>2 DEF SlotFits
<1>8. \A x \in {newref} \cup {p} : \A i \in DOMAIN ms[x].children :
        OldSlot(ns, ms[x], i) \/ SlotFits(ms, ms[x], i)
  <2>1. \A i \in DOMAIN q.children : OldSlot(ns, q, i) \/ SlotFits(ms, q, i)
    <3>. HIDE DEF node, q
    <3>. QED  BY <1>2, <1>6, <1>7
  <2>. QED  BY <1>5, <2>1
<1>. QED  BY <1>1, <1>3, <1>4, <1>8, ChangeSearchable

\* A key finds in the parent and the new child what it found before.
LEMMA FlushedStep ==
  ASSUME NEW ns, IsTree(ns), Good(ns), NEW ms, IsTree(ms), Acyclic(ms),
         NEW p, NEW slot, NEW moved, NEW newref,
         Flushed(ns, ms, p, slot, moved, newref), NEW rank, Ranked(ns, rank),
         NEW key \in Key, BoundedKey(ns[p].pivotTable, key), Agreeing(ns, ms, rank, p, key)
  PROVE  /\ BoundedKey(ms[p].pivotTable, key)
         /\ StepValue(ms[p], ValueOn(ms), key) = StepValue(ns[p], ValueOn(ns), key)
<1>. DEFINE node   == ns[p]
            cref   == node.children[slot]
            child  == ns[cref]
            bucket == node.buckets[slot]
            new    == ms[newref]
            q      == ms[p]
            r      == Route(node.pivotTable, key)
            v      == ValueOn(ns)
            w      == ValueOn(ms)
<1>1. /\ Changed(ns, ms, p, {newref}) /\ p \in DOMAIN ns /\ newref \in DOMAIN ms
      /\ ~IsLeaf(node) /\ moved \in SUBSET DOMAIN bucket /\ Searchable(ns) /\ Acyclic(ns)
  BY DEF Flushed, Changed, Good
<1>2. /\ slot \in DOMAIN node.children /\ cref \in DOMAIN ns /\ WFNode(node) /\ ~IsLeaf(q)
      /\ new.pivotTable = child.pivotTable /\ new.children = child.children
      /\ q.pivotTable = node.pivotTable /\ q.children[slot] = newref
      /\ \A i \in DOMAIN node.children : i # slot =>
           q.children[i] = node.children[i] /\ q.buckets[i] = node.buckets[i]
      /\ DOMAIN q.buckets[slot] = DOMAIN bucket \ moved
      /\ \A k \in DOMAIN q.buckets[slot] : q.buckets[slot][k] = bucket[k]
      /\ \A k \in Nat : BoundedKey(child.pivotTable, k) =>
           /\ k \in moved => k \in DOMAIN BucketAt(new, k) /\ BucketAt(new, k)[k] = bucket[k]
           /\ k \notin moved => Agree(BucketAt(new, k), BucketAt(child, k), k)
  BY FlushShape DEF FlushedShape
<1>3. key \in Nat /\ BoundedKey(q.pivotTable, key) /\ r = Route(q.pivotTable, key)
  BY <1>2 DEF Key
<1>4. r \in DOMAIN node.children
  <2>1. r \in 1 .. Len(node.children)
    BY <1>1, <1>3, RoutedChild
  <2>2. node.children \in Seq(DOMAIN ns)
    BY <1>1 DEF IsTree
  <2>. HIDE DEF r, node
  <2>. QED  BY <2>1, <2>2
<1>5. /\ BucketAt(q, key) = q.buckets[r] /\ ChildAt(q, key) = q.children[r]
      /\ BucketAt(node, key) = node.buckets[r] /\ ChildAt(node, key) = node.children[r]
  BY <1>3 DEF BucketAt, ChildAt
<1>6. NotAbove(rank, p, p) /\ NotAbove(rank, cref, p)
  BY <1>1, <1>2 DEF NotAbove, Ranked
<1>7. CASE r # slot
  <2>1. Same(q, node, key)
    <3>. HIDE DEF q, node, r
    <3>. QED  BY <1>1, <1>2, <1>3, <1>4, <1>5, <1>7 DEF Same, Agree
  <2>2. StepValue(q, ValueOn(ms), key) = StepValue(node, ValueOn(ns), key)
    <3>. HIDE DEF q
    <3>. QED  BY <1>1, <1>6, <2>1, StepAgrees
  <2>. QED  BY <1>3, <2>2
<1>8. CASE r = slot
  <2>1. BoundedKey(child.pivotTable, key)
    <3>1. BoundedKey(ns[ChildAt(node, key)].pivotTable, key)
      BY <1>1, <1>3, ChildBounded
    <3>2. ChildAt(node, key) = cref
      BY <1>5, <1>8
    <3>. QED  BY <3>1, <3>2
  <2>2. /\ StepValue(q, w, key) = IF key \in DOMAIN q.buckets[slot] THEN q.buckets[slot][key]
                                  ELSE w[newref][key]
        /\ StepValue(node, v, key) = IF key \in DOMAIN bucket THEN bucket[key]
                                     ELSE v[cref][key]
    <3>. HIDE DEF q, node, r, w, v
    <3>. QED  BY <1>1, <1>2, <1>5, <1>8 DEF StepValue
  <2>3. w[newref][key] = StepValue(new, w, key)
    <3>1. BoundedKey(new.pivotTable, key)
      BY <1>2, <2>1
    <3>. QED  BY <1>1, <3>1, ValueStep
  <2>4. CASE key \in moved
    <3>1. key \in DOMAIN BucketAt(new, key) /\ BucketAt(new, key)[key] = bucket[key]
      BY <1>2, <1>3, <2>1, <2>4
    <3>. HIDE DEF q, node, r, w, v, new
    <3>2. w[newref][key] = bucket[key] /\ key \in DOMAIN bucket /\ key \notin DOMAIN q.buckets[slot]
      BY <1>1, <1>2, <2>3, <2>4, <3>1 DEF StepValue
    <3>. QED  BY <1>3, <2>2, <3>2 DEF q, node, w, v
  <2>5. CASE key \notin moved /\ key \in DOMAIN bucket
    <3>1. key \in DOMAIN q.buckets[slot] /\ q.buckets[slot][key] = bucket[key]
      BY <1>2, <2>5
    <3>. HIDE DEF q, node, r, w, v, new
    <3>. QED  BY <1>3, <2>2, <2>5, <3>1 DEF q, node, w, v
  <2>6. CASE key \notin DOMAIN bucket
    <3>1. key \notin moved /\ key \notin DOMAIN q.buckets[slot]
      BY <1>1, <1>2, <2>6
    <3>2. Same(new, child, key)
      <4>1. /\ Agree(BucketAt(new, key), BucketAt(child, key), key)
            /\ BoundedKey(new.pivotTable, key) /\ BoundedKey(child.pivotTable, key)
        BY <1>2, <1>3, <2>1, <3>1
      <4>2. (IsLeaf(new) <=> IsLeaf(child)) /\ ChildAt(new, key) = ChildAt(child, key)
        BY <1>2 DEF IsLeaf, ChildAt
      <4>. QED  BY <4>1, <4>2 DEF Same
    <3>3. ValueOn(ms)[newref][key] = StepValue(child, ValueOn(ns), key)
      <4>. HIDE DEF cref
      <4>. QED  BY <1>1, <1>2, <1>6, <3>2, SameGives
    <3>4. v[cref][key] = StepValue(child, v, key)
      <4>. HIDE DEF cref
      <4>. QED  BY <1>1, <1>2, <2>1, ValueStep
    <3>. HIDE DEF q, node, r, new, child
    <3>. QED  BY <1>3, <2>2, <2>6, <3>1, <3>3, <3>4 DEF q, node
  <2>. QED  BY <2>4, <2>5, <2>6
<1>. QED  BY <1>7, <1>8

\* Messages that have moved down lie over what was below, so every value is kept.
LEMMA FlushedGood ==
  ASSUME NEW ns, IsTree(ns), Good(ns), NEW ms, IsTree(ms), NEW p, NEW slot, NEW moved, NEW newref,
         Flushed(ns, ms, p, slot, moved, newref)
  PROVE  Good(ms) /\ \A key \in Key : KeepsValue(ns, ms, key)
<1>1. PICK rank : Ranked(ns, rank)
  BY DEF Good, Acyclic
<1>2. Acyclic(ms)
  BY <1>1, FlushedAcyclic
<1>3. Searchable(ms)
  BY FlushedSearchable
<1>4. Changed(ns, ms, p, {newref})
  BY DEF Flushed
<1>5. ASSUME NEW key \in Key
      PROVE  KeepsValue(ns, ms, key)
  <2>1. ASSUME BoundedKey(ns[p].pivotTable, key), Agreeing(ns, ms, rank, p, key)
        PROVE  /\ BoundedKey(ms[p].pivotTable, key)
               /\ StepValue(ms[p], ValueOn(ms), key) = StepValue(ns[p], ValueOn(ns), key)
    BY <1>1, <1>2, <2>1, FlushedStep
  <2>. QED  BY <1>1, <1>2, <1>4, <2>1, ValueOfChanged
<1>. QED  BY <1>2, <1>3, <1>5 DEF Good

\* A flush loses and overtakes no message.
LEMMA FlushGood ==
  ASSUME Sound(nodes, table), Good(nodes), IsTree(nodes'),
         NEW parent \in DOMAIN nodes, ~IsLeaf(nodes[parent]),
         NEW slot \in 1 .. Len(nodes[parent].buckets), Flush(parent, slot)
  PROVE  Good(nodes') /\ \A key \in Key : KeepsValue(nodes, nodes', key)
<1>. DEFINE node   == nodes[parent]
            child  == nodes[node.children[slot]]
            bucket == node.buckets[slot]
<1>1. PICK last \in DOMAIN bucket :
        LET moved    == {k \in DOMAIN bucket : k <= last}
            newchild == MergedOver(child, Restrict(bucket, moved))
        IN  \E newref \in FreeRef(table.refUpperBound) :
               LET newparent ==
                     [node EXCEPT !.buckets[slot] = Restrict(@, DOMAIN @ \ moved),
                                  !.children[slot] = newref]
               IN  nodes' = Put(Put(nodes, newref, newchild), parent, newparent)
  BY DEF Flush
<1>. DEFINE moved    == {k \in DOMAIN bucket : k <= last}
            newchild == MergedOver(child, Restrict(bucket, moved))
<1>2. PICK newref \in FreeRef(table.refUpperBound) :
        nodes' = Put(Put(nodes, newref, newchild), parent,
                     FlushedParent(node, slot, moved, newref))
  BY <1>1 DEF FlushedParent
<1>. DEFINE newparent == FlushedParent(node, slot, moved, newref)
<1>3. IsTree(nodes) /\ newref \notin DOMAIN nodes /\ newref # Root
  BY FreeIsNew DEF Sound, Version
<1>4. /\ Changed(nodes, nodes', parent, {newref})
      /\ nodes'[parent] = newparent /\ nodes'[newref] = newchild
  <2>1. nodes' = Put(Put(nodes, newref, newchild), parent, newparent)
    BY <1>2
  <2>. HIDE DEF newchild, newparent
  <2>. QED  BY <1>3, <2>1, PutTwo
<1>5. BucketBounded(bucket, child.pivotTable)
  BY DEF Flush, FlushAllowed
<1>6. Flushed(nodes, nodes', parent, slot, moved, newref)
  <2>1. moved \in SUBSET DOMAIN bucket
    OBVIOUS
  <2>. HIDE DEF moved
  <2>. QED  BY <1>3, <1>4, <1>5, <2>1 DEF Flushed
<1>. HIDE DEF moved
<1>. QED  BY <1>3, <1>6, FlushedGood

-----------------------------------------------------------------------------
\* Splits

\* An inner node has a child for each bucket, a leaf none.
LEMMA ChildSlots ==
  ASSUME NEW S, NEW node, WFNode(node), node.children \in Seq(S)
  PROVE  /\ IsLeaf(node) => DOMAIN node.children = {}
         /\ ~IsLeaf(node) => DOMAIN node.children = 1 .. Len(node.buckets)
<1>. DEFINE cs == node.children
<1>1. ~IsLeaf(node) => Len(cs) = Len(node.buckets)
  BY DEF WFNode
<1>2. DOMAIN cs = 1 .. Len(cs)
  <2>. DEFINE ds == cs
  <2>1. ds \in Seq(S)
    OBVIOUS
  <2>. HIDE DEF ds
  <2>2. DOMAIN ds = 1 .. Len(ds)
    BY <2>1
  <2>. QED  BY <2>2 DEF ds
<1>3. cs = <<>> => DOMAIN cs = {}
  OBVIOUS
<1>. QED  BY <1>1, <1>2, <1>3 DEF IsLeaf

\* The children of a part of a node are children of the node.
LEMMA PartChildren ==
  ASSUME NEW S, NEW n, WFNode(n), n.children \in Seq(S),
         NEW m, WFNode(m), m.children \in Seq(S), Narrowed(n, m), NEW j \in DOMAIN n.children
  PROVE  \E i \in DOMAIN m.children : n.children[j] = m.children[i]
<1>1. IsLeaf(n) => DOMAIN n.children = {}
  BY ChildSlots
<1>2. ~IsLeaf(n) => DOMAIN n.children = 1 .. Len(n.buckets)
  BY ChildSlots
<1>3. ~IsLeaf(m) => DOMAIN m.children = 1 .. Len(m.buckets)
  BY ChildSlots
<1>4. ~IsLeaf(n) /\ ~IsLeaf(m)
  BY <1>1 DEF Narrowed
<1>5. j \in 1 .. Len(n.buckets)
  BY <1>2, <1>4
<1>6. PICK i \in 1 .. Len(m.buckets) : PartOfSlot(n, j, m, i)
  BY <1>5 DEF Narrowed
<1>. QED  BY <1>3, <1>4, <1>6 DEF PartOfSlot

\* The slots of a part of a node are slots of the node.
LEMMA PartSlots ==
  ASSUME NEW ns, IsTree(ns), NEW ref \in DOMAIN ns, ~IsLeaf(ns[ref]),
         NEW n, WFNode(n), n.children \in Seq(DOMAIN ns), Narrowed(n, ns[ref]),
         SomeSlots(n, ns[ref]), NEW j \in DOMAIN n.children
  PROVE  OldSlot(ns, n, j)
<1>. DEFINE m == ns[ref]
<1>1. WFNode(m) /\ m.children \in Seq(DOMAIN ns) /\ ~IsLeaf(m) /\ ~IsLeaf(n)
  BY DEF IsTree, Narrowed
<1>2. SomeSlots(n, m)
  OBVIOUS
<1>. HIDE DEF m
<1>3. DOMAIN n.children = 1 .. Len(n.buckets)
  BY <1>1, ChildSlots
<1>4. DOMAIN m.children = 1 .. Len(m.buckets)
  BY <1>1, ChildSlots
<1>5. PICK i \in 1 .. Len(m.buckets) : WholeSlot(n, j, m, i)
  BY <1>2, <1>3 DEF SomeSlots
<1>6. /\ i \in DOMAIN m.children /\ n.children[j] = m.children[i]
      /\ n.pivotTable[j] = m.pivotTable[i] /\ n.pivotTable[j + 1] = m.pivotTable[i + 1]
  BY <1>1, <1>4, <1>5 DEF WholeSlot
<1>. QED  BY <1>6 DEF OldSlot, m

\* What a split does to the nodes: two parts of the child take its slot, which
\* is split in two.
SplitInTwo(ns, ms, p, slot, pivot, left, right) ==
  LET node  == ns[p]
      child == ns[node.children[slot]]
      lower == ms[left]
      upper == ms[right]
      from  == node.pivotTable[slot]
      to    == node.pivotTable[slot + 1]
  IN  /\ ~IsLeaf(node) /\ slot \in 1 .. Len(node.buckets)
      /\ left # Root /\ right # Root /\ Changed(ns, ms, p, {left, right})
      /\ ms[p] = SplitParent(node, slot, pivot, left, right)
      /\ pivot \in Nat /\ PivotInsertable(node.pivotTable, slot + 1, pivot)
      /\ WFNode(lower) /\ lower.children \in Seq(DOMAIN ns) /\ Narrowed(lower, child)
      /\ WFNode(upper) /\ upper.children \in Seq(DOMAIN ns) /\ Narrowed(upper, child)
      /\ lower.pivotTable[1] = from /\ Last(lower.pivotTable) = pivot
      /\ upper.pivotTable[1] = pivot /\ Last(upper.pivotTable) = to
      /\ child.pivotTable[1] = from /\ Last(child.pivotTable) = to
           => SomeSlots(lower, child) /\ SomeSlots(upper, child)

\* The parent afterwards: an added slot, for a child that is new.
SplitShape(ns, ms, p, slot, pivot, left, right) ==
  LET node == ns[p]
      cref == node.children[slot]
      q    == ms[p]
  IN  /\ cref \in DOMAIN ns /\ slot \in DOMAIN node.children
      /\ WFNode(node) /\ node.children \in Seq(DOMAIN ns)
      /\ WFNode(ns[cref]) /\ ns[cref].children \in Seq(DOMAIN ns)
      /\ DOMAIN node.children = 1 .. Len(node.buckets)
      /\ ~IsLeaf(q) /\ DOMAIN q.children = 1 .. Len(q.buckets)
      /\ q.pivotTable[1] = node.pivotTable[1] /\ Last(q.pivotTable) = Last(node.pivotTable)
      /\ SplitSlots(q, node, slot, pivot, left, right)
      /\ \A key \in Nat : BoundedKey(node.pivotTable, key) =>
           /\ BoundedKey(q.pivotTable, key)
           /\ Agree(BucketAt(q, key), BucketAt(node, key), key)
           /\ ChildAt(q, key) =
                IF Route(node.pivotTable, key) # slot THEN ChildAt(node, key)
                ELSE IF key < pivot THEN left ELSE right

\* What a split makes of the three nodes, slot by slot.
LEMMA SplitShapeHolds ==
  ASSUME NEW ns, IsTree(ns), NEW ms, NEW p, NEW slot, NEW pivot, NEW left, NEW right,
         SplitInTwo(ns, ms, p, slot, pivot, left, right)
  PROVE  SplitShape(ns, ms, p, slot, pivot, left, right)
<1>. DEFINE D    == DOMAIN ns
            S    == D \cup {left, right}
            node == ns[p]
            cref == node.children[slot]
            q    == ms[p]
            s    == SplitParent(node, slot, pivot, left, right)
<1>1. /\ p \in D /\ ~IsLeaf(node) /\ slot \in 1 .. Len(node.buckets)
      /\ q = s /\ pivot \in Nat /\ PivotInsertable(node.pivotTable, slot + 1, pivot)
  BY DEF SplitInTwo, Changed
<1>2. /\ slot \in 1 .. Len(node.children) /\ cref \in D
      /\ WFNode(node) /\ node.children \in Seq(D) /\ WFNode(ns[cref]) /\ ns[cref].children \in Seq(D)
  BY <1>1, ChildInTree
<1>. HIDE DEF node, q
<1>3. DOMAIN node.children = 1 .. Len(node.buckets)
  BY <1>1, <1>2, ChildSlots
<1>4. D \subseteq S /\ left \in S /\ right \in S
  OBVIOUS
<1>5. node.children \in Seq(S)
  <2>. DEFINE cs == node.children
  <2>1. cs \in Seq(D)
    BY <1>2
  <2>. HIDE DEF cs, D, S
  <2>2. cs \in Seq(S)
    BY <1>4, <2>1, SeqOfLarger
  <2>. QED  BY <2>2 DEF cs
<1>. HIDE DEF S, D
<1>6. SplitFrom(S, s, node, slot, pivot, left, right)
  BY <1>1, <1>2, <1>4, <1>5, SplitParentNode
<1>7. ASSUME NEW key \in Nat, BoundedKey(node.pivotTable, key)
      PROVE  /\ BoundedKey(s.pivotTable, key)
             /\ Agree(BucketAt(s, key), BucketAt(node, key), key)
             /\ ChildAt(s, key) =
                  IF Route(node.pivotTable, key) # slot THEN ChildAt(node, key)
                  ELSE IF key < pivot THEN left ELSE right
  BY <1>1, <1>2, <1>4, <1>5, <1>7, SplitParentAt, SMTT(40)
<1>. HIDE DEF s
<1>8. DOMAIN s.children = 1 .. Len(s.buckets)
  <2>1. WFNode(s) /\ s.children \in Seq(S) /\ ~IsLeaf(s)
    BY <1>6 DEF SplitFrom
  <2>. QED  BY <2>1, ChildSlots
<1>9. slot \in DOMAIN node.children
  BY <1>1, <1>3
<1>10. /\ ~IsLeaf(q) /\ DOMAIN q.children = 1 .. Len(q.buckets)
       /\ q.pivotTable[1] = node.pivotTable[1] /\ Last(q.pivotTable) = Last(node.pivotTable)
       /\ SplitSlots(q, node, slot, pivot, left, right)
  BY <1>1, <1>6, <1>8 DEF SplitFrom
<1>11. \A key \in Nat : BoundedKey(node.pivotTable, key) =>
         /\ BoundedKey(q.pivotTable, key)
         /\ Agree(BucketAt(q, key), BucketAt(node, key), key)
         /\ ChildAt(q, key) =
              IF Route(node.pivotTable, key) # slot THEN ChildAt(node, key)
              ELSE IF key < pivot THEN left ELSE right
  BY <1>1, <1>7
<1>. QED  BY <1>2, <1>3, <1>9, <1>10, <1>11 DEF SplitShape, node, q, D

\* Where each slot of the split parent is: at an old one, or at one of the two.
LEMMA SplitSlotCases ==
  ASSUME NEW ns, IsTree(ns), NEW ms, NEW p, NEW slot, NEW pivot, NEW left, NEW right,
         SplitInTwo(ns, ms, p, slot, pivot, left, right), NEW j \in DOMAIN ms[p].children
  PROVE  \/ /\ \E i \in DOMAIN ns[p].children : ms[p].children[j] = ns[p].children[i]
            /\ OldSlot(ns, ms[p], j)
         \/ /\ ms[p].children[j] = left /\ ms[p].pivotTable[j] = ns[p].pivotTable[slot]
            /\ ms[p].pivotTable[j + 1] = pivot
         \/ /\ ms[p].children[j] = right /\ ms[p].pivotTable[j] = pivot
            /\ ms[p].pivotTable[j + 1] = ns[p].pivotTable[slot + 1]
<1>. DEFINE node == ns[p]
            q    == ms[p]
<1>1. /\ p \in DOMAIN ns /\ slot \in Nat
  <2>1. p \in DOMAIN ns /\ slot \in 1 .. Len(node.buckets)
    BY DEF SplitInTwo, Changed
  <2>. QED  BY <2>1
<1>2. /\ DOMAIN node.children = 1 .. Len(node.buckets)
      /\ DOMAIN q.children = 1 .. Len(q.buckets)
      /\ SplitSlots(q, node, slot, pivot, left, right)
  BY SplitShapeHolds DEF SplitShape
<1>. HIDE DEF q
<1>3. j \in 1 .. Len(q.buckets) /\ j \in Nat
  BY <1>2 DEF q
<1>4. CASE j < slot
  <2>1. /\ j \in DOMAIN node.children /\ q.children[j] = node.children[j]
        /\ q.pivotTable[j] = node.pivotTable[j] /\ q.pivotTable[j + 1] = node.pivotTable[j + 1]
    BY <1>2, <1>3, <1>4 DEF SplitSlots
  <2>. QED  BY <1>1, <2>1 DEF OldSlot, q
<1>5. CASE j = slot \/ j = slot + 1
  BY <1>2, <1>3, <1>5 DEF SplitSlots, q
<1>6. CASE j > slot + 1
  <2>. DEFINE i == j - 1
  <2>1. /\ i \in 1 .. Len(node.buckets) /\ q.children[j] = node.children[i]
        /\ q.pivotTable[j] = node.pivotTable[i] /\ q.pivotTable[j + 1] = node.pivotTable[i + 1]
    BY <1>2, <1>3, <1>6 DEF SplitSlots
  <2>. HIDE DEF i
  <2>2. i \in DOMAIN node.children
    BY <1>2, <2>1
  <2>. QED  BY <1>1, <2>1, <2>2 DEF OldSlot, q
<1>7. j < slot \/ j = slot \/ j = slot + 1 \/ j > slot + 1
  BY <1>1, <1>3
<1>. QED  BY <1>4, <1>5, <1>6, <1>7

\* A split makes no cycle: the halves have the children of the child.
LEMMA SplitAcyclic ==
  ASSUME NEW ns, IsTree(ns), NEW ms, NEW p, NEW slot, NEW pivot, NEW left, NEW right,
         SplitInTwo(ns, ms, p, slot, pivot, left, right), NEW rank, Ranked(ns, rank)
  PROVE  Acyclic(ms)
<1>. DEFINE node  == ns[p]
            cref  == node.children[slot]
            child == ns[cref]
            q     == ms[p]
            fresh == {left, right}
            D     == DOMAIN ns
<1>1. /\ Changed(ns, ms, p, fresh) /\ p \in D
      /\ WFNode(ms[left]) /\ ms[left].children \in Seq(D) /\ Narrowed(ms[left], child)
      /\ WFNode(ms[right]) /\ ms[right].children \in Seq(D) /\ Narrowed(ms[right], child)
  BY DEF SplitInTwo, Changed
<1>2. /\ slot \in DOMAIN node.children /\ cref \in D
      /\ WFNode(child) /\ child.children \in Seq(D)
  BY SplitShapeHolds DEF SplitShape
<1>3. NotAbove(rank, p, p) /\ NotAbove(rank, cref, p)
  BY <1>1, <1>2 DEF NotAbove, Ranked
<1>4. ChildrenIn(q, Under(ns, rank, p, fresh))
  <2>1. ASSUME NEW j \in DOMAIN q.children
        PROVE  q.children[j] \in Under(ns, rank, p, fresh)
    <3>1. \/ \E i \in DOMAIN node.children : q.children[j] = node.children[i]
          \/ q.children[j] \in fresh
      BY SplitSlotCases
    <3>2. ASSUME NEW i \in DOMAIN node.children
          PROVE  node.children[i] \in Under(ns, rank, p, fresh)
      <4>. HIDE DEF fresh
      <4>. QED  BY <1>1, <1>3, OwnChildren
    <3>3. fresh \subseteq Under(ns, rank, p, fresh)
      BY DEF Under
    <3>. HIDE DEF fresh
    <3>. QED  BY <3>1, <3>2, <3>3
  <2>. QED  BY <2>1 DEF ChildrenIn
<1>5. ASSUME NEW i \in DOMAIN child.children
      PROVE  child.children[i] \in Under(ns, rank, p, {})
  <2>. HIDE DEF cref
  <2>. QED  BY <1>1, <1>2, <1>3, OwnChildren
<1>6. ASSUME NEW x \in fresh
      PROVE  ChildrenIn(ms[x], Under(ns, rank, p, {}))
  <2>. DEFINE n == ms[x]
  <2>1. WFNode(n) /\ n.children \in Seq(D) /\ Narrowed(n, child)
    BY <1>1
  <2>. HIDE DEF n, child
  <2>2. ASSUME NEW j \in DOMAIN n.children
        PROVE  n.children[j] \in Under(ns, rank, p, {})
    <3>1. \E i \in DOMAIN child.children : n.children[j] = child.children[i]
      <4>. HIDE DEF D
      <4>. QED  BY <1>2, <2>1, PartChildren
    <3>. QED  BY <1>5, <3>1
  <2>. QED  BY <2>2 DEF ChildrenIn, n
<1>. QED  BY <1>1, <1>4, <1>6, ChangeAcyclic

\* The halves fit the two slots the parent has for them.
LEMMA SplitSearchable ==
  ASSUME NEW ns, IsTree(ns), Searchable(ns), NEW ms,
         NEW p, NEW slot, NEW pivot, NEW left, NEW right,
         SplitInTwo(ns, ms, p, slot, pivot, left, right)
  PROVE  Searchable(ms)
<1>. DEFINE node  == ns[p]
            cref  == node.children[slot]
            child == ns[cref]
            q     == ms[p]
            fresh == {left, right}
            D     == DOMAIN ns
            from  == node.pivotTable[slot]
            to    == node.pivotTable[slot + 1]
<1>1. /\ Changed(ns, ms, p, fresh) /\ p \in D /\ Root \in D /\ ~IsLeaf(node)
      /\ left # Root /\ right # Root
      /\ WFNode(ms[left]) /\ ms[left].children \in Seq(D) /\ Narrowed(ms[left], child)
      /\ WFNode(ms[right]) /\ ms[right].children \in Seq(D) /\ Narrowed(ms[right], child)
      /\ ms[left].pivotTable[1] = from /\ Last(ms[left].pivotTable) = pivot
      /\ ms[right].pivotTable[1] = pivot /\ Last(ms[right].pivotTable) = to
  BY DEF SplitInTwo, Changed, IsTree
<1>2. child.pivotTable[1] = from /\ Last(child.pivotTable) = to
        => SomeSlots(ms[left], child) /\ SomeSlots(ms[right], child)
  BY DEF SplitInTwo
<1>3. /\ slot \in DOMAIN node.children /\ cref \in D
      /\ ~IsLeaf(q) /\ WFNode(child) /\ child.children \in Seq(D)
      /\ q.pivotTable[1] = node.pivotTable[1] /\ Last(q.pivotTable) = Last(node.pivotTable)
  BY SplitShapeHolds DEF SplitShape
<1>4. ContainsAllKeys(ms[Root].pivotTable)
  <2>1. ContainsAllKeys(ns[Root].pivotTable)
    BY DEF Searchable
  <2>2. CASE p = Root
    BY <1>3, <2>1, <2>2 DEF ContainsAllKeys
  <2>3. CASE p # Root
    BY <1>1, <2>1, <2>3 DEF Changed
  <2>. QED  BY <2>2, <2>3
<1>5. \A a, b : Fits(node, a, b) => Fits(q, a, b)
  BY <1>1, <1>3 DEF Fits
<1>6. ASSUME NEW j \in DOMAIN q.children
      PROVE  OldSlot(ns, q, j) \/ SlotFits(ms, q, j)
  <2>1. \/ OldSlot(ns, q, j)
        \/ q.children[j] = left /\ q.pivotTable[j] = from /\ q.pivotTable[j + 1] = pivot
        \/ q.children[j] = right /\ q.pivotTable[j] = pivot /\ q.pivotTable[j + 1] = to
    BY SplitSlotCases
  <2>. HIDE DEF q, from, to
  <2>. QED  BY <1>1, <2>1 DEF SlotFits, Fits
<1>7. ASSUME NEW x \in fresh, NEW j \in DOMAIN ms[x].children
      PROVE  OldSlot(ns, ms[x], j)
  <2>. DEFINE n == ms[x]
  <2>1. /\ WFNode(n) /\ n.children \in Seq(D) /\ Narrowed(n, child)
        /\ child.pivotTable[1] = from /\ Last(child.pivotTable) = to => SomeSlots(n, child)
    BY <1>1, <1>2
  <2>. HIDE DEF n, from, to
  <2>2. IsLeaf(n) => DOMAIN n.children = {}
    BY <2>1, ChildSlots
  <2>3. ~IsLeaf(child)
    BY <2>1, <2>2 DEF Narrowed, n
  <2>4. Fits(child, from, to)
    BY <1>1, <1>3 DEF Searchable, SlotFits, from, to
  <2>5. SomeSlots(n, child)
    BY <2>1, <2>3, <2>4 DEF Fits
  <2>6. OldSlot(ns, n, j)
    <3>1. j \in DOMAIN n.children
      BY DEF n
    <3>. HIDE DEF cref
    <3>. QED  BY <1>3, <2>1, <2>3, <2>5, <3>1, PartSlots
  <2>. QED  BY <2>6 DEF n
<1>8. \A x \in fresh \cup {p} : \A i \in DOMAIN ms[x].children :
        OldSlot(ns, ms[x], i) \/ SlotFits(ms, ms[x], i)
  BY <1>6, <1>7
<1>. QED  BY <1>1, <1>4, <1>5, <1>8, ChangeSearchable

\* On either side of the pivot the parent finds what it found.
LEMMA SplitStep ==
  ASSUME NEW ns, IsTree(ns), Good(ns), NEW ms, IsTree(ms), Acyclic(ms),
         NEW p, NEW slot, NEW pivot, NEW left, NEW right,
         SplitInTwo(ns, ms, p, slot, pivot, left, right), NEW rank, Ranked(ns, rank),
         NEW key \in Key, BoundedKey(ns[p].pivotTable, key), Agreeing(ns, ms, rank, p, key)
  PROVE  /\ BoundedKey(ms[p].pivotTable, key)
         /\ StepValue(ms[p], ValueOn(ms), key) = StepValue(ns[p], ValueOn(ns), key)
<1>. DEFINE node  == ns[p]
            cref  == node.children[slot]
            child == ns[cref]
            q     == ms[p]
            r     == Route(node.pivotTable, key)
            v     == ValueOn(ns)
            w     == ValueOn(ms)
<1>1. /\ Changed(ns, ms, p, {left, right}) /\ p \in DOMAIN ns
      /\ left \in DOMAIN ms /\ right \in DOMAIN ms
      /\ ~IsLeaf(node) /\ pivot \in Nat /\ Searchable(ns) /\ Acyclic(ns)
      /\ WFNode(ms[left]) /\ Narrowed(ms[left], child)
      /\ WFNode(ms[right]) /\ Narrowed(ms[right], child)
      /\ ms[left].pivotTable[1] = node.pivotTable[slot] /\ Last(ms[left].pivotTable) = pivot
      /\ ms[right].pivotTable[1] = pivot /\ Last(ms[right].pivotTable) = node.pivotTable[slot + 1]
  BY DEF SplitInTwo, Changed, Good
<1>2. key \in Nat
  BY DEF Key
<1>3. /\ cref \in DOMAIN ns /\ WFNode(node) /\ WFNode(child) /\ ~IsLeaf(q)
      /\ BoundedKey(q.pivotTable, key)
      /\ Agree(BucketAt(q, key), BucketAt(node, key), key)
      /\ ChildAt(q, key) = IF r # slot THEN ChildAt(node, key)
                           ELSE IF key < pivot THEN left ELSE right
  BY <1>2, SplitShapeHolds DEF SplitShape
<1>4. NotAbove(rank, p, p) /\ NotAbove(rank, cref, p)
  <2>1. slot \in DOMAIN node.children
    BY SplitShapeHolds DEF SplitShape
  <2>. QED  BY <1>1, <2>1 DEF NotAbove, Ranked
<1>5. CASE r # slot
  <2>1. Same(q, node, key)
    BY <1>1, <1>3, <1>5 DEF Same
  <2>2. StepValue(q, ValueOn(ms), key) = StepValue(node, ValueOn(ns), key)
    <3>. HIDE DEF q
    <3>. QED  BY <1>1, <1>4, <2>1, StepAgrees
  <2>. QED  BY <1>3, <2>2
<1>6. CASE r = slot
  <2>. DEFINE x == IF key < pivot THEN left ELSE right
  <2>1. node.pivotTable[slot] <= key /\ key < node.pivotTable[slot + 1]
    BY <1>2, <1>3, <1>6, RouteInNode
  <2>2. x \in DOMAIN ms /\ BoundedKey(ms[x].pivotTable, key) /\ Same(ms[x], child, key)
    <3>1. CASE key < pivot
      <4>1. BoundedKey(ms[left].pivotTable, key)
        BY <1>1, <2>1, <3>1 DEF BoundedKey
      <4>2. Same(ms[left], child, key)
        BY <1>1, <1>2, <1>3, <4>1, NarrowedSame
      <4>. QED  BY <1>1, <3>1, <4>1, <4>2
    <3>2. CASE ~(key < pivot)
      <4>1. BoundedKey(ms[right].pivotTable, key)
        <5>1. pivot <= key
          BY <1>1, <1>2, <3>2
        <5>. QED  BY <1>1, <2>1, <5>1 DEF BoundedKey
      <4>2. Same(ms[right], child, key)
        BY <1>1, <1>2, <1>3, <4>1, NarrowedSame
      <4>. QED  BY <1>1, <3>2, <4>1, <4>2
    <3>. QED  BY <3>1, <3>2
  <2>3. ChildAt(node, key) = cref /\ ChildAt(q, key) = x
    BY <1>3, <1>6 DEF ChildAt
  <2>. HIDE DEF x
  <2>4. BoundedKey(child.pivotTable, key)
    <3>1. BoundedKey(ns[ChildAt(node, key)].pivotTable, key)
      BY <1>1, <1>2, ChildBounded
    <3>. QED  BY <2>3, <3>1
  <2>5. ValueOn(ms)[x][key] = StepValue(child, ValueOn(ns), key)
    <3>. HIDE DEF cref
    <3>. QED  BY <1>1, <1>3, <1>4, <2>2, SameGives
  <2>6. v[cref][key] = StepValue(child, v, key)
    <3>. HIDE DEF cref
    <3>. QED  BY <1>1, <1>3, <2>4, ValueStep
  <2>7. StepValue(q, w, key) = StepValue(node, v, key)
    <3>1. w[x][key] = v[cref][key]
      BY <2>5, <2>6
    <3>. HIDE DEF w, v, q, node, cref
    <3>. QED  BY <1>1, <1>3, <2>3, <3>1 DEF StepValue, Agree
  <2>. QED  BY <1>3, <2>7
<1>. QED  BY <1>5, <1>6

\* So every value is kept.
LEMMA SplitInTwoGood ==
  ASSUME NEW ns, IsTree(ns), Good(ns), NEW ms, IsTree(ms),
         NEW p, NEW slot, NEW pivot, NEW left, NEW right,
         SplitInTwo(ns, ms, p, slot, pivot, left, right)
  PROVE  Good(ms) /\ \A key \in Key : KeepsValue(ns, ms, key)
<1>1. PICK rank : Ranked(ns, rank)
  BY DEF Good, Acyclic
<1>2. Acyclic(ms)
  BY <1>1, SplitAcyclic
<1>3. Searchable(ms)
  BY SplitSearchable DEF Good
<1>4. Changed(ns, ms, p, {left, right})
  BY DEF SplitInTwo
<1>5. ASSUME NEW key \in Key
      PROVE  KeepsValue(ns, ms, key)
  <2>1. ASSUME BoundedKey(ns[p].pivotTable, key), Agreeing(ns, ms, rank, p, key)
        PROVE  /\ BoundedKey(ms[p].pivotTable, key)
               /\ StepValue(ms[p], ValueOn(ms), key) = StepValue(ns[p], ValueOn(ns), key)
    BY <1>1, <1>2, <2>1, SplitStep
  <2>. DEFINE fresh == {left, right}
  <2>2. Changed(ns, ms, p, fresh)
    BY <1>4
  <2>. HIDE DEF fresh
  <2>. QED  BY <1>1, <1>2, <2>1, <2>2, ValueOfChanged
<1>. QED  BY <1>2, <1>3, <1>5 DEF Good

\* A split loses no message.
LEMMA SplitGood ==
  ASSUME Sound(nodes, table), Good(nodes), IsTree(nodes'),
         NEW parent \in DOMAIN nodes, ~IsLeaf(nodes[parent]),
         NEW slot \in 1 .. Len(nodes[parent].buckets), Split(parent, slot)
  PROVE  Good(nodes') /\ \A key \in Key : KeepsValue(nodes, nodes', key)
<1>. DEFINE node    == nodes[parent]
            D       == DOMAIN nodes
            cut     == CutChild(parent, slot)
            numLeft == Len(cut.buckets) \div 2
            pivot   == cut.pivotTable[numLeft + 1]
            lower   == SplitChildLeft(cut, numLeft)
            upper   == SplitChildRight(cut, numLeft)
<1>1. PICK left \in FreeRef(table.refUpperBound) : \E right \in FreeRef(left) :
        nodes' = Put(Put(Put(nodes, left, lower), right, upper), parent,
                     SplitParent(node, slot, pivot, left, right))
  BY DEF Split
<1>2. PICK right \in FreeRef(left) :
        nodes' = Put(Put(Put(nodes, left, lower), right, upper), parent,
                     SplitParent(node, slot, pivot, left, right))
  BY <1>1
<1>. DEFINE newparent == SplitParent(node, slot, pivot, left, right)
<1>3. IsTree(nodes) /\ SplitAllowed(parent, slot)
  BY DEF Sound, Version, Split
<1>4. SplitParts(node, nodes[node.children[slot]], cut, slot, D)
  BY <1>3, SplitPieces
<1>5. left \in Ref /\ left \notin D /\ left # Root /\ left > table.refUpperBound
  BY FreeIsNew DEF Sound
<1>6. right \notin D /\ right # Root /\ left # right
  <2>1. right = left + 1 /\ left \in Nat /\ table.refUpperBound \in Nat
    BY <1>5, ExactGives, RefAssumption DEF Sound, FreeRef, Ref
  <2>2. Root \in D /\ D \subseteq Nat /\ \A ref \in D : ref <= table.refUpperBound
    <3>1. D = DOMAIN table.entries /\ D \in SUBSET Ref /\ Root \in D
      BY VersionGives DEF Sound
    <3>2. \A ref \in DOMAIN table.entries : ref <= table.refUpperBound
      BY ExactGives DEF Sound
    <3>. QED  BY <3>1, <3>2, RefAssumption DEF Ref
  <2>3. \A ref \in D : ref < right
    BY <1>5, <2>1, <2>2
  <2>4. left < right
    BY <2>1
  <2>. QED  BY <2>1, <2>2, <2>3, <2>4
<1>7. /\ WFNode(lower) /\ lower.children \in Seq(D) /\ Narrowed(lower, nodes[node.children[slot]])
      /\ WFNode(upper) /\ upper.children \in Seq(D) /\ Narrowed(upper, nodes[node.children[slot]])
      /\ pivot \in Nat /\ PivotInsertable(node.pivotTable, slot + 1, pivot)
      /\ lower.pivotTable[1] = node.pivotTable[slot] /\ Last(lower.pivotTable) = pivot
      /\ upper.pivotTable[1] = pivot /\ Last(upper.pivotTable) = node.pivotTable[slot + 1]
      /\ nodes[node.children[slot]].pivotTable[1] = node.pivotTable[slot]
           /\ Last(nodes[node.children[slot]].pivotTable) = node.pivotTable[slot + 1]
         => SomeSlots(lower, nodes[node.children[slot]]) /\ SomeSlots(upper, nodes[node.children[slot]])
  BY <1>4 DEF SplitParts
<1>8. /\ Changed(nodes, nodes', parent, {left, right}) /\ nodes'[parent] = newparent
      /\ nodes'[left] = lower /\ nodes'[right] = upper
  <2>1. nodes' = Put(Put(Put(nodes, left, lower), right, upper), parent, newparent)
    BY <1>2
  <2>. HIDE DEF lower, upper, newparent
  <2>. QED  BY <1>5, <1>6, <2>1, PutThree
<1>. HIDE DEF lower, upper, pivot
<1>9. SplitInTwo(nodes, nodes', parent, slot, pivot, left, right)
  BY <1>5, <1>6, <1>7, <1>8 DEF SplitInTwo
<1>. QED  BY <1>3, <1>9, SplitInTwoGood

-----------------------------------------------------------------------------
\* Repivoting a leaf

\* A node with one bucket weighs what the bucket does.
LEMMA OneBucketWeight ==
  ASSUME NEW node, WFNode(node), Len(node.buckets) = 1
  PROVE  node.buckets[1] \in Bucket /\ NodeWeight(node) = BucketWeight(node.buckets[1])
<1>. DEFINE b == node.buckets[1]  S == DOMAIN b  T == {1} \X S
<1>1. b \in Bucket
  BY WithinSlot
<1>2. DOMAIN node.buckets = {1}
  <2>1. node.buckets \in Seq(Bucket)
    BY DEF WFNode
  <2>. DEFINE s == node.buckets
  <2>. HIDE DEF s
  <2>2. s \in Seq(Bucket) /\ Len(s) = 1
    BY <2>1 DEF s
  <2>3. DOMAIN s = {1}
    BY <2>2
  <2>. QED  BY <2>3 DEF s
<1>3. MessagesOf(node) = T
  BY <1>2 DEF MessagesOf
<1>4. IsFiniteSet(S)
  BY <1>1, BucketFacts
<1>. HIDE DEF S
<1>5. Cardinality(T) = Cardinality(S)
  <2>. DEFINE f == [k \in S |-> <<1, k>>]
  <2>1. /\ f \in [S -> T] /\ \A j, k \in S : f[j] = f[k] => j = k
        /\ \A t \in T : \E k \in S : f[k] = t
    OBVIOUS
  <2>. HIDE DEF f, T
  <2>2. f \in Bijection(S, T)
    BY <2>1, Fun_IsBij
  <2>3. ExistsBijection(S, T)
    BY <2>2 DEF ExistsBijection
  <2>. QED  BY <1>4, <2>3, FS_Bijection
<1>. QED  BY <1>1, <1>3, <1>5 DEF NodeWeight, BucketWeight, S

\* With two messages or more the middle key is one of theirs, not the least.
LEMMA MiddleKeyInside ==
  ASSUME NEW b \in Bucket, BucketWeight(b) >= 2
  PROVE  /\ getMiddleKey(b) \in DOMAIN b
         /\ \E k \in DOMAIN b : k < getMiddleKey(b)
<1>. DEFINE S == DOMAIN b  keys == Ascending(S)  m == Len(keys) \div 2 + 1
<1>1. /\ S \subseteq Nat /\ S \in SUBSET Int /\ IsFiniteSet(S)
  <2>1. DOMAIN b \subseteq Nat /\ IsFiniteSet(DOMAIN b)
    BY BucketFacts
  <2>. QED  BY <2>1
<1>. HIDE DEF S
<1>2. /\ keys \in Seq(S) /\ Len(keys) = Cardinality(S)
      /\ \A i, j \in 1 .. Cardinality(S) : i < j => keys[i] < keys[j]
  BY <1>1, AscendingFacts
<1>3. Len(keys) \in Nat /\ Len(keys) >= 2
  BY <1>2 DEF BucketWeight, S
<1>. HIDE DEF keys
<1>4. 1 \in 1 .. Len(keys) /\ m \in 1 .. Len(keys) /\ 1 < m
  BY <1>3
<1>. HIDE DEF m
<1>5. keys[1] < keys[m] /\ keys[1] \in S /\ keys[m] \in S
  <2>1. keys[1] < keys[m]
    BY <1>2, <1>4
  <2>. QED  BY <1>2, <1>4, <2>1, ElementOfSeq
<1>6. keys[1] \in Nat /\ keys[m] \in Nat
  BY <1>1, <1>5
<1>7. getMiddleKey(b) = keys[m]
  <2>1. keys # <<>> /\ keys[m] # 0
    BY <1>3, <1>5, <1>6
  <2>. QED  BY <2>1 DEF getMiddleKey, keys, m, S
<1>. QED  BY <1>5, <1>7 DEF S

\* The pivots of a repivoted leaf.
LEMMA RepivotedPivots ==
  ASSUME NEW node, WFNode(node), Len(node.buckets) = 1
  PROVE  LET pt == RepivotedLeaf(node).pivotTable
         IN  /\ Len(pt) = 3 /\ pt[1] = 0 /\ pt[2] = getMiddleKey(node.buckets[1])
             /\ pt[3] = NumKeys
<1>. DEFINE pivot == getMiddleKey(node.buckets[1])  two == 2
            pt == InsertAt(InitPivotTable, two, pivot)
<1>1. pivot \in Pivot
  <2>1. node.buckets[1] \in Bucket
    BY WithinSlot
  <2>2. pivot \in 1 .. (NumKeys - 1)
    BY <2>1, MiddleKey
  <2>. QED  BY <2>2, KeyAssumption DEF Pivot
<1>. HIDE DEF pivot
<1>2. /\ InitPivotTable \in Seq(Pivot) /\ Len(InitPivotTable) = 2
      /\ InitPivotTable[1] = 0 /\ InitPivotTable[2] = NumKeys
  BY KeyAssumption DEF InitPivotTable, Pivot
<1>3. two \in 1 .. (Len(InitPivotTable) + 1)
  BY <1>2
<1>4. RepivotedLeaf(node).pivotTable = pt
  BY DEF RepivotedLeaf, pivot
<1>. HIDE DEF two
<1>5. /\ Len(InsertAt(InitPivotTable, two, pivot)) = Len(InitPivotTable) + 1
      /\ \A j \in 1 .. (Len(InitPivotTable) + 1) :
           InsertAt(InitPivotTable, two, pivot)[j] =
             IF j < two THEN InitPivotTable[j] ELSE IF j = two THEN pivot
             ELSE InitPivotTable[j - 1]
  <2>1. InitPivotTable \in Seq(Pivot) /\ pivot \in Pivot
    BY <1>1, <1>2
  <2>2. Inserted(Pivot, InitPivotTable, two, pivot, InsertAt(InitPivotTable, two, pivot))
    BY <1>3, <2>1, InsertAtFacts
  <2>. QED  BY <2>2 DEF Inserted
<1>. HIDE DEF pt
<1>6. Len(pt) = 3 /\ pt[1] = 0 /\ pt[2] = pivot /\ pt[3] = NumKeys
  <2>1. pt = InsertAt(InitPivotTable, two, pivot)
    BY DEF pt
  <2>. QED  BY <1>2, <1>5, <2>1 DEF two
<1>. QED  BY <1>4, <1>6 DEF pivot

\* A repivoted leaf still fits its slot.
LEMMA RepivotFits ==
  ASSUME NEW node, WFNode(node), IsLeaf(node), Len(node.buckets) = 1, NodeWeight(node) >= 2,
         NEW from, NEW to, Fits(node, from, to)
  PROVE  Fits(RepivotedLeaf(node), from, to)
<1>. DEFINE q == RepivotedLeaf(node)  mid == getMiddleKey(node.buckets[1])  b == node.buckets[1]
<1>1. /\ Len(node.pivotTable) = 2 /\ Last(node.pivotTable) = node.pivotTable[2]
      /\ node.pivotTable[1] \in 0 .. NumKeys /\ node.pivotTable[2] \in 0 .. NumKeys
  <2>1. /\ Len(node.pivotTable) = Len(node.buckets) + 1
        /\ node.pivotTable[1] \in 0 .. NumKeys /\ Last(node.pivotTable) \in 0 .. NumKeys
        /\ Last(node.pivotTable) = node.pivotTable[Len(node.pivotTable)]
    BY BoundsOfNode
  <2>2. Len(node.pivotTable) = 2
    BY <2>1
  <2>. QED  BY <2>1, <2>2
<1>2. from = node.pivotTable[1] /\ to = node.pivotTable[2]
  BY <1>1 DEF Fits
<1>3. b \in Bucket /\ BucketWeight(b) >= 2
  BY OneBucketWeight
<1>4. mid \in DOMAIN b /\ \E k \in DOMAIN b : k < mid
  BY <1>3, MiddleKeyInside
<1>5. \A k \in DOMAIN b : k \in Nat /\ node.pivotTable[1] <= k /\ k < node.pivotTable[1 + 1]
  BY WithinSlot
<1>6. /\ Len(q.pivotTable) = 3 /\ q.pivotTable[1] = 0 /\ q.pivotTable[2] = mid
      /\ q.pivotTable[3] = NumKeys
  BY RepivotedPivots
<1>7. IsLeaf(q)
  BY RepivotedNode
<1>. HIDE DEF q, mid, b
<1>8. Last(q.pivotTable) = NumKeys
  BY <1>6 DEF Last
<1>9. from < mid /\ mid < to /\ 0 <= from /\ to <= NumKeys
  <2>1. PICK k \in DOMAIN b : k < mid
    BY <1>4
  <2>2. k \in Nat /\ mid \in Nat /\ from <= k /\ mid < to
    BY <1>2, <1>4, <1>5
  <2>3. from \in 0 .. NumKeys /\ to \in 0 .. NumKeys
    BY <1>1, <1>2
  <2>. QED  BY <2>1, <2>2, <2>3, KeyAssumption
<1>. QED  BY <1>6, <1>7, <1>8, <1>9 DEF Fits, q

\* A heavy leaf has two messages or more.
LEMMA HeavyWeighs ==
  ASSUME NEW ref, WFNode(nodes[ref]), Heavy(ref)
  PROVE  NodeWeight(nodes[ref]) >= 2
<1>. DEFINE w == NodeWeight(nodes[ref])
<1>1. w \in Nat
  BY NodeWeightTyped
<1>2. w + FlushTriggerWeight > MaxTotalBucketWeight
  BY DEF Heavy
<1>. HIDE DEF w
<1>3. w >= 2
  BY <1>1, <1>2, TreeAssumption
<1>. QED  BY <1>3 DEF w

\* A repivoted leaf still fits its slot, and every value is kept.
LEMMA RepivotGood ==
  ASSUME Sound(nodes, table), Good(nodes), IsTree(nodes'), NEW ref \in DOMAIN nodes,
         IsLeaf(nodes[ref]), Len(nodes[ref].buckets) = 1, Heavy(ref), RepivotLeaf(ref)
  PROVE  Good(nodes') /\ \A key \in Key : KeepsValue(nodes, nodes', key)
<1>. DEFINE node == nodes[ref]  q == RepivotedLeaf(node)
<1>1. IsTree(nodes) /\ WFNode(node) /\ nodes = [r \in DOMAIN nodes |-> nodes[r]]
  BY DEF Sound, Version, IsTree
<1>2. nodes' = [nodes EXCEPT ![ref] = q]
  BY DEF RepivotLeaf
<1>3. NodeWeight(node) >= 2
  BY <1>1, HeavyWeighs
<1>4. /\ IsLeaf(q) /\ ContainsAllKeys(q.pivotTable)
      /\ \A k \in Key : BoundedKey(node.pivotTable, k) => Same(q, node, k)
  BY <1>1, RepivotedNode
<1>5. \A from, to : Fits(node, from, to) => Fits(q, from, to)
  BY <1>1, <1>3, RepivotFits
<1>. HIDE DEF q
<1>6. nodes' = Put(nodes, ref, q)
  BY <1>1, <1>2, ExceptIsPut
<1>7. Changed(nodes, nodes', ref, {}) /\ nodes'[ref] = q
  BY <1>6, PutOne
<1>8. PICK rank : Ranked(nodes, rank)
  BY DEF Good, Acyclic
<1>9. DOMAIN q.children = {}
  <2>1. q.children = <<>>
    BY <1>4 DEF IsLeaf
  <2>. QED  BY <2>1
<1>10. Acyclic(nodes')
  <2>1. ChildrenIn(q, Under(nodes, rank, ref, {}))
    BY <1>9 DEF ChildrenIn
  <2>. QED  BY <1>1, <1>7, <1>8, <2>1, ChangeAcyclic
<1>11. Searchable(nodes')
  <2>1. ContainsAllKeys(nodes'[Root].pivotTable) /\ Searchable(nodes)
    <3>1. Searchable(nodes) /\ ContainsAllKeys(nodes[Root].pivotTable) /\ Root \in DOMAIN nodes
      BY <1>1 DEF Good, Searchable, IsTree
    <3>. QED  BY <1>4, <1>7, <3>1 DEF Changed
  <2>2. \A from, to : ref # Root /\ Fits(nodes[ref], from, to) => Fits(nodes'[ref], from, to)
    BY <1>5, <1>7
  <2>3. \A x \in {} \cup {ref} : \A i \in DOMAIN nodes'[x].children :
          OldSlot(nodes, nodes'[x], i) \/ SlotFits(nodes', nodes'[x], i)
    BY <1>7, <1>9
  <2>. QED  BY <1>1, <1>7, <2>1, <2>2, <2>3, ChangeSearchable
<1>12. ASSUME NEW key \in Key
       PROVE  KeepsValue(nodes, nodes', key)
  <2>1. BoundedKey(nodes[ref].pivotTable, key) => Same(nodes'[ref], nodes[ref], key)
    BY <1>4, <1>7
  <2>. QED  BY <1>1, <1>7, <1>8, <1>10, <2>1, SameKeepsValue
<1>. QED  BY <1>10, <1>11, <1>12 DEF Good

-----------------------------------------------------------------------------
\* Deallocation

\* What is deallocated has nothing above it, so that no search passes it.
LEMMA DeallocGood ==
  ASSUME Sound(nodes, table), Good(nodes), IsTree(nodes'), NEW ref \in FindDeallocable(table),
         nodes' = Without(nodes, ref), table' = RemoveRef(table, ref)
  PROVE  Good(nodes') /\ \A key \in Key : KeepsValue(nodes, nodes', key)
<1>1. IsTree(nodes) /\ ref # Root /\ ref \in DOMAIN nodes /\ Root \in DOMAIN nodes
  BY DeallocSound DEF Sound, Version, IsTree
<1>2. DOMAIN nodes' = DOMAIN nodes \ {ref} /\ \A r \in DOMAIN nodes' : nodes'[r] = nodes[r]
  BY DEF Without, Restrict
<1>3. ASSUME NEW r \in DOMAIN nodes', NEW i \in DOMAIN nodes'[r].children
      PROVE  nodes[r].children[i] \in DOMAIN nodes' /\ i \in DOMAIN nodes[r].children
  <2>. DEFINE cs == nodes[r].children  D == DOMAIN nodes'
  <2>1. cs \in Seq(D)
    BY DeallocSound
  <2>2. i \in DOMAIN cs
    BY <1>2
  <2>. HIDE DEF cs, D
  <2>3. cs[i] \in D
    BY <2>1, <2>2
  <2>. QED  BY <2>2, <2>3 DEF cs, D
<1>4. PICK rank : Ranked(nodes, rank)
  BY DEF Good, Acyclic
<1>5. Ranked(nodes', rank)
  BY <1>2, <1>3, <1>4 DEF Ranked
<1>6. Acyclic(nodes')
  BY <1>5 DEF Acyclic
<1>7. Searchable(nodes')
  <2>1. Searchable(nodes)
    BY DEF Good
  <2>2. ContainsAllKeys(nodes'[Root].pivotTable)
    BY <1>1, <1>2, <2>1 DEF Searchable
  <2>3. ASSUME NEW r \in DOMAIN nodes', NEW i \in DOMAIN nodes'[r].children
        PROVE  SlotFits(nodes', nodes'[r], i)
    <3>1. SlotFits(nodes, nodes[r], i)
      BY <1>2, <1>3, <2>1, <2>3 DEF Searchable
    <3>2. nodes'[r] = nodes[r] /\ nodes'[nodes[r].children[i]] = nodes[nodes[r].children[i]]
      BY <1>2, <1>3
    <3>. QED  BY <3>1, <3>2 DEF SlotFits
  <2>. QED  BY <2>2, <2>3 DEF Searchable
<1>8. Changed(nodes', nodes, Root, {ref})
  BY <1>1, <1>2 DEF Changed
<1>9. Good(nodes') /\ Acyclic(nodes)
  BY <1>6, <1>7 DEF Good
<1>10. ASSUME NEW key \in Key
       PROVE  KeepsValue(nodes, nodes', key)
  <2>1. nodes[Root] = nodes'[Root]
    BY <1>1, <1>2
  <2>2. BoundedKey(nodes'[Root].pivotTable, key) => Same(nodes[Root], nodes'[Root], key)
    BY <2>1, SameItself
  <2>3. KeepsValue(nodes', nodes, key)
    BY <1>1, <1>5, <1>8, <1>9, <2>2, SameKeepsValue
  <2>. QED  BY <2>3 DEF KeepsValue
<1>. QED  BY <1>9, <1>10

-----------------------------------------------------------------------------
\* Every step on the tree

\* The answers of a version.
AnswersOn(ns) == [key \in Key |-> ValueOn(ns)[Root][key]]

\* When every value is kept the map is the same.
LEMMA KeepsAnswers ==
  ASSUME NEW ns, NEW ms, \A key \in Key : KeepsValue(ns, ms, key)
  PROVE  AnswersOn(ms) = AnswersOn(ns)
BY DEF AnswersOn, KeepsValue

\* What the policy makes of a full root.
LEMMA PolicyGood ==
  ASSUME Sound(nodes, table), Good(nodes), IsTree(nodes'), RunFlushPolicy
  PROVE  Good(nodes') /\ AnswersOn(nodes') = AnswersOn(nodes)
<1>1. Full /\ IsTree(nodes)
  BY DEF RunFlushPolicy, Sound, Version
<1>2. PolicyCases
  BY <1>1, PolicyFacts
<1>3. CASE Policy.kind = "Grow" /\ Grow
  BY <1>3, GrowGood, KeepsAnswers
<1>4. CASE Policy.kind = "Flush" /\ Flush(Policy.parent, Policy.slot)
  <2>1. PICK ref \in DOMAIN nodes :
          /\ Policy = [kind |-> "Flush", parent |-> ref, slot |-> BiggestSlot(nodes[ref])]
          /\ ~IsLeaf(nodes[ref])
    BY <1>2, <1>4 DEF PolicyCases
  <2>. DEFINE slot == BiggestSlot(nodes[ref])
  <2>2. slot \in 1 .. Len(nodes[ref].buckets)
    BY <1>1, <2>1, DownInTree
  <2>3. Flush(ref, slot)
    BY <1>4, <2>1
  <2>. HIDE DEF slot
  <2>. QED  BY <2>1, <2>2, <2>3, FlushGood, KeepsAnswers
<1>5. CASE Policy.kind = "Split" /\ Split(Policy.parent, Policy.slot)
  <2>1. PICK ref \in DOMAIN nodes :
          /\ Policy = [kind |-> "Split", parent |-> ref, slot |-> BiggestSlot(nodes[ref])]
          /\ ~IsLeaf(nodes[ref])
    BY <1>2, <1>5 DEF PolicyCases
  <2>. DEFINE slot == BiggestSlot(nodes[ref])
  <2>2. slot \in 1 .. Len(nodes[ref].buckets)
    BY <1>1, <2>1, DownInTree
  <2>3. Split(ref, slot)
    BY <1>5, <2>1
  <2>. HIDE DEF slot
  <2>. QED  BY <2>1, <2>2, <2>3, SplitGood, KeepsAnswers
<1>6. CASE Policy.kind = "Repivot" /\ RepivotLeaf(Policy.ref)
  <2>1. PICK ref \in DOMAIN nodes :
          /\ Policy = [kind |-> "Repivot", ref |-> ref]
          /\ IsLeaf(nodes[ref]) /\ Len(nodes[ref].buckets) = 1 /\ Heavy(ref)
    BY <1>2, <1>6 DEF PolicyCases
  <2>2. RepivotLeaf(ref)
    BY <1>6, <2>1
  <2>. QED  BY <2>1, <2>2, RepivotGood, KeepsAnswers
<1>. QED  BY <1>3, <1>4, <1>5, <1>6 DEF RunFlushPolicy

\* An insertion is a write to the map, and nothing else changes an answer.
Writes ==
  \E key \in Key, value \in Value :
    Insert(key, value) /\ AnswersOn(nodes') = [AnswersOn(nodes) EXCEPT ![key] = value]

\* A step of the tree writes the map or leaves it.
LEMMA TreeStepGood ==
  ASSUME Sound(nodes, table), Good(nodes), TreeStep
  PROVE  Good(nodes') /\ (Writes \/ AnswersOn(nodes') = AnswersOn(nodes))
<1>1. IsTree(nodes) /\ IsTree(nodes')
  BY TreeStepSound DEF Sound, Version
<1>2. CASE \E key \in Key, value \in Value : Insert(key, value)
  <2>1. PICK key \in Key, value \in Value : Insert(key, value)
    BY <1>2
  <2>2. /\ Good(nodes')
        /\ \A k \in Key : k # key => KeepsValue(nodes, nodes', k)
        /\ ValueOn(nodes')[Root][key] = value
    BY <1>1, <2>1, InsertGood
  <2>3. AnswersOn(nodes') = [AnswersOn(nodes) EXCEPT ![key] = value]
    <3>. DEFINE v == ValueOn(nodes)[Root]  w == ValueOn(nodes')[Root]
    <3>1. w[key] = value /\ \A k \in Key : k # key => w[k] = v[k]
      BY <2>2 DEF KeepsValue
    <3>. HIDE DEF v, w
    <3>2. [k \in Key |-> w[k]] = [[k \in Key |-> v[k]] EXCEPT ![key] = value]
      BY <3>1
    <3>. QED  BY <3>2 DEF AnswersOn, v, w
  <2>. QED  BY <2>1, <2>2, <2>3 DEF Writes
<1>3. CASE RunFlushPolicy
  BY <1>1, <1>3, PolicyGood
<1>4. CASE Dealloc
  <2>1. PICK ref \in FindDeallocable(table) :
          nodes' = Without(nodes, ref) /\ table' = RemoveRef(table, ref)
    BY <1>4 DEF Dealloc
  <2>. QED  BY <1>1, <2>1, DeallocGood, KeepsAnswers
<1>. QED  BY <1>2, <1>3, <1>4 DEF TreeStep

-----------------------------------------------------------------------------
\* The invariant of the searches: those of all three versions end, and find
\* what is there.

MapInv ==
  /\ Good(nodes)
  /\ frozen # None => Good(frozen.nodes)
  /\ Good(persistent.nodes)

\* In the initial tree no key has been written.
LEMMA InitGood ==
  ASSUME Init
  PROVE  MapInv /\ IsTree(nodes) /\ AnswersOn(nodes) = [key \in Key |-> DefaultValue]
<1>. DEFINE root == Root  ns == Put(<<>>, root, EmptyNode)
<1>1. nodes = ns /\ persistent.nodes = ns /\ frozen = None
  BY DEF Init
<1>2. IsTree(nodes)
  BY InitInv DEF IInv, Sound, Version
<1>3. DOMAIN ns = {root} /\ ns[root] = EmptyNode
  BY DEF Put
<1>. HIDE DEF ns
<1>4. EmptyNode.children = <<>> /\ EmptyNode.pivotTable = InitPivotTable
  BY DEF EmptyNode
<1>5. Acyclic(ns)
  <2>. DEFINE rank == [r \in {root} |-> 0]
  <2>1. Ranked(ns, rank)
    BY <1>3, <1>4 DEF Ranked
  <2>. QED  BY <2>1 DEF Acyclic
<1>6. [EmptyNode EXCEPT !.children = <<>>] = EmptyNode
  BY DEF EmptyNode
<1>7. /\ ContainsAllKeys(EmptyNode.pivotTable)
      /\ \A k \in Key : /\ BoundedKey(EmptyNode.pivotTable, k)
                        /\ BucketAt(EmptyNode, k) = EmptyBucket
  <2>. DEFINE cs == <<>>  q == [EmptyNode EXCEPT !.children = cs]
  <2>1. cs = <<>>
    OBVIOUS
  <2>. HIDE DEF cs
  <2>2. /\ ContainsAllKeys(q.pivotTable)
        /\ \A k \in Key : BoundedKey(q.pivotTable, k) /\ BucketAt(q, k) = EmptyBucket
    BY <2>1, OneSlot
  <2>3. q = EmptyNode
    BY <1>6, <2>1
  <2>. QED  BY <2>2, <2>3
<1>8. Searchable(ns)
  BY <1>3, <1>4, <1>7 DEF Searchable, root
<1>9. Good(ns)
  BY <1>5, <1>8 DEF Good
<1>10. ASSUME NEW key \in Key
       PROVE  ValueOn(ns)[root][key] = DefaultValue
  <2>1. ValueOn(ns)[root][key] = StepValue(EmptyNode, ValueOn(ns), key)
    BY <1>1, <1>2, <1>3, <1>5, <1>7, ValueStep
  <2>. HIDE DEF ValueOn
  <2>2. StepValue(EmptyNode, ValueOn(ns), key) = DefaultValue
    BY <1>4, <1>7, EmptyIsBucket DEF StepValue, IsLeaf
  <2>. QED  BY <2>1, <2>2
<1>11. AnswersOn(ns) = [key \in Key |-> DefaultValue]
  BY <1>10 DEF AnswersOn, root
<1>. QED  BY <1>1, <1>2, <1>9, <1>11 DEF MapInv

\* A step writes the map or leaves it, but for a recovery.
LEMMA StepGood ==
  ASSUME IInv, MapInv, [Next]_vars
  PROVE  MapInv' /\ (Writes \/ AnswersOn(nodes') = AnswersOn(nodes) \/ Recover)
<1>1. CASE TreeStep
  <2>1. Sound(nodes, table) /\ Good(nodes)
    BY DEF IInv, MapInv
  <2>2. Good(nodes') /\ (Writes \/ AnswersOn(nodes') = AnswersOn(nodes))
    BY <1>1, <2>1, TreeStepGood
  <2>3. frozen' = frozen /\ persistent' = persistent
    BY <1>1, <2>1, TreeStepSound
  <2>. QED  BY <2>2, <2>3 DEF MapInv
<1>2. CASE WriteToEvict
  <2>1. /\ nodes' = nodes /\ persistent' = persistent
        /\ frozen' # None => frozen # None /\ frozen'.nodes = frozen.nodes
    <3>1. PICK ref : Written(ref)
      BY <1>2 DEF WriteToEvict
    <3>2. frozen' = IF frozen = None THEN None
                    ELSE [frozen EXCEPT !.table = AddLocIfPresent(@, ref)]
      BY <3>1 DEF Written
    <3>3. frozen # None => frozen = [table |-> frozen.table, nodes |-> frozen.nodes]
      BY DEF IInv, FrozenOK
    <3>. QED  BY <1>2, <3>2, <3>3 DEF WriteToEvict
  <2>. QED  BY <2>1 DEF MapInv
<1>3. CASE Freeze
  BY <1>3 DEF Freeze, MapInv
<1>4. CASE WriteFrozenNode
  <2>1. frozen # None /\ frozen = [table |-> frozen.table, nodes |-> frozen.nodes]
    BY <1>4 DEF WriteFrozenNode, IInv, FrozenOK
  <2>2. nodes' = nodes /\ persistent' = persistent /\ frozen'.nodes = frozen.nodes
    <3>. DEFINE after == [frozen EXCEPT !.table = FindRefWithNoLoc(@)]
    <3>1. \/ \E found : frozen' = [after EXCEPT !.table = AddLocIfPresent(@, found)]
          \/ frozen' = after
      BY <1>4 DEF WriteFrozenNode
    <3>2. after = [table |-> after.table, nodes |-> frozen.nodes]
      BY <2>1
    <3>. HIDE DEF after
    <3>. QED  BY <1>4, <3>1, <3>2 DEF WriteFrozenNode
  <2>. QED  BY <2>1, <2>2 DEF MapInv
<1>5. CASE WriteFrozenTable
  BY <1>5 DEF WriteFrozenTable, MapInv
<1>6. CASE Recover
  BY <1>6 DEF Recover, MapInv
<1>7. CASE UNCHANGED vars
  BY <1>7 DEF vars, MapInv
<1>. QED  BY <1>1, <1>2, <1>3, <1>4, <1>5, <1>6, <1>7 DEF Next, TreeStep

\* In every state the searches of all three versions end, and find what is there.
THEOREM SearchesEnd == Spec => []MapInv
<1>1. Init => MapInv
  BY InitGood
<1>2. IInv /\ MapInv /\ [Next]_vars => MapInv'
  BY StepGood
<1>. QED  BY <1>1, <1>2, Invariance, PTL DEF Spec

\* The answers of the tree are those of the nodes in memory, before and after a step.
LEMMA AnswersAre == Answers = AnswersOn(nodes) /\ Answers' = AnswersOn(nodes')
<1>1. Answers = AnswersOn(nodes)
  BY QueryIsIter DEF Answers, AnswersOn, ValueOn
<1>2. (Answers = AnswersOn(nodes))'
  BY <1>1, PTL
<1>. QED  BY <1>1, <1>2 DEF AnswersOn

\* The tree is a map: an insertion is a write to the map, of that value at that
\* key, and no other step but a crash changes an answer.
THEOREM TreeIsMap == Spec => ImplementsMap
<1>1. Init => Map!Init
  <2>1. Answers = AnswersOn(nodes)
    BY AnswersAre
  <2>. QED  BY <2>1, InitGood DEF Map!Init
<1>2. IInv /\ MapInv /\ [Next]_vars =>
        [\/ \E key \in Key, value \in Value : Insert(key, value) /\ Map!Write(key, value)
         \/ Answers' = Answers
         \/ Recover]_vars
  <2>1. Answers = AnswersOn(nodes) /\ Answers' = AnswersOn(nodes')
    BY AnswersAre
  <2>. HIDE DEF AnswersOn
  <2>. QED  BY <2>1, StepGood DEF Writes, Map!Write
<1>. QED  BY <1>1, <1>2, Invariance, SearchesEnd, PTL DEF Spec, ImplementsMap

-----------------------------------------------------------------------------
\* What the policy chooses can be done

\* The biggest bucket of a node with messages has one.
LEMMA BiggestHolds ==
  ASSUME NEW node, WFNode(node), NodeWeight(node) >= 2
  PROVE  node.buckets[BiggestSlot(node)] # EmptyBucket
<1>. DEFINE slot == BiggestSlot(node)  n == Len(node.buckets)
<1>. SUFFICES ASSUME node.buckets[slot] = EmptyBucket
              PROVE  FALSE
  OBVIOUS
<1>1. \A j \in 1 .. n : BucketWeight(node.buckets[j]) <= BucketWeight(node.buckets[slot])
  BY BiggestSlotFacts
<1>2. BucketWeight(node.buckets[slot]) = 0
  BY EmptyIsBucket, FS_EmptySet DEF BucketWeight
<1>. HIDE DEF slot
<1>3. ASSUME NEW j \in 1 .. n
      PROVE  DOMAIN node.buckets[j] = {}
  <2>. DEFINE b == node.buckets[j]
  <2>1. b \in Bucket
    BY WithinSlot
  <2>. HIDE DEF b
  <2>2. IsFiniteSet(DOMAIN b) /\ BucketWeight(b) \in Nat
    BY <2>1, BucketFacts, WeightTyped
  <2>3. BucketWeight(b) <= 0
    BY <1>1, <1>2 DEF b
  <2>4. Cardinality(DOMAIN b) = 0
    BY <2>2, <2>3 DEF BucketWeight
  <2>5. DOMAIN b = {}
    BY <2>2, <2>4, FS_EmptySet
  <2>. QED  BY <2>5 DEF b
<1>4. DOMAIN node.buckets = 1 .. n
  BY PartsOfNode, PartsTyped
<1>5. MessagesOf(node) = {}
  BY <1>3, <1>4 DEF MessagesOf
<1>6. NodeWeight(node) = 0
  BY <1>5, FS_EmptySet DEF NodeWeight
<1>. QED  BY <1>6

\* The messages of a slot fit the child there.
LEMMA SlotBounded ==
  ASSUME NEW node, WFNode(node), NEW slot \in 1 .. Len(node.buckets),
         NEW child, WFNode(child), Fits(child, node.pivotTable[slot], node.pivotTable[slot + 1])
  PROVE  BucketBounded(node.buckets[slot], child.pivotTable)
<1>. DEFINE from == node.pivotTable[slot]  to == node.pivotTable[slot + 1]
<1>1. from \in Int /\ to \in Int
  BY BoundsOfNode
<1>2. \A k \in DOMAIN node.buckets[slot] : k \in Nat /\ from <= k /\ k < to
  BY WithinSlot
<1>. HIDE DEF from, to
<1>3. Fits(child, from, to)
  BY DEF from, to
<1>4. \A key \in Nat : from <= key /\ key < to => BoundedKey(child.pivotTable, key)
  BY <1>1, <1>3, FitsCovers
<1>. QED  BY <1>2, <1>4 DEF BucketBounded

\* A child with several buckets has a pivot within its slot.
LEMMA PivotInside ==
  ASSUME NEW node, WFNode(node), Len(node.buckets) # 1,
         NEW from \in Int, NEW to \in Int, Fits(node, from, to)
  PROVE  from < node.pivotTable[2] /\ node.pivotTable[2] < to
<1>. DEFINE pt == node.pivotTable  n == Len(node.buckets)
<1>1. /\ n \in Nat /\ n >= 1 /\ n # 1 /\ Last(pt) \in 0 .. NumKeys
      /\ \A i \in 1 .. n :
           /\ pt[i] \in 0 .. NumKeys /\ pt[i + 1] \in 0 .. NumKeys
           /\ pt[i] < pt[i + 1] /\ pt[1] <= pt[i] /\ pt[i + 1] <= Last(pt)
  BY BoundsOfNode
<1>2. CASE pt[1] = from /\ Last(pt) = to
  <2>. HIDE DEF pt, n
  <2>1. 1 \in 1 .. n /\ 2 \in 1 .. n /\ 1 + 1 = 2
    BY <1>1
  <2>2. pt[1] < pt[2]
    BY <1>1, <2>1
  <2>3. /\ pt[2] \in 0 .. NumKeys /\ pt[2 + 1] \in 0 .. NumKeys
        /\ pt[2] < pt[2 + 1] /\ pt[2 + 1] <= Last(pt)
    BY <1>1, <2>1
  <2>4. pt[2] < Last(pt)
    BY <1>1, <2>3, KeyAssumption
  <2>5. from < pt[2] /\ pt[2] < to
    BY <1>2, <2>2, <2>4
  <2>. QED  BY <2>5 DEF pt
<1>3. CASE from < pt[2] /\ pt[2] < to
  BY <1>3
<1>. QED  BY <1>2, <1>3 DEF Fits

\* A node with a pivot between the bounds has two buckets or more when cut there.
LEMMA CutKeepsTwo ==
  ASSUME NEW node, WFNode(node), Len(node.buckets) # 1,
         NEW cut, WFNode(cut), Narrowed(cut, node),
         cut.pivotTable[1] < node.pivotTable[2], node.pivotTable[2] < Last(cut.pivotTable)
  PROVE  Len(cut.buckets) >= 2
<1>. DEFINE pt == node.pivotTable  n == Len(node.buckets)
            qt == cut.pivotTable  m == Len(cut.buckets)
<1>1. n \in Nat /\ n >= 1 /\ \A i \in 1 .. n : pt[i] \in 0 .. NumKeys /\ pt[i + 1] \in 0 .. NumKeys
  BY BoundsOfNode
<1>2. m \in Nat /\ m >= 1 /\ Len(qt) = m + 1 /\ Last(qt) = qt[Len(qt)]
  BY BoundsOfNode
<1>3. qt[1] \in 0 .. NumKeys /\ Last(qt) \in 0 .. NumKeys
  BY BoundsOfNode
<1>. SUFFICES ASSUME m = 1
              PROVE  FALSE
  <2>. HIDE DEF m
  <2>1. m \in Nat /\ m >= 1 /\ m # 1
    BY <1>2
  <2>2. m >= 2
    BY <2>1
  <2>. QED  BY <2>2 DEF m
<1>4. 1 \in 1 .. m /\ Last(qt) = qt[1 + 1]
  <2>. HIDE DEF qt, m
  <2>. QED  BY <1>2
<1>5. PICK i \in 1 .. n : PartOfSlot(cut, 1, node, i)
  BY <1>4 DEF Narrowed
<1>6. pt[i] <= qt[1] /\ qt[1 + 1] <= pt[i + 1]
  BY <1>5 DEF PartOfSlot
<1>7. pt[i] < pt[2] /\ pt[2] < pt[i + 1]
  <2>1. pt[i] \in 0 .. NumKeys /\ pt[i + 1] \in 0 .. NumKeys
    BY <1>1
  <2>2. pt[2] \in 0 .. NumKeys
    <3>1. 1 \in 1 .. n /\ 1 + 1 = 2
      BY <1>1
    <3>. QED  BY <1>1, <3>1
  <2>3. qt[1] < pt[2] /\ pt[2] < Last(qt)
    OBVIOUS
  <2>. HIDE DEF pt, qt
  <2>. QED  BY <1>3, <1>4, <1>6, <2>1, <2>2, <2>3, KeyAssumption
<1>8. \A j, k \in 1 .. (n + 1) : j < k => pt[j] < pt[k]
  <2>1. Parts(pt, node.children, node.buckets)
    BY PartsOfNode
  <2>. HIDE DEF pt
  <2>2. \A j, k \in 1 .. Len(pt) : j < k => pt[j] < pt[k]
    BY <2>1, PivotsAscend
  <2>3. Len(pt) = n + 1
    BY <2>1, PartsTyped
  <2>. QED  BY <2>2, <2>3
<1>9. /\ pt[2] \in Int /\ pt[i] \in Int /\ pt[i + 1] \in Int
  <2>1. 1 \in 1 .. n /\ 1 + 1 = 2
    BY <1>1
  <2>. QED  BY <1>1, <2>1
<1>. HIDE DEF pt, n
<1>10. CASE i = 1
  <2>1. pt[i + 1] = pt[2]
    BY <1>10
  <2>. QED  BY <1>7, <1>9, <2>1
<1>11. CASE i # 1
  <2>1. 2 \in 1 .. (n + 1) /\ i \in 1 .. (n + 1) /\ (2 = i \/ 2 < i)
    BY <1>1, <1>11
  <2>2. pt[2] = pt[i] \/ pt[2] < pt[i]
    BY <1>8, <2>1
  <2>. QED  BY <1>7, <1>9, <2>2
<1>. QED  BY <1>10, <1>11

\* The slot of a node, as bounds at which it and its child may be cut.
LEMMA SplitKeys ==
  ASSUME NEW node, WFNode(node), NEW from \in Nat, NEW to \in 0 .. NumKeys, from < to,
         node.pivotTable[1] <= from, to <= Last(node.pivotTable)
  PROVE  ValidSplitKey(node.pivotTable, from, to)
<1>. DEFINE a == node.pivotTable[1]  b == Last(node.pivotTable)
<1>1. a \in 0 .. NumKeys /\ b \in 0 .. NumKeys
  BY BoundsOfNode
<1>. HIDE DEF a, b
<1>2. a <= from /\ to <= b
  BY DEF a, b
<1>3. /\ a <= from /\ from < b /\ a < to /\ to <= b
      /\ to = NumKeys => b = NumKeys
  BY <1>1, <1>2, KeyAssumption
<1>. QED  BY <1>3 DEF ValidSplitKey, BoundedKey, ValidLeftCutOffKey, a, b

\* A split that the policy chooses passes all checks of bounds.
LEMMA SplitPossible ==
  ASSUME IsTree(nodes), Searchable(nodes), NEW parent \in DOMAIN nodes, ~IsLeaf(nodes[parent]),
         NEW slot \in 1 .. Len(nodes[parent].buckets),
         Len(nodes[nodes[parent].children[slot]].buckets) # 1
  PROVE  SplitAllowed(parent, slot)
<1>. DEFINE node == nodes[parent]  D == DOMAIN nodes  child == nodes[node.children[slot]]
            pt == node.pivotTable  from == pt[slot]  to == pt[slot + 1]
            cut == CutoffNode(child, from, to)
<1>1. /\ WFNode(node) /\ WFNode(child) /\ child.children \in Seq(D)
      /\ slot \in 1 .. Len(node.children)
  BY ChildInTree
<1>2. Fits(child, from, to)
  <2>1. slot \in DOMAIN node.children
    BY <1>1 DEF IsTree
  <2>. QED  BY <2>1 DEF Searchable, SlotFits
<1>3. /\ from \in 0 .. NumKeys /\ to \in 0 .. NumKeys /\ from < to
      /\ pt[1] <= from /\ to <= Last(pt)
  BY <1>1, BoundsOfNode
<1>4. CutChild(parent, slot) = cut
  BY DEF CutChild
<1>. HIDE DEF child, from, to, D
<1>5. from \in Nat /\ to \in Nat /\ from \in Int /\ to \in Int
  BY <1>3, KeyAssumption
<1>6. child.pivotTable[1] <= from /\ to <= Last(child.pivotTable)
  BY <1>1, <1>2, <1>5, FitsCovers
<1>7. ValidSplitKey(child.pivotTable, from, to)
  BY <1>1, <1>3, <1>5, <1>6, SplitKeys
<1>8. ValidSplitKey(pt, from, to)
  <2>. HIDE DEF node
  <2>. QED  BY <1>1, <1>3, <1>5, SplitKeys
<1>9. /\ WFNode(cut) /\ Narrowed(cut, child)
      /\ cut.pivotTable[1] = from /\ Last(cut.pivotTable) = to
  <2>1. Cuttable(child.pivotTable, from, to)
    BY <1>7 DEF ValidSplitKey, Cuttable
  <2>2. CutBetween(D, child, from, to, CutoffNode(child, from, to))
    BY <1>1, <1>5, <2>1, CutoffNodeFacts
  <2>. QED  BY <2>2 DEF CutBetween
<1>. HIDE DEF cut
<1>10. Len(child.buckets) # 1
  BY DEF child
<1>11. from < child.pivotTable[2] /\ child.pivotTable[2] < to
  BY <1>1, <1>2, <1>5, <1>10, PivotInside
<1>12. Len(cut.buckets) >= 2
  BY <1>1, <1>9, <1>10, <1>11, CutKeepsTwo
<1>. DEFINE qt == cut.pivotTable  m == Len(cut.buckets)  half == m \div 2 + 1
<1>13. /\ m \in Nat /\ Len(qt) = m + 1 /\ Last(qt) = qt[Len(qt)]
       /\ \A i \in 1 .. m : qt[i] \in 0 .. NumKeys /\ qt[i + 1] \in 0 .. NumKeys
  BY <1>9, BoundsOfNode
<1>14. \A i, j \in 1 .. Len(qt) : i < j => qt[i] < qt[j]
  <2>1. Parts(qt, cut.children, cut.buckets)
    BY <1>9, PartsOfNode
  <2>. QED  BY <2>1, PivotsAscend
<1>15. from < qt[half] /\ qt[half] < to
  <2>1. half \in 1 .. Len(qt) /\ 1 < half /\ half < Len(qt) /\ 1 \in 1 .. Len(qt) /\ Len(qt) \in 1 .. Len(qt)
    <3>. HIDE DEF m, qt
    <3>1. m \in Nat /\ m >= 2
      BY <1>12, <1>13 DEF m
    <3>2. m \div 2 >= 1 /\ m \div 2 + 1 < m + 1 /\ m \div 2 \in Nat
      BY <3>1
    <3>. QED  BY <1>13, <3>1, <3>2
  <2>. HIDE DEF half, m
  <2>2. qt[1] < qt[half] /\ qt[half] < qt[Len(qt)]
    BY <1>14, <2>1
  <2>. QED  BY <1>9, <1>13, <2>2
<1>16. PivotInsertable(pt, slot + 1, qt[half])
  <2>. HIDE DEF half, qt, pt
  <2>1. (slot + 1) - 1 = slot
    <3>1. slot \in Int
      BY <1>1, BoundsOfNode
    <3>. QED  BY <3>1
  <2>. QED  BY <1>15, <2>1 DEF PivotInsertable, from, to
<1>17. Len(qt) # 2
  BY <1>12, <1>13
<1>. QED  BY <1>4, <1>6, <1>7, <1>8, <1>16, <1>17 DEF SplitAllowed, child, from, to

\* Both parts of a repivoted leaf hold something.
LEMMA RepivotPossible ==
  ASSUME NEW ref, WFNode(nodes[ref]), Len(nodes[ref].buckets) = 1, Heavy(ref)
  PROVE  /\ RepivotAllowed(ref)
         /\ EmptyBucket \notin Range(RepivotedLeaf(nodes[ref]).buckets)
<1>. DEFINE node == nodes[ref]  b == node.buckets[1]  mid == getMiddleKey(b)
            lo == SplitBucketLeft(b, mid)  hi == SplitBucketRight(b, mid)
<1>1. NodeWeight(node) >= 2
  BY HeavyWeighs
<1>2. b \in Bucket /\ BucketWeight(b) >= 2
  BY <1>1, OneBucketWeight
<1>3. /\ Len(node.pivotTable) = 2 /\ Last(node.pivotTable) = node.pivotTable[1 + 1]
  <2>1. /\ Len(node.pivotTable) = Len(node.buckets) + 1
        /\ Last(node.pivotTable) = node.pivotTable[Len(node.pivotTable)]
    BY BoundsOfNode
  <2>. QED  BY <2>1
<1>4. RepivotAllowed(ref)
  <2>1. \A k \in DOMAIN b : node.pivotTable[1] <= k /\ k < node.pivotTable[1 + 1]
    BY WithinSlot
  <2>. QED  BY <1>3, <2>1 DEF RepivotAllowed, BucketBounded, BoundedKey
<1>5. RepivotedLeaf(node).buckets = <<lo, hi>>
  BY DEF RepivotedLeaf
<1>. HIDE DEF b
<1>6. mid \in DOMAIN b /\ \E k \in DOMAIN b : k < mid
  BY <1>2, MiddleKeyInside
<1>7. mid \in Nat
  BY <1>2, <1>6, BucketFacts
<1>8. /\ DOMAIN lo = {k \in DOMAIN b : k < mid}
      /\ DOMAIN hi = {k \in DOMAIN b : k >= mid}
  BY <1>2, <1>7, SplitBucketFacts
<1>. HIDE DEF mid, lo, hi
<1>9. lo # EmptyBucket /\ hi # EmptyBucket
  <2>1. DOMAIN lo # {} /\ DOMAIN hi # {}
    BY <1>6, <1>7, <1>8
  <2>. QED  BY <2>1, EmptyIsBucket
<1>10. Range(<<lo, hi>>) = {lo, hi}
  BY DEF Range
<1>. QED  BY <1>4, <1>5, <1>9, <1>10

\* With a full root, what the policy chooses can be done.
LEMMA ChoicePossible ==
  ASSUME IInv, MapInv, Full
  PROVE  PolicyMakesProgress
<1>1. IsTree(nodes) /\ Searchable(nodes)
  BY DEF IInv, Sound, Version, MapInv, Good
<1>2. PolicyCases
  BY <1>1, PolicyFacts
<1>3. CASE Policy.kind \in {"Fail", "Grow"}
  <2>1. GrowAllowed
    BY <1>1 DEF GrowAllowed, Searchable
  <2>. QED  BY <1>3, <2>1 DEF PolicyMakesProgress
<1>4. ASSUME NEW ref \in DOMAIN nodes,
             Policy = [kind |-> "Flush", parent |-> ref, slot |-> BiggestSlot(nodes[ref])],
             ~IsLeaf(nodes[ref]), Heavy(ref)
      PROVE  PolicyMakesProgress
  <2>. DEFINE slot == BiggestSlot(nodes[ref])  node == nodes[ref]
  <2>1. slot \in 1 .. Len(node.buckets)
    BY <1>1, <1>4, DownInTree
  <2>2. node.buckets[slot] # EmptyBucket
    <3>1. WFNode(node)
      BY <1>1 DEF IsTree
    <3>2. NodeWeight(node) >= 2
      BY <1>4, <3>1, HeavyWeighs
    <3>. QED  BY <3>1, <3>2, BiggestHolds
  <2>3. Policy.kind = "Flush" /\ Policy.parent = ref /\ Policy.slot = slot
    BY <1>4
  <2>. HIDE DEF slot
  <2>4. /\ WFNode(node) /\ WFNode(nodes[node.children[slot]])
        /\ slot \in DOMAIN node.children
    <3>1. WFNode(node) /\ WFNode(nodes[node.children[slot]]) /\ slot \in 1 .. Len(node.children)
      BY <1>1, <1>4, <2>1, ChildInTree
    <3>2. DOMAIN node.children = 1 .. Len(node.children)
      BY <1>1 DEF IsTree
    <3>. QED  BY <3>1, <3>2
  <2>5. Fits(nodes[node.children[slot]], node.pivotTable[slot], node.pivotTable[slot + 1])
    BY <1>1, <2>4 DEF Searchable, SlotFits
  <2>6. FlushAllowed(ref, slot)
    BY <2>1, <2>4, <2>5, SlotBounded DEF FlushAllowed
  <2>. QED  BY <2>2, <2>3, <2>6 DEF PolicyMakesProgress
<1>5. ASSUME NEW ref \in DOMAIN nodes,
             Policy = [kind |-> "Split", parent |-> ref, slot |-> BiggestSlot(nodes[ref])],
             ~IsLeaf(nodes[ref]), Len(nodes[Down(ref)].buckets) # 1
      PROVE  PolicyMakesProgress
  <2>. DEFINE slot == BiggestSlot(nodes[ref])
  <2>1. slot \in 1 .. Len(nodes[ref].buckets)
    BY <1>1, <1>5, DownInTree
  <2>2. Len(nodes[nodes[ref].children[slot]].buckets) # 1
    BY <1>5 DEF Down
  <2>3. Policy.kind = "Split" /\ Policy.parent = ref /\ Policy.slot = slot
    BY <1>5
  <2>. HIDE DEF slot
  <2>4. SplitAllowed(ref, slot)
    BY <1>1, <1>5, <2>1, <2>2, SplitPossible
  <2>. QED  BY <2>3, <2>4 DEF PolicyMakesProgress
<1>6. ASSUME NEW ref \in DOMAIN nodes, Policy = [kind |-> "Repivot", ref |-> ref],
             Len(nodes[ref].buckets) = 1, Heavy(ref)
      PROVE  PolicyMakesProgress
  <2>1. WFNode(nodes[ref])
    BY <1>1 DEF IsTree
  <2>2. Policy.kind = "Repivot" /\ Policy.ref = ref
    BY <1>6
  <2>. QED  BY <1>6, <2>1, <2>2, RepivotPossible DEF PolicyMakesProgress
<1>. QED  BY <1>2, <1>3, <1>4, <1>5, <1>6 DEF PolicyCases

\* Whenever the root is full, what the policy chooses can be done.
THEOREM ProgressPossible == Spec => []PolicyMakesProgress
<1>1. IInv /\ MapInv => PolicyMakesProgress
  <2>1. Full \/ ~Full
    OBVIOUS
  <2>2. ~Full => PolicyMakesProgress
    BY DEF PolicyMakesProgress
  <2>. QED  BY <2>1, <2>2, ChoicePossible
<1>. QED  BY <1>1, Invariance, SearchesEnd, PTL

-----------------------------------------------------------------------------
\* Queries that go down only so far

\* A search that ends early finds nothing, and otherwise what is there.
LEMMA QueryFinds ==
  ASSUME NEW ns, IsTree(ns), Acyclic(ns), NEW n \in Nat
  PROVE  \A ref \in DOMAIN ns, key \in Key :
           IterOn(ns)[n][ref][key] \in {None, ValueOn(ns)[ref][key]}
<1>. DEFINE f == IterOn(ns)  v == ValueOn(ns)
            T == {m \in Nat : \A ref \in DOMAIN ns, key \in Key : f[m][ref][key] \in {None, v[ref][key]}}
<1>1. DOMAIN ns \subseteq Ref
  BY DEF IsTree
<1>2. 0 \in T
  <2>. HIDE DEF v
  <2>. QED  BY <1>1, IterFacts
<1>3. ASSUME NEW m \in 0 .. (n - 1), m \in T
      PROVE  m + 1 \in T
  <2>1. m \in Nat /\ m + 1 \in Nat /\ f[m + 1] = Level(ns, f[m])
    BY IterFacts
  <2>2. \A ref \in DOMAIN ns, key \in Key : f[m][ref][key] \in {None, v[ref][key]}
    BY <1>3
  <2>. HIDE DEF f, v
  <2>3. ASSUME NEW ref \in DOMAIN ns, NEW key \in Key
        PROVE  f[m + 1][ref][key] \in {None, v[ref][key]}
    <3>1. f[m + 1][ref][key] =
            IF ~Passing(ns, ref, key) THEN None ELSE StepValue(ns[ref], f[m], key)
      BY <1>1, <2>1 DEF Level
    <3>2. CASE ~Passing(ns, ref, key)
      BY <3>1, <3>2
    <3>3. CASE Passing(ns, ref, key)
      <4>1. BoundedKey(ns[ref].pivotTable, key)
        BY <3>3 DEF Passing
      <4>2. v[ref][key] = StepValue(ns[ref], v, key)
        BY <4>1, ValueStep DEF v
      <4>3. ~IsLeaf(ns[ref]) => ChildAt(ns[ref], key) \in DOMAIN ns
        BY <4>1, RoutedChild DEF Key
      <4>4. StepValue(ns[ref], f[m], key) \in {None, StepValue(ns[ref], v, key)}
        BY <2>2, <4>3 DEF StepValue
      <4>. QED  BY <3>1, <3>3, <4>2, <4>4
    <3>. QED  BY <3>2, <3>3
  <2>. QED  BY <2>1, <2>3 DEF f, v
<1>4. n \in T
  <2>. HIDE DEF T
  <2>1. \A m \in 0 .. n : m \in T
    BY <1>2, <1>3, Induction
  <2>2. n \in 0 .. n
    OBVIOUS
  <2>. QED  BY <2>1, <2>2
<1>. QED  BY <1>4

-----------------------------------------------------------------------------
\* The paths of range queries

Path == [msgs : Bucket, upTo : Pivot]
Paths == [Ref -> [Key -> Path \cup {None}]]

LeafPath(ref, key) == [msgs |-> BucketFor(ref, key), upTo |-> BoundFor(ref, key)]

Joined(ref, key, below) ==
  [msgs |-> Over(BucketFor(ref, key), below.msgs), upTo |-> UpTo(BoundFor(ref, key), below.upTo)]

\* One node of a path, above those below.
PathStep(f, ref, key) ==
  IF ~Passable(ref, key) THEN None
  ELSE IF IsLeaf(nodes[ref]) THEN LeafPath(ref, key)
  ELSE IF f[ChildFor(ref, key)][key] = None THEN None
  ELSE Joined(ref, key, f[ChildFor(ref, key)][key])

PathLevel(f) == [ref \in Ref |-> [key \in Key |-> PathStep(f, ref, key)]]

NoPaths == [ref \in Ref |-> [key \in Key |-> None]]

\* As many nodes above the leaf as the counter says.
PathVisit(f, counter) ==
  [ref \in Ref |-> [key \in Key |->
     IF ~Passable(ref, key) THEN None
     ELSE IF IsLeaf(nodes[ref]) THEN LeafPath(ref, key)
     ELSE IF counter = 0 THEN None
     ELSE LET below == f[counter - 1][ChildFor(ref, key)][key]
          IN  IF below = None THEN None ELSE Joined(ref, key, below)]]

PathOn == CHOOSE f : f = [counter \in Nat |-> PathVisit(f, counter)]

\* The recursive path is the iteration on the nodes in memory.
LEMMA PathIsIter == getPath = PathOn
  BY DEF getPath, PathOn, PathVisit, LeafPath, Joined

\* The slot of a key in a node: its bounds, its bucket and its child.
LEMMA SlotOfKey ==
  ASSUME IsTree(nodes), NEW ref \in Ref, NEW key \in Key, Passable(ref, key)
  PROVE  /\ ref \in DOMAIN nodes /\ BoundedKey(nodes[ref].pivotTable, key)
         /\ BucketFor(ref, key) \in Bucket /\ BucketFor(ref, key) = BucketAt(nodes[ref], key)
         /\ ChildFor(ref, key) = ChildAt(nodes[ref], key)
         /\ ~IsLeaf(nodes[ref]) => ChildFor(ref, key) \in DOMAIN nodes /\ ChildFor(ref, key) \in Ref
         /\ BoundFor(ref, key) \in Pivot /\ BoundFor(ref, key) \in Nat /\ key < BoundFor(ref, key)
<1>. DEFINE node == nodes[ref]  r == Route(node.pivotTable, key)
<1>1. ref \in DOMAIN nodes /\ BoundedKey(node.pivotTable, key) /\ key \in Nat
  BY DEF Passable, Key
<1>2. /\ WFNode(node) /\ BucketAt(node, key) \in Bucket
      /\ ~IsLeaf(node) => ChildAt(node, key) \in DOMAIN nodes
  BY <1>1, RoutedChild
<1>3. r \in 1 .. Len(node.buckets) /\ key < node.pivotTable[r + 1]
  BY <1>1, <1>2, RouteInNode
<1>. HIDE DEF r
<1>4. node.pivotTable[r + 1] \in 0 .. NumKeys
  BY <1>2, <1>3, BoundsOfNode
<1>5. DOMAIN nodes \subseteq Ref
  BY DEF IsTree
<1>6. BoundFor(ref, key) = node.pivotTable[r + 1]
  BY DEF BoundFor, r
<1>7. BoundFor(ref, key) \in Pivot /\ BoundFor(ref, key) \in Nat
  BY <1>4, <1>6, KeyAssumption DEF Pivot
<1>. QED  BY <1>1, <1>2, <1>3, <1>5, <1>6, <1>7 DEF BucketFor, BucketAt, ChildFor, ChildAt

\* The least of two bounds.
LEMMA UpToFacts ==
  ASSUME NEW a \in Pivot, NEW b \in Pivot
  PROVE  UpTo(a, b) \in Pivot /\ UpTo(a, b) <= a /\ UpTo(a, b) <= b /\ UpTo(a, b) \in {a, b}
BY KeyAssumption DEF UpTo, Pivot

\* The messages of a node over those of a path are a path.
LEMMA JoinedTyped ==
  ASSUME IsTree(nodes), NEW ref \in Ref, NEW key \in Key, Passable(ref, key), NEW below \in Path
  PROVE  Joined(ref, key, below) \in Path
<1>. DEFINE msgs == below.msgs  upTo == below.upTo
<1>1. msgs \in Bucket /\ upTo \in Pivot
  BY DEF Path
<1>2. BucketFor(ref, key) \in Bucket /\ BoundFor(ref, key) \in Pivot
  BY SlotOfKey
<1>. HIDE DEF msgs, upTo
<1>3. Over(BucketFor(ref, key), msgs) \in Bucket
  BY <1>1, <1>2, OverFacts
<1>4. UpTo(BoundFor(ref, key), upTo) \in Pivot
  BY <1>1, <1>2, UpToFacts
<1>. QED  BY <1>3, <1>4 DEF Joined, Path, msgs, upTo

\* One more step of all paths gives paths again.
LEMMA PathLevelTyped ==
  ASSUME IsTree(nodes), NEW f \in Paths
  PROVE  PathLevel(f) \in Paths
<1>1. ASSUME NEW ref \in Ref, NEW key \in Key
      PROVE  PathStep(f, ref, key) \in Path \cup {None}
  <2>1. CASE ~Passable(ref, key)
    BY <2>1 DEF PathStep
  <2>2. CASE Passable(ref, key) /\ IsLeaf(nodes[ref])
    <3>1. LeafPath(ref, key) \in Path
      BY <2>2, SlotOfKey DEF LeafPath, Path
    <3>. QED  BY <2>2, <3>1 DEF PathStep
  <2>3. CASE Passable(ref, key) /\ ~IsLeaf(nodes[ref])
    <3>. DEFINE below == f[ChildFor(ref, key)][key]
    <3>1. ChildFor(ref, key) \in Ref
      BY <2>3, SlotOfKey
    <3>2. below \in Path \cup {None}
      <4>. HIDE DEF Path
      <4>. QED  BY <3>1 DEF Paths
    <3>3. below # None => Joined(ref, key, below) \in Path
      <4>. HIDE DEF below
      <4>. QED  BY <2>3, <3>2, JoinedTyped
    <3>4. PathStep(f, ref, key) = IF below = None THEN None ELSE Joined(ref, key, below)
      BY <2>3 DEF PathStep
    <3>. HIDE DEF below
    <3>. QED  BY <3>3, <3>4
  <2>. QED  BY <2>1, <2>2, <2>3
<1>. QED  BY <1>1 DEF PathLevel, Paths

\* The paths have their recursive equation.
LEMMA PathFacts ==
  ASSUME IsTree(nodes)
  PROVE  /\ NoPaths \in Paths /\ getPath[0] = PathLevel(NoPaths)
         /\ \A n \in Nat : getPath[n] \in Paths
         /\ \A n \in Nat : getPath[n + 1] = PathLevel(getPath[n])
<1>. DEFINE base == PathLevel(NoPaths)
            step == [f \in Paths |-> PathLevel(f)]
            W(f) == f = [counter \in Nat |-> PathVisit(f, counter)]
            h == CHOOSE f : W(f)
<1>1. NoPaths \in Paths /\ base \in Paths
  <2>1. NoPaths \in Paths
    BY DEF Paths, NoPaths
  <2>. QED  BY <2>1, PathLevelTyped
<1>2. step \in [Paths -> Paths]
  BY PathLevelTyped
<1>3. ASSUME NEW f
      PROVE  PathVisit(f, 0) = base
  <2>1. \A ref \in Ref, key \in Key :
          Passable(ref, key) /\ ~IsLeaf(nodes[ref]) =>
            ChildFor(ref, key) \in Ref
    BY SlotOfKey
  <2>2. \A ref \in Ref, key \in Key : NoPaths[ref][key] = None
    BY DEF NoPaths
  <2>3. \A ref \in Ref, key \in Key :
          PathStep(NoPaths, ref, key) =
            IF ~Passable(ref, key) THEN None
            ELSE IF IsLeaf(nodes[ref]) THEN LeafPath(ref, key) ELSE None
    BY <2>1, <2>2 DEF PathStep
  <2>. QED  BY <2>3 DEF PathVisit, PathLevel
<1>. HIDE DEF base, step
<1>4. PICK g \in [Nat -> Paths] :
        g[0] = base /\ \A n \in Nat : g[n + 1] = step[g[n]]
  <2>1. base \in Paths
    BY <1>1
  <2>. QED  BY <1>2, <2>1, EndlessIterationExists
<1>5. ASSUME NEW f, NEW n \in Nat
      PROVE  PathVisit(f, n + 1) = PathLevel(f[n])
  <2>1. n + 1 # 0 /\ (n + 1) - 1 = n
    OBVIOUS
  <2>. DEFINE m == n + 1
  <2>. HIDE DEF m
  <2>2. m # 0 /\ m - 1 = n
    BY <2>1 DEF m
  <2>3. \A ref \in Ref, key \in Key :
          PathStep(f[n], ref, key) =
            IF ~Passable(ref, key) THEN None
            ELSE IF IsLeaf(nodes[ref]) THEN LeafPath(ref, key)
            ELSE IF m = 0 THEN None
            ELSE LET below == f[m - 1][ChildFor(ref, key)][key]
                 IN  IF below = None THEN None ELSE Joined(ref, key, below)
    BY <2>2 DEF PathStep
  <2>4. PathVisit(f, m) = PathLevel(f[n])
    BY <2>3 DEF PathVisit, PathLevel
  <2>. QED  BY <2>4 DEF m
<1>6. ASSUME NEW n \in Nat
      PROVE  g[n] = PathVisit(g, n)
  <2>1. CASE n = 0
    BY <1>3, <1>4, <2>1
  <2>2. CASE n # 0
    <3>. DEFINE m == n - 1
    <3>1. m \in Nat /\ m + 1 = n
      BY <2>2
    <3>. HIDE DEF m
    <3>2. g[m] \in Paths /\ g[m + 1] = step[g[m]]
      BY <1>4, <3>1
    <3>3. step[g[m]] = PathLevel(g[m])
      BY <3>2 DEF step
    <3>4. PathVisit(g, m + 1) = PathLevel(g[m])
      BY <1>5, <3>1
    <3>. QED  BY <3>1, <3>2, <3>3, <3>4
  <2>. QED  BY <2>1, <2>2
<1>7. W(g)
  <2>. DEFINE r == [counter \in Nat |-> PathVisit(g, counter)]
  <2>1. \A n \in Nat : g[n] = r[n]
    BY <1>6
  <2>2. g = [n \in Nat |-> g[n]] /\ r = [n \in Nat |-> r[n]]
    OBVIOUS
  <2>. HIDE DEF r
  <2>3. g = r
    BY <2>1, <2>2, Zenon
  <2>. QED  BY <2>3 DEF r
<1>. HIDE DEF W
<1>8. W(h)
  BY <1>7, Zenon
<1>. HIDE DEF h
<1>9. getPath = h
  BY PathIsIter DEF PathOn, W, h
<1>10. \A n \in Nat : h[n] = PathVisit(h, n)
  <2>1. h = [counter \in Nat |-> PathVisit(h, counter)]
    BY <1>8 DEF W
  <2>. QED  BY <2>1, Zenon
<1>11. h[0] = base
  BY <1>3, <1>10
<1>12. \A n \in Nat : h[n + 1] = PathLevel(h[n])
  <2>1. \A n \in Nat : n + 1 \in Nat
    OBVIOUS
  <2>. QED  BY <1>5, <1>10, <2>1
<1>13. ASSUME NEW n \in Nat
       PROVE  h[n] \in Paths
  <2>. DEFINE T == {k \in Nat : h[k] \in Paths}
  <2>1. 0 \in T
    BY <1>1, <1>11
  <2>2. ASSUME NEW k \in 0 .. (n - 1), k \in T
        PROVE  k + 1 \in T
    <3>1. k \in Nat /\ k + 1 \in Nat /\ h[k] \in Paths
      BY <2>2
    <3>2. PathLevel(h[k]) \in Paths
      BY <3>1, PathLevelTyped
    <3>. QED  BY <3>1, <3>2, <1>12
  <2>. HIDE DEF T
  <2>3. \A k \in 0 .. n : k \in T
    BY <2>1, <2>2, Induction
  <2>4. n \in T
    BY <2>3
  <2>. QED  BY <2>4 DEF T
<1>. QED  BY <1>1, <1>9, <1>11, <1>12, <1>13 DEF base

\* From the key up to the bound, a path has all there is to find from the node.
Faithful(path, ref, key) ==
  /\ path \in Path /\ key < path.upTo
  /\ \A k \in Key : key <= k /\ k < path.upTo =>
       /\ BoundedKey(nodes[ref].pivotTable, k)
       /\ ValueOn(nodes)[ref][k] = IF k \in DOMAIN path.msgs THEN path.msgs[k] ELSE DefaultValue

AllFaithful(f) ==
  \A ref \in DOMAIN nodes, key \in Key : f[ref][key] # None => Faithful(f[ref][key], ref, key)

\* The keys of a slot from a key on are in the same slot.
LEMMA SameSlot ==
  ASSUME IsTree(nodes), Acyclic(nodes), NEW ref \in Ref, NEW key \in Key, Passable(ref, key),
         NEW k \in Key, key <= k, k < BoundFor(ref, key)
  PROVE  /\ BoundedKey(nodes[ref].pivotTable, k)
         /\ ValueOn(nodes)[ref][k] =
              IF k \in DOMAIN BucketFor(ref, key) THEN BucketFor(ref, key)[k]
              ELSE IF IsLeaf(nodes[ref]) THEN DefaultValue
              ELSE ValueOn(nodes)[ChildFor(ref, key)][k]
<1>. DEFINE node == nodes[ref]  pt == node.pivotTable  r == Route(pt, key)
<1>1. ref \in DOMAIN nodes /\ BoundedKey(pt, key) /\ key \in Nat /\ k \in Nat
  BY DEF Passable, Key
<1>2. WFNode(node)
  BY <1>1 DEF IsTree
<1>3. InSlot(pt, r, key) /\ BoundFor(ref, key) = pt[r + 1] /\ r \in 1 .. Len(node.buckets)
  BY <1>1, <1>2, RouteInNode DEF BoundFor
<1>4. pt[r] \in 0 .. NumKeys /\ pt[r + 1] \in 0 .. NumKeys
  BY <1>2, <1>3, BoundsOfNode
<1>5. InSlot(pt, r, k)
  <2>. HIDE DEF pt, r
  <2>1. r \in 1 .. (Len(pt) - 1) /\ pt[r] <= key
    BY <1>3 DEF InSlot
  <2>2. pt[r] <= k /\ k < pt[r + 1]
    BY <1>1, <1>3, <1>4, <2>1, KeyAssumption
  <2>. QED  BY <2>1, <2>2 DEF InSlot
<1>6. BoundedKey(pt, k) /\ Route(pt, k) = r
  <2>1. Parts(pt, node.children, node.buckets)
    BY <1>2, PartsOfNode
  <2>. HIDE DEF node, r
  <2>. QED  BY <1>1, <1>5, <2>1, SlotIsRoute
<1>7. ValueOn(nodes)[ref][k] = StepValue(node, ValueOn(nodes), k)
  BY <1>1, <1>6, ValueStep
<1>8. BucketAt(node, k) = BucketFor(ref, key) /\ ChildAt(node, k) = ChildFor(ref, key)
  BY <1>6 DEF BucketAt, BucketFor, ChildAt, ChildFor
<1>. HIDE DEF ValueOn
<1>. QED  BY <1>6, <1>7, <1>8 DEF StepValue, ValueOn

\* A path that goes on from a faithful one is faithful.
LEMMA StepFaithful ==
  ASSUME IsTree(nodes), Acyclic(nodes), NEW f \in Paths, AllFaithful(f)
  PROVE  AllFaithful(PathLevel(f))
<1>. SUFFICES ASSUME NEW ref \in DOMAIN nodes, NEW key \in Key, PathStep(f, ref, key) # None
              PROVE  Faithful(PathStep(f, ref, key), ref, key)
  <2>1. DOMAIN nodes \subseteq Ref
    BY DEF IsTree
  <2>2. \A ref \in DOMAIN nodes, key \in Key : PathLevel(f)[ref][key] = PathStep(f, ref, key)
    BY <2>1 DEF PathLevel
  <2>. QED  BY <2>2 DEF AllFaithful
<1>1. ref \in Ref /\ Passable(ref, key)
  BY DEF IsTree, PathStep
<1>. DEFINE b == BucketFor(ref, key)  bound == BoundFor(ref, key)
<1>2. b \in Bucket /\ bound \in Pivot /\ key < bound
  BY <1>1, SlotOfKey
<1>3. ASSUME NEW k \in Key, key <= k, k < bound
      PROVE  /\ BoundedKey(nodes[ref].pivotTable, k)
             /\ ValueOn(nodes)[ref][k] =
                  IF k \in DOMAIN b THEN b[k]
                  ELSE IF IsLeaf(nodes[ref]) THEN DefaultValue
                  ELSE ValueOn(nodes)[ChildFor(ref, key)][k]
  BY <1>1, <1>3, SameSlot
<1>. HIDE DEF ValueOn, Path
<1>4. CASE IsLeaf(nodes[ref])
  <2>1. PathStep(f, ref, key) = [msgs |-> b, upTo |-> bound]
    BY <1>1, <1>4 DEF PathStep, LeafPath
  <2>2. [msgs |-> b, upTo |-> bound] \in Path
    BY <1>2 DEF Path
  <2>. HIDE DEF b, bound
  <2>. QED  BY <1>2, <1>3, <1>4, <2>1, <2>2 DEF Faithful
<1>5. CASE ~IsLeaf(nodes[ref])
  <2>. DEFINE c == ChildFor(ref, key)  below == f[c][key]
              msgs == below.msgs  upTo == below.upTo
  <2>1. c \in DOMAIN nodes /\ below # None /\ PathStep(f, ref, key) = Joined(ref, key, below)
    BY <1>1, <1>5, SlotOfKey DEF PathStep
  <2>2. Faithful(below, c, key)
    BY <2>1 DEF AllFaithful
  <2>. HIDE DEF below
  <2>3. below \in Path /\ msgs \in Bucket /\ upTo \in Pivot /\ key < upTo
    BY <2>2 DEF Faithful, Path
  <2>4. Joined(ref, key, below) = [msgs |-> Over(b, msgs), upTo |-> UpTo(bound, upTo)]
    BY DEF Joined
  <2>5. Joined(ref, key, below) \in Path
    BY <1>1, <2>3, JoinedTyped
  <2>6. /\ UpTo(bound, upTo) \in Pivot /\ UpTo(bound, upTo) <= bound /\ UpTo(bound, upTo) <= upTo
        /\ UpTo(bound, upTo) \in {bound, upTo}
    BY <1>2, <2>3, UpToFacts
  <2>7. /\ DOMAIN Over(b, msgs) = DOMAIN b \cup DOMAIN msgs
        /\ \A k \in DOMAIN b : Over(b, msgs)[k] = b[k]
        /\ \A k \in DOMAIN msgs : k \notin DOMAIN b => Over(b, msgs)[k] = msgs[k]
    BY <1>2, <2>3, OverFacts
  <2>. DEFINE all == Over(b, msgs)  end == UpTo(bound, upTo)
  <2>8. ASSUME NEW k \in Key, key <= k, k < end
        PROVE  /\ BoundedKey(nodes[ref].pivotTable, k)
               /\ ValueOn(nodes)[ref][k] = IF k \in DOMAIN all THEN all[k] ELSE DefaultValue
    <3>1. k < bound /\ k < upTo
      <4>. HIDE DEF bound, upTo, end
      <4>1. end \in Nat /\ bound \in Nat /\ upTo \in Nat /\ k \in Nat
        BY <1>2, <2>3, <2>6, KeyAssumption DEF Pivot, Key, end
      <4>2. end <= bound /\ end <= upTo
        BY <2>6 DEF end
      <4>. QED  BY <2>8, <4>1, <4>2
    <3>2. ValueOn(nodes)[c][k] = IF k \in DOMAIN msgs THEN msgs[k] ELSE DefaultValue
      BY <2>2, <2>8, <3>1 DEF Faithful
    <3>3. /\ BoundedKey(nodes[ref].pivotTable, k)
          /\ ValueOn(nodes)[ref][k] = IF k \in DOMAIN b THEN b[k] ELSE ValueOn(nodes)[c][k]
      BY <1>3, <1>5, <2>8, <3>1
    <3>. HIDE DEF b, msgs, c, bound, upTo
    <3>. QED  BY <2>7, <3>2, <3>3
  <2>9. key < end
    BY <1>2, <2>3, <2>6
  <2>. HIDE DEF all, end
  <2>10. Joined(ref, key, below) = [msgs |-> all, upTo |-> end]
    BY <2>4 DEF all, end
  <2>. QED  BY <2>1, <2>5, <2>8, <2>9, <2>10 DEF Faithful
<1>. QED  BY <1>4, <1>5

\* All paths are faithful: up to its bound a path has what the map has.
LEMMA PathsFaithful ==
  ASSUME IsTree(nodes), Acyclic(nodes), NEW n \in Nat
  PROVE  AllFaithful(getPath[n])
<1>. DEFINE T == {m \in Nat : AllFaithful(getPath[m])}
<1>1. 0 \in T
  <2>1. AllFaithful(NoPaths)
    BY DEF AllFaithful, NoPaths, IsTree
  <2>2. getPath[0] = PathLevel(NoPaths) /\ NoPaths \in Paths
    BY PathFacts
  <2>3. AllFaithful(PathLevel(NoPaths))
    BY <2>1, <2>2, StepFaithful
  <2>. QED  BY <2>2, <2>3
<1>2. ASSUME NEW m \in 0 .. (n - 1), m \in T
      PROVE  m + 1 \in T
  <2>1. m \in Nat /\ m + 1 \in Nat /\ AllFaithful(getPath[m])
    BY <1>2
  <2>2. getPath[m] \in Paths /\ getPath[m + 1] = PathLevel(getPath[m])
    BY <2>1, PathFacts
  <2>3. AllFaithful(PathLevel(getPath[m]))
    BY <2>1, <2>2, StepFaithful
  <2>. QED  BY <2>1, <2>2, <2>3
<1>3. n \in T
  <2>. HIDE DEF T
  <2>1. \A m \in 0 .. n : m \in T
    BY <1>1, <1>2, Induction
  <2>2. n \in 0 .. n
    OBVIOUS
  <2>. QED  BY <2>1, <2>2
<1>. QED  BY <1>3

-----------------------------------------------------------------------------
\* What is found on a path is what the map has

\* The keys of a path that are results, were there no limit.
Found(start, path) ==
  {k \in DOMAIN path.msgs : /\ start.key < k \/ (start.inclusive /\ start.key = k)
                            /\ k < path.upTo /\ path.msgs[k] # DefaultValue}

\* The keys that are found, in ascending order.
LEMMA FoundFacts ==
  ASSUME NEW start \in [key : Key, inclusive : BOOLEAN], NEW path \in Path
  PROVE  LET S == Found(start, path)
             keys == Ascending(S)
         IN  /\ keys \in Seq(S) /\ Len(keys) \in Nat
             /\ \A i \in 1 .. Len(keys) :
                  /\ keys[i] \in Key /\ keys[i] \in Nat /\ keys[i] \in DOMAIN path.msgs
                  /\ path.msgs[keys[i]] # DefaultValue
                  /\ start.key < keys[i] \/ (start.inclusive /\ start.key = keys[i])
                  /\ keys[i] < path.upTo
             /\ \A i, j \in 1 .. Len(keys) : i < j => keys[i] < keys[j]
             /\ \A k \in S : \E i \in 1 .. Len(keys) : keys[i] = k
<1>. DEFINE S == Found(start, path)  keys == Ascending(S)  b == path.msgs
<1>1. b \in Bucket
  BY DEF Path
<1>2. DOMAIN b \subseteq Key /\ DOMAIN b \subseteq Nat /\ IsFiniteSet(DOMAIN b)
  <2>. HIDE DEF b
  <2>. QED  BY <1>1, BucketFacts
<1>3. S \subseteq DOMAIN b
  BY DEF Found
<1>4. \A k \in S : /\ k \in Key /\ k \in Nat /\ k \in DOMAIN path.msgs
                   /\ path.msgs[k] # DefaultValue
                   /\ start.key < k \/ (start.inclusive /\ start.key = k)
                   /\ k < path.upTo
  BY <1>2 DEF Found
<1>. HIDE DEF S, b
<1>5. S \in SUBSET Int /\ IsFiniteSet(S)
  BY <1>2, <1>3, FS_Subset
<1>6. /\ keys \in Seq(S) /\ Len(keys) = Cardinality(S) /\ Cardinality(S) \in Nat
      /\ \A i, j \in 1 .. Cardinality(S) : i < j => keys[i] < keys[j]
      /\ \A k \in S : \E i \in 1 .. Cardinality(S) : keys[i] = k
  BY <1>5, AscendingFacts
<1>. HIDE DEF keys
<1>7. \A i \in 1 .. Len(keys) : keys[i] \in S
  BY <1>6, ElementOfSeq
<1>. QED  BY <1>4, <1>6, <1>7 DEF S, keys

\* As many of the keys as asked for, and up to where they are all there are.
Taken(keys, maxToFind) == IF Len(keys) < maxToFind THEN Len(keys) ELSE maxToFind

EndOf(keys, maxToFind, upTo) ==
  IF Len(keys) < maxToFind THEN [key |-> upTo, inclusive |-> FALSE]
  ELSE [key |-> keys[Taken(keys, maxToFind)], inclusive |-> TRUE]

ResultsOf(keys, maxToFind, msgs) ==
  [i \in 1 .. Taken(keys, maxToFind) |-> [key |-> keys[i], value |-> msgs[keys[i]]]]

\* The keys taken are those before the end.
EndsAfter(keys, upTo, len, end) ==
  /\ len \in Nat /\ \A i \in 1 .. len : i \in 1 .. Len(keys)
  /\ \A i \in 1 .. len : keys[i] < end.key \/ (end.inclusive /\ keys[i] = end.key)
  /\ \A k \in Nat : k < end.key \/ (end.inclusive /\ k = end.key) => k < upTo
  /\ \A i \in 1 .. Len(keys) :
       keys[i] < end.key \/ (end.inclusive /\ keys[i] = end.key) => i \in 1 .. len
  /\ \/ end.key = upTo /\ ~end.inclusive
     \/ end.inclusive /\ \E i \in 1 .. len : end.key = keys[i]

\* Taking the first of the keys ends after the last of them.
LEMMA TakenFacts ==
  ASSUME NEW upTo \in Nat, NEW keys, Len(keys) \in Nat,
         \A i \in 1 .. Len(keys) : keys[i] \in Nat /\ keys[i] < upTo,
         \A i, j \in 1 .. Len(keys) : i < j => keys[i] < keys[j],
         NEW maxToFind \in Nat, maxToFind >= 1
  PROVE  EndsAfter(keys, upTo, Taken(keys, maxToFind), EndOf(keys, maxToFind, upTo))
<1>. DEFINE n == Len(keys)  len == Taken(keys, maxToFind)
            end == EndOf(keys, maxToFind, upTo)
<1>1. CASE n < maxToFind
  <2>1. len = n /\ end.key = upTo /\ end.inclusive = FALSE
    BY <1>1 DEF Taken, EndOf
  <2>. HIDE DEF end, len
  <2>. QED  BY <2>1 DEF EndsAfter, end, len
<1>2. CASE ~(n < maxToFind)
  <2>1. len = maxToFind /\ end.key = keys[len] /\ end.inclusive = TRUE
    BY <1>2 DEF Taken, EndOf
  <2>. HIDE DEF end, len
  <2>2. len \in Nat /\ len >= 1 /\ len <= n /\ len \in 1 .. n /\ len \in 1 .. len
    BY <1>2, <2>1
  <2>3. keys[len] \in Nat /\ keys[len] < upTo
    BY <2>2
  <2>4. ASSUME NEW i \in 1 .. len
        PROVE  i \in 1 .. n /\ (keys[i] < keys[len] \/ keys[i] = keys[len])
    <3>1. i \in 1 .. n /\ (i = len \/ i < len)
      BY <2>2
    <3>. QED  BY <2>2, <3>1
  <2>5. ASSUME NEW i \in 1 .. n, keys[i] < keys[len] \/ keys[i] = keys[len]
        PROVE  i \in 1 .. len
    <3>1. CASE len < i
      <4>1. keys[len] < keys[i]
        BY <2>2, <3>1
      <4>2. keys[i] \in Nat
        OBVIOUS
      <4>. QED  BY <2>3, <2>5, <4>1, <4>2
    <3>2. CASE ~(len < i)
      BY <2>2, <3>2
    <3>. QED  BY <3>1, <3>2
  <2>6. \A k \in Nat : k < keys[len] \/ k = keys[len] => k < upTo
    BY <2>3
  <2>. QED  BY <2>1, <2>2, <2>4, <2>5, <2>6 DEF EndsAfter, end, len, n
<1>. QED  BY <1>1, <1>2

\* What is taken from a path that has what the map has answers the range query.
LEMMA RangeAnswered ==
  ASSUME NEW start \in [key : Key, inclusive : BOOLEAN], NEW maxToFind \in 1 .. NumKeys,
         NEW path \in Path, start.key < path.upTo,
         \A k \in Key : start.key <= k /\ k < path.upTo =>
           Answers[k] = IF k \in DOMAIN path.msgs THEN path.msgs[k] ELSE DefaultValue
  PROVE  LET answer == GetSuccessorInBucketStack(start, maxToFind, path)
         IN  Map!SuccAnswer(start, answer.results, answer.end)
<1>. DEFINE S == Found(start, path)  keys == Ascending(S)  upTo == path.upTo
            len == Taken(keys, maxToFind)  end == EndOf(keys, maxToFind, upTo)
            results == ResultsOf(keys, maxToFind, path.msgs)
            answer == GetSuccessorInBucketStack(start, maxToFind, path)
<1>1. answer.results = results /\ answer.end = end
  BY DEF GetSuccessorInBucketStack, Found, ResultsOf, EndOf, Taken
<1>2. /\ Len(keys) \in Nat
      /\ \A i \in 1 .. Len(keys) :
           /\ keys[i] \in Key /\ keys[i] \in Nat /\ keys[i] \in DOMAIN path.msgs
           /\ path.msgs[keys[i]] # DefaultValue
           /\ start.key < keys[i] \/ (start.inclusive /\ start.key = keys[i])
           /\ keys[i] < path.upTo
      /\ \A i, j \in 1 .. Len(keys) : i < j => keys[i] < keys[j]
      /\ \A k \in S : \E i \in 1 .. Len(keys) : keys[i] = k
  BY FoundFacts
<1>3. upTo \in Nat /\ maxToFind \in Nat /\ maxToFind >= 1 /\ start.key \in Nat
  BY KeyAssumption DEF Path, Pivot, Key
<1>. HIDE DEF answer, keys
<1>4. /\ len \in Nat /\ \A i \in 1 .. len : i \in 1 .. Len(keys)
      /\ \A i \in 1 .. len : keys[i] < end.key \/ (end.inclusive /\ keys[i] = end.key)
      /\ \A k \in Nat : k < end.key \/ (end.inclusive /\ k = end.key) => k < upTo
      /\ \A i \in 1 .. Len(keys) :
           keys[i] < end.key \/ (end.inclusive /\ keys[i] = end.key) => i \in 1 .. len
      /\ \/ end.key = upTo /\ ~end.inclusive
         \/ end.inclusive /\ \E i \in 1 .. len : end.key = keys[i]
  <2>1. \A i \in 1 .. Len(keys) : keys[i] \in Nat /\ keys[i] < upTo
    BY <1>2
  <2>2. EndsAfter(keys, upTo, len, end)
    BY <1>2, <1>3, <2>1, TakenFacts
  <2>. QED  BY <2>2 DEF EndsAfter
<1>5. /\ DOMAIN results = 1 .. len
      /\ \A i \in 1 .. len : results[i].key = keys[i] /\ results[i].value = path.msgs[keys[i]]
  BY DEF ResultsOf
<1>. HIDE DEF len, end, results, S
<1>6. Map!NonEmptyRange(start, end)
  <2>1. CASE end.key = upTo
    BY <2>1 DEF Map!NonEmptyRange
  <2>2. CASE end.inclusive /\ \E i \in 1 .. len : end.key = keys[i]
    BY <1>2, <1>4, <2>2 DEF Map!NonEmptyRange
  <2>. QED  BY <1>4, <2>1, <2>2
<1>7. ASSUME NEW i \in 1 .. len
      PROVE  /\ Map!InRange(start, results[i].key, end)
             /\ results[i].value = Answers[results[i].key] /\ results[i].value # DefaultValue
  <2>. DEFINE k == keys[i]
  <2>1. /\ k \in Key /\ k \in Nat /\ k \in DOMAIN path.msgs /\ path.msgs[k] # DefaultValue
        /\ start.key < k \/ (start.inclusive /\ start.key = k)
        /\ k < path.upTo /\ (k < end.key \/ (end.inclusive /\ k = end.key))
    BY <1>2, <1>4
  <2>2. results[i].key = k /\ results[i].value = path.msgs[k]
    BY <1>5
  <2>. HIDE DEF k
  <2>3. start.key <= k
    BY <1>3, <2>1
  <2>4. Answers[k] = path.msgs[k]
    BY <2>1, <2>3
  <2>. QED  BY <2>1, <2>2, <2>4 DEF Map!InRange
<1>8. ASSUME NEW i \in 1 .. len, NEW j \in 1 .. len, i < j
      PROVE  results[i].key < results[j].key
  BY <1>2, <1>4, <1>5, <1>8
<1>9. ASSUME NEW key \in Key, Map!InRange(start, key, end), Answers[key] # DefaultValue
      PROVE  \E i \in 1 .. len : results[i].key = key
  <2>1. /\ start.key < key \/ (start.inclusive /\ start.key = key)
        /\ key < end.key \/ (end.inclusive /\ key = end.key)
    BY <1>9 DEF Map!InRange
  <2>2. key \in Nat
    BY DEF Key
  <2>3. start.key <= key /\ key < upTo
    BY <1>3, <1>4, <2>1, <2>2
  <2>4. Answers[key] = IF key \in DOMAIN path.msgs THEN path.msgs[key] ELSE DefaultValue
    BY <2>3
  <2>5. key \in S
    BY <1>9, <2>1, <2>3, <2>4 DEF S, Found
  <2>6. PICK i \in 1 .. Len(keys) : keys[i] = key
    BY <1>2, <2>5
  <2>7. i \in 1 .. len
    BY <1>4, <2>1, <2>6
  <2>. QED  BY <1>5, <2>6, <2>7
<1>10. Map!SuccAnswer(start, results, end)
  BY <1>5, <1>6, <1>7, <1>8, <1>9 DEF Map!SuccAnswer
<1>. QED  BY <1>1, <1>10 DEF answer

\* What queries and range queries answer is the value, or the range, of the map.
THEOREM AnswersCorrect == Spec => []QueriesAnswered
<1>. SUFFICES IInv /\ MapInv => QueriesAnswered
  BY Invariance, SearchesEnd, PTL
<1>. SUFFICES ASSUME IInv, MapInv
              PROVE  QueriesAnswered
  OBVIOUS
<1>1. IsTree(nodes) /\ Acyclic(nodes)
  BY DEF IInv, Sound, Version, MapInv, Good
<1>. DEFINE root == Root
<1>2. root \in DOMAIN nodes
  BY <1>1 DEF IsTree
<1>3. \A key \in Key : Answers[key] = ValueOn(nodes)[root][key]
  BY AnswersAre DEF AnswersOn
<1>. HIDE DEF root, ValueOn
<1>4. MaxLevels \in Nat
  BY TreeAssumption
<1>5. ASSUME NEW key \in Key
      PROVE  Query(key) \in {None, Answers[key]}
  <2>1. IterOn(nodes)[MaxLevels][root][key] \in {None, ValueOn(nodes)[root][key]}
    BY <1>1, <1>2, <1>4, QueryFinds
  <2>2. Query(key) = IterOn(nodes)[MaxLevels][root][key]
    BY QueryIsIter DEF Query, root
  <2>. QED  BY <1>3, <2>1, <2>2
<1>6. ASSUME NEW start \in [key : Key, inclusive : BOOLEAN], NEW maxToFind \in 1 .. NumKeys,
             Succ(start, maxToFind) # None
      PROVE  LET answer == Succ(start, maxToFind)
             IN  Map!SuccAnswer(start, answer.results, answer.end)
  <2>. DEFINE path == getPath[MaxLevels][root][start.key]
  <2>1. path # None /\ Succ(start, maxToFind) = GetSuccessorInBucketStack(start, maxToFind, path)
    BY <1>6 DEF Succ, root
  <2>2. start.key \in Key
    OBVIOUS
  <2>3. Faithful(path, root, start.key)
    BY <1>1, <1>2, <1>4, <2>1, <2>2, PathsFaithful DEF AllFaithful
  <2>. HIDE DEF path
  <2>4. /\ path \in Path /\ start.key < path.upTo
        /\ \A k \in Key : start.key <= k /\ k < path.upTo =>
             Answers[k] = IF k \in DOMAIN path.msgs THEN path.msgs[k] ELSE DefaultValue
    BY <1>3, <2>3 DEF Faithful
  <2>. QED  BY <2>1, <2>4, RangeAnswered
<1>. QED  BY <1>5, <1>6 DEF QueriesAnswered
=============================================================================
