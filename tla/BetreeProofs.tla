--------------------------- MODULE BetreeProofs ----------------------------
(***************************************************************************)
(* IInv is an inductive invariant of Betree: the nodes of every version    *)
(* are a tree, and the table counts exactly the references in it.          *)
(*                                                                         *)
(* First comes the table.  One whose counts are those of its entries stays *)
(* so through every operation, and so does its garbage queue; what the     *)
(* loops of UpdatePredCounts and ComputeRefCounts count is compared with   *)
(* the slots of a graph by their cardinalities.  Then the nodes: what each *)
(* operation on pivots, children and buckets makes of a well formed node.  *)
(* Then the graph of the nodes, in which every step puts new nodes,        *)
(* replaces the children of one, or takes out one that nothing refers to;  *)
(* and what each step does to the table.                                   *)
(***************************************************************************)
EXTENDS Betree, IterationProofs

USE RefAssumption DEF Ref, Root, End

-----------------------------------------------------------------------------
\* The slots of a graph that point to a reference

At(s, r) == {i \in DOMAIN s : s[i] = r}

AtUpTo(s, k, r) == {i \in 1 .. k : s[i] = r}

\* A graph is a function from references to sequences of references.
Edges(graph, r) == UNION {{p} \X At(graph[p], r) : p \in DOMAIN graph}

\* The positions of a reference in a sequence are finitely many.
LEMMA AtFinite ==
  ASSUME NEW s \in Seq(Ref), NEW r, NEW k \in 0 .. Len(s)
  PROVE  /\ At(s, r) = AtUpTo(s, Len(s), r)
         /\ IsFiniteSet(AtUpTo(s, k, r)) /\ Cardinality(AtUpTo(s, k, r)) \in Nat
         /\ Cardinality(AtUpTo(s, k, r)) <= Cardinality(AtUpTo(s, Len(s), r))
<1>1. At(s, r) = AtUpTo(s, Len(s), r)
  BY DEF At, AtUpTo
<1>2. IsFiniteSet(1 .. Len(s))
  BY FS_Interval
<1>3. AtUpTo(s, Len(s), r) \in SUBSET (1 .. Len(s))
  BY DEF AtUpTo
<1>4. IsFiniteSet(AtUpTo(s, Len(s), r))
  BY <1>2, <1>3, FS_Subset
<1>5. AtUpTo(s, k, r) \in SUBSET AtUpTo(s, Len(s), r)
  BY DEF AtUpTo
<1>6. /\ IsFiniteSet(AtUpTo(s, k, r))
      /\ Cardinality(AtUpTo(s, k, r)) <= Cardinality(AtUpTo(s, Len(s), r))
  BY <1>4, <1>5, FS_Subset
<1>. QED  BY <1>1, <1>6, FS_CardinalityType

\* One position more.
LEMMA AtUpToStep ==
  ASSUME NEW s \in Seq(Ref), NEW r, NEW k \in 0 .. (Len(s) - 1)
  PROVE  Cardinality(AtUpTo(s, k + 1, r)) =
           Cardinality(AtUpTo(s, k, r)) + (IF s[k + 1] = r THEN 1 ELSE 0)
<1>1. k \in 0 .. Len(s) /\ k \in Nat
  OBVIOUS
<1>2. IsFiniteSet(AtUpTo(s, k, r)) /\ Cardinality(AtUpTo(s, k, r)) \in Nat
  BY <1>1, AtFinite
<1>3. CASE s[k + 1] = r
  <2>1. AtUpTo(s, k + 1, r) = AtUpTo(s, k, r) \cup {k + 1}
    BY <1>1, <1>3 DEF AtUpTo
  <2>2. k + 1 \notin AtUpTo(s, k, r)
    BY <1>1 DEF AtUpTo
  <2>3. Cardinality(AtUpTo(s, k, r) \cup {k + 1}) = Cardinality(AtUpTo(s, k, r)) + 1
    BY <1>2, <2>2, FS_AddElement
  <2>. QED  BY <1>3, <2>1, <2>3
<1>4. CASE s[k + 1] # r
  <2>1. AtUpTo(s, k + 1, r) = AtUpTo(s, k, r)
    BY <1>1, <1>4 DEF AtUpTo
  <2>. QED  BY <1>2, <1>4, <2>1
<1>. QED  BY <1>3, <1>4

\* No position yet.
LEMMA AtUpToNone ==
  ASSUME NEW s, NEW r
  PROVE  Cardinality(AtUpTo(s, 0, r)) = 0
<1>1. AtUpTo(s, 0, r) = {}
  BY DEF AtUpTo
<1>. QED  BY <1>1, FS_EmptySet

\* A graph has finitely many slots.
LEMMA EdgesFinite ==
  ASSUME NEW D \in SUBSET Ref, NEW graph \in [D -> Seq(Ref)], NEW r
  PROVE  IsFiniteSet(Edges(graph, r)) /\ Cardinality(Edges(graph, r)) \in Nat
<1>. DEFINE slots == [p \in D |-> {p} \X At(graph[p], r)]
            U == {{p} \X At(graph[p], r) : p \in D}
<1>1. IsFiniteSet(D)
  <2>1. IsFiniteSet(0 .. MaxRef)
    BY FS_Interval
  <2>. QED  BY <2>1, FS_Subset
<1>2. slots \in [D -> U] /\ \A u \in U : \E p \in D : slots[p] = u
  OBVIOUS
<1>3. slots \in Surjection(D, U)
  BY <1>2, Fun_IsSurj
<1>4. IsFiniteSet(U)
  BY <1>1, <1>3, FS_Surjection
<1>5. ASSUME NEW p \in D
      PROVE  IsFiniteSet({p} \X At(graph[p], r))
  <2>1. graph[p] \in Seq(Ref)
    OBVIOUS
  <2>2. Len(graph[p]) \in 0 .. Len(graph[p])
    BY <2>1
  <2>3. IsFiniteSet(At(graph[p], r))
    BY <2>1, <2>2, AtFinite
  <2>4. IsFiniteSet({p})
    BY FS_Singleton
  <2>. QED  BY <2>3, <2>4, FS_Product
<1>6. \A u \in U : IsFiniteSet(u)
  BY <1>5
<1>7. IsFiniteSet(UNION U)
  BY <1>4, <1>6, FS_UNION
<1>8. Edges(graph, r) = UNION U
  BY DEF Edges
<1>. QED  BY <1>7, <1>8, FS_CardinalityType

\* They are those of one reference and those of all others.
LEMMA EdgesSplit ==
  ASSUME NEW D \in SUBSET Ref, NEW graph \in [D -> Seq(Ref)], NEW r, NEW p \in D
  PROVE  Cardinality(Edges(graph, r)) =
           Cardinality(Edges(Without(graph, p), r)) + Cardinality(At(graph[p], r))
<1>. DEFINE rest == Without(graph, p)
            own  == {p} \X At(graph[p], r)
<1>1. /\ rest \in [D \ {p} -> Seq(Ref)] /\ D \ {p} \in SUBSET Ref
      /\ \A q \in D \ {p} : rest[q] = graph[q]
  BY DEF Without, Restrict
<1>. HIDE DEF rest
<1>2. IsFiniteSet(Edges(rest, r)) /\ Cardinality(Edges(rest, r)) \in Nat
  BY <1>1, EdgesFinite
<1>3. /\ IsFiniteSet(At(graph[p], r)) /\ Cardinality(At(graph[p], r)) \in Nat
  <2>1. graph[p] \in Seq(Ref)
    OBVIOUS
  <2>2. Len(graph[p]) \in 0 .. Len(graph[p])
    BY <2>1
  <2>. QED  BY <2>1, <2>2, AtFinite
<1>4. IsFiniteSet(own) /\ Cardinality(own) = Cardinality(At(graph[p], r))
  <2>1. IsFiniteSet({p}) /\ Cardinality({p}) = 1
    BY FS_Singleton
  <2>2. IsFiniteSet(own) /\ Cardinality(own) = Cardinality({p}) * Cardinality(At(graph[p], r))
    BY <1>3, <2>1, FS_Product
  <2>. QED  BY <1>3, <2>1, <2>2
<1>5. Edges(graph, r) = Edges(rest, r) \cup own
  <2>1. \A e : e \in Edges(graph, r) <=> \E q \in D : e \in {q} \X At(graph[q], r)
    BY DEF Edges
  <2>2. \A e : e \in Edges(rest, r) <=>
                 \E q \in D \ {p} : e \in {q} \X At(graph[q], r)
    BY <1>1, ZenonT(30) DEF Edges
  <2>3. \A e : e \in Edges(graph, r) <=> e \in Edges(rest, r) \cup own
    BY <2>1, <2>2
  <2>. QED  BY <2>3, Zenon
<1>6. Edges(rest, r) \cap own = {}
  BY <1>1 DEF Edges
<1>. HIDE DEF own
<1>7. Cardinality(Edges(rest, r) \cup own) =
        Cardinality(Edges(rest, r)) + Cardinality(own) - Cardinality(Edges(rest, r) \cap own)
  BY <1>2, <1>4, FS_Union
<1>8. Cardinality({}) = 0
  BY FS_EmptySet
<1>9. Cardinality(Edges(graph, r)) =
        Cardinality(Edges(rest, r)) + Cardinality(At(graph[p], r)) - 0
  BY <1>4, <1>5, <1>6, <1>7, <1>8
<1>10. Cardinality(Edges(graph, r)) = Cardinality(Edges(rest, r)) + Cardinality(At(graph[p], r))
  BY <1>2, <1>3, <1>9
<1>. QED  BY <1>10 DEF rest

-----------------------------------------------------------------------------
\* One count more or less

Count(t, ref) == t.entries[ref].predCount

\* Tables in the middle of a loop, whose counts may be anything.
Counting(D) ==
  [entries : [D -> [hasLoc : BOOLEAN, succs : Seq(D), predCount : Int]],
   garbageQueue : Seq(D), refUpperBound : Ref,
   findLoclessIterator : Ref \cup {End, NoIterator}]

\* The queue holds what has no predecessor, once.
QueueMatches(t) ==
  /\ Distinct(t.garbageQueue)
  /\ Range(t.garbageQueue) = {r \in DOMAIN t.entries : Count(t, r) = 0}

\* Two tables that differ in nothing but counts and queue.
SameButCounts(t, u) ==
  /\ DOMAIN u.entries = DOMAIN t.entries
  /\ \A r \in DOMAIN t.entries : /\ u.entries[r].hasLoc = t.entries[r].hasLoc
                                 /\ u.entries[r].succs = t.entries[r].succs
  /\ u.refUpperBound = t.refUpperBound
  /\ u.findLoclessIterator = t.findLoclessIterator

\* A table is one whose counts are natural numbers.
LEMMA TableCounting ==
  ASSUME NEW D \in SUBSET Ref, NEW t
  PROVE  IsRefCountTable(t) /\ DOMAIN t.entries = D
           <=> t \in Counting(D) /\ \A r \in D : Count(t, r) \in Nat
<1>1. ASSUME IsRefCountTable(t), DOMAIN t.entries = D
      PROVE  t \in Counting(D) /\ \A r \in D : Count(t, r) \in Nat
  BY <1>1 DEF IsRefCountTable, Graphs, Counting, Count
<1>2. ASSUME t \in Counting(D), \A r \in D : Count(t, r) \in Nat
      PROVE  IsRefCountTable(t) /\ DOMAIN t.entries = D
  <2>1. DOMAIN t.entries = D
    BY <1>2 DEF Counting
  <2>2. t.entries \in Graphs(D)
    BY <1>2 DEF Counting, Graphs, Count
  <2>. QED  BY <1>2, <2>1, <2>2 DEF IsRefCountTable, Counting
<1>. QED  BY <1>1, <1>2

\* A predecessor more: a reference that had none leaves the queue.
LEMMA PredIncStep ==
  ASSUME NEW D, NEW t \in Counting(D), Distinct(t.garbageQueue), NEW ref \in D
  PROVE  LET u == PredInc(t, ref) IN
         /\ u \in Counting(D) /\ Distinct(u.garbageQueue) /\ SameButCounts(t, u)
         /\ \A r \in D : Count(u, r) = Count(t, r) + (IF r = ref THEN 1 ELSE 0)
         /\ QueueMatches(t) /\ (\A r \in D : Count(t, r) >= 0) => QueueMatches(u)
<1>. DEFINE u == PredInc(t, ref)
            q == IF Count(t, ref) = 0 THEN RemoveFirst(t.garbageQueue, ref)
                 ELSE t.garbageQueue
            n == Count(t, ref) + 1
<1>0. /\ t.garbageQueue \in Seq(D) /\ DOMAIN t.entries = D
      /\ \A r \in D : Count(t, r) \in Int
  BY DEF Counting, Count
<1>1. q \in Seq(D) /\ Distinct(q)
  BY <1>0, RemoveFirstFacts
<1>7. Range(q) = IF Count(t, ref) = 0 THEN Range(t.garbageQueue) \ {ref}
              ELSE Range(t.garbageQueue)
  BY <1>0, RemoveFirstFacts
<1>2. n \in Int
  BY <1>0
<1>3. u = [t EXCEPT !.entries[ref].predCount = n, !.garbageQueue = q]
  BY DEF PredInc, Count, Counting
<1>. HIDE DEF u, q, n
<1>4. /\ u \in Counting(D) /\ SameButCounts(t, u) /\ u.garbageQueue = q
      /\ Count(u, ref) = n /\ \A r \in D \ {ref} : Count(u, r) = Count(t, r)
  <2>1. u \in Counting(D)
    BY <1>1, <1>2, <1>3 DEF Counting
  <2>2. /\ u.garbageQueue = q /\ u.refUpperBound = t.refUpperBound
        /\ u.findLoclessIterator = t.findLoclessIterator
        /\ u.entries = [t.entries EXCEPT ![ref].predCount = n]
    BY <1>3 DEF Counting
  <2>3. t.entries \in [D -> [hasLoc : BOOLEAN, succs : Seq(D), predCount : Int]]
    BY DEF Counting
  <2>4. /\ \A r \in D : /\ u.entries[r].hasLoc = t.entries[r].hasLoc
                        /\ u.entries[r].succs = t.entries[r].succs
                        /\ u.entries[r].predCount =
                             IF r = ref THEN n ELSE t.entries[r].predCount
        /\ DOMAIN u.entries = D
    BY <1>2, <2>2, <2>3
  <2>. QED  BY <2>1, <2>2, <2>3, <2>4 DEF Count, SameButCounts
<1>5. \A r \in D : Count(u, r) = Count(t, r) + (IF r = ref THEN 1 ELSE 0)
  BY <1>0, <1>4 DEF n
<1>6. ASSUME QueueMatches(t), \A r \in D : Count(t, r) >= 0
      PROVE  QueueMatches(u)
  <2>1. \A r \in D : Count(u, r) = 0 <=> Count(t, r) = 0 /\ r # ref
    BY <1>0, <1>5, <1>6
  <2>2. Range(t.garbageQueue) = {r \in D : Count(t, r) = 0}
    BY <1>0, <1>6 DEF QueueMatches
  <2>3. Range(q) = {r \in D : Count(u, r) = 0}
    BY <1>7, <2>1, <2>2
  <2>4. DOMAIN u.entries = D
    BY <1>4 DEF Counting
  <2>. QED  BY <1>1, <1>4, <2>3, <2>4 DEF QueueMatches
<1>. QED  BY <1>1, <1>4, <1>5, <1>6 DEF u

\* Enqueue adds what is not there.
LEMMA EnqueueFacts ==
  ASSUME NEW D, NEW queue \in Seq(D), Distinct(queue), NEW ref \in D
  PROVE  /\ Enqueue(queue, ref) \in Seq(D) /\ Distinct(Enqueue(queue, ref))
         /\ Range(Enqueue(queue, ref)) = Range(queue) \cup {ref}
<1>1. CASE Contains(queue, ref)
  <2>1. Enqueue(queue, ref) = queue
    BY <1>1 DEF Enqueue
  <2>2. ref \in Range(queue)
    BY <1>1 DEF Contains, Range
  <2>. QED  BY <2>1, <2>2
<1>2. CASE ~Contains(queue, ref)
  <2>. DEFINE q == Append(queue, ref)
  <2>1. Enqueue(queue, ref) = q
    BY <1>2 DEF Enqueue
  <2>2. /\ q \in Seq(D) /\ DOMAIN q = 1 .. (Len(queue) + 1) /\ DOMAIN queue = 1 .. Len(queue)
        /\ q[Len(queue) + 1] = ref /\ \A i \in 1 .. Len(queue) : q[i] = queue[i]
        /\ Len(queue) \in Nat
    OBVIOUS
  <2>. HIDE DEF q
  <2>3. \A i \in 1 .. Len(queue) : queue[i] # ref
    BY <1>2 DEF Contains
  <2>4. ASSUME NEW i \in DOMAIN q, NEW j \in DOMAIN q, q[i] = q[j]
        PROVE  i = j
    <3>1. CASE i = Len(queue) + 1 /\ j # Len(queue) + 1
      <4>1. j \in 1 .. Len(queue)
        BY <2>2, <3>1
      <4>. QED  BY <2>2, <2>3, <2>4, <3>1, <4>1
    <3>2. CASE j = Len(queue) + 1 /\ i # Len(queue) + 1
      <4>1. i \in 1 .. Len(queue)
        BY <2>2, <3>2
      <4>. QED  BY <2>2, <2>3, <2>4, <3>2, <4>1
    <3>3. CASE i # Len(queue) + 1 /\ j # Len(queue) + 1
      <4>1. i \in DOMAIN queue /\ j \in DOMAIN queue
        BY <2>2, <3>3
      <4>2. queue[i] = queue[j]
        BY <2>2, <2>4, <4>1
      <4>. QED  BY <4>1, <4>2 DEF Distinct
    <3>. QED  BY <3>1, <3>2, <3>3
  <2>5. Range(q) = Range(queue) \cup {ref}
    <3>1. ASSUME NEW x \in Range(q)
          PROVE  x \in Range(queue) \cup {ref}
      <4>1. PICK i \in DOMAIN q : x = q[i]
        BY DEF Range
      <4>2. i = Len(queue) + 1 \/ i \in 1 .. Len(queue)
        BY <2>2
      <4>. QED  BY <2>2, <4>1, <4>2 DEF Range
    <3>2. ASSUME NEW x \in Range(queue)
          PROVE  x \in Range(q)
      <4>1. PICK i \in 1 .. Len(queue) : x = queue[i]
        BY <2>2 DEF Range
      <4>2. i \in DOMAIN q /\ q[i] = x
        BY <2>2, <4>1
      <4>. QED  BY <4>2 DEF Range
    <3>3. ref \in Range(q)
      <4>1. Len(queue) + 1 \in DOMAIN q
        BY <2>2
      <4>. QED  BY <2>2, <4>1 DEF Range
    <3>. QED  BY <3>1, <3>2, <3>3
  <2>. QED  BY <2>1, <2>2, <2>4, <2>5 DEF Distinct
<1>. QED  BY <1>1, <1>2

\* A predecessor less: a reference that has none left joins the queue.
LEMMA PredDecStep ==
  ASSUME NEW D, NEW t \in Counting(D), Distinct(t.garbageQueue), NEW ref \in D
  PROVE  LET u == PredDec(t, ref) IN
         /\ u \in Counting(D) /\ Distinct(u.garbageQueue) /\ SameButCounts(t, u)
         /\ \A r \in D : Count(u, r) = Count(t, r) - (IF r = ref THEN 1 ELSE 0)
         /\ QueueMatches(t) /\ (\A r \in D : Count(u, r) >= 0) => QueueMatches(u)
<1>. DEFINE u == PredDec(t, ref)
            q == IF Count(t, ref) = 1 THEN Enqueue(t.garbageQueue, ref)
                 ELSE t.garbageQueue
            n == Count(t, ref) - 1
<1>0. /\ t.garbageQueue \in Seq(D) /\ DOMAIN t.entries = D
      /\ \A r \in D : Count(t, r) \in Int
  BY DEF Counting, Count
<1>1. q \in Seq(D) /\ Distinct(q)
  BY <1>0, EnqueueFacts
<1>7. Range(q) = IF Count(t, ref) = 1 THEN Range(t.garbageQueue) \cup {ref}
              ELSE Range(t.garbageQueue)
  BY <1>0, EnqueueFacts, ZenonT(30)
<1>2. n \in Int
  BY <1>0
<1>3. u = [t EXCEPT !.entries[ref].predCount = n, !.garbageQueue = q]
  BY DEF PredDec, Count, Counting
<1>. HIDE DEF u, q, n
<1>4. /\ u \in Counting(D) /\ SameButCounts(t, u) /\ u.garbageQueue = q
      /\ Count(u, ref) = n /\ \A r \in D \ {ref} : Count(u, r) = Count(t, r)
  <2>1. u \in Counting(D)
    BY <1>1, <1>2, <1>3 DEF Counting
  <2>2. /\ u.garbageQueue = q /\ u.refUpperBound = t.refUpperBound
        /\ u.findLoclessIterator = t.findLoclessIterator
        /\ u.entries = [t.entries EXCEPT ![ref].predCount = n]
    BY <1>3 DEF Counting
  <2>3. t.entries \in [D -> [hasLoc : BOOLEAN, succs : Seq(D), predCount : Int]]
    BY DEF Counting
  <2>4. /\ \A r \in D : /\ u.entries[r].hasLoc = t.entries[r].hasLoc
                        /\ u.entries[r].succs = t.entries[r].succs
                        /\ u.entries[r].predCount =
                             IF r = ref THEN n ELSE t.entries[r].predCount
        /\ DOMAIN u.entries = D
    BY <1>2, <2>2, <2>3
  <2>. QED  BY <2>1, <2>2, <2>3, <2>4 DEF Count, SameButCounts
<1>5. \A r \in D : Count(u, r) = Count(t, r) - (IF r = ref THEN 1 ELSE 0)
  BY <1>0, <1>4 DEF n
<1>6. ASSUME QueueMatches(t), \A r \in D : Count(u, r) >= 0
      PROVE  QueueMatches(u)
  <2>1. \A r \in D : Count(u, r) = 0 <=> Count(t, r) = 0 \/ (r = ref /\ Count(t, ref) = 1)
    BY <1>0, <1>5, <1>6
  <2>2. Range(t.garbageQueue) = {r \in D : Count(t, r) = 0}
    BY <1>0, <1>6 DEF QueueMatches
  <2>3. Range(q) = {r \in D : Count(u, r) = 0}
    BY <1>7, <2>1, <2>2
  <2>4. DOMAIN u.entries = D
    BY <1>4 DEF Counting
  <2>. QED  BY <1>1, <1>4, <2>3, <2>4 DEF QueueMatches
<1>. QED  BY <1>1, <1>4, <1>5, <1>6 DEF u

-----------------------------------------------------------------------------
\* The loops over the successors of an entry

\* Every successor has as many predecessors more as it has places.
LEMMA PredIncAllFacts ==
  ASSUME NEW D \in SUBSET Ref, NEW t \in Counting(D), QueueMatches(t),
         \A r \in D : Count(t, r) >= 0, NEW succs \in Seq(D)
  PROVE  LET u == PredIncAll(t, succs)
         IN  /\ u \in Counting(D) /\ QueueMatches(u) /\ SameButCounts(t, u)
             /\ \A r \in D : Count(u, r) = Count(t, r) + Cardinality(At(succs, r))
<1>. DEFINE n == Len(succs)
            S == {u \in Counting(D) : Distinct(u.garbageQueue)}
            step == [x \in S \X (1 .. n) |-> PredInc(x[1], succs[x[2]])]
<1>1. /\ n \in Nat /\ succs \in Seq(Ref) /\ \A i \in 1 .. n : succs[i] \in D
      /\ \A k \in 0 .. n : Cardinality(AtUpTo(succs, k, 0)) \in Nat
  <2>1. succs \in Seq(Ref)
    BY SeqOfLarger
  <2>. QED  BY <2>1, AtFinite
<1>2. t \in S
  BY DEF QueueMatches
<1>3. step \in [S \X (1 .. n) -> S]
  <2>1. ASSUME NEW u \in S, NEW i \in 1 .. n
        PROVE  PredInc(u, succs[i]) \in S
    BY <1>1, PredIncStep
  <2>. HIDE DEF S, n
  <2>. QED  BY <2>1
<1>. HIDE DEF step, S, n
<1>4. PICK g \in [0 .. n -> S] : Iterates(g, t, step, n)
  BY <1>1, <1>2, <1>3, IterationExists, Zenon
<1>. DEFINE W(f) == f = [i \in 0 .. n |-> IF i = 0 THEN t ELSE PredInc(f[i - 1], succs[i])]
            h    == CHOOSE f : W(f)
<1>5. W(g)
  <2>1. ASSUME NEW i \in 0 .. n
        PROVE  g[i] = IF i = 0 THEN t ELSE PredInc(g[i - 1], succs[i])
    <3>1. CASE i = 0
      BY <1>4, <3>1 DEF Iterates
    <3>2. CASE i # 0
      <4>1. i - 1 \in 0 .. n /\ i \in 1 .. n
        BY <1>1, <3>2
      <4>2. g[i] = step[<<g[i - 1], i>>]
        BY <1>4, <4>1 DEF Iterates
      <4>. QED  BY <3>2, <4>1, <4>2 DEF step
    <3>. QED  BY <3>1, <3>2
  <2>2. g = [i \in 0 .. n |-> g[i]]
    BY <1>4
  <2>. QED  BY <2>1, <2>2, Zenon
<1>6. W(h) /\ PredIncAll(t, succs) = h[n]
  <2>1. W(h)
    BY <1>5, Zenon
  <2>. QED  BY <2>1 DEF PredIncAll, n
<1>. HIDE DEF h
<1>61. h[0] = t /\ \A i \in 1 .. n : h[i] = PredInc(h[i - 1], succs[i])
  <2>1. 0 \in 0 .. n /\ \A i \in 1 .. n : i \in 0 .. n /\ i # 0
    BY <1>1
  <2>. QED  BY <1>6, <2>1, Zenon
<1>. HIDE DEF W
<1>. DEFINE Good(k) == /\ h[k] \in Counting(D) /\ QueueMatches(h[k]) /\ SameButCounts(t, h[k])
                       /\ \A r \in D : Count(h[k], r) =
                                         Count(t, r) + Cardinality(AtUpTo(succs, k, r))
            P == {k \in 0 .. n : Good(k)}
<1>7. \A r \in D : Count(t, r) \in Nat
  BY DEF Counting, Count
<1>8. 0 \in P
  <2>1. SameButCounts(t, t)
    BY DEF SameButCounts
  <2>2. Good(0)
    BY <1>61, <1>7, <2>1, AtUpToNone
  <2>. QED  BY <1>1, <2>2
<1>9. ASSUME NEW k \in 0 .. (n - 1), k \in P
      PROVE  k + 1 \in P
  <2>1. Good(k) /\ k \in 0 .. n
    BY <1>9
  <2>2. k + 1 \in 1 .. n /\ (k + 1) - 1 = k /\ succs[k + 1] \in D
    BY <1>1
  <2>3. h[k + 1] = PredInc(h[k], succs[k + 1])
    BY <1>61, <2>2
  <2>4. \A r : /\ Cardinality(AtUpTo(succs, k, r)) \in Nat
               /\ Cardinality(AtUpTo(succs, k + 1, r)) =
                    Cardinality(AtUpTo(succs, k, r)) + (IF succs[k + 1] = r THEN 1 ELSE 0)
    BY <1>1, <2>1, AtFinite, AtUpToStep DEF n
  <2>5. \A r \in D : Count(h[k], r) >= 0
    BY <1>7, <2>1, <2>4
  <2>6. /\ h[k + 1] \in Counting(D) /\ QueueMatches(h[k + 1]) /\ SameButCounts(h[k], h[k + 1])
        /\ \A r \in D : Count(h[k + 1], r) =
                          Count(h[k], r) + (IF r = succs[k + 1] THEN 1 ELSE 0)
    <3>. DEFINE a == h[k]
                b == succs[k + 1]
    <3>1. /\ a \in Counting(D) /\ Distinct(a.garbageQueue) /\ QueueMatches(a) /\ b \in D
          /\ h[k + 1] = PredInc(a, b) /\ \A r \in D : Count(a, r) >= 0
      BY <2>1, <2>2, <2>3, <2>5 DEF QueueMatches
    <3>. HIDE DEF a, b
    <3>2. PredInc(a, b) \in Counting(D) /\ SameButCounts(a, PredInc(a, b))
      BY <3>1, PredIncStep
    <3>3. QueueMatches(PredInc(a, b))
      BY <3>1, PredIncStep
    <3>4. \A r \in D : Count(PredInc(a, b), r) = Count(a, r) + (IF r = b THEN 1 ELSE 0)
      BY <3>1, PredIncStep
    <3>. QED  BY <3>1, <3>2, <3>3, <3>4 DEF a, b
  <2>7. SameButCounts(t, h[k + 1])
    BY <2>1, <2>6 DEF SameButCounts
  <2>8. \A r \in D : Count(h[k + 1], r) = Count(t, r) + Cardinality(AtUpTo(succs, k + 1, r))
    BY <1>7, <2>1, <2>4, <2>6
  <2>9. k + 1 \in 0 .. n
    BY <1>1
  <2>. QED  BY <2>6, <2>7, <2>8, <2>9
<1>. HIDE DEF P
<1>10. \A k \in 0 .. n : k \in P
  BY <1>1, <1>8, <1>9, Induction
<1>11. Good(n)
  <2>1. n \in P
    BY <1>1, <1>10
  <2>. QED  BY <2>1 DEF P
<1>12. \A r : At(succs, r) = AtUpTo(succs, n, r)
  BY <1>1, AtFinite DEF n
<1>. QED  BY <1>6, <1>11, <1>12
\* Every successor has as many predecessors less as it has places.
LEMMA PredDecAllFacts ==
  ASSUME NEW D \in SUBSET Ref, NEW t \in Counting(D), QueueMatches(t),
         NEW succs \in Seq(D),
         \A r \in D : Count(t, r) >= Cardinality(At(succs, r))
  PROVE  LET u == PredDecAll(t, succs)
         IN  /\ u \in Counting(D) /\ QueueMatches(u) /\ SameButCounts(t, u)
             /\ \A r \in D : Count(u, r) = Count(t, r) - Cardinality(At(succs, r))
<1>. DEFINE n == Len(succs)
            S == {u \in Counting(D) : Distinct(u.garbageQueue)}
            step == [x \in S \X (1 .. n) |-> PredDec(x[1], succs[x[2]])]
<1>1. /\ n \in Nat /\ succs \in Seq(Ref) /\ \A i \in 1 .. n : succs[i] \in D
      /\ \A k \in 0 .. n : Cardinality(AtUpTo(succs, k, 0)) \in Nat
  <2>1. succs \in Seq(Ref)
    BY SeqOfLarger
  <2>. QED  BY <2>1, AtFinite
<1>2. t \in S
  BY DEF QueueMatches
<1>3. step \in [S \X (1 .. n) -> S]
  <2>1. ASSUME NEW u \in S, NEW i \in 1 .. n
        PROVE  PredDec(u, succs[i]) \in S
    BY <1>1, PredDecStep
  <2>. HIDE DEF S, n
  <2>. QED  BY <2>1
<1>. HIDE DEF step, S, n
<1>4. PICK g \in [0 .. n -> S] : Iterates(g, t, step, n)
  BY <1>1, <1>2, <1>3, IterationExists, Zenon
<1>. DEFINE W(f) == f = [i \in 0 .. n |-> IF i = 0 THEN t ELSE PredDec(f[i - 1], succs[i])]
            h    == CHOOSE f : W(f)
<1>5. W(g)
  <2>1. ASSUME NEW i \in 0 .. n
        PROVE  g[i] = IF i = 0 THEN t ELSE PredDec(g[i - 1], succs[i])
    <3>1. CASE i = 0
      BY <1>4, <3>1 DEF Iterates
    <3>2. CASE i # 0
      <4>1. i - 1 \in 0 .. n /\ i \in 1 .. n
        BY <1>1, <3>2
      <4>2. g[i] = step[<<g[i - 1], i>>]
        BY <1>4, <4>1 DEF Iterates
      <4>. QED  BY <3>2, <4>1, <4>2 DEF step
    <3>. QED  BY <3>1, <3>2
  <2>2. g = [i \in 0 .. n |-> g[i]]
    BY <1>4
  <2>. QED  BY <2>1, <2>2, Zenon
<1>6. W(h) /\ PredDecAll(t, succs) = h[n]
  <2>1. W(h)
    BY <1>5, Zenon
  <2>. QED  BY <2>1 DEF PredDecAll, n
<1>. HIDE DEF h
<1>61. h[0] = t /\ \A i \in 1 .. n : h[i] = PredDec(h[i - 1], succs[i])
  <2>1. 0 \in 0 .. n /\ \A i \in 1 .. n : i \in 0 .. n /\ i # 0
    BY <1>1
  <2>. QED  BY <1>6, <2>1, Zenon
<1>. HIDE DEF W
<1>. DEFINE Good(k) == /\ h[k] \in Counting(D) /\ QueueMatches(h[k]) /\ SameButCounts(t, h[k])
                       /\ \A r \in D : Count(h[k], r) =
                                         Count(t, r) - Cardinality(AtUpTo(succs, k, r))
            P == {k \in 0 .. n : Good(k)}
<1>7. \A r \in D : Count(t, r) \in Int
  BY DEF Counting, Count
<1>13. \A k \in 0 .. n, r \in D : Count(t, r) >= Cardinality(AtUpTo(succs, k, r))
  <2>. TAKE k \in 0 .. n, r \in D
  <2>1. /\ At(succs, r) = AtUpTo(succs, Len(succs), r)
        /\ Cardinality(AtUpTo(succs, k, r)) \in Nat
        /\ Cardinality(AtUpTo(succs, k, r)) <= Cardinality(AtUpTo(succs, Len(succs), r))
        /\ Len(succs) \in 0 .. Len(succs) /\ Cardinality(AtUpTo(succs, Len(succs), r)) \in Nat
    BY <1>1, AtFinite DEF n
  <2>. QED  BY <1>7, <2>1
<1>8. 0 \in P
  <2>1. SameButCounts(t, t)
    BY DEF SameButCounts
  <2>2. Good(0)
    BY <1>61, <1>7, <2>1, AtUpToNone
  <2>. QED  BY <1>1, <2>2
<1>9. ASSUME NEW k \in 0 .. (n - 1), k \in P
      PROVE  k + 1 \in P
  <2>1. Good(k) /\ k \in 0 .. n
    BY <1>9
  <2>2. k + 1 \in 1 .. n /\ (k + 1) - 1 = k /\ succs[k + 1] \in D
    BY <1>1
  <2>3. h[k + 1] = PredDec(h[k], succs[k + 1])
    BY <1>61, <2>2
  <2>4. \A r : /\ Cardinality(AtUpTo(succs, k, r)) \in Nat
               /\ Cardinality(AtUpTo(succs, k + 1, r)) =
                    Cardinality(AtUpTo(succs, k, r)) + (IF succs[k + 1] = r THEN 1 ELSE 0)
    BY <1>1, <2>1, AtFinite, AtUpToStep DEF n
  <2>5. \A r \in D : Count(h[k], r) - (IF r = succs[k + 1] THEN 1 ELSE 0) >= 0
    <3>1. k + 1 \in 0 .. n
      BY <1>1
    <3>2. \A r \in D : Count(t, r) >= Cardinality(AtUpTo(succs, k + 1, r))
      BY <1>13, <3>1
    <3>. QED  BY <1>7, <2>1, <2>4, <3>2
  <2>6. /\ h[k + 1] \in Counting(D) /\ QueueMatches(h[k + 1]) /\ SameButCounts(h[k], h[k + 1])
        /\ \A r \in D : Count(h[k + 1], r) =
                          Count(h[k], r) - (IF r = succs[k + 1] THEN 1 ELSE 0)
    <3>. DEFINE a == h[k]
                b == succs[k + 1]
    <3>1. /\ a \in Counting(D) /\ Distinct(a.garbageQueue) /\ QueueMatches(a) /\ b \in D
          /\ h[k + 1] = PredDec(a, b)
          /\ \A r \in D : Count(a, r) - (IF r = b THEN 1 ELSE 0) >= 0
      BY <2>1, <2>2, <2>3, <2>5 DEF QueueMatches
    <3>. HIDE DEF a, b
    <3>2. PredDec(a, b) \in Counting(D) /\ SameButCounts(a, PredDec(a, b))
      BY <3>1, PredDecStep
    <3>4. \A r \in D : Count(PredDec(a, b), r) = Count(a, r) - (IF r = b THEN 1 ELSE 0)
      BY <3>1, PredDecStep
    <3>5. \A r \in D : Count(PredDec(a, b), r) >= 0
      BY <3>1, <3>4
    <3>3. QueueMatches(PredDec(a, b))
      BY <3>1, <3>5, PredDecStep
    <3>. QED  BY <3>1, <3>2, <3>3, <3>4 DEF a, b
  <2>7. SameButCounts(t, h[k + 1])
    BY <2>1, <2>6 DEF SameButCounts
  <2>8. \A r \in D : Count(h[k + 1], r) = Count(t, r) - Cardinality(AtUpTo(succs, k + 1, r))
    BY <1>7, <2>1, <2>4, <2>6
  <2>9. k + 1 \in 0 .. n
    BY <1>1
  <2>. QED  BY <2>6, <2>7, <2>8, <2>9
<1>. HIDE DEF P
<1>10. \A k \in 0 .. n : k \in P
  BY <1>1, <1>8, <1>9, Induction
<1>11. Good(n)
  <2>1. n \in P
    BY <1>1, <1>10
  <2>. QED  BY <2>1 DEF P
<1>12. \A r : At(succs, r) = AtUpTo(succs, n, r)
  BY <1>1, AtFinite DEF n
<1>. QED  BY <1>6, <1>11, <1>12

-----------------------------------------------------------------------------
\* Tables whose counts are exact

SuccsOf(entries) == [r \in DOMAIN entries |-> entries[r].succs]

\* How many slots point to a reference, and the root counts for one.
Counted(graph, r) == Cardinality(Edges(graph, r)) + (IF r = Root THEN 1 ELSE 0)

Exact(t) ==
  /\ IsRefCountTable(t) /\ QueueMatches(t)
  /\ \A r \in DOMAIN t.entries :
       r <= t.refUpperBound /\ Count(t, r) = Counted(SuccsOf(t.entries), r)

\* The successors of an entry that is there or not.
OldSuccs(graph, ref) == IF ref \in DOMAIN graph THEN graph[ref] ELSE <<>>

\* The number of slots once ref has other successors.
EdgesAfter(graph, ref, succs, r) ==
  Cardinality(Edges(graph, r)) + Cardinality(At(succs, r))
    - Cardinality(At(OldSuccs(graph, ref), r))

\* What an entry that is put in changes.
LEMMA EdgesPutCount ==
  ASSUME NEW D \in SUBSET Ref, NEW graph \in [D -> Seq(Ref)], NEW ref \in Ref,
         NEW succs \in Seq(Ref), NEW r
  PROVE  Cardinality(Edges(Put(graph, ref, succs), r)) = EdgesAfter(graph, ref, succs, r)
<1>. DEFINE new == Put(graph, ref, succs)
            rest == Without(new, ref)
            old == OldSuccs(graph, ref)
<1>0. old \in Seq(Ref) /\ old = IF ref \in D THEN graph[ref] ELSE <<>>
  <2>1. DOMAIN graph = D
    OBVIOUS
  <2>2. old = IF ref \in D THEN graph[ref] ELSE <<>>
    BY <2>1 DEF OldSuccs
  <2>3. ref \in D => graph[ref] \in Seq(Ref)
    OBVIOUS
  <2>4. <<>> \in Seq(Ref)
    OBVIOUS
  <2>. HIDE DEF old
  <2>. QED  BY <2>2, <2>3, <2>4
<1>. HIDE DEF old
<1>1. /\ new \in [D \cup {ref} -> Seq(Ref)] /\ new[ref] = succs
      /\ D \cup {ref} \in SUBSET Ref
      /\ \A p \in D \ {ref} : new[p] = graph[p]
  BY DEF Put
<1>. HIDE DEF new
<1>2. Cardinality(Edges(graph, r)) \in Nat
  BY EdgesFinite
<1>3. Cardinality(At(succs, r)) \in Nat /\ Cardinality(At(old, r)) \in Nat
  <2>1. Len(succs) \in 0 .. Len(succs) /\ Len(old) \in 0 .. Len(old)
    BY <1>0
  <2>. QED  BY <1>0, <2>1, AtFinite
<1>4. /\ rest = [p \in D \ {ref} |-> graph[p]] /\ rest \in [D \ {ref} -> Seq(Ref)]
      /\ D \ {ref} \in SUBSET Ref
  BY <1>1 DEF Without, Restrict
<1>5. Cardinality(Edges(rest, r)) \in Nat
  BY <1>4, EdgesFinite
<1>6. Cardinality(Edges(new, r)) = Cardinality(Edges(rest, r)) + Cardinality(At(succs, r))
  <2>1. ref \in D \cup {ref}
    OBVIOUS
  <2>. HIDE DEF rest
  <2>2. Cardinality(Edges(new, r)) =
          Cardinality(Edges(Without(new, ref), r)) + Cardinality(At(new[ref], r))
    BY <1>1, <2>1, EdgesSplit
  <2>. QED  BY <1>1, <2>2 DEF rest
<1>7. Cardinality(Edges(graph, r)) = Cardinality(Edges(rest, r)) + Cardinality(At(old, r))
  <2>1. CASE ref \in D
    <3>1. Without(graph, ref) = rest
      BY <1>4 DEF Without, Restrict
    <3>2. Cardinality(Edges(graph, r)) =
            Cardinality(Edges(Without(graph, ref), r)) + Cardinality(At(graph[ref], r))
      BY <2>1, EdgesSplit
    <3>. QED  BY <1>0, <2>1, <3>1, <3>2
  <2>2. CASE ref \notin D
    <3>1. rest = graph
      BY <1>4, <2>2
    <3>2. At(old, r) = {}
      BY <1>0, <2>2 DEF At
    <3>3. Cardinality(At(old, r)) = 0
      BY <3>2, FS_EmptySet
    <3>. QED  BY <1>2, <3>1, <3>3
  <2>. QED  BY <2>1, <2>2
<1>. HIDE DEF rest
<1>. QED  BY <1>1, <1>2, <1>3, <1>5, <1>6, <1>7 DEF new, old, EdgesAfter

\* What is taken away was there.
LEMMA EdgesTyped ==
  ASSUME NEW D \in SUBSET Ref, NEW graph \in [D -> Seq(Ref)], NEW ref \in Ref, NEW r
  PROVE  LET old == OldSuccs(graph, ref) IN
         /\ Cardinality(Edges(graph, r)) \in Nat
         /\ Cardinality(At(old, r)) \in Nat
         /\ Cardinality(Edges(graph, r)) >= Cardinality(At(old, r))
<1>. DEFINE old  == OldSuccs(graph, ref)
            rest == Without(graph, ref)
<1>1. Cardinality(Edges(graph, r)) \in Nat
  BY EdgesFinite
<1>2. DOMAIN graph = D
  OBVIOUS
<1>3. CASE ref \in D
  <2>1. old = graph[ref] /\ graph[ref] \in Seq(Ref) /\ Len(graph[ref]) \in 0 .. Len(graph[ref])
    BY <1>2, <1>3 DEF OldSuccs
  <2>2. Cardinality(At(graph[ref], r)) \in Nat
    BY <2>1, AtFinite
  <2>3. rest \in [D \ {ref} -> Seq(Ref)] /\ D \ {ref} \in SUBSET Ref
    BY DEF Without, Restrict
  <2>. HIDE DEF rest
  <2>4. Cardinality(Edges(rest, r)) \in Nat
    BY <2>3, EdgesFinite
  <2>5. Cardinality(Edges(graph, r)) =
          Cardinality(Edges(rest, r)) + Cardinality(At(graph[ref], r))
    BY <1>3, EdgesSplit DEF rest
  <2>. HIDE DEF old
  <2>. QED  BY <1>1, <2>1, <2>2, <2>4, <2>5 DEF old
<1>4. CASE ref \notin D
  <2>1. At(old, r) = {}
    BY <1>2, <1>4 DEF OldSuccs, At
  <2>2. Cardinality(At(old, r)) = 0
    BY <2>1, FS_EmptySet
  <2>. HIDE DEF old
  <2>. QED  BY <1>1, <2>2 DEF old
<1>. QED  BY <1>3, <1>4

\* Nothing points to what is not there.
LEMMA NoEdges ==
  ASSUME NEW D \in SUBSET Ref, NEW graph \in [D -> Seq(D)], NEW r, r \notin D
  PROVE  Cardinality(Edges(graph, r)) = 0
<1>1. \A p \in D : At(graph[p], r) = {}
  <2>. TAKE p \in D
  <2>1. graph[p] \in Seq(D)
    OBVIOUS
  <2>2. \A i \in DOMAIN graph[p] : graph[p][i] \in D
    BY <2>1
  <2>. QED  BY <2>2 DEF At
<1>2. Edges(graph, r) = {}
  BY <1>1 DEF Edges
<1>. QED  BY <1>2, FS_EmptySet

\* A new search for a location changes nothing else.
LEMMA RestartedFacts ==
  ASSUME NEW D, NEW t \in Counting(D)
  PROVE  LET u == Restarted(t)
         IN  /\ u \in Counting(D) /\ u.entries = t.entries
             /\ u.garbageQueue = t.garbageQueue /\ u.refUpperBound = t.refUpperBound
             /\ u.findLoclessIterator = NoIterator
  BY DEF Restarted, Counting

\* Exactness is about entries, queue and upper bound.
LEMMA ExactIsAbout ==
  ASSUME NEW D \in SUBSET Ref, NEW t \in Counting(D), QueueMatches(t),
         \A r \in D : r <= t.refUpperBound /\ Count(t, r) = Counted(SuccsOf(t.entries), r)
  PROVE  Exact(t)
<1>1. DOMAIN t.entries = D /\ \A r \in D : t.entries[r].succs \in Seq(D)
  BY DEF Counting
<1>2. SuccsOf(t.entries) \in [D -> Seq(Ref)]
  <2>1. \A r \in D : t.entries[r].succs \in Seq(Ref)
    BY <1>1, SeqOfLarger
  <2>. QED  BY <1>1, <2>1 DEF SuccsOf
<1>3. \A r \in D : Count(t, r) \in Nat
  <2>. DEFINE graph == SuccsOf(t.entries)
  <2>. HIDE DEF graph
  <2>1. \A r \in D : Cardinality(Edges(graph, r)) \in Nat
    BY <1>2, EdgesFinite DEF graph
  <2>. QED  BY <2>1 DEF Counted, graph
<1>. QED  BY <1>1, <1>3, TableCounting DEF Exact

\* What an exact table is.
LEMMA ExactGives ==
  ASSUME NEW t, Exact(t)
  PROVE  LET D     == DOMAIN t.entries
             graph == SuccsOf(t.entries)
         IN
         /\ D \in SUBSET Ref /\ t \in Counting(D) /\ graph \in [D -> Seq(D)]
         /\ graph \in [D -> Seq(Ref)]
         /\ \A r \in D : Count(t, r) = Counted(graph, r) /\ r <= t.refUpperBound
         /\ t.refUpperBound \in Ref /\ t.garbageQueue \in Seq(D)
         /\ t.entries \in Graphs(D) /\ QueueMatches(t)
<1>. DEFINE D     == DOMAIN t.entries
            graph == SuccsOf(t.entries)
<1>1. D \in SUBSET Ref /\ t \in Counting(D)
  <2>1. D \in SUBSET Ref
    BY DEF Exact, IsRefCountTable
  <2>. QED  BY <2>1, TableCounting DEF Exact
<1>2. /\ t.refUpperBound \in Ref /\ t.garbageQueue \in Seq(D) /\ t.entries \in Graphs(D)
  BY DEF Exact, IsRefCountTable
<1>3. graph \in [D -> Seq(D)]
  BY <1>2 DEF Graphs, SuccsOf
<1>4. graph \in [D -> Seq(Ref)]
  <2>1. \A r \in D : graph[r] \in Seq(Ref)
    BY <1>1, <1>3, SeqOfLarger
  <2>. QED  BY <1>3, <2>1
<1>. QED  BY <1>1, <1>2, <1>3, <1>4 DEF Exact

\* The bookkeeping of a node that is written keeps the table exact.
LEMMA UpdateFacts ==
  ASSUME NEW t, Exact(t), Root \in DOMAIN t.entries, NEW ref \in Ref,
         NEW succs \in Seq(DOMAIN t.entries \cup {ref})
  PROVE  LET D == DOMAIN t.entries
             u == UpdateAndRemoveLoc(t, ref, succs)
         IN  /\ Exact(u) /\ DOMAIN u.entries = D \cup {ref}
             /\ SuccsOf(u.entries) = Put(SuccsOf(t.entries), ref, succs)
             /\ u.refUpperBound = IF ref > t.refUpperBound THEN ref ELSE t.refUpperBound
<1>. DEFINE D     == DOMAIN t.entries
            graph == SuccsOf(t.entries)
            E     == D \cup {ref}
            isNew == ref \notin D
            old   == IF isNew THEN Entry(FALSE, <<>>, 0) ELSE t.entries[ref]
            q     == IF isNew THEN Enqueue(t.garbageQueue, ref) ELSE t.garbageQueue
            es    == Put(t.entries, ref, Entry(FALSE, succs, old.predCount))
            bound == IF ref > t.refUpperBound THEN ref ELSE t.refUpperBound
            ins   == [t EXCEPT !.entries = es, !.garbageQueue = q, !.refUpperBound = bound]
            mid   == PredIncAll(ins, succs)
            fin   == PredDecAll(mid, old.succs)
<1>1. /\ D \in SUBSET Ref /\ t \in Counting(D) /\ graph \in [D -> Seq(D)]
      /\ graph \in [D -> Seq(Ref)]
      /\ \A r \in D : Count(t, r) = Counted(graph, r) /\ r <= t.refUpperBound
      /\ t.refUpperBound \in Ref /\ t.garbageQueue \in Seq(D)
      /\ t.entries \in Graphs(D) /\ QueueMatches(t)
  BY ExactGives
<1>2. UpdateAndRemoveLoc(t, ref, succs) = Restarted(fin)
  BY DEF UpdateAndRemoveLoc, UpdatePredCounts
<1>3. /\ E \in SUBSET Ref /\ succs \in Seq(E) /\ succs \in Seq(Ref) /\ bound \in Ref
      /\ \A r \in E : r <= bound
  <2>1. E \in SUBSET Ref
    BY <1>1
  <2>2. succs \in Seq(Ref)
    BY <2>1, SeqOfLarger
  <2>3. bound \in Ref /\ \A r \in E : r <= bound
    BY <1>1
  <2>. QED  BY <2>1, <2>2, <2>3
<1>4. /\ old.succs \in Seq(E) /\ old.succs \in Seq(Ref) /\ old.predCount \in Nat
      /\ old.succs = OldSuccs(graph, ref)
      /\ ref \in D => old.predCount = Count(t, ref)
      /\ ref \notin D => old.predCount = 0
  <2>1. CASE ref \notin D
    BY <1>1, <2>1 DEF Entry, OldSuccs
  <2>2. CASE ref \in D
    <3>1. old = t.entries[ref] /\ graph[ref] = t.entries[ref].succs
      BY <1>1, <2>2 DEF SuccsOf
    <3>2. t.entries[ref].succs \in Seq(D) /\ t.entries[ref].predCount \in Nat
      BY <1>1, <2>2 DEF Graphs
    <3>3. D \subseteq E /\ D \subseteq Ref
      BY <1>1
    <3>4. t.entries[ref].succs \in Seq(E) /\ t.entries[ref].succs \in Seq(Ref)
      BY <3>2, <3>3, SeqOfLarger
    <3>. QED  BY <2>2, <3>1, <3>2, <3>4, SMTT(30) DEF Count, OldSuccs
  <2>. QED  BY <2>1, <2>2
<1>5. /\ es \in Graphs(E)
      /\ \A r \in E : /\ es[r].predCount = IF r \in D THEN Count(t, r) ELSE 0
                      /\ es[r].succs = IF r = ref THEN succs ELSE graph[r]
  <2>1. es = [r \in E |-> IF r = ref THEN Entry(FALSE, succs, old.predCount)
                          ELSE t.entries[r]]
    BY <1>1 DEF Put, Graphs
  <2>. HIDE DEF es, old
  <2>2. \A r \in D : /\ t.entries[r] \in [hasLoc : BOOLEAN, succs : Seq(D), predCount : Nat]
                     /\ graph[r] = t.entries[r].succs
    BY <1>1 DEF Graphs, SuccsOf
  <2>3. \A r \in D : t.entries[r].succs \in Seq(E)
    <3>. TAKE r \in D
    <3>1. t.entries[r].succs \in Seq(D) /\ D \subseteq E
      BY <2>2
    <3>. QED  BY <3>1, SeqOfLarger
  <2>4. \A r \in D : t.entries[r] \in [hasLoc : BOOLEAN, succs : Seq(E), predCount : Nat]
    BY <2>2, <2>3
  <2>5. Entry(FALSE, succs, old.predCount) \in [hasLoc : BOOLEAN, succs : Seq(E), predCount : Nat]
    BY <1>3, <1>4 DEF Entry
  <2>6. es \in Graphs(E)
    BY <2>1, <2>4, <2>5 DEF Graphs
  <2>7. ASSUME NEW r \in E
        PROVE  /\ es[r].predCount = IF r \in D THEN Count(t, r) ELSE 0
               /\ es[r].succs = IF r = ref THEN succs ELSE graph[r]
    <3>1. CASE r = ref
      <4>1. es[r] = Entry(FALSE, succs, old.predCount)
        BY <2>1, <3>1
      <4>2. es[r].predCount = old.predCount /\ es[r].succs = succs
        BY <4>1 DEF Entry
      <4>. QED  BY <1>4, <3>1, <4>2
    <3>2. CASE r # ref
      <4>1. r \in D /\ es[r] = t.entries[r]
        BY <2>1, <3>2
      <4>. QED  BY <2>2, <3>2, <4>1 DEF Count
    <3>. QED  BY <3>1, <3>2
  <2>. QED  BY <2>6, <2>7
<1>6. q \in Seq(E) /\ Distinct(q) /\ Range(q) = {r \in E : es[r].predCount = 0}
  <2>1. t.garbageQueue \in Seq(E)
    BY <1>1, SeqOfLarger
  <2>2. /\ Distinct(t.garbageQueue) /\ DOMAIN t.entries = D
        /\ Range(t.garbageQueue) = {r \in D : Count(t, r) = 0}
    BY <1>1 DEF QueueMatches
  <2>. HIDE DEF es
  <2>3. CASE ref \in D
    BY <1>5, <2>1, <2>2, <2>3
  <2>4. CASE ref \notin D
    <3>1. q = Enqueue(t.garbageQueue, ref)
      BY <2>4
    <3>2. /\ q \in Seq(E) /\ Distinct(q) /\ Range(q) = Range(t.garbageQueue) \cup {ref}
      BY <2>1, <2>2, <3>1, EnqueueFacts
    <3>. QED  BY <1>5, <2>2, <2>4, <3>2
  <2>. QED  BY <2>3, <2>4
<1>. HIDE DEF es, q, old, bound
<1>7. /\ ins \in Counting(E) /\ ins.entries = es /\ ins.garbageQueue = q
      /\ ins.refUpperBound = bound
  <2>1. es \in [E -> [hasLoc : BOOLEAN, succs : Seq(E), predCount : Int]]
    BY <1>5 DEF Graphs
  <2>. QED  BY <1>1, <1>3, <1>6, <2>1 DEF Counting
<1>. HIDE DEF ins
<1>8. \A r \in E : Count(ins, r) = Counted(graph, r)
  <2>. TAKE r \in E
  <2>1. CASE r \in D
    BY <1>1, <1>5, <1>7, <2>1 DEF Count
  <2>2. CASE r \notin D
    <3>1. Cardinality(Edges(graph, r)) = 0 /\ r # Root
      BY <1>1, <2>2, NoEdges
    <3>. QED  BY <1>5, <1>7, <2>2, <3>1 DEF Count, Counted
  <2>. QED  BY <2>1, <2>2
<1>9. QueueMatches(ins)
  <2>1. DOMAIN es = E
    BY <1>5 DEF Graphs
  <2>. QED  BY <1>6, <1>7, <2>1 DEF QueueMatches, Count
<1>. DEFINE new == Put(graph, ref, succs)
<1>. HIDE DEF graph, new
<1>10. \A r : /\ Cardinality(Edges(graph, r)) \in Nat
              /\ Cardinality(At(succs, r)) \in Nat /\ Cardinality(At(old.succs, r)) \in Nat
              /\ Cardinality(Edges(graph, r)) >= Cardinality(At(old.succs, r))
              /\ Cardinality(Edges(new, r)) =
                   Cardinality(Edges(graph, r)) + Cardinality(At(succs, r))
                     - Cardinality(At(old.succs, r))
  <2>. TAKE r
  <2>1. /\ D \in SUBSET Ref /\ graph \in [D -> Seq(Ref)] /\ succs \in Seq(Ref)
        /\ old.succs = OldSuccs(graph, ref)
    BY <1>1, <1>3, <1>4
  <2>. HIDE DEF D, E
  <2>. DEFINE o == OldSuccs(graph, ref)
  <2>2. Cardinality(Edges(graph, r)) \in Nat
    BY <2>1, EdgesTyped
  <2>3. Cardinality(At(succs, r)) \in Nat
    <3>1. Len(succs) \in 0 .. Len(succs)
      BY <2>1
    <3>. QED  BY <2>1, <3>1, AtFinite, Zenon
  <2>4. Cardinality(At(o, r)) \in Nat
    BY <2>1, EdgesTyped
  <2>5. Cardinality(Edges(graph, r)) >= Cardinality(At(o, r))
    BY <2>1, EdgesTyped
  <2>6. Cardinality(Edges(Put(graph, ref, succs), r)) = EdgesAfter(graph, ref, succs, r)
    BY <2>1, EdgesPutCount
  <2>. QED  BY <2>1, <2>2, <2>3, <2>4, <2>5, <2>6 DEF new, EdgesAfter
<1>. HIDE DEF E
<1>11. /\ mid \in Counting(E) /\ QueueMatches(mid) /\ SameButCounts(ins, mid)
       /\ \A r \in E : Count(mid, r) = Count(ins, r) + Cardinality(At(succs, r))
  <2>1. \A r \in E : Count(ins, r) >= 0
    BY <1>8, <1>10 DEF Counted
  <2>2. mid \in Counting(E) /\ QueueMatches(mid)
    BY <1>3, <1>7, <1>9, <2>1, PredIncAllFacts
  <2>3. SameButCounts(ins, mid)
    BY <1>3, <1>7, <1>9, <2>1, PredIncAllFacts
  <2>4. \A r \in E : Count(mid, r) = Count(ins, r) + Cardinality(At(succs, r))
    BY <1>3, <1>7, <1>9, <2>1, PredIncAllFacts
  <2>. QED  BY <2>2, <2>3, <2>4
<1>. HIDE DEF mid
<1>12. /\ fin \in Counting(E) /\ QueueMatches(fin) /\ SameButCounts(mid, fin)
       /\ \A r \in E : Count(fin, r) = Count(mid, r) - Cardinality(At(old.succs, r))
  <2>1. \A r \in E : Count(mid, r) >= Cardinality(At(old.succs, r))
    BY <1>8, <1>10, <1>11 DEF Counted
  <2>2. fin \in Counting(E) /\ QueueMatches(fin)
    BY <1>3, <1>4, <1>11, <2>1, PredDecAllFacts
  <2>3. SameButCounts(mid, fin)
    BY <1>3, <1>4, <1>11, <2>1, PredDecAllFacts
  <2>4. \A r \in E : Count(fin, r) = Count(mid, r) - Cardinality(At(old.succs, r))
    BY <1>3, <1>4, <1>11, <2>1, PredDecAllFacts
  <2>. QED  BY <2>2, <2>3, <2>4
<1>. HIDE DEF fin
<1>13. SuccsOf(fin.entries) = new
  <2>1. DOMAIN fin.entries = E /\ \A r \in E : fin.entries[r].succs = es[r].succs
    BY <1>5, <1>7, <1>11, <1>12 DEF SameButCounts, Counting
  <2>2. new = [r \in E |-> IF r = ref THEN succs ELSE graph[r]]
    BY <1>1 DEF new, Put, E
  <2>3. \A r \in E : fin.entries[r].succs = IF r = ref THEN succs ELSE graph[r]
    BY <1>5, <2>1
  <2>. QED  BY <2>1, <2>2, <2>3, Zenon DEF SuccsOf
<1>14. \A r \in E : Count(fin, r) = Counted(new, r)
  BY <1>8, <1>10, <1>11, <1>12 DEF Counted
<1>. DEFINE u == Restarted(fin)
<1>15. /\ u \in Counting(E) /\ u.entries = fin.entries
       /\ u.garbageQueue = fin.garbageQueue /\ u.refUpperBound = bound
  <2>1. fin.refUpperBound = bound
    BY <1>7, <1>11, <1>12 DEF SameButCounts
  <2>. QED  BY <1>12, <2>1, RestartedFacts
<1>. HIDE DEF u
<1>16. /\ QueueMatches(u) /\ SuccsOf(u.entries) = new /\ DOMAIN u.entries = E
       /\ \A r \in E : r <= u.refUpperBound /\ Count(u, r) = Counted(SuccsOf(u.entries), r)
  <2>1. DOMAIN u.entries = E
    BY <1>15 DEF Counting
  <2>2. QueueMatches(u)
    BY <1>12, <1>15 DEF QueueMatches, Count
  <2>. QED  BY <1>3, <1>13, <1>14, <1>15, <2>1, <2>2 DEF Count
<1>17. Exact(u)
  BY <1>3, <1>15, <1>16, ExactIsAbout
<1>. QED  BY <1>2, <1>15, <1>16, <1>17 DEF u, E, new, graph, bound

\* A sequence without elements has none at any place.
LEMMA AtEmpty ==
  ASSUME NEW r
  PROVE  Cardinality(At(<<>>, r)) = 0
<1>1. At(<<>>, r) = {}
  BY DEF At
<1>. QED  BY <1>1, FS_EmptySet

\* The removal of a reference nothing points to keeps the table exact.
LEMMA RemoveFacts ==
  ASSUME NEW t, Exact(t), NEW ref \in DOMAIN t.entries, Count(t, ref) = 0
  PROVE  LET D == DOMAIN t.entries
             u == RemoveRef(t, ref)
         IN  /\ Exact(u) /\ DOMAIN u.entries = D \ {ref} /\ ref # Root
             /\ SuccsOf(u.entries) = Without(SuccsOf(t.entries), ref)
             /\ \A r \in D \ {ref} : t.entries[r].succs \in Seq(D \ {ref})
             /\ u.refUpperBound = t.refUpperBound
<1>. DEFINE D     == DOMAIN t.entries
            graph == SuccsOf(t.entries)
            E     == D \ {ref}
            q     == RemoveFirst(t.garbageQueue, ref)
            es    == Without(t.entries, ref)
            old   == t.entries[ref].succs
            base  == [t EXCEPT !.entries = es, !.garbageQueue = q]
            mid   == PredIncAll(base, <<>>)
            fin   == PredDecAll(mid, old)
<1>1. /\ D \in SUBSET Ref /\ t \in Counting(D) /\ graph \in [D -> Seq(D)]
      /\ graph \in [D -> Seq(Ref)]
      /\ \A r \in D : Count(t, r) = Counted(graph, r) /\ r <= t.refUpperBound
      /\ t.refUpperBound \in Ref /\ t.garbageQueue \in Seq(D)
      /\ t.entries \in Graphs(D) /\ QueueMatches(t)
  BY ExactGives
<1>2. RemoveRef(t, ref) = Restarted(fin)
  BY DEF RemoveRef, UpdatePredCounts
<1>3. ref # Root /\ Edges(graph, ref) = {}
  <2>1. Counted(graph, ref) = 0
    BY <1>1
  <2>2. /\ IsFiniteSet(Edges(graph, ref)) /\ Cardinality(Edges(graph, ref)) \in Nat
    BY <1>1, EdgesFinite
  <2>3. ref # Root /\ Cardinality(Edges(graph, ref)) = 0
    BY <2>1, <2>2 DEF Counted
  <2>. QED  BY <2>2, <2>3, FS_EmptySet
<1>4. \A r \in D : t.entries[r].succs \in Seq(E) /\ graph[r] = t.entries[r].succs
  <2>. TAKE r \in D
  <2>1. graph[r] = t.entries[r].succs /\ t.entries[r].succs \in Seq(D)
    BY <1>1 DEF SuccsOf
  <2>2. ASSUME NEW i \in DOMAIN graph[r]
        PROVE  graph[r][i] # ref
    <3>1. graph[r][i] = ref => <<r, i>> \in Edges(graph, ref)
      BY <1>1 DEF Edges, At
    <3>. QED  BY <1>3, <3>1
  <2>3. \A i \in 1 .. Len(t.entries[r].succs) : t.entries[r].succs[i] \in E
    BY <2>1, <2>2
  <2>. QED  BY <2>1, <2>3
<1>5. /\ es \in [E -> [hasLoc : BOOLEAN, succs : Seq(E), predCount : Int]]
      /\ \A r \in E : es[r] = t.entries[r]
  <2>1. es = [r \in E |-> t.entries[r]]
    BY <1>1 DEF Without, Restrict
  <2>2. \A r \in E : t.entries[r] \in [hasLoc : BOOLEAN, succs : Seq(E), predCount : Int]
    BY <1>1, <1>4 DEF Graphs
  <2>. QED  BY <2>1, <2>2
<1>6. q \in Seq(E) /\ Distinct(q) /\ Range(q) = {r \in E : Count(t, r) = 0}
  <2>1. /\ Distinct(t.garbageQueue) /\ Range(t.garbageQueue) = {r \in D : Count(t, r) = 0}
    BY <1>1 DEF QueueMatches
  <2>2. q \in Seq(D) /\ Distinct(q) /\ Range(q) = Range(t.garbageQueue) \ {ref}
    BY <1>1, <2>1, RemoveFirstFacts
  <2>. HIDE DEF q
  <2>3. Range(q) = {r \in E : Count(t, r) = 0}
    BY <2>1, <2>2
  <2>4. \A i \in 1 .. Len(q) : q[i] \in E
    <3>1. \A i \in 1 .. Len(q) : q[i] \in Range(q)
      BY <2>2 DEF Range
    <3>. QED  BY <2>3, <3>1
  <2>5. q \in Seq(E)
    BY <2>2, <2>4
  <2>. QED  BY <2>2, <2>3, <2>5
<1>. HIDE DEF es, q
<1>7. base \in Counting(E) /\ base.entries = es /\ base.garbageQueue = q
      /\ base.refUpperBound = t.refUpperBound
  BY <1>1, <1>5, <1>6 DEF Counting
<1>. HIDE DEF base
<1>8. \A r \in E : Count(base, r) = Counted(graph, r)
  BY <1>1, <1>5, <1>7 DEF Count
<1>9. QueueMatches(base)
  <2>1. DOMAIN es = E /\ \A r \in E : Count(base, r) = Count(t, r)
    BY <1>5, <1>7 DEF Count
  <2>. QED  BY <1>6, <1>7, <2>1 DEF QueueMatches
<1>10. \A r : /\ Cardinality(Edges(graph, r)) \in Nat /\ Cardinality(At(old, r)) \in Nat
              /\ Cardinality(Edges(Without(graph, ref), r)) \in Nat
              /\ Cardinality(Edges(graph, r)) =
                   Cardinality(Edges(Without(graph, ref), r)) + Cardinality(At(old, r))
  <2>. TAKE r
  <2>1. graph[ref] = old /\ old \in Seq(Ref) /\ Len(old) \in 0 .. Len(old)
    BY <1>1, <1>4
  <2>2. Without(graph, ref) \in [E -> Seq(Ref)] /\ E \in SUBSET Ref
    BY <1>1 DEF Without, Restrict
  <2>. HIDE DEF graph, E, old, D
  <2>3. Cardinality(Edges(Without(graph, ref), r)) \in Nat
    BY <2>2, EdgesFinite
  <2>4. Cardinality(Edges(graph, r)) \in Nat
    BY <1>1, EdgesFinite
  <2>5. Cardinality(At(old, r)) \in Nat
    BY <2>1, AtFinite
  <2>6. Cardinality(Edges(graph, r)) =
          Cardinality(Edges(Without(graph, ref), r)) + Cardinality(At(graph[ref], r))
    BY <1>1, EdgesSplit DEF D
  <2>. QED  BY <2>1, <2>3, <2>4, <2>5, <2>6
<1>11. E \in SUBSET Ref /\ old \in Seq(E) /\ <<>> \in Seq(E)
  BY <1>1, <1>4
<1>. HIDE DEF E, graph
<1>12. /\ mid \in Counting(E) /\ QueueMatches(mid) /\ SameButCounts(base, mid)
       /\ \A r \in E : Count(mid, r) = Count(base, r) + Cardinality(At(<<>>, r))
  <2>1. \A r \in E : Count(base, r) >= 0
    BY <1>8, <1>10 DEF Counted
  <2>2. mid \in Counting(E) /\ QueueMatches(mid)
    BY <1>7, <1>9, <1>11, <2>1, PredIncAllFacts
  <2>3. SameButCounts(base, mid)
    BY <1>7, <1>9, <1>11, <2>1, PredIncAllFacts
  <2>4. \A r \in E : Count(mid, r) = Count(base, r) + Cardinality(At(<<>>, r))
    BY <1>7, <1>9, <1>11, <2>1, PredIncAllFacts
  <2>. QED  BY <2>2, <2>3, <2>4
<1>13. \A r \in E : Count(mid, r) = Counted(graph, r)
  BY <1>8, <1>10, <1>12, AtEmpty DEF Counted
<1>. HIDE DEF mid, old
<1>14. /\ fin \in Counting(E) /\ QueueMatches(fin) /\ SameButCounts(mid, fin)
       /\ \A r \in E : Count(fin, r) = Count(mid, r) - Cardinality(At(old, r))
  <2>1. \A r \in E : Count(mid, r) >= Cardinality(At(old, r))
    BY <1>10, <1>13 DEF Counted
  <2>2. fin \in Counting(E) /\ QueueMatches(fin)
    BY <1>11, <1>12, <2>1, PredDecAllFacts
  <2>3. SameButCounts(mid, fin)
    BY <1>11, <1>12, <2>1, PredDecAllFacts
  <2>4. \A r \in E : Count(fin, r) = Count(mid, r) - Cardinality(At(old, r))
    BY <1>11, <1>12, <2>1, PredDecAllFacts
  <2>. QED  BY <2>2, <2>3, <2>4
<1>. HIDE DEF fin
<1>15. SuccsOf(fin.entries) = Without(graph, ref)
  <2>1. DOMAIN fin.entries = E /\ \A r \in E : fin.entries[r].succs = es[r].succs
    BY <1>5, <1>7, <1>12, <1>14 DEF SameButCounts, Counting
  <2>2. Without(graph, ref) = [r \in E |-> graph[r]]
    BY <1>1 DEF Without, Restrict, E
  <2>3. \A r \in E : fin.entries[r].succs = graph[r]
    BY <1>4, <1>5, <2>1 DEF E
  <2>. QED  BY <2>1, <2>2, <2>3, Zenon DEF SuccsOf
<1>16. \A r \in E : Count(fin, r) = Counted(Without(graph, ref), r)
  BY <1>10, <1>13, <1>14 DEF Counted
<1>. DEFINE u == Restarted(fin)
<1>17. /\ u \in Counting(E) /\ u.entries = fin.entries
       /\ u.garbageQueue = fin.garbageQueue /\ u.refUpperBound = t.refUpperBound
  <2>1. fin.refUpperBound = t.refUpperBound
    BY <1>7, <1>12, <1>14 DEF SameButCounts
  <2>. QED  BY <1>14, <2>1, RestartedFacts
<1>. HIDE DEF u
<1>18. /\ QueueMatches(u) /\ SuccsOf(u.entries) = Without(graph, ref) /\ DOMAIN u.entries = E
       /\ \A r \in E : r <= u.refUpperBound /\ Count(u, r) = Counted(SuccsOf(u.entries), r)
  <2>1. DOMAIN u.entries = E
    BY <1>17 DEF Counting
  <2>2. QueueMatches(u)
    BY <1>14, <1>17 DEF QueueMatches, Count
  <2>3. \A r \in E : r \in D
    BY DEF E
  <2>. QED  BY <1>1, <1>15, <1>16, <1>17, <2>1, <2>2, <2>3 DEF Count
<1>19. Exact(u)
  BY <1>11, <1>17, <1>18, ExactIsAbout
<1>. QED  BY <1>2, <1>3, <1>4, <1>17, <1>18, <1>19 DEF u, E, graph

\* A location that is found or lost changes neither counts nor successors.
LEMMA LocationFacts ==
  ASSUME NEW t, Exact(t), NEW ref \in DOMAIN t.entries
  PROVE  \A u \in {RemoveLoc(t, ref), AddLocIfPresent(t, ref)} :
           /\ Exact(u) /\ DOMAIN u.entries = DOMAIN t.entries
           /\ SuccsOf(u.entries) = SuccsOf(t.entries)
           /\ u.refUpperBound = t.refUpperBound
<1>. DEFINE D == DOMAIN t.entries
<1>1. /\ D \in SUBSET Ref /\ t \in Counting(D)
      /\ \A r \in D : /\ Count(t, r) = Counted(SuccsOf(t.entries), r)
                      /\ r <= t.refUpperBound
      /\ QueueMatches(t)
  BY ExactGives
<1>2. ASSUME NEW loc \in BOOLEAN, NEW u \in Counting(D),
             u.entries = [t.entries EXCEPT ![ref].hasLoc = loc],
             u.garbageQueue = t.garbageQueue, u.refUpperBound = t.refUpperBound
      PROVE  /\ Exact(u) /\ DOMAIN u.entries = DOMAIN t.entries
             /\ SuccsOf(u.entries) = SuccsOf(t.entries)
             /\ u.refUpperBound = t.refUpperBound
  <2>1. t.entries \in [D -> [hasLoc : BOOLEAN, succs : Seq(D), predCount : Int]]
    BY <1>1 DEF Counting
  <2>2. /\ DOMAIN u.entries = D
        /\ \A r \in D : /\ u.entries[r].succs = t.entries[r].succs
                        /\ u.entries[r].predCount = t.entries[r].predCount
    BY <1>2, <2>1
  <2>3. SuccsOf(u.entries) = SuccsOf(t.entries)
    BY <2>2, Zenon DEF SuccsOf
  <2>4. QueueMatches(u)
    BY <1>1, <1>2, <2>2 DEF QueueMatches, Count
  <2>5. \A r \in D : r <= u.refUpperBound /\ Count(u, r) = Counted(SuccsOf(u.entries), r)
    BY <1>1, <1>2, <2>2, <2>3 DEF Count
  <2>6. Exact(u)
    BY <1>1, <2>4, <2>5, ExactIsAbout
  <2>. QED  BY <1>2, <2>2, <2>3, <2>6
<1>3. LET u == RemoveLoc(t, ref)
      IN  /\ u \in Counting(D) /\ u.entries = [t.entries EXCEPT ![ref].hasLoc = FALSE]
          /\ u.garbageQueue = t.garbageQueue /\ u.refUpperBound = t.refUpperBound
  <2>. DEFINE v == [t EXCEPT !.entries[ref].hasLoc = FALSE]
  <2>1. /\ v \in Counting(D) /\ v.entries = [t.entries EXCEPT ![ref].hasLoc = FALSE]
        /\ v.garbageQueue = t.garbageQueue /\ v.refUpperBound = t.refUpperBound
    BY <1>1 DEF Counting
  <2>2. RemoveLoc(t, ref) = Restarted(v)
    BY DEF RemoveLoc
  <2>. HIDE DEF v
  <2>. QED  BY <2>1, <2>2, RestartedFacts
<1>4. LET u == AddLocIfPresent(t, ref)
      IN  /\ u \in Counting(D) /\ u.entries = [t.entries EXCEPT ![ref].hasLoc = TRUE]
          /\ u.garbageQueue = t.garbageQueue /\ u.refUpperBound = t.refUpperBound
  <2>. DEFINE v == [t EXCEPT !.entries[ref].hasLoc = TRUE]
  <2>1. /\ v \in Counting(D) /\ v.entries = [t.entries EXCEPT ![ref].hasLoc = TRUE]
        /\ v.garbageQueue = t.garbageQueue /\ v.refUpperBound = t.refUpperBound
    BY <1>1 DEF Counting
  <2>. QED  BY <2>1 DEF AddLocIfPresent
<1>. QED  BY <1>2, <1>3, <1>4

-----------------------------------------------------------------------------
\* A table that is loaded

\* The successors of one entry are counted.
LEMMA CountSuccsFacts ==
  ASSUME NEW D \in SUBSET Ref, NEW es \in Graphs(D), NEW succs \in Seq(D)
  PROVE  LET u == CountSuccs(es, succs)
         IN  /\ u \in Graphs(D)
             /\ \A r \in D : /\ u[r].hasLoc = es[r].hasLoc /\ u[r].succs = es[r].succs
                             /\ u[r].predCount = es[r].predCount + Cardinality(At(succs, r))
<1>. DEFINE n == Len(succs)
            S == Graphs(D)
            step == [x \in S \X (1 .. n) |-> [x[1] EXCEPT ![succs[x[2]]].predCount = @ + 1]]
<1>1. n \in Nat /\ succs \in Seq(Ref) /\ \A i \in 1 .. n : succs[i] \in D
  <2>1. succs \in Seq(Ref)
    BY SeqOfLarger
  <2>. QED  BY <2>1
<1>2. ASSUME NEW e \in S, NEW ref \in D
      PROVE  LET f == [e EXCEPT ![ref].predCount = @ + 1]
             IN  /\ f \in S
                 /\ \A r \in D : /\ f[r].hasLoc = e[r].hasLoc /\ f[r].succs = e[r].succs
                                 /\ f[r].predCount = e[r].predCount + (IF r = ref THEN 1 ELSE 0)
                                 /\ e[r].predCount \in Nat
  <2>. DEFINE R == [hasLoc : BOOLEAN, succs : Seq(D), predCount : Nat]
              f == [e EXCEPT ![ref].predCount = @ + 1]
  <2>1. e \in [D -> R]
    BY DEF Graphs
  <2>2. \A r \in D : e[r].predCount \in Nat /\ e[r] \in R
    BY <2>1
  <2>3. \A r \in D : f[r] = IF r = ref THEN [e[ref] EXCEPT !.predCount = @ + 1] ELSE e[r]
    BY <2>1
  <2>4. [e[ref] EXCEPT !.predCount = @ + 1] \in R
    <3>. DEFINE a == e[ref]
    <3>1. a \in R
      BY <2>2
    <3>. HIDE DEF a
    <3>2. a.predCount + 1 \in Nat
      BY <3>1
    <3>3. [a EXCEPT !.predCount = @ + 1] \in R
      BY <3>1, <3>2
    <3>. QED  BY <3>3 DEF a
  <2>5. DOMAIN f = D /\ f = [r \in DOMAIN f |-> f[r]]
    BY <2>1
  <2>6. f \in S
    BY <2>2, <2>3, <2>4, <2>5 DEF Graphs
  <2>7. \A r \in D : /\ f[r].hasLoc = e[r].hasLoc /\ f[r].succs = e[r].succs
                     /\ f[r].predCount = e[r].predCount + (IF r = ref THEN 1 ELSE 0)
    BY <2>2, <2>3
  <2>. QED  BY <2>2, <2>6, <2>7
<1>3. step \in [S \X (1 .. n) -> S]
  <2>1. ASSUME NEW e \in S, NEW i \in 1 .. n
        PROVE  [e EXCEPT ![succs[i]].predCount = @ + 1] \in S
    BY <1>1, <1>2
  <2>. HIDE DEF S, n
  <2>. QED  BY <2>1
<1>. HIDE DEF step, n
<1>4. PICK g \in [0 .. n -> S] : Iterates(g, es, step, n)
  <2>. HIDE DEF S
  <2>1. es \in S
    BY DEF S
  <2>. QED  BY <1>1, <1>3, <2>1, IterationExists, Zenon
<1>. DEFINE W(f) == f = [i \in 0 .. n |->
                           IF i = 0 THEN es ELSE [f[i - 1] EXCEPT ![succs[i]].predCount = @ + 1]]
            h    == CHOOSE f : W(f)
<1>5. W(g)
  <2>1. ASSUME NEW i \in 0 .. n
        PROVE  g[i] = IF i = 0 THEN es ELSE [g[i - 1] EXCEPT ![succs[i]].predCount = @ + 1]
    <3>1. CASE i = 0
      BY <1>4, <3>1 DEF Iterates
    <3>2. CASE i # 0
      <4>1. i - 1 \in 0 .. n /\ i \in 1 .. n
        BY <1>1, <3>2
      <4>2. g[i] = step[<<g[i - 1], i>>] /\ g[i - 1] \in S
        BY <1>4, <4>1 DEF Iterates
      <4>3. g[i] = [g[i - 1] EXCEPT ![succs[i]].predCount = @ + 1]
        BY <4>1, <4>2 DEF step
      <4>. QED  BY <3>2, <4>3
    <3>. QED  BY <3>1, <3>2
  <2>2. g = [i \in 0 .. n |-> g[i]]
    BY <1>4
  <2>. QED  BY <2>1, <2>2, Zenon
<1>6. W(h) /\ CountSuccs(es, succs) = h[n]
  <2>1. W(h)
    BY <1>5, Zenon
  <2>. QED  BY <2>1 DEF CountSuccs, n
<1>. HIDE DEF h
<1>7. h[0] = es /\ \A i \in 1 .. n : h[i] = [h[i - 1] EXCEPT ![succs[i]].predCount = @ + 1]
  <2>1. 0 \in 0 .. n /\ \A i \in 1 .. n : i \in 0 .. n /\ i # 0
    BY <1>1
  <2>. QED  BY <1>6, <2>1, Zenon
<1>. HIDE DEF W
<1>. DEFINE Good(k) ==
              /\ h[k] \in S
              /\ \A r \in D : /\ h[k][r].hasLoc = es[r].hasLoc /\ h[k][r].succs = es[r].succs
                              /\ h[k][r].predCount =
                                   es[r].predCount + Cardinality(AtUpTo(succs, k, r))
            P == {k \in 0 .. n : Good(k)}
<1>8. \A r \in D : es[r].predCount \in Nat
  BY DEF Graphs
<1>9. 0 \in P
  <2>1. Good(0)
    BY <1>7, <1>8, AtUpToNone
  <2>. HIDE DEF Good
  <2>. QED  BY <1>1, <2>1
<1>10. ASSUME NEW k \in 0 .. (n - 1), k \in P
       PROVE  k + 1 \in P
  <2>1. Good(k) /\ k \in 0 .. n /\ k + 1 \in 0 .. n
    BY <1>1, <1>10
  <2>2. k + 1 \in 1 .. n /\ (k + 1) - 1 = k /\ succs[k + 1] \in D
    BY <1>1
  <2>. DEFINE a == h[k]
              b == succs[k + 1]
              f == [a EXCEPT ![b].predCount = @ + 1]
  <2>3. a \in S /\ b \in D /\ h[k + 1] = f
    <3>1. h[k + 1] = [h[(k + 1) - 1] EXCEPT ![succs[k + 1]].predCount = @ + 1]
      BY <1>7, <2>2, Zenon
    <3>. QED  BY <2>1, <2>2, <3>1
  <2>4. \A r : /\ Cardinality(AtUpTo(succs, k, r)) \in Nat
               /\ Cardinality(AtUpTo(succs, k + 1, r)) =
                    Cardinality(AtUpTo(succs, k, r)) + (IF succs[k + 1] = r THEN 1 ELSE 0)
    BY <1>1, <2>1, AtFinite, AtUpToStep DEF n
  <2>. HIDE DEF a, b, S
  <2>5. /\ f \in S
        /\ \A r \in D : /\ f[r].hasLoc = a[r].hasLoc /\ f[r].succs = a[r].succs
                        /\ f[r].predCount = a[r].predCount + (IF r = b THEN 1 ELSE 0)
                        /\ a[r].predCount \in Nat
    BY <1>2, <2>3
  <2>. HIDE DEF f
  <2>6. \A r \in D : /\ f[r].hasLoc = es[r].hasLoc /\ f[r].succs = es[r].succs
                     /\ f[r].predCount = es[r].predCount + Cardinality(AtUpTo(succs, k + 1, r))
    <3>. TAKE r \in D
    <3>1. /\ a[r].hasLoc = es[r].hasLoc /\ a[r].succs = es[r].succs
          /\ a[r].predCount = es[r].predCount + Cardinality(AtUpTo(succs, k, r))
      BY <2>1 DEF a
    <3>2. Cardinality(AtUpTo(succs, k + 1, r)) =
            Cardinality(AtUpTo(succs, k, r)) + (IF r = b THEN 1 ELSE 0)
      BY <2>4 DEF b
    <3>. QED  BY <1>8, <2>4, <2>5, <3>1, <3>2
  <2>. QED  BY <2>1, <2>3, <2>5, <2>6
<1>. HIDE DEF P
<1>11. \A k \in 0 .. n : k \in P
  BY <1>1, <1>9, <1>10, Induction
<1>12. Good(n)
  <2>1. n \in P
    BY <1>1, <1>11
  <2>. QED  BY <2>1 DEF P
<1>13. \A r : At(succs, r) = AtUpTo(succs, n, r)
  <2>1. Len(succs) \in 0 .. Len(succs)
    BY <1>1
  <2>. QED  BY <1>1, <2>1, AtFinite DEF n
<1>. QED  BY <1>6, <1>12, <1>13

\* The part of a graph below a reference.
Below(graph, n) == [p \in {q \in DOMAIN graph : q < n} |-> graph[p]]

\* A reference more.
LEMMA BelowStep ==
  ASSUME NEW D \in SUBSET Ref, NEW graph \in [D -> Seq(Ref)], NEW n \in Ref, NEW r
  PROVE  /\ Cardinality(Edges(Below(graph, n), r)) \in Nat
         /\ n \in D => Cardinality(Edges(Below(graph, n + 1), r)) =
                         Cardinality(Edges(Below(graph, n), r)) + Cardinality(At(graph[n], r))
         /\ n \notin D => Below(graph, n + 1) = Below(graph, n)
<1>. DEFINE low  == {q \in D : q < n}
            high == {q \in D : q < n + 1}
<1>1. /\ low \in SUBSET Ref /\ high \in SUBSET Ref
      /\ Below(graph, n) = [p \in low |-> graph[p]]
      /\ Below(graph, n + 1) = [p \in high |-> graph[p]]
  BY DEF Below
<1>2. /\ Below(graph, n) \in [low -> Seq(Ref)]
      /\ Below(graph, n + 1) \in [high -> Seq(Ref)]
  BY <1>1
<1>3. /\ n \in D => high = low \cup {n} /\ n \notin low
      /\ n \notin D => high = low
  <2>1. \A q \in Ref : q < n + 1 <=> q < n \/ q = n
    OBVIOUS
  <2>2. \A q \in D : q < n + 1 <=> q < n \/ q = n
    BY <2>1
  <2>. QED  BY <2>2
<1>. HIDE DEF low, high
<1>4. Cardinality(Edges(Below(graph, n), r)) \in Nat
  BY <1>1, <1>2, EdgesFinite
<1>5. ASSUME n \in D
      PROVE  Cardinality(Edges(Below(graph, n + 1), r)) =
               Cardinality(Edges(Below(graph, n), r)) + Cardinality(At(graph[n], r))
  <2>1. n \in high /\ high \ {n} = low
    BY <1>3, <1>5
  <2>. DEFINE b == Below(graph, n + 1)
  <2>2. b[n] = graph[n] /\ DOMAIN b = high
    BY <1>1, <2>1
  <2>3. Without(b, n) = Below(graph, n)
    BY <1>1, <2>1 DEF Without, Restrict
  <2>4. b \in [high -> Seq(Ref)]
    BY <1>2
  <2>. HIDE DEF b
  <2>5. Cardinality(Edges(b, r)) =
          Cardinality(Edges(Without(b, n), r)) + Cardinality(At(b[n], r))
    BY <1>1, <2>1, <2>4, EdgesSplit
  <2>. QED  BY <2>2, <2>3, <2>5 DEF b
<1>. QED  BY <1>1, <1>3, <1>4, <1>5

\* The counts are computed from nothing.
LEMMA ComputeFacts ==
  ASSUME NEW D \in SUBSET Ref, NEW entries \in Graphs(D)
  PROVE  LET u == ComputeRefCounts(entries)
         IN  /\ u \in Graphs(D)
             /\ \A r \in D : /\ u[r].hasLoc = entries[r].hasLoc
                             /\ u[r].succs = entries[r].succs
                             /\ u[r].predCount = Counted(SuccsOf(entries), r)
<1>. DEFINE n         == End
            S         == Graphs(D)
            uncounted == [r \in DOMAIN entries |->
                            [entries[r] EXCEPT !.predCount = IF r = Root THEN 1 ELSE 0]]
            next(e, i) == IF i - 1 \in DOMAIN entries THEN CountSuccs(e, entries[i - 1].succs)
                          ELSE e
            step      == [x \in S \X (1 .. n) |-> next(x[1], x[2])]
            graph     == SuccsOf(entries)
<1>1. /\ n \in Nat /\ DOMAIN entries = D
      /\ \A r \in D : entries[r] \in [hasLoc : BOOLEAN, succs : Seq(D), predCount : Nat]
  BY DEF Graphs
<1>2. /\ uncounted \in S
      /\ \A r \in D : /\ uncounted[r].hasLoc = entries[r].hasLoc
                      /\ uncounted[r].succs = entries[r].succs
                      /\ uncounted[r].predCount = IF r = Root THEN 1 ELSE 0
  <2>1. \A r \in D : [entries[r] EXCEPT !.predCount = IF r = Root THEN 1 ELSE 0]
                       \in [hasLoc : BOOLEAN, succs : Seq(D), predCount : Nat]
    BY <1>1
  <2>2. uncounted \in S
    BY <1>1, <2>1 DEF Graphs
  <2>. QED  BY <1>1, <2>2
<1>3. \A e \in S, i \in 1 .. n : next(e, i) \in S
  BY <1>1, CountSuccsFacts
<1>. HIDE DEF next, n, S, uncounted
<1>4. step \in [S \X (1 .. n) -> S]
  BY <1>3
<1>. HIDE DEF step
<1>5. PICK g \in [0 .. n -> S] : Iterates(g, uncounted, step, n)
  BY <1>1, <1>2, <1>4, IterationExists, Zenon
<1>. DEFINE W(f) == f = [i \in 0 .. n |-> IF i = 0 THEN uncounted ELSE next(f[i - 1], i)]
            h    == CHOOSE f : W(f)
<1>6. W(g)
  <2>1. ASSUME NEW i \in 0 .. n
        PROVE  g[i] = IF i = 0 THEN uncounted ELSE next(g[i - 1], i)
    <3>1. CASE i = 0
      BY <1>5, <3>1 DEF Iterates
    <3>2. CASE i # 0
      <4>1. i - 1 \in 0 .. n /\ i \in 1 .. n
        BY <1>1, <3>2
      <4>2. g[i] = step[<<g[i - 1], i>>] /\ g[i - 1] \in S
        BY <1>5, <4>1 DEF Iterates
      <4>3. g[i] = next(g[i - 1], i)
        BY <4>1, <4>2 DEF step
      <4>. QED  BY <3>2, <4>3
    <3>. QED  BY <3>1, <3>2
  <2>2. g = [i \in 0 .. n |-> g[i]]
    BY <1>5
  <2>. QED  BY <2>1, <2>2, Zenon
<1>7. W(h) /\ ComputeRefCounts(entries) = h[n]
  <2>1. W(h)
    BY <1>6, Zenon
  <2>. QED  BY <2>1 DEF ComputeRefCounts, n, next, uncounted
<1>. HIDE DEF h
<1>8. h[0] = uncounted /\ \A i \in 1 .. n : h[i] = next(h[i - 1], i)
  <2>1. 0 \in 0 .. n /\ \A i \in 1 .. n : i \in 0 .. n /\ i # 0
    BY <1>1
  <2>. QED  BY <1>7, <2>1, Zenon
<1>. HIDE DEF W
<1>9. /\ graph \in [D -> Seq(Ref)] /\ graph \in [D -> Seq(D)]
      /\ \A r \in D : graph[r] = entries[r].succs
  <2>1. graph = [r \in D |-> entries[r].succs]
    BY <1>1 DEF SuccsOf
  <2>2. \A r \in D : entries[r].succs \in Seq(D) /\ entries[r].succs \in Seq(Ref)
    <3>. TAKE r \in D
    <3>1. entries[r].succs \in Seq(D)
      BY <1>1
    <3>. QED  BY <3>1, SeqOfLarger
  <2>. QED  BY <2>1, <2>2
<1>. HIDE DEF graph
<1>. DEFINE Good(k) ==
              /\ h[k] \in S
              /\ \A r \in D : /\ h[k][r].hasLoc = entries[r].hasLoc
                              /\ h[k][r].succs = entries[r].succs
                              /\ h[k][r].predCount = Counted(Below(graph, k), r)
            P == {k \in 0 .. n : Good(k)}
<1>10. 0 \in P
  <2>1. \A r : Cardinality(Edges(Below(graph, 0), r)) = 0
    <3>0. \A q \in D : q \in Ref /\ ~(q < 0)
      OBVIOUS
    <3>1. {q \in D : q < 0} = {}
      BY <3>0
    <3>2. \A r : Edges(Below(graph, 0), r) = {}
      BY <1>9, <3>1 DEF Edges, Below
    <3>. QED  BY <3>2, FS_EmptySet
  <2>2. Good(0)
    BY <1>2, <1>8, <2>1 DEF Counted
  <2>. HIDE DEF Good
  <2>. QED  BY <1>1, <2>2
<1>11. ASSUME NEW k \in 0 .. (n - 1), k \in P
       PROVE  k + 1 \in P
  <2>1. Good(k) /\ k \in 0 .. n /\ k + 1 \in 0 .. n
    BY <1>1, <1>11
  <2>2. k + 1 \in 1 .. n /\ (k + 1) - 1 = k /\ k \in Ref
    BY <1>1 DEF n
  <2>3. h[k + 1] = next(h[k], k + 1)
    <3>1. h[k + 1] = next(h[(k + 1) - 1], k + 1)
      BY <1>8, <2>2, Zenon
    <3>. QED  BY <2>2, <3>1
  <2>4. \A r : /\ Cardinality(Edges(Below(graph, k), r)) \in Nat
               /\ k \in D => Cardinality(Edges(Below(graph, k + 1), r)) =
                      Cardinality(Edges(Below(graph, k), r)) + Cardinality(At(graph[k], r))
               /\ k \notin D => Below(graph, k + 1) = Below(graph, k)
    BY <1>9, <2>2, BelowStep
  <2>5. CASE k \in D
    <3>. DEFINE a == h[k]
                c == CountSuccs(a, entries[k].succs)
    <3>1. h[k + 1] = c
      BY <1>1, <2>2, <2>3, <2>5 DEF next
    <3>2. a \in Graphs(D) /\ entries[k].succs \in Seq(D) /\ entries[k].succs = graph[k]
      BY <1>9, <2>1, <2>5 DEF S
    <3>. HIDE DEF a
    <3>3. /\ c \in Graphs(D)
          /\ \A r \in D : /\ c[r].hasLoc = a[r].hasLoc /\ c[r].succs = a[r].succs
                          /\ c[r].predCount = a[r].predCount + Cardinality(At(entries[k].succs, r))
      BY <3>2, CountSuccsFacts
    <3>4. Len(graph[k]) \in 0 .. Len(graph[k]) /\ graph[k] \in Seq(Ref)
      BY <1>9, <2>5
    <3>5. \A r : Cardinality(At(graph[k], r)) \in Nat
      BY <3>4, AtFinite
    <3>. HIDE DEF c
    <3>6. \A r \in D : c[r].predCount = Counted(Below(graph, k + 1), r)
      <4>. TAKE r \in D
      <4>1. a[r].predCount = Counted(Below(graph, k), r)
        BY <2>1 DEF a
      <4>2. c[r].predCount = a[r].predCount + Cardinality(At(graph[k], r))
        BY <3>2, <3>3
      <4>3. /\ Cardinality(Edges(Below(graph, k), r)) \in Nat
            /\ Cardinality(Edges(Below(graph, k + 1), r)) =
                 Cardinality(Edges(Below(graph, k), r)) + Cardinality(At(graph[k], r))
            /\ Cardinality(At(graph[k], r)) \in Nat
        BY <2>4, <2>5, <3>5
      <4>. QED  BY <4>1, <4>2, <4>3 DEF Counted
    <3>7. \A r \in D : c[r].hasLoc = entries[r].hasLoc /\ c[r].succs = entries[r].succs
      BY <2>1, <3>3 DEF a
    <3>8. Good(k + 1)
      BY <3>1, <3>3, <3>6, <3>7 DEF S
    <3>. HIDE DEF Good
    <3>. QED  BY <2>1, <3>8
  <2>6. CASE k \notin D
    <3>1. h[k + 1] = h[k]
      BY <1>1, <2>2, <2>3, <2>6 DEF next
    <3>2. Good(k + 1)
      BY <2>1, <2>4, <2>6, <3>1
    <3>. HIDE DEF Good
    <3>. QED  BY <2>1, <3>2
  <2>. QED  BY <2>5, <2>6
<1>. HIDE DEF P
<1>12. \A k \in 0 .. n : k \in P
  BY <1>1, <1>10, <1>11, Induction
<1>13. Good(n)
  <2>1. n \in P
    BY <1>1, <1>12
  <2>. QED  BY <2>1 DEF P
<1>14. Below(graph, n) = graph
  <2>0. \A q \in D : q \in Ref /\ q < n
    BY DEF n
  <2>1. {q \in D : q < n} = D
    BY <2>0
  <2>2. DOMAIN graph = D /\ graph = [p \in D |-> graph[p]]
    BY <1>9
  <2>. QED  BY <2>1, <2>2, Zenon DEF Below
<1>. QED  BY <1>7, <1>13, <1>14 DEF S, graph

\* A loaded table is exact, and has the entries it is loaded from.
LEMMA LoadFacts ==
  ASSUME NEW entries, IsGraph(entries), Root \in DOMAIN entries
  PROVE  LET D == DOMAIN entries
             u == ValToIndirectionTable(entries)
         IN  /\ Exact(u) /\ DOMAIN u.entries = D /\ SuccsOf(u.entries) = SuccsOf(entries)
             /\ u.refUpperBound \in D
<1>. DEFINE D == DOMAIN entries
            counted == ComputeRefCounts(entries)
            U == {r \in D : counted[r].predCount = 0}
            q == Ascending(U)
            top == Max(D)
            u == [entries |-> counted, garbageQueue |-> q, refUpperBound |-> top,
                  findLoclessIterator |-> NoIterator]
<1>1. D \in SUBSET Ref /\ entries \in Graphs(D)
  BY DEF IsGraph
<1>2. /\ counted \in Graphs(D)
      /\ \A r \in D : /\ counted[r].hasLoc = entries[r].hasLoc
                      /\ counted[r].succs = entries[r].succs
                      /\ counted[r].predCount = Counted(SuccsOf(entries), r)
  BY <1>1, ComputeFacts
<1>. HIDE DEF counted
<1>3. top \in D /\ \A r \in D : r <= top
  BY <1>1, MaxOfNaturals
<1>4. q \in Seq(D) /\ Distinct(q) /\ Range(q) = U
  <2>. HIDE DEF D
  <2>0. \A r \in D : r \in Int
    BY <1>1
  <2>1. U \in SUBSET Int /\ U \in SUBSET D
    BY <2>0
  <2>2. IsFiniteSet(0 .. MaxRef)
    BY FS_Interval
  <2>3. IsFiniteSet(U)
    BY <1>1, <2>1, <2>2, FS_Subset
  <2>. HIDE DEF U
  <2>4. /\ q \in Seq(U) /\ Len(q) = Cardinality(U) /\ Cardinality(U) \in Nat
        /\ \A i, j \in 1 .. Cardinality(U) : i < j => q[i] < q[j]
        /\ \A k \in U : \E i \in 1 .. Cardinality(U) : q[i] = k
    BY <2>1, <2>3, AscendingFacts
  <2>. HIDE DEF q
  <2>5. q \in Seq(D)
    BY <2>1, <2>4, SeqOfLarger
  <2>6. DOMAIN q = 1 .. Cardinality(U)
    BY <2>4
  <2>7. Distinct(q)
    <3>. SUFFICES ASSUME NEW i \in 1 .. Cardinality(U), NEW j \in 1 .. Cardinality(U), q[i] = q[j]
                  PROVE  i = j
      BY <2>6 DEF Distinct
    <3>0. q[i] \in U /\ q[j] \in U
      <4>1. i \in 1 .. Len(q) /\ j \in 1 .. Len(q)
        BY <2>4
      <4>. QED  BY <2>4, <4>1
    <3>1. q[i] \in Int /\ q[j] \in Int
      BY <2>1, <3>0
    <3>2. i \in Int /\ j \in Int
      BY <2>4
    <3>3. ~(i < j) /\ ~(j < i)
      BY <2>4, <3>1
    <3>. QED  BY <3>2, <3>3
  <2>8. Range(q) = U
    BY <2>4, <2>6 DEF Range
  <2>. QED  BY <2>5, <2>7, <2>8
<1>. HIDE DEF q, top
<1>5. /\ u \in Counting(D) /\ u.entries = counted /\ u.garbageQueue = q /\ u.refUpperBound = top
  <2>1. counted \in [D -> [hasLoc : BOOLEAN, succs : Seq(D), predCount : Int]]
    BY <1>2 DEF Graphs
  <2>2. top \in Ref
    BY <1>1, <1>3
  <2>. QED  BY <1>4, <2>1, <2>2 DEF Counting
<1>6. ValToIndirectionTable(entries) = u
  BY DEF ValToIndirectionTable, q, top, counted
<1>. HIDE DEF u
<1>7. DOMAIN counted = D
  BY <1>2 DEF Graphs
<1>8. SuccsOf(u.entries) = SuccsOf(entries)
  BY <1>2, <1>5, <1>7, Zenon DEF SuccsOf
<1>9. QueueMatches(u)
  BY <1>4, <1>5, <1>7 DEF QueueMatches, Count
<1>10. \A r \in D : r <= u.refUpperBound /\ Count(u, r) = Counted(SuccsOf(u.entries), r)
  BY <1>2, <1>3, <1>5, <1>8 DEF Count
<1>11. Exact(u)
  BY <1>1, <1>5, <1>9, <1>10, ExactIsAbout
<1>. QED  BY <1>3, <1>5, <1>6, <1>7, <1>8, <1>11 DEF u

HIDE DEF Ref, Root, End

USE KeyAssumption

-----------------------------------------------------------------------------
\* Nodes

\* The fields of a well formed node.
Parts(pt, ch, bs) ==
  /\ pt \in Seq(Pivot) /\ bs \in Seq(Bucket)
  /\ Len(pt) >= 2 /\ \A i \in 2 .. Len(pt) : pt[i - 1] < pt[i]
  /\ Len(bs) = Len(pt) - 1
  /\ ch = <<>> \/ Len(ch) = Len(bs)
  /\ \A i \in DOMAIN bs : \A k \in DOMAIN bs[i] : pt[i] <= k /\ k < pt[i + 1]

\* Fields with these bounds make a well formed node.
LEMMA NodeOfParts ==
  ASSUME NEW pt, NEW ch, NEW bs, Parts(pt, ch, bs)
  PROVE  WFNode([pivotTable |-> pt, children |-> ch, buckets |-> bs])
<1>. DEFINE node == [pivotTable |-> pt, children |-> ch, buckets |-> bs]
<1>1. node.pivotTable = pt /\ node.children = ch /\ node.buckets = bs
  OBVIOUS
<1>2. node \in [pivotTable : Seq(Pivot), children : {node.children}, buckets : Seq(Bucket)]
  BY DEF Parts
<1>. HIDE DEF node
<1>. QED  BY <1>1, <1>2 DEF WFNode, Parts, IsLeaf

\* A well formed node has such fields, and no others.
LEMMA PartsOfNode ==
  ASSUME NEW node, WFNode(node)
  PROVE  /\ Parts(node.pivotTable, node.children, node.buckets)
         /\ node = [pivotTable |-> node.pivotTable, children |-> node.children,
                    buckets |-> node.buckets]
  BY DEF WFNode, Parts, IsLeaf

\* Pivots are numbers, buckets maps from keys to values.
LEMMA PartsTyped ==
  ASSUME NEW pt, NEW ch, NEW bs, Parts(pt, ch, bs)
  PROVE  /\ Len(pt) \in Nat /\ Len(bs) \in Nat /\ Len(bs) >= 1 /\ Len(pt) = Len(bs) + 1
         /\ DOMAIN pt = 1 .. Len(pt) /\ DOMAIN bs = 1 .. Len(bs)
         /\ \A i \in 1 .. Len(pt) : pt[i] \in 0 .. NumKeys
         /\ \A i \in 1 .. Len(bs) : bs[i] \in Bucket
  BY SMTT(30) DEF Parts, Pivot

\* Every pivot is below all later ones.
LEMMA PivotsAscend ==
  ASSUME NEW pt, NEW ch, NEW bs, Parts(pt, ch, bs)
  PROVE  \A i, j \in 1 .. Len(pt) : i < j => pt[i] < pt[j]
<1>1. /\ Len(pt) \in Nat /\ \A i \in 1 .. Len(pt) : pt[i] \in Int
      /\ \A i \in 2 .. Len(pt) : pt[i - 1] < pt[i]
  <2>1. Len(pt) \in Nat /\ \A i \in 1 .. Len(pt) : pt[i] \in Int
    BY PartsTyped
  <2>2. \A i \in 2 .. Len(pt) : pt[i - 1] < pt[i]
    BY DEF Parts
  <2>. QED  BY <2>1, <2>2
<1>. DEFINE n == Len(pt)
            T == {k \in 0 .. n : \A i, j \in 1 .. n : j = i + k => pt[i] <= pt[j]
                                                     /\ (k > 0 => pt[i] < pt[j])}
<1>. HIDE DEF n
<1>2. 0 \in T
  <2>1. \A i, j \in 1 .. n : j = i + 0 => pt[i] <= pt[j]
    BY <1>1 DEF n
  <2>. QED  BY <2>1, <1>1 DEF n
<1>3. ASSUME NEW k \in 0 .. (n - 1), k \in T
      PROVE  k + 1 \in T
  <2>1. ASSUME NEW i \in 1 .. n, NEW j \in 1 .. n, j = i + (k + 1)
        PROVE  pt[i] < pt[j]
    <3>1. /\ j \in 2 .. n /\ j - 1 \in 1 .. n /\ j - 1 = i + k
          /\ pt[i] \in Int /\ pt[j] \in Int /\ pt[j - 1] \in Int
      BY <2>1, <1>1 DEF n
    <3>2. pt[i] <= pt[j - 1]
      BY <1>3, <3>1
    <3>3. pt[j - 1] < pt[j]
      BY <1>1, <3>1 DEF n
    <3>. QED  BY <3>1, <3>2, <3>3
  <2>2. \A i, j \in 1 .. n : j = i + (k + 1) => pt[i] <= pt[j] /\ (k + 1 > 0 => pt[i] < pt[j])
    <3>1. \A i, j \in 1 .. n : pt[i] < pt[j] => pt[i] <= pt[j]
      BY <1>1 DEF n
    <3>. QED  BY <2>1, <3>1
  <2>3. k + 1 \in 0 .. n
    BY <1>1 DEF n
  <2>. QED  BY <2>2, <2>3
<1>4. \A k \in 0 .. n : k \in T
  <2>1. n \in Nat
    BY <1>1 DEF n
  <2>. HIDE DEF T
  <2>. QED  BY <1>2, <1>3, <2>1, Induction
<1>5. ASSUME NEW i \in 1 .. n, NEW j \in 1 .. n, i < j
      PROVE  pt[i] < pt[j]
  <2>1. n \in Nat
    BY <1>1 DEF n
  <2>2. j - i \in 0 .. n /\ j - i > 0 /\ j = i + (j - i)
    BY <1>5, <2>1
  <2>3. j - i \in T
    BY <1>4, <2>2
  <2>. QED  BY <2>2, <2>3
<1>. QED  BY <1>5 DEF n

\* The bounds of a slot are numbers.
LEMMA BoundsTyped ==
  ASSUME NEW pt, NEW ch, NEW bs, Parts(pt, ch, bs)
  PROVE  \A i \in 1 .. Len(bs) : pt[i] \in Int /\ pt[i + 1] \in Int
<1>1. /\ Len(pt) \in Nat /\ Len(bs) \in Nat /\ Len(pt) = Len(bs) + 1
      /\ \A i \in 1 .. Len(pt) : pt[i] \in 0 .. NumKeys
  BY PartsTyped
<1>2. ASSUME NEW i \in 1 .. Len(bs)
      PROVE  pt[i] \in Int /\ pt[i + 1] \in Int
  <2>1. i \in 1 .. Len(pt) /\ i + 1 \in 1 .. Len(pt)
    BY <1>1
  <2>2. \A x \in 0 .. NumKeys : x \in Int
    OBVIOUS
  <2>. QED  BY <1>1, <2>1, <2>2
<1>. QED  BY <1>2

-----------------------------------------------------------------------------
\* The slot of a key, and of an upper bound.

InSlot(pt, i, key) == i \in 1 .. (Len(pt) - 1) /\ pt[i] <= key /\ key < pt[i + 1]

\* Route finds the slot of a key within the bounds of the node.
LEMMA RouteFacts ==
  ASSUME NEW pt, NEW ch, NEW bs, Parts(pt, ch, bs), NEW key \in Nat, BoundedKey(pt, key)
  PROVE  InSlot(pt, Route(pt, key), key)
<1>1. /\ Len(pt) \in Nat /\ Len(pt) >= 2 /\ \A i \in 1 .. Len(pt) : pt[i] \in Int
      /\ DOMAIN pt = 1 .. Len(pt)
  BY PartsTyped
<1>2. pt[1] <= key /\ key < pt[Len(pt)]
  BY DEF BoundedKey, Last
<1>. DEFINE T == {i \in 1 .. Len(pt) : key < pt[i]}
<1>3. T \in SUBSET Nat /\ T # {}
  BY <1>1, <1>2
<1>4. PICK j \in T : \A m \in T : j <= m
  BY <1>3, LeastNumber
<1>5. j \in 2 .. Len(pt) /\ key < pt[j]
  <2>1. j \in 1 .. Len(pt) /\ key < pt[j] /\ pt[j] \in Int /\ pt[1] \in Int
    BY <1>1
  <2>2. j # 1
    BY <1>2, <2>1
  <2>. QED  BY <2>1, <2>2, <1>1
<1>6. /\ j - 1 \in 1 .. (Len(pt) - 1) /\ j - 1 \in 1 .. Len(pt) /\ (j - 1) + 1 = j
      /\ j - 1 < j
  BY <1>5, <1>1
<1>7. pt[j - 1] <= key
  <2>1. j - 1 \notin T
    BY <1>4, <1>6
  <2>2. ~(key < pt[j - 1]) /\ pt[j - 1] \in Int
    BY <2>1, <1>6, <1>1
  <2>. QED  BY <2>2
<1>8. \E i \in 1 .. (Len(pt) - 1) : pt[i] <= key /\ key < pt[i + 1]
  BY <1>5, <1>6, <1>7
<1>. QED  BY <1>8 DEF InSlot, Route

\* No key is in two slots.
LEMMA SlotUnique ==
  ASSUME NEW pt, NEW ch, NEW bs, Parts(pt, ch, bs), NEW key \in Nat,
         NEW i, NEW j, InSlot(pt, i, key), InSlot(pt, j, key)
  PROVE  i = j
<1>1. /\ Len(pt) \in Nat /\ Len(pt) >= 2 /\ \A m \in 1 .. Len(pt) : pt[m] \in Int
  BY PartsTyped
<1>2. /\ i \in 1 .. (Len(pt) - 1) /\ pt[i] <= key /\ key < pt[i + 1]
      /\ j \in 1 .. (Len(pt) - 1) /\ pt[j] <= key /\ key < pt[j + 1]
  BY DEF InSlot
<1>3. /\ i \in 1 .. Len(pt) /\ i + 1 \in 1 .. Len(pt)
      /\ j \in 1 .. Len(pt) /\ j + 1 \in 1 .. Len(pt)
  BY <1>1, <1>2
<1>4. \A m, n \in 1 .. Len(pt) : m < n => pt[m] < pt[n]
  BY PivotsAscend
<1>5. CASE i < j
  <2>1. pt[i + 1] <= pt[j]
    <3>1. i + 1 = j \/ i + 1 < j
      BY <1>5, <1>2
    <3>2. pt[i + 1] \in Int /\ pt[j] \in Int
      BY <1>1, <1>3
    <3>. QED  BY <1>3, <1>4, <3>1, <3>2
  <2>2. pt[i + 1] \in Int /\ pt[j] \in Int
    BY <1>1, <1>3
  <2>. QED  BY <1>2, <2>1, <2>2
<1>6. CASE j < i
  <2>1. pt[j + 1] <= pt[i]
    <3>1. j + 1 = i \/ j + 1 < i
      BY <1>6, <1>2
    <3>2. pt[j + 1] \in Int /\ pt[i] \in Int
      BY <1>1, <1>3
    <3>. QED  BY <1>3, <1>4, <3>1, <3>2
  <2>2. pt[j + 1] \in Int /\ pt[i] \in Int
    BY <1>1, <1>3
  <2>. QED  BY <1>2, <2>1, <2>2
<1>. QED  BY <1>2, <1>5, <1>6

\* So the slot a key is in is the one Route finds.
LEMMA SlotIsRoute ==
  ASSUME NEW pt, NEW ch, NEW bs, Parts(pt, ch, bs), NEW key \in Nat,
         NEW i, InSlot(pt, i, key)
  PROVE  BoundedKey(pt, key) /\ Route(pt, key) = i
<1>1. /\ Len(pt) \in Nat /\ Len(pt) >= 2 /\ \A m \in 1 .. Len(pt) : pt[m] \in Int
  BY PartsTyped
<1>2. i \in 1 .. (Len(pt) - 1) /\ pt[i] <= key /\ key < pt[i + 1]
  BY DEF InSlot
<1>3. \A m, n \in 1 .. Len(pt) : m < n => pt[m] < pt[n]
  BY PivotsAscend
<1>4. pt[1] <= pt[i] /\ pt[i + 1] <= pt[Len(pt)]
  <2>1. /\ i \in 1 .. Len(pt) /\ i + 1 \in 1 .. Len(pt) /\ 1 \in 1 .. Len(pt)
        /\ Len(pt) \in 1 .. Len(pt)
    BY <1>1, <1>2
  <2>2. 1 = i \/ 1 < i
    BY <1>2
  <2>3. i + 1 = Len(pt) \/ i + 1 < Len(pt)
    BY <1>1, <1>2
  <2>4. /\ pt[1] \in Int /\ pt[i] \in Int /\ pt[i + 1] \in Int /\ pt[Len(pt)] \in Int
    BY <1>1, <2>1
  <2>5. pt[1] <= pt[i]
    BY <1>3, <2>1, <2>2, <2>4
  <2>6. pt[i + 1] <= pt[Len(pt)]
    BY <1>3, <2>1, <2>3, <2>4
  <2>. QED  BY <2>5, <2>6
<1>5. BoundedKey(pt, key)
  <2>1. /\ pt[1] \in Int /\ pt[i] \in Int /\ pt[i + 1] \in Int /\ pt[Len(pt)] \in Int
    BY <1>1, <1>2
  <2>2. pt[1] <= key /\ key < pt[Len(pt)]
    BY <1>2, <1>4, <2>1
  <2>. QED  BY <2>2 DEF BoundedKey, Last
<1>6. InSlot(pt, Route(pt, key), key)
  BY <1>5, RouteFacts
<1>. QED  BY <1>5, <1>6, SlotUnique, Zenon

\* The slot that is cut has the pivot above its lower bound.
LEMMA CutoffFacts ==
  ASSUME NEW pt, NEW ch, NEW bs, Parts(pt, ch, bs), NEW pivot \in Nat,
         ValidLeftCutOffKey(pt, pivot)
  PROVE  LET c == CutoffForLeft(pt, pivot)
         IN  c \in 1 .. (Len(pt) - 1) /\ pt[c] < pivot /\ pivot <= pt[c + 1]
<1>1. /\ Len(pt) \in Nat /\ Len(pt) >= 2 /\ \A i \in 1 .. Len(pt) : pt[i] \in Int
      /\ DOMAIN pt = 1 .. Len(pt)
  BY PartsTyped
<1>2. pt[1] < pivot /\ pivot <= pt[Len(pt)]
  BY DEF ValidLeftCutOffKey, Last
<1>. DEFINE T == {i \in 1 .. Len(pt) : pivot <= pt[i]}
<1>3. T \in SUBSET Nat /\ T # {}
  BY <1>1, <1>2
<1>4. PICK j \in T : \A m \in T : j <= m
  BY <1>3, LeastNumber
<1>5. j \in 2 .. Len(pt) /\ pivot <= pt[j]
  <2>1. j \in 1 .. Len(pt) /\ pivot <= pt[j] /\ pt[j] \in Int /\ pt[1] \in Int
    BY <1>1
  <2>2. j # 1
    BY <1>2, <2>1
  <2>. QED  BY <2>1, <2>2, <1>1
<1>6. /\ j - 1 \in 1 .. (Len(pt) - 1) /\ j - 1 \in 1 .. Len(pt) /\ (j - 1) + 1 = j
      /\ j - 1 < j
  BY <1>5, <1>1
<1>7. pt[j - 1] < pivot
  <2>1. j - 1 \notin T
    BY <1>4, <1>6
  <2>2. ~(pivot <= pt[j - 1]) /\ pt[j - 1] \in Int
    BY <2>1, <1>6, <1>1
  <2>. QED  BY <2>2
<1>8. \E i \in 1 .. (Len(pt) - 1) : pt[i] < pivot /\ pivot <= pt[i + 1]
  BY <1>5, <1>6, <1>7
<1>. QED  BY <1>8 DEF CutoffForLeft

-----------------------------------------------------------------------------
\* Buckets

\* What a bucket is, field by field.
LEMMA BucketFacts ==
  ASSUME NEW b \in Bucket
  PROVE  /\ DOMAIN b \subseteq Key /\ DOMAIN b \subseteq Nat
         /\ \A k \in DOMAIN b : b[k] \in Value
         /\ b = [k \in DOMAIN b |-> b[k]]
         /\ IsFiniteSet(DOMAIN b)
<1>1. PICK ks \in SUBSET Key : b \in [ks -> Value]
  BY DEF Bucket
<1>2. DOMAIN b = ks /\ \A k \in DOMAIN b : b[k] \in Value
  BY <1>1
<1>3. b = [k \in DOMAIN b |-> b[k]]
  BY <1>1
<1>4. Key \subseteq Nat
  BY DEF Key
<1>5. IsFiniteSet(Key)
  <2>1. NumKeys - 1 \in Int
    OBVIOUS
  <2>. QED  BY <2>1, FS_Interval DEF Key
<1>. QED  BY <1>1, <1>2, <1>3, <1>4, <1>5, FS_Subset

\* Any map from keys to values is a bucket.
LEMMA MapIsBucket ==
  ASSUME NEW D \in SUBSET Key, NEW b \in [D -> Value]
  PROVE  b \in Bucket
  BY DEF Bucket

\* A part of a bucket is a bucket with the same messages.
LEMMA RestrictFacts ==
  ASSUME NEW b \in Bucket, NEW S \in SUBSET DOMAIN b
  PROVE  /\ Restrict(b, S) \in Bucket /\ DOMAIN Restrict(b, S) = S
         /\ \A k \in S : Restrict(b, S)[k] = b[k]
<1>1. Restrict(b, S) = [k \in S |-> b[k]]
  BY DEF Restrict
<1>2. DOMAIN b \in SUBSET Key /\ \A k \in DOMAIN b : b[k] \in Value
  BY BucketFacts
<1>3. Restrict(b, S) \in [S -> Value] /\ S \in SUBSET Key
  BY <1>1, <1>2
<1>. QED  BY <1>1, <1>3, MapIsBucket

\* A message that is added replaces that of its key only.
LEMMA PutBucketFacts ==
  ASSUME NEW b \in Bucket, NEW key \in Key, NEW value \in Value
  PROVE  /\ Put(b, key, value) \in Bucket /\ DOMAIN Put(b, key, value) = DOMAIN b \cup {key}
         /\ Put(b, key, value)[key] = value
         /\ \A k \in DOMAIN b : k # key => Put(b, key, value)[k] = b[k]
<1>. DEFINE p == Put(b, key, value)
<1>1. p = [j \in DOMAIN b \cup {key} |-> IF j = key THEN value ELSE b[j]]
  BY DEF Put
<1>2. DOMAIN b \in SUBSET Key /\ \A k \in DOMAIN b : b[k] \in Value
  BY BucketFacts
<1>3. p \in [DOMAIN b \cup {key} -> Value] /\ DOMAIN b \cup {key} \in SUBSET Key
  BY <1>1, <1>2
<1>. QED  BY <1>1, <1>3, MapIsBucket

\* Of two buckets, one over the other, the upper one has precedence.
LEMMA OverFacts ==
  ASSUME NEW b \in Bucket, NEW c \in Bucket
  PROVE  /\ Over(b, c) \in Bucket /\ DOMAIN Over(b, c) = DOMAIN b \cup DOMAIN c
         /\ \A k \in DOMAIN b : Over(b, c)[k] = b[k]
         /\ \A k \in DOMAIN c : k \notin DOMAIN b => Over(b, c)[k] = c[k]
<1>. DEFINE D == DOMAIN b \cup DOMAIN c
<1>1. Over(b, c) = [j \in D |-> IF j \in DOMAIN b THEN b[j] ELSE c[j]]
  BY DEF Over
<1>2. /\ DOMAIN b \in SUBSET Key /\ \A k \in DOMAIN b : b[k] \in Value
      /\ DOMAIN c \in SUBSET Key /\ \A k \in DOMAIN c : c[k] \in Value
  BY BucketFacts
<1>3. Over(b, c) \in [D -> Value] /\ D \in SUBSET Key
  BY <1>1, <1>2
<1>. QED  BY <1>1, <1>3, MapIsBucket

\* Two buckets say the same about a key.
Agree(b, c, key) ==
  /\ key \in DOMAIN b <=> key \in DOMAIN c
  /\ key \in DOMAIN b => b[key] = c[key]

\* Both parts of a bucket agree with it on their side of the pivot.
LEMMA SplitBucketFacts ==
  ASSUME NEW b \in Bucket, NEW pivot \in Nat
  PROVE  LET l == SplitBucketLeft(b, pivot)
             r == SplitBucketRight(b, pivot)
         IN  /\ l \in Bucket /\ r \in Bucket
             /\ DOMAIN l = {k \in DOMAIN b : k < pivot}
             /\ DOMAIN r = {k \in DOMAIN b : k >= pivot}
             /\ \A k \in Nat : k < pivot => Agree(l, b, k)
             /\ \A k \in Nat : k >= pivot => Agree(r, b, k)
<1>. DEFINE S == {k \in DOMAIN b : k < pivot}
            T == {k \in DOMAIN b : k >= pivot}
<1>1. S \in SUBSET DOMAIN b /\ T \in SUBSET DOMAIN b
  OBVIOUS
<1>2. SplitBucketLeft(b, pivot) = Restrict(b, S) /\ SplitBucketRight(b, pivot) = Restrict(b, T)
  BY DEF SplitBucketLeft, SplitBucketRight
<1>3. /\ Restrict(b, S) \in Bucket /\ DOMAIN Restrict(b, S) = S
      /\ \A k \in S : Restrict(b, S)[k] = b[k]
  <2>. HIDE DEF S
  <2>. QED  BY <1>1, RestrictFacts
<1>4. /\ Restrict(b, T) \in Bucket /\ DOMAIN Restrict(b, T) = T
      /\ \A k \in T : Restrict(b, T)[k] = b[k]
  <2>. HIDE DEF T
  <2>. QED  BY <1>1, RestrictFacts
<1>5. \A k \in Nat : k < pivot => Agree(Restrict(b, S), b, k)
  BY <1>3 DEF Agree
<1>6. \A k \in Nat : k >= pivot => Agree(Restrict(b, T), b, k)
  BY <1>4 DEF Agree
<1>. QED  BY <1>2, <1>3, <1>4, <1>5, <1>6

-----------------------------------------------------------------------------
\* What a node has at a key.

BucketAt(node, key) == node.buckets[Route(node.pivotTable, key)]

ChildAt(node, key) == node.children[Route(node.pivotTable, key)]

\* Two nodes have the same at a key.
Same(n, m, key) ==
  /\ BoundedKey(n.pivotTable, key) /\ BoundedKey(m.pivotTable, key)
  /\ Agree(BucketAt(n, key), BucketAt(m, key), key)
  /\ IsLeaf(n) <=> IsLeaf(m)
  /\ ~IsLeaf(n) => ChildAt(n, key) = ChildAt(m, key)

(***************************************************************************)
(* Every slot of a node is part of a slot of another one, with the         *)
(* messages that are within it and the same child: all that cutting off an *)
(* end and splitting in two make of a node.                                *)
(***************************************************************************)
PartOfSlot(n, j, m, i) ==
  /\ m.pivotTable[i] <= n.pivotTable[j] /\ n.pivotTable[j + 1] <= m.pivotTable[i + 1]
  /\ \A k \in Nat : n.pivotTable[j] <= k /\ k < n.pivotTable[j + 1]
                      => Agree(n.buckets[j], m.buckets[i], k)
  /\ ~IsLeaf(m) => n.children[j] = m.children[i]

Narrowed(n, m) ==
  /\ IsLeaf(n) <=> IsLeaf(m)
  /\ \A j \in 1 .. Len(n.buckets) : \E i \in 1 .. Len(m.buckets) : PartOfSlot(n, j, m, i)

\* A narrowed node looks the same for the keys it has left.
LEMMA NarrowedSame ==
  ASSUME NEW n, NEW m, WFNode(n), WFNode(m), Narrowed(n, m),
         NEW key \in Nat, BoundedKey(n.pivotTable, key)
  PROVE  Same(n, m, key)
<1>. DEFINE pt == n.pivotTable  qt == m.pivotTable
<1>1. /\ Parts(n.pivotTable, n.children, n.buckets)
      /\ Parts(m.pivotTable, m.children, m.buckets)
  BY PartsOfNode
<1>2. /\ Len(pt) = Len(n.buckets) + 1 /\ Len(n.buckets) \in Nat
      /\ \A i \in 1 .. Len(pt) : pt[i] \in 0 .. NumKeys
  BY <1>1, PartsTyped
<1>3. /\ Len(qt) = Len(m.buckets) + 1 /\ Len(m.buckets) \in Nat
      /\ \A i \in 1 .. Len(qt) : qt[i] \in 0 .. NumKeys
  BY <1>1, PartsTyped
<1>. DEFINE j == Route(pt, key)
<1>4. InSlot(pt, j, key)
  BY <1>1, RouteFacts
<1>5. j \in 1 .. Len(n.buckets) /\ pt[j] <= key /\ key < pt[j + 1]
  BY <1>2, <1>4 DEF InSlot
<1>. HIDE DEF j
<1>6. PICK i \in 1 .. Len(m.buckets) : PartOfSlot(n, j, m, i)
  BY <1>5 DEF Narrowed
<1>7. qt[i] <= pt[j] /\ pt[j + 1] <= qt[i + 1]
  BY <1>6 DEF PartOfSlot
<1>8. InSlot(qt, i, key)
  <2>1. /\ qt[i] \in Int /\ qt[i + 1] \in Int /\ pt[j] \in Int /\ pt[j + 1] \in Int
    BY <1>1, <1>5, BoundsTyped, Zenon
  <2>2. qt[i] <= key /\ key < qt[i + 1]
    BY <2>1, <1>5, <1>7, SMTT(30)
  <2>3. i \in 1 .. (Len(qt) - 1)
    BY <1>3
  <2>. QED  BY <2>2, <2>3 DEF InSlot
<1>9. BoundedKey(qt, key) /\ Route(qt, key) = i
  BY <1>1, <1>8, SlotIsRoute
<1>10. Agree(n.buckets[j], m.buckets[i], key)
  BY <1>5, <1>6 DEF PartOfSlot
<1>11. IsLeaf(n) <=> IsLeaf(m)
  BY DEF Narrowed
<1>12. ~IsLeaf(m) => n.children[j] = m.children[i]
  BY <1>6 DEF PartOfSlot
<1>. QED  BY <1>9, <1>10, <1>11, <1>12 DEF Same, BucketAt, ChildAt, j

\* Narrowing twice is narrowing.
LEMMA NarrowedTrans ==
  ASSUME NEW n, NEW m, NEW o, WFNode(n), WFNode(m), WFNode(o), Narrowed(n, m), Narrowed(m, o)
  PROVE  Narrowed(n, o)
<1>1. /\ Parts(n.pivotTable, n.children, n.buckets)
      /\ Parts(m.pivotTable, m.children, m.buckets)
      /\ Parts(o.pivotTable, o.children, o.buckets)
  BY PartsOfNode
<1>2. /\ Len(n.pivotTable) = Len(n.buckets) + 1 /\ Len(n.buckets) \in Nat
      /\ \A i \in 1 .. Len(n.pivotTable) : n.pivotTable[i] \in 0 .. NumKeys
  BY <1>1, PartsTyped
<1>3. /\ Len(m.pivotTable) = Len(m.buckets) + 1 /\ Len(m.buckets) \in Nat
      /\ \A i \in 1 .. Len(m.pivotTable) : m.pivotTable[i] \in 0 .. NumKeys
  BY <1>1, PartsTyped
<1>4. /\ Len(o.pivotTable) = Len(o.buckets) + 1 /\ Len(o.buckets) \in Nat
      /\ \A i \in 1 .. Len(o.pivotTable) : o.pivotTable[i] \in 0 .. NumKeys
  BY <1>1, PartsTyped
<1>5. ASSUME NEW j \in 1 .. Len(n.buckets)
      PROVE  \E i \in 1 .. Len(o.buckets) : PartOfSlot(n, j, o, i)
  <2>1. PICK h \in 1 .. Len(m.buckets) : PartOfSlot(n, j, m, h)
    BY <1>5 DEF Narrowed
  <2>2. PICK i \in 1 .. Len(o.buckets) : PartOfSlot(m, h, o, i)
    BY <2>1 DEF Narrowed
  <2>3. /\ n.pivotTable[j] \in Int /\ n.pivotTable[j + 1] \in Int
        /\ m.pivotTable[h] \in Int /\ m.pivotTable[h + 1] \in Int
        /\ o.pivotTable[i] \in Int /\ o.pivotTable[i + 1] \in Int
    BY <1>1, BoundsTyped, Zenon
  <2>. DEFINE a == n.pivotTable[j]  aa == n.pivotTable[j + 1]
              b == m.pivotTable[h]  bb == m.pivotTable[h + 1]
              c == o.pivotTable[i]  cc == o.pivotTable[i + 1]
  <2>8. b <= a /\ aa <= bb
    BY <2>1 DEF PartOfSlot
  <2>9. c <= b /\ bb <= cc
    BY <2>2 DEF PartOfSlot
  <2>10. c <= a /\ aa <= cc
    <3>. HIDE DEF a, aa, b, bb, c, cc
    <3>1. a \in Int /\ aa \in Int /\ b \in Int /\ bb \in Int /\ c \in Int /\ cc \in Int
      BY <2>3 DEF a, aa, b, bb, c, cc
    <3>. QED  BY <2>8, <2>9, <3>1
  <2>4. o.pivotTable[i] <= n.pivotTable[j] /\ n.pivotTable[j + 1] <= o.pivotTable[i + 1]
    BY <2>10
  <2>5. ASSUME NEW k \in Nat, n.pivotTable[j] <= k /\ k < n.pivotTable[j + 1]
        PROVE  Agree(n.buckets[j], o.buckets[i], k)
    <3>1. m.pivotTable[h] <= k /\ k < m.pivotTable[h + 1]
      <4>1. a <= k /\ k < aa
        BY <2>5
      <4>2. b <= k /\ k < bb
        <5>. HIDE DEF a, aa, b, bb, c, cc
        <5>1. a \in Int /\ aa \in Int /\ b \in Int /\ bb \in Int
          BY <2>3 DEF a, aa, b, bb
        <5>. QED  BY <2>8, <4>1, <5>1
      <4>. QED  BY <4>2
    <3>2. Agree(n.buckets[j], m.buckets[h], k)
      BY <2>1, <2>5 DEF PartOfSlot
    <3>3. Agree(m.buckets[h], o.buckets[i], k)
      BY <2>2, <3>1 DEF PartOfSlot
    <3>. QED  BY <3>2, <3>3 DEF Agree
  <2>6. ~IsLeaf(o) => n.children[j] = o.children[i]
    BY <2>1, <2>2 DEF PartOfSlot, Narrowed
  <2>7. PartOfSlot(n, j, o, i)
    BY <2>4, <2>5, <2>6 DEF PartOfSlot
  <2>. QED  BY <2>7
<1>. QED  BY <1>5 DEF Narrowed

\* The slots of n are slots of m, with the same child.
WholeSlot(n, j, m, i) ==
  /\ n.pivotTable[j] = m.pivotTable[i] /\ n.pivotTable[j + 1] = m.pivotTable[i + 1]
  /\ ~IsLeaf(m) => n.children[j] = m.children[i]

SomeSlots(n, m) ==
  \A j \in 1 .. Len(n.buckets) : \E i \in 1 .. Len(m.buckets) : WholeSlot(n, j, m, i)

\* Taking some of the slots twice is taking some of them.
LEMMA SomeSlotsTrans ==
  ASSUME NEW n, NEW m, NEW o, Narrowed(m, o), SomeSlots(n, m), SomeSlots(m, o)
  PROVE  SomeSlots(n, o)
<1>1. IsLeaf(m) <=> IsLeaf(o)
  BY DEF Narrowed
<1>2. ASSUME NEW j \in 1 .. Len(n.buckets)
      PROVE  \E i \in 1 .. Len(o.buckets) : WholeSlot(n, j, o, i)
  <2>1. PICK h \in 1 .. Len(m.buckets) : WholeSlot(n, j, m, h)
    BY <1>2 DEF SomeSlots
  <2>2. PICK i \in 1 .. Len(o.buckets) : WholeSlot(m, h, o, i)
    BY <2>1 DEF SomeSlots
  <2>3. WholeSlot(n, j, o, i)
    BY <1>1, <2>1, <2>2 DEF WholeSlot
  <2>. QED  BY <2>3
<1>. QED  BY <1>2 DEF SomeSlots

-----------------------------------------------------------------------------
\* Parts of sequences.

\* A segment of a sequence, by its indices.
LEMMA SegmentFacts ==
  ASSUME NEW S, NEW s \in Seq(S), NEW a \in 1 .. Len(s), NEW b \in a .. Len(s)
  PROVE  /\ SubSeq(s, a, b) \in Seq(S) /\ Len(SubSeq(s, a, b)) = b - a + 1
         /\ \A i \in 1 .. (b - a + 1) : SubSeq(s, a, b)[i] = s[a + i - 1]
<1>1. a \in Int /\ b \in Int /\ a <= b /\ Len(s) \in Nat
  OBVIOUS
<1>2. \A i \in a .. b : s[i] \in S
  BY <1>1, ElementOfSeq
<1>. QED  BY <1>1, <1>2, SubSeqProperties

\* The sequence t is s with e in front of its i-th element.
Inserted(S, s, i, e, t) ==
  /\ t \in Seq(S) /\ Len(t) = Len(s) + 1
  /\ \A j \in 1 .. (Len(s) + 1) :
       t[j] = IF j < i THEN s[j] ELSE IF j = i THEN e ELSE s[j - 1]

\* What InsertAt of the community modules gives.
LEMMA InsertAtFacts ==
  ASSUME NEW S, NEW s \in Seq(S), NEW i \in 1 .. (Len(s) + 1), NEW e \in S
  PROVE  Inserted(S, s, i, e, InsertAt(s, i, e))
<1>. DEFINE n == Len(s)
            l == SubSeq(s, 1, i - 1)
            r == SubSeq(s, i, n)
<1>1. n \in Nat /\ i - 1 \in Int /\ i \in Int
  OBVIOUS
<1>2. (\A j \in 1 .. (i - 1) : s[j] \in S) /\ (\A j \in i .. n : s[j] \in S)
  BY <1>1, ElementOfSeq
<1>3. /\ l \in Seq(S) /\ Len(l) = i - 1 /\ \A j \in 1 .. (i - 1) : l[j] = s[j]
  <2>1. /\ l \in Seq(S) /\ Len(l) = (IF 1 <= i - 1 THEN (i - 1) - 1 + 1 ELSE 0)
        /\ \A j \in 1 .. ((i - 1) - 1 + 1) : l[j] = s[1 + j - 1]
    BY <1>1, <1>2, SubSeqProperties
  <2>. QED  BY <2>1, <1>1
<1>4. /\ r \in Seq(S) /\ Len(r) = n - i + 1 /\ \A j \in 1 .. (n - i + 1) : r[j] = s[i + j - 1]
  <2>1. /\ r \in Seq(S) /\ Len(r) = (IF i <= n THEN n - i + 1 ELSE 0)
        /\ \A j \in 1 .. (n - i + 1) : r[j] = s[i + j - 1]
    BY <1>1, <1>2, SubSeqProperties
  <2>. QED  BY <2>1, <1>1
<1>5. <<e>> \in Seq(S) /\ Len(<<e>>) = 1 /\ <<e>>[1] = e
  OBVIOUS
<1>. DEFINE m == l \o <<e>>
<1>. HIDE DEF l, r, n
<1>6. /\ m \in Seq(S) /\ Len(m) = i
      /\ \A j \in 1 .. i : m[j] = IF j < i THEN s[j] ELSE e
  <2>1. /\ m \in Seq(S) /\ Len(m) = Len(l) + Len(<<e>>)
        /\ \A j \in 1 .. Len(l) + Len(<<e>>) :
             m[j] = IF j <= Len(l) THEN l[j] ELSE <<e>>[j - Len(l)]
    BY <1>3, <1>5, ConcatProperties
  <2>2. Len(m) = i
    BY <2>1, <1>1, <1>3, <1>5
  <2>3. ASSUME NEW j \in 1 .. i
        PROVE  m[j] = IF j < i THEN s[j] ELSE e
    <3>1. CASE j < i
      BY <3>1, <2>1, <1>1, <1>3, <1>5
    <3>2. CASE j = i
      BY <3>2, <2>1, <1>1, <1>3, <1>5
    <3>3. j < i \/ j = i
      BY <1>1
    <3>. QED  BY <3>1, <3>2, <3>3
  <2>. QED  BY <2>1, <2>2, <2>3
<1>. HIDE DEF m
<1>7. /\ m \o r \in Seq(S) /\ Len(m \o r) = n + 1
      /\ \A j \in 1 .. (n + 1) : (m \o r)[j] = IF j <= i THEN m[j] ELSE r[j - i]
  <2>1. /\ m \o r \in Seq(S) /\ Len(m \o r) = Len(m) + Len(r)
        /\ \A j \in 1 .. Len(m) + Len(r) :
             (m \o r)[j] = IF j <= Len(m) THEN m[j] ELSE r[j - Len(m)]
    BY <1>4, <1>6, ConcatProperties
  <2>2. Len(m) = i /\ Len(m) + Len(r) = n + 1
    BY <1>1, <1>4, <1>6
  <2>. QED  BY <2>1, <2>2
<1>8. InsertAt(s, i, e) = m \o r
  BY DEF InsertAt, m, l, r, n
<1>9. ASSUME NEW j \in 1 .. (n + 1)
      PROVE  (m \o r)[j] = IF j < i THEN s[j] ELSE IF j = i THEN e ELSE s[j - 1]
  <2>1. CASE j <= i
    BY <2>1, <1>6, <1>7, <1>1
  <2>2. CASE j > i
    <3>1. j - i \in 1 .. (n - i + 1) /\ i + (j - i) - 1 = j - 1
      BY <2>2, <1>1
    <3>2. r[j - i] = s[j - 1]
      BY <3>1, <1>4
    <3>3. (m \o r)[j] = IF j <= i THEN m[j] ELSE r[j - i]
      BY <1>7, Zenon
    <3>4. ~(j <= i) /\ ~(j < i) /\ j # i
      BY <2>2, <1>1
    <3>. QED  BY <3>2, <3>3, <3>4, Zenon
  <2>3. j <= i \/ j > i
    BY <1>1
  <2>. QED  BY <2>1, <2>2, <2>3
<1>. QED  BY <1>7, <1>8, <1>9 DEF n, Inserted

\* The sequence t is s with a and b in the place of its i-th element.
TwoForOne(S, s, a, b, i, t) ==
  /\ t \in Seq(S) /\ Len(t) = Len(s) + 1
  /\ \A j \in 1 .. (i - 1) : t[j] = s[j]
  /\ t[i] = a /\ t[i + 1] = b
  /\ \A j \in (i + 2) .. (Len(s) + 1) : t[j] = s[j - 1]

\* What replace1with2 gives.
LEMMA ReplaceTwoFacts ==
  ASSUME NEW S, NEW s \in Seq(S), NEW i \in 1 .. Len(s), NEW a \in S, NEW b \in S
  PROVE  TwoForOne(S, s, a, b, i, Replace1with2(s, a, b, i))
<1>. DEFINE r == ReplaceAt(s, i, b)
            n == Len(s)
<1>1. n \in Nat /\ i \in 1 .. n
  OBVIOUS
<1>2. /\ r \in Seq(S) /\ Len(r) = n
      /\ \A j \in 1 .. n : r[j] = IF j = i THEN b ELSE s[j]
  BY ExceptSeq DEF ReplaceAt
<1>. DEFINE t == InsertAt(r, i, a)
<1>. HIDE DEF r, n
<1>3. i \in 1 .. (Len(r) + 1)
  BY <1>1, <1>2
<1>4. /\ t \in Seq(S) /\ Len(t) = Len(r) + 1
      /\ \A j \in 1 .. (Len(r) + 1) :
           t[j] = IF j < i THEN r[j] ELSE IF j = i THEN a ELSE r[j - 1]
  <2>1. r \in Seq(S) /\ a \in S
    BY <1>2
  <2>2. Inserted(S, r, i, a, t)
    BY <1>3, <2>1, InsertAtFacts
  <2>. QED  BY <2>2 DEF Inserted
<1>. HIDE DEF t
<1>5. ASSUME NEW j \in 1 .. (i - 1)
      PROVE  t[j] = s[j]
  <2>1. j \in 1 .. (Len(r) + 1) /\ j < i /\ j \in 1 .. n /\ j # i
    BY <1>1, <1>2
  <2>2. t[j] = r[j]
    BY <2>1, <1>4
  <2>. QED  BY <2>1, <2>2, <1>2
<1>6. t[i] = a
  BY <1>1, <1>2, <1>4
<1>7. t[i + 1] = b
  BY <1>1, <1>2, <1>4
<1>8. ASSUME NEW j \in (i + 2) .. (n + 1)
      PROVE  t[j] = s[j - 1]
  <2>1. j \in 1 .. (n + 1) /\ ~(j < i) /\ j # i /\ j - 1 \in 1 .. n /\ j - 1 # i
    BY <1>1
  <2>2. t[j] = r[j - 1]
    BY <2>1, <1>2, <1>4
  <2>. QED  BY <2>1, <2>2, <1>2
<1>9. Replace1with2(s, a, b, i) = t
  BY DEF Replace1with2, t, r
<1>. QED  BY <1>2, <1>4, <1>5, <1>6, <1>7, <1>8, <1>9 DEF n, TwoForOne

-----------------------------------------------------------------------------
\* What the operations make of a node.

\* The slots from a to b.
Segment(node, a, b) ==
  [pivotTable |-> SubSeq(node.pivotTable, a, b + 1),
   children   |-> IF IsLeaf(node) THEN <<>> ELSE SubSeq(node.children, a, b),
   buckets    |-> SubSeq(node.buckets, a, b)]

\* The slots from a to b of a node, as they are, are a node.
LEMMA SegmentNode ==
  ASSUME NEW S, NEW node, WFNode(node), node.children \in Seq(S),
         NEW a \in 1 .. Len(node.buckets), NEW b \in a .. Len(node.buckets)
  PROVE  LET p == Segment(node, a, b)
         IN  /\ WFNode(p) /\ p.children \in Seq(S) /\ Narrowed(p, node)
             /\ p.pivotTable[1] = node.pivotTable[a]
             /\ Last(p.pivotTable) = node.pivotTable[b + 1]
             /\ Len(p.buckets) = b - a + 1 /\ SomeSlots(p, node)
<1>. DEFINE pt == node.pivotTable  ch == node.children  bs == node.buckets
            p == Segment(node, a, b)
            qt == SubSeq(pt, a, b + 1)
            cs == IF IsLeaf(node) THEN <<>> ELSE SubSeq(ch, a, b)
            ds == SubSeq(bs, a, b)
            m == b - a + 1
<1>1. Parts(pt, ch, bs)
  BY PartsOfNode
<1>2. /\ Len(pt) \in Nat /\ Len(bs) \in Nat /\ Len(pt) = Len(bs) + 1
      /\ DOMAIN bs = 1 .. Len(bs)
  BY <1>1, PartsTyped
<1>3. /\ a \in 1 .. Len(pt) /\ b + 1 \in a .. Len(pt) /\ m \in Nat /\ m >= 1
      /\ (b + 1) - a + 1 = m + 1 /\ a \in Nat /\ b \in Nat /\ b <= Len(bs)
  BY <1>2
<1>4. /\ pt \in Seq(Pivot) /\ bs \in Seq(Bucket) /\ (IsLeaf(node) \/ Len(ch) = Len(bs))
      /\ \A i \in 2 .. Len(pt) : pt[i - 1] < pt[i]
      /\ \A i \in DOMAIN bs : \A k \in DOMAIN bs[i] : pt[i] <= k /\ k < pt[i + 1]
  BY <1>1 DEF Parts, IsLeaf
<1>. HIDE DEF pt, ch, bs
<1>5. /\ qt \in Seq(Pivot) /\ Len(qt) = m + 1
      /\ \A i \in 1 .. (m + 1) : qt[i] = pt[a + i - 1]
  <2>1. /\ qt \in Seq(Pivot) /\ Len(qt) = (b + 1) - a + 1
        /\ \A i \in 1 .. ((b + 1) - a + 1) : qt[i] = pt[a + i - 1]
    BY <1>3, <1>4, SegmentFacts
  <2>. QED  BY <2>1, <1>3
<1>6. /\ ds \in Seq(Bucket) /\ Len(ds) = m /\ \A i \in 1 .. m : ds[i] = bs[a + i - 1]
  BY <1>4, SegmentFacts DEF bs
<1>7. /\ cs \in Seq(S) /\ (IsLeaf(node) => cs = <<>>)
      /\ ~IsLeaf(node) => Len(cs) = m /\ cs # <<>> /\ \A i \in 1 .. m : cs[i] = ch[a + i - 1]
  <2>1. CASE IsLeaf(node)
    BY <2>1
  <2>2. CASE ~IsLeaf(node)
    <3>1. ch \in Seq(S) /\ a \in 1 .. Len(ch) /\ b \in a .. Len(ch)
      BY <2>2, <1>4 DEF ch, bs
    <3>2. /\ SubSeq(ch, a, b) \in Seq(S) /\ Len(SubSeq(ch, a, b)) = m
          /\ \A i \in 1 .. m : SubSeq(ch, a, b)[i] = ch[a + i - 1]
      BY <3>1, SegmentFacts, Zenon
    <3>3. SubSeq(ch, a, b) # <<>>
      <4>1. Len(<<>>) = 0 /\ Len(SubSeq(ch, a, b)) # 0
        BY <3>2, <1>3
      <4>. QED  BY <4>1
    <3>. QED  BY <2>2, <3>2, <3>3
  <2>. QED  BY <2>1, <2>2
<1>8. p = [pivotTable |-> qt, children |-> cs, buckets |-> ds]
  BY DEF Segment, pt, ch, bs
<1>. HIDE DEF p, qt, cs, ds, m
<1>9. \A i \in 1 .. m : /\ a + i - 1 \in 1 .. Len(bs) /\ (a + i - 1) + 1 = a + (i + 1) - 1
                        /\ qt[i] = pt[a + i - 1] /\ qt[i + 1] = pt[(a + i - 1) + 1]
                        /\ ds[i] = bs[a + i - 1]
  <2>1. ASSUME NEW i \in 1 .. m
        PROVE  /\ a + i - 1 \in 1 .. Len(bs) /\ (a + i - 1) + 1 = a + (i + 1) - 1
               /\ qt[i] = pt[a + i - 1] /\ qt[i + 1] = pt[(a + i - 1) + 1]
               /\ ds[i] = bs[a + i - 1]
    <3>1. /\ a + i - 1 \in 1 .. Len(bs) /\ (a + i - 1) + 1 = a + (i + 1) - 1
          /\ i \in 1 .. (m + 1) /\ i + 1 \in 1 .. (m + 1)
      BY <1>2, <1>3 DEF m
    <3>2. qt[i] = pt[a + i - 1] /\ qt[i + 1] = pt[a + (i + 1) - 1]
      BY <3>1, <1>5
    <3>. QED  BY <3>1, <3>2, <1>6
  <2>. QED  BY <2>1
<1>10. \A i \in 2 .. Len(qt) : qt[i - 1] < qt[i]
  <2>1. ASSUME NEW i \in 2 .. Len(qt)
        PROVE  qt[i - 1] < qt[i]
    <3>1. i - 1 \in 1 .. m /\ (i - 1) + 1 = i
      BY <1>3, <1>5
    <3>. DEFINE j == a + (i - 1) - 1
    <3>2. j \in 1 .. Len(bs) /\ qt[i - 1] = pt[j] /\ qt[i] = pt[j + 1]
      BY <3>1, <1>9
    <3>3. j + 1 \in 2 .. Len(pt) /\ (j + 1) - 1 = j
      BY <3>2, <1>2
    <3>4. pt[j] < pt[j + 1]
      BY <3>3, <1>4
    <3>. QED  BY <3>2, <3>4
  <2>. QED  BY <2>1
<1>11. \A i \in DOMAIN ds : \A k \in DOMAIN ds[i] : qt[i] <= k /\ k < qt[i + 1]
  <2>1. DOMAIN ds = 1 .. m
    BY <1>6
  <2>2. ASSUME NEW i \in 1 .. m, NEW k \in DOMAIN ds[i]
        PROVE  qt[i] <= k /\ k < qt[i + 1]
    <3>. DEFINE j == a + i - 1
    <3>1. /\ j \in DOMAIN bs /\ qt[i] = pt[j] /\ qt[i + 1] = pt[j + 1] /\ ds[i] = bs[j]
      BY <1>9, <1>2
    <3>. HIDE DEF j
    <3>. QED  BY <3>1, <1>4
  <2>. QED  BY <2>1, <2>2
<1>12. Parts(qt, cs, ds)
  BY <1>3, <1>5, <1>6, <1>7, <1>10, <1>11 DEF Parts
<1>13. WFNode(p)
  BY <1>8, <1>12, NodeOfParts
<1>14. /\ p.pivotTable = qt /\ p.children = cs /\ p.buckets = ds
       /\ IsLeaf(p) <=> IsLeaf(node)
  BY <1>7, <1>8 DEF IsLeaf
<1>15. Narrowed(p, node)
  <2>1. ASSUME NEW j \in 1 .. m
        PROVE  PartOfSlot(p, j, node, a + j - 1)
    <3>1. /\ p.pivotTable[j] = pt[a + j - 1] /\ p.pivotTable[j + 1] = pt[(a + j - 1) + 1]
          /\ p.buckets[j] = bs[a + j - 1] /\ a + j - 1 \in 1 .. Len(bs)
      BY <1>9, <1>14
    <3>2. ~IsLeaf(node) => p.children[j] = ch[a + j - 1]
      BY <1>7, <1>14
    <3>3. pt[a + j - 1] <= pt[a + j - 1] /\ pt[(a + j - 1) + 1] <= pt[(a + j - 1) + 1]
      <4>. DEFINE h == a + j - 1
      <4>1. pt[h] \in Int /\ pt[h + 1] \in Int
        BY <3>1, <1>1, BoundsTyped DEF pt, bs
      <4>. QED  BY <4>1
    <3>. QED  BY <3>1, <3>2, <3>3 DEF PartOfSlot, Agree, pt, ch, bs
  <2>2. \A j \in 1 .. m : a + j - 1 \in 1 .. Len(bs)
    BY <1>9
  <2>. QED  BY <2>1, <2>2, <1>6, <1>14 DEF Narrowed, bs
<1>16. qt[1] = pt[a] /\ Last(qt) = pt[b + 1]
  <2>1. 1 \in 1 .. (m + 1) /\ m + 1 \in 1 .. (m + 1) /\ a + 1 - 1 = a /\ a + (m + 1) - 1 = b + 1
    BY <1>3 DEF m
  <2>. QED  BY <2>1, <1>5 DEF Last
<1>17. SomeSlots(p, node)
  <2>1. ASSUME NEW j \in 1 .. m
        PROVE  a + j - 1 \in 1 .. Len(bs) /\ WholeSlot(p, j, node, a + j - 1)
    <3>1. /\ p.pivotTable[j] = pt[a + j - 1] /\ p.pivotTable[j + 1] = pt[(a + j - 1) + 1]
          /\ a + j - 1 \in 1 .. Len(bs)
      BY <1>9, <1>14
    <3>2. ~IsLeaf(node) => p.children[j] = ch[a + j - 1]
      BY <1>7, <1>14
    <3>. QED  BY <3>1, <3>2 DEF WholeSlot, pt, ch
  <2>. QED  BY <2>1, <1>6, <1>14 DEF SomeSlots, bs
<1>. QED  BY <1>6, <1>7, <1>13, <1>14, <1>15, <1>16, <1>17 DEF p, m, pt

\* Both halves of a split node are nodes, with the bounds of the node outside.
LEMMA SplitChildFacts ==
  ASSUME NEW S, NEW node, WFNode(node), node.children \in Seq(S),
         NEW numLeft \in 1 .. (Len(node.buckets) - 1)
  PROVE  LET l == SplitChildLeft(node, numLeft)
             r == SplitChildRight(node, numLeft)
         IN  /\ WFNode(l) /\ l.children \in Seq(S) /\ Narrowed(l, node) /\ SomeSlots(l, node)
             /\ WFNode(r) /\ r.children \in Seq(S) /\ Narrowed(r, node) /\ SomeSlots(r, node)
             /\ l.pivotTable[1] = node.pivotTable[1]
             /\ Last(l.pivotTable) = node.pivotTable[numLeft + 1]
             /\ r.pivotTable[1] = node.pivotTable[numLeft + 1]
             /\ Last(r.pivotTable) = Last(node.pivotTable)
<1>. DEFINE n == Len(node.buckets)
<1>1. /\ n \in Nat /\ Len(node.pivotTable) = n + 1
  BY PartsOfNode, PartsTyped
<1>2. SplitChildLeft(node, numLeft) = Segment(node, 1, numLeft)
  <2>1. IsLeaf(node) => SubSeq(node.children, 1, 0) = <<>>
    BY SubSeqEmpty
  <2>. QED  BY <2>1 DEF SplitChildLeft, Segment
<1>3. SplitChildRight(node, numLeft) = Segment(node, numLeft + 1, n)
  BY DEF SplitChildRight, Segment
<1>4. /\ 1 \in 1 .. n /\ numLeft \in 1 .. n /\ numLeft + 1 \in 1 .. n
      /\ n \in (numLeft + 1) .. n
  BY <1>1
<1>5. LET p == Segment(node, 1, numLeft)
      IN  /\ WFNode(p) /\ p.children \in Seq(S) /\ Narrowed(p, node) /\ SomeSlots(p, node)
          /\ p.pivotTable[1] = node.pivotTable[1]
          /\ Last(p.pivotTable) = node.pivotTable[numLeft + 1]
  <2>1. 1 \in 1 .. Len(node.buckets) /\ numLeft \in 1 .. Len(node.buckets)
    BY <1>4
  <2>. DEFINE one == 1
  <2>2. one \in 1 .. Len(node.buckets) /\ numLeft \in one .. Len(node.buckets)
    BY <2>1
  <2>. HIDE DEF one
  <2>3. LET p == Segment(node, one, numLeft)
        IN  /\ WFNode(p) /\ p.children \in Seq(S) /\ Narrowed(p, node) /\ SomeSlots(p, node)
            /\ p.pivotTable[1] = node.pivotTable[one]
            /\ Last(p.pivotTable) = node.pivotTable[numLeft + 1]
    BY <2>2, SegmentNode
  <2>. QED  BY <2>3 DEF one
<1>6. LET p == Segment(node, numLeft + 1, n)
      IN  /\ WFNode(p) /\ p.children \in Seq(S) /\ Narrowed(p, node) /\ SomeSlots(p, node)
          /\ p.pivotTable[1] = node.pivotTable[numLeft + 1]
          /\ Last(p.pivotTable) = node.pivotTable[n + 1]
  <2>. HIDE DEF n
  <2>. QED  BY <1>4, SegmentNode, SMTT(30) DEF n
<1>7. node.pivotTable[n + 1] = Last(node.pivotTable)
  BY <1>1 DEF Last
<1>. QED  BY <1>2, <1>3, <1>5, <1>6, <1>7

\* Part of a node, given slot by slot.
LEMMA NarrowedNode ==
  ASSUME NEW S, NEW node, WFNode(node),
         NEW qt \in Seq(Pivot), NEW cs \in Seq(S), NEW ds \in Seq(Bucket),
         Len(ds) >= 1, Len(qt) = Len(ds) + 1,
         IsLeaf(node) => cs = <<>>,
         ~IsLeaf(node) => Len(cs) = Len(ds),
         \A j \in 1 .. Len(ds) :
           /\ qt[j] < qt[j + 1]
           /\ \A k \in DOMAIN ds[j] : qt[j] <= k /\ k < qt[j + 1]
           /\ \E i \in 1 .. Len(node.buckets) :
                PartOfSlot([pivotTable |-> qt, children |-> cs, buckets |-> ds], j, node, i)
  PROVE  LET p == [pivotTable |-> qt, children |-> cs, buckets |-> ds]
         IN  WFNode(p) /\ Narrowed(p, node)
<1>. DEFINE p == [pivotTable |-> qt, children |-> cs, buckets |-> ds]
<1>1. /\ Len(ds) \in Nat /\ DOMAIN ds = 1 .. Len(ds)
  OBVIOUS
<1>2. p.pivotTable = qt /\ p.children = cs /\ p.buckets = ds
  OBVIOUS
<1>3. Parts(qt, cs, ds)
  <2>1. \A i \in 2 .. Len(qt) : qt[i - 1] < qt[i]
    <3>1. ASSUME NEW i \in 2 .. Len(qt)
          PROVE  qt[i - 1] < qt[i]
      <4>1. i - 1 \in 1 .. Len(ds) /\ (i - 1) + 1 = i
        BY <1>1
      <4>2. qt[i - 1] < qt[(i - 1) + 1]
        BY <4>1
      <4>. QED  BY <4>1, <4>2
    <3>. QED  BY <3>1
  <2>2. Len(qt) >= 2
    BY <1>1
  <2>3. Len(ds) = Len(qt) - 1
    BY <1>1
  <2>. QED  BY <1>1, <2>1, <2>2, <2>3 DEF Parts
<1>4. WFNode(p)
  BY <1>3, NodeOfParts
<1>. HIDE DEF p
<1>5. IsLeaf(p) <=> IsLeaf(node)
  <2>1. ~IsLeaf(node) => cs # <<>>
    <3>1. Len(<<>>) = 0
      OBVIOUS
    <3>. QED  BY <1>1, <3>1
  <2>2. IsLeaf(p) <=> cs = <<>>
    BY <1>2 DEF IsLeaf
  <2>. QED  BY <2>1, <2>2
<1>6. \A j \in 1 .. Len(p.buckets) : \E i \in 1 .. Len(node.buckets) : PartOfSlot(p, j, node, i)
  BY <1>2 DEF p
<1>. QED  BY <1>4, <1>5, <1>6 DEF Narrowed, p

\* Cutting off what is right of a pivot gives a node that ends there.
LEMMA CutLeftFacts ==
  ASSUME NEW S, NEW node, WFNode(node), node.children \in Seq(S),
         NEW pivot \in Nat, ValidLeftCutOffKey(node.pivotTable, pivot)
  PROVE  LET l == CutoffNodeAndKeepLeft(node, pivot)
         IN  /\ WFNode(l) /\ l.children \in Seq(S) /\ Narrowed(l, node)
             /\ l.pivotTable[1] = node.pivotTable[1] /\ Last(l.pivotTable) = pivot
             /\ pivot = Last(node.pivotTable) => SomeSlots(l, node)
<1>. DEFINE pt == node.pivotTable  ch == node.children  bs == node.buckets
            c == CutoffForLeft(pt, pivot)
            qt == Append(SubSeq(pt, 1, c), pivot)
            cs == IF IsLeaf(node) THEN <<>> ELSE SubSeq(ch, 1, c)
            ds == Append(SubSeq(bs, 1, c - 1), SplitBucketLeft(bs[c], pivot))
            p == [pivotTable |-> qt, children |-> cs, buckets |-> ds]
<1>1. Parts(pt, ch, bs)
  BY PartsOfNode
<1>2. /\ Len(pt) \in Nat /\ Len(bs) \in Nat /\ Len(pt) = Len(bs) + 1
      /\ DOMAIN bs = 1 .. Len(bs) /\ \A i \in 1 .. Len(bs) : bs[i] \in Bucket
  BY <1>1, PartsTyped
<1>3. /\ c \in 1 .. Len(bs) /\ pt[c] < pivot /\ pivot <= pt[c + 1]
  <2>1. c \in 1 .. (Len(pt) - 1) /\ pt[c] < pivot /\ pivot <= pt[c + 1]
    BY <1>1, CutoffFacts
  <2>. QED  BY <2>1, <1>2
<1>4. /\ pt \in Seq(Pivot) /\ bs \in Seq(Bucket) /\ (IsLeaf(node) \/ Len(ch) = Len(bs))
      /\ \A i \in 2 .. Len(pt) : pt[i - 1] < pt[i]
      /\ \A i \in DOMAIN bs : \A k \in DOMAIN bs[i] : pt[i] <= k /\ k < pt[i + 1]
  BY <1>1 DEF Parts, IsLeaf
<1>5. ch \in Seq(S)
  OBVIOUS
<1>6. CutoffNodeAndKeepLeft(node, pivot) = p
  BY DEF CutoffNodeAndKeepLeft
<1>. HIDE DEF pt, ch, bs, c
<1>7. /\ qt \in Seq(Pivot) /\ Len(qt) = c + 1
      /\ \A i \in 1 .. c : qt[i] = pt[i]
      /\ qt[c + 1] = pivot
  <2>1. \A i \in 1 .. c : pt[i] \in Pivot
    BY <1>2, <1>3, <1>4, ElementOfSeq
  <2>2. /\ SubSeq(pt, 1, c) \in Seq(Pivot) /\ Len(SubSeq(pt, 1, c)) = c
        /\ \A i \in 1 .. c : SubSeq(pt, 1, c)[i] = pt[i]
    <3>1. c \in Int /\ 1 \in Int /\ 1 <= c
      BY <1>3
    <3>2. /\ SubSeq(pt, 1, c) \in Seq(Pivot)
          /\ Len(SubSeq(pt, 1, c)) = (IF 1 <= c THEN c - 1 + 1 ELSE 0)
          /\ \A i \in 1 .. c - 1 + 1 : SubSeq(pt, 1, c)[i] = pt[1 + i - 1]
      BY <2>1, <3>1, SubSeqProperties
    <3>. QED  BY <3>1, <3>2
  <2>3. pivot \in Pivot
    <3>1. c + 1 \in 1 .. Len(pt)
      BY <1>2, <1>3
    <3>2. pt[c + 1] \in 0 .. NumKeys
      BY <1>1, <3>1, PartsTyped
    <3>. QED  BY <1>3, <3>2 DEF Pivot
  <2>. HIDE DEF qt
  <2>4. /\ qt \in Seq(Pivot) /\ Len(qt) = Len(SubSeq(pt, 1, c)) + 1
        /\ \A i \in 1 .. Len(SubSeq(pt, 1, c)) : qt[i] = SubSeq(pt, 1, c)[i]
        /\ qt[Len(SubSeq(pt, 1, c)) + 1] = pivot
    BY <2>2, <2>3, AppendProperties DEF qt
  <2>. QED  BY <2>2, <2>4
<1>8. /\ SplitBucketLeft(bs[c], pivot) \in Bucket
      /\ DOMAIN SplitBucketLeft(bs[c], pivot) = {k \in DOMAIN bs[c] : k < pivot}
      /\ \A k \in Nat : k < pivot => Agree(SplitBucketLeft(bs[c], pivot), bs[c], k)
  BY <1>2, <1>3, SplitBucketFacts
<1>9. /\ ds \in Seq(Bucket) /\ Len(ds) = c
      /\ \A i \in 1 .. (c - 1) : ds[i] = bs[i]
      /\ ds[c] = SplitBucketLeft(bs[c], pivot)
  <2>. DEFINE s == SubSeq(bs, 1, c - 1)
  <2>1. \A i \in 1 .. (c - 1) : bs[i] \in Bucket
    BY <1>2, <1>3
  <2>2. s \in Seq(Bucket) /\ Len(s) = c - 1 /\ \A i \in 1 .. (c - 1) : s[i] = bs[i]
    <3>1. c - 1 \in Int /\ 1 \in Int
      BY <1>3
    <3>2. /\ s \in Seq(Bucket)
          /\ Len(s) = (IF 1 <= c - 1 THEN (c - 1) - 1 + 1 ELSE 0)
          /\ \A i \in 1 .. (c - 1) - 1 + 1 : s[i] = bs[1 + i - 1]
      BY <2>1, <3>1, SubSeqProperties
    <3>. QED  BY <3>1, <3>2, <1>3
  <2>. HIDE DEF s
  <2>3. /\ Append(s, SplitBucketLeft(bs[c], pivot)) \in Seq(Bucket)
        /\ Len(Append(s, SplitBucketLeft(bs[c], pivot))) = Len(s) + 1
        /\ \A i \in 1 .. Len(s) : Append(s, SplitBucketLeft(bs[c], pivot))[i] = s[i]
        /\ Append(s, SplitBucketLeft(bs[c], pivot))[Len(s) + 1] = SplitBucketLeft(bs[c], pivot)
    BY <1>8, <2>2, AppendProperties
  <2>4. Len(s) + 1 = c
    BY <2>2, <1>3
  <2>5. ds = Append(s, SplitBucketLeft(bs[c], pivot))
    BY DEF s
  <2>. HIDE DEF ds
  <2>. QED  BY <2>2, <2>3, <2>4, <2>5
<1>10. /\ cs \in Seq(S) /\ (IsLeaf(node) => cs = <<>>)
       /\ ~IsLeaf(node) => Len(cs) = c /\ \A i \in 1 .. c : cs[i] = ch[i]
  <2>1. CASE IsLeaf(node)
    BY <2>1
  <2>2. CASE ~IsLeaf(node)
    <3>1. \A i \in 1 .. c : ch[i] \in S
      BY <2>2, <1>2, <1>3, <1>4, <1>5, ElementOfSeq
    <3>2. c \in Int /\ 1 \in Int /\ 1 <= c
      BY <1>3
    <3>3. /\ SubSeq(ch, 1, c) \in Seq(S)
          /\ Len(SubSeq(ch, 1, c)) = (IF 1 <= c THEN c - 1 + 1 ELSE 0)
          /\ \A i \in 1 .. c - 1 + 1 : SubSeq(ch, 1, c)[i] = ch[1 + i - 1]
      BY <3>1, <3>2, SubSeqProperties
    <3>. QED  BY <2>2, <3>2, <3>3
  <2>. QED  BY <2>1, <2>2
<1>. HIDE DEF qt, cs, ds
<1>11. p.pivotTable = qt /\ p.children = cs /\ p.buckets = ds
  OBVIOUS
<1>. HIDE DEF p
<1>12. ASSUME NEW j \in 1 .. c
       PROVE  /\ qt[j] < qt[j + 1]
              /\ \A k \in DOMAIN ds[j] : qt[j] <= k /\ k < qt[j + 1]
              /\ PartOfSlot(p, j, node, j)
  <2>1. j \in 1 .. Len(bs) /\ pt[j] \in Int /\ pt[j + 1] \in Int /\ qt[j] = pt[j]
    <3>1. j \in 1 .. Len(bs)
      BY <1>2, <1>3
    <3>2. pt[j] \in Int /\ pt[j + 1] \in Int
      BY <1>1, <3>1, BoundsTyped
    <3>. QED  BY <3>1, <3>2, <1>7
  <2>2. pt[j] < pt[j + 1]
    <3>1. j + 1 \in 2 .. Len(pt) /\ (j + 1) - 1 = j
      BY <2>1, <1>2
    <3>. QED  BY <3>1, <1>4
  <2>3. ~IsLeaf(node) => cs[j] = ch[j]
    BY <1>10
  <2>4. \A k \in DOMAIN bs[j] : k \in Nat /\ pt[j] <= k /\ k < pt[j + 1]
    <3>1. bs[j] \in Bucket
      BY <2>1, <1>2
    <3>2. DOMAIN bs[j] \subseteq Nat
      BY <3>1, BucketFacts
    <3>. QED  BY <2>1, <1>2, <1>4, <3>2
  <2>5. CASE j < c
    <3>1. j + 1 \in 1 .. c /\ j \in 1 .. (c - 1)
      BY <2>5, <1>3
    <3>2. qt[j + 1] = pt[j + 1] /\ ds[j] = bs[j]
      BY <3>1, <1>7, <1>9
    <3>3. pt[j] <= qt[j] /\ qt[j + 1] <= pt[j + 1]
      BY <2>1, <3>2
    <3>4. PartOfSlot(p, j, node, j)
      BY <1>11, <2>3, <3>2, <3>3 DEF PartOfSlot, Agree, pt, ch, bs
    <3>. QED  BY <2>1, <2>2, <2>4, <3>2, <3>4
  <2>6. CASE j = c
    <3>1. qt[j + 1] = pivot /\ ds[j] = SplitBucketLeft(bs[j], pivot)
      BY <2>6, <1>7, <1>9
    <3>2. pt[j] <= qt[j] /\ qt[j + 1] <= pt[j + 1] /\ qt[j] < qt[j + 1]
      BY <2>1, <2>6, <3>1, <1>3
    <3>3. \A k \in DOMAIN ds[j] : qt[j] <= k /\ k < qt[j + 1]
      BY <2>1, <2>4, <2>6, <3>1, <1>8
    <3>4. \A k \in Nat : qt[j] <= k /\ k < qt[j + 1] => Agree(ds[j], bs[j], k)
      BY <2>6, <3>1, <1>8
    <3>5. PartOfSlot(p, j, node, j)
      BY <1>11, <2>3, <3>2, <3>4 DEF PartOfSlot, pt, ch, bs
    <3>. QED  BY <3>2, <3>3, <3>5
  <2>7. j < c \/ j = c
    BY <1>3
  <2>. QED  BY <2>5, <2>6, <2>7
<1>13. WFNode(p) /\ Narrowed(p, node)
  <2>1. Len(ds) >= 1 /\ Len(qt) = Len(ds) + 1 /\ (~IsLeaf(node) => Len(cs) = Len(ds))
    BY <1>3, <1>7, <1>9, <1>10
  <2>2. \A j \in 1 .. Len(ds) :
          /\ qt[j] < qt[j + 1]
          /\ \A k \in DOMAIN ds[j] : qt[j] <= k /\ k < qt[j + 1]
          /\ \E i \in 1 .. Len(node.buckets) : PartOfSlot(p, j, node, i)
    <3>1. \A j \in 1 .. c : j \in 1 .. Len(node.buckets)
      BY <1>2, <1>3 DEF bs
    <3>2. Len(ds) = c
      BY <1>9
    <3>. QED  BY <1>12, <3>1, <3>2
  <2>. QED  BY <2>1, <2>2, <1>7, <1>9, <1>10, NarrowedNode DEF p
<1>14. qt[1] = pt[1] /\ Last(qt) = pivot
  <2>1. 1 \in 1 .. c
    BY <1>3
  <2>. QED  BY <1>7, <2>1 DEF Last
<1>15. ASSUME pivot = Last(pt)
       PROVE  SomeSlots(p, node)
  <2>1. pt[c + 1] = pivot
    <3>1. Last(pt) = pt[Len(pt)]
      BY DEF Last
    <3>2. c + 1 \in 1 .. Len(pt) /\ Len(pt) \in 1 .. Len(pt) /\ (c + 1 = Len(pt) \/ c + 1 < Len(pt))
      BY <1>2, <1>3
    <3>3. c + 1 < Len(pt) => pt[c + 1] < pt[Len(pt)]
      BY <1>1, <3>2, PivotsAscend
    <3>4. c + 1 < Len(pt) => FALSE
      <4>. DEFINE e == pt[c + 1]
      <4>1. e \in 0 .. NumKeys /\ pivot <= e /\ (c + 1 < Len(pt) => e < pivot)
        BY <1>1, <1>3, <1>15, <3>1, <3>2, <3>3, PartsTyped
      <4>. HIDE DEF e
      <4>. QED  BY <4>1
    <3>. QED  BY <1>15, <3>1, <3>2, <3>4
  <2>2. ASSUME NEW j \in 1 .. c
        PROVE  j \in 1 .. Len(bs) /\ WholeSlot(p, j, node, j)
    <3>1. j \in 1 .. Len(bs) /\ (j = c \/ j + 1 \in 1 .. c)
      BY <1>2, <1>3
    <3>2. qt[j] = pt[j] /\ qt[j + 1] = pt[j + 1]
      BY <1>7, <2>1, <3>1
    <3>3. ~IsLeaf(node) => cs[j] = ch[j]
      BY <1>10
    <3>. QED  BY <1>11, <3>1, <3>2, <3>3 DEF WholeSlot, pt, ch
  <2>3. Len(p.buckets) = c
    BY <1>9, <1>11
  <2>. QED  BY <2>2, <2>3 DEF SomeSlots, bs
<1>. QED  BY <1>6, <1>10, <1>11, <1>13, <1>14, <1>15 DEF pt

\* Cutting off what is left of a pivot gives a node that begins there.
LEMMA CutRightFacts ==
  ASSUME NEW S, NEW node, WFNode(node), node.children \in Seq(S),
         NEW pivot \in Nat, BoundedKey(node.pivotTable, pivot)
  PROVE  LET r == CutoffNodeAndKeepRight(node, pivot)
         IN  /\ WFNode(r) /\ r.children \in Seq(S) /\ Narrowed(r, node)
             /\ r.pivotTable[1] = pivot /\ Last(r.pivotTable) = Last(node.pivotTable)
             /\ pivot = node.pivotTable[1] => SomeSlots(r, node)
<1>. DEFINE pt == node.pivotTable  ch == node.children  bs == node.buckets
            n == Len(bs)
            c == Route(pt, pivot)
            m == n - c + 1
            qt == <<pivot>> \o SubSeq(pt, c + 1, n + 1)
            cs == IF IsLeaf(node) THEN <<>> ELSE SubSeq(ch, c, n)
            ds == <<SplitBucketRight(bs[c], pivot)>> \o SubSeq(bs, c + 1, n)
            p == [pivotTable |-> qt, children |-> cs, buckets |-> ds]
<1>1. Parts(pt, ch, bs)
  BY PartsOfNode
<1>2. /\ Len(pt) \in Nat /\ n \in Nat /\ Len(pt) = n + 1
      /\ DOMAIN bs = 1 .. n /\ \A i \in 1 .. n : bs[i] \in Bucket
  BY <1>1, PartsTyped
<1>3. /\ c \in 1 .. n /\ pt[c] <= pivot /\ pivot < pt[c + 1]
  <2>1. InSlot(pt, c, pivot)
    BY <1>1, RouteFacts
  <2>. QED  BY <1>2, <2>1 DEF InSlot
<1>4. /\ pt \in Seq(Pivot) /\ bs \in Seq(Bucket) /\ (IsLeaf(node) \/ Len(ch) = n)
      /\ \A i \in 2 .. Len(pt) : pt[i - 1] < pt[i]
      /\ \A i \in DOMAIN bs : \A k \in DOMAIN bs[i] : pt[i] <= k /\ k < pt[i + 1]
  BY <1>1 DEF Parts, IsLeaf
<1>5. ch \in Seq(S)
  OBVIOUS
<1>6. CutoffNodeAndKeepRight(node, pivot) = p
  BY DEF CutoffNodeAndKeepRight
<1>. HIDE DEF pt, ch, bs, c, n
<1>15. m \in Nat /\ m >= 1 /\ m = n - c + 1 /\ c \in Int /\ n \in Int
  BY <1>2, <1>3
<1>7. /\ qt \in Seq(Pivot) /\ Len(qt) = m + 1
      /\ qt[1] = pivot
      /\ \A i \in 2 .. (m + 1) : qt[i] = pt[c + i - 1]
  <2>. DEFINE s == SubSeq(pt, c + 1, n + 1)
  <2>1. c + 1 \in 1 .. Len(pt) /\ n + 1 \in (c + 1) .. Len(pt) /\ (n + 1) - (c + 1) + 1 = m
    BY <1>2, <1>3
  <2>2. /\ s \in Seq(Pivot) /\ Len(s) = m /\ \A i \in 1 .. m : s[i] = pt[(c + 1) + i - 1]
    <3>1. /\ s \in Seq(Pivot) /\ Len(s) = (n + 1) - (c + 1) + 1
          /\ \A i \in 1 .. ((n + 1) - (c + 1) + 1) : s[i] = pt[(c + 1) + i - 1]
      BY <1>4, <2>1, SegmentFacts
    <3>. QED  BY <3>1, <2>1
  <2>3. pivot \in Pivot
    <3>1. pt[c + 1] \in 0 .. NumKeys
      BY <1>1, <2>1, PartsTyped
    <3>. QED  BY <1>3, <3>1 DEF Pivot
  <2>4. <<pivot>> \in Seq(Pivot) /\ Len(<<pivot>>) = 1 /\ <<pivot>>[1] = pivot
    BY <2>3
  <2>5. qt = <<pivot>> \o s
    OBVIOUS
  <2>. HIDE DEF s, qt, m
  <2>6. /\ qt \in Seq(Pivot) /\ Len(qt) = Len(<<pivot>>) + Len(s)
        /\ \A i \in 1 .. Len(<<pivot>>) + Len(s) :
             qt[i] = IF i <= Len(<<pivot>>) THEN <<pivot>>[i] ELSE s[i - Len(<<pivot>>)]
    BY <2>2, <2>4, <2>5, ConcatProperties
  <2>7. Len(<<pivot>>) + Len(s) = m + 1
    BY <2>2, <2>4, <1>15
  <2>8. qt[1] = pivot
    <3>1. 1 \in 1 .. (m + 1) /\ 1 <= Len(<<pivot>>)
      BY <1>15, <2>4
    <3>. QED  BY <3>1, <2>4, <2>6, <2>7
  <2>9. ASSUME NEW i \in 2 .. (m + 1)
        PROVE  qt[i] = pt[c + i - 1]
    <3>1. /\ i \in 1 .. (m + 1) /\ ~(i <= 1) /\ i - 1 \in 1 .. m
          /\ (c + 1) + (i - 1) - 1 = c + i - 1
      BY <1>15
    <3>2. qt[i] = s[i - 1]
      BY <3>1, <2>4, <2>6, <2>7
    <3>. QED  BY <3>1, <3>2, <2>2
  <2>. QED  BY <2>6, <2>7, <2>8, <2>9
<1>8. /\ SplitBucketRight(bs[c], pivot) \in Bucket
      /\ DOMAIN SplitBucketRight(bs[c], pivot) = {k \in DOMAIN bs[c] : k >= pivot}
      /\ \A k \in Nat : k >= pivot => Agree(SplitBucketRight(bs[c], pivot), bs[c], k)
  BY <1>2, <1>3, SplitBucketFacts
<1>9. /\ ds \in Seq(Bucket) /\ Len(ds) = m
      /\ ds[1] = SplitBucketRight(bs[c], pivot)
      /\ \A i \in 2 .. m : ds[i] = bs[c + i - 1]
  <2>. DEFINE s == SubSeq(bs, c + 1, n)
              first == SplitBucketRight(bs[c], pivot)
  <2>1. \A i \in (c + 1) .. n : bs[i] \in Bucket
    BY <1>2, <1>3
  <2>2. s \in Seq(Bucket) /\ Len(s) = m - 1 /\ \A i \in 1 .. (m - 1) : s[i] = bs[(c + 1) + i - 1]
    <3>1. c + 1 \in Int /\ n \in Int /\ n - (c + 1) + 1 = m - 1
      BY <1>15
    <3>2. /\ s \in Seq(Bucket)
          /\ Len(s) = (IF c + 1 <= n THEN n - (c + 1) + 1 ELSE 0)
          /\ \A i \in 1 .. n - (c + 1) + 1 : s[i] = bs[(c + 1) + i - 1]
      BY <2>1, <3>1, SubSeqProperties
    <3>. QED  BY <3>1, <3>2, <1>15
  <2>4. <<first>> \in Seq(Bucket) /\ Len(<<first>>) = 1 /\ <<first>>[1] = first
    BY <1>8
  <2>5. ds = <<first>> \o s
    OBVIOUS
  <2>. HIDE DEF s, ds, m, first
  <2>6. /\ ds \in Seq(Bucket) /\ Len(ds) = Len(<<first>>) + Len(s)
        /\ \A i \in 1 .. Len(<<first>>) + Len(s) :
             ds[i] = IF i <= Len(<<first>>) THEN <<first>>[i] ELSE s[i - Len(<<first>>)]
    BY <2>2, <2>4, <2>5, ConcatProperties
  <2>7. Len(<<first>>) + Len(s) = m
    BY <2>2, <2>4, <1>15
  <2>8. ds[1] = first
    <3>1. 1 \in 1 .. m /\ 1 <= Len(<<first>>)
      BY <1>15, <2>4
    <3>. QED  BY <3>1, <2>4, <2>6, <2>7
  <2>9. ASSUME NEW i \in 2 .. m
        PROVE  ds[i] = bs[c + i - 1]
    <3>1. /\ i \in 1 .. m /\ ~(i <= 1) /\ i - 1 \in 1 .. (m - 1)
          /\ (c + 1) + (i - 1) - 1 = c + i - 1
      BY <1>15
    <3>2. ds[i] = s[i - 1]
      BY <3>1, <2>4, <2>6, <2>7
    <3>. QED  BY <3>1, <3>2, <2>2
  <2>. QED  BY <2>6, <2>7, <2>8, <2>9 DEF first
<1>10. /\ cs \in Seq(S) /\ (IsLeaf(node) => cs = <<>>)
       /\ ~IsLeaf(node) => Len(cs) = m /\ \A i \in 1 .. m : cs[i] = ch[c + i - 1]
  <2>1. CASE IsLeaf(node)
    BY <2>1
  <2>2. CASE ~IsLeaf(node)
    <3>1. c \in 1 .. Len(ch) /\ n \in c .. Len(ch)
      BY <2>2, <1>3, <1>4, <1>15
    <3>2. /\ SubSeq(ch, c, n) \in Seq(S) /\ Len(SubSeq(ch, c, n)) = n - c + 1
          /\ \A i \in 1 .. (n - c + 1) : SubSeq(ch, c, n)[i] = ch[c + i - 1]
      BY <1>5, <3>1, SegmentFacts
    <3>. QED  BY <2>2, <3>2
  <2>. QED  BY <2>1, <2>2
<1>. HIDE DEF qt, cs, ds, m
<1>11. p.pivotTable = qt /\ p.children = cs /\ p.buckets = ds
  OBVIOUS
<1>. HIDE DEF p
<1>12. ASSUME NEW j \in 1 .. m
       PROVE  /\ qt[j] < qt[j + 1]
              /\ \A k \in DOMAIN ds[j] : qt[j] <= k /\ k < qt[j + 1]
              /\ c + j - 1 \in 1 .. n /\ PartOfSlot(p, j, node, c + j - 1)
  <2>. DEFINE h == c + j - 1
  <2>1. h \in 1 .. n /\ pt[h] \in Int /\ pt[h + 1] \in Int /\ qt[j + 1] = pt[h + 1]
    <3>1. h \in 1 .. n /\ j + 1 \in 2 .. (m + 1) /\ c + (j + 1) - 1 = h + 1
      BY <1>3, <1>15
    <3>2. pt[h] \in Int /\ pt[h + 1] \in Int
      BY <1>1, <3>1, BoundsTyped DEF n
    <3>. QED  BY <3>1, <3>2, <1>7
  <2>8. ~IsLeaf(node) => cs[j] = ch[h]
    BY <1>10
  <2>. HIDE DEF h
  <2>2. pt[h] < pt[h + 1]
    <3>1. h + 1 \in 2 .. Len(pt) /\ (h + 1) - 1 = h
      BY <2>1, <1>2
    <3>. QED  BY <3>1, <1>4
  <2>4. \A k \in DOMAIN bs[h] : k \in Nat /\ pt[h] <= k /\ k < pt[h + 1]
    <3>1. bs[h] \in Bucket
      BY <2>1, <1>2
    <3>2. DOMAIN bs[h] \subseteq Nat
      BY <3>1, BucketFacts
    <3>. QED  BY <2>1, <1>2, <1>4, <3>2
  <2>5. CASE j > 1
    <3>1. j \in 2 .. (m + 1) /\ j \in 2 .. m
      BY <2>5, <1>15
    <3>2. qt[j] = pt[h] /\ ds[j] = bs[h]
      BY <3>1, <1>7, <1>9 DEF h
    <3>3. pt[h] <= qt[j] /\ qt[j + 1] <= pt[h + 1]
      BY <2>1, <3>2
    <3>4. PartOfSlot(p, j, node, h)
      BY <1>11, <2>8, <3>2, <3>3 DEF PartOfSlot, Agree, pt, ch, bs
    <3>. QED  BY <2>1, <2>2, <2>4, <3>2, <3>4 DEF h
  <2>6. CASE j = 1
    <3>1. qt[j] = pivot /\ h = c /\ ds[j] = SplitBucketRight(bs[h], pivot)
      BY <2>6, <1>7, <1>9, <1>15 DEF h
    <3>2. pt[h] <= qt[j] /\ qt[j + 1] <= pt[h + 1] /\ qt[j] < qt[j + 1]
      BY <2>1, <3>1, <1>3
    <3>3. \A k \in DOMAIN ds[j] : qt[j] <= k /\ k < qt[j + 1]
      BY <2>1, <2>4, <3>1, <1>8
    <3>4. \A k \in Nat : qt[j] <= k /\ k < qt[j + 1] => Agree(ds[j], bs[h], k)
      BY <3>1, <1>8
    <3>5. PartOfSlot(p, j, node, h)
      BY <1>11, <2>8, <3>2, <3>4 DEF PartOfSlot, pt, ch, bs
    <3>. QED  BY <2>1, <3>2, <3>3, <3>5 DEF h
  <2>7. j > 1 \/ j = 1
    BY <1>15
  <2>. QED  BY <2>5, <2>6, <2>7
<1>13. WFNode(p) /\ Narrowed(p, node)
  <2>1. Len(ds) >= 1 /\ Len(qt) = Len(ds) + 1 /\ (~IsLeaf(node) => Len(cs) = Len(ds))
    BY <1>15, <1>7, <1>9, <1>10
  <2>2. \A j \in 1 .. Len(ds) :
          /\ qt[j] < qt[j + 1]
          /\ \A k \in DOMAIN ds[j] : qt[j] <= k /\ k < qt[j + 1]
          /\ \E i \in 1 .. Len(node.buckets) : PartOfSlot(p, j, node, i)
    <3>2. Len(ds) = m
      BY <1>9
    <3>. QED  BY <1>12, <3>2 DEF n, bs
  <2>. QED  BY <2>1, <2>2, <1>7, <1>9, <1>10, NarrowedNode DEF p
<1>14. qt[1] = pivot /\ Last(qt) = Last(pt)
  <2>1. m + 1 \in 2 .. (m + 1) /\ c + (m + 1) - 1 = Len(pt)
    BY <1>15, <1>2
  <2>. QED  BY <1>7, <2>1 DEF Last
<1>16. ASSUME pivot = pt[1]
       PROVE  SomeSlots(p, node)
  <2>1. pt[c] = pivot
    <3>1. 1 \in 1 .. Len(pt) /\ c \in 1 .. Len(pt) /\ (c = 1 \/ 1 < c)
      BY <1>2, <1>3
    <3>2. 1 < c => pt[1] < pt[c]
      BY <1>1, <3>1, PivotsAscend
    <3>3. 1 < c => FALSE
      <4>. DEFINE e == pt[c]
      <4>1. e \in 0 .. NumKeys /\ e <= pivot /\ (1 < c => pivot < e)
        BY <1>1, <1>3, <1>16, <3>1, <3>2, PartsTyped
      <4>. HIDE DEF e
      <4>. QED  BY <4>1
    <3>. QED  BY <1>16, <3>1, <3>3
  <2>2. ASSUME NEW j \in 1 .. m
        PROVE  c + j - 1 \in 1 .. n /\ WholeSlot(p, j, node, c + j - 1)
    <3>. DEFINE h == c + j - 1
    <3>1. /\ h \in 1 .. n /\ j + 1 \in 2 .. (m + 1) /\ c + (j + 1) - 1 = h + 1
          /\ ((j = 1 /\ h = c) \/ j \in 2 .. (m + 1))
      BY <1>3, <1>15
    <3>2. qt[j + 1] = pt[h + 1] /\ (j \in 2 .. (m + 1) => qt[j] = pt[h])
      BY <1>7, <3>1
    <3>3. qt[j] = pt[h]
      BY <1>7, <2>1, <3>1, <3>2
    <3>4. ~IsLeaf(node) => cs[j] = ch[h]
      BY <1>10
    <3>. HIDE DEF h
    <3>5. WholeSlot(p, j, node, h)
      BY <1>11, <3>2, <3>3, <3>4 DEF WholeSlot, pt, ch
    <3>. QED  BY <3>1, <3>5 DEF h
  <2>3. Len(p.buckets) = m
    BY <1>9, <1>11
  <2>. QED  BY <2>2, <2>3 DEF SomeSlots, n, bs
<1>. QED  BY <1>6, <1>10, <1>11, <1>13, <1>14, <1>16 DEF pt

\* Bounds between which a node can be cut.
Cuttable(pt, lbound, ubound) ==
  /\ BoundedKey(pt, lbound)
  /\ ubound = NumKeys => Last(pt) = NumKeys
  /\ ubound # NumKeys => ValidLeftCutOffKey(pt, ubound) /\ lbound < ubound

\* The part p of a node between two bounds.
CutBetween(S, node, lbound, ubound, p) ==
  /\ WFNode(p) /\ p.children \in Seq(S) /\ Narrowed(p, node)
  /\ p.pivotTable[1] = lbound /\ Last(p.pivotTable) = ubound
  /\ lbound = node.pivotTable[1] /\ ubound = Last(node.pivotTable) => SomeSlots(p, node)

\* Bounds at which a node can be cut give a part of it between just these bounds.
LEMMA CutoffNodeFacts ==
  ASSUME NEW S, NEW node, WFNode(node), node.children \in Seq(S),
         NEW lbound \in Nat, NEW ubound \in Nat, Cuttable(node.pivotTable, lbound, ubound)
  PROVE  CutBetween(S, node, lbound, ubound, CutoffNode(node, lbound, ubound))
<1>0. /\ BoundedKey(node.pivotTable, lbound)
      /\ ubound = NumKeys => Last(node.pivotTable) = NumKeys
      /\ ubound # NumKeys => ValidLeftCutOffKey(node.pivotTable, ubound) /\ lbound < ubound
  BY DEF Cuttable
<1>. SUFFICES LET p == CutoffNode(node, lbound, ubound)
              IN  /\ WFNode(p) /\ p.children \in Seq(S) /\ Narrowed(p, node)
                  /\ p.pivotTable[1] = lbound /\ Last(p.pivotTable) = ubound
                  /\ lbound = node.pivotTable[1] /\ ubound = Last(node.pivotTable)
                       => SomeSlots(p, node)
  BY DEF CutBetween
<1>1. CASE ubound = NumKeys
  <2>1. CutoffNode(node, lbound, ubound) = CutoffNodeAndKeepRight(node, lbound)
    BY <1>1 DEF CutoffNode
  <2>. QED  BY <1>0, <1>1, <2>1, CutRightFacts
<1>2. CASE ubound # NumKeys
  <2>. DEFINE l == CutoffNodeAndKeepLeft(node, ubound)
              r == CutoffNodeAndKeepRight(l, lbound)
  <2>1. CutoffNode(node, lbound, ubound) = r
    BY <1>2 DEF CutoffNode
  <2>2. /\ WFNode(l) /\ l.children \in Seq(S) /\ Narrowed(l, node)
        /\ l.pivotTable[1] = node.pivotTable[1] /\ Last(l.pivotTable) = ubound
        /\ ubound = Last(node.pivotTable) => SomeSlots(l, node)
    BY <1>0, <1>2, CutLeftFacts
  <2>. HIDE DEF l
  <2>3. BoundedKey(l.pivotTable, lbound)
    BY <1>0, <1>2, <2>2 DEF BoundedKey
  <2>4. /\ WFNode(r) /\ r.children \in Seq(S) /\ Narrowed(r, l)
        /\ r.pivotTable[1] = lbound /\ Last(r.pivotTable) = Last(l.pivotTable)
        /\ lbound = l.pivotTable[1] => SomeSlots(r, l)
    BY <2>2, <2>3, CutRightFacts
  <2>. HIDE DEF r
  <2>5. Narrowed(r, node)
    BY <2>2, <2>4, NarrowedTrans
  <2>6. lbound = node.pivotTable[1] /\ ubound = Last(node.pivotTable) => SomeSlots(r, node)
    BY <2>2, <2>4, SomeSlotsTrans
  <2>. QED  BY <2>1, <2>2, <2>4, <2>5, <2>6
<1>. QED  BY <1>1, <1>2

\* Where the slots of a split parent come from.
SplitSlots(q, node, slot, pivot, left, right) ==
  \A j \in 1 .. Len(q.buckets) :
    /\ j < slot =>
         /\ j \in 1 .. Len(node.buckets)
         /\ q.pivotTable[j] = node.pivotTable[j] /\ q.pivotTable[j + 1] = node.pivotTable[j + 1]
         /\ q.buckets[j] = node.buckets[j] /\ q.children[j] = node.children[j]
    /\ j = slot =>
         /\ q.pivotTable[j] = node.pivotTable[slot] /\ q.pivotTable[j + 1] = pivot
         /\ q.buckets[j] = SplitBucketLeft(node.buckets[slot], pivot) /\ q.children[j] = left
    /\ j = slot + 1 =>
         /\ q.pivotTable[j] = pivot /\ q.pivotTable[j + 1] = node.pivotTable[slot + 1]
         /\ q.buckets[j] = SplitBucketRight(node.buckets[slot], pivot)
         /\ q.children[j] = right
    /\ j > slot + 1 =>
         /\ j - 1 \in 1 .. Len(node.buckets) /\ j - 1 # slot
         /\ q.pivotTable[j] = node.pivotTable[j - 1]
         /\ q.pivotTable[j + 1] = node.pivotTable[(j - 1) + 1]
         /\ q.buckets[j] = node.buckets[j - 1] /\ q.children[j] = node.children[j - 1]

\* The node q is the parent of a split child.
SplitFrom(S, q, node, slot, pivot, left, right) ==
  /\ WFNode(q) /\ q.children \in Seq(S) /\ ~IsLeaf(q)
  /\ q.pivotTable[1] = node.pivotTable[1]
  /\ Last(q.pivotTable) = Last(node.pivotTable)
  /\ Len(q.buckets) = Len(node.buckets) + 1
  /\ SplitSlots(q, node, slot, pivot, left, right)

\* The parent of a split keeps its bounds and has one slot more.
LEMMA SplitParentNode ==
  ASSUME NEW S, NEW node, WFNode(node), node.children \in Seq(S), ~IsLeaf(node),
         NEW slot \in 1 .. Len(node.buckets), NEW pivot \in Nat,
         PivotInsertable(node.pivotTable, slot + 1, pivot), NEW left \in S, NEW right \in S
  PROVE  SplitFrom(S, SplitParent(node, slot, pivot, left, right), node, slot, pivot, left, right)
<1>. SUFFICES LET q == SplitParent(node, slot, pivot, left, right)
              IN  /\ WFNode(q) /\ q.children \in Seq(S) /\ ~IsLeaf(q)
                  /\ q.pivotTable[1] = node.pivotTable[1]
                  /\ Last(q.pivotTable) = Last(node.pivotTable)
                  /\ Len(q.buckets) = Len(node.buckets) + 1
                  /\ SplitSlots(q, node, slot, pivot, left, right)
  BY DEF SplitFrom
<1>. DEFINE pt == node.pivotTable  ch == node.children  bs == node.buckets
            n == Len(bs)
            q == SplitParent(node, slot, pivot, left, right)
            qt == InsertAt(pt, slot + 1, pivot)
            cs == Replace1with2(ch, left, right, slot)
            lo == SplitBucketLeft(bs[slot], pivot)
            hi == SplitBucketRight(bs[slot], pivot)
            ds == Replace1with2(bs, lo, hi, slot)
<1>1. Parts(pt, ch, bs)
  BY PartsOfNode
<1>2. /\ Len(pt) \in Nat /\ n \in Nat /\ Len(pt) = n + 1
      /\ DOMAIN bs = 1 .. n /\ \A i \in 1 .. n : bs[i] \in Bucket
  BY <1>1, PartsTyped
<1>3. /\ slot \in 1 .. n /\ pt[slot] < pivot /\ pivot < pt[slot + 1]
  <2>1. (slot + 1) - 1 = slot
    OBVIOUS
  <2>. QED  BY <2>1 DEF PivotInsertable
<1>4. /\ pt \in Seq(Pivot) /\ bs \in Seq(Bucket) /\ Len(ch) = n
      /\ \A i \in 2 .. Len(pt) : pt[i - 1] < pt[i]
      /\ \A i \in DOMAIN bs : \A k \in DOMAIN bs[i] : pt[i] <= k /\ k < pt[i + 1]
  BY <1>1 DEF Parts, IsLeaf
<1>5. ch \in Seq(S)
  OBVIOUS
<1>6. q = [pivotTable |-> qt, children |-> cs, buckets |-> ds]
  BY DEF SplitParent
<1>. HIDE DEF pt, ch, bs, n
<1>7. /\ qt \in Seq(Pivot) /\ Len(qt) = n + 2
      /\ \A j \in 1 .. (n + 2) :
           qt[j] = IF j < slot + 1 THEN pt[j] ELSE IF j = slot + 1 THEN pivot ELSE pt[j - 1]
  <2>1. pivot \in Pivot
    <3>1. slot + 1 \in 1 .. Len(pt)
      BY <1>2, <1>3
    <3>2. pt[slot + 1] \in 0 .. NumKeys
      BY <1>1, <3>1, PartsTyped
    <3>. QED  BY <1>3, <3>2 DEF Pivot
  <2>2. slot + 1 \in 1 .. (Len(pt) + 1) /\ Len(pt) + 1 = n + 2
    BY <1>2, <1>3
  <2>. DEFINE i == slot + 1
  <2>. HIDE DEF i
  <2>3. i \in 1 .. (Len(pt) + 1)
    BY <2>2 DEF i
  <2>4. /\ InsertAt(pt, i, pivot) \in Seq(Pivot) /\ Len(InsertAt(pt, i, pivot)) = Len(pt) + 1
        /\ \A j \in 1 .. (Len(pt) + 1) :
             InsertAt(pt, i, pivot)[j] =
               IF j < i THEN pt[j] ELSE IF j = i THEN pivot ELSE pt[j - 1]
    <3>1. Inserted(Pivot, pt, i, pivot, InsertAt(pt, i, pivot))
      BY <1>4, <2>1, <2>3, InsertAtFacts
    <3>. QED  BY <3>1 DEF Inserted
  <2>. QED  BY <2>2, <2>4 DEF i
<1>8. bs[slot] \in Bucket
  BY <1>2, <1>3
<1>9. /\ lo \in Bucket /\ hi \in Bucket
      /\ DOMAIN lo = {k \in DOMAIN bs[slot] : k < pivot}
      /\ DOMAIN hi = {k \in DOMAIN bs[slot] : k >= pivot}
  BY <1>8, SplitBucketFacts
<1>10. /\ ds \in Seq(Bucket) /\ Len(ds) = n + 1
       /\ \A j \in 1 .. (slot - 1) : ds[j] = bs[j]
       /\ ds[slot] = lo /\ ds[slot + 1] = hi
       /\ \A j \in (slot + 2) .. (n + 1) : ds[j] = bs[j - 1]
  <2>. HIDE DEF lo, hi
  <2>1. slot \in 1 .. Len(bs)
    BY <1>3 DEF n
  <2>2. TwoForOne(Bucket, bs, lo, hi, slot, ds)
    BY <1>4, <1>9, <2>1, ReplaceTwoFacts
  <2>. HIDE DEF ds
  <2>. QED  BY <2>2 DEF TwoForOne, n
<1>11. /\ cs \in Seq(S) /\ Len(cs) = n + 1
       /\ \A j \in 1 .. (slot - 1) : cs[j] = ch[j]
       /\ cs[slot] = left /\ cs[slot + 1] = right
       /\ \A j \in (slot + 2) .. (n + 1) : cs[j] = ch[j - 1]
  <2>1. slot \in 1 .. Len(ch)
    BY <1>3, <1>4
  <2>2. TwoForOne(S, ch, left, right, slot, cs)
    BY <1>5, <2>1, ReplaceTwoFacts
  <2>. HIDE DEF cs
  <2>. QED  BY <1>4, <2>2 DEF TwoForOne
<1>. HIDE DEF q, qt, cs, ds, lo, hi
<1>12. q.pivotTable = qt /\ q.children = cs /\ q.buckets = ds
  BY <1>6
<1>13. ASSUME NEW j \in 1 .. (n + 1), j < slot
       PROVE  /\ j \in 1 .. n /\ qt[j] = pt[j] /\ qt[j + 1] = pt[j + 1]
              /\ ds[j] = bs[j] /\ cs[j] = ch[j]
  <2>1. /\ j \in 1 .. (n + 2) /\ j + 1 \in 1 .. (n + 2) /\ j < slot + 1 /\ j + 1 < slot + 1
        /\ j \in 1 .. n /\ j \in 1 .. (slot - 1)
    BY <1>2, <1>3, <1>13
  <2>2. qt[j] = pt[j] /\ qt[j + 1] = pt[j + 1]
    BY <1>7, <2>1
  <2>. QED  BY <1>10, <1>11, <2>1, <2>2
<1>14. qt[slot] = pt[slot] /\ qt[slot + 1] = pivot /\ qt[(slot + 1) + 1] = pt[slot + 1]
  <2>1. /\ slot \in 1 .. (n + 2) /\ slot + 1 \in 1 .. (n + 2) /\ (slot + 1) + 1 \in 1 .. (n + 2)
        /\ slot < slot + 1 /\ ~(slot + 1 < slot + 1) /\ ~((slot + 1) + 1 < slot + 1)
        /\ (slot + 1) + 1 # slot + 1 /\ ((slot + 1) + 1) - 1 = slot + 1
    BY <1>2, <1>3
  <2>. HIDE DEF qt
  <2>2. qt[slot] = pt[slot]
    BY <1>7, <2>1
  <2>3. qt[slot + 1] = pivot
    BY <1>7, <2>1
  <2>4. qt[(slot + 1) + 1] = pt[slot + 1]
    BY <1>7, <2>1
  <2>. QED  BY <2>2, <2>3, <2>4
<1>15. ASSUME NEW j \in 1 .. (n + 1), j > slot + 1
       PROVE  /\ j - 1 \in 1 .. n /\ j - 1 # slot /\ qt[j] = pt[j - 1]
              /\ qt[j + 1] = pt[(j - 1) + 1] /\ ds[j] = bs[j - 1] /\ cs[j] = ch[j - 1]
  <2>1. /\ j \in 1 .. (n + 2) /\ j + 1 \in 1 .. (n + 2)
        /\ ~(j < slot + 1) /\ ~(j + 1 < slot + 1) /\ j # slot + 1 /\ j + 1 # slot + 1
        /\ (j + 1) - 1 = (j - 1) + 1 /\ j - 1 \in 1 .. n /\ j - 1 # slot
        /\ j \in (slot + 2) .. (n + 1)
    BY <1>2, <1>3, <1>15
  <2>2. qt[j] = pt[j - 1]
    BY <1>7, <2>1
  <2>3. qt[j + 1] = pt[(j - 1) + 1]
    BY <1>7, <2>1
  <2>. QED  BY <1>10, <1>11, <2>1, <2>2, <2>3
<1>16. SplitSlots(q, node, slot, pivot, left, right)
  <2>1. \A j \in 1 .. (n + 1) :
          /\ j < slot =>
               /\ j \in 1 .. n /\ qt[j] = pt[j] /\ qt[j + 1] = pt[j + 1]
               /\ ds[j] = bs[j] /\ cs[j] = ch[j]
          /\ j > slot + 1 =>
              /\ j - 1 \in 1 .. n /\ j - 1 # slot /\ qt[j] = pt[j - 1]
              /\ qt[j + 1] = pt[(j - 1) + 1] /\ ds[j] = bs[j - 1] /\ cs[j] = ch[j - 1]
    BY <1>13, <1>15
  <2>. QED  BY <1>10, <1>11, <1>12, <1>14, <2>1 DEF SplitSlots, pt, ch, bs, n, lo, hi
<1>17. ASSUME NEW j \in 1 .. (n + 1)
       PROVE  j < slot \/ j = slot \/ j = slot + 1 \/ j > slot + 1
  BY <1>2, <1>3
<1>18. \A i \in 1 .. n : /\ pt[i] \in Int /\ pt[i + 1] \in Int /\ pt[i] < pt[i + 1]
                         /\ \A k \in DOMAIN bs[i] : k \in Nat /\ pt[i] <= k /\ k < pt[i + 1]
  <2>1. ASSUME NEW i \in 1 .. n
        PROVE  /\ pt[i] \in Int /\ pt[i + 1] \in Int /\ pt[i] < pt[i + 1]
               /\ \A k \in DOMAIN bs[i] : k \in Nat /\ pt[i] <= k /\ k < pt[i + 1]
    <3>1. pt[i] \in Int /\ pt[i + 1] \in Int
      BY <1>1, BoundsTyped DEF n
    <3>2. i + 1 \in 2 .. Len(pt) /\ (i + 1) - 1 = i
      BY <1>2
    <3>3. pt[i] < pt[i + 1]
      BY <3>2, <1>4
    <3>4. bs[i] \in Bucket
      BY <1>2
    <3>5. DOMAIN bs[i] \subseteq Nat
      BY <3>4, BucketFacts
    <3>. QED  BY <3>1, <3>3, <3>5, <1>2, <1>4
  <2>. QED  BY <2>1
<1>19. ASSUME NEW j \in 1 .. (n + 1)
       PROVE  /\ qt[j] < qt[j + 1]
              /\ \A k \in DOMAIN ds[j] : qt[j] <= k /\ k < qt[j + 1]
  <2>1. CASE j < slot
    BY <2>1, <1>13, <1>18
  <2>2. CASE j > slot + 1
    BY <2>2, <1>15, <1>18
  <2>3. CASE j = slot
    <3>1. qt[j] < qt[j + 1]
      BY <2>3, <1>3, <1>14
    <3>2. \A k \in DOMAIN ds[j] : qt[j] <= k /\ k < qt[j + 1]
      BY <2>3, <1>3, <1>9, <1>10, <1>14, <1>18
    <3>. QED  BY <3>1, <3>2
  <2>4. CASE j = slot + 1
    <3>1. qt[j] < qt[j + 1]
      BY <2>4, <1>3, <1>14
    <3>2. \A k \in DOMAIN ds[j] : qt[j] <= k /\ k < qt[j + 1]
      <4>1. /\ ds[j] = hi /\ qt[j] = pivot /\ qt[j + 1] = pt[slot + 1]
        BY <2>4, <1>10, <1>14
      <4>. QED  BY <4>1, <1>3, <1>9, <1>18
    <3>. QED  BY <3>1, <3>2
  <2>. QED  BY <2>1, <2>2, <2>3, <2>4, <1>17
<1>20. Parts(qt, cs, ds)
  <2>1. \A i \in 2 .. Len(qt) : qt[i - 1] < qt[i]
    <3>1. ASSUME NEW i \in 2 .. Len(qt)
          PROVE  qt[i - 1] < qt[i]
      <4>1. i - 1 \in 1 .. (n + 1) /\ (i - 1) + 1 = i
        BY <1>2, <1>7
      <4>2. qt[i - 1] < qt[(i - 1) + 1]
        BY <1>19, <4>1
      <4>. QED  BY <4>1, <4>2
    <3>. QED  BY <3>1
  <2>2. Len(qt) >= 2 /\ Len(ds) = Len(qt) - 1 /\ Len(cs) = Len(ds) /\ DOMAIN ds = 1 .. (n + 1)
    BY <1>2, <1>7, <1>10, <1>11
  <2>. QED  BY <1>7, <1>10, <1>19, <2>1, <2>2 DEF Parts
<1>21. WFNode(q)
  BY <1>6, <1>20, NodeOfParts
<1>22. ~IsLeaf(q)
  <2>1. Len(cs) # 0 /\ Len(<<>>) = 0
    BY <1>2, <1>11
  <2>. QED  BY <2>1, <1>12 DEF IsLeaf
<1>23. qt[1] = pt[1] /\ Last(qt) = Last(pt)
  <2>1. 1 < slot + 1 /\ 1 \in 1 .. (n + 2)
    BY <1>2, <1>3
  <2>2. qt[1] = pt[1]
    BY <1>7, <2>1
  <2>3. n + 2 \in 1 .. (n + 2) /\ ~(n + 2 < slot + 1) /\ n + 2 # slot + 1 /\ (n + 2) - 1 = n + 1
    BY <1>2, <1>3
  <2>4. qt[n + 2] = pt[n + 1]
    BY <1>7, <2>3
  <2>. QED  BY <2>2, <2>4, <1>2, <1>7 DEF Last
<1>. QED  BY <1>10, <1>11, <1>12, <1>16, <1>21, <1>22, <1>23 DEF pt, bs, n, q

\* A node with the slots of another one and other buckets.
LEMMA SameSlots ==
  ASSUME NEW node, WFNode(node), NEW new,
         new \in [pivotTable : Seq(Pivot), children : {new.children}, buckets : Seq(Bucket)],
         new.pivotTable = node.pivotTable, Len(new.buckets) = Len(node.buckets),
         new.children = <<>> \/ Len(new.children) = Len(node.buckets),
         \A i \in 1 .. Len(node.buckets) : \A k \in DOMAIN new.buckets[i] :
           node.pivotTable[i] <= k /\ k < node.pivotTable[i + 1]
  PROVE  WFNode(new)
<1>1. DOMAIN new.buckets = 1 .. Len(node.buckets)
  OBVIOUS
<1>. QED  BY <1>1 DEF WFNode, IsLeaf

\* The messages of a bucket are within its slot.
LEMMA WithinSlot ==
  ASSUME NEW node, WFNode(node), NEW i \in 1 .. Len(node.buckets)
  PROVE  /\ node.buckets[i] \in Bucket
         /\ \A k \in DOMAIN node.buckets[i] :
              k \in Nat /\ node.pivotTable[i] <= k /\ k < node.pivotTable[i + 1]
<1>1. Parts(node.pivotTable, node.children, node.buckets)
  BY PartsOfNode
<1>2. node.buckets[i] \in Bucket /\ i \in DOMAIN node.buckets
  BY <1>1, PartsTyped
<1>3. DOMAIN node.buckets[i] \subseteq Nat
  BY <1>2, BucketFacts
<1>. QED  BY <1>2, <1>3 DEF WFNode

\* The slot of a key is a slot of the node.
LEMMA RouteInNode ==
  ASSUME NEW node, WFNode(node), NEW key \in Nat, BoundedKey(node.pivotTable, key)
  PROVE  LET r == Route(node.pivotTable, key)
         IN  /\ r \in 1 .. Len(node.buckets) /\ InSlot(node.pivotTable, r, key)
             /\ node.pivotTable[r] <= key /\ key < node.pivotTable[r + 1]
             /\ BucketAt(node, key) = node.buckets[r] /\ BucketAt(node, key) \in Bucket
<1>1. Parts(node.pivotTable, node.children, node.buckets)
  BY PartsOfNode
<1>2. Len(node.pivotTable) = Len(node.buckets) + 1 /\ Len(node.buckets) \in Nat
  BY <1>1, PartsTyped
<1>. DEFINE r == Route(node.pivotTable, key)
<1>3. InSlot(node.pivotTable, r, key)
  BY <1>1, RouteFacts
<1>. HIDE DEF r
<1>4. /\ r \in 1 .. Len(node.buckets)
      /\ node.pivotTable[r] <= key /\ key < node.pivotTable[r + 1]
  BY <1>2, <1>3 DEF InSlot
<1>5. node.buckets[r] \in Bucket
  BY <1>4, WithinSlot
<1>. QED  BY <1>3, <1>4, <1>5 DEF r, BucketAt

\* An insertion changes what the node says of one key.
LEMMA InsertNode ==
  ASSUME NEW node, WFNode(node), NEW key \in Key, NEW value \in Value,
         BoundedKey(node.pivotTable, key)
  PROVE  LET q == NodeInsertKeyValue(node, key, value)
         IN  /\ WFNode(q) /\ q.pivotTable = node.pivotTable /\ q.children = node.children
             /\ key \in DOMAIN BucketAt(q, key) /\ BucketAt(q, key)[key] = value
             /\ \A k \in Nat : BoundedKey(node.pivotTable, k) /\ k # key => Same(q, node, k)
<1>. DEFINE pt == node.pivotTable  bs == node.buckets
            r == Route(pt, key)
            q == NodeInsertKeyValue(node, key, value)
            b == Put(bs[r], key, value)
<1>1. key \in Nat
  BY DEF Key
<1>2. /\ r \in 1 .. Len(bs) /\ pt[r] <= key /\ key < pt[r + 1]
      /\ BucketAt(node, key) = bs[r] /\ BucketAt(node, key) \in Bucket
  BY <1>1, RouteInNode
<1>3. /\ bs[r] \in Bucket /\ b \in Bucket /\ DOMAIN b = DOMAIN bs[r] \cup {key}
      /\ b[key] = value /\ \A k \in DOMAIN bs[r] : k # key => b[k] = bs[r][k]
  <2>. DEFINE old == bs[r]
  <2>1. old \in Bucket
    BY <1>2
  <2>. HIDE DEF old
  <2>2. /\ Put(old, key, value) \in Bucket /\ DOMAIN Put(old, key, value) = DOMAIN old \cup {key}
        /\ Put(old, key, value)[key] = value
        /\ \A k \in DOMAIN old : k # key => Put(old, key, value)[k] = old[k]
    BY <2>1, PutBucketFacts
  <2>. QED  BY <2>1, <2>2 DEF old
<1>4. /\ node \in [pivotTable : Seq(Pivot), children : {node.children}, buckets : Seq(Bucket)]
      /\ IsLeaf(node) \/ Len(node.children) = Len(bs)
  BY DEF WFNode
<1>5. q = [node EXCEPT !.buckets = [bs EXCEPT ![r] = b]]
  BY DEF NodeInsertKeyValue
<1>6. /\ [bs EXCEPT ![r] = b] \in Seq(Bucket) /\ Len([bs EXCEPT ![r] = b]) = Len(bs)
      /\ \A j \in 1 .. Len(bs) : [bs EXCEPT ![r] = b][j] = IF j = r THEN b ELSE bs[j]
  <2>1. bs \in Seq(Bucket)
    BY <1>4
  <2>. HIDE DEF bs, b, r
  <2>. QED  BY <1>2, <1>3, <2>1, ExceptSeq
<1>. DEFINE ds == [bs EXCEPT ![r] = b]
<1>. HIDE DEF ds, b, q, r
<1>7. /\ q.pivotTable = pt /\ q.children = node.children /\ q.buckets = ds
      /\ q \in [pivotTable : Seq(Pivot), children : {q.children}, buckets : Seq(Bucket)]
  <2>1. ds \in Seq(Bucket)
    BY <1>6 DEF ds
  <2>2. q = [node EXCEPT !.buckets = ds]
    BY <1>5 DEF ds
  <2>3. q.pivotTable = pt /\ q.children = node.children /\ q.buckets = ds
    BY <1>4, <2>2
  <2>. QED  BY <1>4, <2>1, <2>2, <2>3
<1>8. \A i \in 1 .. Len(bs) : \A k \in DOMAIN ds[i] : pt[i] <= k /\ k < pt[i + 1]
  <2>1. ASSUME NEW i \in 1 .. Len(bs), NEW k \in DOMAIN ds[i]
        PROVE  pt[i] <= k /\ k < pt[i + 1]
    <3>1. \A l \in DOMAIN bs[i] : l \in Nat /\ pt[i] <= l /\ l < pt[i + 1]
      BY WithinSlot
    <3>2. CASE i = r
      BY <3>1, <3>2, <1>2, <1>3, <1>6, <2>1 DEF ds
    <3>3. CASE i # r
      BY <3>1, <3>3, <1>6, <2>1 DEF ds
    <3>. QED  BY <3>2, <3>3
  <2>. QED  BY <2>1
<1>9. WFNode(q)
  <2>1. Len(q.buckets) = Len(bs)
    BY <1>6, <1>7 DEF ds
  <2>2. q.children = <<>> \/ Len(q.children) = Len(bs)
    BY <1>4, <1>7 DEF IsLeaf
  <2>. QED  BY <1>7, <1>8, <2>1, <2>2, SameSlots
<1>10. key \in DOMAIN BucketAt(q, key) /\ BucketAt(q, key)[key] = value
  <2>1. BucketAt(q, key) = b
    BY <1>2, <1>6, <1>7 DEF BucketAt, ds, r
  <2>. QED  BY <2>1, <1>3
<1>11. ASSUME NEW k \in Nat, BoundedKey(pt, k), k # key
       PROVE  Same(q, node, k)
  <2>1. Route(pt, k) \in 1 .. Len(bs)
    BY <1>11, RouteInNode
  <2>2. Agree(ds[Route(pt, k)], bs[Route(pt, k)], k)
    <3>1. CASE Route(pt, k) = r
      BY <3>1, <2>1, <1>3, <1>6, <1>11 DEF Agree, ds
    <3>2. CASE Route(pt, k) # r
      BY <3>2, <2>1, <1>6 DEF Agree, ds
    <3>. QED  BY <3>1, <3>2
  <2>. QED  BY <2>2, <1>7, <1>11 DEF Same, BucketAt, ChildAt, IsLeaf
<1>. QED  BY <1>7, <1>9, <1>10, <1>11 DEF q

\* What is flushed into a node lies over what was there.
LEMMA MergedNode ==
  ASSUME NEW node, WFNode(node), NEW msgs \in Bucket, BucketBounded(msgs, node.pivotTable)
  PROVE  LET q == MergedOver(node, msgs)
         IN  /\ WFNode(q) /\ q.pivotTable = node.pivotTable /\ q.children = node.children
             /\ \A k \in Nat : BoundedKey(node.pivotTable, k) =>
                  BucketAt(q, k) \in Bucket
                  /\ (k \in DOMAIN BucketAt(q, k)
                        <=> k \in DOMAIN msgs \/ k \in DOMAIN BucketAt(node, k))
                  /\ (k \in DOMAIN msgs => BucketAt(q, k)[k] = msgs[k])
                  /\ (k \in DOMAIN BucketAt(node, k) /\ k \notin DOMAIN msgs
                        => BucketAt(q, k)[k] = BucketAt(node, k)[k])
<1>. DEFINE pt == node.pivotTable  bs == node.buckets  n == Len(bs)
            q == MergedOver(node, msgs)
            To(i) == {k \in DOMAIN msgs : Route(pt, k) = i}
            ds == [i \in 1 .. n |-> Over(Restrict(msgs, To(i)), bs[i])]
<1>1. /\ node \in [pivotTable : Seq(Pivot), children : {node.children}, buckets : Seq(Bucket)]
      /\ IsLeaf(node) \/ Len(node.children) = Len(bs)
      /\ bs \in Seq(Bucket) /\ n \in Nat /\ DOMAIN bs = 1 .. n
  BY DEF WFNode
<1>2. q = [node EXCEPT !.buckets = ds]
  BY <1>1 DEF MergedOver
<1>3. ASSUME NEW i \in 1 .. n
      PROVE  /\ ds[i] \in Bucket /\ DOMAIN ds[i] = To(i) \cup DOMAIN bs[i]
             /\ \A k \in To(i) : ds[i][k] = msgs[k]
             /\ \A k \in DOMAIN bs[i] : k \notin To(i) => ds[i][k] = bs[i][k]
  <2>1. To(i) \in SUBSET DOMAIN msgs
    OBVIOUS
  <2>. DEFINE mine == Restrict(msgs, To(i))
  <2>2. /\ mine \in Bucket /\ DOMAIN mine = To(i) /\ \A k \in To(i) : mine[k] = msgs[k]
    <3>. HIDE DEF To
    <3>. QED  BY <2>1, RestrictFacts
  <2>3. ds[i] = Over(mine, bs[i])
    OBVIOUS
  <2>4. bs[i] \in Bucket
    BY <1>1
  <2>. HIDE DEF mine, ds, bs, To
  <2>5. /\ Over(mine, bs[i]) \in Bucket
        /\ DOMAIN Over(mine, bs[i]) = DOMAIN mine \cup DOMAIN bs[i]
        /\ \A k \in DOMAIN mine : Over(mine, bs[i])[k] = mine[k]
        /\ \A k \in DOMAIN bs[i] : k \notin DOMAIN mine => Over(mine, bs[i])[k] = bs[i][k]
    BY <2>2, <2>4, OverFacts
  <2>. QED  BY <2>2, <2>3, <2>5
<1>4. ds \in Seq(Bucket) /\ Len(ds) = n
  <2>1. \A i \in 1 .. n : ds[i] \in Bucket
    BY <1>3
  <2>2. ds = [i \in 1 .. n |-> ds[i]]
    OBVIOUS
  <2>. HIDE DEF ds
  <2>3. ds \in [1 .. n -> Bucket]
    BY <2>1, <2>2
  <2>. QED  BY <2>3, <1>1, SMTT(30)
<1>. HIDE DEF ds, q
<1>5. /\ q.pivotTable = pt /\ q.children = node.children /\ q.buckets = ds
      /\ q \in [pivotTable : Seq(Pivot), children : {q.children}, buckets : Seq(Bucket)]
  <2>1. q.pivotTable = pt /\ q.children = node.children /\ q.buckets = ds
    BY <1>1, <1>2
  <2>. QED  BY <1>1, <1>2, <1>4, <2>1
<1>6. \A i \in 1 .. n : \A k \in DOMAIN ds[i] : pt[i] <= k /\ k < pt[i + 1]
  <2>1. ASSUME NEW i \in 1 .. n, NEW k \in DOMAIN ds[i]
        PROVE  pt[i] <= k /\ k < pt[i + 1]
    <3>1. CASE k \in DOMAIN bs[i]
      BY <3>1, WithinSlot
    <3>2. CASE k \in To(i)
      <4>1. k \in Nat /\ BoundedKey(pt, k) /\ Route(pt, k) = i
        <5>1. DOMAIN msgs \subseteq Nat
          BY BucketFacts
        <5>. QED  BY <5>1, <3>2 DEF BucketBounded
      <4>. QED  BY <4>1, RouteInNode
    <3>. QED  BY <3>1, <3>2, <1>3, <2>1
  <2>. QED  BY <2>1
<1>7. WFNode(q)
  <2>1. q.children = <<>> \/ Len(q.children) = Len(bs)
    BY <1>1, <1>5 DEF IsLeaf
  <2>2. Len(q.buckets) = Len(bs)
    BY <1>4, <1>5
  <2>. QED  BY <1>5, <1>6, <2>1, <2>2, SameSlots
<1>8. ASSUME NEW k \in Nat, BoundedKey(pt, k)
      PROVE  /\ BucketAt(q, k) \in Bucket
             /\ k \in DOMAIN BucketAt(q, k)
                  <=> k \in DOMAIN msgs \/ k \in DOMAIN BucketAt(node, k)
             /\ k \in DOMAIN msgs => BucketAt(q, k)[k] = msgs[k]
             /\ k \in DOMAIN BucketAt(node, k) /\ k \notin DOMAIN msgs
                  => BucketAt(q, k)[k] = BucketAt(node, k)[k]
  <2>. DEFINE i == Route(pt, k)
  <2>1. i \in 1 .. n
    BY <1>8, RouteInNode
  <2>2. BucketAt(q, k) = ds[i] /\ BucketAt(node, k) = bs[i]
    BY <1>5 DEF BucketAt
  <2>3. k \in To(i) <=> k \in DOMAIN msgs
    OBVIOUS
  <2>4. /\ ds[i] \in Bucket /\ DOMAIN ds[i] = To(i) \cup DOMAIN bs[i]
        /\ \A l \in To(i) : ds[i][l] = msgs[l]
        /\ \A l \in DOMAIN bs[i] : l \notin To(i) => ds[i][l] = bs[i][l]
    BY <2>1, <1>3
  <2>. HIDE DEF To, i
  <2>. QED  BY <2>2, <2>3, <2>4
<1>. QED  BY <1>5, <1>7, <1>8 DEF q

\* A parent after a flush: the slot has lost the messages that moved.
FlushedParent(node, slot, moved, newref) ==
  [node EXCEPT !.buckets[slot] = Restrict(@, DOMAIN @ \ moved), !.children[slot] = newref]

OtherSlots(q, node, slot) ==
  \A i \in 1 .. Len(node.buckets) : i # slot =>
    q.children[i] = node.children[i] /\ q.buckets[i] = node.buckets[i]

\* The node q is the parent of a child that a flush has copied.
FlushedFrom(S, q, node, slot, moved, newref) ==
  /\ WFNode(q) /\ q.children \in Seq(S) /\ ~IsLeaf(q)
  /\ q.pivotTable = node.pivotTable /\ Len(q.buckets) = Len(node.buckets)
  /\ q.children[slot] = newref /\ OtherSlots(q, node, slot)
  /\ DOMAIN q.buckets[slot] = DOMAIN node.buckets[slot] \ moved
  /\ \A k \in DOMAIN q.buckets[slot] : q.buckets[slot][k] = node.buckets[slot][k]

\* A flush changes one slot of the parent, and takes out what has moved.
LEMMA FlushedNode ==
  ASSUME NEW S, NEW node, WFNode(node), node.children \in Seq(S), ~IsLeaf(node),
         NEW slot \in 1 .. Len(node.buckets), NEW moved, NEW newref \in S
  PROVE  FlushedFrom(S, FlushedParent(node, slot, moved, newref), node, slot, moved, newref)
<1>. SUFFICES LET q == FlushedParent(node, slot, moved, newref)
              IN  /\ WFNode(q) /\ q.children \in Seq(S) /\ ~IsLeaf(q)
                  /\ q.pivotTable = node.pivotTable /\ Len(q.buckets) = Len(node.buckets)
                  /\ q.children[slot] = newref /\ OtherSlots(q, node, slot)
                  /\ DOMAIN q.buckets[slot] = DOMAIN node.buckets[slot] \ moved
                  /\ \A k \in DOMAIN q.buckets[slot] :
                       q.buckets[slot][k] = node.buckets[slot][k]
  BY DEF FlushedFrom
<1>. DEFINE pt == node.pivotTable  bs == node.buckets  ch == node.children  n == Len(bs)
            q == FlushedParent(node, slot, moved, newref)
            b == Restrict(bs[slot], DOMAIN bs[slot] \ moved)
            ds == [bs EXCEPT ![slot] = b]
            cs == [ch EXCEPT ![slot] = newref]
<1>1. /\ node \in [pivotTable : Seq(Pivot), children : {node.children}, buckets : Seq(Bucket)]
      /\ Len(ch) = n /\ bs \in Seq(Bucket) /\ n \in Nat
  BY DEF WFNode
<1>2. q = [[node EXCEPT !.buckets = ds] EXCEPT !.children = cs]
  <2>1. [node EXCEPT !.buckets = ds].children = ch
    BY <1>1
  <2>. QED  BY <2>1 DEF FlushedParent
<1>3. bs[slot] \in Bucket /\ \A k \in DOMAIN bs[slot] : k \in Nat /\ pt[slot] <= k /\ k < pt[slot + 1]
  BY WithinSlot
<1>4. /\ b \in Bucket /\ DOMAIN b = DOMAIN bs[slot] \ moved
      /\ \A k \in DOMAIN b : b[k] = bs[slot][k]
  <2>. DEFINE old == bs[slot]  T == DOMAIN bs[slot] \ moved
  <2>1. old \in Bucket /\ T \in SUBSET DOMAIN old
    BY <1>3
  <2>2. b = Restrict(old, T) /\ T = DOMAIN bs[slot] \ moved /\ old = bs[slot]
    OBVIOUS
  <2>. HIDE DEF old, T
  <2>3. /\ Restrict(old, T) \in Bucket /\ DOMAIN Restrict(old, T) = T
        /\ \A k \in T : Restrict(old, T)[k] = old[k]
    BY <2>1, RestrictFacts
  <2>. HIDE DEF b
  <2>. QED  BY <2>2, <2>3
<1>. HIDE DEF b
<1>5. /\ ds \in Seq(Bucket) /\ Len(ds) = n
      /\ \A j \in 1 .. n : ds[j] = IF j = slot THEN b ELSE bs[j]
  <2>. HIDE DEF bs
  <2>1. slot \in 1 .. Len(bs)
    BY DEF bs
  <2>. QED  BY <1>1, <1>4, <2>1, ExceptSeq
<1>6. /\ cs \in Seq(S) /\ Len(cs) = n
      /\ \A j \in 1 .. n : cs[j] = IF j = slot THEN newref ELSE ch[j]
  <2>1. ch \in Seq(S) /\ slot \in 1 .. Len(ch)
    BY <1>1
  <2>. HIDE DEF ch
  <2>2. /\ cs \in Seq(S) /\ Len(cs) = Len(ch)
        /\ \A j \in 1 .. Len(ch) : cs[j] = IF j = slot THEN newref ELSE ch[j]
    BY <2>1, ExceptSeq
  <2>. QED  BY <2>2, <1>1
<1>. HIDE DEF ds, cs, q
<1>7. /\ q.pivotTable = pt /\ q.children = cs /\ q.buckets = ds
      /\ q \in [pivotTable : Seq(Pivot), children : {q.children}, buckets : Seq(Bucket)]
  <2>. DEFINE m == [node EXCEPT !.buckets = ds]
  <2>1. /\ m.pivotTable = pt /\ m.buckets = ds
        /\ m \in [pivotTable : Seq(Pivot), children : {ch}, buckets : Seq(Bucket)]
    BY <1>1, <1>5
  <2>. HIDE DEF m
  <2>2. q = [m EXCEPT !.children = cs]
    BY <1>2 DEF m
  <2>. QED  BY <2>1, <2>2
<1>8. \A i \in 1 .. n : \A k \in DOMAIN ds[i] : pt[i] <= k /\ k < pt[i + 1]
  <2>1. ASSUME NEW i \in 1 .. n, NEW k \in DOMAIN ds[i]
        PROVE  pt[i] <= k /\ k < pt[i + 1]
    <3>1. k \in DOMAIN bs[i]
      BY <2>1, <1>4, <1>5
    <3>. QED  BY <3>1, WithinSlot
  <2>. QED  BY <2>1
<1>9. WFNode(q)
  <2>1. Len(q.buckets) = n /\ Len(q.children) = n
    BY <1>5, <1>6, <1>7
  <2>. QED  BY <1>7, <1>8, <2>1, SameSlots
<1>10. ~IsLeaf(q)
  <2>1. Len(cs) # 0 /\ Len(<<>>) = 0
    BY <1>1, <1>6
  <2>. QED  BY <2>1, <1>7 DEF IsLeaf
<1>. QED  BY <1>4, <1>5, <1>6, <1>7, <1>9, <1>10 DEF q, OtherSlots

-----------------------------------------------------------------------------
\* New nodes.

\* The empty bucket is one.
LEMMA EmptyIsBucket ==
  /\ EmptyBucket \in Bucket /\ DOMAIN EmptyBucket = {}
<1>1. EmptyBucket \in [{} -> Value] /\ DOMAIN EmptyBucket = {}
  BY DEF EmptyBucket
<1>. QED  BY <1>1, MapIsBucket

\* A node with one slot for all keys and no messages, with a child or without.
LEMMA OneSlot ==
  ASSUME NEW cs, cs = <<>> \/ Len(cs) = 1
  PROVE  LET q == [EmptyNode EXCEPT !.children = cs]
         IN  /\ WFNode(q) /\ q.children = cs /\ q.pivotTable = InitPivotTable
             /\ ContainsAllKeys(q.pivotTable) /\ Len(q.buckets) = 1
             /\ \A k \in Key : /\ BoundedKey(q.pivotTable, k)
                               /\ BucketAt(q, k) = EmptyBucket /\ ChildAt(q, k) = cs[1]
<1>. DEFINE q == [EmptyNode EXCEPT !.children = cs]
            pt == <<0, NumKeys>>  ds == <<EmptyBucket>>
<1>1. q = [pivotTable |-> pt, children |-> cs, buckets |-> ds]
  BY DEF EmptyNode, InitPivotTable
<1>2. EmptyBucket \in Bucket /\ DOMAIN EmptyBucket = {}
  BY EmptyIsBucket
<1>3. /\ pt \in Seq(Pivot) /\ Len(pt) = 2 /\ pt[1] = 0 /\ pt[2] = NumKeys
  BY DEF Pivot
<1>4. ds \in Seq(Bucket) /\ Len(ds) = 1 /\ ds[1] = EmptyBucket /\ DOMAIN ds = 1 .. 1
  BY <1>2
<1>. HIDE DEF pt, ds, q
<1>5. Parts(pt, cs, ds)
  <2>1. \A i \in 2 .. Len(pt) : pt[i - 1] < pt[i]
    BY <1>3
  <2>2. \A i \in DOMAIN ds : DOMAIN ds[i] = {}
    BY <1>2, <1>4
  <2>. QED  BY <1>3, <1>4, <2>1, <2>2 DEF Parts
<1>6. /\ q.pivotTable = pt /\ q.children = cs /\ q.buckets = ds
  BY <1>1
<1>7. WFNode(q)
  BY <1>1, <1>5, NodeOfParts
<1>8. ContainsAllKeys(pt)
  BY <1>3 DEF ContainsAllKeys, Last
<1>9. ASSUME NEW k \in Key
      PROVE  /\ BoundedKey(pt, k) /\ BucketAt(q, k) = EmptyBucket /\ ChildAt(q, k) = cs[1]
  <2>1. k \in Nat /\ 0 <= k /\ k < NumKeys
    BY DEF Key
  <2>2. InSlot(pt, 1, k)
    BY <2>1, <1>3 DEF InSlot
  <2>3. BoundedKey(pt, k) /\ Route(pt, k) = 1
    BY <2>1, <2>2, <1>5, SlotIsRoute
  <2>. QED  BY <2>3, <1>4, <1>6 DEF BucketAt, ChildAt
<1>. QED  BY <1>4, <1>6, <1>7, <1>8, <1>9 DEF q, InitPivotTable, pt

-----------------------------------------------------------------------------
\* A leaf that is repivoted.

\* The middle key is never the empty key: both sides of it can have keys.
LEMMA MiddleKey ==
  ASSUME NEW b \in Bucket
  PROVE  getMiddleKey(b) \in 1 .. (NumKeys - 1)
<1>. DEFINE keys == Ascending(DOMAIN b)
<1>1. /\ DOMAIN b \subseteq Key /\ DOMAIN b \in SUBSET Int /\ IsFiniteSet(DOMAIN b)
  <2>1. DOMAIN b \subseteq Key /\ DOMAIN b \subseteq Nat /\ IsFiniteSet(DOMAIN b)
    BY BucketFacts
  <2>. QED  BY <2>1
<1>2. keys \in Seq(DOMAIN b)
  BY <1>1, AscendingFacts
<1>3. CASE keys = <<>>
  BY <1>3 DEF getMiddleKey
<1>4. CASE keys # <<>>
  <2>. HIDE DEF keys
  <2>1. Len(keys) \in Nat /\ Len(keys) >= 1
    BY <1>2, <1>4, EmptySeq
  <2>2. Len(keys) \div 2 + 1 \in 1 .. Len(keys)
    BY <2>1
  <2>3. keys[Len(keys) \div 2 + 1] \in Key
    BY <1>1, <1>2, <2>2, ElementOfSeq
  <2>4. keys[Len(keys) \div 2 + 1] \in 0 .. (NumKeys - 1)
    BY <2>3 DEF Key
  <2>5. getMiddleKey(b) = IF keys[Len(keys) \div 2 + 1] = 0 THEN 1
                          ELSE keys[Len(keys) \div 2 + 1]
    BY <1>4 DEF getMiddleKey, keys
  <2>. QED  BY <2>4, <2>5
<1>. QED  BY <1>3, <1>4

\* A repivoted leaf spans all keys and looks the same for those it had.
LEMMA RepivotedNode ==
  ASSUME NEW node, WFNode(node), IsLeaf(node), Len(node.buckets) = 1
  PROVE  LET q == RepivotedLeaf(node)
         IN  /\ WFNode(q) /\ IsLeaf(q) /\ ContainsAllKeys(q.pivotTable)
             /\ \A k \in Key : BoundedKey(node.pivotTable, k) => Same(q, node, k)
<1>. DEFINE b == node.buckets[1]
            pivot == getMiddleKey(b)
            q == RepivotedLeaf(node)
            pt == InsertAt(InitPivotTable, 2, pivot)
            lo == SplitBucketLeft(b, pivot)
            hi == SplitBucketRight(b, pivot)
            ds == <<lo, hi>>
<1>1. b \in Bucket /\ DOMAIN b \subseteq Key
  <2>1. b \in Bucket
    BY WithinSlot
  <2>. QED  BY <2>1, BucketFacts
<1>2. pivot \in 1 .. (NumKeys - 1) /\ pivot \in Pivot /\ pivot \in Nat
  <2>1. pivot \in 1 .. (NumKeys - 1)
    BY <1>1, MiddleKey
  <2>. QED  BY <2>1 DEF Pivot
<1>. HIDE DEF b, pivot
<1>3. /\ pt \in Seq(Pivot) /\ Len(pt) = 3 /\ pt[1] = 0 /\ pt[2] = pivot /\ pt[3] = NumKeys
  <2>1. /\ InitPivotTable \in Seq(Pivot) /\ Len(InitPivotTable) = 2
        /\ InitPivotTable[1] = 0 /\ InitPivotTable[2] = NumKeys
    BY DEF InitPivotTable, Pivot
  <2>2. /\ InsertAt(InitPivotTable, 2, pivot) \in Seq(Pivot)
        /\ Len(InsertAt(InitPivotTable, 2, pivot)) = Len(InitPivotTable) + 1
        /\ \A j \in 1 .. (Len(InitPivotTable) + 1) :
             InsertAt(InitPivotTable, 2, pivot)[j] =
               IF j < 2 THEN InitPivotTable[j] ELSE IF j = 2 THEN pivot
               ELSE InitPivotTable[j - 1]
    <3>. DEFINE two == 2
    <3>1. two \in 1 .. (Len(InitPivotTable) + 1)
      BY <2>1
    <3>. HIDE DEF two
    <3>2. /\ InsertAt(InitPivotTable, two, pivot) \in Seq(Pivot)
          /\ Len(InsertAt(InitPivotTable, two, pivot)) = Len(InitPivotTable) + 1
          /\ \A j \in 1 .. (Len(InitPivotTable) + 1) :
               InsertAt(InitPivotTable, two, pivot)[j] =
                 IF j < two THEN InitPivotTable[j] ELSE IF j = two THEN pivot
                 ELSE InitPivotTable[j - 1]
      <4>1. InitPivotTable \in Seq(Pivot) /\ pivot \in Pivot
        BY <1>2, <2>1
      <4>2. Inserted(Pivot, InitPivotTable, two, pivot, InsertAt(InitPivotTable, two, pivot))
        BY <3>1, <4>1, InsertAtFacts
      <4>. QED  BY <4>2 DEF Inserted
    <3>. QED  BY <3>2 DEF two
  <2>. HIDE DEF pt
  <2>3. pt = InsertAt(InitPivotTable, 2, pivot)
    BY DEF pt
  <2>4. Len(pt) = 3 /\ pt[1] = 0 /\ pt[2] = pivot /\ pt[3] = NumKeys
    BY <2>1, <2>2, <2>3
  <2>. QED  BY <2>2, <2>3, <2>4
<1>4. /\ lo \in Bucket /\ hi \in Bucket
      /\ DOMAIN lo = {k \in DOMAIN b : k < pivot} /\ DOMAIN hi = {k \in DOMAIN b : k >= pivot}
  BY <1>1, <1>2, SplitBucketFacts
<1>5. /\ \A k \in Nat : k < pivot => Agree(lo, b, k)
      /\ \A k \in Nat : k >= pivot => Agree(hi, b, k)
  BY <1>1, <1>2, SplitBucketFacts
<1>6. q = [pivotTable |-> pt, children |-> <<>>, buckets |-> ds]
  BY DEF RepivotedLeaf, b, pivot
<1>. HIDE DEF lo, hi
<1>7. ds \in Seq(Bucket) /\ Len(ds) = 2 /\ ds[1] = lo /\ ds[2] = hi /\ DOMAIN ds = 1 .. 2
  BY <1>4
<1>. HIDE DEF q, pt, ds
<1>8. Parts(pt, <<>>, ds)
  <2>1. \A i \in 2 .. Len(pt) : pt[i - 1] < pt[i]
    <3>1. pt[1] < pt[2] /\ pt[2] < pt[3]
      BY <1>2, <1>3
    <3>2. ASSUME NEW i \in 2 .. Len(pt)
          PROVE  pt[i - 1] < pt[i]
      <4>1. (i = 2 /\ i - 1 = 1) \/ (i = 3 /\ i - 1 = 2)
        BY <1>3
      <4>. QED  BY <3>1, <4>1
    <3>. QED  BY <3>2
  <2>2. \A i \in DOMAIN ds : \A k \in DOMAIN ds[i] : pt[i] <= k /\ k < pt[i + 1]
    <3>1. \A k \in DOMAIN b : k \in Nat /\ k < NumKeys
      BY <1>1 DEF Key
    <3>2. \A k \in DOMAIN lo : pt[1] <= k /\ k < pt[1 + 1]
      BY <3>1, <1>2, <1>3, <1>4
    <3>3. \A k \in DOMAIN hi : pt[2] <= k /\ k < pt[2 + 1]
      BY <3>1, <1>2, <1>3, <1>4
    <3>4. \A i \in DOMAIN ds : i = 1 \/ i = 2
      BY <1>7
    <3>. QED  BY <3>2, <3>3, <3>4, <1>7
  <2>. QED  BY <1>3, <1>7, <2>1, <2>2 DEF Parts
<1>9. WFNode(q) /\ q.pivotTable = pt /\ q.children = <<>> /\ q.buckets = ds
  BY <1>6, <1>8, NodeOfParts
<1>10. ContainsAllKeys(pt)
  BY <1>3 DEF ContainsAllKeys, Last
<1>11. ASSUME NEW k \in Key, BoundedKey(node.pivotTable, k)
       PROVE  Same(q, node, k)
  <2>1. k \in Nat /\ 0 <= k /\ k < NumKeys
    BY DEF Key
  <2>2. Route(node.pivotTable, k) \in 1 .. 1
    BY <2>1, <1>11, RouteInNode
  <2>3. BucketAt(node, k) = b
    BY <2>2 DEF BucketAt, b
  <2>4. BoundedKey(pt, k) /\ Agree(BucketAt(q, k), b, k)
    <3>1. CASE k < pivot
      <4>1. InSlot(pt, 1, k)
        BY <3>1, <2>1, <1>3 DEF InSlot
      <4>2. BoundedKey(pt, k) /\ Route(pt, k) = 1
        BY <4>1, <2>1, <1>8, SlotIsRoute
      <4>. QED  BY <4>2, <3>1, <2>1, <1>5, <1>7, <1>9 DEF BucketAt
    <3>2. CASE k >= pivot
      <4>1. InSlot(pt, 2, k)
        BY <3>2, <2>1, <1>3 DEF InSlot
      <4>2. BoundedKey(pt, k) /\ Route(pt, k) = 2
        BY <4>1, <2>1, <1>8, SlotIsRoute
      <4>. QED  BY <4>2, <3>2, <2>1, <1>5, <1>7, <1>9 DEF BucketAt
    <3>. QED  BY <3>1, <3>2, <2>1, <1>2
  <2>. QED  BY <1>9, <1>11, <2>3, <2>4 DEF Same, IsLeaf
<1>. QED  BY <1>9, <1>10, <1>11 DEF q, IsLeaf

\* What a split parent has at a key.
LEMMA SplitParentAt ==
  ASSUME NEW S, NEW node, WFNode(node), node.children \in Seq(S), ~IsLeaf(node),
         NEW slot \in 1 .. Len(node.buckets), NEW pivot \in Nat,
         PivotInsertable(node.pivotTable, slot + 1, pivot), NEW left \in S, NEW right \in S,
         NEW key \in Nat, BoundedKey(node.pivotTable, key)
  PROVE  LET q == SplitParent(node, slot, pivot, left, right)
         IN  /\ BoundedKey(q.pivotTable, key)
             /\ Agree(BucketAt(q, key), BucketAt(node, key), key)
             /\ ChildAt(q, key) =
                  IF Route(node.pivotTable, key) # slot THEN ChildAt(node, key)
                  ELSE IF key < pivot THEN left ELSE right
<1>. DEFINE q == SplitParent(node, slot, pivot, left, right)
            r == Route(node.pivotTable, key)
            n == Len(node.buckets)
<1>1. WFNode(q) /\ Len(q.buckets) = n + 1 /\ SplitSlots(q, node, slot, pivot, left, right)
  <2>1. SplitFrom(S, q, node, slot, pivot, left, right)
    BY SplitParentNode
  <2>. HIDE DEF q
  <2>. QED  BY <2>1 DEF SplitFrom
<1>. HIDE DEF q
<1>2. r \in 1 .. n /\ node.pivotTable[r] <= key /\ key < node.pivotTable[r + 1]
  <2>1. r \in 1 .. n
    BY RouteInNode
  <2>2. node.pivotTable[r] <= key /\ key < node.pivotTable[r + 1]
    BY RouteInNode
  <2>. QED  BY <2>1, <2>2
<1>3. BucketAt(node, key) = node.buckets[r] /\ ChildAt(node, key) = node.children[r]
  BY DEF BucketAt, ChildAt
<1>. HIDE DEF r
<1>4. n \in Nat /\ Len(q.pivotTable) = n + 2 /\ Parts(q.pivotTable, q.children, q.buckets)
  <2>1. Parts(q.pivotTable, q.children, q.buckets)
    BY <1>1, PartsOfNode
  <2>2. Len(q.pivotTable) = Len(q.buckets) + 1
    BY <2>1, PartsTyped
  <2>3. n \in Nat
    BY PartsOfNode, PartsTyped
  <2>. QED  BY <2>1, <2>2, <2>3, <1>1
<1>5. ASSUME NEW j \in 1 .. (n + 1), q.pivotTable[j] <= key, key < q.pivotTable[j + 1]
      PROVE  /\ BoundedKey(q.pivotTable, key)
             /\ BucketAt(q, key) = q.buckets[j] /\ ChildAt(q, key) = q.children[j]
  <2>1. InSlot(q.pivotTable, j, key)
    BY <1>4, <1>5 DEF InSlot
  <2>2. BoundedKey(q.pivotTable, key) /\ Route(q.pivotTable, key) = j
    BY <2>1, <1>4, SlotIsRoute
  <2>. QED  BY <2>2 DEF BucketAt, ChildAt
<1>6. node.buckets[slot] \in Bucket
  BY WithinSlot
<1>7. /\ key < pivot => Agree(SplitBucketLeft(node.buckets[slot], pivot), node.buckets[slot], key)
      /\ key >= pivot => Agree(SplitBucketRight(node.buckets[slot], pivot), node.buckets[slot], key)
  BY <1>6, SplitBucketFacts
<1>8. Len(q.buckets) = n + 1 /\ slot \in 1 .. n
  BY <1>1
<1>9. CASE r < slot
  <2>1. r \in 1 .. (n + 1)
    BY <1>2, <1>4
  <2>2. /\ q.pivotTable[r] = node.pivotTable[r] /\ q.pivotTable[r + 1] = node.pivotTable[r + 1]
        /\ q.buckets[r] = node.buckets[r] /\ q.children[r] = node.children[r]
    BY <2>1, <1>1, <1>8, <1>9 DEF SplitSlots
  <2>3. /\ BoundedKey(q.pivotTable, key)
        /\ BucketAt(q, key) = q.buckets[r] /\ ChildAt(q, key) = q.children[r]
    BY <2>1, <2>2, <1>2, <1>5
  <2>4. r # slot
    BY <1>2, <1>8, <1>9
  <2>. QED  BY <2>2, <2>3, <2>4, <1>3 DEF Agree, q, r
<1>10. CASE r > slot
  <2>. DEFINE j == r + 1
  <2>1. j \in 1 .. (n + 1) /\ j > slot + 1 /\ j - 1 = r
    BY <1>2, <1>4, <1>8, <1>10
  <2>. HIDE DEF j
  <2>2. /\ q.pivotTable[j] = node.pivotTable[r] /\ q.pivotTable[j + 1] = node.pivotTable[r + 1]
        /\ q.buckets[j] = node.buckets[r] /\ q.children[j] = node.children[r]
    BY <2>1, <1>1, <1>8 DEF SplitSlots
  <2>3. /\ BoundedKey(q.pivotTable, key)
        /\ BucketAt(q, key) = q.buckets[j] /\ ChildAt(q, key) = q.children[j]
    BY <2>1, <2>2, <1>2, <1>5
  <2>4. r # slot
    BY <1>2, <1>8, <1>10
  <2>. QED  BY <2>2, <2>3, <2>4, <1>3 DEF Agree, q, r
<1>11. CASE r = slot /\ key < pivot
  <2>1. slot \in 1 .. (n + 1)
    BY <1>4, <1>8
  <2>2. /\ q.pivotTable[slot] = node.pivotTable[slot] /\ q.pivotTable[slot + 1] = pivot
        /\ q.buckets[slot] = SplitBucketLeft(node.buckets[slot], pivot)
        /\ q.children[slot] = left
    BY <2>1, <1>1, <1>8 DEF SplitSlots
  <2>3. /\ BoundedKey(q.pivotTable, key)
        /\ BucketAt(q, key) = q.buckets[slot] /\ ChildAt(q, key) = q.children[slot]
    BY <2>1, <2>2, <1>2, <1>5, <1>11
  <2>. QED  BY <2>2, <2>3, <1>3, <1>7, <1>11 DEF q, r
<1>12. CASE r = slot /\ key >= pivot
  <2>. DEFINE j == slot + 1
  <2>1. j \in 1 .. (n + 1) /\ j = slot + 1 /\ ~(key < pivot)
    BY <1>4, <1>8, <1>12
  <2>. HIDE DEF j
  <2>2. /\ q.pivotTable[j] = pivot /\ q.pivotTable[j + 1] = node.pivotTable[slot + 1]
        /\ q.buckets[j] = SplitBucketRight(node.buckets[slot], pivot)
        /\ q.children[j] = right
    BY <2>1, <1>1, <1>8 DEF SplitSlots
  <2>3. /\ BoundedKey(q.pivotTable, key)
        /\ BucketAt(q, key) = q.buckets[j] /\ ChildAt(q, key) = q.children[j]
    BY <2>1, <2>2, <1>2, <1>5, <1>12
  <2>. QED  BY <2>1, <2>2, <2>3, <1>3, <1>7, <1>12 DEF q, r
<1>. QED  BY <1>2, <1>8, <1>9, <1>10, <1>11, <1>12

-----------------------------------------------------------------------------
\* The biggest slot is one of the node.
LEMMA WeightTyped ==
  ASSUME NEW b \in Bucket
  PROVE  BucketWeight(b) \in Nat /\ BucketWeight(b) <= NumKeys
<1>1. DOMAIN b \subseteq Key
  BY BucketFacts
<1>2. NumKeys - 1 \in Int /\ NumKeys - 1 - 0 + 1 = NumKeys /\ 0 \in Int
  OBVIOUS
<1>3. IsFiniteSet(Key) /\ Cardinality(Key) = NumKeys
  <2>1. /\ IsFiniteSet(0 .. (NumKeys - 1))
        /\ Cardinality(0 .. (NumKeys - 1)) =
             IF 0 > NumKeys - 1 THEN 0 ELSE (NumKeys - 1) - 0 + 1
    BY <1>2, FS_Interval
  <2>. QED  BY <2>1, <1>2 DEF Key
<1>4. /\ Cardinality(DOMAIN b) <= Cardinality(Key) /\ IsFiniteSet(DOMAIN b)
  BY <1>1, <1>3, FS_Subset
<1>5. Cardinality(DOMAIN b) \in Nat
  BY <1>4, FS_CardinalityType
<1>. QED  BY <1>3, <1>4, <1>5 DEF BucketWeight

\* The biggest slot is one of the node, and no bucket weighs more than its.
LEMMA BiggestSlotFacts ==
  ASSUME NEW node, WFNode(node)
  PROVE  /\ BiggestSlot(node) \in 1 .. Len(node.buckets)
         /\ \A j \in 1 .. Len(node.buckets) :
              BucketWeight(node.buckets[j]) <= BucketWeight(node.buckets[BiggestSlot(node)])
<1>. DEFINE n == Len(node.buckets)
            weight(i) == BucketWeight(node.buckets[i])
            T == {NumKeys - weight(i) : i \in 1 .. n}
<1>1. /\ n \in Nat /\ n >= 1 /\ DOMAIN node.buckets = 1 .. n
      /\ \A i \in 1 .. n : node.buckets[i] \in Bucket
  BY PartsOfNode, PartsTyped
<1>2. \A i \in 1 .. n : weight(i) \in Nat /\ weight(i) <= NumKeys /\ NumKeys - weight(i) \in Nat
  <2>1. \A i \in 1 .. n : weight(i) \in Nat /\ weight(i) <= NumKeys
    BY <1>1, WeightTyped
  <2>2. \A x \in Nat : x <= NumKeys => NumKeys - x \in Nat
    OBVIOUS
  <2>. QED  BY <2>1, <2>2
<1>. HIDE DEF weight
<1>3. T \in SUBSET Nat /\ T # {}
  <2>1. 1 \in 1 .. n
    BY <1>1
  <2>. QED  BY <2>1, <1>2
<1>4. PICK t \in T : \A u \in T : t <= u
  BY <1>3, LeastNumber
<1>5. PICK a \in 1 .. n : t = NumKeys - weight(a)
  BY <1>4
<1>6. \A j \in 1 .. n : weight(j) <= weight(a)
  <2>1. ASSUME NEW j \in 1 .. n
        PROVE  weight(j) <= weight(a)
    <3>1. t <= NumKeys - weight(j)
      BY <1>4
    <3>2. weight(j) \in Nat /\ weight(a) \in Nat
      BY <1>2
    <3>. QED  BY <1>5, <3>1, <3>2
  <2>. QED  BY <2>1
<1>. DEFINE U == {i \in 1 .. n : weight(i) = weight(a)}
<1>7. U \in SUBSET Nat /\ U # {}
  OBVIOUS
<1>8. PICK i \in U : \A u \in U : i <= u
  BY <1>7, LeastNumber
<1>9. i \in 1 .. n /\ \A j \in 1 .. n : weight(j) <= weight(i) /\ (weight(j) = weight(i) => i <= j)
  BY <1>6, <1>8
<1>. DEFINE P(c) == \A j \in 1 .. n : weight(j) <= weight(c) /\ (weight(j) = weight(c) => c <= j)
<1>10. BiggestSlot(node) = CHOOSE c \in 1 .. n : P(c)
  BY <1>1 DEF BiggestSlot, weight
<1>11. \E c \in 1 .. n : P(c)
  BY <1>9
<1>. HIDE DEF P
<1>12. BiggestSlot(node) \in 1 .. n /\ P(BiggestSlot(node))
  BY <1>10, <1>11
<1>. QED  BY <1>12 DEF P, weight

-----------------------------------------------------------------------------
\* The graph of the nodes

USE KeyAssumption, TreeAssumption, RefAssumption DEF Ref, Root, End

\* The children of every node: the graph the table keeps of it.
Kids(ns) == [ref \in DOMAIN ns |-> ns[ref].children]

\* The nodes of a version and the entries of its table.
Version(ns, es) == IsTree(ns) /\ IsGraph(es) /\ SuccsOf(es) = Kids(ns)

\* What a version gives of its nodes and of its table.
LEMMA VersionGives ==
  ASSUME NEW ns, NEW es, Version(ns, es)
  PROVE  /\ DOMAIN ns \in SUBSET Ref /\ Root \in DOMAIN ns /\ DOMAIN es = DOMAIN ns
         /\ ns = [ref \in DOMAIN ns |-> ns[ref]]
         /\ \A ref \in DOMAIN ns : /\ WFNode(ns[ref]) /\ ns[ref].children \in Seq(DOMAIN ns)
                                   /\ es[ref].succs = ns[ref].children
<1>1. DOMAIN es = DOMAIN SuccsOf(es) /\ DOMAIN Kids(ns) = DOMAIN ns
  BY DEF SuccsOf, Kids
<1>2. DOMAIN es = DOMAIN ns
  BY <1>1 DEF Version
<1>3. ASSUME NEW ref \in DOMAIN ns
      PROVE  es[ref].succs = ns[ref].children
  <2>1. SuccsOf(es)[ref] = es[ref].succs /\ Kids(ns)[ref] = ns[ref].children
    BY <1>2 DEF SuccsOf, Kids
  <2>. QED  BY <2>1 DEF Version
<1>. QED  BY <1>2, <1>3 DEF Version, IsTree

\* A node that is written, new or not.
LEMMA WriteNode ==
  ASSUME NEW ns, NEW t, Version(ns, t.entries), Exact(t), NEW ref \in Ref, NEW node,
         WFNode(node), node.children \in Seq(DOMAIN ns \cup {ref})
  PROVE  LET u == WriteBookkeeping(t, ref, node)
         IN  /\ Version(Put(ns, ref, node), u.entries) /\ Exact(u)
             /\ u.refUpperBound = IF ref > t.refUpperBound THEN ref ELSE t.refUpperBound
<1>. DEFINE D == DOMAIN ns
            u == UpdateAndRemoveLoc(t, ref, node.children)
            ms == Put(ns, ref, node)
<1>1. /\ D \in SUBSET Ref /\ Root \in D /\ DOMAIN t.entries = D
      /\ \A r \in D : WFNode(ns[r]) /\ ns[r].children \in Seq(D)
  BY VersionGives
<1>2. node.children \in Seq(DOMAIN t.entries \cup {ref})
  BY <1>1
<1>3. Root \in DOMAIN t.entries
  BY <1>1
<1>4. /\ Exact(u) /\ DOMAIN u.entries = DOMAIN t.entries \cup {ref}
      /\ SuccsOf(u.entries) = Put(SuccsOf(t.entries), ref, node.children)
      /\ u.refUpperBound = IF ref > t.refUpperBound THEN ref ELSE t.refUpperBound
  <2>. DEFINE cs == node.children
  <2>. HIDE DEF cs
  <2>1. cs \in Seq(DOMAIN t.entries \cup {ref})
    BY <1>2 DEF cs
  <2>2. /\ Exact(UpdateAndRemoveLoc(t, ref, cs))
        /\ DOMAIN UpdateAndRemoveLoc(t, ref, cs).entries = DOMAIN t.entries \cup {ref}
        /\ SuccsOf(UpdateAndRemoveLoc(t, ref, cs).entries) = Put(SuccsOf(t.entries), ref, cs)
        /\ UpdateAndRemoveLoc(t, ref, cs).refUpperBound =
             IF ref > t.refUpperBound THEN ref ELSE t.refUpperBound
    BY <1>3, <2>1, UpdateFacts
  <2>. QED  BY <2>2 DEF cs
<1>5. /\ DOMAIN ms = D \cup {ref} /\ ms[ref] = node
      /\ ms = [r \in DOMAIN ms |-> ms[r]]
      /\ \A r \in D : r # ref => ms[r] = ns[r]
  BY DEF Put
<1>. HIDE DEF ms, u, D
<1>6. IsTree(ms)
  <2>1. ASSUME NEW r \in DOMAIN ms
        PROVE  WFNode(ms[r]) /\ ms[r].children \in Seq(DOMAIN ms)
    <3>1. CASE r = ref
      BY <3>1, <1>5 DEF D
    <3>2. CASE r # ref
      <4>1. r \in D /\ ms[r] = ns[r] /\ D \subseteq DOMAIN ms
        BY <3>2, <1>5
      <4>2. WFNode(ns[r]) /\ ns[r].children \in Seq(D)
        BY <4>1, <1>1
      <4>3. ns[r].children \in Seq(DOMAIN ms)
        <5>. DEFINE cs == ns[r].children  E == DOMAIN ms
        <5>1. D \subseteq E /\ cs \in Seq(D)
          BY <4>1, <4>2
        <5>. HIDE DEF cs, E
        <5>2. cs \in Seq(E)
          BY <5>1, SeqOfLarger
        <5>. QED  BY <5>2 DEF cs, E
      <4>. QED  BY <4>1, <4>2, <4>3
    <3>. QED  BY <3>1, <3>2
  <2>2. Root \in DOMAIN ms /\ DOMAIN ms \subseteq Ref
    BY <1>1, <1>5
  <2>. QED  BY <1>5, <2>1, <2>2 DEF IsTree
<1>7. IsGraph(u.entries)
  <2>1. u.entries \in Graphs(DOMAIN u.entries) /\ DOMAIN u.entries \in SUBSET Ref
    BY <1>4, ExactGives
  <2>. QED  BY <2>1 DEF IsGraph
<1>8. SuccsOf(u.entries) = Kids(ms)
  <2>1. SuccsOf(t.entries) = Kids(ns)
    BY DEF Version
  <2>2. Put(Kids(ns), ref, node.children) = Kids(ms)
    <3>1. /\ DOMAIN Put(Kids(ns), ref, node.children) = D \cup {ref}
          /\ DOMAIN Kids(ms) = D \cup {ref}
      BY <1>5 DEF Put, Kids, D
    <3>2. ASSUME NEW r \in D \cup {ref}
          PROVE  Put(Kids(ns), ref, node.children)[r] = Kids(ms)[r]
      <4>1. CASE r = ref
        BY <4>1, <1>5 DEF Put, Kids, D
      <4>2. CASE r # ref
        BY <4>2, <1>5 DEF Put, Kids, D
      <4>. QED  BY <4>1, <4>2
    <3>3. /\ Put(Kids(ns), ref, node.children) =
               [r \in D \cup {ref} |-> Put(Kids(ns), ref, node.children)[r]]
          /\ Kids(ms) = [r \in D \cup {ref} |-> Kids(ms)[r]]
      BY <3>1 DEF Put, Kids
    <3>. QED  BY <3>2, <3>3
  <2>. QED  BY <1>4, <2>1, <2>2
<1>. QED  BY <1>4, <1>6, <1>7, <1>8 DEF Version, WriteBookkeeping, ms, u

\* A reference above the bound is new.
LEMMA FreeIsNew ==
  ASSUME NEW ns, NEW t, Version(ns, t.entries), Exact(t), NEW ref \in FreeRef(t.refUpperBound)
  PROVE  /\ ref \in Ref /\ ref \notin DOMAIN ns /\ ref # Root
         /\ ref > t.refUpperBound
<1>1. DOMAIN t.entries = DOMAIN ns /\ Root \in DOMAIN ns /\ DOMAIN ns \in SUBSET Ref
  BY VersionGives
<1>2. t.refUpperBound \in Ref
  BY ExactGives
<1>3. \A r \in DOMAIN t.entries : r <= t.refUpperBound
  BY ExactGives
<1>4. ref \in Ref /\ ref = t.refUpperBound + 1
  BY DEF FreeRef
<1>5. ref > t.refUpperBound
  BY <1>2, <1>4
<1>6. ref \notin DOMAIN t.entries
  <2>1. ~(ref <= t.refUpperBound)
    BY <1>2, <1>4
  <2>. QED  BY <1>3, <2>1
<1>. QED  BY <1>1, <1>4, <1>5, <1>6

\* Changing a node that is there is putting it.
LEMMA ExceptIsPut ==
  ASSUME NEW ns, ns = [r \in DOMAIN ns |-> ns[r]], NEW ref \in DOMAIN ns, NEW node
  PROVE  [ns EXCEPT ![ref] = node] = Put(ns, ref, node)
  BY DEF Put

-----------------------------------------------------------------------------
\* The way down the biggest slots.

Down(ref) == nodes[ref].children[BiggestSlot(nodes[ref])]

\* The numbers from 1 to k are mapped to the nodes on the way.
IsWay(g, k) ==
  /\ g = [n \in 1 .. k |-> g[n]]
  /\ g[1] = Root /\ \A n \in 2 .. k : g[n] = Down(g[n - 1])

\* There is a function with the recursive equation of Way,
LEMMA WayExists ==
  \E g : IsWay(g, MaxLevels)
<1>. DEFINE T == {k \in 0 .. (MaxLevels - 1) : \E g : IsWay(g, k + 1)}
<1>1. 0 \in T
  <2>. DEFINE g == [n \in 1 .. 1 |-> Root]
  <2>1. IsWay(g, 1)
    <3>1. g = [n \in 1 .. 1 |-> g[n]] /\ g[1] = Root /\ 2 .. 1 = {}
      OBVIOUS
    <3>. QED  BY <3>1 DEF IsWay
  <2>2. 0 + 1 = 1 /\ 0 \in 0 .. (MaxLevels - 1)
    OBVIOUS
  <2>. QED  BY <2>1, <2>2
<1>2. ASSUME NEW k \in 0 .. ((MaxLevels - 1) - 1), k \in T
      PROVE  k + 1 \in T
  <2>1. PICK g : IsWay(g, k + 1)
    BY <1>2
  <2>. DEFINE m == (k + 1) + 1
              h == [n \in 1 .. m |-> IF n = m THEN Down(g[k + 1]) ELSE g[n]]
  <2>2. k + 1 \in 0 .. (MaxLevels - 1) /\ m \in Nat /\ m > k + 1 /\ k + 1 >= 1
    OBVIOUS
  <2>3. IsWay(h, m)
    <3>1. h = [n \in 1 .. m |-> h[n]]
      OBVIOUS
    <3>2. h[1] = Root
      BY <2>1, <2>2 DEF IsWay
    <3>3. ASSUME NEW n \in 2 .. m
          PROVE  h[n] = Down(h[n - 1])
      <4>1. n - 1 \in 1 .. m /\ n - 1 # m /\ n \in 1 .. m
        BY <2>2
      <4>2. h[n - 1] = g[n - 1]
        BY <4>1
      <4>3. CASE n = m
        <5>1. h[n] = Down(g[k + 1]) /\ n - 1 = k + 1
          BY <4>1, <4>3, <2>2
        <5>. QED  BY <5>1, <4>2
      <4>4. CASE n # m
        <5>1. n \in 2 .. (k + 1)
          BY <4>4, <2>2
        <5>2. g[n] = Down(g[n - 1])
          BY <5>1, <2>1 DEF IsWay
        <5>3. h[n] = g[n]
          BY <4>1, <4>4
        <5>. QED  BY <4>2, <5>2, <5>3
      <4>. QED  BY <4>3, <4>4
    <3>. HIDE DEF h
    <3>. QED  BY <3>1, <3>2, <3>3 DEF IsWay
  <2>. QED  BY <2>2, <2>3
<1>3. \A k \in 0 .. (MaxLevels - 1) : k \in T
  <2>. HIDE DEF T
  <2>1. MaxLevels - 1 \in Nat
    OBVIOUS
  <2>. QED  BY <1>1, <1>2, <2>1, Induction
<1>4. MaxLevels - 1 \in 0 .. (MaxLevels - 1) /\ (MaxLevels - 1) + 1 = MaxLevels
  OBVIOUS
<1>5. MaxLevels - 1 \in T
  BY <1>3, <1>4
<1>. QED  BY <1>4, <1>5

\* and so Way has the equation.
LEMMA WayFacts ==
  Way[1] = Root /\ \A n \in 2 .. MaxLevels : Way[n] = Down(Way[n - 1])
<1>. DEFINE W(f) == f = [n \in 1 .. MaxLevels |->
                           IF n = 1 THEN Root
                           ELSE nodes[f[n - 1]].children[BiggestSlot(nodes[f[n - 1]])]]
            h == CHOOSE f : W(f)
<1>1. PICK g : IsWay(g, MaxLevels)
  BY WayExists
<1>2. W(g)
  <2>. DEFINE r == [n \in 1 .. MaxLevels |->
                      IF n = 1 THEN Root
                      ELSE nodes[g[n - 1]].children[BiggestSlot(nodes[g[n - 1]])]]
  <2>1. ASSUME NEW n \in 1 .. MaxLevels
        PROVE  g[n] = r[n]
    <3>1. CASE n = 1
      BY <3>1, <1>1 DEF IsWay
    <3>2. CASE n # 1
      <4>1. n \in 2 .. MaxLevels
        BY <3>2
      <4>. QED  BY <3>2, <4>1, <1>1 DEF IsWay, Down
    <3>. QED  BY <3>1, <3>2
  <2>2. g = [n \in 1 .. MaxLevels |-> g[n]] /\ r = [n \in 1 .. MaxLevels |-> r[n]]
    BY <1>1 DEF IsWay
  <2>. HIDE DEF r
  <2>3. g = r
    BY <2>1, <2>2, Zenon
  <2>. QED  BY <2>3 DEF r
<1>. HIDE DEF W
<1>3. W(h)
  BY <1>2, Zenon
<1>. HIDE DEF h
<1>4. Way = h
  BY DEF Way, W, h
<1>5. /\ h[1] = Root
      /\ \A n \in 2 .. MaxLevels : h[n] = nodes[h[n - 1]].children[BiggestSlot(nodes[h[n - 1]])]
  <2>1. h = [n \in 1 .. MaxLevels |->
               IF n = 1 THEN Root
               ELSE nodes[h[n - 1]].children[BiggestSlot(nodes[h[n - 1]])]]
    BY <1>3 DEF W
  <2>2. \A n \in 1 .. MaxLevels :
          h[n] = IF n = 1 THEN Root
                 ELSE nodes[h[n - 1]].children[BiggestSlot(nodes[h[n - 1]])]
    BY <2>1, Zenon
  <2>3. /\ 1 \in 1 .. MaxLevels
        /\ \A n \in 2 .. MaxLevels : n \in 1 .. MaxLevels /\ n # 1
    OBVIOUS
  <2>. QED  BY <2>2, <2>3
<1>. QED  BY <1>4, <1>5 DEF Down

\* The child at the biggest slot is in the tree.
LEMMA DownInTree ==
  ASSUME IsTree(nodes), NEW ref \in DOMAIN nodes, ~IsLeaf(nodes[ref])
  PROVE  /\ BiggestSlot(nodes[ref]) \in 1 .. Len(nodes[ref].buckets)
         /\ Len(nodes[ref].children) = Len(nodes[ref].buckets)
         /\ Down(ref) = nodes[ref].children[BiggestSlot(nodes[ref])]
         /\ Down(ref) \in DOMAIN nodes
<1>1. WFNode(nodes[ref]) /\ nodes[ref].children \in Seq(DOMAIN nodes)
  BY DEF IsTree
<1>2. BiggestSlot(nodes[ref]) \in 1 .. Len(nodes[ref].buckets)
  BY <1>1, BiggestSlotFacts
<1>3. Len(nodes[ref].children) = Len(nodes[ref].buckets)
  BY <1>1 DEF WFNode
<1>4. Down(ref) \in DOMAIN nodes
  <2>. DEFINE i == BiggestSlot(nodes[ref])  D == DOMAIN nodes  cs == nodes[ref].children
  <2>1. i \in 1 .. Len(cs) /\ cs \in Seq(D)
    BY <1>1, <1>2, <1>3
  <2>. HIDE DEF i, D, cs
  <2>2. cs[i] \in D
    BY <2>1, ElementOfSeq
  <2>. QED  BY <2>2 DEF Down, i, D, cs
<1>. QED  BY <1>2, <1>3, <1>4 DEF Down

\* As far as the policy goes on, its way is in the tree.
LEMMA WayInTree ==
  ASSUME IsTree(nodes), NEW level \in 1 .. MaxLevels,
         \A m \in 1 .. (level - 1) : GoesOn(nodes[Way[m]])
  PROVE  \A n \in 1 .. level : Way[n] \in DOMAIN nodes
<1>. DEFINE T == {k \in 0 .. (level - 1) : Way[k + 1] \in DOMAIN nodes}
<1>1. Way[1] = Root /\ \A n \in 2 .. MaxLevels : Way[n] = Down(Way[n - 1])
  BY WayFacts
<1>2. 0 \in T
  <2>1. Root \in DOMAIN nodes
    BY DEF IsTree
  <2>2. 0 \in 0 .. (level - 1) /\ 0 + 1 = 1
    OBVIOUS
  <2>. QED  BY <1>1, <2>1, <2>2
<1>3. ASSUME NEW k \in 0 .. ((level - 1) - 1), k \in T
      PROVE  k + 1 \in T
  <2>1. /\ k + 1 \in 1 .. (level - 1) /\ k + 1 \in 0 .. (level - 1)
        /\ (k + 1) + 1 \in 2 .. MaxLevels /\ ((k + 1) + 1) - 1 = k + 1
    OBVIOUS
  <2>2. Way[k + 1] \in DOMAIN nodes /\ GoesOn(nodes[Way[k + 1]])
    BY <1>3, <2>1
  <2>3. ~IsLeaf(nodes[Way[k + 1]])
    BY <2>2 DEF GoesOn, Bottom
  <2>4. Down(Way[k + 1]) \in DOMAIN nodes
    BY <2>2, <2>3, DownInTree
  <2>5. Way[(k + 1) + 1] = Down(Way[k + 1])
    BY <1>1, <2>1
  <2>. QED  BY <2>1, <2>4, <2>5
<1>4. \A k \in 0 .. (level - 1) : k \in T
  <2>. HIDE DEF T
  <2>1. level - 1 \in Nat
    OBVIOUS
  <2>. QED  BY <1>2, <1>3, <2>1, Induction
<1>5. ASSUME NEW n \in 1 .. level
      PROVE  Way[n] \in DOMAIN nodes
  <2>1. n - 1 \in 0 .. (level - 1) /\ (n - 1) + 1 = n
    OBVIOUS
  <2>2. n - 1 \in T
    BY <1>4, <2>1
  <2>. QED  BY <2>1, <2>2
<1>. QED  BY <1>5

\* A node that has no room for what a flush moves at least.
Heavy(ref) == NodeWeight(nodes[ref]) + FlushTriggerWeight > MaxTotalBucketWeight

\* A node weighs a natural number.
LEMMA NodeWeightTyped ==
  ASSUME NEW node, WFNode(node)
  PROVE  /\ IsFiniteSet(MessagesOf(node)) /\ NodeWeight(node) \in Nat
<1>. DEFINE n == Len(node.buckets)
            F == {{i} \X DOMAIN node.buckets[i] : i \in 1 .. n}
<1>1. /\ n \in Nat /\ DOMAIN node.buckets = 1 .. n
      /\ \A i \in 1 .. n : node.buckets[i] \in Bucket
  BY PartsOfNode, PartsTyped
<1>2. MessagesOf(node) = UNION F
  BY <1>1 DEF MessagesOf
<1>3. IsFiniteSet(F)
  <2>1. IsFiniteSet(1 .. n)
    <3>. HIDE DEF n, F
    <3>. QED  BY <1>1, FS_Interval
  <2>. DEFINE f == [i \in 1 .. n |-> {i} \X DOMAIN node.buckets[i]]
  <2>2. f \in Surjection(1 .. n, F)
    <3>1. f \in [1 .. n -> F] /\ \A e \in F : \E i \in 1 .. n : f[i] = e
      OBVIOUS
    <3>. HIDE DEF f, F
    <3>. QED  BY <3>1, Fun_IsSurj
  <2>. HIDE DEF f, F
  <2>. QED  BY <2>1, <2>2, FS_Surjection
<1>4. \A e \in F : IsFiniteSet(e)
  <2>1. ASSUME NEW i \in 1 .. n
        PROVE  IsFiniteSet({i} \X DOMAIN node.buckets[i])
    <3>. DEFINE b == node.buckets[i]
    <3>1. b \in Bucket
      BY <1>1
    <3>. HIDE DEF b
    <3>2. IsFiniteSet(DOMAIN b)
      BY <3>1, BucketFacts
    <3>3. IsFiniteSet({i})
      BY FS_Singleton
    <3>. QED  BY <3>2, <3>3, FS_Product DEF b
  <2>. QED  BY <2>1
<1>. HIDE DEF F
<1>5. IsFiniteSet(UNION F)
  BY <1>3, <1>4, FS_UNION
<1>. QED  BY <1>2, <1>5, FS_CardinalityType DEF NodeWeight

(***************************************************************************)
(* What the policy chooses: it flushes a node whose child has room, splits *)
(* a child with several buckets, and repivots a leaf with one bucket.      *)
(***************************************************************************)
PolicyCases ==
  \/ Policy.kind \in {"Fail", "Grow"}
  \/ \E ref \in DOMAIN nodes :
       /\ Policy = [kind |-> "Flush", parent |-> ref, slot |-> BiggestSlot(nodes[ref])]
       /\ ~IsLeaf(nodes[ref]) /\ RoomBelow(nodes[ref]) /\ Heavy(ref)
  \/ \E ref \in DOMAIN nodes :
       /\ Policy = [kind |-> "Split", parent |-> ref, slot |-> BiggestSlot(nodes[ref])]
       /\ ~IsLeaf(nodes[ref]) /\ Len(nodes[Down(ref)].buckets) # 1
  \/ \E ref \in DOMAIN nodes :
       /\ Policy = [kind |-> "Repivot", ref |-> ref]
       /\ IsLeaf(nodes[ref]) /\ Len(nodes[ref].buckets) = 1 /\ Heavy(ref)
       /\ ref = Root => Full

\* What the policy chooses names nodes and slots of the tree.
LEMMA PolicyFacts ==
  ASSUME IsTree(nodes), Full
  PROVE  PolicyCases
<1>. DEFINE L == {n \in 1 .. MaxLevels : \A m \in 1 .. (n - 1) : GoesOn(nodes[Way[m]])}
            level == Max(L)
            node == nodes[Way[level]]
<1>1. Way[1] = Root /\ \A n \in 2 .. MaxLevels : Way[n] = Down(Way[n - 1])
  BY WayFacts
<1>2. level \in L /\ \A n \in L : n <= level
  <2>1. L \in SUBSET (1 .. MaxLevels)
    OBVIOUS
  <2>2. 1 \in L
    <3>1. 1 .. (1 - 1) = {} /\ 1 \in 1 .. MaxLevels
      OBVIOUS
    <3>. QED  BY <3>1
  <2>. HIDE DEF L
  <2>. QED  BY <2>1, <2>2, LargestNumber
<1>3. level \in 1 .. MaxLevels /\ \A m \in 1 .. (level - 1) : GoesOn(nodes[Way[m]])
  BY <1>2
<1>4. Policy = IF level = MaxLevels THEN [kind |-> "Fail"]
               ELSE IF Bottom(node) THEN getActionToSplit(level)
               ELSE [kind |-> "Flush", parent |-> Way[level], slot |-> BiggestSlot(node)]
  BY DEF Policy
<1>. HIDE DEF level
<1>5. \A n \in 1 .. level : Way[n] \in DOMAIN nodes
  BY <1>3, WayInTree
<1>6. \A n \in 1 .. level : Heavy(Way[n])
  <2>1. ASSUME NEW n \in 1 .. level
        PROVE  Heavy(Way[n])
    <3>1. CASE n = 1
      <4>1. Root \in DOMAIN nodes /\ WFNode(nodes[Root])
        BY DEF IsTree
      <4>2. NodeWeight(nodes[Root]) \in Nat
        BY <4>1, NodeWeightTyped
      <4>3. NodeWeight(nodes[Root]) + 1 > MaxTotalBucketWeight
        BY DEF Full
      <4>4. NodeWeight(nodes[Root]) + FlushTriggerWeight > MaxTotalBucketWeight
        <5>. DEFINE w == NodeWeight(nodes[Root])
        <5>. HIDE DEF w
        <5>1. w \in Nat /\ w + 1 > MaxTotalBucketWeight
          BY <4>2, <4>3 DEF w
        <5>2. w + FlushTriggerWeight > MaxTotalBucketWeight
          BY <5>1
        <5>. QED  BY <5>2 DEF w
      <4>. QED  BY <3>1, <1>1, <4>4 DEF Heavy
    <3>2. CASE n # 1
      <4>1. n - 1 \in 1 .. (level - 1) /\ n \in 2 .. MaxLevels /\ n - 1 \in 1 .. level
        BY <3>2, <1>3
      <4>2. GoesOn(nodes[Way[n - 1]]) /\ Way[n] = Down(Way[n - 1])
        BY <4>1, <1>1, <1>3
      <4>3. ~RoomBelow(nodes[Way[n - 1]])
        BY <4>2 DEF GoesOn
      <4>4. ~(NodeWeight(nodes[Way[n]]) + FlushTriggerWeight <= MaxTotalBucketWeight)
        BY <4>2, <4>3 DEF RoomBelow, Down
      <4>5. Way[n] \in DOMAIN nodes
        BY <1>5
      <4>6. NodeWeight(nodes[Way[n]]) \in Nat
        BY <4>5, NodeWeightTyped DEF IsTree
      <4>7. NodeWeight(nodes[Way[n]]) + FlushTriggerWeight > MaxTotalBucketWeight
        <5>. DEFINE w == NodeWeight(nodes[Way[n]])
        <5>. HIDE DEF w
        <5>1. w \in Nat /\ ~(w + FlushTriggerWeight <= MaxTotalBucketWeight)
          BY <4>4, <4>6 DEF w
        <5>2. w + FlushTriggerWeight > MaxTotalBucketWeight
          BY <5>1
        <5>. QED  BY <5>2 DEF w
      <4>. QED  BY <4>7 DEF Heavy
    <3>. QED  BY <3>1, <3>2
  <2>. QED  BY <2>1
<1>7. CASE level = MaxLevels
  BY <1>4, <1>7 DEF PolicyCases
<1>8. CASE level # MaxLevels /\ ~Bottom(node)
  <2>1. Policy = [kind |-> "Flush", parent |-> Way[level], slot |-> BiggestSlot(node)]
    BY <1>4, <1>8
  <2>2. level \in 1 .. level
    BY <1>3
  <2>3. ~GoesOn(node)
    <3>1. SUFFICES ASSUME GoesOn(node)
                   PROVE  FALSE
      OBVIOUS
    <3>2. level + 1 \in 1 .. MaxLevels /\ ~(level + 1 <= level)
      BY <1>3, <1>8
    <3>3. \A m \in 1 .. ((level + 1) - 1) : GoesOn(nodes[Way[m]])
      <4>1. ASSUME NEW m \in 1 .. ((level + 1) - 1)
            PROVE  GoesOn(nodes[Way[m]])
        <5>1. m = level \/ m \in 1 .. (level - 1)
          BY <1>3
        <5>. QED  BY <3>1, <5>1, <1>3
      <4>. QED  BY <4>1
    <3>4. level + 1 \in L
      BY <3>2, <3>3
    <3>. QED  BY <3>2, <3>4, <1>2
  <2>4. RoomBelow(node) /\ ~IsLeaf(node)
    BY <1>8, <2>3 DEF GoesOn, Bottom
  <2>5. Way[level] \in DOMAIN nodes /\ Heavy(Way[level])
    BY <1>5, <1>6, <2>2
  <2>. QED  BY <2>1, <2>4, <2>5 DEF PolicyCases
<1>9. CASE level # MaxLevels /\ Bottom(node)
  <2>. DEFINE room == {n \in 2 .. level : Len(nodes[Way[n - 1]].children) < MaxNumChildren}
              low  == Max(room)
  <2>1. Policy = getActionToSplit(level)
    BY <1>4, <1>9
  <2>2. getActionToSplit(level) =
          IF room = {} THEN [kind |-> "Grow"]
          ELSE IF Len(nodes[Way[low]].buckets) = 1 THEN [kind |-> "Repivot", ref |-> Way[low]]
          ELSE [kind |-> "Split", parent |-> Way[low - 1],
                slot |-> BiggestSlot(nodes[Way[low - 1]])]
    BY DEF getActionToSplit
  <2>3. CASE room = {}
    <3>1. Policy = [kind |-> "Grow"]
      BY <2>1, <2>2, <2>3, Zenon
    <3>2. Policy.kind = "Grow"
      BY <3>1
    <3>. QED  BY <3>2 DEF PolicyCases
  <2>4. CASE room # {}
    <3>1. low \in room /\ \A n \in room : n <= low
      <4>1. room \in SUBSET (1 .. level) /\ level \in Nat
        <5>1. \A n \in 2 .. level : n \in 1 .. level
          BY <1>3
        <5>. QED  BY <5>1, <1>3
      <4>. HIDE DEF room
      <4>. QED  BY <4>1, <2>4, LargestNumber
    <3>2. low \in 2 .. level
      BY <3>1
    <3>. HIDE DEF low
    <3>3. /\ low \in 1 .. level /\ low - 1 \in 1 .. level /\ low - 1 \in 1 .. (level - 1)
          /\ low \in 2 .. MaxLevels /\ low \in Nat
      BY <3>2, <1>3
    <3>4. /\ Way[low] \in DOMAIN nodes /\ Way[low - 1] \in DOMAIN nodes
          /\ Heavy(Way[low]) /\ GoesOn(nodes[Way[low - 1]]) /\ Way[low] = Down(Way[low - 1])
      BY <3>3, <1>1, <1>3, <1>5, <1>6
    <3>5. CASE Len(nodes[Way[low]].buckets) # 1
      <4>1. Policy = [kind |-> "Split", parent |-> Way[low - 1],
                      slot |-> BiggestSlot(nodes[Way[low - 1]])]
        BY <2>1, <2>2, <2>4, <3>5
      <4>2. ~IsLeaf(nodes[Way[low - 1]])
        BY <3>4 DEF GoesOn, Bottom
      <4>3. Len(nodes[Down(Way[low - 1])].buckets) # 1
        BY <3>4, <3>5
      <4>. QED  BY <3>4, <4>1, <4>2, <4>3 DEF PolicyCases
    <3>6. CASE Len(nodes[Way[low]].buckets) = 1
      <4>1. Policy = [kind |-> "Repivot", ref |-> Way[low]]
        BY <2>1, <2>2, <2>4, <3>6
      <4>2. IsLeaf(nodes[Way[low]])
        <5>1. CASE low = level
          <6>1. Bottom(nodes[Way[low]])
            BY <5>1, <1>9
          <6>2. ~(1 >= MaxNumChildren)
            OBVIOUS
          <6>. QED  BY <3>6, <6>1, <6>2 DEF Bottom
        <5>2. CASE low # level
          <6>1. low + 1 \in 2 .. level /\ (low + 1) - 1 = low /\ low \in 1 .. (level - 1)
            BY <3>2, <5>2, <1>3
          <6>2. low + 1 \notin room
            <7>1. ~(low + 1 <= low)
              BY <3>3
            <7>. QED  BY <3>1, <7>1
          <6>3. ~(Len(nodes[Way[low]].children) < MaxNumChildren)
            BY <6>1, <6>2
          <6>4. ~IsLeaf(nodes[Way[low]])
            BY <6>1, <1>3 DEF GoesOn, Bottom
          <6>5. Len(nodes[Way[low]].children) = 1
            BY <3>4, <3>6, <6>4, DownInTree
          <6>. QED  BY <6>3, <6>5
        <5>. QED  BY <5>1, <5>2
      <4>. QED  BY <3>4, <3>6, <4>1, <4>2 DEF PolicyCases
    <3>. QED  BY <3>5, <3>6
  <2>. QED  BY <2>3, <2>4
<1>. QED  BY <1>7, <1>8, <1>9

-----------------------------------------------------------------------------
\* The steps of the tree

\* The nodes in memory and the ephemeral table.
Sound(ns, t) == Version(ns, t.entries) /\ Exact(t)

\* A node that keeps its children leaves the graph as it is.
LEMMA SameKids ==
  ASSUME NEW ns, IsTree(ns), NEW ref \in DOMAIN ns, NEW node, WFNode(node),
         node.children = ns[ref].children
  PROVE  /\ [ns EXCEPT ![ref] = node] = Put(ns, ref, node)
         /\ IsTree(Put(ns, ref, node)) /\ Kids(Put(ns, ref, node)) = Kids(ns)
<1>. DEFINE ms == Put(ns, ref, node)
<1>1. ns = [r \in DOMAIN ns |-> ns[r]] /\ Root \in DOMAIN ns /\ DOMAIN ns \subseteq Ref
  BY DEF IsTree
<1>2. /\ DOMAIN ms = DOMAIN ns /\ ms[ref] = node /\ ms = [r \in DOMAIN ms |-> ms[r]]
      /\ \A r \in DOMAIN ns : r # ref => ms[r] = ns[r]
  BY DEF Put
<1>3. [ns EXCEPT ![ref] = node] = ms
  BY <1>1, ExceptIsPut
<1>. HIDE DEF ms
<1>4. ASSUME NEW r \in DOMAIN ns
      PROVE  /\ WFNode(ms[r]) /\ ms[r].children \in Seq(DOMAIN ns)
             /\ ms[r].children = ns[r].children
  <2>1. WFNode(ns[r]) /\ ns[r].children \in Seq(DOMAIN ns)
    BY DEF IsTree
  <2>2. CASE r = ref
    BY <2>1, <2>2, <1>2
  <2>3. CASE r # ref
    BY <2>1, <2>3, <1>2
  <2>. QED  BY <2>2, <2>3
<1>5. IsTree(ms)
  BY <1>1, <1>2, <1>4 DEF IsTree
<1>6. Kids(ms) = Kids(ns)
  BY <1>2, <1>4 DEF Kids
<1>. QED  BY <1>3, <1>5, <1>6 DEF ms

\* An insertion changes no edge of the graph.
LEMMA InsertSound ==
  ASSUME Sound(nodes, table), NEW key \in Key, NEW value \in Value, Insert(key, value)
  PROVE  Sound(nodes', table')
<1>. DEFINE node == nodes[Root]
            q == NodeInsertKeyValue(node, key, value)
<1>1. Root \in DOMAIN nodes /\ WFNode(node) /\ DOMAIN table.entries = DOMAIN nodes
  BY VersionGives DEF Sound
<1>2. /\ BoundedKey(node.pivotTable, key) /\ nodes' = [nodes EXCEPT ![Root] = q]
      /\ table' = RemoveLoc(table, Root)
  BY DEF Insert
<1>. HIDE DEF node
<1>3. WFNode(q) /\ q.children = node.children
  BY <1>1, <1>2, InsertNode
<1>. HIDE DEF q
<1>4. IsTree(nodes)
  BY DEF Sound, Version
<1>5. nodes' = Put(nodes, Root, q) /\ IsTree(nodes') /\ Kids(nodes') = Kids(nodes)
  <2>. DEFINE root == Root
  <2>1. root \in DOMAIN nodes /\ q.children = nodes[root].children
    BY <1>1, <1>3 DEF node
  <2>. HIDE DEF root
  <2>2. /\ [nodes EXCEPT ![root] = q] = Put(nodes, root, q)
        /\ IsTree(Put(nodes, root, q)) /\ Kids(Put(nodes, root, q)) = Kids(nodes)
    BY <1>3, <1>4, <2>1, SameKids
  <2>3. nodes' = [nodes EXCEPT ![root] = q]
    BY <1>2 DEF root
  <2>. QED  BY <2>2, <2>3 DEF root
<1>6. Exact(table') /\ SuccsOf(table'.entries) = SuccsOf(table.entries)
  BY <1>1, <1>2, LocationFacts DEF Sound
<1>7. IsGraph(table'.entries)
  BY <1>6, ExactGives DEF IsGraph
<1>. QED  BY <1>5, <1>6, <1>7 DEF Sound, Version

\* Several nodes are written, one after the other.
LEMMA WriteSound ==
  ASSUME NEW ns, NEW t, Sound(ns, t), NEW ref \in Ref, NEW node,
         WFNode(node), node.children \in Seq(DOMAIN ns \cup {ref})
  PROVE  /\ Sound(Put(ns, ref, node), WriteBookkeeping(t, ref, node))
         /\ DOMAIN Put(ns, ref, node) = DOMAIN ns \cup {ref}
         /\ WriteBookkeeping(t, ref, node).refUpperBound =
              IF ref > t.refUpperBound THEN ref ELSE t.refUpperBound
<1>1. DOMAIN Put(ns, ref, node) = DOMAIN ns \cup {ref}
  BY DEF Put
<1>2. Version(ns, t.entries) /\ Exact(t)
  BY DEF Sound
<1>3. Version(Put(ns, ref, node), WriteBookkeeping(t, ref, node).entries)
  BY <1>2, WriteNode
<1>4. Exact(WriteBookkeeping(t, ref, node))
  BY <1>2, WriteNode
<1>5. WriteBookkeeping(t, ref, node).refUpperBound =
        IF ref > t.refUpperBound THEN ref ELSE t.refUpperBound
  BY <1>2, WriteNode
<1>. QED  BY <1>1, <1>3, <1>4, <1>5 DEF Sound

\* A node that is replaced together with a new one below it.
LEMMA WriteTwo ==
  ASSUME NEW ns, NEW t, Sound(ns, t), NEW newref \in FreeRef(t.refUpperBound), NEW fresh,
         WFNode(fresh), fresh.children \in Seq(DOMAIN ns),
         NEW ref \in DOMAIN ns, NEW node, WFNode(node),
         node.children \in Seq(DOMAIN ns \cup {newref})
  PROVE  Sound(Put(Put(ns, newref, fresh), ref, node),
               WriteBookkeeping(WriteBookkeeping(t, newref, fresh), ref, node))
<1>. DEFINE D == DOMAIN ns  E == D \cup {newref}
            ms == Put(ns, newref, fresh)  u == WriteBookkeeping(t, newref, fresh)
            fs == fresh.children  cs == node.children
<1>1. newref \in Ref /\ D \in SUBSET Ref
  BY FreeIsNew, VersionGives DEF Sound
<1>2. fs \in Seq(E)
  <2>1. D \subseteq E /\ fs \in Seq(D)
    OBVIOUS
  <2>. HIDE DEF D, E, fs
  <2>. QED  BY <2>1, SeqOfLarger
<1>3. Sound(ms, u) /\ DOMAIN ms = E
  <2>1. fresh.children \in Seq(DOMAIN ns \cup {newref})
    BY <1>2
  <2>. QED  BY <1>1, <2>1, WriteSound
<1>4. cs \in Seq(E \cup {ref}) /\ ref \in Ref
  <2>1. E \cup {ref} = E
    OBVIOUS
  <2>. QED  BY <1>1, <2>1
<1>. HIDE DEF ms, u, E
<1>. QED  BY <1>3, <1>4, WriteSound DEF ms, u, E

\* A new root has the old one as its child: two nodes are put.
LEMMA GrowSound ==
  ASSUME Sound(nodes, table), Grow
  PROVE  Sound(nodes', table')
<1>1. PICK newref \in FreeRef(table.refUpperBound) :
        LET newroot == [EmptyNode EXCEPT !.children = <<newref>>]
        IN  /\ nodes' = Put(Put(nodes, newref, nodes[Root]), Root, newroot)
            /\ table' = WriteBookkeeping(
                 WriteBookkeeping(table, newref, nodes[Root]), Root, newroot)
  BY DEF Grow
<1>. DEFINE node == [EmptyNode EXCEPT !.children = <<newref>>]
<1>2. /\ nodes' = Put(Put(nodes, newref, nodes[Root]), Root, node)
      /\ table' = WriteBookkeeping(WriteBookkeeping(table, newref, nodes[Root]), Root, node)
  BY <1>1
<1>3. /\ Root \in DOMAIN nodes /\ WFNode(nodes[Root])
      /\ nodes[Root].children \in Seq(DOMAIN nodes)
  BY VersionGives DEF Sound
<1>4. WFNode(node) /\ node.children = <<newref>>
  <2>. DEFINE cs == <<newref>>
  <2>1. Len(cs) = 1
    OBVIOUS
  <2>. HIDE DEF cs
  <2>2. WFNode([EmptyNode EXCEPT !.children = cs]) /\ [EmptyNode EXCEPT !.children = cs].children = cs
    BY <2>1, OneSlot
  <2>. QED  BY <2>2 DEF cs
<1>5. node.children \in Seq(DOMAIN nodes \cup {newref})
  BY <1>4
<1>. HIDE DEF node
<1>. QED  BY <1>2, <1>3, <1>4, <1>5, WriteTwo

\* A flush puts a copy of the child, which then takes its slot.
LEMMA FlushSound ==
  ASSUME Sound(nodes, table), NEW parent \in DOMAIN nodes, ~IsLeaf(nodes[parent]),
         NEW slot \in 1 .. Len(nodes[parent].buckets), Flush(parent, slot)
  PROVE  Sound(nodes', table')
<1>. DEFINE node   == nodes[parent]
            D      == DOMAIN nodes
            cref   == node.children[slot]
            child  == nodes[cref]
            bucket == node.buckets[slot]
<1>1. PICK last \in DOMAIN bucket :
        LET moved    == {k \in DOMAIN bucket : k <= last}
            newchild == MergedOver(child, Restrict(bucket, moved))
        IN  \E newref \in FreeRef(table.refUpperBound) :
               LET newparent ==
                     [node EXCEPT !.buckets[slot] = Restrict(@, DOMAIN @ \ moved),
                                  !.children[slot] = newref]
               IN  /\ nodes' = Put(Put(nodes, newref, newchild), parent, newparent)
                   /\ table' = WriteBookkeeping(
                        WriteBookkeeping(table, newref, newchild), parent, newparent)
  BY DEF Flush
<1>. DEFINE moved == {k \in DOMAIN bucket : k <= last}
            msgs == Restrict(bucket, moved)
            newchild == MergedOver(child, msgs)
<1>2. PICK newref \in FreeRef(table.refUpperBound) :
        /\ nodes' = Put(Put(nodes, newref, newchild), parent,
                        FlushedParent(node, slot, moved, newref))
        /\ table' = WriteBookkeeping(WriteBookkeeping(table, newref, newchild), parent,
                                     FlushedParent(node, slot, moved, newref))
  BY <1>1 DEF FlushedParent
<1>. DEFINE newparent == FlushedParent(node, slot, moved, newref)
<1>3. /\ WFNode(node) /\ node.children \in Seq(D)
      /\ \A r \in D : WFNode(nodes[r]) /\ nodes[r].children \in Seq(D)
  BY VersionGives DEF Sound
<1>4. BucketBounded(bucket, child.pivotTable)
  BY DEF Flush, FlushAllowed
<1>5. cref \in D
  <2>1. slot \in 1 .. Len(node.children)
    BY <1>3 DEF WFNode
  <2>. HIDE DEF D, node
  <2>. QED  BY <1>3, <2>1, ElementOfSeq
<1>6. WFNode(child) /\ child.children \in Seq(D)
  BY <1>3, <1>5
<1>7. bucket \in Bucket
  BY <1>3, WithinSlot
<1>8. moved \in SUBSET DOMAIN bucket
  OBVIOUS
<1>. HIDE DEF moved, bucket
<1>9. msgs \in Bucket /\ BucketBounded(msgs, child.pivotTable)
  <2>1. msgs \in Bucket /\ DOMAIN msgs = moved
    BY <1>7, <1>8, RestrictFacts
  <2>. QED  BY <1>4, <1>8, <2>1 DEF BucketBounded
<1>. HIDE DEF msgs, child
<1>10. WFNode(newchild) /\ newchild.children = child.children
  BY <1>6, <1>9, MergedNode
<1>11. WFNode(newparent) /\ newparent.children \in Seq(D \cup {newref})
  <2>. DEFINE S == D \cup {newref}  cs == node.children
  <2>1. D \subseteq S /\ cs \in Seq(D) /\ newref \in S
    BY <1>3
  <2>. HIDE DEF D, S
  <2>2. cs \in Seq(S)
    <3>. HIDE DEF cs
    <3>. QED  BY <2>1, SeqOfLarger
  <2>3. node.children \in Seq(S) /\ ~IsLeaf(node) /\ slot \in 1 .. Len(node.buckets)
    BY <2>2
  <2>. HIDE DEF node, cs
  <2>4. WFNode(newparent) /\ newparent.children \in Seq(S)
    <3>1. FlushedFrom(S, FlushedParent(node, slot, moved, newref), node, slot, moved, newref)
      BY <1>3, <2>1, <2>3, FlushedNode
    <3>. QED  BY <3>1 DEF FlushedFrom, FlushedParent
  <2>. QED  BY <2>4 DEF S
<1>. HIDE DEF newparent, newchild
<1>12. newchild.children \in Seq(DOMAIN nodes) /\ newparent.children \in Seq(DOMAIN nodes \cup {newref})
  BY <1>6, <1>10, <1>11
<1>13. /\ nodes' = Put(Put(nodes, newref, newchild), parent, newparent)
       /\ table' = WriteBookkeeping(WriteBookkeeping(table, newref, newchild), parent, newparent)
  BY <1>2 DEF newparent, newchild
<1>. HIDE DEF D
<1>. QED  BY <1>10, <1>11, <1>12, <1>13, WriteTwo

\* The parts of a split, from what is checked before it.
SplitParts(node, child, cut, slot, D) ==
  LET numLeft == Len(cut.buckets) \div 2
      pivot   == cut.pivotTable[numLeft + 1]
      lower   == SplitChildLeft(cut, numLeft)
      upper   == SplitChildRight(cut, numLeft)
  IN  /\ WFNode(lower) /\ lower.children \in Seq(D) /\ Narrowed(lower, child)
      /\ WFNode(upper) /\ upper.children \in Seq(D) /\ Narrowed(upper, child)
      /\ pivot \in Nat /\ PivotInsertable(node.pivotTable, slot + 1, pivot)
      /\ lower.pivotTable[1] = node.pivotTable[slot] /\ Last(lower.pivotTable) = pivot
      /\ upper.pivotTable[1] = pivot /\ Last(upper.pivotTable) = node.pivotTable[slot + 1]
      /\ child.pivotTable[1] = node.pivotTable[slot]
           /\ Last(child.pivotTable) = node.pivotTable[slot + 1]
         => SomeSlots(lower, child) /\ SomeSlots(upper, child)

\* The child at a slot of an inner node is in the tree.
LEMMA ChildInTree ==
  ASSUME NEW ns, IsTree(ns), NEW ref \in DOMAIN ns, ~IsLeaf(ns[ref]),
         NEW slot \in 1 .. Len(ns[ref].buckets)
  PROVE  /\ slot \in 1 .. Len(ns[ref].children)
         /\ ns[ref].children[slot] \in DOMAIN ns
         /\ WFNode(ns[ref]) /\ ns[ref].children \in Seq(DOMAIN ns)
         /\ WFNode(ns[ns[ref].children[slot]])
         /\ ns[ns[ref].children[slot]].children \in Seq(DOMAIN ns)
<1>. DEFINE D == DOMAIN ns  cs == ns[ref].children
<1>1. WFNode(ns[ref]) /\ cs \in Seq(D)
  BY DEF IsTree
<1>2. slot \in 1 .. Len(cs)
  BY <1>1 DEF WFNode
<1>3. cs[slot] \in D
  <2>. HIDE DEF cs, D
  <2>. QED  BY <1>1, <1>2, ElementOfSeq
<1>4. WFNode(ns[cs[slot]]) /\ ns[cs[slot]].children \in Seq(D)
  BY <1>3 DEF IsTree
<1>. QED  BY <1>1, <1>2, <1>3, <1>4

\* When a split is allowed, both halves and the new parent are nodes of the right bounds.
LEMMA SplitPieces ==
  ASSUME IsTree(nodes), NEW parent \in DOMAIN nodes, ~IsLeaf(nodes[parent]),
         NEW slot \in 1 .. Len(nodes[parent].buckets), SplitAllowed(parent, slot)
  PROVE  SplitParts(nodes[parent], nodes[nodes[parent].children[slot]],
                    CutChild(parent, slot), slot, DOMAIN nodes)
<1>. DEFINE node   == nodes[parent]
            D      == DOMAIN nodes
            child  == nodes[node.children[slot]]
            pt     == node.pivotTable
            cpt    == child.pivotTable
            lbound == pt[slot]
            ubound == pt[slot + 1]
            cut    == CutChild(parent, slot)
<1>1. WFNode(node) /\ WFNode(child) /\ child.children \in Seq(D)
  BY ChildInTree
<1>2. cut = CutoffNode(child, lbound, ubound)
  BY DEF CutChild
<1>3. /\ ValidSplitKey(cpt, lbound, ubound)
      /\ Len(cut.pivotTable) # 2
      /\ PivotInsertable(pt, slot + 1, cut.pivotTable[Len(cut.buckets) \div 2 + 1])
  BY DEF SplitAllowed
<1>4. lbound \in Nat /\ ubound \in Nat
  <2>1. Parts(pt, node.children, node.buckets)
    BY <1>1, PartsOfNode
  <2>. HIDE DEF pt
  <2>2. \A i \in 1 .. Len(pt) : pt[i] \in 0 .. NumKeys
    BY <2>1, PartsTyped
  <2>3. Len(pt) = Len(node.buckets) + 1 /\ Len(node.buckets) \in Nat
    BY <2>1, PartsTyped
  <2>4. slot \in 1 .. Len(pt) /\ slot + 1 \in 1 .. Len(pt)
    BY <2>3
  <2>5. pt[slot] \in 0 .. NumKeys /\ pt[slot + 1] \in 0 .. NumKeys
    BY <2>2, <2>4
  <2>. QED  BY <2>5
<1>. HIDE DEF lbound, ubound, child, D
<1>5. /\ WFNode(cut) /\ cut.children \in Seq(D) /\ Narrowed(cut, child)
      /\ cut.pivotTable[1] = lbound /\ Last(cut.pivotTable) = ubound
      /\ lbound = child.pivotTable[1] /\ ubound = Last(child.pivotTable) => SomeSlots(cut, child)
  <2>1. Cuttable(child.pivotTable, lbound, ubound)
    BY <1>3 DEF ValidSplitKey, Cuttable
  <2>. HIDE DEF cut
  <2>2. CutBetween(D, child, lbound, ubound, CutoffNode(child, lbound, ubound))
    BY <1>1, <1>4, <2>1, CutoffNodeFacts
  <2>. QED  BY <1>2, <2>2 DEF CutBetween
<1>. DEFINE numLeft == Len(cut.buckets) \div 2
            pivot == cut.pivotTable[numLeft + 1]
            lower == SplitChildLeft(cut, numLeft)
            upper == SplitChildRight(cut, numLeft)
<1>. HIDE DEF cut
<1>6. Parts(cut.pivotTable, cut.children, cut.buckets)
  BY <1>5, PartsOfNode
<1>7. /\ Len(cut.pivotTable) \in Nat /\ Len(cut.buckets) \in Nat /\ Len(cut.buckets) >= 1
      /\ Len(cut.pivotTable) = Len(cut.buckets) + 1
      /\ \A i \in 1 .. Len(cut.pivotTable) : cut.pivotTable[i] \in 0 .. NumKeys
  BY <1>6, PartsTyped
<1>8. numLeft \in 1 .. (Len(cut.buckets) - 1)
  <2>. DEFINE n == Len(cut.buckets)
  <2>1. n \in Nat /\ n >= 1 /\ n + 1 # 2
    BY <1>3, <1>7
  <2>. HIDE DEF n
  <2>2. n \div 2 \in 1 .. (n - 1)
    BY <2>1
  <2>. QED  BY <2>2 DEF n
<1>9. pivot \in Nat
  <2>. HIDE DEF numLeft
  <2>1. numLeft + 1 \in 1 .. Len(cut.pivotTable)
    BY <1>7, <1>8
  <2>. QED  BY <1>7, <2>1
<1>10. PivotInsertable(pt, slot + 1, pivot)
  BY <1>3
<1>. HIDE DEF numLeft
<1>11. /\ WFNode(lower) /\ lower.children \in Seq(D) /\ Narrowed(lower, cut)
       /\ WFNode(upper) /\ upper.children \in Seq(D) /\ Narrowed(upper, cut)
       /\ lower.pivotTable[1] = lbound /\ Last(lower.pivotTable) = pivot
       /\ upper.pivotTable[1] = pivot /\ Last(upper.pivotTable) = ubound
       /\ SomeSlots(lower, cut) /\ SomeSlots(upper, cut)
  BY <1>5, <1>8, SplitChildFacts
<1>12. Narrowed(lower, child)
  <2>. HIDE DEF lower
  <2>. QED  BY <1>1, <1>5, <1>11, NarrowedTrans
<1>13. Narrowed(upper, child)
  <2>. HIDE DEF upper
  <2>. QED  BY <1>1, <1>5, <1>11, NarrowedTrans
<1>14. ASSUME child.pivotTable[1] = lbound, Last(child.pivotTable) = ubound
       PROVE  SomeSlots(lower, child) /\ SomeSlots(upper, child)
  <2>. HIDE DEF lower, upper
  <2>1. SomeSlots(cut, child)
    BY <1>5, <1>14
  <2>2. SomeSlots(lower, child)
    BY <1>5, <1>11, <2>1, SomeSlotsTrans
  <2>3. SomeSlots(upper, child)
    BY <1>5, <1>11, <2>1, SomeSlotsTrans
  <2>. QED  BY <2>2, <2>3
<1>. HIDE DEF lower, upper, pivot
<1>15. SplitParts(node, child, cut, slot, D)
  BY <1>9, <1>10, <1>11, <1>12, <1>13, <1>14
  DEF SplitParts, lower, upper, pivot, numLeft, lbound, ubound
<1>. QED  BY <1>15 DEF child, D, cut

\* A split puts two halves of the child, which then take its slot.
LEMMA SplitSound ==
  ASSUME Sound(nodes, table), NEW parent \in DOMAIN nodes, ~IsLeaf(nodes[parent]),
         NEW slot \in 1 .. Len(nodes[parent].buckets), Split(parent, slot)
  PROVE  Sound(nodes', table')
<1>. DEFINE node    == nodes[parent]
            D       == DOMAIN nodes
            cut     == CutChild(parent, slot)
            numLeft == Len(cut.buckets) \div 2
            pivot   == cut.pivotTable[numLeft + 1]
            lower   == SplitChildLeft(cut, numLeft)
            upper   == SplitChildRight(cut, numLeft)
<1>a. PICK left \in FreeRef(table.refUpperBound) : \E right \in FreeRef(left) :
        /\ nodes' = Put(Put(Put(nodes, left, lower), right, upper), parent,
                        SplitParent(node, slot, pivot, left, right))
        /\ table' = WriteBookkeeping(
             WriteBookkeeping(WriteBookkeeping(table, left, lower), right, upper),
             parent, SplitParent(node, slot, pivot, left, right))
  BY DEF Split
<1>1. PICK right \in FreeRef(left) :
        /\ nodes' = Put(Put(Put(nodes, left, lower), right, upper), parent,
                        SplitParent(node, slot, pivot, left, right))
        /\ table' = WriteBookkeeping(
             WriteBookkeeping(WriteBookkeeping(table, left, lower), right, upper),
             parent, SplitParent(node, slot, pivot, left, right))
  BY <1>a
<1>. DEFINE newparent == SplitParent(node, slot, pivot, left, right)
            ms == Put(nodes, left, lower)
            u  == WriteBookkeeping(table, left, lower)
            E  == D \cup {left}
<1>2. IsTree(nodes)
  BY DEF Sound, Version
<1>3. SplitAllowed(parent, slot)
  BY DEF Split
<1>4. SplitParts(node, nodes[node.children[slot]], cut, slot, D)
  BY <1>2, <1>3, SplitPieces
<1>5. /\ WFNode(lower) /\ lower.children \in Seq(D)
      /\ WFNode(upper) /\ upper.children \in Seq(D)
      /\ pivot \in Nat /\ PivotInsertable(node.pivotTable, slot + 1, pivot)
  BY <1>4 DEF SplitParts
<1>6. WFNode(node) /\ node.children \in Seq(D) /\ ~IsLeaf(node) /\ slot \in 1 .. Len(node.buckets)
  BY <1>2, ChildInTree
<1>7. left \in Ref /\ left > table.refUpperBound /\ table.refUpperBound \in Ref
  BY FreeIsNew, ExactGives DEF Sound
<1>. HIDE DEF lower, upper, pivot, cut, numLeft
<1>8. /\ lower.children \in Seq(D \cup {left}) /\ upper.children \in Seq(E)
  <2>1. D \subseteq E
    OBVIOUS
  <2>. DEFINE cs == lower.children  ds == upper.children
  <2>2. cs \in Seq(D) /\ ds \in Seq(D)
    BY <1>5
  <2>. HIDE DEF cs, ds, D, E
  <2>3. cs \in Seq(E)
    BY <2>1, <2>2, SeqOfLarger
  <2>4. ds \in Seq(E)
    BY <2>1, <2>2, SeqOfLarger
  <2>. QED  BY <2>3, <2>4 DEF cs, ds, E
<1>9. Sound(ms, u) /\ DOMAIN ms = E /\ u.refUpperBound = left
  BY <1>5, <1>7, <1>8, WriteSound, SMTT(30)
<1>10. WFNode(newparent) /\ newparent.children \in Seq(E \cup {right})
  <2>. DEFINE S == E \cup {right}  cs == node.children
  <2>1. D \subseteq S /\ cs \in Seq(D) /\ left \in S /\ right \in S
    BY <1>6
  <2>2. cs \in Seq(S)
    <3>. HIDE DEF cs, S, D
    <3>. QED  BY <2>1, SeqOfLarger
  <2>3. node.children \in Seq(S)
    BY <2>2
  <2>. HIDE DEF S, node, cs
  <2>4. WFNode(newparent) /\ newparent.children \in Seq(S)
    <3>1. SplitFrom(S, newparent, node, slot, pivot, left, right)
      BY <1>5, <1>6, <2>1, <2>3, SplitParentNode
    <3>. HIDE DEF newparent
    <3>. QED  BY <3>1 DEF SplitFrom
  <2>. QED  BY <2>4 DEF S
<1>. HIDE DEF newparent, ms, u
<1>11. right \in FreeRef(u.refUpperBound) /\ upper.children \in Seq(DOMAIN ms)
       /\ parent \in DOMAIN ms /\ newparent.children \in Seq(DOMAIN ms \cup {right})
  BY <1>8, <1>9, <1>10
<1>12. Sound(Put(Put(ms, right, upper), parent, newparent),
             WriteBookkeeping(WriteBookkeeping(u, right, upper), parent, newparent))
  BY <1>5, <1>9, <1>10, <1>11, WriteTwo
<1>. QED  BY <1>1, <1>12 DEF ms, u, newparent

\* Repivoting changes no edge of the graph.
LEMMA RepivotSound ==
  ASSUME Sound(nodes, table), NEW ref \in DOMAIN nodes, IsLeaf(nodes[ref]),
         Len(nodes[ref].buckets) = 1, RepivotLeaf(ref)
  PROVE  Sound(nodes', table')
<1>. DEFINE node == nodes[ref]
            q == RepivotedLeaf(node)
<1>1. WFNode(node) /\ DOMAIN nodes \in SUBSET Ref
  BY VersionGives DEF Sound
<1>2. IsTree(nodes)
  BY DEF Sound, Version
<1>3. WFNode(q) /\ IsLeaf(q)
  BY <1>1, RepivotedNode
<1>4. nodes' = [nodes EXCEPT ![ref] = q] /\ table' = WriteBookkeeping(table, ref, nodes'[ref])
  BY DEF RepivotLeaf
<1>5. nodes'[ref] = q
  BY <1>4
<1>. HIDE DEF q, node
<1>6. q.children \in Seq(DOMAIN nodes \cup {ref})
  <2>1. q.children = <<>>
    BY <1>3 DEF IsLeaf
  <2>. QED  BY <2>1
<1>7. nodes' = Put(nodes, ref, q)
  <2>1. nodes = [r \in DOMAIN nodes |-> nodes[r]]
    BY <1>2 DEF IsTree
  <2>. QED  BY <1>4, <2>1, ExceptIsPut
<1>8. Sound(Put(nodes, ref, q), WriteBookkeeping(table, ref, q))
  BY <1>1, <1>3, <1>6, WriteSound
<1>. QED  BY <1>4, <1>5, <1>7, <1>8

\* What is deallocated is not the root, and nothing refers to it.
LEMMA DeallocSound ==
  ASSUME Sound(nodes, table), NEW ref \in FindDeallocable(table),
         nodes' = Without(nodes, ref), table' = RemoveRef(table, ref)
  PROVE  Sound(nodes', table') /\ ref # Root /\ ref \in DOMAIN nodes
         /\ \A r \in DOMAIN nodes' : nodes[r].children \in Seq(DOMAIN nodes')
<1>. DEFINE D == DOMAIN nodes  u == RemoveRef(table, ref)  ms == Without(nodes, ref)
            E == D \ {ref}
<1>1. /\ D \in SUBSET Ref /\ Root \in D /\ DOMAIN table.entries = D
      /\ \A r \in D : WFNode(nodes[r]) /\ nodes[r].children \in Seq(D)
                      /\ table.entries[r].succs = nodes[r].children
  BY VersionGives DEF Sound
<1>2. table.garbageQueue \in Seq(D) /\ QueueMatches(table)
  BY <1>1, ExactGives DEF Sound
<1>3. ref \in D /\ Count(table, ref) = 0
  <2>. DEFINE q == table.garbageQueue
  <2>1. q # <<>> /\ ref = Head(q) /\ q \in Seq(D)
    BY <1>2 DEF FindDeallocable
  <2>2. Range(q) = {r \in DOMAIN table.entries : Count(table, r) = 0}
    BY <1>2 DEF QueueMatches
  <2>. HIDE DEF q, D
  <2>3. 1 \in DOMAIN q /\ ref = q[1]
    BY <2>1
  <2>4. ref \in Range(q)
    BY <2>3 DEF Range
  <2>. QED  BY <1>1, <2>2, <2>4
<1>4. /\ Exact(u) /\ DOMAIN u.entries = E /\ ref # Root
      /\ SuccsOf(u.entries) = Without(SuccsOf(table.entries), ref)
      /\ \A r \in E : table.entries[r].succs \in Seq(E)
  <2>1. ref \in DOMAIN table.entries /\ Exact(table)
    BY <1>1, <1>3 DEF Sound
  <2>. HIDE DEF D
  <2>2. /\ Exact(u) /\ DOMAIN u.entries = DOMAIN table.entries \ {ref} /\ ref # Root
        /\ SuccsOf(u.entries) = Without(SuccsOf(table.entries), ref)
        /\ \A r \in DOMAIN table.entries \ {ref} :
             table.entries[r].succs \in Seq(DOMAIN table.entries \ {ref})
    BY <1>3, <2>1, RemoveFacts
  <2>. QED  BY <1>1, <2>2
<1>5. DOMAIN ms = E /\ \A r \in E : ms[r] = nodes[r]
  BY DEF Without, Restrict
<1>6. ms = [r \in DOMAIN ms |-> ms[r]]
  BY DEF Without, Restrict
<1>. HIDE DEF ms, u
<1>7. IsTree(ms)
  <2>1. \A r \in E : WFNode(ms[r]) /\ ms[r].children \in Seq(E)
    BY <1>1, <1>4, <1>5
  <2>2. DOMAIN ms \subseteq Ref /\ Root \in DOMAIN ms
    BY <1>1, <1>4, <1>5
  <2>. QED  BY <1>5, <1>6, <2>1, <2>2 DEF IsTree
<1>8. Kids(ms) = SuccsOf(u.entries)
  <2>1. SuccsOf(table.entries) = Kids(nodes)
    BY DEF Sound, Version
  <2>2. Kids(ms) = [r \in E |-> nodes[r].children]
    BY <1>5 DEF Kids
  <2>3. Without(Kids(nodes), ref) = [r \in E |-> nodes[r].children]
    BY DEF Without, Restrict, Kids
  <2>. QED  BY <1>4, <2>1, <2>2, <2>3
<1>9. IsGraph(u.entries)
  BY <1>4, ExactGives DEF IsGraph
<1>10. nodes' = ms /\ table' = u
  BY DEF ms, u
<1>11. \A r \in E : nodes[r].children \in Seq(E)
  BY <1>1, <1>4
<1>. QED  BY <1>3, <1>4, <1>5, <1>7, <1>8, <1>9, <1>10, <1>11 DEF Sound, Version

-----------------------------------------------------------------------------
\* Whatever the tree does keeps the nodes and the ephemeral table in agreement.
TreeStep ==
  \/ \E key \in Key, value \in Value : Insert(key, value)
  \/ RunFlushPolicy
  \/ Dealloc

\* So every step of the tree keeps table and graph in agreement.
LEMMA TreeStepSound ==
  ASSUME Sound(nodes, table), TreeStep
  PROVE  Sound(nodes', table') /\ UNCHANGED <<frozen, persistent>>
<1>1. CASE \E key \in Key, value \in Value : Insert(key, value)
  <2>1. PICK key \in Key, value \in Value : Insert(key, value)
    BY <1>1
  <2>2. Sound(nodes', table')
    BY <2>1, InsertSound
  <2>. QED  BY <2>1, <2>2 DEF Insert, TreeChanged
<1>2. CASE RunFlushPolicy
  <2>1. Full /\ IsTree(nodes)
    BY <1>2 DEF RunFlushPolicy, Sound, Version
  <2>2. PolicyCases
    BY <2>1, PolicyFacts
  <2>3. CASE Policy.kind = "Grow" /\ Grow
    BY <2>3, GrowSound DEF Grow, TreeChanged
  <2>4. CASE Policy.kind = "Flush" /\ Flush(Policy.parent, Policy.slot)
    <3>1. PICK ref \in DOMAIN nodes :
            /\ Policy = [kind |-> "Flush", parent |-> ref, slot |-> BiggestSlot(nodes[ref])]
            /\ ~IsLeaf(nodes[ref])
      BY <2>2, <2>4 DEF PolicyCases
    <3>. DEFINE slot == BiggestSlot(nodes[ref])
    <3>2. slot \in 1 .. Len(nodes[ref].buckets)
      BY <2>1, <3>1, DownInTree
    <3>3. Flush(ref, slot)
      BY <2>4, <3>1
    <3>. HIDE DEF slot
    <3>4. Sound(nodes', table')
      BY <3>1, <3>2, <3>3, FlushSound
    <3>. QED  BY <3>3, <3>4 DEF Flush, TreeChanged
  <2>5. CASE Policy.kind = "Split" /\ Split(Policy.parent, Policy.slot)
    <3>1. PICK ref \in DOMAIN nodes :
            /\ Policy = [kind |-> "Split", parent |-> ref, slot |-> BiggestSlot(nodes[ref])]
            /\ ~IsLeaf(nodes[ref])
      BY <2>2, <2>5 DEF PolicyCases
    <3>. DEFINE slot == BiggestSlot(nodes[ref])
    <3>2. slot \in 1 .. Len(nodes[ref].buckets)
      BY <2>1, <3>1, DownInTree
    <3>3. Split(ref, slot)
      BY <2>5, <3>1
    <3>. HIDE DEF slot
    <3>4. Sound(nodes', table')
      BY <3>1, <3>2, <3>3, SplitSound
    <3>. QED  BY <3>3, <3>4 DEF Split, TreeChanged
  <2>6. CASE Policy.kind = "Repivot" /\ RepivotLeaf(Policy.ref)
    <3>1. PICK ref \in DOMAIN nodes :
            /\ Policy = [kind |-> "Repivot", ref |-> ref]
            /\ IsLeaf(nodes[ref]) /\ Len(nodes[ref].buckets) = 1
      BY <2>2, <2>6 DEF PolicyCases
    <3>2. RepivotLeaf(ref)
      BY <2>6, <3>1
    <3>3. Sound(nodes', table')
      BY <3>1, <3>2, RepivotSound
    <3>. QED  BY <3>2, <3>3 DEF RepivotLeaf, TreeChanged
  <2>. QED  BY <1>2, <2>3, <2>4, <2>5, <2>6 DEF RunFlushPolicy
<1>3. CASE Dealloc
  <2>1. PICK ref \in FindDeallocable(table) :
          /\ nodes' = Without(nodes, ref) /\ table' = RemoveRef(table, ref)
          /\ TreeChanged
    BY <1>3 DEF Dealloc
  <2>. QED  BY <2>1, DeallocSound DEF TreeChanged
<1>. QED  BY <1>1, <1>2, <1>3 DEF TreeStep

-----------------------------------------------------------------------------
\* Tables that are searched for nodes to write.

\* What comes before the iterator has a location.
Searched(t) == \A ref \in DOMAIN t.entries : ref < SearchFrom(t) => ~HasEmptyLoc(t, ref)

\* A clone has the same entries and starts its search anew.
LEMMA CloneFacts ==
  ASSUME NEW t, IsRefCountTable(t)
  PROVE  /\ IsRefCountTable(Clone(t)) /\ Clone(t).entries = t.entries
         /\ Searched(Clone(t))
<1>. DEFINE D == DOMAIN t.entries  u == Clone(t)
<1>1. /\ t \in [entries : Graphs(D), garbageQueue : Seq(D), refUpperBound : Ref,
                findLoclessIterator : Ref \cup {End, NoIterator}]
      /\ D \subseteq Ref
  BY DEF IsRefCountTable
<1>2. /\ u \in [entries : Graphs(D), garbageQueue : Seq(D), refUpperBound : Ref,
                findLoclessIterator : Ref \cup {End, NoIterator}]
      /\ u.entries = t.entries /\ u.findLoclessIterator = NoIterator
  <2>. DEFINE G == Graphs(D)
  <2>1. t \in [entries : G, garbageQueue : Seq(D), refUpperBound : Ref,
               findLoclessIterator : Ref \cup {End, NoIterator}]
    BY <1>1
  <2>2. <<>> \in Seq(D)
    OBVIOUS
  <2>. HIDE DEF G, D
  <2>. QED  BY <2>1, <2>2 DEF Clone, Restarted, G
<1>. HIDE DEF u
<1>3. IsRefCountTable(u)
  BY <1>1, <1>2 DEF IsRefCountTable
<1>4. Searched(u)
  <2>1. SearchFrom(u) = 0
    BY <1>2 DEF SearchFrom
  <2>2. \A ref \in D : ~(ref < 0)
    BY <1>1
  <2>. QED  BY <1>2, <2>1, <2>2 DEF Searched
<1>. QED  BY <1>2, <1>3, <1>4 DEF u

\* A location that is added changes no edge, and the search skips nothing for it.
LEMMA LocatedFacts ==
  ASSUME NEW t, IsRefCountTable(t), Searched(t), NEW ref
  PROVE  LET u == AddLocIfPresent(t, ref)
         IN  /\ IsRefCountTable(u) /\ SuccsOf(u.entries) = SuccsOf(t.entries)
             /\ DOMAIN u.entries = DOMAIN t.entries /\ Searched(u)
<1>. DEFINE D == DOMAIN t.entries  u == AddLocIfPresent(t, ref)
<1>1. CASE ref \notin D
  BY <1>1 DEF AddLocIfPresent
<1>2. CASE ref \in D
  <2>. DEFINE G == Graphs(D)  es == [t.entries EXCEPT ![ref].hasLoc = TRUE]
              I == Ref \cup {End, NoIterator}
  <2>1. /\ t \in [entries : G, garbageQueue : Seq(D), refUpperBound : Ref,
                  findLoclessIterator : I]
        /\ D \subseteq Ref
    BY DEF IsRefCountTable
  <2>2. t.entries \in G
    BY <2>1
  <2>3. /\ es \in G /\ DOMAIN es = D
        /\ \A r \in D : es[r].succs = t.entries[r].succs
                        /\ (t.entries[r].hasLoc => es[r].hasLoc)
    <3>. DEFINE Sq == Seq(D)
    <3>1. t.entries \in [D -> [hasLoc : BOOLEAN, succs : Sq, predCount : Nat]]
      BY <2>2 DEF Graphs
    <3>. HIDE DEF Sq
    <3>2. /\ es \in [D -> [hasLoc : BOOLEAN, succs : Sq, predCount : Nat]]
          /\ \A r \in D : es[r].succs = t.entries[r].succs
                          /\ (t.entries[r].hasLoc => es[r].hasLoc)
      BY <1>2, <3>1
    <3>. QED  BY <3>2 DEF Graphs, Sq
  <2>4. u = [t EXCEPT !.entries = es]
    <3>. HIDE DEF G, I
    <3>1. u = [t EXCEPT !.entries[ref].hasLoc = TRUE]
      BY <1>2 DEF AddLocIfPresent
    <3>2. [t EXCEPT !.entries[ref].hasLoc = TRUE] = [t EXCEPT !.entries = es]
      OBVIOUS
    <3>. QED  BY <3>1, <3>2
  <2>5. /\ u \in [entries : G, garbageQueue : Seq(D), refUpperBound : Ref,
                  findLoclessIterator : I]
        /\ u.entries = es /\ u.findLoclessIterator = t.findLoclessIterator
    <3>. HIDE DEF G, I, es, u, D
    <3>. QED  BY <2>1, <2>3, <2>4
  <2>. HIDE DEF u, es
  <2>6. IsRefCountTable(u)
    BY <2>1, <2>3, <2>5 DEF IsRefCountTable
  <2>7. SuccsOf(u.entries) = SuccsOf(t.entries)
    BY <2>3, <2>5 DEF SuccsOf
  <2>8. Searched(u)
    <3>1. SearchFrom(u) = SearchFrom(t)
      BY <2>5 DEF SearchFrom
    <3>2. \A r \in D : HasEmptyLoc(u, r) => HasEmptyLoc(t, r)
      BY <2>3, <2>5 DEF HasEmptyLoc
    <3>. QED  BY <2>3, <2>5, <3>1, <3>2 DEF Searched
  <2>. QED  BY <2>3, <2>5, <2>6, <2>7, <2>8 DEF u
<1>. QED  BY <1>1, <1>2

\* Where the search ends: nothing without a location lies before it.
LEMMA PositionFacts ==
  ASSUME NEW t, IsRefCountTable(t), Searched(t)
  PROVE  LET p == LoclessPosition(t)
         IN  /\ p = End \/ (p \in DOMAIN t.entries /\ HasEmptyLoc(t, p))
             /\ p \in Nat
             /\ \A ref \in DOMAIN t.entries : ref < p => ~HasEmptyLoc(t, ref)
<1>. DEFINE p == LoclessPosition(t)
            found == {ref \in DOMAIN t.entries : ref >= SearchFrom(t) /\ HasEmptyLoc(t, ref)}
<1>1. DOMAIN t.entries \subseteq Ref /\ SearchFrom(t) \in Nat
  BY DEF IsRefCountTable, SearchFrom
<1>2. ASSUME NEW ref \in DOMAIN t.entries, HasEmptyLoc(t, ref)
      PROVE  ref \in found
  <2>1. ~(ref < SearchFrom(t))
    BY <1>2 DEF Searched
  <2>2. ref >= SearchFrom(t)
    <3>. DEFINE from == SearchFrom(t)
    <3>1. from \in Nat /\ ref \in Nat /\ ~(ref < from)
      BY <1>1, <2>1
    <3>. HIDE DEF from
    <3>2. ref >= from
      BY <3>1
    <3>. QED  BY <3>2 DEF from
  <2>. QED  BY <1>2, <2>2
<1>3. CASE found = {}
  <2>1. p = End
    BY <1>3 DEF LoclessPosition
  <2>2. \A ref \in DOMAIN t.entries : ~HasEmptyLoc(t, ref)
    BY <1>2, <1>3
  <2>3. End \in Nat
    OBVIOUS
  <2>. HIDE DEF p, found
  <2>4. p = End /\ p \in Nat /\ \A ref \in DOMAIN t.entries : ref < p => ~HasEmptyLoc(t, ref)
    BY <2>1, <2>2, <2>3
  <2>. QED  BY <2>4 DEF p
<1>4. CASE found # {}
  <2>1. p = CHOOSE ref \in found : \A r \in found : ref <= r
    BY <1>4 DEF LoclessPosition
  <2>. HIDE DEF p
  <2>2. found \in SUBSET Nat
    BY <1>1
  <2>3. found \subseteq DOMAIN t.entries /\ \A ref \in found : HasEmptyLoc(t, ref)
    OBVIOUS
  <2>. HIDE DEF found
  <2>4. \E ref \in found : \A r \in found : ref <= r
    BY <1>4, <2>2, LeastNumber
  <2>5. p \in found /\ \A r \in found : p <= r
    BY <2>1, <2>4
  <2>6. \A ref \in DOMAIN t.entries : ref < p => ~HasEmptyLoc(t, ref)
    <3>1. ASSUME NEW ref \in DOMAIN t.entries, ref < p, HasEmptyLoc(t, ref)
          PROVE  FALSE
      <4>1. p <= ref
        BY <3>1, <1>2, <2>5
      <4>2. p \in Nat /\ ref \in Nat
        BY <1>1, <2>2, <2>5
      <4>. QED  BY <3>1, <4>1, <4>2
    <3>. QED  BY <3>1
  <2>. QED  BY <2>2, <2>3, <2>5, <2>6 DEF p
<1>. QED  BY <1>3, <1>4

\* Moving the iterator to the first entry without location skips none.
LEMMA SearchFacts ==
  ASSUME NEW t, IsRefCountTable(t), Searched(t)
  PROVE  LET u == FindRefWithNoLoc(t)
         IN  IsRefCountTable(u) /\ u.entries = t.entries /\ Searched(u)
<1>. DEFINE D == DOMAIN t.entries  u == FindRefWithNoLoc(t)  p == LoclessPosition(t)
<1>1. /\ p = End \/ p \in D
      /\ p \in Nat
      /\ \A ref \in D : ref < p => ~HasEmptyLoc(t, ref)
  BY PositionFacts
<1>. HIDE DEF p
<1>2. /\ t \in [entries : Graphs(D), garbageQueue : Seq(D), refUpperBound : Ref,
                findLoclessIterator : Ref \cup {End, NoIterator}]
      /\ D \subseteq Ref
  BY DEF IsRefCountTable
<1>3. /\ u \in [entries : Graphs(D), garbageQueue : Seq(D), refUpperBound : Ref,
                findLoclessIterator : Ref \cup {End, NoIterator}]
      /\ u.entries = t.entries /\ u.findLoclessIterator = p
  <2>. DEFINE I == Ref \cup {End, NoIterator}  G == Graphs(D)  Q == Seq(D)
  <2>1. p \in I
    BY <1>1, <1>2
  <2>2. u = [t EXCEPT !.findLoclessIterator = p]
    BY DEF FindRefWithNoLoc, p
  <2>3. t \in [entries : G, garbageQueue : Q, refUpperBound : Ref, findLoclessIterator : I]
    BY <1>2
  <2>. HIDE DEF D, u, I, G, Q
  <2>4. /\ u \in [entries : G, garbageQueue : Q, refUpperBound : Ref, findLoclessIterator : I]
        /\ u.entries = t.entries /\ u.findLoclessIterator = p
    BY <2>1, <2>2, <2>3
  <2>. QED  BY <2>4 DEF I, G, Q
<1>. HIDE DEF u
<1>4. IsRefCountTable(u)
  BY <1>2, <1>3 DEF IsRefCountTable
<1>5. Searched(u)
  <2>1. SearchFrom(u) = p
    <3>1. p # NoIterator
      BY <1>1
    <3>. QED  BY <1>3, <3>1 DEF SearchFrom
  <2>2. \A ref \in D : HasEmptyLoc(u, ref) => HasEmptyLoc(t, ref)
    BY <1>3 DEF HasEmptyLoc
  <2>. QED  BY <1>1, <1>3, <2>1, <2>2 DEF Searched
<1>. QED  BY <1>3, <1>4, <1>5 DEF u

-----------------------------------------------------------------------------
(***************************************************************************)
(* The inductive invariant.  In each of the three versions the table has   *)
(* the children of the nodes as successors; the ephemeral table counts     *)
(* them, and what comes before the iterator of the frozen one has a        *)
(* location.                                                               *)
(***************************************************************************)
FrozenOK(f) ==
  /\ f = [table |-> f.table, nodes |-> f.nodes]
  /\ Version(f.nodes, f.table.entries)
  /\ IsRefCountTable(f.table) /\ Searched(f.table)

IInv ==
  /\ Sound(nodes, table)
  /\ frozen # None => FrozenOK(frozen)
  /\ Version(persistent.nodes, persistent.entries)

\* A table with other locations describes the same version.
LEMMA SameVersion ==
  ASSUME NEW ns, NEW es, Version(ns, es), NEW fs, IsGraph(fs), SuccsOf(fs) = SuccsOf(es)
  PROVE  Version(ns, fs)
  BY DEF Version

\* The entries of a table are a graph.
LEMMA GraphOfTable ==
  ASSUME NEW t, IsRefCountTable(t)
  PROVE  IsGraph(t.entries)
  BY DEF IsRefCountTable, IsGraph

\* The initial tree.
LEMMA InitInv ==
  ASSUME Init
  PROVE  IInv
<1>. DEFINE es == Put(<<>>, Root, Entry(TRUE, <<>>, 0))
            ns == Put(<<>>, Root, EmptyNode)
<1>1. /\ DOMAIN ns = {Root} /\ ns[Root] = EmptyNode /\ ns = [r \in DOMAIN ns |-> ns[r]]
      /\ DOMAIN es = {Root} /\ es[Root] = Entry(TRUE, <<>>, 0)
      /\ es = [r \in DOMAIN es |-> es[r]]
  <2>1. DOMAIN (<< >>) = {}
    OBVIOUS
  <2>. QED  BY <2>1 DEF Put
<1>2. persistent.entries = es /\ persistent.nodes = ns /\ nodes = ns
      /\ table = ValToIndirectionTable(es) /\ frozen = None
  BY DEF Init
<1>. HIDE DEF es, ns
<1>3. WFNode(EmptyNode) /\ EmptyNode.children = <<>>
  <2>1. EmptyNode = [EmptyNode EXCEPT !.children = <<>>]
    BY DEF EmptyNode
  <2>. DEFINE cs == <<>>
  <2>2. cs = <<>>
    OBVIOUS
  <2>. HIDE DEF cs
  <2>3. WFNode([EmptyNode EXCEPT !.children = cs])
    BY <2>2, OneSlot
  <2>4. EmptyNode.children = <<>>
    BY DEF EmptyNode
  <2>. QED  BY <2>1, <2>2, <2>3, <2>4
<1>4. IsTree(ns)
  <2>1. EmptyNode.children \in Seq(DOMAIN ns)
    BY <1>3
  <2>2. DOMAIN ns \subseteq Ref
    BY <1>1
  <2>. QED  BY <1>1, <1>3, <2>1, <2>2 DEF IsTree
<1>5. IsGraph(es)
  <2>. DEFINE D == DOMAIN es  Q == Seq(D)
  <2>1. D \subseteq Ref
    BY <1>1
  <2>2. <<>> \in Q
    OBVIOUS
  <2>. HIDE DEF Q
  <2>3. Entry(TRUE, <<>>, 0) \in [hasLoc : BOOLEAN, succs : Q, predCount : Nat]
    BY <2>2 DEF Entry
  <2>4. es \in [D -> [hasLoc : BOOLEAN, succs : Q, predCount : Nat]]
    BY <1>1, <2>3
  <2>5. es \in Graphs(D)
    BY <2>4 DEF Graphs, Q
  <2>. QED  BY <2>1, <2>5 DEF IsGraph
<1>6. SuccsOf(es) = Kids(ns)
  <2>1. es[Root].succs = ns[Root].children
    BY <1>1, <1>3 DEF Entry
  <2>. QED  BY <1>1, <2>1 DEF SuccsOf, Kids
<1>7. Version(ns, es)
  BY <1>4, <1>5, <1>6 DEF Version
<1>8. Exact(table) /\ SuccsOf(table.entries) = SuccsOf(es)
  BY <1>1, <1>2, <1>5, LoadFacts
<1>9. IsGraph(table.entries)
  BY <1>8, GraphOfTable DEF Exact
<1>10. Sound(nodes, table)
  BY <1>2, <1>7, <1>8, <1>9, SameVersion DEF Sound
<1>. QED  BY <1>2, <1>7, <1>10 DEF IInv

\* A node is written for either table.
LEMMA WrittenEphemeral ==
  ASSUME Sound(nodes, table), NEW ref
  PROVE  Sound(nodes, AddLocIfPresent(table, ref))
<1>. DEFINE u == AddLocIfPresent(table, ref)
<1>1. CASE ref \notin DOMAIN table.entries
  BY <1>1 DEF AddLocIfPresent
<1>2. CASE ref \in DOMAIN table.entries
  <2>1. Exact(u) /\ SuccsOf(u.entries) = SuccsOf(table.entries)
    BY <1>2, LocationFacts DEF Sound
  <2>2. IsGraph(u.entries)
    BY <2>1, GraphOfTable DEF Exact
  <2>. QED  BY <2>1, <2>2, SameVersion DEF Sound
<1>. QED  BY <1>1, <1>2

\* Writing a node of the frozen version.
LEMMA WrittenFrozen ==
  ASSUME NEW f, FrozenOK(f), NEW ref
  PROVE  FrozenOK([f EXCEPT !.table = AddLocIfPresent(@, ref)])
<1>. DEFINE u == AddLocIfPresent(f.table, ref)
<1>1. IsRefCountTable(u) /\ SuccsOf(u.entries) = SuccsOf(f.table.entries) /\ Searched(u)
  BY LocatedFacts DEF FrozenOK
<1>2. IsGraph(u.entries)
  BY <1>1, GraphOfTable
<1>3. Version(f.nodes, u.entries)
  BY <1>1, <1>2, SameVersion DEF FrozenOK
<1>. HIDE DEF u
<1>4. [f EXCEPT !.table = u] = [table |-> u, nodes |-> f.nodes]
  <2>1. f = [table |-> f.table, nodes |-> f.nodes]
    BY DEF FrozenOK
  <2>. QED  BY <2>1
<1>5. FrozenOK([table |-> u, nodes |-> f.nodes])
  BY <1>1, <1>3 DEF FrozenOK
<1>. QED  BY <1>4, <1>5 DEF u

\* Looking for a node of the frozen version to write.
LEMMA SearchedFrozen ==
  ASSUME NEW f, FrozenOK(f)
  PROVE  FrozenOK([f EXCEPT !.table = FindRefWithNoLoc(@)])
<1>. DEFINE u == FindRefWithNoLoc(f.table)
<1>1. IsRefCountTable(u) /\ u.entries = f.table.entries /\ Searched(u)
  BY SearchFacts DEF FrozenOK
<1>2. Version(f.nodes, u.entries)
  BY <1>1 DEF FrozenOK
<1>. HIDE DEF u
<1>4. [f EXCEPT !.table = u] = [table |-> u, nodes |-> f.nodes]
  <2>1. f = [table |-> f.table, nodes |-> f.nodes]
    BY DEF FrozenOK
  <2>. QED  BY <2>1
<1>5. FrozenOK([table |-> u, nodes |-> f.nodes])
  BY <1>1, <1>2 DEF FrozenOK
<1>. QED  BY <1>4, <1>5 DEF u

\* Every step keeps the invariant.
LEMMA StepInv ==
  ASSUME IInv, [Next]_vars
  PROVE  IInv'
<1>. USE DEF IInv
<1>1. CASE TreeStep
  BY <1>1, TreeStepSound
<1>2. CASE WriteToEvict
  <2>1. PICK ref : Written(ref)
    BY <1>2 DEF WriteToEvict
  <2>2. UNCHANGED <<nodes, persistent>>
    BY <1>2 DEF WriteToEvict
  <2>3. Sound(nodes', table')
    BY <2>1, <2>2, WrittenEphemeral DEF Written
  <2>4. frozen' # None => FrozenOK(frozen')
    <3>1. CASE frozen = None
      BY <2>1, <3>1 DEF Written
    <3>2. CASE frozen # None
      <4>1. frozen' = [frozen EXCEPT !.table = AddLocIfPresent(@, ref)]
        BY <2>1, <3>2 DEF Written
      <4>. QED  BY <3>2, <4>1, WrittenFrozen
    <3>. QED  BY <3>1, <3>2
  <2>. QED  BY <2>2, <2>3, <2>4
<1>3. CASE Freeze
  <2>1. frozen' = [table |-> Clone(table), nodes |-> nodes] /\ UNCHANGED <<nodes, table, persistent>>
    BY <1>3 DEF Freeze
  <2>2. IsRefCountTable(Clone(table)) /\ Clone(table).entries = table.entries
        /\ Searched(Clone(table))
    BY CloneFacts DEF Sound, Exact
  <2>3. Version(nodes, Clone(table).entries)
    BY <2>2 DEF Sound
  <2>. DEFINE u == Clone(table)
  <2>. HIDE DEF u
  <2>4. FrozenOK([table |-> u, nodes |-> nodes])
    <3>1. IsRefCountTable(u) /\ Searched(u) /\ Version(nodes, u.entries)
      BY <2>2, <2>3 DEF u
    <3>. QED  BY <3>1 DEF FrozenOK
  <2>. QED  BY <2>1, <2>4 DEF u
<1>4. CASE WriteFrozenNode
  <2>. DEFINE found == LoclessPosition(frozen.table)
              after == [frozen EXCEPT !.table = FindRefWithNoLoc(@)]
  <2>1. /\ frozen # None /\ UNCHANGED <<nodes, persistent>>
        /\ \/ /\ table' = AddLocIfPresent(table, found)
              /\ frozen' = [after EXCEPT !.table = AddLocIfPresent(@, found)]
           \/ UNCHANGED table /\ frozen' = after
    BY <1>4 DEF WriteFrozenNode
  <2>2. FrozenOK(after)
    BY <2>1, SearchedFrozen
  <2>. HIDE DEF after, found
  <2>3. FrozenOK([after EXCEPT !.table = AddLocIfPresent(@, found)])
    BY <2>2, WrittenFrozen
  <2>4. Sound(nodes, AddLocIfPresent(table, found))
    BY WrittenEphemeral
  <2>. QED  BY <2>1, <2>2, <2>3, <2>4
<1>5. CASE WriteFrozenTable
  <2>1. /\ frozen # None /\ UNCHANGED <<nodes, table>> /\ frozen' = None
        /\ persistent' = [entries |-> frozen.table.entries, nodes |-> frozen.nodes]
    BY <1>5 DEF WriteFrozenTable
  <2>2. Version(frozen.nodes, frozen.table.entries)
    BY <2>1 DEF FrozenOK
  <2>. QED  BY <2>1, <2>2
<1>6. CASE Recover
  <2>1. /\ nodes' = persistent.nodes /\ frozen' = None /\ UNCHANGED persistent
        /\ table' = ValToIndirectionTable(persistent.entries)
    BY <1>6 DEF Recover
  <2>. DEFINE es == persistent.entries  ns == persistent.nodes
              u == ValToIndirectionTable(es)
  <2>2. Version(ns, es)
    OBVIOUS
  <2>. HIDE DEF es, ns
  <2>3. IsGraph(es) /\ Root \in DOMAIN es
    BY <2>2, VersionGives DEF Version
  <2>4. Exact(u) /\ SuccsOf(u.entries) = SuccsOf(es)
    BY <2>3, LoadFacts
  <2>. HIDE DEF u
  <2>5. IsGraph(u.entries)
    BY <2>4, GraphOfTable DEF Exact
  <2>6. Sound(ns, u)
    BY <2>2, <2>4, <2>5, SameVersion DEF Sound
  <2>. QED  BY <2>1, <2>6 DEF u, es, ns
<1>7. CASE UNCHANGED vars
  BY <1>7 DEF vars
<1>. QED  BY <1>1, <1>2, <1>3, <1>4, <1>5, <1>6, <1>7 DEF Next, TreeStep

\* IInv is invariant: in every version, what the operations do to nodes and table agrees.
THEOREM Invariance == Spec => []IInv
<1>1. Init => IInv
  BY InitInv
<1>2. IInv /\ [Next]_vars => IInv'
  BY StepInv
<1>. QED  BY <1>1, <1>2, PTL DEF Spec

\* All nodes of all versions are well formed, and no child is missing.
THEOREM TypeCorrect == Spec => []TypeOK
<1>1. IInv => TypeOK
  <2>. SUFFICES ASSUME IInv
                PROVE  TypeOK
    OBVIOUS
  <2>1. IsTree(nodes) /\ IsRefCountTable(table) /\ DOMAIN nodes = DOMAIN table.entries
    BY VersionGives DEF IInv, Sound, Version, Exact
  <2>2. ASSUME frozen # None
        PROVE  /\ IsTree(frozen.nodes) /\ IsRefCountTable(frozen.table)
               /\ DOMAIN frozen.nodes = DOMAIN frozen.table.entries
    <3>1. FrozenOK(frozen)
      BY <2>2 DEF IInv
    <3>. DEFINE ns == frozen.nodes  es == frozen.table.entries
    <3>2. Version(ns, es)
      BY <3>1 DEF FrozenOK
    <3>. HIDE DEF ns, es
    <3>3. IsTree(ns) /\ DOMAIN ns = DOMAIN es
      BY <3>2, VersionGives DEF Version
    <3>. QED  BY <3>1, <3>3 DEF FrozenOK, ns, es
  <2>3. /\ IsTree(persistent.nodes) /\ IsGraph(persistent.entries)
        /\ DOMAIN persistent.nodes = DOMAIN persistent.entries
    <3>. DEFINE ns == persistent.nodes  es == persistent.entries
    <3>1. Version(ns, es)
      BY DEF IInv
    <3>. HIDE DEF ns, es
    <3>2. IsTree(ns) /\ IsGraph(es) /\ DOMAIN ns = DOMAIN es
      BY <3>1, VersionGives DEF Version
    <3>. QED  BY <3>2 DEF ns, es
  <2>. QED  BY <2>1, <2>2, <2>3 DEF TypeOK
<1>. QED  BY <1>1, Invariance, PTL

\* The slots that point to a reference are its edges in the graph.
LEMMA PredecessorsAreEdges ==
  ASSUME NEW ref
  PROVE  Predecessors(ref) = Edges(Kids(nodes), ref)
<1>1. DOMAIN Kids(nodes) = DOMAIN nodes
      /\ \A p \in DOMAIN nodes : Kids(nodes)[p] = nodes[p].children
  BY DEF Kids
<1>2. \A p \in DOMAIN nodes :
        At(Kids(nodes)[p], ref) = {i \in DOMAIN nodes[p].children : nodes[p].children[i] = ref}
  BY <1>1 DEF At
<1>. QED  BY <1>1, <1>2 DEF Predecessors, Edges

\* What both invariants of the counts follow from.
LEMMA CountOfRef ==
  ASSUME IInv, NEW ref \in DOMAIN nodes
  PROVE  /\ Count(table, ref) = Cardinality(Predecessors(ref)) + (IF ref = Root THEN 1 ELSE 0)
         /\ IsFiniteSet(Predecessors(ref)) /\ Cardinality(Predecessors(ref)) \in Nat
         /\ DOMAIN table.entries = DOMAIN nodes
         /\ table.entries[ref].succs = nodes[ref].children
<1>. DEFINE graph == SuccsOf(table.entries)
<1>1. Exact(table) /\ Version(nodes, table.entries)
  BY DEF IInv, Sound
<1>2. DOMAIN table.entries = DOMAIN nodes /\ table.entries[ref].succs = nodes[ref].children
  BY <1>1, VersionGives
<1>3. Count(table, ref) = Counted(graph, ref)
  BY <1>1, <1>2, ExactGives
<1>4. DOMAIN table.entries \in SUBSET Ref /\ graph \in [DOMAIN table.entries -> Seq(Ref)]
  BY <1>1, ExactGives
<1>5. Predecessors(ref) = Edges(graph, ref)
  BY <1>1, PredecessorsAreEdges DEF Version
<1>. HIDE DEF graph
<1>6. IsFiniteSet(Edges(graph, ref)) /\ Cardinality(Edges(graph, ref)) \in Nat
  BY <1>4, EdgesFinite
<1>. QED  BY <1>2, <1>3, <1>5, <1>6 DEF Counted

\* The predecessor counts are always those of the tree.
THEOREM CountsCorrect == Spec => []CountsExact
<1>1. IInv => CountsExact
  <2>. SUFFICES ASSUME IInv
                PROVE  CountsExact
    OBVIOUS
  <2>1. DOMAIN table.entries = DOMAIN nodes
    BY VersionGives DEF IInv, Sound
  <2>. QED  BY <2>1, CountOfRef DEF CountsExact, Count
<1>. QED  BY <1>1, Invariance, PTL

\* The garbage queue always holds what nothing points to, each once.
THEOREM QueueCorrect == Spec => []QueueExact
<1>1. IInv => QueueExact
  <2>. SUFFICES ASSUME IInv
                PROVE  QueueExact
    OBVIOUS
  <2>1. DOMAIN table.entries = DOMAIN nodes
    BY VersionGives DEF IInv, Sound
  <2>2. /\ Distinct(table.garbageQueue)
        /\ Range(table.garbageQueue) = {r \in DOMAIN nodes : Count(table, r) = 0}
    BY <2>1 DEF IInv, Sound, Exact, QueueMatches
  <2>3. ASSUME NEW r \in DOMAIN nodes
        PROVE  Count(table, r) = 0 <=> r # Root /\ Predecessors(r) = {}
    <3>. DEFINE ps == Predecessors(r)
    <3>1. /\ Count(table, r) = Cardinality(ps) + (IF r = Root THEN 1 ELSE 0)
          /\ IsFiniteSet(ps) /\ Cardinality(ps) \in Nat
      BY CountOfRef
    <3>. HIDE DEF ps
    <3>2. Cardinality(ps) = 0 <=> ps = {}
      BY <3>1, FS_EmptySet
    <3>. QED  BY <3>1, <3>2 DEF ps
  <2>4. Range(table.garbageQueue) = {r \in DOMAIN nodes \ {Root} : Predecessors(r) = {}}
    BY <2>2, <2>3
  <2>. QED  BY <2>2, <2>4 DEF QueueExact, Distinct
<1>. QED  BY <1>1, Invariance, PTL

\* The search for nodes to write never skips one.
THEOREM SearchCorrect == Spec => []SearchSkipsNone
<1>1. IInv => SearchSkipsNone
  BY DEF IInv, FrozenOK, Searched, SearchSkipsNone
<1>. QED  BY <1>1, Invariance, PTL
=============================================================================
