--------------------------- MODULE IterationProofs ---------------------------
(***************************************************************************)
(* Induction over sets of numbers, what a definition by recursion on a     *)
(* number computes, and facts about finite sets of numbers, ascending      *)
(* sequences and the removal of an element: what the other proofs share.   *)
(***************************************************************************)
EXTENDS Integers, SequencesExt, Maps, FiniteSetTheorems, FunctionTheorems,
        SequenceTheorems, WellFoundedInduction, TLAPS

-----------------------------------------------------------------------------
\* Induction over the naturals, as the existence of a least number.
LEMMA LeastNumber ==
  ASSUME NEW T \in SUBSET Nat, T # {}
  PROVE  \E n \in T : \A m \in T : n <= m
<1>. DEFINE R == OpToRel(<, Nat)
<1>1. IsWellFoundedOn(R, Nat)
  BY NatLessThanWellFounded
<1>2. \A m, n \in Nat : m < n => <<m, n>> \in R
  BY DEF OpToRel
<1>. HIDE DEF R
<1>3. \E n \in T : \A m \in T : ~(<<m, n>> \in R)
  BY <1>1, WFMin
<1>4. PICK n \in T : \A m \in T : ~(<<m, n>> \in R)
  BY <1>3
<1>5. ASSUME NEW m \in T
      PROVE  n <= m
  <2>1. m \in Nat /\ n \in Nat
    OBVIOUS
  <2>2. ~(m < n)
    BY <1>2, <1>4, <2>1
  <2>. QED  BY <2>1, <2>2
<1>. QED  BY <1>5

\* A set of numbers that holds 0 and with each number below n the next one.
LEMMA Induction ==
  ASSUME NEW n \in Nat, NEW T, 0 \in T,
         \A k \in 0 .. (n - 1) : k \in T => k + 1 \in T
  PROVE  \A k \in 0 .. n : k \in T
<1>. DEFINE U == {k \in 0 .. n : k \notin T}
<1>. SUFFICES ASSUME U # {}
              PROVE  FALSE
  OBVIOUS
<1>1. U \in SUBSET Nat
  OBVIOUS
<1>2. PICK k \in U : \A m \in U : k <= m
  BY <1>1, LeastNumber
<1>3. k \in 1 .. n /\ k \notin T
  <2>1. k \in 0 .. n /\ k \notin T
    OBVIOUS
  <2>2. k # 0
    BY <2>1
  <2>. QED  BY <2>1, <2>2
<1>4. k - 1 \in 0 .. (n - 1) /\ (k - 1) + 1 = k
  BY <1>3
<1>5. k - 1 \notin T
  BY <1>3, <1>4
<1>6. k - 1 \in U
  BY <1>4, <1>5
<1>. QED  BY <1>2, <1>3, <1>6

-----------------------------------------------------------------------------
\* What a definition by recursion on a position computes

\* g starts from start and goes on by step, up to position n.
Iterates(g, start, step, n) ==
  /\ g[0] = start
  /\ \A i \in 1 .. n : g[i] = step[<<g[i - 1], i>>]

\* There is such a sequence of values of S.
LEMMA IterationExists ==
  ASSUME NEW S, NEW start \in S, NEW n \in Nat,
         NEW step \in [S \X (1 .. n) -> S]
  PROVE  \E g \in [0 .. n -> S] : Iterates(g, start, step, n)
<1>. DEFINE T == {k \in 0 .. n : \E g \in [0 .. k -> S] : Iterates(g, start, step, k)}
<1>1. 0 \in T
  <2>1. [i \in 0 .. 0 |-> start] \in [0 .. 0 -> S]
    OBVIOUS
  <2>2. Iterates([i \in 0 .. 0 |-> start], start, step, 0)
    BY DEF Iterates
  <2>. QED  BY <2>1, <2>2
<1>2. ASSUME NEW k \in 0 .. (n - 1), k \in T
      PROVE  k + 1 \in T
  <2>1. PICK g \in [0 .. k -> S] : Iterates(g, start, step, k)
    BY <1>2
  <2>2. k + 1 \in 1 .. n /\ g[k] \in S
    OBVIOUS
  <2>. DEFINE h == [i \in 0 .. (k + 1) |-> IF i = k + 1 THEN step[<<g[k], k + 1>>] ELSE g[i]]
  <2>3. h \in [0 .. (k + 1) -> S]
    BY <2>2
  <2>4. h[0] = start
    BY <2>1 DEF Iterates
  <2>5. ASSUME NEW i \in 1 .. (k + 1)
        PROVE  h[i] = step[<<h[i - 1], i>>]
    <3>1. h[i - 1] = g[i - 1]
      OBVIOUS
    <3>2. CASE i = k + 1
      <4>1. h[i] = step[<<g[k], k + 1>>] /\ i - 1 = k
        BY <3>2
      <4>. QED  BY <3>1, <3>2, <4>1
    <3>3. CASE i # k + 1
      BY <2>1, <3>1, <3>3 DEF Iterates
    <3>. QED  BY <3>2, <3>3
  <2>6. Iterates(h, start, step, k + 1)
    BY <2>4, <2>5 DEF Iterates
  <2>. HIDE DEF h
  <2>. QED  BY <2>2, <2>3, <2>6
<1>. HIDE DEF T
<1>3. \A k \in 0 .. n : k \in T
  BY <1>1, <1>2, Induction
<1>4. n \in T
  BY <1>3
<1>. QED  BY <1>4 DEF T

\* And only one.
LEMMA IterationUnique ==
  ASSUME NEW start, NEW step, NEW n \in Nat, NEW g, NEW h,
         Iterates(g, start, step, n), Iterates(h, start, step, n)
  PROVE  \A k \in 0 .. n : g[k] = h[k]
<1>. DEFINE T == {k \in 0 .. n : g[k] = h[k]}
<1>1. 0 \in T
  BY DEF Iterates
<1>2. ASSUME NEW k \in 0 .. (n - 1), k \in T
      PROVE  k + 1 \in T
  <2>1. k + 1 \in 1 .. n /\ (k + 1) - 1 = k /\ g[k] = h[k]
    BY <1>2
  <2>2. /\ g[k + 1] = step[<<g[(k + 1) - 1], k + 1>>]
        /\ h[k + 1] = step[<<h[(k + 1) - 1], k + 1>>]
    BY <2>1 DEF Iterates
  <2>3. g[k + 1] = h[k + 1]
    BY <2>1, <2>2
  <2>. QED  BY <2>1, <2>3
<1>. HIDE DEF T
<1>3. \A k \in 0 .. n : k \in T
  BY <1>1, <1>2, Induction
<1>. QED  BY <1>3 DEF T


\* Max gives the largest of a bounded set of numbers.
LEMMA LargestNumber ==
  ASSUME NEW n \in Nat, NEW T \in SUBSET (1 .. n), T # {}
  PROVE  Max(T) \in T /\ \A y \in T : y <= Max(T)
<1>. DEFINE U == {n - x : x \in T}
<1>1. U \in SUBSET Nat /\ U # {}
  <2>1. \A x \in T : x \in 1 .. n
    OBVIOUS
  <2>2. \A x \in 1 .. n : n - x \in Nat
    OBVIOUS
  <2>. QED  BY <2>1, <2>2
<1>2. PICK u \in U : \A m \in U : u <= m
  BY <1>1, LeastNumber
<1>3. PICK x \in T : u = n - x
  OBVIOUS
<1>4. \A y \in T : n - x <= n - y
  BY <1>2, <1>3
<1>5. \A y \in T : x >= y
  <2>. TAKE y \in T
  <2>1. x \in 1 .. n /\ y \in 1 .. n /\ n - x <= n - y
    BY <1>4
  <2>. QED  BY <2>1
<1>6. Max(T) \in T /\ \A y \in T : Max(T) >= y
  BY <1>5 DEF Max
<1>7. ASSUME NEW y \in T
      PROVE  y <= Max(T)
  <2>. DEFINE x1 == Max(T)
  <2>1. x1 \in T /\ x1 >= y
    BY <1>6
  <2>. HIDE DEF x1
  <2>2. x1 \in 1 .. n /\ y \in 1 .. n
    BY <2>1
  <2>3. y <= x1
    BY <2>1, <2>2
  <2>. QED  BY <2>3 DEF x1
<1>. QED  BY <1>6, <1>7

\* Max of a finite set of naturals below a bound.
LEMMA MaxOfNaturals ==
  ASSUME NEW n \in Nat, NEW T \in SUBSET (0 .. n), T # {}
  PROVE  Max(T) \in T /\ \A y \in T : y <= Max(T)
<1>. DEFINE U == {n - x : x \in T}
<1>1. U \in SUBSET Nat /\ U # {}
  <2>1. \A x \in T : x \in 0 .. n
    OBVIOUS
  <2>2. \A x \in 0 .. n : n - x \in Nat
    OBVIOUS
  <2>. QED  BY <2>1, <2>2
<1>2. PICK u \in U : \A m \in U : u <= m
  BY <1>1, LeastNumber
<1>3. PICK x \in T : u = n - x
  OBVIOUS
<1>4. \A y \in T : n - x <= n - y
  BY <1>2, <1>3
<1>5. \A y \in T : x >= y
  <2>. TAKE y \in T
  <2>1. x \in 0 .. n /\ y \in 0 .. n /\ n - x <= n - y
    BY <1>4
  <2>. QED  BY <2>1
<1>6. Max(T) \in T /\ \A y \in T : Max(T) >= y
  BY <1>5 DEF Max
<1>. HIDE DEF Max
<1>7. ASSUME NEW y \in T
      PROVE  y <= Max(T)
  <2>1. Max(T) \in 0 .. n /\ y \in 0 .. n /\ Max(T) >= y
    BY <1>6
  <2>. QED  BY <2>1
<1>. QED  BY <1>6, <1>7

\* The same without an end: a function over all the naturals.
LEMMA EndlessIterationExists ==
  ASSUME NEW S, NEW start \in S, NEW step \in [S -> S]
  PROVE  \E g \in [Nat -> S] : g[0] = start /\ \A n \in Nat : g[n + 1] = step[g[n]]
<1>. DEFINE stepTo(n) == [x \in S \X (1 .. n) |-> step[x[1]]]
            W(n, h) == h \in [0 .. n -> S] /\ Iterates(h, start, stepTo(n), n)
            some(n) == CHOOSE h : W(n, h)
            g == [n \in Nat |-> some(n)[n]]
<1>1. ASSUME NEW n \in Nat
      PROVE  /\ stepTo(n) \in [S \X (1 .. n) -> S]
             /\ \A x \in S, i \in 1 .. n : stepTo(n)[<<x, i>>] = step[x]
  OBVIOUS
<1>2. ASSUME NEW n \in Nat
      PROVE  \E h : W(n, h)
  <2>. DEFINE st == stepTo(n)
  <2>1. st \in [S \X (1 .. n) -> S]
    BY <1>1
  <2>. HIDE DEF st
  <2>2. \E h \in [0 .. n -> S] : Iterates(h, start, st, n)
    BY <2>1, IterationExists
  <2>. QED  BY <2>2 DEF st
<1>. HIDE DEF W
<1>3. \A n \in Nat : W(n, some(n))
  BY <1>2
<1>. HIDE DEF some, stepTo
<1>4. ASSUME NEW n \in Nat
      PROVE  /\ some(n) \in [0 .. n -> S] /\ some(n)[0] = start
             /\ \A i \in 1 .. n : some(n)[i] = step[some(n)[i - 1]]
  <2>1. some(n) \in [0 .. n -> S] /\ Iterates(some(n), start, stepTo(n), n)
    BY <1>3 DEF W
  <2>2. some(n)[0] = start /\ \A i \in 1 .. n : some(n)[i] = stepTo(n)[<<some(n)[i - 1], i>>]
    BY <2>1 DEF Iterates
  <2>3. \A i \in 1 .. n : some(n)[i - 1] \in S
    BY <2>1
  <2>. QED  BY <1>1, <2>1, <2>2, <2>3
<1>5. ASSUME NEW n \in Nat
      PROVE  some(n + 1)[n] = some(n)[n]
  <2>. DEFINE f == some(n)  h == some(n + 1)  st == stepTo(n)
  <2>1. n + 1 \in Nat
    OBVIOUS
  <2>2. /\ h \in [0 .. (n + 1) -> S] /\ h[0] = start
        /\ \A i \in 1 .. (n + 1) : h[i] = step[h[i - 1]]
    BY <1>4, <2>1
  <2>3. ASSUME NEW i \in 1 .. n
        PROVE  h[i] = st[<<h[i - 1], i>>]
    <3>1. h[i] = step[h[i - 1]] /\ h[i - 1] \in S
      <4>1. i \in 1 .. (n + 1) /\ i - 1 \in 0 .. (n + 1)
        OBVIOUS
      <4>. QED  BY <2>2, <4>1
    <3>. HIDE DEF h
    <3>. QED  BY <3>1, <1>1
  <2>4. Iterates(h, start, st, n)
    BY <2>2, <2>3 DEF Iterates
  <2>5. Iterates(f, start, st, n)
    BY <1>3 DEF W
  <2>. HIDE DEF f, h, st
  <2>6. \A k \in 0 .. n : h[k] = f[k]
    BY <2>4, <2>5, IterationUnique
  <2>7. h[n] = f[n]
    BY <2>6
  <2>. QED  BY <2>7 DEF f, h
<1>6. \A n \in Nat : g[n] = some(n)[n] /\ some(n)[n] \in S
  BY <1>4
<1>7. g \in [Nat -> S]
  BY <1>6
<1>8. g[0] = start
  BY <1>4, <1>6
<1>9. ASSUME NEW n \in Nat
      PROVE  g[n + 1] = step[g[n]]
  <2>1. g[n + 1] = some(n + 1)[n + 1]
    BY <1>6
  <2>2. some(n + 1)[n + 1] = step[some(n + 1)[n]]
    <3>. DEFINE m == n + 1
    <3>1. m \in Nat /\ m \in 1 .. m /\ m - 1 = n
      OBVIOUS
    <3>. HIDE DEF m
    <3>2. some(m)[m] = step[some(m)[m - 1]]
      BY <1>4, <3>1
    <3>. QED  BY <3>1, <3>2 DEF m
  <2>. QED  BY <1>5, <1>6, <2>1, <2>2
<1>. HIDE DEF g
<1>. QED  BY <1>7, <1>8, <1>9

\* A property of numbered things that each of them has when all those with
\* lower numbers have it.
LEMMA RankInduction ==
  ASSUME NEW B, NEW rank, \A r \in B : rank[r] \in Nat, NEW T,
         \A r \in B : (\A c \in B : rank[c] < rank[r] => c \in T) => r \in T
  PROVE  \A r \in B : r \in T
<1>. DEFINE left == {rank[r] : r \in B \ T}
<1>. SUFFICES ASSUME B \ T # {}
              PROVE  FALSE
  OBVIOUS
<1>1. left \in SUBSET Nat /\ left # {}
  OBVIOUS
<1>2. \A r \in B \ T : rank[r] \in left
  OBVIOUS
<1>3. \A n \in left : \E r \in B \ T : rank[r] = n
  OBVIOUS
<1>. HIDE DEF left
<1>4. PICK n \in left : \A m \in left : n <= m
  BY <1>1, LeastNumber
<1>5. PICK r \in B \ T : rank[r] = n
  BY <1>3
<1>6. ASSUME NEW c \in B, rank[c] < rank[r], c \notin T
      PROVE  FALSE
  <2>1. n <= rank[c] /\ n \in Nat /\ rank[c] \in Nat
    BY <1>1, <1>2, <1>4, <1>6
  <2>. QED  BY <1>5, <1>6, <2>1
<1>. QED  BY <1>5, <1>6

-----------------------------------------------------------------------------
\* Finite sets of numbers in order

\* How many numbers of a set are below one of them.
RankIn(S, k) == Cardinality({j \in S : j < k})

\* The rank is below the size of the set, and grows with the number.
LEMMA RankOrder ==
  ASSUME NEW S \in SUBSET Int, IsFiniteSet(S)
  PROVE  /\ Cardinality(S) \in Nat
         /\ \A k \in S : RankIn(S, k) \in 0 .. (Cardinality(S) - 1)
         /\ \A j, k \in S : j < k => RankIn(S, j) < RankIn(S, k)
<1>. DEFINE below(k) == {j \in S : j < k}
<1>1. Cardinality(S) \in Nat
  BY FS_CardinalityType
<1>2. ASSUME NEW k \in S
      PROVE  /\ IsFiniteSet(below(k)) /\ Cardinality(below(k)) \in Nat
             /\ Cardinality(below(k)) < Cardinality(S)
  <2>1. below(k) \in SUBSET S /\ k \notin below(k)
    OBVIOUS
  <2>. HIDE DEF below
  <2>2. /\ IsFiniteSet(below(k)) /\ Cardinality(below(k)) <= Cardinality(S)
        /\ Cardinality(S) = Cardinality(below(k)) => S = below(k)
    BY <2>1, FS_Subset, Zenon
  <2>3. Cardinality(below(k)) \in Nat
    BY <2>2, FS_CardinalityType
  <2>4. Cardinality(S) # Cardinality(below(k))
    BY <2>1, <2>2
  <2>. QED  BY <1>1, <2>2, <2>3, <2>4
<1>3. ASSUME NEW j \in S, NEW k \in S, j < k
      PROVE  Cardinality(below(j)) < Cardinality(below(k))
  <2>0. \A i \in S : i < j => i < k
    <3>. TAKE i \in S
    <3>1. i \in Int /\ j \in Int /\ k \in Int
      OBVIOUS
    <3>. QED  BY <1>3, <3>1
  <2>1. below(j) \in SUBSET below(k) /\ j \in below(k) /\ j \notin below(j)
    <3>1. j \in Int
      OBVIOUS
    <3>2. j \in below(k) /\ j \notin below(j)
      BY <1>3, <3>1
    <3>3. below(j) \in SUBSET below(k)
      BY <2>0
    <3>. QED  BY <3>2, <3>3
  <2>2. /\ Cardinality(below(j)) \in Nat /\ Cardinality(below(k)) \in Nat
        /\ IsFiniteSet(below(k))
    BY <1>2
  <2>. HIDE DEF below
  <2>3. /\ Cardinality(below(j)) <= Cardinality(below(k))
        /\ Cardinality(below(k)) = Cardinality(below(j)) => below(k) = below(j)
    BY <2>1, <2>2, FS_Subset, Zenon
  <2>. QED  BY <2>1, <2>2, <2>3
<1>4. \A k \in S : RankIn(S, k) = Cardinality(below(k))
  BY DEF RankIn
<1>. HIDE DEF below
<1>5. ASSUME NEW k \in S
      PROVE  RankIn(S, k) \in 0 .. (Cardinality(S) - 1)
  BY <1>1, <1>2, <1>4
<1>6. ASSUME NEW j \in S, NEW k \in S, j < k
      PROVE  RankIn(S, j) < RankIn(S, k)
  BY <1>3, <1>4, <1>6
<1>. QED  BY <1>1, <1>5, <1>6

\* Every rank below the size is that of one number.
LEMMA RankOnto ==
  ASSUME NEW S \in SUBSET Int, IsFiniteSet(S)
  PROVE  /\ \A n \in 0 .. (Cardinality(S) - 1) : \E k \in S : RankIn(S, k) = n
         /\ \A j, k \in S : RankIn(S, j) = RankIn(S, k) => j = k
<1>. DEFINE n == Cardinality(S)
            T == 0 .. (n - 1)
            r == [k \in S |-> RankIn(S, k)]
<1>1. /\ n \in Nat /\ \A k \in S : RankIn(S, k) \in T
      /\ \A j, k \in S : j < k => RankIn(S, j) < RankIn(S, k)
  BY RankOrder, Zenon
<1>2. ASSUME NEW j \in S, NEW k \in S, RankIn(S, j) = RankIn(S, k)
      PROVE  j = k
  <2>1. RankIn(S, j) \in Int /\ RankIn(S, k) \in Int
    BY <1>1
  <2>2. ~(j < k) /\ ~(k < j)
    BY <1>1, <1>2, <2>1
  <2>. QED  BY <2>2
<1>3. r \in [S -> T] /\ \A j, k \in S : r[j] = r[k] => j = k
  BY <1>1, <1>2
<1>4. r \in Injection(S, T)
  BY <1>3, Fun_IsInj
<1>5. IsFiniteSet(T) /\ Cardinality(T) = n
  <2>1. 0 \in Int /\ n - 1 \in Int
    BY <1>1
  <2>2. IsFiniteSet(T) /\ Cardinality(T) = IF 0 > n - 1 THEN 0 ELSE (n - 1) - 0 + 1
    BY <2>1, FS_Interval, Zenon
  <2>. QED  BY <1>1, <2>2
<1>. HIDE DEF r, T
<1>6. r \in Surjection(S, T)
  BY <1>4, <1>5, FS_Injection
<1>7. \A t \in T : \E k \in S : r[k] = t
  BY <1>6, Fun_SurjectionProperties
<1>8. \A t \in T : \E k \in S : RankIn(S, k) = t
  BY <1>7 DEF r
<1>. QED  BY <1>2, <1>8 DEF T

\* Ascending lists the numbers of a set, each of them once and in order.
LEMMA AscendingFacts ==
  ASSUME NEW S \in SUBSET Int, IsFiniteSet(S)
  PROVE  /\ Ascending(S) \in Seq(S) /\ Len(Ascending(S)) = Cardinality(S)
         /\ Cardinality(S) \in Nat
         /\ \A i \in 1 .. Cardinality(S) : RankIn(S, Ascending(S)[i]) = i - 1
         /\ \A i, j \in 1 .. Cardinality(S) : i < j => Ascending(S)[i] < Ascending(S)[j]
         /\ \A k \in S : \E i \in 1 .. Cardinality(S) : Ascending(S)[i] = k
<1>. DEFINE n == Cardinality(S)
            s == Ascending(S)
<1>1. /\ n \in Nat /\ \A k \in S : RankIn(S, k) \in 0 .. (n - 1)
      /\ \A j, k \in S : j < k => RankIn(S, j) < RankIn(S, k)
  BY RankOrder, Zenon
<1>2. /\ \A m \in 0 .. (n - 1) : \E k \in S : RankIn(S, k) = m
      /\ \A j, k \in S : RankIn(S, j) = RankIn(S, k) => j = k
  BY RankOnto, Zenon
<1>3. s = [i \in 1 .. n |-> CHOOSE k \in S : RankIn(S, k) = i - 1]
  BY DEF Ascending, RankIn
<1>4. ASSUME NEW i \in 1 .. n
      PROVE  s[i] \in S /\ RankIn(S, s[i]) = i - 1
  <2>1. i - 1 \in 0 .. (n - 1)
    BY <1>1
  <2>2. \E k \in S : RankIn(S, k) = i - 1
    BY <1>2, <2>1
  <2>3. s[i] = CHOOSE k \in S : RankIn(S, k) = i - 1
    BY <1>3
  <2>. HIDE DEF s, n
  <2>. QED  BY <2>2, <2>3
<1>. HIDE DEF s
<1>5. s \in [1 .. n -> S]
  BY <1>3, <1>4
<1>6. s \in Seq(S) /\ Len(s) = n
  BY <1>1, <1>5
<1>7. ASSUME NEW i \in 1 .. n, NEW j \in 1 .. n, i < j
      PROVE  s[i] < s[j]
  <2>1. /\ s[i] \in S /\ s[j] \in S
        /\ RankIn(S, s[i]) = i - 1 /\ RankIn(S, s[j]) = j - 1
    BY <1>4
  <2>2. s[i] # s[j]
    BY <1>7, <2>1
  <2>3. s[j] < s[i] => RankIn(S, s[j]) < RankIn(S, s[i])
    BY <1>1, <2>1
  <2>4. ~(s[j] < s[i])
    BY <1>7, <2>1, <2>3
  <2>5. s[i] \in Int /\ s[j] \in Int
    BY <2>1
  <2>. QED  BY <2>2, <2>4, <2>5
<1>8. ASSUME NEW k \in S
      PROVE  \E i \in 1 .. n : s[i] = k
  <2>1. RankIn(S, k) \in 0 .. (n - 1)
    BY <1>1
  <2>. DEFINE i == RankIn(S, k) + 1
  <2>2. i \in 1 .. n /\ i - 1 = RankIn(S, k)
    BY <1>1, <2>1
  <2>3. s[i] \in S /\ RankIn(S, s[i]) = RankIn(S, k)
    BY <1>4, <2>2
  <2>4. s[i] = k
    BY <1>2, <2>3
  <2>. QED  BY <2>2, <2>4
<1>. QED  BY <1>1, <1>4, <1>6, <1>7, <1>8 DEF s

-----------------------------------------------------------------------------
\* Removal of an element

Distinct(s) == \A i, j \in DOMAIN s : s[i] = s[j] => i = j

\* Elements of a set are elements of a larger one.
LEMMA SeqOfLarger ==
  ASSUME NEW S, NEW T, S \subseteq T, NEW s \in Seq(S)
  PROVE  s \in Seq(T)
<1>1. /\ s \in [1 .. Len(s) -> T] /\ Len(s) \in Nat
  OBVIOUS
<1>. QED  BY <1>1

\* RemoveFirst takes an element out of a sequence without duplicates.
LEMMA RemoveFirstFacts ==
  ASSUME NEW S, NEW s \in Seq(S), Distinct(s), NEW e
  PROVE  /\ RemoveFirst(s, e) \in Seq(S) /\ Distinct(RemoveFirst(s, e))
         /\ Range(RemoveFirst(s, e)) = Range(s) \ {e}
<1>. DEFINE I == {i \in 1 .. Len(s) : s[i] = e}
<1>1. CASE I = {}
  <2>1. ~\E i \in 1 .. Len(s) : s[i] = e
    BY <1>1
  <2>2. RemoveFirst(s, e) = s
    BY <2>1 DEF RemoveFirst
  <2>3. e \notin Range(s)
    BY <2>1 DEF Range
  <2>. QED  BY <2>2, <2>3
<1>2. CASE I # {}
  <2>1. \E i \in 1 .. Len(s) : s[i] = e
    BY <1>2
  <2>2. I \in SUBSET Nat
    OBVIOUS
  <2>3. \E i \in I : \A j \in I : i <= j
    BY <1>2, <2>2, LeastNumber, Zenon
  <2>. DEFINE p == CHOOSE i \in I : \A j \in I : i <= j
  <2>4. p \in I
    BY <2>3
  <2>5. RemoveFirst(s, e) = RemoveAt(s, p)
    BY <1>2, <2>1 DEF RemoveFirst, SelectInSeq, Min
  <2>. HIDE DEF p
  <2>6. p \in 1 .. Len(s) /\ s[p] = e
    BY <2>4
  <2>. DEFINE r == SubSeq(s, 1, p - 1) \o SubSeq(s, p + 1, Len(s))
              n == Len(s) - 1
  <2>7. RemoveFirst(s, e) = r
    BY <2>5 DEF RemoveAt
  <2>8. /\ r \in Seq(S) /\ Len(r) = n /\ n \in Nat
        /\ \A i \in 1 .. n : r[i] = IF i < p THEN s[i] ELSE s[i + 1]
    <3>. DEFINE front == SubSeq(s, 1, p - 1)
                back  == SubSeq(s, p + 1, Len(s))
    <3>1. /\ front \in Seq(S) /\ Len(front) = p - 1
          /\ \A i \in 1 .. (p - 1) : front[i] = s[i]
      BY <2>6
    <3>2. /\ back \in Seq(S) /\ Len(back) = Len(s) - p
          /\ \A i \in 1 .. (Len(s) - p) : back[i] = s[i + p]
      BY <2>6
    <3>3. Len(s) \in Nat /\ p \in 1 .. Len(s) /\ n \in Nat
      BY <2>6
    <3>0. r = front \o back
      BY DEF r
    <3>. HIDE DEF front, back
    <3>5. /\ front \o back \in Seq(S) /\ Len(front \o back) = Len(front) + Len(back)
          /\ \A i \in 1 .. Len(front) + Len(back) :
               (front \o back)[i] = IF i <= Len(front) THEN front[i] ELSE back[i - Len(front)]
      BY <3>1, <3>2, ConcatProperties
    <3>. HIDE DEF n
    <3>4. r \in Seq(S) /\ Len(r) = n
      <4>1. Len(front) + Len(back) = n
        BY <3>1, <3>2, <3>3 DEF n
      <4>2. front \o back \in Seq(S) /\ Len(front \o back) = n
        BY <3>5, <4>1
      <4>. QED  BY <3>0, <4>2
    <3>6. ASSUME NEW i \in 1 .. n
          PROVE  r[i] = IF i < p THEN s[i] ELSE s[i + 1]
      <4>1. r[i] = IF i <= p - 1 THEN front[i] ELSE back[i - (p - 1)]
        <5>1. i \in 1 .. Len(front) + Len(back)
          BY <3>1, <3>2, <3>3 DEF n
        <5>2. r[i] = IF i <= Len(front) THEN front[i] ELSE back[i - Len(front)]
          BY <3>0, <3>5, <5>1
        <5>. QED  BY <3>1, <5>2
      <4>2. CASE i < p
        <5>1. i \in 1 .. (p - 1) /\ i <= p - 1
          BY <3>3, <4>2
        <5>. QED  BY <3>1, <4>1, <4>2, <5>1
      <4>3. CASE ~(i < p)
        <5>1. i - (p - 1) \in 1 .. (Len(s) - p) /\ (i - (p - 1)) + p = i + 1
          BY <3>3, <4>3 DEF n
        <5>2. ~(i <= p - 1)
          BY <3>3, <4>3
        <5>3. r[i] = back[i - (p - 1)]
          BY <4>1, <5>2, Zenon
        <5>. QED  BY <3>2, <4>3, <5>1, <5>3
      <4>. QED  BY <4>2, <4>3
    <3>. QED  BY <3>3, <3>4, <3>6
  <2>. HIDE DEF r
  <2>9. DOMAIN r = 1 .. n /\ DOMAIN s = 1 .. (n + 1) /\ p \in 1 .. (n + 1)
    BY <2>6, <2>8
  <2>10. Distinct(r)
    <3>. SUFFICES ASSUME NEW i \in 1 .. n, NEW j \in 1 .. n, r[i] = r[j]
                  PROVE  i = j
      BY <2>9 DEF Distinct
    <3>. DEFINE a == IF i < p THEN i ELSE i + 1
                b == IF j < p THEN j ELSE j + 1
    <3>1. a \in DOMAIN s /\ b \in DOMAIN s /\ (a = b => i = j)
      BY <2>8, <2>9
    <3>2. s[a] = s[b]
      BY <2>8
    <3>3. a = b
      BY <3>1, <3>2 DEF Distinct
    <3>. QED  BY <3>1, <3>3
  <2>11. ASSUME NEW x \in Range(r)
         PROVE  x \in Range(s) \ {e}
    <3>1. PICK i \in 1 .. n : x = r[i]
      BY <2>9 DEF Range
    <3>. DEFINE a == IF i < p THEN i ELSE i + 1
    <3>2. a \in DOMAIN s /\ a # p /\ x = s[a] /\ p \in DOMAIN s
      BY <2>8, <2>9, <3>1
    <3>. HIDE DEF a
    <3>3. s[a] # s[p]
      BY <3>2 DEF Distinct
    <3>. QED  BY <2>6, <3>2, <3>3 DEF Range
  <2>12. ASSUME NEW x \in Range(s) \ {e}
         PROVE  x \in Range(r)
    <3>1. PICK a \in 1 .. (n + 1) : x = s[a]
      BY <2>9 DEF Range
    <3>2. a # p
      BY <2>6, <3>1
    <3>. DEFINE i == IF a < p THEN a ELSE a - 1
    <3>3. i \in 1 .. n /\ r[i] = s[a]
      BY <2>8, <2>9, <3>2
    <3>. HIDE DEF i
    <3>. QED  BY <2>9, <3>1, <3>3 DEF Range
  <2>. QED  BY <2>7, <2>8, <2>10, <2>11, <2>12
<1>. QED  BY <1>1, <1>2
=============================================================================
