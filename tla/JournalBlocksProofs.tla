------------------------- MODULE JournalBlocksProofs -------------------------
(***************************************************************************)
(* Facts about the operators of JournalBlocks: block counts, positions in  *)
(* the ring, what a write of the journal changes, what a range of blocks   *)
(* says, and what entries weigh.                                           *)
(*                                                                         *)
(* ParsedEntries and WeightJournalEntries are folds.  What they compute is *)
(* proved by induction over a set of numbers (Induction), which follows    *)
(* from the well-foundedness of < on Nat.                                  *)
(***************************************************************************)
EXTENDS JournalBlocks, IterationProofs, SequenceTheorems

-----------------------------------------------------------------------------
\* Block counts

\* A number of blocks is a natural number.
LEMMA BlocksForType ==
  ASSUME NEW w \in Nat
  PROVE  BlocksFor(w) \in Nat
  BY WeightAssumption DEF BlocksFor

\* Nothing to write takes no block.
LEMMA BlocksForZero == BlocksFor(0) = 0
  BY WeightAssumption DEF BlocksFor

\* Bytes for which k blocks have room take at most k blocks.
LEMMA BlocksForFits ==
  ASSUME NEW w \in Nat, NEW k \in Nat, w <= BlockCapacity * k
  PROVE  BlocksFor(w) <= k
<1>. DEFINE q == (w + BlockCapacity - 1) \div BlockCapacity
<1>1. q \in Nat /\ BlockCapacity * q <= w + BlockCapacity - 1
  BY WeightAssumption
<1>2. CASE q >= k + 1
  <2>1. BlockCapacity * q >= BlockCapacity * (k + 1)
    BY <1>1, <1>2, WeightAssumption
  <2>2. BlockCapacity * (k + 1) = BlockCapacity * k + BlockCapacity
    BY WeightAssumption
  <2>. QED  BY <1>1, <2>1, <2>2, WeightAssumption
<1>. QED  BY <1>1, <1>2 DEF BlocksFor

\* The blocks for a number of bytes have room for them.
LEMMA BlocksForCovers ==
  ASSUME NEW w \in Nat
  PROVE  w <= BlockCapacity * BlocksFor(w)
  BY WeightAssumption DEF BlocksFor

-----------------------------------------------------------------------------
\* Positions and intervals of the ring

\* A position advanced by at most the whole ring is a position.
LEMMA PosAddType ==
  ASSUME NEW p \in Pos, NEW n \in 0 .. NumJournalBlocks
  PROVE  JournalPosAdd(p, n) \in Pos
  BY NumJournalBlocksAssumption DEF JournalPosAdd, Pos

\* The two parts of an interval that wraps around are intervals of the ring.
LEMMA WrappedPartsType ==
  ASSUME NEW start \in Pos, NEW n \in 0 .. NumJournalBlocks,
         start + n > NumJournalBlocks
  PROVE  /\ FrontInterval([start |-> start, len |-> n]) \in JournalInterval
         /\ BackInterval([start |-> start, len |-> n]) \in JournalInterval
  BY NumJournalBlocksAssumption DEF FrontInterval, BackInterval, JournalInterval, Pos

\* They name no block that the interval does not name.
LEMMA WrappedPartsInside ==
  ASSUME NEW i \in Pos, NEW start \in Pos, NEW n \in 0 .. NumJournalBlocks,
         start + n > NumJournalBlocks,
         \/ InCyclicRange(i, FrontInterval([start |-> start, len |-> n]))
         \/ InCyclicRange(i, BackInterval([start |-> start, len |-> n]))
  PROVE  InCyclicRange(i, [start |-> start, len |-> n])
  BY NumJournalBlocksAssumption DEF FrontInterval, BackInterval, InCyclicRange, Pos

\* What is appended after w blocks in use is outside the first len of them.
LEMMA AppendedOutside ==
  ASSUME NEW i \in Pos, NEW p \in Pos, NEW w \in 0 .. NumJournalBlocks,
         NEW len \in 0 .. w, NEW n \in Nat, w + n <= NumJournalBlocks,
         InCyclicRange(i, [start |-> JournalPosAdd(p, w), len |-> n])
  PROVE  ~InCyclicRange(i, [start |-> p, len |-> len])
  BY NumJournalBlocksAssumption DEF InCyclicRange, JournalPosAdd, Pos

-----------------------------------------------------------------------------
\* Writing to the ring

\* Entries are encoded in as many blocks as asked for.
LEMMA MarshallType ==
  ASSUME NEW entries \in Seq(Entry), NEW n \in 0 .. NumJournalBlocks
  PROVE  /\ MarshallJournalEntries(entries, n) \in Seq(Block)
         /\ Len(MarshallJournalEntries(entries, n)) = n
<1>1. MarshallJournalEntries(entries, n) \in [1 .. n -> Block]
  BY NumJournalBlocksAssumption DEF MarshallJournalEntries, Block
<1>. QED  BY <1>1, NumJournalBlocksAssumption

\* A write leaves a ring of blocks.
LEMMA SpliceType ==
  ASSUME NEW journal \in [Pos -> Block \cup {None}], NEW start \in Pos,
         NEW range \in Seq(Block)
  PROVE  CyclicSplice(journal, start, range) \in [Pos -> Block \cup {None}]
  BY NumJournalBlocksAssumption DEF CyclicSplice, Pos

\* A write leaves every block outside its interval alone.
LEMMA SpliceOutside ==
  ASSUME NEW journal, NEW start, NEW range, NEW i \in Pos,
         ~InCyclicRange(i, [start |-> start, len |-> Len(range)])
  PROVE  CyclicSplice(journal, start, range)[i] = journal[i]
  BY DEF CyclicSplice, InCyclicRange

-----------------------------------------------------------------------------
\* Flattening

Joining(S, seqs) == [p \in Seq(S) \X (1 .. Len(seqs)) |-> p[1] \o seqs[p[2]]]

\* A step of a concatenation gives a sequence.
LEMMA JoiningType ==
  ASSUME NEW S, NEW seqs \in Seq(Seq(S))
  PROVE  Joining(S, seqs) \in [Seq(S) \X (1 .. Len(seqs)) -> Seq(S)]
  BY DEF Joining

\* f joins a sequence of sequences from the left, one at a time.
Flattens(f, seqs) ==
  /\ f[0] = <<>>
  /\ \A i \in 1 .. Len(seqs) : f[i] = f[i - 1] \o seqs[i]

\* FlattenSeq goes through a sequence of sequences from the left.
LEMMA FlattenIterates ==
  ASSUME NEW S, NEW seqs \in Seq(Seq(S)), NEW g \in [0 .. Len(seqs) -> Seq(S)],
         Flattens(g, seqs)
  PROVE  FlattenSeq(seqs) = g[Len(seqs)]
<1>. DEFINE n == Len(seqs)
<1>0. n \in Nat /\ \A i \in 1 .. n : seqs[i] \in Seq(S)
  OBVIOUS
<1>1. \A i \in 1 .. n : g[i] = g[i - 1] \o seqs[i]
  BY Zenon DEF Flattens
<1>2. g[0] = <<>>
  BY Zenon DEF Flattens
<1>3. CASE n = 0
  BY <1>2, <1>3 DEF FlattenSeq
<1>4. CASE n # 0
  <2>. DEFINE rec(f) == [i \in 1 .. n |-> IF i = 1 THEN seqs[i] ELSE f[i - 1] \o seqs[i]]
              chosen == CHOOSE f : f = rec(f)
              h == [i \in 1 .. n |-> g[i]]
  <2>1. FlattenSeq(seqs) = chosen[n]
    BY <1>4 DEF FlattenSeq
  <2>2. h = rec(h)
    <3>. SUFFICES ASSUME NEW i \in 1 .. n
                  PROVE  g[i] = IF i = 1 THEN seqs[i] ELSE h[i - 1] \o seqs[i]
      OBVIOUS
    <3>1. CASE i = 1
      <4>1. i - 1 = 0
        BY <3>1
      <4>2. g[i] = <<>> \o seqs[i]
        BY <1>1, <1>2, <4>1, Zenon
      <4>3. seqs[i] \in Seq(S)
        BY <1>0
      <4>. QED  BY <3>1, <4>2, <4>3, ConcatEmptySeq
    <3>2. CASE i # 1
      <4>1. h[i - 1] = g[i - 1]
        BY <3>2
      <4>. QED  BY <1>1, <3>2, <4>1
    <3>. QED  BY <3>1, <3>2
  <2>. HIDE DEF h
  <2>3. chosen = rec(chosen)
    BY <2>2
  <2>. HIDE DEF chosen
  <2>. DEFINE T == {k \in 0 .. n : k = 0 \/ chosen[k] = g[k]}
  <2>4. 0 \in T
    BY <1>0
  <2>5. ASSUME NEW k \in 0 .. (n - 1), k \in T
        PROVE  k + 1 \in T
    <3>1. k + 1 \in 1 .. n /\ (k + 1) - 1 = k
      BY <1>0
    <3>2. g[k + 1] = g[k] \o seqs[k + 1]
      BY <1>1, <3>1
    <3>3. chosen[k + 1] = IF k + 1 = 1 THEN seqs[k + 1] ELSE chosen[k] \o seqs[k + 1]
      BY <2>3, <3>1
    <3>4. CASE k = 0
      <4>1. g[k + 1] = <<>> \o seqs[k + 1]
        BY <1>2, <3>2, <3>4
      <4>2. seqs[k + 1] \in Seq(S)
        BY <1>0, <3>1
      <4>3. g[k + 1] = seqs[k + 1]
        BY <4>1, <4>2, ConcatEmptySeq
      <4>4. chosen[k + 1] = seqs[k + 1]
        BY <3>3, <3>4
      <4>. QED  BY <3>1, <4>3, <4>4
    <3>5. CASE k # 0
      <4>1. chosen[k] = g[k] /\ k + 1 # 1
        BY <2>5, <3>5
      <4>2. chosen[k + 1] = g[k + 1]
        BY <3>2, <3>3, <4>1, Zenon
      <4>. QED  BY <3>1, <4>2
    <3>. QED  BY <3>4, <3>5
  <2>. HIDE DEF T
  <2>6. \A k \in 0 .. n : k \in T
    BY <1>0, <2>4, <2>5, Induction
  <2>7. n \in T
    BY <1>0, <2>6
  <2>. QED  BY <1>4, <2>1, <2>7 DEF T
<1>. QED  BY <1>3, <1>4

\* The intermediate results of FlattenSeq.
LEMMA FlattenExists ==
  ASSUME NEW S, NEW seqs \in Seq(Seq(S))
  PROVE  \E g \in [0 .. Len(seqs) -> Seq(S)] :
           Flattens(g, seqs) /\ FlattenSeq(seqs) = g[Len(seqs)]
<1>. DEFINE n == Len(seqs)
<1>1. <<>> \in Seq(S) /\ n \in Nat
  OBVIOUS
<1>2. PICK g \in [0 .. n -> Seq(S)] : Iterates(g, <<>>, Joining(S, seqs), n)
  BY <1>1, JoiningType, IterationExists
<1>. HIDE DEF n
<1>3. ASSUME NEW i \in 1 .. n
      PROVE  g[i] = g[i - 1] \o seqs[i]
  <2>1. i - 1 \in 0 .. n
    BY <1>1
  <2>2. g[i - 1] \in Seq(S)
    BY <2>1, Zenon
  <2>3. Joining(S, seqs)[<<g[i - 1], i>>] = g[i - 1] \o seqs[i]
    <3>. DEFINE p == <<g[i - 1], i>>
    <3>1. p \in Seq(S) \X (1 .. n) /\ p[1] = g[i - 1] /\ p[2] = i
      BY <2>2
    <3>. HIDE DEF p
    <3>2. Joining(S, seqs)[p] = p[1] \o seqs[p[2]]
      BY <3>1, Zenon DEF Joining, n
    <3>. QED  BY <3>1, <3>2, Zenon DEF p
  <2>. QED  BY <1>2, <2>3, Zenon DEF Iterates
<1>4. Flattens(g, seqs)
  BY <1>2, <1>3, Zenon DEF Flattens, Iterates, n
<1>. QED  BY <1>4, FlattenIterates DEF n

\* Concatenation is associative.
LEMMA ConcatAssoc ==
  ASSUME NEW S, NEW x \in Seq(S), NEW y \in Seq(S), NEW z \in Seq(S)
  PROVE  x \o (y \o z) = (x \o y) \o z
<1>1. (x \o y) \o z = x \o (y \o z)
  BY ConcatAssociative, SMT
<1>. QED  BY <1>1, Zenon

\* Flattening sequences over S gives one.
LEMMA FlattenType ==
  ASSUME NEW S, NEW seqs \in Seq(Seq(S))
  PROVE  FlattenSeq(seqs) \in Seq(S)
<1>1. PICK g \in [0 .. Len(seqs) -> Seq(S)] : FlattenSeq(seqs) = g[Len(seqs)]
  BY FlattenExists
<1>2. Len(seqs) \in 0 .. Len(seqs)
  OBVIOUS
<1>. QED  BY <1>1, <1>2

\* Flattening distributes over concatenation.
LEMMA FlattenConcat ==
  ASSUME NEW S, NEW s \in Seq(Seq(S)), NEW t \in Seq(Seq(S))
  PROVE  FlattenSeq(s \o t) = FlattenSeq(s) \o FlattenSeq(t)
<1>. DEFINE m == Len(s)
            n == Len(t)
            both == s \o t
<1>1. /\ both \in Seq(Seq(S)) /\ Len(both) = m + n /\ m \in Nat /\ n \in Nat
      /\ \A i \in 1 .. (m + n) : both[i] = IF i <= m THEN s[i] ELSE t[i - m]
      /\ \A i \in 1 .. m : s[i] \in Seq(S)
      /\ \A i \in 1 .. n : t[i] \in Seq(S)
  BY ConcatProperties
<1>0. \A x, y, z \in Seq(S) : x \o (y \o z) = (x \o y) \o z
  BY ConcatAssoc, SMTT(30)
<1>2. PICK f \in [0 .. m -> Seq(S)] :
        /\ f[0] = <<>> /\ \A i \in 1 .. m : f[i] = f[i - 1] \o s[i]
        /\ FlattenSeq(s) = f[m]
  BY FlattenExists, Zenon DEF Flattens
<1>3. PICK g \in [0 .. n -> Seq(S)] :
        /\ g[0] = <<>> /\ \A i \in 1 .. n : g[i] = g[i - 1] \o t[i]
        /\ FlattenSeq(t) = g[n]
  BY FlattenExists, Zenon DEF Flattens
<1>. HIDE DEF both, m, n
<1>. DEFINE h == [i \in 0 .. (m + n) |-> IF i <= m THEN f[i] ELSE f[m] \o g[i - m]]
<1>4. /\ DOMAIN h = 0 .. (m + n)
      /\ \A i \in 0 .. m : h[i] = f[i]
      /\ \A i \in (m + 1) .. (m + n) : h[i] = f[m] \o g[i - m]
  <2>1. \A i \in 0 .. m : i \in 0 .. (m + n) /\ i <= m
    BY <1>1
  <2>2. \A i \in (m + 1) .. (m + n) : i \in 0 .. (m + n) /\ ~(i <= m)
    BY <1>1
  <2>. QED  BY <2>1, <2>2, Zenon
<1>. HIDE DEF h
<1>5. \A i \in 0 .. (m + n) : h[i] \in Seq(S)
  <2>. TAKE i \in 0 .. (m + n)
  <2>1. CASE i <= m
    <3>1. i \in 0 .. m
      BY <1>1, <2>1
    <3>. QED  BY <1>4, <3>1, Zenon
  <2>2. CASE ~(i <= m)
    <3>1. i \in (m + 1) .. (m + n) /\ m \in 0 .. m /\ i - m \in 0 .. n
      BY <1>1, <2>2
    <3>2. f[m] \in Seq(S) /\ g[i - m] \in Seq(S)
      BY <3>1, Zenon
    <3>3. f[m] \o g[i - m] \in Seq(S)
      BY <3>2, ConcatProperties, Zenon
    <3>. QED  BY <1>4, <3>1, <3>3, Zenon
  <2>. QED  BY <1>1, <2>1, <2>2
<1>6. ASSUME NEW i \in 1 .. (m + n)
      PROVE  h[i] = h[i - 1] \o both[i]
  <2>1. CASE i <= m
    <3>6. i \in 0 .. m /\ i \in 1 .. m /\ i - 1 \in 0 .. m
      BY <1>1, <2>1
    <3>1. i \in 1 .. m /\ h[i] = f[i] /\ h[i - 1] = f[i - 1]
      BY <1>4, <3>6, Zenon
    <3>2. f[i] = f[i - 1] \o s[i]
      BY <1>2, <3>1, Zenon
    <3>3. both[i] = s[i]
      BY <1>1, <2>1
    <3>. QED  BY <3>1, <3>2, <3>3, Zenon
  <2>2. CASE ~(i <= m)
    <3>1. PICK j \in 1 .. n : j = i - m
      BY <1>1, <2>2
    <3>2. j - 1 \in 0 .. n /\ m \in 0 .. m
      <4>1. m \in Nat /\ n \in Nat
        BY <1>1
      <4>. QED  BY <4>1
    <3>3. g[j - 1] \in Seq(S) /\ f[m] \in Seq(S)
      <4>1. \A k \in 0 .. n : g[k] \in Seq(S)
        OBVIOUS
      <4>2. \A k \in 0 .. m : f[k] \in Seq(S)
        OBVIOUS
      <4>. QED  BY <3>2, <4>1, <4>2, Zenon
    <3>4. t[j] \in Seq(S)
      BY <1>1, Zenon
    <3>5. g[j] = g[j - 1] \o t[j]
      BY <1>3, Zenon
    <3>6. f[m] \o (g[j - 1] \o t[j]) = (f[m] \o g[j - 1]) \o t[j]
      BY <1>0, <3>3, <3>4, Zenon
    <3>7. i \in (m + 1) .. (m + n) /\ both[i] = t[j]
      <4>1. i \in (m + 1) .. (m + n) /\ ~(i <= m)
        BY <1>1, <2>2
      <4>2. both[i] = t[i - m]
        BY <1>1, <4>1, Zenon
      <4>. QED  BY <3>1, <4>1, <4>2, Zenon
    <3>8. h[i] = f[m] \o g[j]
      BY <1>4, <3>1, <3>7, Zenon
    <3>9. h[i - 1] = f[m] \o g[j - 1]
      <4>1. CASE j = 1
        <5>1. i - 1 = m /\ m \in 0 .. m /\ j - 1 = 0
          BY <1>1, <3>1, <4>1
        <5>2. h[i - 1] = f[m] /\ g[j - 1] = <<>>
          BY <1>3, <1>4, <5>1, Zenon
        <5>3. f[m] \o <<>> = f[m]
          BY <3>3, ConcatEmptySeq, Zenon
        <5>. QED  BY <5>2, <5>3, Zenon
      <4>2. CASE j # 1
        <5>1. i - 1 \in (m + 1) .. (m + n) /\ (i - 1) - m = j - 1
          BY <1>1, <3>1, <4>2
        <5>. QED  BY <1>4, <5>1, Zenon
      <4>. QED  BY <4>1, <4>2
    <3>. QED  BY <3>5, <3>6, <3>7, <3>8, <3>9, Zenon
  <2>. QED  BY <1>1, <2>1, <2>2
<1>7. Flattens(h, both)
  <2>1. h[0] = <<>>
    <3>1. 0 \in 0 .. m /\ f[0] = <<>>
      BY <1>1, <1>2
    <3>. QED  BY <1>4, <3>1, Zenon
  <2>. QED  BY <1>1, <1>6, <2>1, Zenon DEF Flattens
<1>8. FlattenSeq(both) = h[m + n]
  <2>1. h \in [0 .. (m + n) -> Seq(S)]
    BY <1>4, <1>5 DEF h
  <2>. QED  BY <1>1, <1>7, <2>1, FlattenIterates
<1>9. h[m + n] = f[m] \o g[n]
  <2>1. CASE n = 0
    <3>1. m + n = m /\ m \in 0 .. m
      BY <1>1, <2>1
    <3>2. h[m + n] = f[m] /\ g[n] = <<>> /\ f[m] \in Seq(S)
      BY <1>3, <1>4, <2>1, <3>1, Zenon
    <3>3. f[m] \o <<>> = f[m]
      BY <3>2, ConcatEmptySeq, Zenon
    <3>. QED  BY <3>2, <3>3, Zenon
  <2>2. CASE n # 0
    <3>1. m + n \in (m + 1) .. (m + n) /\ (m + n) - m = n
      BY <1>1, <2>2
    <3>. QED  BY <1>4, <3>1, Zenon
  <2>. QED  BY <2>1, <2>2
<1>. QED  BY <1>2, <1>3, <1>8, <1>9 DEF both

\* Sequences of which all but the first are empty.
LEMMA FlattenFirst ==
  ASSUME NEW S, NEW s \in Seq(S), NEW n \in Nat \ {0}
  PROVE  FlattenSeq([k \in 1 .. n |-> IF k = 1 THEN s ELSE <<>>]) = s
<1>. DEFINE seqs == [k \in 1 .. n |-> IF k = 1 THEN s ELSE <<>>]
            g == [i \in 0 .. n |-> IF i = 0 THEN <<>> ELSE s]
<1>1. <<>> \in Seq(S)
  OBVIOUS
<1>2. seqs \in [1 .. n -> Seq(S)]
  BY <1>1
<1>3. seqs \in Seq(Seq(S)) /\ Len(seqs) = n
  BY <1>2
<1>4. g \in [0 .. n -> Seq(S)] /\ g[0] = <<>>
  BY <1>1
<1>5. ASSUME NEW i \in 1 .. n
      PROVE  g[i] = g[i - 1] \o seqs[i]
  <2>1. CASE i = 1
    <3>1. g[i - 1] = <<>> /\ seqs[i] = s /\ g[i] = s
      BY <2>1
    <3>2. <<>> \o s = s
      BY ConcatEmptySeq
    <3>. QED  BY <3>1, <3>2, Zenon
  <2>2. CASE i # 1
    <3>1. g[i - 1] = s /\ seqs[i] = <<>> /\ g[i] = s
      BY <2>2
    <3>2. s \o <<>> = s
      BY ConcatEmptySeq
    <3>. QED  BY <3>1, <3>2, Zenon
  <2>. QED  BY <2>1, <2>2
<1>. HIDE DEF seqs, g
<1>6. Flattens(g, seqs)
  BY <1>3, <1>4, <1>5, Zenon DEF Flattens
<1>7. FlattenSeq(seqs) = g[n]
  BY <1>3, <1>4, <1>6, FlattenIterates
<1>8. g[n] = s
  BY DEF g
<1>. QED  BY <1>7, <1>8 DEF seqs

-----------------------------------------------------------------------------
\* The entries of a journal

EntriesOf(block) == IF block.index = 0 THEN block.entries ELSE <<>>

\* What a journal says, block by block.
LEMMA ParsedIsFlattened ==
  ASSUME NEW range \in Seq(Block)
  PROVE  /\ [k \in DOMAIN range |-> EntriesOf(range[k])] \in Seq(Seq(Entry))
         /\ ParsedEntries(range) = FlattenSeq([k \in DOMAIN range |-> EntriesOf(range[k])])
<1>1. \A k \in 1 .. Len(range) : EntriesOf(range[k]) \in Seq(Entry)
  <2>1. <<>> \in Seq(Entry)
    OBVIOUS
  <2>2. \A block \in Block : block.entries \in Seq(Entry)
    BY DEF Block
  <2>3. \A k \in 1 .. Len(range) : range[k] \in Block
    OBVIOUS
  <2>. QED  BY <2>1, <2>2, <2>3 DEF EntriesOf
<1>2. [k \in 1 .. Len(range) |-> EntriesOf(range[k])] \in [1 .. Len(range) -> Seq(Entry)]
  BY <1>1
<1>3. DOMAIN range = 1 .. Len(range) /\ Len(range) \in Nat
  OBVIOUS
<1>4. [k \in DOMAIN range |-> EntriesOf(range[k])] \in Seq(Seq(Entry))
  BY <1>2, <1>3
<1>. QED  BY <1>4 DEF ParsedEntries, EntriesOf

\* A journal says entries.
LEMMA ParsedType ==
  ASSUME NEW range \in Seq(Block)
  PROVE  ParsedEntries(range) \in Seq(Entry)
  BY ParsedIsFlattened, FlattenType

\* An empty journal says nothing.
LEMMA ParsedEmpty == ParsedEntries(<<>>) = <<>>
<1>1. <<>> \in Seq(Block) /\ DOMAIN <<>> = {}
  OBVIOUS
<1>2. [k \in {} |-> EntriesOf(<<>>[k])] = <<>>
  OBVIOUS
<1>3. FlattenSeq(<<>>) = <<>>
  BY DEF FlattenSeq
<1>. QED  BY <1>1, <1>2, <1>3, ParsedIsFlattened

\* Two journals one after the other say what both say.
LEMMA ParsedConcat ==
  ASSUME NEW r1 \in Seq(Block), NEW r2 \in Seq(Block)
  PROVE  ParsedEntries(r1 \o r2) = ParsedEntries(r1) \o ParsedEntries(r2)
<1>. DEFINE of(range) == [k \in DOMAIN range |-> EntriesOf(range[k])]
            m == Len(r1)
            n == Len(r2)
<1>1. /\ r1 \o r2 \in Seq(Block) /\ DOMAIN (r1 \o r2) = 1 .. (m + n)
      /\ DOMAIN r1 = 1 .. m /\ DOMAIN r2 = 1 .. n /\ m \in Nat /\ n \in Nat
      /\ \A k \in 1 .. (m + n) : (r1 \o r2)[k] = IF k <= m THEN r1[k] ELSE r2[k - m]
  BY ConcatProperties
<1>2. /\ of(r1) \in Seq(Seq(Entry)) /\ of(r2) \in Seq(Seq(Entry))
      /\ of(r1 \o r2) \in Seq(Seq(Entry))
  BY <1>1, ParsedIsFlattened
<1>3. of(r1 \o r2) = of(r1) \o of(r2)
  <2>1. Len(of(r1)) = m /\ Len(of(r2)) = n
    BY <1>1, <1>2
  <2>2. /\ of(r1) \o of(r2) \in Seq(Seq(Entry)) /\ Len(of(r1) \o of(r2)) = m + n
        /\ \A k \in 1 .. (m + n) :
             (of(r1) \o of(r2))[k] = IF k <= m THEN of(r1)[k] ELSE of(r2)[k - m]
    <3>1. PICK s, t \in Seq(Seq(Entry)) : s = of(r1) /\ t = of(r2)
      BY <1>2
    <3>2. Len(s) = m /\ Len(t) = n
      BY <2>1, <3>1
    <3>. HIDE DEF m, n, of
    <3>3. /\ s \o t \in Seq(Seq(Entry)) /\ Len(s \o t) = m + n
          /\ \A k \in 1 .. (m + n) : (s \o t)[k] = IF k <= m THEN s[k] ELSE t[k - m]
      BY <3>2, ConcatProperties
    <3>. QED  BY <3>1, <3>3
  <2>3. Len(of(r1 \o r2)) = m + n
    BY <1>1, <1>2
  <2>4. \A k \in 1 .. (m + n) : of(r1 \o r2)[k] = (of(r1) \o of(r2))[k]
    <3>. TAKE k \in 1 .. (m + n)
    <3>1. of(r1 \o r2)[k] = EntriesOf((r1 \o r2)[k])
      BY <1>1
    <3>2. CASE k <= m
      <4>1. k \in 1 .. m
        BY <1>1, <3>2
      <4>. QED  BY <1>1, <2>2, <3>1, <3>2, <4>1, Zenon
    <3>3. CASE ~(k <= m)
      <4>1. k - m \in 1 .. n
        BY <1>1, <3>3
      <4>. QED  BY <1>1, <2>2, <3>1, <3>3, <4>1, Zenon
    <3>. QED  BY <3>2, <3>3
  <2>. HIDE DEF of
  <2>. QED  BY <1>2, <2>2, <2>3, <2>4, SeqEqual
<1>. HIDE DEF of
<1>4. FlattenSeq(of(r1 \o r2)) = FlattenSeq(of(r1)) \o FlattenSeq(of(r2))
  BY <1>2, <1>3, FlattenConcat
<1>. QED  BY <1>1, <1>4, ParsedIsFlattened DEF of

\* A chunk says the entries it was made of.
LEMMA ParsedChunk ==
  ASSUME NEW entries \in Seq(Entry), NEW n \in 1 .. NumJournalBlocks
  PROVE  ParsedEntries(MarshallJournalEntries(entries, n)) = entries
<1>. DEFINE chunk == MarshallJournalEntries(entries, n)
<1>1. chunk \in Seq(Block) /\ DOMAIN chunk = 1 .. n /\ n \in Nat \ {0}
  BY MarshallType, NumJournalBlocksAssumption
<1>2. [k \in DOMAIN chunk |-> EntriesOf(chunk[k])] =
        [k \in 1 .. n |-> IF k = 1 THEN entries ELSE <<>>]
  <2>1. \A k \in 1 .. n : EntriesOf(chunk[k]) = IF k = 1 THEN entries ELSE <<>>
    BY DEF EntriesOf, MarshallJournalEntries
  <2>. QED  BY <1>1, <2>1
<1>3. ParsedEntries(chunk) = FlattenSeq([k \in DOMAIN chunk |-> EntriesOf(chunk[k])])
  BY <1>1, ParsedIsFlattened
<1>4. FlattenSeq([k \in 1 .. n |-> IF k = 1 THEN entries ELSE <<>>]) = entries
  BY <1>1, FlattenFirst
<1>. QED  BY <1>2, <1>3, <1>4

-----------------------------------------------------------------------------
\* Whole chunks

\* An empty journal parses.
LEMMA ParsesEmpty == Parses(<<>>)
  BY DEF Parses

\* A chunk parses.
LEMMA ParsesChunk ==
  ASSUME NEW entries \in Seq(Entry), NEW n \in 0 .. NumJournalBlocks
  PROVE  Parses(MarshallJournalEntries(entries, n))
<1>. DEFINE chunk == MarshallJournalEntries(entries, n)
<1>1. /\ Len(chunk) = n /\ n \in Nat /\ DOMAIN chunk = 1 .. n
      /\ \A k \in 1 .. n : chunk[k] = [entries |-> entries, index |-> k - 1, nblocks |-> n]
  BY MarshallType, NumJournalBlocksAssumption DEF MarshallJournalEntries
<1>. HIDE DEF chunk
<1>2. ASSUME NEW k \in 1 .. n
      PROVE  /\ chunk[k].index < k
             /\ k - chunk[k].index + chunk[k].nblocks - 1 <= Len(chunk)
             /\ \A m \in 0 .. (chunk[k].nblocks - 1) :
                  chunk[k - chunk[k].index + m] = [chunk[k] EXCEPT !.index = m]
  <2>1. chunk[k].index = k - 1 /\ chunk[k].nblocks = n
    BY <1>1
  <2>2. \A m \in 0 .. (n - 1) : chunk[1 + m] = [chunk[k] EXCEPT !.index = m]
    BY <1>1
  <2>3. k - (k - 1) = 1
    OBVIOUS
  <2>. QED  BY <1>1, <2>1, <2>2, <2>3
<1>. QED  BY <1>1, <1>2 DEF Parses, chunk

\* A chunk that ends by position n of a range ends by m + n after m blocks.
LEMMA ShiftedChunk ==
  ASSUME NEW m \in Nat, NEW n \in Nat, NEW l \in Int, NEW index \in Nat,
         NEW c \in Nat \ {0}, index < l, l - index + c - 1 <= n
  PROVE  /\ index < m + l /\ (m + l) - index + c - 1 <= m + n
         /\ \A j \in 0 .. (c - 1) :
              l - index + j \in 1 .. n /\ (m + l) - index + j = m + (l - index + j)
  OBVIOUS

\* Two journals that parse, one after the other, parse.
LEMMA ParsesConcat ==
  ASSUME NEW r1 \in Seq(Block), NEW r2 \in Seq(Block), Parses(r1), Parses(r2)
  PROVE  Parses(r1 \o r2)
<1>. DEFINE m == Len(r1)
            n == Len(r2)
            both == r1 \o r2
<1>1. /\ both \in Seq(Block) /\ DOMAIN both = 1 .. (m + n) /\ Len(both) = m + n
      /\ DOMAIN r1 = 1 .. m /\ DOMAIN r2 = 1 .. n /\ m \in Nat /\ n \in Nat
      /\ \A k \in 1 .. (m + n) : both[k] = IF k <= m THEN r1[k] ELSE r2[k - m]
      /\ \A k \in 1 .. m : r1[k] \in Block
      /\ \A k \in 1 .. n : r2[k] \in Block
  BY ConcatProperties
<1>. HIDE DEF both, m, n
<1>6. m \in Nat /\ n \in Nat
  BY <1>1
<1>2. \A k \in 1 .. m : both[k] = r1[k]
  BY <1>1
<1>3. \A k \in 1 .. n : both[m + k] = r2[k]
  BY <1>1
<1>. SUFFICES ASSUME NEW k \in 1 .. (m + n)
              PROVE  /\ both[k].index < k
                     /\ k - both[k].index + both[k].nblocks - 1 <= m + n
                     /\ \A j \in 0 .. (both[k].nblocks - 1) :
                          both[k - both[k].index + j] = [both[k] EXCEPT !.index = j]
  BY <1>1 DEF Parses, both
<1>4. CASE k <= m
  <2>1. k \in 1 .. m
    BY <1>1, <1>4
  <2>. DEFINE b == r1[k]
  <2>2. both[k] = b /\ b \in Block
    BY <1>1, <1>2, <2>1
  <2>3. /\ b.index < k /\ k - b.index + b.nblocks - 1 <= m
        /\ \A j \in 0 .. (b.nblocks - 1) : r1[k - b.index + j] = [b EXCEPT !.index = j]
    BY <1>1, <2>1 DEF Parses
  <2>4. b.index \in Nat /\ b.nblocks \in Nat \ {0}
    BY <2>2, NumJournalBlocksAssumption DEF Block
  <2>. HIDE DEF b
  <2>5. \A j \in 0 .. (b.nblocks - 1) : k - b.index + j \in 1 .. m
    <3>1. b.index < k /\ k - b.index + b.nblocks - 1 <= m
      BY <2>3, Zenon
    <3>. QED  BY <1>6, <2>1, <2>4, <3>1, SMTT(30)
  <2>6. \A j \in 0 .. (b.nblocks - 1) : both[k - b.index + j] = [b EXCEPT !.index = j]
    BY <1>2, <2>3, <2>5, Zenon
  <2>7. k - b.index + b.nblocks - 1 <= m + n
    BY <1>1, <2>1, <2>3, <2>4
  <2>. QED  BY <2>2, <2>3, <2>6, <2>7, Zenon
<1>5. CASE ~(k <= m)
  <2>1. PICK l \in 1 .. n : k = m + l
    <3>1. k - m \in 1 .. n /\ k = m + (k - m)
      BY <1>1, <1>5
    <3>. QED  BY <3>1
  <2>. DEFINE b == r2[l]
  <2>2. both[k] = b /\ b \in Block
    BY <1>1, <1>3, <2>1
  <2>3. /\ b.index < l /\ l - b.index + b.nblocks - 1 <= n
        /\ \A j \in 0 .. (b.nblocks - 1) : r2[l - b.index + j] = [b EXCEPT !.index = j]
    BY <1>1, <2>1 DEF Parses
  <2>4. b.index \in Nat /\ b.nblocks \in Nat \ {0}
    BY <2>2, NumJournalBlocksAssumption DEF Block
  <2>8. b.index < l /\ l - b.index + b.nblocks - 1 <= n /\ l \in Int /\ k = m + l
    BY <2>1, <2>3
  <2>. HIDE DEF b
  <2>5. /\ b.index < k /\ k - b.index + b.nblocks - 1 <= m + n
        /\ \A j \in 0 .. (b.nblocks - 1) :
             l - b.index + j \in 1 .. n /\ k - b.index + j = m + (l - b.index + j)
    <3>1. PICK index \in Nat, c \in Nat \ {0} : index = b.index /\ c = b.nblocks
      BY <2>4
    <3>2. index < l /\ l - index + c - 1 <= n
      BY <2>8, <3>1
    <3>3. /\ index < m + l /\ (m + l) - index + c - 1 <= m + n
          /\ \A j \in 0 .. (c - 1) :
               l - index + j \in 1 .. n /\ (m + l) - index + j = m + (l - index + j)
      BY <1>6, <2>8, <3>2, ShiftedChunk
    <3>. QED  BY <2>8, <3>1, <3>3, Zenon
  <2>6. \A j \in 0 .. (b.nblocks - 1) : both[k - b.index + j] = [b EXCEPT !.index = j]
    BY <1>3, <2>3, <2>5, Zenon
  <2>. QED  BY <2>2, <2>5, <2>6, Zenon
<1>. QED  BY <1>4, <1>5

-----------------------------------------------------------------------------
\* Weights

\* Max of a set that holds its bound.
LEMMA LargestIs ==
  ASSUME NEW n \in Nat, NEW T \in SUBSET (1 .. n), n \in T
  PROVE  Max(T) = n
<1>. DEFINE x == Max(T)
<1>1. x \in T /\ n <= x
  BY LargestNumber
<1>. HIDE DEF x
<1>2. x = n
  BY <1>1
<1>. QED  BY <1>2 DEF x

Adding(entries) ==
  [p \in Nat \X (1 .. Len(entries)) |-> p[1] + EntryWeight[entries[p[2]]]]

\* A step of the sum of the weights gives a number.
LEMMA AddingType ==
  ASSUME NEW entries \in Seq(Entry)
  PROVE  /\ Adding(entries) \in [Nat \X (1 .. Len(entries)) -> Nat]
         /\ HeaderWeight \in Nat
<1>1. \A i \in 1 .. Len(entries) : EntryWeight[entries[i]] \in Nat
  BY WeightAssumption
<1>. QED  BY <1>1, WeightAssumption DEF Adding

\* WeightJournalEntries adds the weights up from the left, after the header.
LEMMA WeightIterates ==
  ASSUME NEW s \in Seq(Entry), s # <<>>, NEW g \in [0 .. Len(s) -> Nat],
         Iterates(g, HeaderWeight, Adding(s), Len(s))
  PROVE  WeightJournalEntries(s) = g[Len(s)]
<1>. DEFINE n == Len(s)
            rec(f, k) ==
              [t \in SUBSET (1 .. k) |->
                 IF t = {} THEN HeaderWeight
                 ELSE f[t \ {Max(t)}] + EntryWeight[s[Max(t)]]]
            chosen == CHOOSE f : f = rec(f, n)
            T == {k \in 0 .. n : \E f : f = rec(f, k)}
<1>1. n \in Nat /\ DOMAIN s = 1 .. n
  OBVIOUS
<1>2. WeightJournalEntries(s) = chosen[1 .. n]
  BY <1>1 DEF WeightJournalEntries, FoldLeft, MapThenFoldSet
<1>3. 0 \in T
  <2>. DEFINE f == [t \in SUBSET (1 .. 0) |-> HeaderWeight]
  <2>1. \A t \in SUBSET (1 .. 0) : t = {}
    OBVIOUS
  <2>2. f = rec(f, 0)
    BY <2>1
  <2>. QED  BY <1>1, <2>2
<1>4. ASSUME NEW k \in 0 .. (n - 1), k \in T
      PROVE  k + 1 \in T
  <2>1. PICK f : f = rec(f, k)
    BY <1>4
  <2>2. k \in Nat /\ k + 1 \in 0 .. n /\ k + 1 \in Nat
    BY <1>1
  <2>. DEFINE h == [t \in SUBSET (1 .. (k + 1)) |->
                      IF k + 1 \in t THEN f[t \ {k + 1}] + EntryWeight[s[k + 1]]
                                     ELSE f[t]]
  <2>3. ASSUME NEW t \in SUBSET (1 .. (k + 1))
        PROVE  h[t] = IF t = {} THEN HeaderWeight
                      ELSE h[t \ {Max(t)}] + EntryWeight[s[Max(t)]]
    <3>1. CASE t = {}
      <4>1. t \in SUBSET (1 .. k) /\ k + 1 \notin t
        BY <3>1
      <4>2. h[t] = f[t] /\ f[t] = HeaderWeight
        BY <2>1, <3>1, <4>1
      <4>. QED  BY <3>1, <4>2
    <3>2. CASE k + 1 \in t
      <4>1. Max(t) = k + 1
        BY <2>2, <3>2, LargestIs
      <4>2. t \ {k + 1} \in SUBSET (1 .. k) /\ t \ {k + 1} \in SUBSET (1 .. (k + 1))
        BY <2>2
      <4>3. h[t \ {k + 1}] = f[t \ {k + 1}]
        BY <4>2
      <4>4. h[t] = f[t \ {k + 1}] + EntryWeight[s[k + 1]]
        BY <3>2
      <4>. QED  BY <3>2, <4>1, <4>3, <4>4, Zenon
    <3>3. CASE t # {} /\ k + 1 \notin t
      <4>1. t \in SUBSET (1 .. k)
        BY <2>2, <3>3
      <4>2. t \ {Max(t)} \in SUBSET (1 .. (k + 1)) /\ k + 1 \notin t \ {Max(t)}
        BY <3>3
      <4>3. h[t \ {Max(t)}] = f[t \ {Max(t)}] /\ h[t] = f[t]
        BY <3>3, <4>2
      <4>4. f[t] = f[t \ {Max(t)}] + EntryWeight[s[Max(t)]]
        BY <2>1, <3>3, <4>1
      <4>. QED  BY <3>3, <4>3, <4>4, Zenon
    <3>. QED  BY <3>1, <3>2, <3>3
  <2>4. h = rec(h, k + 1)
    BY <2>3
  <2>. HIDE DEF h, rec
  <2>. QED  BY <2>2, <2>4
<1>5. \E f : f = rec(f, n)
  <2>. HIDE DEF T
  <2>1. \A k \in 0 .. n : k \in T
    BY <1>1, <1>3, <1>4, Induction
  <2>2. n \in T
    BY <1>1, <2>1
  <2>. QED  BY <2>2 DEF T
<1>6. chosen = rec(chosen, n)
  <2>. HIDE DEF rec
  <2>. QED  BY <1>5
<1>. HIDE DEF chosen
<1>. DEFINE V == {k \in 0 .. n : chosen[1 .. k] = g[k]}
<1>7. 0 \in V
  <2>1. 1 .. 0 = {} /\ {} \in SUBSET (1 .. n)
    OBVIOUS
  <2>2. chosen[{}] = HeaderWeight
    BY <1>6, <2>1
  <2>3. g[0] = HeaderWeight
    BY DEF Iterates
  <2>. QED  BY <1>1, <2>1, <2>2, <2>3
<1>8. ASSUME NEW k \in 0 .. (n - 1), k \in V
      PROVE  k + 1 \in V
  <2>1. /\ k + 1 \in 1 .. n /\ k + 1 \in Nat /\ (k + 1) - 1 = k /\ k + 1 \in 0 .. n
        /\ k \in 0 .. n /\ g[k] \in Nat /\ chosen[1 .. k] = g[k]
    BY <1>1, <1>8
  <2>. DEFINE t == 1 .. (k + 1)
  <2>2. t \in SUBSET (1 .. n) /\ t # {} /\ t \ {k + 1} = 1 .. k /\ k + 1 \in t
    BY <1>1, <2>1
  <2>3. Max(t) = k + 1
    BY <2>1, <2>2, LargestIs
  <2>4. chosen[t] = chosen[t \ {Max(t)}] + EntryWeight[s[Max(t)]]
    BY <1>6, <2>2
  <2>5. g[k + 1] = Adding(s)[<<g[k], k + 1>>]
    BY <2>1 DEF Iterates
  <2>6. Adding(s)[<<g[k], k + 1>>] = g[k] + EntryWeight[s[k + 1]]
    BY <2>1 DEF Adding
  <2>7. chosen[t] = g[k + 1]
    BY <2>1, <2>2, <2>3, <2>4, <2>5, <2>6, Zenon
  <2>. QED  BY <2>1, <2>7
<1>. HIDE DEF V
<1>9. \A k \in 0 .. n : k \in V
  BY <1>1, <1>7, <1>8, Induction
<1>10. n \in V
  BY <1>1, <1>9
<1>. QED  BY <1>2, <1>10 DEF V

\* The intermediate sums of WeightJournalEntries.
LEMMA WeightExists ==
  ASSUME NEW s \in Seq(Entry)
  PROVE  \E g \in [0 .. Len(s) -> Nat] :
           /\ Iterates(g, HeaderWeight, Adding(s), Len(s))
           /\ WeightJournalEntries(s) = IF s = <<>> THEN 0 ELSE g[Len(s)]
<1>1. PICK g \in [0 .. Len(s) -> Nat] : Iterates(g, HeaderWeight, Adding(s), Len(s))
  <2>1. Len(s) \in Nat
    OBVIOUS
  <2>. QED  BY <2>1, AddingType, IterationExists
<1>2. s # <<>> => WeightJournalEntries(s) = g[Len(s)]
  BY <1>1, WeightIterates
<1>. QED  BY <1>1, <1>2 DEF WeightJournalEntries

\* A weight is a natural number.
LEMMA WeightType ==
  ASSUME NEW s \in Seq(Entry)
  PROVE  WeightJournalEntries(s) \in Nat
<1>1. PICK g \in [0 .. Len(s) -> Nat] :
        WeightJournalEntries(s) = IF s = <<>> THEN 0 ELSE g[Len(s)]
  BY WeightExists
<1>2. Len(s) \in 0 .. Len(s)
  OBVIOUS
<1>. QED  BY <1>1, <1>2

\* No entry has no weight.
LEMMA WeightEmpty == WeightJournalEntries(<<>>) = 0
  BY DEF WeightJournalEntries

\* One entry more adds its weight, and the header if it is the first.
LEMMA WeightAppend ==
  ASSUME NEW s \in Seq(Entry), NEW e \in Entry
  PROVE  WeightJournalEntries(Append(s, e)) =
           WeightJournalEntries(s) + EntryWeight[e]
             + (IF s = <<>> THEN HeaderWeight ELSE 0)
<1>. DEFINE n == Len(s)
            more == Append(s, e)
<1>1. PICK g \in [0 .. n -> Nat] :
        /\ Iterates(g, HeaderWeight, Adding(s), n)
        /\ WeightJournalEntries(s) = IF s = <<>> THEN 0 ELSE g[n]
  BY WeightExists
<1>2. /\ more \in Seq(Entry) /\ Len(more) = n + 1 /\ more # <<>> /\ n \in Nat
      /\ more[n + 1] = e /\ \A i \in 1 .. n : more[i] = s[i]
      /\ s = <<>> <=> n = 0
  BY AppendProperties
<1>3. EntryWeight[e] \in Nat /\ HeaderWeight \in Nat
  BY WeightAssumption
<1>. HIDE DEF n, more
<1>. DEFINE h == [i \in 0 .. (n + 1) |-> IF i = n + 1 THEN g[n] + EntryWeight[e] ELSE g[i]]
<1>4. n \in 0 .. n /\ n \in 0 .. (n + 1) /\ n + 1 \in 0 .. (n + 1) /\ n # n + 1
  BY <1>2
<1>5. h[n + 1] = g[n] + EntryWeight[e] /\ g[n] \in Nat
  BY <1>4
<1>6. \A i \in 0 .. n : h[i] = g[i]
  <2>1. \A i \in 0 .. n : i \in 0 .. (n + 1) /\ i # n + 1
    BY <1>2
  <2>. QED  BY <2>1, Zenon
<1>7. h \in [0 .. (n + 1) -> Nat]
  <2>1. \A i \in 0 .. (n + 1) : i = n + 1 \/ i \in 0 .. n
    BY <1>2
  <2>2. g[n] + EntryWeight[e] \in Nat
    BY <1>3, <1>5
  <2>. QED  BY <2>1, <2>2
<1>. HIDE DEF h
<1>8. Iterates(h, HeaderWeight, Adding(more), n + 1)
  <2>1. h[0] = HeaderWeight
    <3>1. 0 \in 0 .. n
      BY <1>2
    <3>. QED  BY <1>1, <1>6, <3>1 DEF Iterates
  <2>2. ASSUME NEW i \in 1 .. n
        PROVE  h[i] = Adding(more)[<<h[i - 1], i>>]
    <3>1. i \in 0 .. n /\ i - 1 \in 0 .. n /\ i \in 1 .. (n + 1)
      BY <1>2
    <3>2. h[i] = g[i] /\ h[i - 1] = g[i - 1] /\ g[i - 1] \in Nat
      BY <1>6, <3>1
    <3>3. g[i] = Adding(s)[<<g[i - 1], i>>]
      BY <1>1 DEF Iterates
    <3>4. Adding(s)[<<g[i - 1], i>>] = g[i - 1] + EntryWeight[s[i]]
      BY <3>2 DEF Adding, n
    <3>5. Adding(more)[<<g[i - 1], i>>] = g[i - 1] + EntryWeight[more[i]]
      BY <1>2, <3>1, <3>2 DEF Adding
    <3>. QED  BY <1>2, <3>2, <3>3, <3>4, <3>5, Zenon
  <2>3. h[n + 1] = Adding(more)[<<h[n], n + 1>>]
    <3>1. n + 1 \in 1 .. (n + 1) /\ h[n] = g[n] /\ g[n] \in Nat
      BY <1>2, <1>4, <1>6
    <3>2. Adding(more)[<<g[n], n + 1>>] = g[n] + EntryWeight[more[n + 1]]
      BY <1>2, <3>1 DEF Adding
    <3>. QED  BY <1>2, <1>5, <3>1, <3>2, Zenon
  <2>4. (n + 1) - 1 = n /\ \A i \in 1 .. (n + 1) : i \in 1 .. n \/ i = n + 1
    BY <1>2
  <2>5. ASSUME NEW i \in 1 .. (n + 1)
        PROVE  h[i] = Adding(more)[<<h[i - 1], i>>]
    <3>1. CASE i \in 1 .. n
      BY <2>2, <3>1
    <3>2. CASE i = n + 1
      BY <2>3, <2>4, <3>2, Zenon
    <3>. QED  BY <2>4, <3>1, <3>2
  <2>. QED  BY <2>1, <2>5 DEF Iterates
<1>9. WeightJournalEntries(more) = h[n + 1]
  BY <1>2, <1>7, <1>8, WeightIterates
<1>10. CASE s = <<>>
  <2>1. g[n] = HeaderWeight /\ WeightJournalEntries(s) = 0
    BY <1>1, <1>2, <1>10 DEF Iterates
  <2>2. WeightJournalEntries(more) = HeaderWeight + EntryWeight[e]
    BY <1>5, <1>9, <2>1, Zenon
  <2>. QED  BY <1>3, <1>10, <2>1, <2>2 DEF more
<1>11. CASE s # <<>>
  <2>1. g[n] = WeightJournalEntries(s)
    BY <1>1, <1>11
  <2>2. WeightJournalEntries(more) = WeightJournalEntries(s) + EntryWeight[e]
    BY <1>5, <1>9, <2>1, Zenon
  <2>. QED  BY <1>3, <1>5, <1>11, <2>1, <2>2 DEF more
<1>. QED  BY <1>10, <1>11

\* Two queues joined take no more bytes than each by itself.
LEMMA WeightConcat ==
  ASSUME NEW s \in Seq(Entry), NEW t \in Seq(Entry)
  PROVE  WeightJournalEntries(s \o t) <= WeightJournalEntries(s) + WeightJournalEntries(t)
<1>. DEFINE m == Len(s)
            n == Len(t)
            both == s \o t
<1>1. WeightJournalEntries(s) \in Nat /\ WeightJournalEntries(t) \in Nat
  BY WeightType
<1>2. CASE s = <<>>
  <2>1. both = t /\ WeightJournalEntries(s) = 0
    BY <1>2, ConcatEmptySeq, WeightEmpty
  <2>. HIDE DEF both
  <2>. QED  BY <1>1, <2>1 DEF both
<1>3. CASE t = <<>>
  <2>1. both = s /\ WeightJournalEntries(t) = 0
    BY <1>3, ConcatEmptySeq, WeightEmpty
  <2>. HIDE DEF both
  <2>. QED  BY <1>1, <2>1 DEF both
<1>4. CASE s # <<>> /\ t # <<>>
  <2>1. /\ both \in Seq(Entry) /\ Len(both) = m + n /\ m \in Nat /\ n \in Nat
        /\ \A i \in 1 .. (m + n) : both[i] = IF i <= m THEN s[i] ELSE t[i - m]
        /\ m # 0 /\ n # 0
    BY <1>4, ConcatProperties
  <2>2. both # <<>>
    BY <2>1
  <2>3. PICK f \in [0 .. m -> Nat] :
          Iterates(f, HeaderWeight, Adding(s), m) /\ WeightJournalEntries(s) = f[m]
    BY <1>4, WeightExists
  <2>4. PICK g \in [0 .. n -> Nat] :
          Iterates(g, HeaderWeight, Adding(t), n) /\ WeightJournalEntries(t) = g[n]
    BY <1>4, WeightExists
  <2>. HIDE DEF m, n, both
  <2>5. /\ m \in 0 .. m /\ n \in 0 .. n /\ 0 \in 0 .. n
        /\ f[m] \in Nat /\ HeaderWeight \in Nat
    BY <2>1, WeightAssumption
  <2>6. PICK u \in [0 .. n -> Nat] : Iterates(u, f[m], Adding(t), n)
    BY <2>1, <2>5, AddingType, IterationExists DEF n
  <2>. DEFINE h == [i \in 0 .. (m + n) |-> IF i <= m THEN f[i] ELSE u[i - m]]
  <2>7. /\ \A i \in 0 .. m : h[i] = f[i]
        /\ \A i \in 0 .. n : m + i \in 0 .. (m + n) /\ (i # 0 => h[m + i] = u[i])
    <3>1. \A i \in 0 .. m : i \in 0 .. (m + n) /\ i <= m
      BY <2>1
    <3>2. \A i \in 0 .. n : /\ m + i \in 0 .. (m + n) /\ (m + i) - m = i
                            /\ i # 0 => ~(m + i <= m)
      BY <2>1
    <3>. QED  BY <3>1, <3>2, Zenon
  <2>8. h \in [0 .. (m + n) -> Nat]
    <3>1. \A i \in 0 .. (m + n) : /\ i <= m => i \in 0 .. m
                                  /\ ~(i <= m) => i - m \in 0 .. n
      BY <2>1
    <3>. QED  BY <3>1
  <2>. HIDE DEF h
  <2>9. u[0] = f[m]
    BY <2>6 DEF Iterates
  <2>10. \A i \in 0 .. n : h[m + i] = u[i]
    <3>1. m + 0 = m
      BY <2>1
    <3>2. h[m + 0] = u[0]
      BY <2>5, <2>7, <2>9, <3>1, Zenon
    <3>. QED  BY <2>7, <3>2, Zenon
  <2>11. Iterates(h, HeaderWeight, Adding(both), m + n)
    <3>1. h[0] = HeaderWeight
      <4>1. 0 \in 0 .. m
        BY <2>1
      <4>. QED  BY <2>3, <2>7, <4>1 DEF Iterates
    <3>2. ASSUME NEW i \in 1 .. (m + n)
          PROVE  h[i] = Adding(both)[<<h[i - 1], i>>]
      <4>1. i - 1 \in 0 .. (m + n) /\ h[i - 1] \in Nat
        <5>1. i - 1 \in 0 .. (m + n)
          BY <2>1
        <5>. QED  BY <2>8, <5>1
      <4>2. Adding(both)[<<h[i - 1], i>>] = h[i - 1] + EntryWeight[both[i]]
        BY <2>1, <4>1 DEF Adding
      <4>3. CASE i <= m
        <5>1. i \in 1 .. m /\ i \in 0 .. m /\ i - 1 \in 0 .. m
          BY <2>1, <4>3
        <5>2. h[i] = f[i] /\ h[i - 1] = f[i - 1] /\ both[i] = s[i] /\ f[i - 1] \in Nat
          BY <2>1, <2>7, <4>3, <5>1
        <5>3. f[i] = Adding(s)[<<f[i - 1], i>>]
          BY <2>3, <5>1 DEF Iterates
        <5>4. Adding(s)[<<f[i - 1], i>>] = f[i - 1] + EntryWeight[s[i]]
          BY <5>1, <5>2 DEF Adding, m
        <5>. QED  BY <4>2, <5>2, <5>3, <5>4, Zenon
      <4>4. CASE ~(i <= m)
        <5>1. PICK j \in 1 .. n : i = m + j /\ i - 1 = m + (j - 1) /\ j = i - m
          <6>1. i - m \in 1 .. n /\ i = m + (i - m) /\ i - 1 = m + ((i - m) - 1)
            BY <2>1, <4>4
          <6>. QED  BY <6>1
        <5>2. j \in 0 .. n /\ j - 1 \in 0 .. n
          <6>1. n \in Nat
            BY <2>1
          <6>2. \A k \in 1 .. n : k \in 0 .. n /\ k - 1 \in 0 .. n
            BY <6>1
          <6>. QED  BY <6>2
        <5>3. h[i] = u[j] /\ h[i - 1] = u[j - 1] /\ both[i] = t[j]
          BY <2>1, <2>10, <4>4, <5>1, <5>2, Zenon
        <5>4. u[j] = Adding(t)[<<u[j - 1], j>>] /\ u[j - 1] \in Nat
          BY <2>6, <5>2 DEF Iterates
        <5>5. Adding(t)[<<u[j - 1], j>>] = u[j - 1] + EntryWeight[t[j]]
          BY <5>4 DEF Adding, n
        <5>. QED  BY <4>2, <5>3, <5>4, <5>5, Zenon
      <4>. QED  BY <4>3, <4>4
    <3>. QED  BY <3>1, <3>2 DEF Iterates
  <2>12. WeightJournalEntries(both) = u[n]
    <3>1. WeightJournalEntries(both) = h[m + n]
      BY <2>1, <2>2, <2>8, <2>11, WeightIterates
    <3>. QED  BY <2>5, <2>10, <3>1
  <2>13. u[n] + HeaderWeight = f[m] + g[n]
    <3>. DEFINE T == {k \in 0 .. n : u[k] + HeaderWeight = f[m] + g[k]}
    <3>1. 0 \in T
      <4>1. g[0] = HeaderWeight
        BY <2>4 DEF Iterates
      <4>. QED  BY <2>5, <2>9, <4>1
    <3>2. ASSUME NEW k \in 0 .. (n - 1), k \in T
          PROVE  k + 1 \in T
      <4>1. k + 1 \in 1 .. n /\ k + 1 \in 0 .. n /\ k \in 0 .. n /\ (k + 1) - 1 = k
        BY <2>1
      <4>2. u[k] \in Nat /\ g[k] \in Nat
        BY <4>1
      <4>3. /\ u[k + 1] = Adding(t)[<<u[k], k + 1>>]
            /\ g[k + 1] = Adding(t)[<<g[k], k + 1>>]
        <5>1. /\ u[k + 1] = Adding(t)[<<u[(k + 1) - 1], k + 1>>]
              /\ g[k + 1] = Adding(t)[<<g[(k + 1) - 1], k + 1>>]
          BY <2>4, <2>6, <4>1 DEF Iterates
        <5>. QED  BY <4>1, <5>1, Zenon
      <4>4. /\ u[k + 1] = u[k] + EntryWeight[t[k + 1]]
            /\ g[k + 1] = g[k] + EntryWeight[t[k + 1]]
        BY <4>1, <4>2, <4>3 DEF Adding, n
      <4>5. EntryWeight[t[k + 1]] \in Nat
        BY <4>1, WeightAssumption DEF n
      <4>6. u[k] + HeaderWeight = f[m] + g[k]
        BY <3>2
      <4>7. u[k + 1] + HeaderWeight = f[m] + g[k + 1]
        <5>1. PICK a, b, c, d, x \in Nat :
                /\ a = u[k] /\ b = g[k] /\ c = HeaderWeight /\ d = f[m]
                /\ x = EntryWeight[t[k + 1]]
          BY <2>5, <4>2, <4>5, Zenon
        <5>2. a + c = d + b
          BY <4>6, <5>1
        <5>3. (a + x) + c = d + (b + x)
          BY <5>2
        <5>. QED  BY <4>4, <5>1, <5>3, Zenon
      <4>. QED  BY <4>1, <4>7
    <3>. HIDE DEF T
    <3>3. \A k \in 0 .. n : k \in T
      BY <2>1, <3>1, <3>2, Induction
    <3>4. n \in T
      BY <2>5, <3>3
    <3>. QED  BY <3>4 DEF T
  <2>14. u[n] \in Nat /\ g[n] \in Nat
    BY <2>5
  <2>15. u[n] <= f[m] + g[n]
    BY <2>5, <2>13, <2>14
  <2>16. WeightJournalEntries(both) <= WeightJournalEntries(s) + WeightJournalEntries(t)
    BY <2>3, <2>4, <2>12, <2>15, Zenon
  <2>. QED  BY <2>16 DEF both
<1>. QED  BY <1>2, <1>3, <1>4

\* Something to write takes a block.
LEMMA BlocksForPositive ==
  ASSUME NEW w \in Nat \ {0}
  PROVE  BlocksFor(w) \in Nat \ {0}
<1>1. BlocksFor(w) \in Nat /\ w <= BlockCapacity * BlocksFor(w)
  BY BlocksForType, BlocksForCovers
<1>2. BlocksFor(w) # 0
  <2>1. BlockCapacity * 0 = 0
    BY WeightAssumption
  <2>. QED  BY <1>1, <2>1
<1>. QED  BY <1>1, <1>2

\* What there is to write has bytes.
LEMMA WeightPositive ==
  ASSUME NEW s \in Seq(Entry), s # <<>>
  PROVE  WeightJournalEntries(s) \in Nat \ {0}
<1>. DEFINE front == SubSeq(s, 1, Len(s) - 1)
            last == s[Len(s)]
<1>1. front \in Seq(Entry) /\ last \in Entry /\ s = Append(front, last)
  OBVIOUS
<1>. HIDE DEF front, last
<1>2. /\ WeightJournalEntries(front) \in Nat /\ EntryWeight[last] \in Nat \ {0}
      /\ HeaderWeight \in Nat
  BY <1>1, WeightType, WeightAssumption
<1>3. WeightJournalEntries(s) = WeightJournalEntries(front) + EntryWeight[last]
         + (IF front = <<>> THEN HeaderWeight ELSE 0)
  BY <1>1, WeightAppend
<1>. QED  BY <1>2, <1>3

-----------------------------------------------------------------------------
\* Reading the ring

\* What is read of an interval is blocks if their checksums are good.
LEMMA RangeType ==
  ASSUME NEW journal \in [Pos -> Block \cup {None}], NEW interval \in JournalInterval
  PROVE  /\ JournalRangeAt(journal, interval) \in Seq(Block \cup {None})
         /\ Len(JournalRangeAt(journal, interval)) = interval.len
         /\ HasJournalRange(JournalRangeAt(journal, interval))
              => JournalRangeAt(journal, interval) \in Seq(Block)
<1>. DEFINE p == interval.start
            n == interval.len
            range == JournalRangeAt(journal, interval)
<1>1. p \in Pos /\ n \in 0 .. NumJournalBlocks /\ n \in Nat
  BY NumJournalBlocksAssumption DEF JournalInterval
<1>2. \A k \in 1 .. n : JournalPosAdd(p, k - 1) \in Pos
  BY <1>1, NumJournalBlocksAssumption DEF JournalPosAdd, Pos
<1>3. range = [k \in 1 .. n |-> journal[JournalPosAdd(p, k - 1)]]
  BY DEF JournalRangeAt
<1>4. range \in [1 .. n -> Block \cup {None}]
  BY <1>2, <1>3
<1>. HIDE DEF range, n, p
<1>5. range \in Seq(Block \cup {None}) /\ Len(range) = n /\ DOMAIN range = 1 .. n
  BY <1>1, <1>4
<1>6. ASSUME HasJournalRange(range)
      PROVE  range \in Seq(Block)
  <2>1. \A k \in 1 .. n : range[k] \in Block
    BY <1>4, <1>5, <1>6 DEF HasJournalRange
  <2>2. range \in [1 .. n -> Block]
    BY <1>4, <2>1
  <2>. QED  BY <1>1, <2>2
<1>. QED  BY <1>5, <1>6 DEF range, n

\* An interval is read as its first a blocks and then the others.
LEMMA RangeConcat ==
  ASSUME NEW journal \in [Pos -> Block \cup {None}], NEW p \in Pos,
         NEW a \in Nat, NEW b \in Nat, a + b <= NumJournalBlocks
  PROVE  JournalRangeAt(journal, [start |-> p, len |-> a + b]) =
           JournalRangeAt(journal, [start |-> p, len |-> a])
           \o JournalRangeAt(journal, [start |-> JournalPosAdd(p, a), len |-> b])
<1>. DEFINE q == JournalPosAdd(p, a)
            first == JournalRangeAt(journal, [start |-> p, len |-> a])
            second == JournalRangeAt(journal, [start |-> q, len |-> b])
            whole == JournalRangeAt(journal, [start |-> p, len |-> a + b])
<1>1. q \in Pos
  BY PosAddType, NumJournalBlocksAssumption
<1>2. /\ [start |-> p, len |-> a] \in JournalInterval
      /\ [start |-> q, len |-> b] \in JournalInterval
      /\ [start |-> p, len |-> a + b] \in JournalInterval
  BY <1>1, NumJournalBlocksAssumption DEF JournalInterval
<1>3. /\ first \in Seq(Block \cup {None}) /\ Len(first) = a
      /\ second \in Seq(Block \cup {None}) /\ Len(second) = b
      /\ whole \in Seq(Block \cup {None}) /\ Len(whole) = a + b
  BY <1>2, RangeType
<1>4. /\ \A k \in 1 .. a : first[k] = journal[JournalPosAdd(p, k - 1)]
      /\ \A k \in 1 .. b : second[k] = journal[JournalPosAdd(q, k - 1)]
      /\ \A k \in 1 .. (a + b) : whole[k] = journal[JournalPosAdd(p, k - 1)]
  BY DEF JournalRangeAt
<1>5. ASSUME NEW k \in 1 .. (a + b), ~(k <= a)
      PROVE  k - a \in 1 .. b /\ JournalPosAdd(q, (k - a) - 1) = JournalPosAdd(p, k - 1)
  BY <1>5, NumJournalBlocksAssumption DEF JournalPosAdd, Pos
<1>. HIDE DEF first, second, whole, q
<1>6. /\ first \o second \in Seq(Block \cup {None}) /\ Len(first \o second) = a + b
      /\ \A k \in 1 .. (a + b) :
           (first \o second)[k] = IF k <= a THEN first[k] ELSE second[k - a]
  BY <1>3, ConcatProperties
<1>7. ASSUME NEW k \in 1 .. (a + b)
      PROVE  whole[k] = (first \o second)[k]
  <2>1. CASE k <= a
    <3>1. k \in 1 .. a
      BY <2>1
    <3>. QED  BY <1>4, <1>6, <2>1, <3>1, Zenon
  <2>2. CASE ~(k <= a)
    <3>1. k - a \in 1 .. b /\ JournalPosAdd(q, (k - a) - 1) = JournalPosAdd(p, k - 1)
      BY <1>5, <2>2
    <3>. QED  BY <1>4, <1>6, <2>2, <3>1, Zenon
  <2>. QED  BY <2>1, <2>2
<1>8. whole = first \o second
  BY <1>3, <1>6, <1>7, SeqEqual
<1>. QED  BY <1>8 DEF first, second, whole, q

\* What is read depends on the blocks of the interval only.
LEMMA RangeUnchanged ==
  ASSUME NEW j1, NEW j2, NEW interval \in JournalInterval,
         \A i \in Pos : InCyclicRange(i, interval) => j2[i] = j1[i]
  PROVE  JournalRangeAt(j2, interval) = JournalRangeAt(j1, interval)
<1>. DEFINE p == interval.start
            n == interval.len
<1>1. p \in Pos /\ n \in 0 .. NumJournalBlocks
  BY DEF JournalInterval
<1>2. ASSUME NEW k \in 1 .. n
      PROVE  /\ JournalPosAdd(p, k - 1) \in Pos
             /\ InCyclicRange(JournalPosAdd(p, k - 1), interval)
  <2>. HIDE DEF p, n
  <2>1. JournalPosAdd(p, k - 1) \in Pos
    BY <1>1, NumJournalBlocksAssumption DEF JournalPosAdd, Pos
  <2>2. /\ p <= JournalPosAdd(p, k - 1) /\ JournalPosAdd(p, k - 1) < p + n
        \/ /\ p <= JournalPosAdd(p, k - 1) + NumJournalBlocks
           /\ JournalPosAdd(p, k - 1) + NumJournalBlocks < p + n
    BY <1>1, NumJournalBlocksAssumption DEF JournalPosAdd, Pos
  <2>. QED  BY <2>1, <2>2 DEF InCyclicRange, p, n
<1>. QED  BY <1>2 DEF JournalRangeAt

\* What was written is read.
LEMMA RangeOfSplice ==
  ASSUME NEW journal, NEW p \in Pos, NEW range \in Seq(Block),
         Len(range) <= NumJournalBlocks
  PROVE  JournalRangeAt(CyclicSplice(journal, p, range),
                        [start |-> p, len |-> Len(range)]) = range
<1>. DEFINE n == Len(range)
            read == JournalRangeAt(CyclicSplice(journal, p, range), [start |-> p, len |-> n])
<1>1. n \in Nat /\ range = [k \in 1 .. n |-> range[k]]
  OBVIOUS
<1>2. ASSUME NEW k \in 1 .. n
      PROVE  CyclicSplice(journal, p, range)[JournalPosAdd(p, k - 1)] = range[k]
  <2>. DEFINE i == JournalPosAdd(p, k - 1)
  <2>1. CASE p + (k - 1) < NumJournalBlocks
    <3>1. i \in Pos /\ i = p + (k - 1) /\ p <= i /\ i < p + n /\ i - p + 1 = k
      BY <1>1, <2>1, NumJournalBlocksAssumption DEF JournalPosAdd, Pos
    <3>. HIDE DEF i, n
    <3>. QED  BY <3>1 DEF CyclicSplice, i, n
  <2>2. CASE ~(p + (k - 1) < NumJournalBlocks)
    <3>1. /\ i \in Pos /\ ~(p <= i) /\ p <= i + NumJournalBlocks
          /\ i + NumJournalBlocks < p + n /\ i + NumJournalBlocks - p + 1 = k
      BY <1>1, <2>2, NumJournalBlocksAssumption DEF JournalPosAdd, Pos
    <3>. QED  BY <3>1 DEF CyclicSplice
  <2>. QED  BY <2>1, <2>2
<1>3. read = [k \in 1 .. n |-> CyclicSplice(journal, p, range)[JournalPosAdd(p, k - 1)]]
  BY DEF JournalRangeAt
<1>. HIDE DEF read, n
<1>4. read = [k \in 1 .. n |-> range[k]]
  BY <1>2, <1>3
<1>. QED  BY <1>1, <1>4 DEF read, n

\* The first len of w blocks written, and what a write appends, do not meet.
LEMMA AppendedBeyond ==
  ASSUME NEW i \in Pos, NEW p \in Pos, NEW w \in 0 .. NumJournalBlocks,
         NEW a \in 0 .. w, NEW n \in Nat, w + n <= NumJournalBlocks,
         InCyclicRange(i, [start |-> JournalPosAdd(p, w), len |-> n])
  PROVE  ~InCyclicRange(i, [start |-> JournalPosAdd(p, a), len |-> w - a])
  BY NumJournalBlocksAssumption DEF InCyclicRange, JournalPosAdd, Pos

\* Advancing twice is advancing by the sum, within one turn of the ring.
LEMMA PosAddAdd ==
  ASSUME NEW p \in Pos, NEW a \in Nat, NEW b \in Nat, a + b <= NumJournalBlocks
  PROVE  JournalPosAdd(JournalPosAdd(p, a), b) = JournalPosAdd(p, a + b)
  BY NumJournalBlocksAssumption DEF JournalPosAdd, Pos

\* Advancing by nothing.
LEMMA PosAddZero ==
  ASSUME NEW p \in Pos
  PROVE  JournalPosAdd(p, 0) = p
  BY NumJournalBlocksAssumption DEF JournalPosAdd, Pos

\* Nothing is read of an empty interval.
LEMMA RangeEmpty ==
  ASSUME NEW journal, NEW p
  PROVE  JournalRangeAt(journal, [start |-> p, len |-> 0]) = <<>>
  BY DEF JournalRangeAt

=============================================================================
