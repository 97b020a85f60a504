-------------------------- MODULE JournalistProofs --------------------------
(***************************************************************************)
(* The journalist's array is never indexed out of bounds, never grows past *)
(* its limit, and implements the two queues, for every size.               *)
(***************************************************************************)
EXTENDS Journalist, JournalBlocksProofs

Item == Entry \cup {None}

-----------------------------------------------------------------------------
\* Slices of the array

LEMMA BasicModType ==
  ASSUME NEW len \in Nat \ {0}, NEW x \in 0 .. (2 * len - 1)
  PROVE  BasicMod(x, len) \in 0 .. (len - 1)
  BY DEF BasicMod

LEMMA SliceType ==
  ASSUME NEW s \in Seq(Item), NEW from \in 0 .. (Len(s) - 1), NEW l \in 0 .. Len(s)
  PROVE  /\ CyclicSlice(s, from, l) \in Seq(Item)
         /\ Len(CyclicSlice(s, from, l)) = l
         /\ \A k \in 1 .. l :
              CyclicSlice(s, from, l)[k] = s[BasicMod(from + k - 1, Len(s)) + 1]
<1>1. \A k \in 1 .. l : s[BasicMod(from + k - 1, Len(s)) + 1] \in Item
  <2>1. SUFFICES ASSUME NEW k \in 1 .. l
                 PROVE  s[BasicMod(from + k - 1, Len(s)) + 1] \in Item
    OBVIOUS
  <2>2. BasicMod(from + k - 1, Len(s)) + 1 \in 1 .. Len(s)
    BY DEF BasicMod
  <2>. QED  BY <2>2
<1>2. CyclicSlice(s, from, l) \in [1 .. l -> Item]
  BY <1>1 DEF CyclicSlice
<1>3. l \in Nat
  OBVIOUS
<1>4. CyclicSlice(s, from, l) \in Seq(Item) /\ Len(CyclicSlice(s, from, l)) = l
  BY <1>2, <1>3
<1>5. \A k \in 1 .. l :
        CyclicSlice(s, from, l)[k] = s[BasicMod(from + k - 1, Len(s)) + 1]
  BY DEF CyclicSlice
<1>. QED  BY <1>4, <1>5

LEMMA EmptySlice ==
  ASSUME NEW s, NEW from
  PROVE  CyclicSlice(s, from, 0) = <<>>
  BY DEF CyclicSlice

\* Two slices that follow each other are one.
LEMMA SliceConcat ==
  ASSUME NEW s \in Seq(Item), NEW from \in 0 .. (Len(s) - 1),
         NEW l \in Nat, NEW m \in Nat, l + m <= Len(s)
  PROVE  CyclicSlice(s, from, l) \o CyclicSlice(s, BasicMod(from + l, Len(s)), m)
           = CyclicSlice(s, from, l + m)
<1>. DEFINE mid == BasicMod(from + l, Len(s))
            p == CyclicSlice(s, from, l)
            q == CyclicSlice(s, mid, m)
            r == CyclicSlice(s, from, l + m)
<1>1. /\ Len(s) \in Nat /\ l \in 0 .. Len(s) /\ m \in 0 .. Len(s)
      /\ l + m \in 0 .. Len(s) /\ l < Len(s) + 1
  OBVIOUS
<1>2. mid \in 0 .. (Len(s) - 1)
  BY <1>1 DEF BasicMod
<1>3. /\ p \in Seq(Item) /\ Len(p) = l
      /\ \A k \in 1 .. l : p[k] = s[BasicMod(from + k - 1, Len(s)) + 1]
  BY <1>1, SliceType
<1>4. /\ q \in Seq(Item) /\ Len(q) = m
      /\ \A k \in 1 .. m : q[k] = s[BasicMod(mid + k - 1, Len(s)) + 1]
  <2>. HIDE DEF mid
  <2>. QED  BY <1>1, <1>2, SliceType
<1>5. /\ r \in Seq(Item) /\ Len(r) = l + m
      /\ \A k \in 1 .. (l + m) : r[k] = s[BasicMod(from + k - 1, Len(s)) + 1]
  BY <1>1, SliceType
<1>6. /\ p \o q \in Seq(Item) /\ Len(p \o q) = l + m
      /\ \A k \in 1 .. (l + m) : (p \o q)[k] = IF k <= l THEN p[k] ELSE q[k - l]
  <2>. HIDE DEF p, q
  <2>. QED  BY <1>3, <1>4, ConcatProperties
<1>7. ASSUME NEW k \in 1 .. (l + m), k > l
      PROVE  BasicMod(mid + (k - l) - 1, Len(s)) = BasicMod(from + k - 1, Len(s))
  BY <1>1, <1>7 DEF BasicMod
<1>8. ASSUME NEW k \in 1 .. (l + m)
      PROVE  (p \o q)[k] = r[k]
  <2>. HIDE DEF p, q, r, mid
  <2>1. CASE k <= l
    <3>1. (p \o q)[k] = p[k]
      BY <1>6, <2>1
    <3>2. k \in 1 .. l
      BY <2>1
    <3>. QED  BY <1>3, <1>5, <3>1, <3>2
  <2>2. CASE k > l
    <3>1. (p \o q)[k] = q[k - l]
      BY <1>6, <2>2
    <3>2. k - l \in 1 .. m
      BY <2>2
    <3>3. q[k - l] = s[BasicMod(mid + (k - l) - 1, Len(s)) + 1]
      BY <1>4, <3>2
    <3>. QED  BY <1>5, <1>7, <2>2, <3>1, <3>3
  <2>3. k <= l \/ k > l
    OBVIOUS
  <2>. QED  BY <2>1, <2>2, <2>3
<1>. HIDE DEF p, q, r, mid
<1>9. p \o q = r
  BY <1>5, <1>6, <1>8, SeqEqual
<1>. QED  BY <1>9 DEF p, q, r, mid

-----------------------------------------------------------------------------
\* Room in the region

\* What fits the region in bytes fits it in blocks.
LEMMA RoomInBlocks ==
  ASSUME NEW w \in Nat, NEW f \in Nat, NEW weight \in Nat,
         BlockCapacity * (w + f) + weight <= BlockCapacity * NumJournalBlocks
  PROVE  /\ w + f + BlocksFor(weight) <= NumJournalBlocks
         /\ BlocksFor(weight) \in Nat
         /\ weight <= BlockCapacity * BlocksFor(weight)
<1>1. w + f <= NumJournalBlocks
  <2>1. SUFFICES ASSUME w + f >= NumJournalBlocks + 1 PROVE FALSE
    BY NumJournalBlocksAssumption
  <2>2. BlockCapacity * (w + f) >= BlockCapacity * (NumJournalBlocks + 1)
    BY <2>1, WeightAssumption, NumJournalBlocksAssumption
  <2>3. BlockCapacity * (NumJournalBlocks + 1)
          = BlockCapacity * NumJournalBlocks + BlockCapacity
    BY WeightAssumption, NumJournalBlocksAssumption
  <2>. QED  BY <2>2, <2>3, WeightAssumption, NumJournalBlocksAssumption
<1>. DEFINE k == NumJournalBlocks - (w + f)
<1>2. k \in Nat
  BY <1>1, NumJournalBlocksAssumption
<1>3. BlockCapacity * NumJournalBlocks = BlockCapacity * (w + f) + BlockCapacity * k
  BY WeightAssumption, NumJournalBlocksAssumption
<1>4. weight <= BlockCapacity * k
  <2>1. BlockCapacity * (w + f) \in Nat /\ BlockCapacity * k \in Nat
    BY <1>2, WeightAssumption
  <2>. HIDE DEF k
  <2>. QED  BY <1>3, <2>1
<1>5. BlocksFor(weight) <= k
  <2>. HIDE DEF k
  <2>. QED  BY <1>2, <1>4, BlocksForFits
<1>. QED  BY <1>1, <1>5, BlocksForType, BlocksForCovers, NumJournalBlocksAssumption

LEMMA TimesMonotone ==
  ASSUME NEW c \in Nat, NEW i \in Nat, NEW j \in Nat, i <= j
  PROVE  c * i \in Nat /\ c * j \in Nat /\ c * i <= c * j
  OBVIOUS

-----------------------------------------------------------------------------
\* The invariant

LEMMA InitJournalistInv == Init => JournalistInv
<1>. SUFFICES ASSUME Init PROVE JournalistInv
  OBVIOUS
<1>1. journalEntries \in Seq(Item) /\ Capacity = InitialCapacity
  <2>1. journalEntries \in [1 .. InitialCapacity -> Item]
    BY DEF Init, Item
  <2>2. InitialCapacity \in Nat
    BY CapacityAssumption
  <2>. QED  BY <2>1, <2>2 DEF Capacity
<1>2. IndicesOK
  BY <1>1, CapacityAssumption, NumJournalBlocksAssumption, WeightAssumption
    DEF Init, IndicesOK, Item
<1>3. CapacityBounded
  BY <1>1, CapacityAssumption DEF CapacityBounded
<1>4. BlockCapacity * (writtenJournalBlocks + frozenJournalBlocks) + inMemoryWeight
        <= BlockCapacity * NumJournalBlocks
  BY TimesMonotone, NumJournalBlocksAssumption, WeightAssumption DEF Init
<1>5. /\ MinEntryWeight * len1 <= BlockCapacity * frozenJournalBlocks
      /\ MinEntryWeight * len2 <= inMemoryWeight
      /\ len2 = 0 => inMemoryWeight = 0
  BY EntriesAssumption, WeightAssumption DEF Init
<1>. QED  BY <1>2, <1>3, <1>4, <1>5 DEF JournalistInv

\* The array after an append.
LEMMA AppendArray ==
  ASSUME IndicesOK, NEW e \in Entry, AppendEntry(e)
  PROVE  /\ journalEntries' \in Seq(Item)
         /\ \/ /\ len1 + len2 < Capacity /\ Capacity' = Capacity
               /\ start' = start
            \/ /\ len1 + len2 = Capacity /\ Capacity' = 2 * Capacity
               /\ start' = 0
<1>1. /\ Capacity \in Nat /\ Capacity = Len(journalEntries)
      /\ start \in 0 .. (Capacity - 1)
      /\ journalEntries \in Seq(Item)
      /\ len1 \in Nat /\ len2 \in Nat /\ len1 + len2 <= Capacity
  BY DEF IndicesOK, Capacity, Item
<1>2. CASE len1 + len2 < Capacity
  <2>. DEFINE i == BasicMod(start + len1 + len2, Capacity) + 1
  <2>1. i \in 1 .. Len(journalEntries)
    BY <1>1, <1>2 DEF BasicMod
  <2>2. journalEntries' = [journalEntries EXCEPT ![i] = e] /\ start' = start
    BY <1>2 DEF AppendEntry
  <2>3. e \in Item
    BY DEF Item
  <2>. HIDE DEF i
  <2>4. journalEntries' \in Seq(Item) /\ Len(journalEntries') = Len(journalEntries)
    BY <1>1, <2>1, <2>2, <2>3, ExceptSeq
  <2>. QED  BY <1>1, <1>2, <2>2, <2>4 DEF Capacity
<1>3. CASE ~(len1 + len2 < Capacity)
  <2>1. journalEntries' = ReallocJournalEntries(e) /\ start' = 0
    BY <1>3 DEF AppendEntry
  <2>2. \A i \in 1 .. (2 * Capacity) :
          (IF i <= Capacity - start THEN journalEntries[start + i]
           ELSE IF i <= Capacity THEN journalEntries[i - (Capacity - start)]
           ELSE IF i = Capacity + 1 THEN e ELSE None) \in Item
    <3>1. \A j \in 1 .. Capacity : journalEntries[j] \in Item
      BY <1>1
    <3>2. e \in Item /\ None \in Item
      BY DEF Item
    <3>. QED  BY <1>1, <3>1, <3>2
  <2>3. journalEntries' \in [1 .. (2 * Capacity) -> Item]
    BY <2>1, <2>2 DEF ReallocJournalEntries
  <2>4. 2 * Capacity \in Nat
    BY <1>1
  <2>5. journalEntries' \in Seq(Item) /\ Len(journalEntries') = 2 * Capacity
    BY <2>3, <2>4
  <2>6. Capacity' = 2 * Capacity
    BY <2>5 DEF Capacity
  <2>. QED  BY <1>1, <1>3, <2>1, <2>5, <2>6
<1>. QED  BY <1>2, <1>3

LEMMA AppendKeepsInv ==
  ASSUME JournalistInv, NEW e \in Entry, AppendEntry(e)
  PROVE  JournalistInv'
<1>1. /\ Capacity \in Nat /\ start \in 0 .. (Capacity - 1)
      /\ len1 \in Nat /\ len2 \in Nat /\ len1 + len2 <= Capacity
      /\ writtenJournalBlocks \in 0 .. NumJournalBlocks
      /\ frozenJournalBlocks \in 0 .. NumJournalBlocks
      /\ inMemoryWeight \in Nat
  BY DEF JournalistInv, IndicesOK, Capacity
<1>2. /\ NewWeight(e) \in Nat /\ NewWeight(e) >= inMemoryWeight + EntryWeight[e]
      /\ EntryWeight[e] \in Nat /\ EntryWeight[e] >= MinEntryWeight
      /\ MinEntryWeight \in Nat \ {0}
  BY <1>1, WeightAssumption, EntriesAssumption DEF NewWeight
<1>3. BlockCapacity * (writtenJournalBlocks + frozenJournalBlocks) + NewWeight(e)
        <= BlockCapacity * NumJournalBlocks
  BY DEF AppendEntry, CanAppend
<1>4. /\ journalEntries' \in Seq(Item)
      /\ \/ len1 + len2 < Capacity /\ Capacity' = Capacity /\ start' = start
         \/ len1 + len2 = Capacity /\ Capacity' = 2 * Capacity /\ start' = 0
  BY AppendArray DEF JournalistInv
<1>5. MinEntryWeight * (len2 + 1) <= NewWeight(e)
  <2>1. MinEntryWeight * (len2 + 1) = MinEntryWeight * len2 + MinEntryWeight
    BY <1>1, <1>2
  <2>2. MinEntryWeight * len2 \in Nat /\ MinEntryWeight * len2 <= inMemoryWeight
    BY <1>1, <1>2 DEF JournalistInv
  <2>. QED  BY <1>1, <1>2, <2>1, <2>2
<1>6. len1 + len2 + 1 <= MaxPossibleEntries
  <2>1. /\ BlockCapacity * frozenJournalBlocks \in Nat
        /\ BlockCapacity * (writtenJournalBlocks + frozenJournalBlocks) \in Nat
        /\ BlockCapacity * frozenJournalBlocks
             <= BlockCapacity * (writtenJournalBlocks + frozenJournalBlocks)
    BY <1>1, TimesMonotone, WeightAssumption, NumJournalBlocksAssumption
  <2>2. /\ MinEntryWeight * len1 \in Nat /\ MinEntryWeight * (len2 + 1) \in Nat
        /\ MinEntryWeight * (len1 + len2 + 1)
             = MinEntryWeight * len1 + MinEntryWeight * (len2 + 1)
    BY <1>1, <1>2
  <2>3. /\ BlockCapacity * NumJournalBlocks \in Nat
        /\ MinEntryWeight * MaxPossibleEntries \in Nat
    BY <1>2, WeightAssumption, NumJournalBlocksAssumption, CapacityAssumption
  <2>4. MinEntryWeight * (len1 + len2 + 1) <= MinEntryWeight * MaxPossibleEntries
    BY <1>2, <1>3, <1>5, <2>1, <2>2, <2>3, EntriesAssumption DEF JournalistInv
  <2>. HIDE DEF JournalistInv
  <2>5. SUFFICES ASSUME len1 + len2 + 1 >= MaxPossibleEntries + 1 PROVE FALSE
    BY <1>1, CapacityAssumption
  <2>6. MinEntryWeight * (MaxPossibleEntries + 1) <= MinEntryWeight * (len1 + len2 + 1)
    BY <1>1, <1>2, <2>5, TimesMonotone, CapacityAssumption
  <2>7. MinEntryWeight * (MaxPossibleEntries + 1)
          = MinEntryWeight * MaxPossibleEntries + MinEntryWeight
    BY <1>2, CapacityAssumption
  <2>. QED  BY <1>2, <2>2, <2>3, <2>4, <2>6, <2>7
<1>7. /\ len1' = len1 /\ len2' = len2 + 1 /\ inMemoryWeight' = NewWeight(e)
      /\ UNCHANGED <<writtenJournalBlocks, frozenJournalBlocks>>
  BY DEF AppendEntry
<1>8. NewWeight(e) <= BlockCapacity * NumJournalBlocks
  BY <1>1, <1>2, <1>3, TimesMonotone, WeightAssumption, NumJournalBlocksAssumption
<1>9. IndicesOK'
  <2>1. Capacity' \in Nat /\ start' \in 0 .. (Capacity' - 1) /\ len1 + len2 + 1 <= Capacity'
    BY <1>1, <1>4
  <2>2. BlockCapacity * NumJournalBlocks \in Nat
    BY WeightAssumption, NumJournalBlocksAssumption
  <2>3. Capacity' = Len(journalEntries')
    BY DEF Capacity
  <2>4. inMemoryWeight' \in 0 .. (BlockCapacity * NumJournalBlocks)
    BY <1>2, <1>7, <1>8, <2>2
  <2>. QED  BY <1>1, <1>4, <1>7, <2>1, <2>3, <2>4 DEF IndicesOK, Item
<1>10. CapacityBounded'
  BY <1>1, <1>4, <1>6, CapacityAssumption DEF CapacityBounded, JournalistInv
<1>11. len2' # 0
  BY <1>1, <1>7
<1>. QED  BY <1>3, <1>5, <1>7, <1>9, <1>10, <1>11 DEF JournalistInv

LEMMA FreezeKeepsInv ==
  ASSUME JournalistInv, Freeze
  PROVE  JournalistInv'
<1>1. /\ len1 \in Nat /\ len2 \in Nat
      /\ writtenJournalBlocks \in Nat /\ frozenJournalBlocks \in Nat
      /\ inMemoryWeight \in Nat
  BY DEF JournalistInv, IndicesOK
<1>2. /\ writtenJournalBlocks + frozenJournalBlocks + BlocksFor(inMemoryWeight)
            <= NumJournalBlocks
      /\ BlocksFor(inMemoryWeight) \in Nat
      /\ inMemoryWeight <= BlockCapacity * BlocksFor(inMemoryWeight)
  BY <1>1, RoomInBlocks DEF JournalistInv
<1>3. /\ len1' = len1 + len2 /\ len2' = 0 /\ inMemoryWeight' = 0
      /\ frozenJournalBlocks' = frozenJournalBlocks + BlocksFor(inMemoryWeight)
      /\ UNCHANGED <<journalEntries, start, writtenJournalBlocks>>
  BY DEF Freeze
<1>4. IndicesOK' /\ CapacityBounded'
  <2>1. BlockCapacity * NumJournalBlocks \in Nat
    BY WeightAssumption, NumJournalBlocksAssumption
  <2>2. inMemoryWeight' \in 0 .. (BlockCapacity * NumJournalBlocks)
    BY <1>3, <2>1
  <2>3. /\ writtenJournalBlocks' \in 0 .. NumJournalBlocks
        /\ frozenJournalBlocks' \in 0 .. NumJournalBlocks
    BY <1>1, <1>2, <1>3, NumJournalBlocksAssumption DEF JournalistInv, IndicesOK
  <2>. QED  BY <1>1, <1>3, <2>2, <2>3
         DEF JournalistInv, IndicesOK, CapacityBounded, Capacity
<1>5. BlockCapacity * (writtenJournalBlocks' + frozenJournalBlocks') + inMemoryWeight'
        <= BlockCapacity * NumJournalBlocks
  BY <1>1, <1>2, <1>3, TimesMonotone, WeightAssumption, NumJournalBlocksAssumption
<1>6. MinEntryWeight * len1' <= BlockCapacity * frozenJournalBlocks'
  <2>1. /\ MinEntryWeight * (len1 + len2) = MinEntryWeight * len1 + MinEntryWeight * len2
        /\ MinEntryWeight * len1 \in Nat /\ MinEntryWeight * len2 \in Nat
    BY <1>1, EntriesAssumption
  <2>2. /\ BlockCapacity * (frozenJournalBlocks + BlocksFor(inMemoryWeight))
             = BlockCapacity * frozenJournalBlocks + BlockCapacity * BlocksFor(inMemoryWeight)
        /\ BlockCapacity * frozenJournalBlocks \in Nat
        /\ BlockCapacity * BlocksFor(inMemoryWeight) \in Nat
    BY <1>1, <1>2, WeightAssumption
  <2>. QED  BY <1>1, <1>2, <1>3, <2>1, <2>2 DEF JournalistInv
<1>7. MinEntryWeight * len2' <= inMemoryWeight'
  BY <1>3, EntriesAssumption
<1>. QED  BY <1>3, <1>4, <1>5, <1>6, <1>7 DEF JournalistInv

LEMMA PackageFrozenKeepsInv ==
  ASSUME JournalistInv, PackageFrozenJournal
  PROVE  JournalistInv'
<1>1. /\ Capacity \in Nat /\ start \in 0 .. (Capacity - 1)
      /\ len1 \in Nat /\ len2 \in Nat /\ len1 + len2 <= Capacity
      /\ writtenJournalBlocks \in Nat /\ frozenJournalBlocks \in Nat
      /\ inMemoryWeight \in Nat
  BY DEF JournalistInv, IndicesOK, Capacity
<1>2. /\ start' = BasicMod(start + len1, Capacity) /\ len1' = 0 /\ len2' = len2
      /\ writtenJournalBlocks' = writtenJournalBlocks + frozenJournalBlocks
      /\ frozenJournalBlocks' = 0
      /\ UNCHANGED <<journalEntries, inMemoryWeight>>
  BY DEF PackageFrozenJournal, StartAfterFrozen
<1>3. start' \in 0 .. (Capacity - 1)
  BY <1>1, <1>2 DEF BasicMod
<1>4. writtenJournalBlocks + frozenJournalBlocks <= NumJournalBlocks
  <2>1. BlockCapacity * (writtenJournalBlocks + frozenJournalBlocks) + inMemoryWeight
          <= BlockCapacity * NumJournalBlocks
    BY DEF JournalistInv
  <2>2. /\ writtenJournalBlocks + frozenJournalBlocks + BlocksFor(inMemoryWeight)
              <= NumJournalBlocks
        /\ BlocksFor(inMemoryWeight) \in Nat
    BY <1>1, <2>1, RoomInBlocks
  <2>. QED  BY <1>1, <2>2, NumJournalBlocksAssumption
<1>5. IndicesOK' /\ CapacityBounded'
  BY <1>1, <1>2, <1>3, <1>4, NumJournalBlocksAssumption
    DEF JournalistInv, IndicesOK, CapacityBounded, Capacity
<1>6. MinEntryWeight * 0 = 0 /\ BlockCapacity * 0 = 0
  BY EntriesAssumption, WeightAssumption
<1>. QED  BY <1>1, <1>2, <1>5, <1>6 DEF JournalistInv

LEMMA PackageInMemoryKeepsInv ==
  ASSUME JournalistInv, PackageInMemoryJournal
  PROVE  JournalistInv'
<1>1. /\ len2 \in Nat /\ len1 = 0
      /\ writtenJournalBlocks \in Nat /\ frozenJournalBlocks \in Nat
      /\ inMemoryWeight \in Nat
  BY DEF JournalistInv, IndicesOK, PackageInMemoryJournal
<1>2. /\ start' = 0 /\ len1' = len1 /\ len2' = 0 /\ inMemoryWeight' = 0
      /\ writtenJournalBlocks' = writtenJournalBlocks + BlocksFor(inMemoryWeight)
      /\ UNCHANGED <<journalEntries, frozenJournalBlocks>>
  BY DEF PackageInMemoryJournal
<1>3. /\ writtenJournalBlocks + frozenJournalBlocks + BlocksFor(inMemoryWeight)
            <= NumJournalBlocks
      /\ BlocksFor(inMemoryWeight) \in Nat
  BY <1>1, RoomInBlocks DEF JournalistInv
<1>4. IndicesOK' /\ CapacityBounded'
  <2>1. BlockCapacity * NumJournalBlocks \in Nat
    BY WeightAssumption, NumJournalBlocksAssumption
  <2>2. inMemoryWeight' \in 0 .. (BlockCapacity * NumJournalBlocks)
    BY <1>2, <2>1
  <2>3. /\ writtenJournalBlocks' \in 0 .. NumJournalBlocks
        /\ frozenJournalBlocks' \in 0 .. NumJournalBlocks
    BY <1>1, <1>2, <1>3, NumJournalBlocksAssumption DEF JournalistInv, IndicesOK
  <2>. QED  BY <1>1, <1>2, <2>2, <2>3
         DEF JournalistInv, IndicesOK, CapacityBounded, Capacity
<1>5. BlockCapacity * (writtenJournalBlocks' + frozenJournalBlocks') + inMemoryWeight'
        <= BlockCapacity * NumJournalBlocks
  BY <1>1, <1>2, <1>3, TimesMonotone, WeightAssumption, NumJournalBlocksAssumption
<1>6. MinEntryWeight * 0 = 0
  BY EntriesAssumption
<1>. QED  BY <1>2, <1>4, <1>5, <1>6 DEF JournalistInv

LEMMA UpdateWrittenKeepsInv ==
  ASSUME JournalistInv, NEW len \in 0 .. NumJournalBlocks, UpdateWrittenJournalLen(len)
  PROVE  JournalistInv'
<1>1. /\ writtenJournalBlocks \in Nat /\ frozenJournalBlocks \in Nat
      /\ inMemoryWeight \in Nat
      /\ BlockCapacity * (writtenJournalBlocks + frozenJournalBlocks) + inMemoryWeight
           <= BlockCapacity * NumJournalBlocks
  BY DEF JournalistInv, IndicesOK
<1>2. /\ len <= writtenJournalBlocks /\ writtenJournalBlocks' = len
      /\ UNCHANGED <<journalEntries, start, len1, len2, frozenJournalBlocks,
                     inMemoryWeight>>
  BY DEF UpdateWrittenJournalLen
<1>3. IndicesOK' /\ CapacityBounded'
  BY <1>2 DEF JournalistInv, IndicesOK, CapacityBounded, Capacity
<1>4. /\ BlockCapacity * (len + frozenJournalBlocks)
            <= BlockCapacity * (writtenJournalBlocks + frozenJournalBlocks)
      /\ BlockCapacity * (len + frozenJournalBlocks) \in Nat
      /\ BlockCapacity * (writtenJournalBlocks + frozenJournalBlocks) \in Nat
      /\ BlockCapacity * NumJournalBlocks \in Nat
  BY <1>1, <1>2, TimesMonotone, WeightAssumption, NumJournalBlocksAssumption
<1>5. BlockCapacity * (len + frozenJournalBlocks) + inMemoryWeight
        <= BlockCapacity * NumJournalBlocks
  BY <1>1, <1>4
<1>. QED  BY <1>2, <1>3, <1>5 DEF JournalistInv

LEMMA SetWrittenKeepsInv ==
  ASSUME JournalistInv, NEW len \in 0 .. NumJournalBlocks, SetWrittenJournalLen(len)
  PROVE  JournalistInv'
<1>1. /\ len1 = 0 /\ len2 = 0 /\ inMemoryWeight = 0
      /\ writtenJournalBlocks' = len /\ frozenJournalBlocks' = 0
      /\ UNCHANGED <<journalEntries, start, len1, len2, inMemoryWeight>>
  BY DEF JournalistInv, SetWrittenJournalLen
<1>2. IndicesOK' /\ CapacityBounded'
  BY <1>1, NumJournalBlocksAssumption
    DEF JournalistInv, IndicesOK, CapacityBounded, Capacity
<1>3. BlockCapacity * (len + 0) + 0 <= BlockCapacity * NumJournalBlocks
  BY TimesMonotone, WeightAssumption, NumJournalBlocksAssumption
<1>4. MinEntryWeight * 0 = 0 /\ BlockCapacity * 0 = 0
  BY EntriesAssumption, WeightAssumption
<1>. QED  BY <1>1, <1>2, <1>3, <1>4 DEF JournalistInv

\* Every operation keeps the invariant.
LEMMA NextKeepsJournalistInv == JournalistInv /\ [Next]_vars => JournalistInv'
<1>. SUFFICES ASSUME JournalistInv, [Next]_vars PROVE JournalistInv'
  OBVIOUS
<1>1. CASE \E e \in Entry : AppendEntry(e)
  BY <1>1, AppendKeepsInv
<1>2. CASE Freeze
  BY <1>2, FreezeKeepsInv
<1>3. CASE PackageFrozenJournal
  BY <1>3, PackageFrozenKeepsInv
<1>4. CASE PackageInMemoryJournal
  BY <1>4, PackageInMemoryKeepsInv
<1>5. CASE \E len \in 0 .. NumJournalBlocks :
             SetWrittenJournalLen(len) \/ UpdateWrittenJournalLen(len)
  BY <1>5, SetWrittenKeepsInv, UpdateWrittenKeepsInv
<1>6. CASE UNCHANGED vars
  BY <1>6 DEF vars, counters, JournalistInv, IndicesOK, CapacityBounded, Capacity
<1>. QED  BY <1>1, <1>2, <1>3, <1>4, <1>5, <1>6 DEF Next

\* The journalist's invariant holds in every state: no index out of bounds, no
\* overfull region, no array past its limit.
THEOREM JournalistInvariance == Spec => []JournalistInv
  BY InitJournalistInv, NextKeepsJournalistInv, PTL DEF Spec

\* No index leaves the array.
THEOREM IndicesInRange == Spec => []IndicesOK
<1>1. JournalistInv => IndicesOK
  BY DEF JournalistInv
<1>. QED  BY <1>1, JournalistInvariance, PTL

\* The array never outgrows its limit.
THEOREM CapacityStaysBounded == Spec => []CapacityBounded
<1>1. JournalistInv => CapacityBounded
  BY DEF JournalistInv
<1>. QED  BY <1>1, JournalistInvariance, PTL

-----------------------------------------------------------------------------
\* The two queues

\* The entry at position k of the array's entries, from start on.
EntryAt(k) == journalEntries[BasicMod(start + k - 1, Capacity) + 1]

frozen == CyclicSlice(journalEntries, start, len1)
inMemory == CyclicSlice(journalEntries, BasicMod(start + len1, Capacity), len2)

\* Both queues, entry by entry.
LEMMA QueuesEntries ==
  ASSUME IndicesOK
  PROVE  /\ frozen \in Seq(Item) /\ Len(frozen) = len1
         /\ \A k \in 1 .. len1 : frozen[k] = EntryAt(k)
         /\ inMemory \in Seq(Item) /\ Len(inMemory) = len2
         /\ \A k \in 1 .. len2 : inMemory[k] = EntryAt(len1 + k)
<1>. DEFINE mid == BasicMod(start + len1, Capacity)
<1>1. /\ journalEntries \in Seq(Item) /\ Capacity = Len(journalEntries)
      /\ Capacity \in Nat /\ start \in 0 .. (Capacity - 1)
      /\ len1 \in Nat /\ len2 \in Nat /\ len1 + len2 <= Capacity
      /\ len1 \in 0 .. Capacity /\ len2 \in 0 .. Capacity
  BY DEF IndicesOK, Capacity, Item
<1>2. mid \in 0 .. (Capacity - 1)
  BY <1>1 DEF BasicMod
<1>3. /\ frozen \in Seq(Item) /\ Len(frozen) = len1
      /\ \A k \in 1 .. len1 : frozen[k] = EntryAt(k)
  BY <1>1, SliceType DEF frozen, EntryAt
<1>4. /\ inMemory \in Seq(Item) /\ Len(inMemory) = len2
      /\ \A k \in 1 .. len2 :
           inMemory[k] = journalEntries[BasicMod(mid + k - 1, Capacity) + 1]
  <2>1. inMemory = CyclicSlice(journalEntries, mid, len2)
    BY DEF inMemory
  <2>. HIDE DEF mid
  <2>. QED  BY <1>1, <1>2, <2>1, SliceType
<1>5. ASSUME NEW k \in 1 .. len2
      PROVE  BasicMod(mid + k - 1, Capacity) = BasicMod(start + (len1 + k) - 1, Capacity)
  BY <1>1 DEF BasicMod
<1>6. \A k \in 1 .. len2 : inMemory[k] = EntryAt(len1 + k)
  <2>. HIDE DEF mid
  <2>. QED  BY <1>4, <1>5 DEF EntryAt
<1>. QED  BY <1>3, <1>4, <1>6

\* The same as a formula, which also holds of the next state.
LEMMA QueuesEntriesFormula ==
  IndicesOK =>
    /\ frozen \in Seq(Item) /\ Len(frozen) = len1
    /\ \A k \in 1 .. len1 : frozen[k] = EntryAt(k)
    /\ inMemory \in Seq(Item) /\ Len(inMemory) = len2
    /\ \A k \in 1 .. len2 : \A j \in Nat : j = len1 + k => inMemory[k] = EntryAt(j)
  BY QueuesEntries

\* An append, with or without a new array, keeps every entry at its position
\* from start and puts the new one behind them.
LEMMA AppendEntryAt ==
  ASSUME IndicesOK, NEW e \in Entry, AppendEntry(e)
  PROVE  /\ \A k \in 1 .. (len1 + len2) : EntryAt(k)' = EntryAt(k)
         /\ journalEntries'[BasicMod(start' + len1 + len2, Capacity') + 1] = e
<1>1. /\ journalEntries \in Seq(Item) /\ Capacity = Len(journalEntries)
      /\ Capacity \in Nat /\ start \in 0 .. (Capacity - 1)
      /\ len1 \in Nat /\ len2 \in Nat /\ len1 + len2 <= Capacity
  BY DEF IndicesOK, Capacity, Item
<1>2. CASE len1 + len2 < Capacity
  <2>. DEFINE i == BasicMod(start + len1 + len2, Capacity) + 1
  <2>1. i \in 1 .. Len(journalEntries)
    BY <1>1, <1>2 DEF BasicMod
  <2>2. journalEntries' = [journalEntries EXCEPT ![i] = e] /\ start' = start
    BY <1>2 DEF AppendEntry
  <2>3. Capacity' = Capacity
    BY <1>1, <1>2, AppendArray
  <2>4. ASSUME NEW k \in 1 .. (len1 + len2)
        PROVE  /\ BasicMod(start + k - 1, Capacity) + 1 \in 1 .. Len(journalEntries)
               /\ BasicMod(start + k - 1, Capacity) + 1 # i
    BY <1>1, <1>2 DEF BasicMod
  <2>. HIDE DEF i
  <2>5. \A j \in 1 .. Len(journalEntries) :
          journalEntries'[j] = IF j = i THEN e ELSE journalEntries[j]
    BY <1>1, <2>1, <2>2, ExceptSeq
  <2>6. \A k \in 1 .. (len1 + len2) : EntryAt(k)' = EntryAt(k)
    BY <2>2, <2>3, <2>4, <2>5 DEF EntryAt
  <2>7. journalEntries'[BasicMod(start' + len1 + len2, Capacity') + 1] = e
    BY <2>1, <2>2, <2>3, <2>5 DEF i
  <2>. QED  BY <2>6, <2>7
<1>3. CASE ~(len1 + len2 < Capacity)
  <2>1. /\ journalEntries' = ReallocJournalEntries(e) /\ start' = 0
        /\ len1 + len2 = Capacity /\ Capacity' = 2 * Capacity
    BY <1>1, <1>3, AppendArray DEF AppendEntry
  <2>2. \A i \in 1 .. (2 * Capacity) :
          journalEntries'[i] =
            IF i <= Capacity - start THEN journalEntries[start + i]
            ELSE IF i <= Capacity THEN journalEntries[i - (Capacity - start)]
            ELSE IF i = Capacity + 1 THEN e ELSE None
    BY <2>1 DEF ReallocJournalEntries
  <2>3. ASSUME NEW k \in 1 .. Capacity
        PROVE  EntryAt(k)' = EntryAt(k)
    <3>1. EntryAt(k)' = journalEntries'[k] /\ k \in 1 .. (2 * Capacity)
      BY <1>1, <2>1 DEF EntryAt, BasicMod
    <3>2. BasicMod(start + k - 1, Capacity) + 1
            = IF k <= Capacity - start THEN start + k ELSE k - (Capacity - start)
      BY <1>1 DEF BasicMod
    <3>3. journalEntries'[k] =
            IF k <= Capacity - start THEN journalEntries[start + k]
            ELSE journalEntries[k - (Capacity - start)]
      BY <1>1, <2>2, <3>1
    <3>. QED  BY <3>1, <3>2, <3>3 DEF EntryAt
  <2>4. journalEntries'[BasicMod(start' + len1 + len2, Capacity') + 1] = e
    <3>1. BasicMod(start' + len1 + len2, Capacity') + 1 = Capacity + 1
      BY <1>1, <2>1 DEF BasicMod
    <3>2. /\ Capacity + 1 \in 1 .. (2 * Capacity)
          /\ ~(Capacity + 1 <= Capacity - start) /\ ~(Capacity + 1 <= Capacity)
      BY <1>1
    <3>. QED  BY <2>2, <3>1, <3>2
  <2>. QED  BY <2>1, <2>3, <2>4
<1>. QED  BY <1>2, <1>3

LEMMA AppendRefines ==
  ASSUME JournalistInv, JournalistInv', NEW e \in Entry, AppendEntry(e)
  PROVE  Queues!AppendEntry(e)
<1>1. IndicesOK /\ IndicesOK' /\ len1 \in Nat /\ len2 \in Nat
  BY DEF JournalistInv, IndicesOK
<1>2. len1' = len1 /\ len2' = len2 + 1 /\ packaged' = packaged
  BY DEF AppendEntry
<1>3. /\ \A k \in 1 .. (len1 + len2) : EntryAt(k)' = EntryAt(k)
      /\ \A k \in Nat : k = len1 + len2 + 1 => EntryAt(k)' = e
  <2>1. ASSUME NEW k \in Nat, k = len1 + len2 + 1
        PROVE  EntryAt(k)' = e
    <3>1. start' \in Nat
      <4>1. journalEntries' \in Seq(Item) /\ start' \in 0 .. (Len(journalEntries') - 1)
        BY <1>1 DEF IndicesOK, Capacity, Item
      <4>2. Len(journalEntries') \in Nat
        BY <4>1
      <4>. QED  BY <4>1, <4>2
    <3>2. start' + k - 1 = start' + len1 + len2
      BY <1>1, <2>1, <3>1
    <3>. QED  BY <1>1, <3>2, AppendEntryAt DEF EntryAt
  <2>. QED  BY <1>1, <2>1, AppendEntryAt
<1>4. /\ frozen \in Seq(Item) /\ Len(frozen) = len1
      /\ \A k \in 1 .. len1 : frozen[k] = EntryAt(k)
      /\ inMemory \in Seq(Item) /\ Len(inMemory) = len2
      /\ \A k \in 1 .. len2 : inMemory[k] = EntryAt(len1 + k)
  BY <1>1, QueuesEntries
<1>5. /\ frozen' \in Seq(Item) /\ Len(frozen') = len1
      /\ \A k \in 1 .. len1 : frozen'[k] = EntryAt(k)'
      /\ inMemory' \in Seq(Item) /\ Len(inMemory') = len2 + 1
      /\ \A k \in 1 .. (len2 + 1) : \A j \in Nat : j = len1 + k => inMemory'[k] = EntryAt(j)'
  <2>1. (/\ frozen \in Seq(Item) /\ Len(frozen) = len1
         /\ \A k \in 1 .. len1 : frozen[k] = EntryAt(k)
         /\ inMemory \in Seq(Item) /\ Len(inMemory) = len2
         /\ \A k \in 1 .. len2 : \A j \in Nat : j = len1 + k => inMemory[k] = EntryAt(j))'
    BY <1>1, QueuesEntriesFormula, PTL
  <2>. QED  BY <1>2, <2>1
<1>6. frozen' = frozen
  <2>1. \A k \in 1 .. len1 : frozen'[k] = frozen[k]
    BY <1>1, <1>3, <1>4, <1>5
  <2>. QED  BY <1>4, <1>5, <2>1, SeqEqual
<1>7. inMemory' = Append(inMemory, e)
  <2>1. /\ Append(inMemory, e) \in Seq(Item) /\ Len(Append(inMemory, e)) = len2 + 1
        /\ \A k \in 1 .. len2 : Append(inMemory, e)[k] = inMemory[k]
        /\ Append(inMemory, e)[len2 + 1] = e
    BY <1>4, AppendProperties DEF Item
  <2>2. ASSUME NEW k \in 1 .. (len2 + 1)
        PROVE  inMemory'[k] = Append(inMemory, e)[k]
    <3>1. PICK j \in Nat : j = len1 + k
      BY <1>1
    <3>2. inMemory'[k] = EntryAt(j)'
      BY <1>5, <3>1
    <3>3. CASE k <= len2
      BY <1>1, <1>3, <1>4, <2>1, <3>1, <3>2, <3>3
    <3>4. CASE k = len2 + 1
      BY <1>1, <1>3, <2>1, <3>1, <3>2, <3>4
    <3>5. k <= len2 \/ k = len2 + 1
      BY <1>1
    <3>. QED  BY <3>3, <3>4, <3>5
  <2>3. inMemory' \in Seq(Item) /\ Len(inMemory') = len2 + 1
    BY <1>5
  <2>4. \A k \in 1 .. Len(inMemory') : inMemory'[k] = Append(inMemory, e)[k]
    BY <2>2, <2>3
  <2>. QED  BY <2>1, <2>3, <2>4, SeqEqual
<1>. QED  BY <1>2, <1>6, <1>7 DEF Queues!AppendEntry, frozen, inMemory

LEMMA FreezeRefines ==
  ASSUME JournalistInv, Freeze
  PROVE  Queues!Freeze
<1>1. /\ journalEntries \in Seq(Item) /\ Capacity = Len(journalEntries)
      /\ start \in 0 .. (Capacity - 1)
      /\ len1 \in Nat /\ len2 \in Nat /\ len1 + len2 <= Capacity
  BY DEF JournalistInv, IndicesOK, Capacity, Item
<1>2. frozen \o inMemory = CyclicSlice(journalEntries, start, len1 + len2)
  BY <1>1, SliceConcat DEF frozen, inMemory
<1>3. /\ len1' = len1 + len2 /\ len2' = 0
      /\ UNCHANGED <<journalEntries, start, packaged>>
  BY DEF Freeze
<1>4. frozen' = frozen \o inMemory
  BY <1>2, <1>3 DEF frozen
<1>5. inMemory' = <<>>
  BY <1>3, EmptySlice DEF inMemory
<1>. QED  BY <1>3, <1>4, <1>5 DEF Queues!Freeze, frozen, inMemory

LEMMA PackageFrozenRefines ==
  ASSUME JournalistInv, PackageFrozenJournal
  PROVE  Queues!PackageFrozenJournal
<1>1. IndicesOK /\ Capacity = Len(journalEntries)
      /\ start \in 0 .. (Capacity - 1) /\ len1 \in Nat /\ len1 <= Capacity
  BY DEF JournalistInv, IndicesOK, Capacity
<1>2. /\ packaged' = frozen /\ len1 # 0
      /\ start' = BasicMod(start + len1, Capacity) /\ len1' = 0
      /\ UNCHANGED <<journalEntries, len2>>
  BY <1>1 DEF PackageFrozenJournal, StartAfterFrozen, frozen
<1>3. frozen # <<>>
  <2>1. Len(frozen) = len1
    BY <1>1, QueuesEntries
  <2>. QED  BY <1>2, <2>1
<1>4. frozen' = <<>>
  BY <1>2, EmptySlice DEF frozen
<1>5. inMemory' = inMemory
  <2>1. Capacity' = Capacity
    BY <1>2 DEF Capacity
  <2>2. BasicMod(start' + len1', Capacity') = start'
    BY <1>1, <1>2, <2>1 DEF BasicMod
  <2>. QED  BY <1>2, <2>2 DEF inMemory
<1>. QED  BY <1>2, <1>3, <1>4, <1>5 DEF Queues!PackageFrozenJournal, frozen, inMemory

LEMMA PackageInMemoryRefines ==
  ASSUME JournalistInv, PackageInMemoryJournal
  PROVE  Queues!PackageInMemoryJournal
<1>1. IndicesOK /\ Capacity = Len(journalEntries)
      /\ start \in 0 .. (Capacity - 1) /\ len2 \in Nat
  BY DEF JournalistInv, IndicesOK, Capacity
<1>2. /\ len1 = 0 /\ len1' = 0 /\ len2 # 0 /\ len2' = 0
      /\ packaged' = CyclicSlice(journalEntries, start, len2)
  BY DEF PackageInMemoryJournal
<1>3. packaged' = inMemory
  <2>1. BasicMod(start + len1, Capacity) = start
    BY <1>1, <1>2 DEF BasicMod
  <2>. QED  BY <1>2, <2>1 DEF inMemory
<1>4. inMemory # <<>>
  <2>1. Len(inMemory) = len2
    BY <1>1, QueuesEntries
  <2>. QED  BY <1>2, <2>1
<1>5. frozen = <<>> /\ frozen' = <<>> /\ inMemory' = <<>>
  BY <1>2, EmptySlice DEF frozen, inMemory
<1>. QED  BY <1>3, <1>4, <1>5 DEF Queues!PackageInMemoryJournal, frozen, inMemory

LEMMA UnchangedQueues ==
  ASSUME UNCHANGED <<journalEntries, start, len1, len2, packaged>>
  PROVE  UNCHANGED Queues!vars
<1>1. Capacity' = Capacity
  BY DEF Capacity
<1>. QED  BY <1>1 DEF Queues!vars

\* Every operation on the array is the queues' operation of the same name, or
\* leaves both queues as they are.
LEMMA NextRefines ==
  JournalistInv /\ JournalistInv' /\ [Next]_vars => [Queues!Next]_Queues!vars
<1>. SUFFICES ASSUME JournalistInv, JournalistInv', [Next]_vars
              PROVE  Queues!Next \/ UNCHANGED Queues!vars
  OBVIOUS
<1>1. CASE \E e \in Entry : AppendEntry(e)
  BY <1>1, AppendRefines DEF Queues!Next
<1>2. CASE Freeze
  BY <1>2, FreezeRefines DEF Queues!Next
<1>3. CASE PackageFrozenJournal
  BY <1>3, PackageFrozenRefines DEF Queues!Next
<1>4. CASE PackageInMemoryJournal
  BY <1>4, PackageInMemoryRefines DEF Queues!Next
<1>5. CASE \E len \in 0 .. NumJournalBlocks :
             SetWrittenJournalLen(len) \/ UpdateWrittenJournalLen(len)
  BY <1>5, UnchangedQueues DEF SetWrittenJournalLen, UpdateWrittenJournalLen
<1>6. CASE UNCHANGED vars
  BY <1>6, UnchangedQueues DEF vars
<1>. QED  BY <1>1, <1>2, <1>3, <1>4, <1>5, <1>6 DEF Next

\* The circular array implements the two queues: no entry is lost, repeated or
\* reordered, and what is marshalled is a whole queue.
THEOREM ArrayImplementsQueues == Spec => RefinesJournalQueues
<1>1. Init => Queues!Init
  BY EmptySlice DEF Init, Queues!Init
<1>. QED  BY <1>1, NextRefines, JournalistInvariance, PTL
       DEF Spec, RefinesJournalQueues, Queues!Spec
=============================================================================
