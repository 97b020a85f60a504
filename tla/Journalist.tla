----------------------------- MODULE Journalist -----------------------------
(***************************************************************************)
(* The circular array in which the journalist (Impl/JournalistImpl) keeps  *)
(* both queues of entries, and its counters:                               *)
(*                                                                         *)
(*        start          start+len1          start+len1+len2               *)
(*    ------[ frozen entries )[ in-memory entries )------  modulo its size *)
(*                                                                         *)
(* Committer keeps the same queues as sequences; the replay journal and    *)
(* the parts read at a start, which are not in the array, are modelled     *)
(* there.  Sequences count from 1, the positions of the array from 0.      *)
(***************************************************************************)
EXTENDS JournalBlocks

CONSTANTS
  InitialCapacity,     \* 4096: the length of a new array
  MaxPossibleEntries,  \* 32 * 2^20
  MinEntryWeight       \* 8: the bytes of an entry with empty key and value

ASSUME CapacityAssumption ==
  /\ MaxPossibleEntries \in Nat \ {0}
  /\ InitialCapacity \in 1 .. (2 * MaxPossibleEntries)

\* As many entries as fit the region are fewer than MaxPossibleEntries.
ASSUME EntriesAssumption ==
  /\ MinEntryWeight \in Nat \ {0}
  /\ \A e \in Entry : MinEntryWeight <= EntryWeight[e]
  /\ BlockCapacity * NumJournalBlocks <= MinEntryWeight * MaxPossibleEntries

ASSUME FillerAssumption == None \notin Entry

VARIABLES
  journalEntries,         \* the array; None where no entry was ever put
  start, len1, len2,      \* the two queues in it
  writtenJournalBlocks,   \* blocks written on disk
  frozenJournalBlocks,    \* blocks reserved for the frozen entries
  inMemoryWeight,         \* bytes of the in-memory entries
  packaged                \* what MarshallJournalEntries read last

counters == <<writtenJournalBlocks, frozenJournalBlocks, inMemoryWeight>>
vars == <<journalEntries, start, len1, len2, counters, packaged>>

Capacity == Len(journalEntries)

BasicMod(x, len) == IF x >= len THEN x - len ELSE x

\* The l entries of the array from a position on, around its end.
CyclicSlice(entries, from, l) ==
  [k \in 1 .. l |-> entries[BasicMod(from + k - 1, Len(entries)) + 1]]

Init ==
  /\ journalEntries = [i \in 1 .. InitialCapacity |-> None]
  /\ start = 0 /\ len1 = 0 /\ len2 = 0
  /\ writtenJournalBlocks = 0 /\ frozenJournalBlocks = 0 /\ inMemoryWeight = 0
  /\ packaged = <<>>

NewWeight(e) ==
  inMemoryWeight + EntryWeight[e] + (IF len2 = 0 THEN HeaderWeight ELSE 0)

CanAppend(e) ==
  BlockCapacity * (writtenJournalBlocks + frozenJournalBlocks) + NewWeight(e)
    <= BlockCapacity * NumJournalBlocks

\* A mistake: the old array is copied as it stands.
ReallocUnrotated(e) ==
  [i \in 1 .. (2 * Capacity) |->
     IF i <= Capacity THEN journalEntries[i]
     ELSE IF i = Capacity + 1 THEN e
     ELSE None]

\* Twice the array, its entries in order from position 0, then the new one.
ReallocJournalEntries(e) ==
  [i \in 1 .. (2 * Capacity) |->
     IF i <= Capacity - start THEN journalEntries[start + i]
     ELSE IF i <= Capacity THEN journalEntries[i - (Capacity - start)]
     ELSE IF i = Capacity + 1 THEN e
     ELSE None]

AppendEntry(e) ==
  /\ CanAppend(e)
  /\ IF len1 + len2 < Capacity
       THEN /\ journalEntries' =
                 [journalEntries EXCEPT ![BasicMod(start + len1 + len2, Capacity) + 1] = e]
            /\ UNCHANGED start
       ELSE /\ journalEntries' = ReallocJournalEntries(e)
            /\ start' = 0
  /\ inMemoryWeight' = NewWeight(e)
  /\ len2' = len2 + 1
  /\ UNCHANGED <<len1, writtenJournalBlocks, frozenJournalBlocks, packaged>>

Freeze ==
  /\ len1' = len1 + len2
  /\ len2' = 0
  /\ frozenJournalBlocks' = frozenJournalBlocks + BlocksFor(inMemoryWeight)
  /\ inMemoryWeight' = 0
  /\ UNCHANGED <<journalEntries, start, writtenJournalBlocks, packaged>>

\* A mistake: the position is not brought back into the array.
StartAfterFrozenUnwrapped == start + len1

StartAfterFrozen == BasicMod(start + len1, Capacity)

PackageFrozenJournal ==
  /\ len1 # 0
  /\ packaged' = CyclicSlice(journalEntries, start, len1)
  /\ start' = StartAfterFrozen
  /\ len1' = 0
  /\ writtenJournalBlocks' = writtenJournalBlocks + frozenJournalBlocks
  /\ frozenJournalBlocks' = 0
  /\ UNCHANGED <<journalEntries, len2, inMemoryWeight>>

\* Called only with no frozen entries left, so that start is where these begin.
PackageInMemoryJournal ==
  /\ len1 = 0 /\ len2 # 0
  /\ packaged' = CyclicSlice(journalEntries, start, len2)
  /\ start' = 0
  /\ len2' = 0
  /\ inMemoryWeight' = 0
  /\ writtenJournalBlocks' = writtenJournalBlocks + BlocksFor(inMemoryWeight)
  /\ UNCHANGED <<journalEntries, len1, frozenJournalBlocks>>

\* The length of the journal found on disk, set before any entry is appended.
SetWrittenJournalLen(len) ==
  /\ len1 = 0 /\ len2 = 0
  /\ writtenJournalBlocks' = len
  /\ frozenJournalBlocks' = 0
  /\ UNCHANGED <<journalEntries, start, len1, len2, inMemoryWeight, packaged>>

\* A location commit hands blocks back to the ring.
UpdateWrittenJournalLen(len) ==
  /\ len <= writtenJournalBlocks
  /\ writtenJournalBlocks' = len
  /\ UNCHANGED <<journalEntries, start, len1, len2, frozenJournalBlocks,
                 inMemoryWeight, packaged>>

Next ==
  \/ \E e \in Entry : AppendEntry(e)
  \/ Freeze
  \/ PackageFrozenJournal
  \/ PackageInMemoryJournal
  \/ \E len \in 0 .. NumJournalBlocks :
       SetWrittenJournalLen(len) \/ UpdateWrittenJournalLen(len)

Spec == Init /\ [][Next]_vars

-----------------------------------------------------------------------------

\* The indices stay inside the array and the counters inside the region
\* (Journalist.WF): no access of mut_seq_set or MarshallJournalEntries is
\* out of bounds.
IndicesOK ==
  /\ journalEntries \in Seq(Entry \cup {None})
  /\ start \in 0 .. (Capacity - 1)
  /\ len1 \in Nat /\ len2 \in Nat /\ len1 + len2 <= Capacity
  /\ writtenJournalBlocks \in 0 .. NumJournalBlocks
  /\ frozenJournalBlocks \in 0 .. NumJournalBlocks
  /\ inMemoryWeight \in 0 .. (BlockCapacity * NumJournalBlocks)

\* The array never grows past twice MaxPossibleEntries, so that basic_mod needs
\* one subtraction and nentries fits its 32 bits: canAppend limits the bytes,
\* and freeze and the package methods never free bytes the entries still take.
CapacityBounded == Capacity <= 2 * MaxPossibleEntries

\* The inductive invariant: written, reserved and unwritten bytes fit the
\* region, and the counters of bytes are never below what the entries take.
JournalistInv ==
  /\ IndicesOK
  /\ CapacityBounded
  /\ BlockCapacity * (writtenJournalBlocks + frozenJournalBlocks) + inMemoryWeight
       <= BlockCapacity * NumJournalBlocks
  /\ MinEntryWeight * len1 <= BlockCapacity * frozenJournalBlocks
  /\ MinEntryWeight * len2 <= inMemoryWeight
  /\ len2 = 0 => inMemoryWeight = 0

\* No doubling, wrap-around or package loses, repeats or reorders an entry, and
\* what is marshalled is a whole queue, frozen entries first.
Queues == INSTANCE JournalQueues WITH
  inMemoryJournalFrozen <- CyclicSlice(journalEntries, start, len1),
  inMemoryJournal <- CyclicSlice(journalEntries, BasicMod(start + len1, Capacity), len2)

RefinesJournalQueues == Queues!Spec
=============================================================================
