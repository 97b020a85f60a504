--------------------------- MODULE JournalBlocks ---------------------------
(***************************************************************************)
(* The journal region of the disk: a ring of NumJournalBlocks blocks, the  *)
(* cyclic intervals that name parts of it (BlockCacheSystem/               *)
(* JournalInterval, DiskLayout), and the format of what is written there   *)
(* (JournalRange, JournalistMarshalling, JournalistParsing).               *)
(***************************************************************************)
EXTENDS Integers, SequencesExt

CONSTANTS
  NumJournalBlocks,   \* 64 * 1024 in DiskLayout
  BlockCapacity,      \* bytes of payload in a block: 4096 - 32 of checksum
  HeaderWeight,       \* bytes of the header of a chunk: nentries and nblocks
  Entry,              \* journal entries
  EntryWeight,        \* bytes an entry takes: 8 + |key| + |value|
  None                \* absent value of an Option<..>

ASSUME NumJournalBlocksAssumption == NumJournalBlocks \in Nat \ {0}

\* An entry with the longest key and value (1024 bytes each) fits one block.
ASSUME WeightAssumption ==
  /\ BlockCapacity \in Nat \ {0}
  /\ HeaderWeight \in Nat \ {0}
  /\ EntryWeight \in [Entry -> Nat \ {0}]
  /\ \A e \in Entry : HeaderWeight + EntryWeight[e] <= BlockCapacity

-----------------------------------------------------------------------------
\* Cyclic intervals of the ring

Pos == 0 .. (NumJournalBlocks - 1)

JournalInterval == [start : Pos, len : 0 .. NumJournalBlocks]

\* A mistake: the position runs past the end of the region.
JournalPosAddUnwrapped(a, b) == a + b

\* start_pos_add: one wrap-around, never more.
JournalPosAdd(a, b) ==
  IF a + b >= NumJournalBlocks THEN a + b - NumJournalBlocks ELSE a + b

InCyclicRange(i, interval) ==
  \/ interval.start <= i /\ i < interval.start + interval.len
  \/ /\ interval.start <= i + NumJournalBlocks
     /\ i + NumJournalBlocks < interval.start + interval.len

\* The part of an interval up to the end of the region, and the wrapped part.
FrontInterval(interval) ==
  [start |-> interval.start,
   len   |-> IF interval.start + interval.len >= NumJournalBlocks
             THEN NumJournalBlocks - interval.start ELSE interval.len]

\* A mistake: one block too many.
BackIntervalOneMore(interval) ==
  [start |-> 0, len |-> interval.start + interval.len - NumJournalBlocks + 1]

BackInterval(interval) ==
  [start |-> 0, len |-> interval.start + interval.len - NumJournalBlocks]

HasFront(interval) == interval.len > 0
HasBack(interval)  == interval.start + interval.len > NumJournalBlocks

\* A mistake: what runs past the end of the region is not written.
SpliceUnwrapped(journal, start, range) ==
  [i \in Pos |->
     IF start <= i /\ i < start + Len(range) THEN range[i - start + 1] ELSE journal[i]]

\* The ring with a range of blocks written at start.
CyclicSplice(journal, start, range) ==
  [i \in Pos |->
     IF start <= i /\ i < start + Len(range)
       THEN range[i - start + 1]
     ELSE IF start <= i + NumJournalBlocks /\ i + NumJournalBlocks < start + Len(range)
       THEN range[i + NumJournalBlocks - start + 1]
     ELSE journal[i]]

JournalRangeAt(journal, interval) ==
  [k \in 1 .. interval.len |-> journal[JournalPosAdd(interval.start, k - 1)]]

-----------------------------------------------------------------------------
\* Weights and the format of a chunk

WeightJournalEntries(entries) ==
  IF entries = <<>> THEN 0
  ELSE FoldLeft(LAMBDA w, e : w + EntryWeight[e], HeaderWeight, entries)

\* A mistake: the number of blocks is rounded down.
BlocksForRoundedDown(weight) == weight \div BlockCapacity

\* Blocks needed for a number of bytes.
BlocksFor(weight) == (weight + BlockCapacity - 1) \div BlockCapacity

(***************************************************************************)
(* A block on disk is the index-th of the n blocks one write encoded its   *)
(* entries in.  The header (nentries, nblocks) is in the first of them and *)
(* entries may straddle blocks, so a chunk is readable only as a whole.    *)
(***************************************************************************)
Block == [entries : Seq(Entry), index : 0 .. (NumJournalBlocks - 1),
          nblocks : 1 .. NumJournalBlocks]

ASSUME NoneAssumption == None \notin Block

MarshallJournalEntries(entries, n) ==
  [k \in 1 .. n |-> [entries |-> entries, index |-> k - 1, nblocks |-> n]]

\* Every block has a good checksum.
HasJournalRange(range) == \A k \in DOMAIN range : range[k] # None

\* The blocks are whole chunks, one after the other.
Parses(range) ==
  \A k \in DOMAIN range :
    LET block == range[k]
    IN  /\ block.index < k
        /\ k - block.index + block.nblocks - 1 <= Len(range)
        /\ \A m \in 0 .. (block.nblocks - 1) :
             range[k - block.index + m] = [block EXCEPT !.index = m]

\* What a journal that parses says.
ParsedEntries(range) ==
  FlattenSeq([k \in DOMAIN range |->
                IF range[k].index = 0 THEN range[k].entries ELSE <<>>])
=============================================================================
