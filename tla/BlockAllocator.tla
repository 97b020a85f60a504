--------------------------- MODULE BlockAllocator ---------------------------
(***************************************************************************)
(* The allocator of node blocks (Impl/BlockAllocatorImpl): five bitmaps    *)
(* over the block indices of the device.  ephemeral, frozen and persistent *)
(* are the blocks of the three indirection tables, outstanding those being *)
(* written, and full is kept equal to their union so that a free block is  *)
(* found in one search.  A bitmap is the set of its 1 bits; frozen is      *)
(* empty when there is no frozen table.                                    *)
(***************************************************************************)
EXTENDS Naturals

CONSTANTS
  NumBlocks,           \* blocks of the device
  MinNodeBlockIndex    \* the first block that may hold a node

ASSUME LayoutAssumption ==
  /\ NumBlocks \in Nat /\ MinNodeBlockIndex \in Nat
  /\ MinNodeBlockIndex < NumBlocks

BlockIndex == 0 .. (NumBlocks - 1)
Reserved   == 0 .. (MinNodeBlockIndex - 1)
NodeBlock  == MinNodeBlockIndex .. (NumBlocks - 1)

BlockAllocator ==
  [ephemeral : SUBSET BlockIndex, frozen : SUBSET BlockIndex,
   persistent : SUBSET BlockIndex, outstanding : SUBSET BlockIndex,
   full : SUBSET BlockIndex]

\* From the bitmap of the table that was loaded.
NewBlockAllocator(bm) ==
  [ephemeral |-> bm, frozen |-> {}, persistent |-> bm, outstanding |-> {}, full |-> bm]

\* The lowest free block: a set of one index, or of none when the device is full.
Alloc(ba) ==
  {i \in BlockIndex \ ba.full : \A j \in BlockIndex \ ba.full : i <= j}

MarkUsedEphemeral(ba, i) ==
  [ba EXCEPT !.ephemeral = @ \cup {i}, !.full = @ \cup {i}]

MarkUsedFrozen(ba, i) ==
  [ba EXCEPT !.frozen = @ \cup {i}, !.full = @ \cup {i}]

MarkUsedOutstanding(ba, i) ==
  [ba EXCEPT !.outstanding = @ \cup {i}, !.full = @ \cup {i}]

\* Mistakes: the block is free although the persistent, or the frozen, table
\* still holds it.
MarkFreeEphemeralForgetsPersistent(ba, i) ==
  [ba EXCEPT !.ephemeral = @ \ {i},
             !.full = IF i \in ba.frozen \cup ba.outstanding THEN @ ELSE @ \ {i}]

MarkFreeEphemeralForgetsFrozen(ba, i) ==
  [ba EXCEPT !.ephemeral = @ \ {i},
             !.full = IF i \in ba.persistent \cup ba.outstanding THEN @ ELSE @ \ {i}]

MarkFreeEphemeral(ba, i) ==
  [ba EXCEPT !.ephemeral = @ \ {i},
             !.full = IF i \in ba.frozen \cup ba.outstanding \cup ba.persistent
                      THEN @ ELSE @ \ {i}]

MarkFreeOutstanding(ba, i) ==
  [ba EXCEPT !.outstanding = @ \ {i},
             !.full = IF i \in ba.frozen \cup ba.ephemeral \cup ba.persistent
                      THEN @ ELSE @ \ {i}]

\* A mistake: a block being written belongs to no table and is taken for free.
MoveFrozenForgetsOutstanding(ba) ==
  [ba EXCEPT !.persistent = ba.frozen, !.frozen = {},
             !.full = ba.ephemeral \cup ba.frozen]

MoveFrozenToPersistent(ba) ==
  [ba EXCEPT !.persistent = ba.frozen, !.frozen = {},
             !.full = ba.ephemeral \cup ba.frozen \cup ba.outstanding]

CopyEphemeralToFrozen(ba) == [ba EXCEPT !.frozen = ba.ephemeral]
=============================================================================
