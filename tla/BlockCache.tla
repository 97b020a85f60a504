----------------------------- MODULE BlockCache -----------------------------
(***************************************************************************)
(* The block cache: what of the tree is in memory and where the rest is on *)
(* disk (Impl/StateBCImpl and the handlers of Impl, whose state machine is *)
(* BlockCacheSystem/BlockCache).  Three indirection tables describe three  *)
(* versions of the tree: the persistent one, which recovery would read,    *)
(* the frozen one, which is being written, and the ephemeral one, which    *)
(* the operations change.  They share the blocks of the nodes they have in *)
(* common, and all nodes without a block live in one cache.                *)
(*                                                                         *)
(* The operations of the tree are modelled by the nodes they rewrite.  The *)
(* contents of a node are its children and a value that tells the versions *)
(* of one reference apart: rewriting a node changes it, a new node starts  *)
(* with that of the node it is made from (Betree models the contents).     *)
(* Which cached node is evicted (the least recently used), which of        *)
(* several nodes is written or deallocated, and which slot overflows, is   *)
(* left open.                                                              *)
(***************************************************************************)
EXTENDS BlockDisk, SequencesExt, FiniteSets

CONSTANTS
  MaxCacheSize,      \* nodes in the cache or on their way to it
  MaxNumChildren     \* children of a node

ASSUME CacheAssumption == MaxCacheSize \in Nat /\ MaxNumChildren \in Nat

VARIABLES
  mode,                            \* "Unready", "Loading", "Ready"
  persistentIndirectionTable,
  frozenIndirectionTable,          \* or None
  ephemeralIndirectionTable,
  refUpperBound,                   \* of the ephemeral table
  persistentIndirectionTableLoc,   \* while loading, the location to load
  frozenIndirectionTableLoc,       \* or None
  indirectionTableRead,            \* the request, or None
  outstandingIndirectionTableWrite,
  outstandingBlockWrites,          \* request -> [ref, loc]
  outstandingBlockReads,           \* request -> reference
  cache,                           \* reference -> node
  blockAllocator

frozenVars == <<frozenIndirectionTable, frozenIndirectionTableLoc,
                outstandingIndirectionTableWrite>>
persistentVars == <<persistentIndirectionTable, persistentIndirectionTableLoc>>
treeVars == <<ephemeralIndirectionTable, refUpperBound, cache, blockAllocator>>
loadVars == <<mode, indirectionTableRead>>
blockCacheVars == <<loadVars, persistentVars, frozenVars, treeVars,
                    outstandingBlockWrites, outstandingBlockReads>>

EmptyTable == [locs |-> <<>>, graph |-> <<>>]

BlockCacheTypeOK ==
  /\ mode \in {"Unready", "Loading", "Ready"}
  /\ IsTable(persistentIndirectionTable) /\ IsTable(ephemeralIndirectionTable)
  /\ frozenIndirectionTable = None \/ IsTable(frozenIndirectionTable)
  /\ refUpperBound \in Ref
  /\ persistentIndirectionTableLoc \in TableLoc \cup {None}
  /\ frozenIndirectionTableLoc \in TableLoc \cup {None}
  /\ indirectionTableRead \in ReqId \cup {None}
  /\ outstandingIndirectionTableWrite \in ReqId \cup {None}
  /\ DOMAIN outstandingBlockWrites \in SUBSET ReqId
  /\ Range(outstandingBlockWrites) \subseteq [ref : Ref, loc : NodeBlock]
  /\ DOMAIN outstandingBlockReads \in SUBSET ReqId
  /\ Range(outstandingBlockReads) \subseteq Ref
  /\ DOMAIN cache \in SUBSET Ref /\ cache \in [DOMAIN cache -> Node]
  /\ blockAllocator \in BlockAllocator

BlockCacheInit ==
  /\ mode = "Unready"
  /\ persistentIndirectionTable = EmptyTable /\ ephemeralIndirectionTable = EmptyTable
  /\ frozenIndirectionTable = None /\ refUpperBound = 0
  /\ persistentIndirectionTableLoc = None /\ frozenIndirectionTableLoc = None
  /\ indirectionTableRead = None /\ outstandingIndirectionTableWrite = None
  /\ outstandingBlockWrites = <<>> /\ outstandingBlockReads = <<>>
  /\ cache = <<>> /\ blockAllocator = NewBlockAllocator({})

HasFrozen == frozenIndirectionTable # None

CanDirtyAlways(ref) == TRUE      \* a mistake

\* While the frozen version of a node is not written, the node may not change:
\* the cache holds only one version of it.
CanDirty(ref) == HasFrozen => ~HasEmptyLoc(frozenIndirectionTable, ref)

TotalCacheSize ==
  Cardinality(DOMAIN cache) + Cardinality(DOMAIN outstandingBlockReads)

RoomFor(n) == TotalCacheSize <= MaxCacheSize - n

\* The disk handler numbers its requests: an identifier is never one in use.
FreshReqId ==
  ReqId \ (Requests \cup DOMAIN outstandingBlockReads \cup {indirectionTableRead})

-----------------------------------------------------------------------------
(***************************************************************************)
(* Changes of the tree.  An edit is the part of the state that they        *)
(* rewrite, passed from one bookkeeping step to the next.                  *)
(***************************************************************************)
Tree == [table |-> ephemeralIndirectionTable, bound |-> refUpperBound,
         cache |-> cache, allocator |-> blockAllocator]

Commit(e) ==
  /\ ephemeralIndirectionTable' = e.table /\ refUpperBound' = e.bound
  /\ cache' = e.cache /\ blockAllocator' = e.allocator
  /\ UNCHANGED <<loadVars, persistentVars, frozenVars,
                 outstandingBlockWrites, outstandingBlockReads>>

\* The allocator after the ephemeral table has lost the location of ref.
FreeLoc(e, ref) ==
  IF ref \in DOMAIN e.table.locs
  THEN MarkFreeEphemeral(e.allocator, e.table.locs[ref]) ELSE e.allocator

\* A node with new contents and new children.
WriteNode(e, ref, node) ==
  [table     |-> UpdateAndRemoveLoc(e.table, ref, node.children),
   bound     |-> IF ref > e.bound THEN ref ELSE e.bound,
   cache     |-> Put(e.cache, ref, node),
   allocator |-> FreeLoc(e, ref)]

\* A mistake: the location is left in the table.
RewriteNodeKeepsLoc(e, ref, node) == [e EXCEPT !.cache = Put(@, ref, node)]

\* A node with new contents and the children it had.
RewriteNode(e, ref, node) ==
  [table |-> RemoveLoc(e.table, ref), bound |-> e.bound,
   cache |-> Put(e.cache, ref, node), allocator |-> FreeLoc(e, ref)]

RemoveNode(e, ref) ==
  [table |-> RemoveRef(e.table, ref), bound |-> e.bound,
   cache |-> Without(e.cache, ref), allocator |-> FreeLoc(e, ref)]

\* A mistake: the end of the references is not looked for.
NextRef(e, avoid) == {e.bound + 1 + Cardinality(avoid)}

\* The lowest reference above the bound that is not in the cache: a set of one,
\* or of none when references have run out.
FreeRef(e, avoid) ==
  LET free == {r \in Ref : r > e.bound /\ r \notin DOMAIN e.cache \cup avoid}
  IN  {ref \in free : \A r \in free : ref <= r}

\* The nodes reached from the root through the cache, where a query or the flush
\* policy may stand, and the nodes it may miss there.
OnPath ==
  {ref \in DOMAIN cache :
     \A S \in SUBSET DOMAIN cache :
       /\ Root \in DOMAIN cache => Root \in S
       /\ \A p \in S : Range(cache[p].children) \cap DOMAIN cache \subseteq S
       => ref \in S}

Wanted ==
  ({Root} \cup UNION {Range(cache[p].children) : p \in OnPath}) \ DOMAIN cache

\* Where the flush policy splits: a leaf, or a node with all the children it may
\* have.  At the root it grows the tree instead.
IsLeaf(node) == node.children = <<>>
Overflows(node) == IsLeaf(node) \/ Len(node.children) = MaxNumChildren

\* The slots of a node through which the flush policy goes down.
OpenSlots(parent) ==
  IF Overflows(cache[parent]) THEN {}
  ELSE {slot \in DOMAIN cache[parent].children :
          cache[parent].children[slot] \in DOMAIN cache}

-----------------------------------------------------------------------------
\* A node with other contents than before and the children given.
Rewritten(node, children) ==
  [val : Value \ {node.val}, children : {children}]

\* InsertImpl.insertKeyValue: the message goes into a bucket of the root.
InsertKeyValue ==
  /\ mode = "Ready" /\ Root \in DOMAIN cache /\ CanDirty(Root)
  /\ \E root \in Rewritten(cache[Root], cache[Root].children) :
       Commit(RewriteNode(Tree, Root, root))

\* GrowImpl: the root becomes the only child of an empty root.
Grow ==
  /\ mode = "Ready" /\ Root \in DOMAIN cache /\ Overflows(cache[Root])
  /\ RoomFor(1) /\ CanDirty(Root)
  /\ \E newref \in FreeRef(Tree, {}) :
     \E newroot \in Rewritten(cache[Root], <<newref>>) :
       Commit(WriteNode(WriteNode(Tree, newref, cache[Root]), Root, newroot))

\* FlushImpl: messages of one slot move into a copy of the child, which takes
\* its place; the child is left to be deallocated.
Flush(parent, slot) ==
  /\ RoomFor(1) /\ CanDirty(parent)
  /\ LET children == cache[parent].children
     IN  \E newref \in FreeRef(Tree, {}) :
         \E newparent \in Rewritten(cache[parent], [children EXCEPT ![slot] = newref]) :
           Commit(WriteNode(WriteNode(Tree, newref, cache[children[slot]]),
                            parent, newparent))

\* The part of a node with the children from one position to another.
Part(node, from, to) == [node EXCEPT !.children = SubSeq(@, from, to)]

\* SplitImpl: two new nodes share the child's contents and take its place.
Split(parent, slot) ==
  LET children == cache[parent].children
      child    == cache[children[slot]]
      half     == Len(child.children) \div 2
  IN  /\ Overflows(child)
      /\ RoomFor(2) /\ CanDirty(parent)
      /\ \E left \in FreeRef(Tree, {}) : \E right \in FreeRef(Tree, {left}) :
         \E newparent \in Rewritten(cache[parent],
                            InsertAt(ReplaceAt(children, slot, right), slot, left)) :
           Commit(WriteNode(
             WriteNode(WriteNode(Tree, left, Part(child, 1, half)),
                       right, Part(child, half + 1, Len(child.children))),
             parent, newparent))

\* LeafImpl: the only bucket of a leaf is split in two, in place.
RepivotLeaf(ref) ==
  /\ IsLeaf(cache[ref]) /\ CanDirty(ref)
  /\ \E leaf \in Rewritten(cache[ref], <<>>) : Commit(WriteNode(Tree, ref, leaf))

\* FlushPolicyImpl: what it does to make room in the root for one more message.
RunFlushPolicy ==
  /\ mode = "Ready"
  /\ \E parent \in OnPath : \E slot \in OpenSlots(parent) :
       \/ Flush(parent, slot)
       \/ Split(parent, slot)
       \/ RepivotLeaf(cache[parent].children[slot])

-----------------------------------------------------------------------------
\* Deallocation and eviction

\* DeallocImpl: nothing is done while the frozen table needs the node, or while
\* it is being read.
Dealloc(ref) ==
  /\ CanDirty(ref) /\ ref \notin Range(outstandingBlockReads)
  /\ Commit(RemoveNode(Tree, ref))

NeedToWrite(ref) ==
  \/ HasEmptyLoc(ephemeralIndirectionTable, ref)
  \/ HasFrozen /\ HasEmptyLoc(frozenIndirectionTable, ref)

CanEvictAlways(ref) == TRUE      \* a mistake

\* A node whose write is in flight stays, or a read might overtake the write.
CanEvict(ref) ==
  ref \in DOMAIN ephemeralIndirectionTable.graph =>
    [ref |-> ref, loc |-> ephemeralIndirectionTable.locs[ref]]
      \notin Range(outstandingBlockWrites)

\* SyncImpl.TryToWriteBlock: the new location enters both tables, if they have
\* none for the node.  Without a free block nothing is done.
TryToWriteBlock(id, ref) ==
  \E loc \in Alloc(blockAllocator) :
    LET inEphemeral == AddsLoc(ephemeralIndirectionTable, ref)
        inFrozen    == HasFrozen /\ AddsLoc(frozenIndirectionTable, ref)
        used0 == IF inEphemeral THEN MarkUsedEphemeral(blockAllocator, loc)
                                ELSE blockAllocator
        used1 == MarkUsedOutstanding(used0, loc)
    IN  /\ RecvWriteNode(id, loc, cache[ref])
        /\ ephemeralIndirectionTable' = AddLocIfPresent(ephemeralIndirectionTable, ref, loc)
        /\ outstandingBlockWrites' =
             Put(outstandingBlockWrites, id, [ref |-> ref, loc |-> loc])
        /\ frozenIndirectionTable' =
             IF HasFrozen THEN AddLocIfPresent(frozenIndirectionTable, ref, loc) ELSE None
        /\ blockAllocator' = IF inFrozen THEN MarkUsedFrozen(used1, loc) ELSE used1
        /\ UNCHANGED <<loadVars, persistentVars, refUpperBound, frozenIndirectionTableLoc,
                       outstandingIndirectionTableWrite, outstandingBlockReads, cache>>

\* Room is needed for a node to be read, and for the nodes a split adds.
NoRoom ==
  \/ ~RoomFor(1)
  \/ /\ ~RoomFor(2)
     /\ \E parent \in OnPath : \E slot \in OpenSlots(parent) :
          Overflows(cache[cache[parent].children[slot]])

\* EvictImpl.EvictOrDealloc
EvictOrDealloc ==
  /\ mode = "Ready" /\ NoRoom /\ cache # <<>>
  /\ \/ \E ref \in Deallocable(ephemeralIndirectionTable) :
          Dealloc(ref) /\ UNCHANGED blockDiskVars
     \/ /\ Deallocable(ephemeralIndirectionTable) = {}
        /\ \E ref \in DOMAIN cache :
             \/ /\ NeedToWrite(ref) /\ outstandingIndirectionTableWrite = None
                /\ \E id \in FreshReqId : TryToWriteBlock(id, ref)
             \/ /\ ~NeedToWrite(ref) /\ CanEvict(ref)
                /\ cache' = Without(cache, ref)
                /\ UNCHANGED <<loadVars, persistentVars, frozenVars, refUpperBound,
                       ephemeralIndirectionTable, blockAllocator,
                       outstandingBlockWrites, outstandingBlockReads, blockDiskVars>>

-----------------------------------------------------------------------------
\* Reading nodes

\* IOImpl.PageInNodeReq, for a query, a range query, an insertion or the flush
\* policy: one request at a time for each node.
PageInNodeReq(id, ref) ==
  /\ RoomFor(1)
  /\ ref \notin Range(outstandingBlockReads)
  /\ RecvReadNode(id, ephemeralIndirectionTable.locs[ref])
  /\ outstandingBlockReads' = Put(outstandingBlockReads, id, ref)
  /\ UNCHANGED <<loadVars, persistentVars, frozenVars, treeVars, outstandingBlockWrites>>

\* Whether the answer to a read is taken: in every other case it is dropped, and
\* the request stays outstanding.
Accepts(id, node) ==
  /\ mode = "Ready" /\ id \in DOMAIN outstandingBlockReads
  /\ LET ref == outstandingBlockReads[id]
     IN  /\ ref \in DOMAIN ephemeralIndirectionTable.locs
         /\ ref \notin DOMAIN cache
         /\ node # Garbage
         /\ node.children = ephemeralIndirectionTable.graph[ref]

\* IOImpl.PageInNodeResp
PageInNodeResp(id, node) ==
  /\ AckReadNode(id, node)
  /\ IF Accepts(id, node)
     THEN /\ cache' = Put(cache, outstandingBlockReads[id], node)
          /\ outstandingBlockReads' = Without(outstandingBlockReads, id)
     ELSE UNCHANGED <<cache, outstandingBlockReads>>
  /\ UNCHANGED <<loadVars, persistentVars, frozenVars, refUpperBound,
                 ephemeralIndirectionTable, blockAllocator, outstandingBlockWrites>>

-----------------------------------------------------------------------------
\* Loading

\* CoordinationImpl.receiveLoc: the superblock names the table to load.
receiveLoc(loc) ==
  /\ mode = "Unready"
  /\ mode' = "Loading" /\ persistentIndirectionTableLoc' = loc
  /\ UNCHANGED <<indirectionTableRead, persistentIndirectionTable, frozenVars, treeVars,
                 outstandingBlockWrites, outstandingBlockReads>>

PageInIndirectionTableReq(id) ==
  /\ mode = "Loading" /\ indirectionTableRead = None
  /\ RecvReadIndirectionTable(id, persistentIndirectionTableLoc)
  /\ indirectionTableRead' = id
  /\ UNCHANGED <<mode, persistentVars, frozenVars, treeVars,
                 outstandingBlockWrites, outstandingBlockReads>>

\* A table that cannot be read, or is refused, leaves the cache as it was.
PageInIndirectionTableResp(id, table) ==
  /\ AckReadIndirectionTable(id, table)
  /\ IF /\ mode = "Loading" /\ id = indirectionTableRead
        /\ table # Garbage /\ InitLocBitmapSucceeds(table)
     THEN /\ mode' = "Ready" /\ indirectionTableRead' = None
          /\ persistentIndirectionTable' = table /\ ephemeralIndirectionTable' = table
          /\ refUpperBound' = RefUpperBound(table)
          /\ blockAllocator' = NewBlockAllocator(InitLocBitmap(table))
     ELSE UNCHANGED <<loadVars, persistentIndirectionTable, ephemeralIndirectionTable,
                      refUpperBound, blockAllocator>>
  /\ UNCHANGED <<persistentIndirectionTableLoc, frozenVars, cache,
                 outstandingBlockWrites, outstandingBlockReads>>

-----------------------------------------------------------------------------
\* Writing the frozen version

\* SyncImpl.maybeFreeze, when there is nothing left to deallocate.
Freeze ==
  /\ mode = "Ready" /\ ~HasFrozen /\ frozenIndirectionTableLoc = None
  /\ Deallocable(ephemeralIndirectionTable) = {}
  /\ frozenIndirectionTable' = ephemeralIndirectionTable
  /\ blockAllocator' = CopyEphemeralToFrozen(blockAllocator)
  /\ UNCHANGED <<loadVars, persistentVars, frozenIndirectionTableLoc,
                 outstandingIndirectionTableWrite, ephemeralIndirectionTable,
                 refUpperBound, cache, outstandingBlockWrites, outstandingBlockReads>>

DeallocBeforeFreeze ==
  /\ mode = "Ready" /\ ~HasFrozen /\ frozenIndirectionTableLoc = None
  /\ \E ref \in Deallocable(ephemeralIndirectionTable) : Dealloc(ref)

\* SyncImpl.syncFoundInFrozen: it gives up on a node the ephemeral table has a
\* location for.
WriteFrozenNode(id, ref) ==
  /\ mode = "Ready" /\ frozenIndirectionTableLoc = None
  /\ ref \notin DOMAIN ephemeralIndirectionTable.locs
  /\ TryToWriteBlock(id, ref)

\* A mistake: the table does not wait for the nodes being written.
FrozenNodesLocated ==
  HasFrozen /\ RefsWithNoLoc(frozenIndirectionTable) = {}

\* The frozen table is complete and its nodes are on disk.
FrozenNodesWritten ==
  /\ HasFrozen /\ RefsWithNoLoc(frozenIndirectionTable) = {}
  /\ outstandingBlockWrites = <<>>

WriteFrozenTable(id) ==
  /\ mode = "Ready" /\ frozenIndirectionTableLoc = None /\ FrozenNodesWritten
  /\ LET loc == otherIndirectionTableLoc(persistentIndirectionTableLoc)
     IN  /\ RecvWriteIndirectionTable(id, loc, frozenIndirectionTable)
         /\ frozenIndirectionTableLoc' = loc
  /\ outstandingIndirectionTableWrite' = id
  /\ UNCHANGED <<loadVars, persistentVars, frozenIndirectionTable, treeVars,
                 outstandingBlockWrites, outstandingBlockReads>>

\* IOImpl.writeNodeResponse
writeNodeResponse(id) ==
  /\ mode = "Ready" /\ id \in DOMAIN outstandingBlockWrites
  /\ AckWriteNode(id)
  /\ outstandingBlockWrites' = Without(outstandingBlockWrites, id)
  /\ blockAllocator' = MarkFreeOutstanding(blockAllocator, outstandingBlockWrites[id].loc)
  /\ UNCHANGED <<loadVars, persistentVars, frozenVars, ephemeralIndirectionTable,
                 refUpperBound, cache, outstandingBlockReads>>

\* IOImpl.writeIndirectionTableResponse
writeIndirectionTableResponse(id) ==
  /\ mode = "Ready" /\ id = outstandingIndirectionTableWrite
  /\ AckWriteIndirectionTable(id)
  /\ outstandingIndirectionTableWrite' = None
  /\ UNCHANGED <<loadVars, persistentVars, frozenIndirectionTable, treeVars,
                 frozenIndirectionTableLoc, outstandingBlockWrites, outstandingBlockReads>>

\* IOImpl.cleanUp: a superblock names the frozen version, which becomes the
\* persistent one.
cleanUp ==
  /\ persistentIndirectionTable' = frozenIndirectionTable
  /\ persistentIndirectionTableLoc' = frozenIndirectionTableLoc
  /\ frozenIndirectionTable' = None /\ frozenIndirectionTableLoc' = None
  /\ blockAllocator' = MoveFrozenToPersistent(blockAllocator)
  /\ UNCHANGED <<loadVars, outstandingIndirectionTableWrite, ephemeralIndirectionTable,
                 refUpperBound, cache, outstandingBlockWrites, outstandingBlockReads>>

BlockCacheCrash ==
  /\ mode' = "Unready" /\ indirectionTableRead' = None
  /\ persistentIndirectionTable' = EmptyTable /\ persistentIndirectionTableLoc' = None
  /\ frozenIndirectionTable' = None /\ frozenIndirectionTableLoc' = None
  /\ outstandingIndirectionTableWrite' = None
  /\ ephemeralIndirectionTable' = EmptyTable /\ refUpperBound' = 0
  /\ cache' = <<>> /\ blockAllocator' = NewBlockAllocator({})
  /\ outstandingBlockWrites' = <<>> /\ outstandingBlockReads' = <<>>
=============================================================================
