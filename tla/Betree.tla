------------------------------- MODULE Betree -------------------------------
(***************************************************************************)
(* The B-epsilon tree: its nodes and how the operations change them        *)
(* (PivotBetree/PivotBetree, and Impl/InsertImpl, GrowImpl, FlushImpl,     *)
(* SplitImpl, LeafImpl, DeallocImpl, QueryImpl, SuccImpl, with the policy  *)
(* of FlushPolicyImpl that makes room for an insertion), and with them the *)
(* indirection table (Impl/BookkeepingImpl) in each of its three copies.   *)
(*                                                                         *)
(* All nodes are at hand: BlockCache models which are in memory, where the *)
(* others are, and that a version that is being written keeps its nodes.   *)
(* Nodes have a fixed capacity in messages.                                *)
(***************************************************************************)
EXTENDS RefCountTable, BetreeNode

CONSTANTS
  DefaultValue,       \* of a key that was never written
  MaxNumChildren,
  MaxLevels,          \* as far as queries and the policy go down (40)
  MaxTotalBucketWeight,
  FlushTriggerWeight,
  Sync,               \* whether versions are frozen, written and recovered
  None

ASSUME TreeAssumption ==
  /\ DefaultValue \in Value /\ Sync \in BOOLEAN
  /\ MaxNumChildren \in Nat /\ MaxNumChildren >= 2
  /\ MaxLevels \in Nat /\ MaxLevels >= 1
  /\ FlushTriggerWeight \in 1 .. (MaxTotalBucketWeight - 1)
  /\ MaxTotalBucketWeight \in Nat /\ MaxTotalBucketWeight >= 2

VARIABLES
  nodes,          \* reference -> node
  table,          \* the ephemeral indirection table
  frozen,         \* None, or the frozen table with the nodes of its version
  persistent      \* the version on disk: entries with their locations, and nodes

vars == <<nodes, table, frozen, persistent>>

Init ==
  /\ nodes = Put(<<>>, Root, EmptyNode)
  /\ persistent = [entries |-> Put(<<>>, Root, Entry(TRUE, <<>>, 0)), nodes |-> nodes]
  /\ table = ValToIndirectionTable(persistent.entries)
  /\ frozen = None

\* A node of the frozen version that is not written must stay as it is.
CanDirty(ref) == frozen # None => ~HasEmptyLoc(frozen.table, ref)

WriteBookkeeping(t, ref, node) == UpdateAndRemoveLoc(t, ref, node.children)

\* The lowest reference above the bound: a set of one, or of none.
FreeRef(above) == Ref \cap {above + 1}

TreeChanged == UNCHANGED <<frozen, persistent>>

-----------------------------------------------------------------------------
\* Insertion

Full == NodeWeight(nodes[Root]) + 1 > MaxTotalBucketWeight

Insert(key, value) ==
  /\ BoundedKey(nodes[Root].pivotTable, key) /\ ~Full /\ CanDirty(Root)
  /\ nodes' = [nodes EXCEPT ![Root] = NodeInsertKeyValue(@, key, value)]
  /\ table' = RemoveLoc(table, Root)
  /\ TreeChanged

-----------------------------------------------------------------------------
\* What an insertion into a full root does instead.  The policy goes down by
\* the biggest slots to a child with room, or to where there is none below.

\* The nodes on the way, numbered from the root.
Way[n \in 1 .. MaxLevels] ==
  IF n = 1 THEN Root
  ELSE LET above == nodes[Way[n - 1]] IN above.children[BiggestSlot(above)]

RoomBelow(node) ==
  NodeWeight(nodes[node.children[BiggestSlot(node)]]) + FlushTriggerWeight
    <= MaxTotalBucketWeight

Bottom(node) == IsLeaf(node) \/ Len(node.buckets) >= MaxNumChildren

GoesOn(node) == ~Bottom(node) /\ ~RoomBelow(node)

\* The lowest level whose parent has room for another child; at the first one
\* the root has to grow.
getActionToSplit(level) ==
  LET room == {n \in 2 .. level : Len(nodes[Way[n - 1]].children) < MaxNumChildren}
      low  == Max(room)
  IN  IF room = {} THEN [kind |-> "Grow"]
      ELSE IF Len(nodes[Way[low]].buckets) = 1 THEN [kind |-> "Repivot", ref |-> Way[low]]
      ELSE [kind |-> "Split", parent |-> Way[low - 1],
            slot |-> BiggestSlot(nodes[Way[low - 1]])]

\* It fails where the way has as many levels as it allows.
Policy ==
  LET level == Max({n \in 1 .. MaxLevels : \A m \in 1 .. (n - 1) : GoesOn(nodes[Way[m]])})
      node  == nodes[Way[level]]
  IN  IF level = MaxLevels THEN [kind |-> "Fail"]
      ELSE IF Bottom(node) THEN getActionToSplit(level)
      ELSE [kind |-> "Flush", parent |-> Way[level], slot |-> BiggestSlot(node)]

GrowAllowed == ContainsAllKeys(nodes[Root].pivotTable)

Grow ==
  /\ GrowAllowed /\ CanDirty(Root)
  /\ \E newref \in FreeRef(table.refUpperBound) :
       LET newroot == [EmptyNode EXCEPT !.children = <<newref>>]
       IN  /\ nodes' = Put(Put(nodes, newref, nodes[Root]), Root, newroot)
           /\ table' = WriteBookkeeping(
                WriteBookkeeping(table, newref, nodes[Root]), Root, newroot)
  /\ TreeChanged

FlushAllowed(parent, slot) ==
  BucketBounded(nodes[parent].buckets[slot],
                nodes[nodes[parent].children[slot]].pivotTable)

\* The messages that move are the first of the slot, as many as there is room
\* for (how many that is depends on their weights).
Flush(parent, slot) ==
  LET node   == nodes[parent]
      child  == nodes[node.children[slot]]
      bucket == node.buckets[slot]
  IN  /\ FlushAllowed(parent, slot) /\ CanDirty(parent)
      /\ \E last \in DOMAIN bucket :
         LET moved    == {k \in DOMAIN bucket : k <= last}
             newchild == MergedOver(child, Restrict(bucket, moved))
         IN  /\ NodeWeight(newchild) <= MaxTotalBucketWeight
             /\ \E newref \in FreeRef(table.refUpperBound) :
                LET newparent ==
                      [node EXCEPT !.buckets[slot] = Restrict(@, DOMAIN @ \ moved),
                                   !.children[slot] = newref]
                IN  /\ nodes' = Put(Put(nodes, newref, newchild), parent, newparent)
                    /\ table' = WriteBookkeeping(
                         WriteBookkeeping(table, newref, newchild), parent, newparent)
      /\ TreeChanged

\* Bounds of a slot at which a node may be cut.
ValidSplitKey(pt, lbound, ubound) ==
  /\ BoundedKey(pt, lbound)
  /\ IF ubound = NumKeys THEN Last(pt) = NumKeys
     ELSE ValidLeftCutOffKey(pt, ubound) /\ lbound < ubound

CutChild(parent, slot) ==
  LET pt == nodes[parent].pivotTable
  IN  CutoffNode(nodes[nodes[parent].children[slot]], pt[slot], pt[slot + 1])

SplitAllowed(parent, slot) ==
  LET pt  == nodes[parent].pivotTable
      cpt == nodes[nodes[parent].children[slot]].pivotTable
      cut == CutChild(parent, slot)
  IN  /\ cpt[1] <= pt[slot] /\ pt[slot + 1] <= Last(cpt)
      /\ ValidSplitKey(cpt, pt[slot], pt[slot + 1])
      /\ ValidSplitKey(pt, pt[slot], pt[slot + 1])
      /\ Len(cut.pivotTable) # 2
      /\ PivotInsertable(pt, slot + 1, cut.pivotTable[Len(cut.buckets) \div 2 + 1])

Split(parent, slot) ==
  LET cut     == CutChild(parent, slot)
      numLeft == Len(cut.buckets) \div 2
      pivot   == cut.pivotTable[numLeft + 1]
      lower   == SplitChildLeft(cut, numLeft)
      upper   == SplitChildRight(cut, numLeft)
  IN  /\ SplitAllowed(parent, slot) /\ CanDirty(parent)
      /\ \E left \in FreeRef(table.refUpperBound) : \E right \in FreeRef(left) :
         LET newparent == SplitParent(nodes[parent], slot, pivot, left, right)
         IN  /\ nodes' = Put(Put(Put(nodes, left, lower), right, upper), parent, newparent)
             /\ table' = WriteBookkeeping(
                  WriteBookkeeping(WriteBookkeeping(table, left, lower), right, upper),
                  parent, newparent)
      /\ TreeChanged

RepivotAllowed(ref) == BucketBounded(nodes[ref].buckets[1], nodes[ref].pivotTable)

RepivotLeaf(ref) ==
  /\ RepivotAllowed(ref) /\ CanDirty(ref)
  /\ nodes' = [nodes EXCEPT ![ref] = RepivotedLeaf(@)]
  /\ table' = WriteBookkeeping(table, ref, nodes'[ref])
  /\ TreeChanged

RunFlushPolicy ==
  LET p == Policy
  IN  /\ Full
      /\ \/ p.kind = "Grow" /\ Grow
         \/ p.kind = "Flush" /\ Flush(p.parent, p.slot)
         \/ p.kind = "Split" /\ Split(p.parent, p.slot)
         \/ p.kind = "Repivot" /\ RepivotLeaf(p.ref)

Dealloc ==
  \E ref \in FindDeallocable(table) :
    /\ CanDirty(ref)
    /\ nodes' = Without(nodes, ref) /\ table' = RemoveRef(table, ref)
    /\ TreeChanged

-----------------------------------------------------------------------------
\* Versions on disk

\* TryToWriteBlock of a node, when there is a free block.
Written(ref) ==
  /\ table' = AddLocIfPresent(table, ref)
  /\ frozen' = IF frozen = None THEN None
               ELSE [frozen EXCEPT !.table = AddLocIfPresent(@, ref)]

\* EvictImpl: a node is written to make room.
WriteToEvict ==
  /\ Sync
  /\ \E ref \in DOMAIN table.entries :
       /\ HasEmptyLoc(table, ref) \/ ~CanDirty(ref)
       /\ Written(ref)
  /\ UNCHANGED <<nodes, persistent>>

\* SyncImpl.maybeFreeze
Freeze ==
  /\ Sync /\ frozen = None /\ FindDeallocable(table) = {}
  /\ frozen' = [table |-> Clone(table), nodes |-> nodes]
  /\ UNCHANGED <<nodes, table, persistent>>

\* SyncImpl.sync with a frozen table: it looks for a node to write, which fails
\* without a free block; the iterator has moved anyway.
WriteFrozenNode ==
  /\ frozen # None
  /\ LET found == LoclessPosition(frozen.table)
         after == [frozen EXCEPT !.table = FindRefWithNoLoc(@)]
     IN  /\ found # End
         /\ \/ /\ table' = AddLocIfPresent(table, found)
               /\ frozen' = [after EXCEPT !.table = AddLocIfPresent(@, found)]
            \/ UNCHANGED table /\ frozen' = after
  /\ UNCHANGED <<nodes, persistent>>

\* Nothing was found: the table is written, and in the end a superblock.
WriteFrozenTable ==
  /\ frozen # None /\ LoclessPosition(frozen.table) = End
  /\ persistent' = [entries |-> frozen.table.entries, nodes |-> frozen.nodes]
  /\ frozen' = None
  /\ UNCHANGED <<nodes, table>>

\* A crash, and the table that is loaded afterwards.
Recover ==
  /\ Sync
  /\ nodes' = persistent.nodes
  /\ table' = ValToIndirectionTable(persistent.entries)
  /\ frozen' = None /\ UNCHANGED persistent

Next ==
  \/ \E key \in Key, value \in Value : Insert(key, value)
  \/ RunFlushPolicy \/ Dealloc
  \/ WriteToEvict \/ Freeze \/ WriteFrozenNode \/ WriteFrozenTable \/ Recover

Spec == Init /\ [][Next]_vars
-----------------------------------------------------------------------------
\* Whether a search for a key goes through this node.
Passable(ref, key) ==
  ref \in DOMAIN nodes /\ BoundedKey(nodes[ref].pivotTable, key)

BucketFor(ref, key) == nodes[ref].buckets[Route(nodes[ref].pivotTable, key)]

ChildFor(ref, key) == nodes[ref].children[Route(nodes[ref].pivotTable, key)]

BoundFor(ref, key) == nodes[ref].pivotTable[Route(nodes[ref].pivotTable, key) + 1]

\* QueryImpl: the first message on the way down, or the default value at a leaf,
\* or None after as many nodes as the counter allows.
queryIterate[counter \in Nat] ==
  [ref \in Ref |-> [key \in Key |->
     IF counter = 0 \/ ~Passable(ref, key) THEN None
     ELSE IF key \in DOMAIN BucketFor(ref, key) THEN BucketFor(ref, key)[key]
     ELSE IF IsLeaf(nodes[ref]) THEN DefaultValue
     ELSE queryIterate[counter - 1][ChildFor(ref, key)][key]]]

Query(key) == queryIterate[MaxLevels][Root][key]

\* A mistake: the range ends at the last of the bounds.
UpToLast(bound, upTo) == upTo

\* The least of the bounds on the way.
UpTo(bound, upTo) == IF upTo < bound THEN upTo ELSE bound

\* SuccImpl: the messages on the way down to the leaf of a key, the upper ones
\* over the lower ones, and up to which key they are all there are.
getPath[counter \in Nat] ==
  [ref \in Ref |-> [key \in Key |->
     IF ~Passable(ref, key) THEN None
     ELSE IF IsLeaf(nodes[ref])
     THEN [msgs |-> BucketFor(ref, key), upTo |-> BoundFor(ref, key)]
     ELSE IF counter = 0 THEN None
     ELSE LET below == getPath[counter - 1][ChildFor(ref, key)][key]
          IN  IF below = None THEN None
              ELSE [msgs |-> Over(BucketFor(ref, key), below.msgs),
                    upTo |-> UpTo(BoundFor(ref, key), below.upTo)]]]

\* The keys on one path from start on, at most maxToFind of them, and how far it
\* has looked.
GetSuccessorInBucketStack(start, maxToFind, path) ==
  LET keys == Ascending({k \in DOMAIN path.msgs :
                           /\ start.key < k \/ (start.inclusive /\ start.key = k)
                           /\ k < path.upTo /\ path.msgs[k] # DefaultValue})
      len  == IF Len(keys) < maxToFind THEN Len(keys) ELSE maxToFind
  IN  [results |-> [i \in 1 .. len |-> [key |-> keys[i], value |-> path.msgs[keys[i]]]],
       end |-> IF Len(keys) < maxToFind THEN [key |-> path.upTo, inclusive |-> FALSE]
               ELSE [key |-> keys[len], inclusive |-> TRUE]]

Succ(start, maxToFind) ==
  LET path == getPath[MaxLevels][Root][start.key]
  IN  IF path = None THEN None ELSE GetSuccessorInBucketStack(start, maxToFind, path)

-----------------------------------------------------------------------------
\* The nodes of a version: every child of a node is there.
IsTree(ns) ==
  /\ ns = [ref \in DOMAIN ns |-> ns[ref]]
  /\ Root \in DOMAIN ns /\ DOMAIN ns \subseteq Ref
  /\ \A ref \in DOMAIN ns : WFNode(ns[ref]) /\ ns[ref].children \in Seq(DOMAIN ns)

(***************************************************************************)
(* In all three versions the table has the nodes the version has, every    *)
(* node is well formed (its pivots ascend, and its messages are within     *)
(* their slots), and no child is missing.                                  *)
(***************************************************************************)
TypeOK ==
  /\ IsTree(nodes) /\ IsRefCountTable(table) /\ DOMAIN nodes = DOMAIN table.entries
  /\ frozen # None =>
       /\ IsTree(frozen.nodes) /\ IsRefCountTable(frozen.table)
       /\ DOMAIN frozen.nodes = DOMAIN frozen.table.entries
  /\ IsTree(persistent.nodes) /\ IsGraph(persistent.entries)
  /\ DOMAIN persistent.nodes = DOMAIN persistent.entries

\* The slots that point to ref.
Predecessors(ref) ==
  UNION {{parent} \X {i \in DOMAIN nodes[parent].children : nodes[parent].children[i] = ref} :
         parent \in DOMAIN nodes}

(***************************************************************************)
(* The counts the table keeps are those of the tree, through every         *)
(* operation and after a recovery: every reference counts the slots of the *)
(* nodes that point to it, the root one more.                              *)
(***************************************************************************)
CountsExact ==
  \A ref \in DOMAIN table.entries :
    /\ table.entries[ref].succs = nodes[ref].children
    /\ table.entries[ref].predCount =
         Cardinality(Predecessors(ref)) + (IF ref = Root THEN 1 ELSE 0)

(***************************************************************************)
(* The garbage queue holds the references nothing points to, each of them  *)
(* once: what is deallocated is unreachable, and when the queue is empty   *)
(* there is nothing left to deallocate before a version is frozen.         *)
(***************************************************************************)
QueueExact ==
  /\ Range(table.garbageQueue) =
       {ref \in DOMAIN nodes \ {Root} : Predecessors(ref) = {}}
  /\ \A i, j \in DOMAIN table.garbageQueue :
       table.garbageQueue[i] = table.garbageQueue[j] => i = j

(***************************************************************************)
(* The search for a node to write skips none: everything before its        *)
(* iterator has a location, so that when it finds nothing the frozen       *)
(* version is complete and its table may be written.                       *)
(***************************************************************************)
SearchSkipsNone ==
  frozen # None =>
    \A ref \in DOMAIN frozen.table.entries :
      ref < SearchFrom(frozen.table) => ~HasEmptyLoc(frozen.table, ref)

(***************************************************************************)
(* Whenever the root is full, what the policy chooses can be done: no      *)
(* check of bounds makes Grow, Flush, Split or RepivotLeaf give up, a      *)
(* flush has something to move, and both parts of a split hold something.  *)
(* Otherwise the insertion would be tried again for ever.  The policy      *)
(* itself fails only where the tree is as deep as it allows.               *)
(***************************************************************************)
PolicyMakesProgress ==
  LET p == Policy
  IN  Full =>
        \/ p.kind = "Fail"
        \/ p.kind = "Grow" /\ GrowAllowed
        \/ /\ p.kind = "Flush" /\ FlushAllowed(p.parent, p.slot)
           /\ nodes[p.parent].buckets[p.slot] # EmptyBucket
        \/ /\ p.kind = "Split" /\ SplitAllowed(p.parent, p.slot)
        \/ /\ p.kind = "Repivot" /\ RepivotAllowed(p.ref)
           /\ EmptyBucket \notin Range(RepivotedLeaf(nodes[p.ref]).buckets)

-----------------------------------------------------------------------------
\* What a query without a limit answers: no way down has more nodes than there
\* are references.
Answers == [key \in Key |-> queryIterate[MaxRef + 1][Root][key]]

Map == INSTANCE MapSpec WITH EmptyValue <- DefaultValue, view <- Answers

(***************************************************************************)
(* The tree is a map: an insertion is a write to the map, of that value at *)
(* that key, and nothing else that happens to the tree (growing, flushing, *)
(* splitting, repivoting, deallocating) changes the answer for any key.    *)
(* Only a crash goes back to what was on disk.                             *)
(***************************************************************************)
ImplementsMap ==
  /\ Map!Init
  /\ [][\/ \E key \in Key, value \in Value : Insert(key, value) /\ Map!Write(key, value)
        \/ Answers' = Answers
        \/ Recover]_vars

(***************************************************************************)
(* What a query answers is the value of the map, and the answer to a range *)
(* query is that of the map, from any start and for any number of results. *)
(* Each fails only where the way down is longer than it follows.           *)
(***************************************************************************)
QueriesAnswered ==
  /\ \A key \in Key : Query(key) \in {None, Answers[key]}
  /\ \A start \in [key : Key, inclusive : BOOLEAN], maxToFind \in 1 .. NumKeys :
       LET answer == Succ(start, maxToFind)
       IN  answer # None => Map!SuccAnswer(start, answer.results, answer.end)
=============================================================================
