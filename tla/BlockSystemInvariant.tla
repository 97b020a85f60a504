------------------------ MODULE BlockSystemInvariant ------------------------
(***************************************************************************)
(* An inductive invariant of BlockSystem.  That the versions share blocks  *)
(* and one cache ties everything to everything: a block is reused safely   *)
(* only if the allocator is exact, that is so only if no location is lost  *)
(* or shared, a location is lost or shared if a reference that is in use   *)
(* is given out again, and a version is whole on disk only if the one copy *)
(* of a node in the cache is still what that version needs.                *)
(***************************************************************************)
EXTENDS BlockSystem

\* Every successor of a reference of the tree is a reference of the tree.
Closed(t) == \A ref \in DOMAIN t.graph : Range(t.graph[ref]) \subseteq DOMAIN t.graph

\* A tree, whose nodes on disk have blocks of their own ...
WellFormed(t) ==
  IsTable(t) /\ Root \in DOMAIN t.graph /\ Closed(t) /\ InitLocBitmapSucceeds(t)

\* ... in which each of them is, with the successors it should have ...
IntactOn(disk, t) ==
  \A ref \in DOMAIN t.locs :
    disk[t.locs[ref]] # Garbage /\ disk[t.locs[ref]].children = t.graph[ref]

Intact(t) == IntactOn(nodes, t)

\* ... as has been written whole.
Whole(t) == WellFormed(t) /\ Intact(t) /\ DOMAIN t.locs = DOMAIN t.graph

TablesInv ==
  mode = "Ready" =>
    /\ WellFormed(ephemeralIndirectionTable) /\ Intact(ephemeralIndirectionTable)
    /\ HasFrozen => WellFormed(frozenIndirectionTable) /\ Intact(frozenIndirectionTable)
    /\ Whole(persistentIndirectionTable)

\* Until the table is loaded there is nothing in memory, and one table to load.
LoadInv ==
  /\ mode # "Ready" =>
       /\ committer = "Idle" /\ outstandingIndirectionTableWrite = None
       /\ DOMAIN outstandingBlockWrites = {} /\ DOMAIN outstandingBlockReads = {}
       /\ DOMAIN cache = {}
       /\ \E loc \in TableLoc : superblockLocs = {loc} /\ Whole(indirectionTables[loc])
  /\ mode # "Unready" =>
       /\ persistentIndirectionTableLoc \in TableLoc
       /\ superblockLocs = {persistentIndirectionTableLoc} \cup
            (IF committer = "Writing" THEN {frozenIndirectionTableLoc} ELSE {})
  /\ \A id \in DOMAIN reqReadIndirectionTables :
       /\ mode = "Loading" /\ id = indirectionTableRead
       /\ reqReadIndirectionTables[id] = persistentIndirectionTableLoc

\* What is on disk, or on its way there, of the persistent and the frozen table.
SaveInv ==
  /\ mode = "Ready" =>
       indirectionTables[persistentIndirectionTableLoc] = persistentIndirectionTable
  /\ frozenIndirectionTableLoc # None =>
       /\ committer # "Idle"
       /\ frozenIndirectionTableLoc = otherIndirectionTableLoc(persistentIndirectionTableLoc)
       /\ indirectionTables[frozenIndirectionTableLoc] = frozenIndirectionTable
       /\ RefsWithNoLoc(frozenIndirectionTable) = {}
       /\ Blocks(frozenIndirectionTable) \cap WrittenBlocks = {}
  /\ outstandingIndirectionTableWrite # None =>
       frozenIndirectionTableLoc # None /\ committer = "Frozen"
  /\ \A id \in DOMAIN reqWriteIndirectionTables :
       reqWriteIndirectionTables[id] = frozenIndirectionTableLoc

\* The cache holds every node that is not on disk, as its version needs it.
CacheInv ==
  mode = "Ready" =>
    /\ DOMAIN cache \subseteq DOMAIN ephemeralIndirectionTable.graph
    /\ \A ref \in DOMAIN cache : cache[ref].children = ephemeralIndirectionTable.graph[ref]
    /\ RefsWithNoLoc(ephemeralIndirectionTable) \subseteq DOMAIN cache
    /\ \A ref \in DOMAIN cache \cap DOMAIN ephemeralIndirectionTable.locs :
         cache[ref] = nodes[ephemeralIndirectionTable.locs[ref]]
    /\ \A ref \in DOMAIN ephemeralIndirectionTable.graph : ref <= refUpperBound

FrozenInv ==
  mode = "Ready" /\ HasFrozen =>
    \A ref \in RefsWithNoLoc(frozenIndirectionTable) :
      /\ ref \in RefsWithNoLoc(ephemeralIndirectionTable)
      /\ frozenIndirectionTable.graph[ref] = ephemeralIndirectionTable.graph[ref]

\* A block being written is that of one cached node, or of none any more.
WriteInv ==
  mode = "Ready" =>
    /\ Blocks(persistentIndirectionTable) \cap WrittenBlocks = {}
    /\ \A ref \in DOMAIN ephemeralIndirectionTable.locs : \A id \in DOMAIN outstandingBlockWrites :
         outstandingBlockWrites[id].loc = ephemeralIndirectionTable.locs[ref] =>
           outstandingBlockWrites[id].ref = ref /\ ref \in DOMAIN cache

\* A node being read, or that could not be read, is on disk and not in the cache.
ReadInv ==
  /\ \A id \in DOMAIN outstandingBlockReads :
       /\ outstandingBlockReads[id] \in DOMAIN ephemeralIndirectionTable.locs \ DOMAIN cache
       /\ \A i \in DOMAIN outstandingBlockReads :
            outstandingBlockReads[i] = outstandingBlockReads[id] => i = id
  /\ \A id \in DOMAIN reqReadNodes :
       reqReadNodes[id] = ephemeralIndirectionTable.locs[outstandingBlockReads[id]]

\* A set of references that the tree does not lead out of, from the root on.
ClosedFromRoot(t, S) ==
  Root \in S /\ \A r \in S : Range(t.graph[r]) \subseteq S

Reachable(t, ref) ==
  \A S \in SUBSET DOMAIN t.graph : ClosedFromRoot(t, S) => ref \in S

\* A node being read stays in the tree: what replaces its predecessors has its
\* reference.
ReachInv ==
  \A id \in DOMAIN outstandingBlockReads :
    Reachable(ephemeralIndirectionTable, outstandingBlockReads[id])

SInv ==
  /\ TypeOK /\ TablesInv /\ LoadInv /\ SaveInv /\ CacheInv /\ FrozenInv
  /\ WriteInv /\ ReadInv /\ AllocatorExact /\ RequestsMatch
=============================================================================
