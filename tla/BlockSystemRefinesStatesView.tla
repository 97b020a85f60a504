-------------------- MODULE BlockSystemRefinesStatesView --------------------
(***************************************************************************)
(* BlockSystem implements StatesView: the mapping of                       *)
(* BlockCacheSystem/BlockSystem.  A state of the tree is its graph, a      *)
(* function from references to nodes.                                      *)
(***************************************************************************)
EXTENDS BlockSystem

\* A graph is not None.
ASSUME NoneIsNoGraph == \A refs \in SUBSET Ref : None \notin [refs -> Node]

WFDiskGraph(table) ==
  /\ table # Garbage
  /\ DOMAIN table.locs = DOMAIN table.graph
  /\ \A ref \in DOMAIN table.graph :
       /\ Range(table.graph[ref]) \subseteq DOMAIN table.graph
       /\ nodes[table.locs[ref]] # Garbage
       /\ nodes[table.locs[ref]].children = table.graph[ref]

\* A node with a location is the one on disk, any other the cached one.
DiskCacheLookup(table, ref) ==
  IF ref \in DOMAIN table.locs THEN nodes[table.locs[ref]] ELSE cache[ref]

DiskCacheGraph(table) ==
  [ref \in DOMAIN table.graph |-> DiskCacheLookup(table, ref)]

DiskGraphMap ==
  [loc \in TableLoc |->
     IF WFDiskGraph(indirectionTables[loc])
     THEN [ref \in DOMAIN indirectionTables[loc].graph |->
             nodes[indirectionTables[loc].locs[ref]]]
     ELSE None]

\* The location the frozen table was written to, once it has been.
FrozenLoc ==
  IF outstandingIndirectionTableWrite = None THEN frozenIndirectionTableLoc ELSE None

FrozenGraph == IF HasFrozen THEN DiskCacheGraph(frozenIndirectionTable) ELSE None

EphemeralGraph ==
  CASE mode = "Ready"   -> DiskCacheGraph(ephemeralIndirectionTable)
    [] mode = "Loading" -> DiskGraphMap[persistentIndirectionTableLoc]
    [] OTHER            -> None

EmptyTree(graph) == DOMAIN graph = {Root} /\ graph[Root].children = <<>>

\* No node points out of the graph.
ClosedGraph(graph) ==
  \A ref \in DOMAIN graph : Range(graph[ref].children) \subseteq DOMAIN graph

\* A step of the tree rewrites one node and adds at most two, or removes a node.
TreeStep(before, after) ==
  /\ ClosedGraph(after) /\ Root \in DOMAIN after
  /\ LET kept == DOMAIN before \cap DOMAIN after
     IN  \/ /\ kept = DOMAIN before
            /\ Cardinality(DOMAIN after \ kept) <= 2
            /\ \E r \in kept : \A ref \in kept \ {r} : after[ref] = before[ref]
         \/ /\ DOMAIN after = kept
            /\ Cardinality(DOMAIN before \ kept) = 1
            /\ \A ref \in kept : after[ref] = before[ref]

\* after is before, or a part of it.
PartOf(after, before) ==
  /\ DOMAIN after \subseteq DOMAIN before
  /\ \A ref \in DOMAIN after : after[ref] = before[ref]

View == INSTANCE StatesView WITH
  Loc <- TableLoc, SMInit <- EmptyTree, SMNext <- TreeStep,
  disk <- DiskGraphMap,
  persistentLoc <- persistentIndirectionTableLoc, frozenLoc <- FrozenLoc,
  frozenState <- FrozenGraph, ephemeralState <- EphemeralGraph

(***************************************************************************)
(* Every step of the block cache is a step of StatesView or none: the      *)
(* persistent and the written frozen version stay whole on disk, and the   *)
(* frozen table that is committed is the version that was frozen.  While   *)
(* the system runs, the ephemeral version changes only by an operation of  *)
(* the tree or by losing a node nothing points to; reading, evicting and   *)
(* writing nodes change no version.                                        *)
(***************************************************************************)
ImplementsStatesView ==
  /\ View!Spec
  /\ [][mode = "Ready" /\ mode' = "Ready" =>
          PartOf(EphemeralGraph', EphemeralGraph) \/ EditTree]_vars
=============================================================================
