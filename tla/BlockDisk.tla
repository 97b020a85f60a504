----------------------------- MODULE BlockDisk -----------------------------
(***************************************************************************)
(* The disk as the block cache sees it (BlockCacheSystem/BlockDisk): two   *)
(* locations for an indirection table, the node blocks, and the requests   *)
(* in flight.  A write takes effect when it is requested, but until it is  *)
(* acknowledged a crash may leave anything in its location.  A read sees   *)
(* what its location holds when it is answered.                            *)
(***************************************************************************)
EXTENDS IndirectionTable

CONSTANTS
  ReqId,          \* identifiers of requests
  Value,          \* what a node holds besides its children
  Garbage,        \* unreadable contents of a location
  ReadFaults,     \* whether a read may fail
  None

ASSUME ReadFaultsAssumption == ReadFaults \in BOOLEAN

Node == [val : Value, children : Seq(Ref)]

ASSUME NoneAssumption == None \notin ReqId /\ None \notin Nat /\ None \notin Table
ASSUME GarbageAssumption == Garbage \notin Table /\ Garbage \notin Node

TableLoc == {0, 1}
otherIndirectionTableLoc(loc) == 1 - loc

VARIABLES
  indirectionTables,          \* [TableLoc -> a table or Garbage]
  nodes,                      \* [NodeBlock -> a node or Garbage]
  reqReadIndirectionTables,   \* request -> location, here and below
  reqReadNodes,
  reqWriteIndirectionTables,
  reqWriteNodes

reqVars == <<reqReadIndirectionTables, reqReadNodes,
             reqWriteIndirectionTables, reqWriteNodes>>
blockDiskVars == <<indirectionTables, nodes, reqVars>>

BlockDiskTypeOK ==
  /\ DOMAIN indirectionTables = TableLoc
  /\ \A loc \in TableLoc :
       indirectionTables[loc] = Garbage \/ IsTable(indirectionTables[loc])
  /\ nodes \in [NodeBlock -> Node \cup {Garbage}]
  /\ \A reqs \in {reqReadIndirectionTables, reqWriteIndirectionTables} :
       DOMAIN reqs \in SUBSET ReqId /\ Range(reqs) \subseteq TableLoc
  /\ \A reqs \in {reqReadNodes, reqWriteNodes} :
       DOMAIN reqs \in SUBSET ReqId /\ Range(reqs) \subseteq NodeBlock

\* Mkfs writes a table with the root alone and an empty root.
BlockDiskInit(loc) ==
  /\ \E val \in Value :
       nodes = [i \in NodeBlock |-> IF i = MinNodeBlockIndex
                                    THEN [val |-> val, children |-> <<>>] ELSE Garbage]
  /\ indirectionTables =
       [l \in TableLoc |-> IF l = loc THEN [locs  |-> Put(<<>>, Root, MinNodeBlockIndex),
                                            graph |-> Put(<<>>, Root, <<>>)]
                                      ELSE Garbage]
  /\ reqReadIndirectionTables = <<>> /\ reqReadNodes = <<>>
  /\ reqWriteIndirectionTables = <<>> /\ reqWriteNodes = <<>>

Requests == DOMAIN reqReadIndirectionTables \cup DOMAIN reqReadNodes
              \cup DOMAIN reqWriteIndirectionTables \cup DOMAIN reqWriteNodes

-----------------------------------------------------------------------------
RecvReadIndirectionTable(id, loc) ==
  /\ reqReadIndirectionTables' = Put(reqReadIndirectionTables, id, loc)
  /\ UNCHANGED <<indirectionTables, nodes, reqReadNodes,
                 reqWriteIndirectionTables, reqWriteNodes>>

RecvReadNode(id, loc) ==
  /\ reqReadNodes' = Put(reqReadNodes, id, loc)
  /\ UNCHANGED <<indirectionTables, nodes, reqReadIndirectionTables,
                 reqWriteIndirectionTables, reqWriteNodes>>

RecvWriteIndirectionTable(id, loc, table) ==
  /\ indirectionTables' = [indirectionTables EXCEPT ![loc] = table]
  /\ reqWriteIndirectionTables' = Put(reqWriteIndirectionTables, id, loc)
  /\ UNCHANGED <<nodes, reqReadIndirectionTables, reqReadNodes, reqWriteNodes>>

RecvWriteNode(id, loc, node) ==
  /\ nodes' = [nodes EXCEPT ![loc] = node]
  /\ reqWriteNodes' = Put(reqWriteNodes, id, loc)
  /\ UNCHANGED <<indirectionTables, reqReadIndirectionTables, reqReadNodes,
                 reqWriteIndirectionTables>>

\* What a read may return: the contents, or nothing if it fails.
ReadResults(contents) == {contents} \cup (IF ReadFaults THEN {Garbage} ELSE {})

AckReadIndirectionTable(id, table) ==
  /\ id \in DOMAIN reqReadIndirectionTables
  /\ table \in ReadResults(indirectionTables[reqReadIndirectionTables[id]])
  /\ reqReadIndirectionTables' = Without(reqReadIndirectionTables, id)
  /\ UNCHANGED <<indirectionTables, nodes, reqReadNodes,
                 reqWriteIndirectionTables, reqWriteNodes>>

AckReadNode(id, node) ==
  /\ id \in DOMAIN reqReadNodes
  /\ node \in ReadResults(nodes[reqReadNodes[id]])
  /\ reqReadNodes' = Without(reqReadNodes, id)
  /\ UNCHANGED <<indirectionTables, nodes, reqReadIndirectionTables,
                 reqWriteIndirectionTables, reqWriteNodes>>

AckWriteIndirectionTable(id) ==
  /\ id \in DOMAIN reqWriteIndirectionTables
  /\ reqWriteIndirectionTables' = Without(reqWriteIndirectionTables, id)
  /\ UNCHANGED <<indirectionTables, nodes, reqReadIndirectionTables,
                 reqReadNodes, reqWriteNodes>>

AckWriteNode(id) ==
  /\ id \in DOMAIN reqWriteNodes
  /\ reqWriteNodes' = Without(reqWriteNodes, id)
  /\ UNCHANGED <<indirectionTables, nodes, reqReadIndirectionTables,
                 reqReadNodes, reqWriteIndirectionTables>>

\* What a location being written holds after a crash is left open by the code's
\* model of the disk; here it is the new contents or none that can be read.
Havoc(contents, torn) ==
  [loc \in DOMAIN contents |-> IF loc \in torn THEN Garbage ELSE contents[loc]]

BlockDiskCrash ==
  /\ \E torn \in SUBSET Range(reqWriteIndirectionTables) :
       indirectionTables' = Havoc(indirectionTables, torn)
  /\ \E torn \in SUBSET Range(reqWriteNodes) :
       nodes' = Havoc(nodes, torn)
  /\ reqReadIndirectionTables' = <<>> /\ reqReadNodes' = <<>>
  /\ reqWriteIndirectionTables' = <<>> /\ reqWriteNodes' = <<>>
=============================================================================
