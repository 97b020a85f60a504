------------------------------ MODULE MCBetree ------------------------------
(***************************************************************************)
(* Small instances of Betree for TLC.                                      *)
(***************************************************************************)
EXTENDS Betree

\* A node with what is below it: the tree without the names of its nodes and
\* without those that wait to be deallocated.
RECURSIVE TreeBelow(_)
TreeBelow(ref) ==
  [node |-> [nodes[ref] EXCEPT !.children = <<>>],
   below |-> [i \in DOMAIN nodes[ref].children |-> TreeBelow(nodes[ref].children[i])]]

TreeView == <<TreeBelow(Root), table.refUpperBound>>
=============================================================================
