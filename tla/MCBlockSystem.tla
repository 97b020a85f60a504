--------------------------- MODULE MCBlockSystem ---------------------------
(***************************************************************************)
(* Small instances of BlockSystem for TLC.                                 *)
(***************************************************************************)
EXTENDS BlockSystemRefinesStatesView

Symmetry == Permutations(ReqId) \cup Permutations(Value)

\* Blocks of no version: nothing reads them before they are written again.
LiveBlocks ==
  UsedBlocks \cup UNION {Blocks(indirectionTables[loc]) : loc \in superblockLocs}

LiveTables ==
  superblockLocs \cup Range(reqWriteIndirectionTables) \cup
    (IF committer = "Located" THEN {frozenIndirectionTableLoc} ELSE {})

LiveView ==
  <<[i \in NodeBlock |-> IF i \in LiveBlocks THEN nodes[i] ELSE Garbage],
    [loc \in TableLoc |-> IF loc \in LiveTables THEN indirectionTables[loc] ELSE Garbage],
    reqVars, blockCacheVars, systemVars>>
=============================================================================
