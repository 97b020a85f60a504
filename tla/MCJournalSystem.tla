-------------------------- MODULE MCJournalSystem --------------------------
(***************************************************************************)
(* Small instances of JournalSystem for TLC.                               *)
(***************************************************************************)
EXTENDS JournalSystemInvariant

CONSTANTS a, b        \* journal entries

\* Entries of equal weight: two of them, with the header, need two blocks of
\* capacity 2, three of them still do.
EqualWeights == [e \in Entry |-> 1]

Symmetry == Permutations(ReqId) \cup Permutations(Loc)

(***************************************************************************)
(* States that differ only in what the ring holds outside the committed    *)
(* and the written journal are one state for TLC: ReadsInsidePersistent    *)
(* says that nothing reads it before it is overwritten.                    *)
(***************************************************************************)
LiveJournal ==
  [i \in Pos |->
     IF \/ InCyclicRange(i, PersistentInterval)
        \/ status = "Ready" /\ InCyclicRange(i, WrittenInterval)
     THEN diskJournal[i] ELSE None]

View == <<committerVars, LiveJournal, diskSuperblock, reqReadSuperblock,
          reqReadJournal, reqWriteSuperblock, reqWriteJournals>>
=============================================================================
