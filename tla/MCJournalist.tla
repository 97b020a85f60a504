---------------------------- MODULE MCJournalist ----------------------------
EXTENDS Journalist

CONSTANTS a, b        \* journal entries

\* A light and a heavy entry.
Weights == [e \in Entry |-> IF e = a THEN 1 ELSE 2]
=============================================================================
