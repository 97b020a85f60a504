-------------------------------- MODULE Maps --------------------------------
(***************************************************************************)
(* Finite maps as functions: m[k := v] and m - {k} of the source language, *)
(* and the keys of a map in order.                                         *)
(***************************************************************************)
EXTENDS Naturals, FiniteSets, Functions

Put(m, k, v) == [j \in DOMAIN m \cup {k} |-> IF j = k THEN v ELSE m[j]]

Without(m, k) == Restrict(m, DOMAIN m \ {k})

\* Both maps, the first one where they have a key in common.
Over(m, n) == [j \in DOMAIN m \cup DOMAIN n |-> IF j \in DOMAIN m THEN m[j] ELSE n[j]]
\* The numbers of a set in ascending order: the n-th has n - 1 below it.
Ascending(S) ==
  [n \in 1 .. Cardinality(S) |->
     CHOOSE k \in S : Cardinality({j \in S : j < k}) = n - 1]
=============================================================================
