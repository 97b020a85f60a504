-------------------------- MODULE MCCompositeView --------------------------
(***************************************************************************)
(* A small instance of CompositeView for TLC.                              *)
(***************************************************************************)
EXTENDS CompositeView, TLC

Symmetry == Permutations(Loc)
=============================================================================
