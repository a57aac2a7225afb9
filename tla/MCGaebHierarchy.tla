-------------------------- MODULE MCGaebHierarchy --------------------------
(* A small bill of quantities.                                             *)
EXTENDS GaebHierarchy, TLC

Symmetry == Permutations(Cats) \cup Permutations(Items)
=============================================================================
