---------------------------- MODULE MCApiClient ----------------------------
(* A client with a few queries and sessions.                               *)
EXTENDS ApiClient, TLC

Symmetry == Permutations(Calls)
=============================================================================
