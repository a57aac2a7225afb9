---------------------------- MODULE MCTenantLogo ----------------------------
(* Two uploads of a logo: the first may be queued twice (j1, j2), the      *)
(* second has one job, which may be tried twice (j3).                      *)
EXTENDS TenantLogo, TLC

CONSTANTS j1, j2, j3, g1, g2

MCGenOf       == [j \in Jobs |-> IF j = j3 THEN g2 ELSE g1]
MCMaxAttempts == [j \in Jobs |-> IF j = j3 THEN 2 ELSE 1]
MCFileJobs    == {}
TwoQueued     == Cardinality({j \in Jobs : jobs[j].state # "absent"}) <= 2
Symmetry      == Permutations(Runners) \cup Permutations(Callers) \cup Permutations({j1, j2})
=============================================================================
