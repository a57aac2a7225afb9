---------------------------- MODULE MCJobRunners ----------------------------
(* Two runners, a connection to spare and a job that may be tried twice.   *)
EXTENDS JobRunners, TLC

CONSTANTS j1, f1

MCMaxAttempts == [j \in Jobs |-> 2]
MCFileOf      == [j \in Jobs |-> f1]
MCFileJobs    == {Jobs}
Symmetry      == Permutations(Runners) \cup Permutations(Conns)
=============================================================================
