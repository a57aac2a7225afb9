----------------------------- MODULE MCJobQueue -----------------------------
(* A small instance of the job table: two thumbnail jobs of one file, which *)
(* may be cancelled together, and a single-attempt job of no file.          *)
EXTENDS JobQueue

CONSTANTS j1, j2, j3

MCMaxAttempts == [j \in Jobs |-> IF j = j3 THEN 1 ELSE 2]
MCFileJobs    == {{j1, j2}}
=============================================================================
