\* One thumbnail job that may be tried twice, two runners, a spare connection;
\* no symmetry, since liveness is checked.
SPECIFICATION FairSpec
CONSTANTS
    j1 = j1
    f1 = f1
    Jobs = {j1}
    Runners = {r1, r2}
    NoRunner = NoRunner
    MaxAttempts <- MCMaxAttempts
    FileJobs <- MCFileJobs
    Files = {f1}
    FileOf <- MCFileOf
    Conns = {c1, c2, c3}
    NoConn = NoConn
    NoJob = NoJob
    MaxFaults = 1
INVARIANTS
    RTypeOK
    WorkersAreListed
    WorkersHoldTheirLease
    ReadyOnlyAfterSuccess
    ProgressHasASource
PROPERTIES
    LateReportsAreRefused
    EveryJobFinishes
CHECK_DEADLOCK FALSE
