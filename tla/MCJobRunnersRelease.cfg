\* One lost connection is enough for the old socket to release the new socket's job.
SPECIFICATION Spec
CONSTANTS
    j1 = j1
    f1 = f1
    Jobs = {j1}
    Runners = {r1, r2}
    NoRunner = NoRunner
    MaxAttempts <- MCMaxAttempts
    FileJobs <- MCFileJobs
    Files = {f1}
    FileOf <- MCFileOf
    Conns = {c1, c2, c3}
    NoConn = NoConn
    NoJob = NoJob
    MaxFaults = 1
SYMMETRY Symmetry
PROPERTIES
    CloseReturnsOwnJobsOnly
CHECK_DEADLOCK FALSE
