\* Two generations, one of which may be queued twice, two calls of completeUpload at a time, one fault;
\* at most two of the three jobs are queued in one history.
SPECIFICATION LogoSpec
CONSTANTS
    j1 = j1
    j2 = j2
    j3 = j3
    g1 = g1
    g2 = g2
    Jobs = {j1, j2, j3}
    Runners = {r1, r2}
    NoRunner = NoRunner
    MaxAttempts <- MCMaxAttempts
    FileJobs <- MCFileJobs
    Gens = {g1, g2}
    NoGen = NoGen
    GenOf <- MCGenOf
    Callers = {p1, p2}
    NoJob = NoJob
    MaxFaults = 1
CONSTRAINT TwoQueued
SYMMETRY Symmetry
INVARIANTS
    LTypeOK
    ReadyHasImage
    SourceOutlivesConversion
    OwnJobsDecide
    QueuedOnce
CHECK_DEADLOCK FALSE
