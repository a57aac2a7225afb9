SPECIFICATION QueueSpec
CONSTANTS
    j1 = j1
    j2 = j2
    j3 = j3
    Jobs = {j1, j2, j3}
    Runners = {r1, r2}
    NoRunner = NoRunner
    MaxAttempts <- MCMaxAttempts
    FileJobs <- MCFileJobs
INVARIANTS
    TypeOK
    OwnershipIsConsistent
    FailedJobsAreExhausted
PROPERTIES
    NoTakeoverOfLiveLease
    FinishedIsFinal
    AttemptsNeverReturned
    ImplementsLeasedWork
CHECK_DEADLOCK FALSE
