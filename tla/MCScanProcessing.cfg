\* Two documents, two tasks, one runner, three faults.
SPECIFICATION FairScanSpec
CONSTANTS
    j1 = j1
    j2 = j2
    Jobs = {j1, j2}
    Runners = {r1}
    NoRunner = NoRunner
    MaxAttempts <- MCMaxAttempts
    FileJobs <- MCFileJobs
    Docs <- MCDocs
    Tasks = {t1, t2}
    MaxFaults = 3
INVARIANTS
    ScanTypeOK
    OneTaskWorks
    DocumentsOutliveTheScan
    JobsAreCollected
PROPERTIES
    FinishedScansStay
    EveryScanEnds
CHECK_DEADLOCK FALSE
