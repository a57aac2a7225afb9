\* The handler of a superseded job saves the document it loaded before the upload.
SPECIFICATION LogoSpec
CONSTANTS
    j1 = j1
    j2 = j2
    j3 = j3
    g1 = g1
    g2 = g2
    Jobs = {j1, j3}
    Runners = {r1, r2}
    NoRunner = NoRunner
    MaxAttempts <- MCMaxAttempts
    FileJobs <- MCFileJobs
    Gens = {g1, g2}
    NoGen = NoGen
    GenOf <- MCGenOf
    Callers = {p1, p2}
    NoJob = NoJob
    MaxFaults = 1
SYMMETRY Symmetry
PROPERTIES
    StaleWorkerNeverOverwrites
CHECK_DEADLOCK FALSE
