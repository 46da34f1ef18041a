\* Liveness for one job and two goroutines; no symmetry.
CONSTANTS
    Workloads = {w1}
    Runs = {r1, r2}
    None = None
    MaxConcurrentJobs = 2
    RecoveryLimit = 1
    Unsupported = {}
    StoreMayFail = FALSE
SPECIFICATION FairSpec
PROPERTIES
    WorkloadsSettle
    RunsEnd
