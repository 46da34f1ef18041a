CONSTANTS
    Workloads = {w1}
    Runs = {r1, r2}
    None = None
    MaxConcurrentJobs = 2
    RecoveryLimit = 1
    Unsupported = {}
    StoreMayFail = FALSE
SPECIFICATION Spec
INVARIANT
    OneExecutorPerJob
