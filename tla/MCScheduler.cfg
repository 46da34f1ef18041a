\* One job shared by two goroutines, and a workload no executor takes;
\* every fault, crash and IPC call.
CONSTANTS
    Workloads = {w1, w2}
    Runs = {r1, r2}
    None = None
    MaxConcurrentJobs = 2
    RecoveryLimit = 1
    Unsupported = {w2}
    StoreMayFail = TRUE
SPECIFICATION Spec
SYMMETRY Symmetry
INVARIANTS
    TypeOK
    SlotAccounting
    RunningHasOwner
    SuccessIsEarned
PROPERTIES
    NoReexecutionAfterRestart
    QuiescentTerminalIsFinal
    ImplementsLifecycle
