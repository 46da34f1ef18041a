CONSTANTS
    MaxDaemons = 2
    Handles = {h1}
    MaxAttempts = 1
    MaxStreams = 1
SPECIFICATION Spec
INVARIANTS
    CachedPortIsSafe
CHECK_DEADLOCK FALSE
