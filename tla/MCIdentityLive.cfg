\* Liveness of the loop, which may pause in calm times and then has nothing to do.
CONSTANTS
    Loop = Loop
    Others = {}
    Pairers = {"ipc"}
    None = None
    MaxPairings = 2
    MaxRotations = 1
SPECIFICATION FairSpec
CHECK_DEADLOCK FALSE
PROPERTIES
    CallsEnd
    RepairPickedUp
