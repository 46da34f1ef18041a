CONSTANTS
    Loop = Loop
    Others = {h1}
    Pairers = {"ipc"}
    None = None
    MaxPairings = 1
    MaxRotations = 1
SPECIFICATION Spec
PROPERTIES
    UnpairedUntilPaired
