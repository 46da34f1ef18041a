\* The loop and a heartbeat share the token source; two pairings, one rotation
\* each.
CONSTANTS
    Loop = Loop
    Others = {h1}
    Pairers = {"ipc", "cli"}
    None = None
    MaxPairings = 2
    MaxRotations = 1
SPECIFICATION Spec
INVARIANTS
    TypeOK
    KeystoreIsCurrent
    RefreshTokenUsedOnce
