\* Two daemons: one left from an earlier launch or started by hand and one that
\* the shell spawns, or two that setup and the Start button spawn.
CONSTANTS
    MaxDaemons = 2
    Handles = {h1}
    MaxAttempts = 1
    MaxStreams = 2
SPECIFICATION FairSpec
INVARIANTS
    TypeOK
    NoSecondChild
    ChildIsHeld
    OneConnection
    LeftPagesAreQuiet
PROPERTIES
    PageComesUp
    BackoffEnds
CHECK_DEADLOCK FALSE
