CONSTANTS
    Runs = {r1, r2}
    None = None
    NumClips = 2
    Removals <- SomeRemovals
SPECIFICATION FairSpec
INVARIANTS
    TypeOK
    ResumableIsRecorded
    NilMeansAllRecorded
    RecordedIsStored
    UndisturbedOutputsAreGood
    WorkDirIsReaped
    EncoderIsKnown
PROPERTIES
    ExecutionsEnd
CHECK_DEADLOCK FALSE
