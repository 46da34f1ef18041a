\* Two goroutines log five events past a ring and channels of two.  The model
\* stops when the events are used up or the process has panicked.
CONSTANTS
    Publishers = {p1, p2}
    Subscribers = {s1}
    RingSize = 2
    SubBuf = 2
    MaxEvents = 5
SPECIFICATION FairSpec
CHECK_DEADLOCK FALSE
INVARIANTS
    TypeOK
    RingHoldsNewest
    NoEventSlips
    NoEventTwice
    HistoryInOrder
PROPERTIES
    PublishReturns
