CONSTANTS
    Publishers = {p1}
    Subscribers = {s1}
    RingSize = 2
    SubBuf = 2
    MaxEvents = 4
SPECIFICATION Spec
CHECK_DEADLOCK FALSE
INVARIANT
    ClosingSubscriberSkipped
