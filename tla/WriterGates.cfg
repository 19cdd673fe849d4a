SPECIFICATION FairSpec
CONSTANTS
    w1 = w1
    w2 = w2
    w3 = w3
    w4 = w4
    w5 = w5
    w6 = w6
    e1 = e1
    hot = hot
    cold = cold
    other = other
    last = last
    Caller = {w1, w2, w3, w4, w5, w6, e1}
    Key = {hot, cold, other, last}
    KeyOf <- KeyOfCall
    PlaneOf <- PlaneOfCall
    ActiveLimit = 1
    QueueLimit = 2
INVARIANTS
    OneCallPerKey
    NothingLost
PROPERTIES
    NoOvertaking
    EveryCallEnds
CHECK_DEADLOCK FALSE
