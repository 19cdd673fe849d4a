SPECIFICATION FairSpec
CONSTANTS
    a1 = a1
    a2 = a2
    e1 = e1
    e2 = e2
    t1 = t1
    t2 = t2
    t3 = t3
    v1 = v1
    Call = {a1, a2, e1, e2, t1, t2, t3, v1}
    OpOf <- OpOfCall
    Path = {"oauth", "exchange", "device"}
    MaxGeneration = 2
    MaxCode = 2
    MaxFaults = 1
ACTION_CONSTRAINT BeginInOrder
INVARIANTS
    FamilyIsAChain
    RedeemedOnce
PROPERTIES
    HandedOutWhileActive
    RefusalEndsFamily
    NobodyWaitsForever
CHECK_DEADLOCK FALSE
