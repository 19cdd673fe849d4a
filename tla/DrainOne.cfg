SPECIFICATION FairDrainSpec
CONSTANTS
    r1 = r1
    r2 = r2
    c1 = c1
    c2 = c2
    t1 = t1
    g1 = g1
    g2 = g2
    NoHolder = NoHolder
    Id = {r1, r2, c1, t1}
    Holder <- OneDrain
    KindOf <- KindOfId
    BoundaryOf <- OneBoundary
    AttemptCap = 2
    MaxEpoch = 4
    MaxOrder = 4
    DrainBatchSize = 2
    MaxAttempts = 2
    Outcomes = {"transient", "counted", "terminal"}
    MaxFaults = 2
INVARIANTS
    CommitNeverOvertakes
    AckedWasAccepted
PROPERTIES
    EndsWithNothingToDo
    EveryRowDelivered
CHECK_DEADLOCK FALSE
