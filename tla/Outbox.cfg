SPECIFICATION Spec
CONSTANTS
    t1 = t1
    t2 = t2
    g1 = g1
    g2 = g2
    NoHolder = NoHolder
    Id <- CommitIds
    Holder <- TwoHolders
    KindOf <- CommitKinds
    BoundaryOf <- OneBoundary
    AttemptCap = 0
    MaxEpoch = 2
    MaxOrder = 3
SYMMETRY CommitSymmetry
INVARIANTS
    InsertOrderIsTotal
    RetiredStaysRetired
PROPERTIES
    LiveLeaseUndisturbed
    ImplementsObligations
CHECK_DEADLOCK FALSE
