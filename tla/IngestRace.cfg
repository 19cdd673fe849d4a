SPECIFICATION Spec
CONSTANTS
    p1 = p1
    p2 = p2
    a1 = a1
    a2 = a2
    a3 = a3
    b1 = b1
    b2 = b2
    k1 = k1
    k2 = k2
    v = v
    w = w
    f = f
    g = g
    Absent = Absent
    Deleted = Deleted
    NoBody = NoBody
    Process = {p1, p2}
    Attempt = {a1, a2}
    ProcessOf <- ProcessOfAttempt
    Body = {b1, b2}
    RecordsOf <- BatchOfBody
    Key = {k1, k2}
    Value = {v, w}
    Facts = {f, g}
    FirstFacts = f
    MaxChanges = 1
    MaxFaults = 1
INVARIANTS
    WrittenOnceInOrder
PROPERTIES
    KeepsPromise
CHECK_DEADLOCK FALSE
