SPECIFICATION FairSpec
CONSTANTS
    create = create
    enable = enable
    disable = disable
    stop = stop
    delete = delete
    test = test
    change = change
    revoke = revoke
    again = again
    p1 = p1
    p2 = p2
    Scenario <- OneOfEach
    Process = {p1}
    OpOf <- OpOfReq
    HomeOf <- HomeOfReq
    ClaimLimit = 5
    MaxAttempts = 2
INVARIANTS
    NoNeedlessSend
    NoticeMeansRevoked
PROPERTIES
    SqliteRespectsLifecycle
    HandshakeCounts
    EveryEventSettles
CHECK_DEADLOCK FALSE
