SPECIFICATION LimiterSpec
CONSTANTS
    Requests = {r1, r2, r3}
    Clients = {i1, i2}
    Proxy = Proxy
    Absent = Absent
    Limit = 1
    Minute = 2
    PurgeAt = 1
    MaxDelay = 2
    MaxTime = 5
SYMMETRY MCSymmetry
INVARIANTS
    LimitHolds
    RefusedOnlyOverLimit
    ForeignPagesOnlyTurnedAway
CHECK_DEADLOCK FALSE
