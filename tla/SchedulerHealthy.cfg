SPECIFICATION LiveSpec
CONSTANTS
    Runs = {r1, r2}
    Appliances = {a1}
    Seeded = {}
    Passes = {p1, p2}
    NULL = NULL
    ClaimLease = 3
    ReclaimWindow = 10
    BatchLimit = 1
    MaxAttempts = 2
    DefaultHook = FALSE
    Minute = 1
    StartTimes = {1}
    MaxFire = 1
    Skew = 0
    Outcomes = {"ok", "refused"}
    FaultKinds = {}
    MaxFaults = 0
    MaxTime = 8
    LastCreate = 0
INVARIANTS
    NoAbandonedClaim
    StatusTellsOutcome
    DeliveredOnce
PROPERTIES
    EventuallyNotified
CHECK_DEADLOCK FALSE
