SPECIFICATION Spec
CONSTANTS
    Runs = {r1}
    Appliances = {a1}
    Seeded = {}
    Passes = {p1, p2}
    NULL = NULL
    ClaimLease = 4
    ReclaimWindow = 7
    BatchLimit = 1
    MaxAttempts = 2
    DefaultHook = FALSE
    Minute = 1
    StartTimes = {1}
    MaxFire = 1
    Skew = 0
    Outcomes = {"ok", "refused"}
    FaultKinds = {}
    MaxFaults = 0
    MaxTime = 9
SYMMETRY MCSymmetry
PROPERTIES
    PendingNeverDropped
CHECK_DEADLOCK FALSE
