SPECIFICATION Spec
CONSTANTS
    Runs = {r1}
    Appliances = {a1}
    Seeded = {}
    Passes = {p1, p2}
    NULL = NULL
    ClaimLease = 4
    ReclaimWindow = 7
    BatchLimit = 1
    MaxAttempts = 2
    DefaultHook = FALSE
    Minute = 1
    StartTimes = {1}
    MaxFire = 1
    Skew = 1
    Outcomes = {"ok", "refused", "lost"}
    FaultKinds = {"crash", "cancel", "dberror", "lostreply"}
    MaxFaults = 2
    MaxTime = 9
SYMMETRY MCSymmetry
INVARIANTS
    TypeOK
    AtMostOneHolder
    Ownership
    OneNotification
    AttemptsInOrder
    DeliveredIsTrue
    AttemptBudget
PROPERTIES
    NotifiedIsFinal
    CancelIsFinal
    ClaimsAreSpaced
    ImplementsContract
CHECK_DEADLOCK FALSE
