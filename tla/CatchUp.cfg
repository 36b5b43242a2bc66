SPECIFICATION ProcessSpec
CONSTANTS
    Runs = {r1, r2}
    Appliances = {a1}
    Seeded = {}
    Passes = {t1, c1}
    TickPasses = {t1}
    NULL = NULL
    ClaimLease = 3
    ReclaimWindow = 6
    BatchLimit = 1
    MaxAttempts = 2
    DefaultHook = FALSE
    Minute = 1
    StartTimes = {1, 2}
    MaxFire = 1
    Skew = 0
    Outcomes = {"ok", "refused"}
    FaultKinds = {}
    MaxFaults = 0
    MaxTime = 6
    SchedulerEnabled = TRUE
    PollInterval = 1
    Grace = 1
    CronTimeout = 1
    DownTimes = {3}
    MaxStops = 1
    LastCreate = 0
INVARIANTS
    CaughtUp
CHECK_DEADLOCK FALSE
