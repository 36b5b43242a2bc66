SPECIFICATION ProcessSpec
CONSTANTS
    Runs = {r1}
    Appliances = {a1}
    Seeded = {}
    Passes = {t1, c1}
    TickPasses = {t1}
    NULL = NULL
    ClaimLease = 3
    ReclaimWindow = 6
    BatchLimit = 1
    MaxAttempts = 2
    DefaultHook = FALSE
    Minute = 2
    StartTimes = {1}
    MaxFire = 1
    Skew = 0
    Outcomes = {"ok", "refused"}
    FaultKinds = {"crash", "cancel", "dberror", "lostreply"}
    MaxFaults = 1
    MaxTime = 24
    SchedulerEnabled = TRUE
    PollInterval = 1
    Grace = 1
    CronTimeout = 1
    DownTimes = {1, 7}
    MaxStops = 1
    LastCreate = 0
PROPERTIES
    EventuallySettled
    ForgottenOnlyByPause
    CronPassSurvives
CHECK_DEADLOCK FALSE
