SPECIFICATION ChainLiveSpec
CONSTANTS
    Bases = {"direct", "token"}
    Callers = {c1, c2}
    Interval = 1
    Patience = 2
    Hour = 3
    Second = 2
    TTLs = {0, 2, 4}
    MaxDelay = 1
    Missing = Missing
    Nobody = Nobody
    NoToken = NoToken
    Refresh = 2
    Validity = 6
    MaxLogin = 2
    MaxSend = 2
    LastAsk = 4
    MaxTime = 7
INVARIANTS
    StartedSlotNeedsCrossing
    AgeBounded
    SentTokenIsValid
PROPERTIES
    LoginsAreSpaced
    DirectCallsAreThrottled
    EveryRequestEnds
CHECK_DEADLOCK FALSE
