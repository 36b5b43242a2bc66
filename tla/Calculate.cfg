SPECIFICATION CalcLiveSpec
CONSTANTS
    Races = {1, 2}
    Providers = {p1, p2}
    NoOne = NoOne
    PoolSizes = {0, 2}
    NoJob = NoJob
    Zips = {1, 2, 3}
    Blank = Blank
    Malformed = Malformed
    MaxRaw = 3
    MaxMultiZips = 2
    Averages = {1, 2}
INVARIANTS
    AnswerJustified
    EachZipOnce
    GreenestIsBest
    BlameIsRight
PROPERTIES
    EveryRequestAnswered
    NoneLeftBehind
CHECK_DEADLOCK FALSE
