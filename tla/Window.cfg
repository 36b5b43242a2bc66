SPECIFICATION WindowSpec
CONSTANTS
    NaN = NaN
    ForecastHours = 3
    MaxSlots = 4
    PointHours = 4
    Values = {1, 2, 5}
    PointValues = {1, 3}
    Made = 1
    Durations = {NaN, 1, 2, 3, 4, 5, 6, 7, 1000}
    Times = {0, 1, 2, 3, 5, 8}
INVARIANTS
    CleanestWindow
    RefusedOnlyIfTooLong
    HourlyIsFaithful
CHECK_DEADLOCK FALSE
