SPECIFICATION CalendarSpec
CONSTANTS
    DayLen = 4
    MonthLengths <- MCMonthLengths
    Forward = 10
    Back = 17
    Rules <- MCRules
    Series = {"s"}
    Moments = {7, 10, 17}
    Horizons = {17, 68}
    Spacing = 3
    Renewable = 66
    Lead = 2
    SlotStep = 2
    SlotTries = 3
    NoDay = NoDay
    NoRule = NoRule
    NoItem = NoItem
    MaxCalls = 4
CHECK_DEADLOCK FALSE
INVARIANTS
    
    SeriesWhole
    ClockKept
