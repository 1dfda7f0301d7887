SPECIFICATION Spec
CONSTANTS
    c1 = c1
    c2 = c2
    w1 = w1
    Nobody = Nobody
    Channels = {c1, c2}
    Selectors = {w1}
    Wants <- MCWants
    Capacity = 1
    Sources = 2
    Monthly = 3
    Cost = 2
    Threshold = 2
    Cooldown = 1
    MonthLength = 1
    MaxTime = 2
    MaxFailures = 2
    MaxCycles = 2
    MaxEvents = 1
INVARIANTS
    TrippedIsRecorded
    BudgetKept
    ChargesAreCounted
    QuotaKept
