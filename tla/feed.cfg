SPECIFICATION FairSpec
CONSTANTS
    s1 = s1
    Series = {s1}
    Length <- OneLength
    Interval = 4
    MaxAge = 5
    Lookback = 8
    MinCatchup = 1
    MaxCatchup = 100
    RepairBars = 1
    ReplayLimit = 2
    WarmupRows = 3
    WarmupWindow = 20
    Keep = 3
    MaxDelay = 1
    MaxFaults = 2
    MaxNow = 20
INVARIANTS
    LogFaithful
    NeverStale
PROPERTIES
    CatchesUp
CHECK_DEADLOCK FALSE
