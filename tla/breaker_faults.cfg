SPECIFICATION Spec
CONSTANTS
    Threads = {"monitor"}
    Profiles = {"p1"}
    Standalone = FALSE
    Values = {80, 96, 112}
    ProfitPct = 7
    LossPct = 10
    MaxEvents = 2
    LastDay = 1
    Faults <- AllFaults
    MaxFaults = 2
INVARIANTS
    LockStands
    FurtherGain
PROPERTIES
    LockLasts
