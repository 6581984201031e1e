SPECIFICATION Spec
CONSTANTS
    NumPositions = 2
    Lots = 2
    MaxOpen = 2
    Webhook = FALSE
    UseTrailing = FALSE
    Faults = {}
    MaxFaults = 0
INVARIANTS
    ProfitOnce
