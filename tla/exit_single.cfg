SPECIFICATION FairSpec
CONSTANTS
    NumPositions = 2
    Lots = 2
    MaxOpen = 1
    Webhook = FALSE
    UseTrailing = TRUE
    Faults <- AllFaults
    MaxFaults = 2
INVARIANTS
    BookedOnce
    NoPoach
    InReach
PROPERTIES
    FillBooked
