SPECIFICATION FairSpec
CONSTANTS
    s1 = s1
    Symbols = {s1}
    Sides = {"BID"}
    MaxEntries = 1
    Lots = 2
    Timeout = 1
    Cooldown = 2
    MaxOpen = 1
    Faults <- AllFaults
    MaxFaults = 3
INVARIANTS
    OneExposure
PROPERTIES
    EntryDecided
