SPECIFICATION FairSpec
CONSTANTS
    s1 = s1
    s2 = s2
    Symbols = {s1, s2}
    Sides = {"BID", "ASK"}
    MaxEntries = 2
    Lots = 2
    Timeout = 1
    Cooldown = 2
    MaxOpen = 1
    Faults = {}
    MaxFaults = 0
PROPERTIES
    EntryPromised
