SPECIFICATION EveryFairSpec
CONSTANTS
    loop = loop
    value1 = value1
    value2 = value2
    Threads = {"monitor"}
    Profiles = {"p1"}
    Standalone = FALSE
    Values = {80, 96}
    ProfitPct = 7
    LossPct = 10
    MaxEvents = 2
    LastDay = 0
    Faults = {"crash", "db", "noValue"}
    MaxFaults = 1
    HostList <- TwoHosts
    FeedSymbols = 2
    Retries = 2
    Interval = 2
    ListingTTL = 6
    FailTTL = 2
    BanTime = 3
    Fallback = 2
    Pause = 1
    Timeout = 2
    MaxStrikes = 4
    Size = 2
    MaxOpen = 2
    MaxRows = 2
    MaxHeld = 2
    Loops = {loop}
    Every <- Intervals
    MaxChanges = 4
    MaxStops = 1
    Nothing = Nothing
    Global = "0"
    SettingProfiles = {profile1}
    Names = {name1}
    Strings = {value1, value2}
    AsInt <- SomeInts
    Default = 7
    MaxEdits = 3
INVARIANTS
    KeptThroughout
PROPERTIES
    FeedResumes
    FlatSettles
    PositionsWatched
    EditsArrive
    LockEnds
CHECK_DEADLOCK FALSE
