SPECIFICATION Spec
CONSTANTS
    p1 = p1
    p2 = p2
    s1 = s1
    s2 = s2
    Profiles = {p1, p2}
    Symbols = {s1, s2}
    SymbolsOf <- Watched
    MakerProfiles = {p2}
    Bare = {}
    ProfileCap = 1
    SymbolCap = 1
    GroupCap = 1
    GroupSymbolCap = 1
    Cooldown = 1
    StopCooldown = 4
    ProfitCooldown = 1
    DefaultCooldown = 0
    Hour = 1
    RestoreWindow = 1
    MaxEntries = 2
    MaxCloses = 1
    MaxEvents = 1
INVARIANTS
    CapsHeld
    ReentryRespected
PROPERTIES
    EntriesSpaced
