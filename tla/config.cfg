SPECIFICATION EverySpec
CONSTANTS
    id1 = id1
    id2 = id2
    user1 = user1
    user2 = user2
    profile1 = profile1
    Rest = Rest
    TTL = 2
    Slow = 1
    MaxEdits = 2
    MaxNow = 4
    ProfileEdits = 4
    Ids <- SomeIds
    Fallback = Fallback
    PromptEdits = 3
    NoPrice = NoPrice
    Tickers = {"SOL_USDC"}
    Spellings <- Spelled
    Alias <- OtherSpelling
    Books <- SomeBooks
    Prices = {190, 200}
    Ttl = 1
    MaxFillAge = 1
    MaxSpread = 2
    MaxDeviation = 3
    PriceTime = 4
    MaxMoves = 3
    Nobody = Nobody
    Users = {user1, user2}
    Founder = user1
    Profiles = {profile1}
    AccessTtl = 1
    RefreshTtl = 3
    SessionTime = 4
    UserEdits = 2
    Symbols = 2
    LastRow = 3
    Levels = {1, 2, 3}
    Ticks = 2
    Stop = 1
    Slip = 1
    Target = 2
    Arm = 1
    Trail = 1
    RunnerTrail = 2
    MaxAge = 2
    FireCooldown = 1
    Cooldown <- Waits
    MaxOpen = 1
    Limit = 2
    Lock = 3
    NoTrade = NoTrade
INVARIANTS
    SizesCurrent
    EditApplied
    PromptCurrent
    NoPhantom
    AccessEnds
    ReplaySound
CHECK_DEADLOCK FALSE
