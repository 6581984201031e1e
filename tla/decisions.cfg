SPECIFICATION EverySpec
CONSTANTS
    Nil = Nil
    MAX = MAX
    Ungrouped = Ungrouped
    Slots = {i1, i2, i3}
    GroupIds = {g1}
    Profiles <- SomeProfiles
    Bars <- SomeBars
    Moves <- SomeMoves
    Old = 2
    Amounts = {2, 8}
    OrderPrices = {2}
    RuleBooks <- SomeRules
    Purse = 10
    Whole = 4
    Decimals = 1
    Floor = 1
    Gut = 3
    MaxMoves = 3
    Signals = {signal1}
    Forward = 2
    MaxCandles = 3
    Closer = "monitor"
    Webhooks = {"webhook"}
    Limit = 2
    RecentCloses = 3
    MaxCloses = 6
    Faults = {"crash", "crashEnding", "db", "elsewhere"}
    MaxFaults = 2
    ScoredProfiles <- SomeScored
    Markets <- SomeMarkets
    Opinions <- SomeOpinions
    MinVolume = 15
    MinConfidence = 700
    RegimeTTL = 2
    RegimeOld = 3
    NumPositions = 2
    Lots = 1
    MaxOpen = 2
    Webhook = TRUE
    UseTrailing = FALSE
    ExitFaults = {"lag", "cancel", "balance", "ack", "external", "db", "crash", "openTerminal"}
    MaxExitFaults = 1
INVARIANTS
    TwoLosses
    SignalsGuarded
    OrdersRight
    FirstTouch
    PausesRight
PROPERTIES
    ValidationSound
CHECK_DEADLOCK FALSE
