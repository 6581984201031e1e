SPECIFICATION FairSpec
CONSTANTS
    Longs = {p1}
    Shorts = {p2}
    Prices = {95, 96, 97, 99, 100, 101, 103, 104, 105}
    Entry = 100
    ArmBps = 100
    TrailBps = 200
    TakeBps = 500
    StopBps = 300
    LockBps = 5
    CheckInterval = 3
    Series = {s1}
    Length <- OneLength
    FetchInterval = 2
    HealthInterval = 1
    GracePeriod = 1
    TrendMaxAge = 2
    PriceMaxAge = 1
    ReAlertCooldown = 5
    Slack = 1
    Old = 9
    MaxFaults = 2
INVARIANTS
    TrailsBest
    AlarmsRight
PROPERTIES
    OperatorTold
