SPECIFICATION ReplaySpec
CONSTANTS
    Nil = Nil
    Payloads <- MCPayloads
    Ticks <- MCTicks
    Refs <- MCRefs
    Configs <- MCConfigs
    RsiCap = 3
    EmaCap = 2
    BbCap = 3
    CandleCap = 4
    MinBars = 4
    WarmRows = 3
    Ungrouped = Ungrouped
    Slots = {i1, i2, i3}
    GroupIds = {g1, g2}
    Eps = 0
    EmaStep = 0
    RsiStep = 0
    MaxRows = 5
INVARIANTS
    MirrorImage
    ReplayAgrees
PROPERTIES
    RestartNeverLoosens
CHECK_DEADLOCK FALSE
