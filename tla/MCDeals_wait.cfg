SPECIFICATION FairSpec
CONSTANTS
    None = None
    m1 = m1
    m2 = m2
    Task = {t1}
    Closing <- OneMarket
    Reclosed <- SameSymbol
    Market = {m1}
    Grace = 0
    BetsDelay = 1
    Trends = {"BUY"}
    OpenRates = {2}
    EndRates = {3}
    JoinRef = 5
    PingsRefused = FALSE
    IsoResults = {TRUE}
    Horizon = 3
    MaxRef = 8
    MaxBetId = 0
    MaxOpens = 1
    MaxDrops = 1
    MaxPings = 0
    MaxClears = 0
    CanShutDown = FALSE
CHECK_DEADLOCK FALSE
PROPERTIES
    WaitEnds
