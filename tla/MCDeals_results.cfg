SPECIFICATION Spec
CONSTANTS
    None = None
    m1 = m1
    m2 = m2
    Task = {t1}
    Closing <- TwoMarkets
    Reclosed <- SameSymbol
    Market = {m1, m2}
    Grace = 0
    BetsDelay = 1
    Trends = {"BUY", "SELL"}
    OpenRates = {2}
    EndRates = {1, 2, 3}
    JoinRef = 5
    PingsRefused = TRUE
    IsoResults = {TRUE, FALSE}
    Horizon = 2
    MaxRef = 7
    MaxBetId = 0
    MaxOpens = 1
    MaxDrops = 0
    MaxPings = 1
    MaxClears = 0
    CanShutDown = FALSE
CHECK_DEADLOCK FALSE
INVARIANTS
    ResultsFollowPrices
