SPECIFICATION Spec
CONSTANTS
    None = None
    m1 = m1
    m2 = m2
    Task = {t1, t2}
    Closing <- EarlyMarket
    Reclosed <- SameSymbol
    Market = {m1}
    Grace = 0
    BetsDelay = 1
    Trends = {"BUY"}
    OpenRates = {2}
    EndRates = {3}
    JoinRef = 5
    PingsRefused = FALSE
    IsoResults = {TRUE}
    Horizon = 2
    MaxRef = 9
    MaxBetId = 1
    MaxOpens = 1
    MaxDrops = 0
    MaxPings = 0
    MaxClears = 1
    CanShutDown = TRUE
SYMMETRY Tasks
CHECK_DEADLOCK FALSE
INVARIANTS
    TypeOK
    BetsHaveThreads
