SPECIFICATION FairLifeSpec
CONSTANTS
    s1 = s1
    None = None
    Symbol = {s1}
    Period = {1, 2}
    Price = {1, 2}
    VolumeModes = {"weight"}
    Settings <- OneMinute
    StartSeries = None
    MaxTime = 3
    MaxQuotes = 3
    MaxLag = 1
    MaxAdds = 1
    MaxDrops = 1
    MaxRequests = 1
    MaxTroubles = 3
    FewQuotes = 1
CHECK_DEADLOCK FALSE
INVARIANTS
    TypeOK
    LifeTypeOK
    BarsFollowQuotes
PROPERTIES
    ToldIsLast
    ReportsFollowFeed
    ImplementsCandles
    StreamReconnects
    StreamDestructorEnds
    WaitFailsOnError
