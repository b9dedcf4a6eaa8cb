SPECIFICATION BotSpec
CONSTANTS
    s1 = s1
    None = None
    Symbol = {s1}
    Period = {2}
    Price = {1, 2}
    VolumeModes = {"none"}
    Settings <- OneMinute
    StartSeries = None
    Minute = 2
    Span = 4
    Step = 4
    History = 1
    Unfinished = {TRUE, FALSE}
    MaxTime = 5
    MaxQuotes = 3
    MaxLag = 1
    MaxAdds = 0
    MaxDrops = 1
    MaxRequests = 0
CHECK_DEADLOCK FALSE
INVARIANTS
    BotTypeOK
    FileInOrder
    FileKeepsHistory
    FileFollowsStream
