SPECIFICATION FairSpec
CONSTANTS
    Bad = Bad
    Files <- SettingsFiles
    Commands <- CommandLines
    Period = {1, 2, 3}
    ShortPeriod = {1, 2}
    Day = 6
    Span <- Spans
    Limit = 3
    FirstMinute = 18
    Closings = {17, 99}
    Misread <- Readable
    Uint32 = 32
    Uint64 = 64
    MaxMinute = 29
    MaxSlow = 2
    MaxLost = 1
    LastStart = 22
    Expert = {1, 2}
    Contracts <- Orders
    Keys = {"f", "g", "h"}
    Times = {1, 29, 30, 89, 240, 299}
    MaxEvents = 5
CHECK_DEADLOCK FALSE
INVARIANTS
    RequestsWithinLimit
    HistoryComplete
    RealOnlyIfAsked
    HotkeysComplete
    ClosesAhead
PROPERTIES
    DownloadEnds
    ExpertsInformed
