SPECIFICATION FairFeed
CONSTANTS
    MaxStreams = 3
    MaxRecords = 2
    MaxListeners = 2
    MaxWrites = 2
    MaxDrops = 1
    MaxAttempts = 2
    PerIP = 2
    Capacity = 1
    NoStream = NoStream
    Idle = Idle
    Asked = Asked
INVARIANTS FeedTypeOK NeverDeaf
PROPERTIES ViewCatchesUp
CHECK_DEADLOCK FALSE
