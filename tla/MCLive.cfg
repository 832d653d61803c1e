CONSTANTS
    p1 = p1
    w1 = w1
    x = x
    m = m
    Byte <- MCByte
    ZeroByte = x
    MatchByte = m
    Chunk <- OneByte
    Capacity = 1
    MaxEnd = 2
    MaxTime = 3
    Pane = {p1}
    Watcher = {w1}
    Requests <- TimedRequests
    Instance = "this"
    OldInstance = "old"
    NoPane = NoPane
    NoToken = NoToken
    NoRequest = NoRequest
SPECIFICATION FairSpec
PROPERTY NoWaitSleepsOnItsEnd
PROPERTY StopEndsWaits
PROPERTY EveryWaitEnds
