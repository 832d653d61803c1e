CONSTANTS
    p1 = p1
    p2 = p2
    w1 = w1
    w2 = w2
    x = x
    m = m
    Byte <- MCByte
    ZeroByte = x
    MatchByte = m
    Chunk <- OneByte
    Capacity = 1
    MaxEnd = 2
    MaxTime = 3
    Pane = {p1, p2}
    Watcher = {w1, w2}
    Requests <- MCRequests
    Plan <- MCPlan
    Scope <- MCScope
    Instance = "this"
    OldInstance = "old"
    NoPane = NoPane
    NoToken = NoToken
    NoRequest = NoRequest
SPECIFICATION ClosuresSpec
SYMMETRY Agents
INVARIANT TypeOK
INVARIANT ServedTokenIsOurs
INVARIANT ParkedSawEverything
INVARIANT NextStandsBehindWhatWasSeen
INVARIANT ParkedTimerIsCurrent
INVARIANT QuietUnlessSignalled
INVARIANT ErrorsAreEarned
