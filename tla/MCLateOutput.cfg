CONSTANTS
    p1 = p1
    p2 = p2
    t1 = t1
    t2 = t2
    Byte <- MCByte
    ZeroByte = 0
    Capacity = 2
    Pane = {p1}
    Watcher = {}
    Tracker = {t1, t2}
    NoTracker = NoTracker
    OutCap = 2
    MaxPrint = 2
    MaxRestarts = 0
    MaxBlips = 0
    Instance = "this"
    OldInstance = "old"
    NoPane = NoPane
    NoToken = NoToken
SPECIFICATION FeedSpec
INVARIANT ForgottenStaysUnknown
CHECK_DEADLOCK FALSE
