CONSTANTS
    p1 = p1
    p2 = p2
    t1 = t1
    t2 = t2
    Byte <- MCByte
    ZeroByte = 0
    Capacity = 2
    Pane = {p1}
    Watcher = {}
    Tracker = {t1, t2}
    NoTracker = NoTracker
    OutCap = 1
    MaxPrint = 1
    MaxRestarts = 1
    MaxBlips = 2
    Instance = "this"
    OldInstance = "old"
    NoPane = NoPane
    NoToken = NoToken
SPECIFICATION FairFeedSpec
INVARIANT LostOnce
PROPERTY LossIsReported
PROPERTY StopReturns
PROPERTY ClosureIsReported
PROPERTY LivePaneIsPiped
PROPERTY OutputArrives
CHECK_DEADLOCK FALSE
