CONSTANTS
    p1 = p1
    p2 = p2
    t1 = t1
    t2 = t2
    Byte <- MCByte
    ZeroByte = 0
    Capacity = 2
    Pane = {p1, p2}
    Watcher = {}
    Tracker = {t1, t2}
    NoTracker = NoTracker
    OutCap = 2
    MaxPrint = 4
    Scene = {"one", "two"}
    Scope <- MCScope
    MaxRestarts = 0
    MaxBlips = 1
    Instance = "this"
    OldInstance = "old"
    NoPane = NoPane
    NoToken = NoToken
SPECIFICATION BootstrapSpec
SYMMETRY FIFOs
INVARIANT FeedTypeOK
INVARIANT NothingSkipped
INVARIANT ClosedMeansKilled
INVARIANT TokenMissesNothing
CHECK_DEADLOCK FALSE
