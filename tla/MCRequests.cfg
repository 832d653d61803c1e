CONSTANTS
    c1 = c1
    c2 = c2
    Client = {c1, c2}
    World = {"shell", "prompt", "slow", "late"}
    PromptWorld = {"shell", "prompt"}
    LinesIn <- MCLinesIn
    PaneId = {"%1"}
    CallCap = 1
    WaitTimeout = 1
    Grace = 1
    HardExitTime = 1
    MaxTime = 0
SPECIFICATION FairRequestsSpec
CHECK_DEADLOCK FALSE
INVARIANT RequestsTypeOK
INVARIANT SendsAreWholeWhenAcknowledged
INVARIANT CutMeansNotRun
INVARIANT PromptMeansInTime
INVARIANT FlagsStandAnywhere
INVARIANT NothingBehindDashesIsAFlag
PROPERTY EveryInvocationEnds
