CONSTANTS
    Prefix <- MCPrefix
    Programs <- MCPrograms
    MaxInt = 10
SPECIFICATION MatchingSpec
CHECK_DEADLOCK FALSE
INVARIANT ExitCodeIsWhole
