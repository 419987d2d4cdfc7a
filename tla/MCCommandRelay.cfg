SPECIFICATION FairSpec
CONSTANTS
    Commands = {k1, k2}
    MaxBreaks = 2
INVARIANTS
    NothingLeftBehind
    ResolvedMeansDone
PROPERTIES
    SettlesOnce
    SettlesInTime
CHECK_DEADLOCK FALSE
