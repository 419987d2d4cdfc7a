SPECIFICATION FairSpec
CONSTANTS
    Replicas = {r1, r2, r3}
    MaxFaults = 2
    MaxDeploys = 1
INVARIANTS
    ServesItsSchema
    AppliedOnce
    WaitersHoldNothing
PROPERTIES
    UpgradesAreWhole
    AllServe
CHECK_DEADLOCK FALSE
