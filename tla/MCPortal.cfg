SPECIFICATION PortalFairSpec
CONSTANTS
    Pages <- MCPages
    Shared <- MCShared
    MaxEvents = 2
INVARIANTS
    ChangeIsShown
PROPERTIES
    LoadsSettle
    AgentsCatchUp
CHECK_DEADLOCK FALSE
