SPECIFICATION LinkFairSpec
CONSTANTS
    HeartbeatInterval = 6
    HeartbeatTimeout = 18
    MaxDelay = 2
    MaxJitter = 1
    MaxAttempts = 8
    Delay <- MCDelay
    ReconnectJitter = 1
    HandshakeTimeout = 2
INVARIANTS
    PunctualIsKept
    SilentIsNoticed
    GivesUpLate
    ReturnsSoon
PROPERTIES
    Reconnects
