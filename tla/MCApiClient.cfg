SPECIFICATION FairSpec
CONSTANTS
    c1 = c1
    c2 = c2
    c3 = c3
    a1 = a1
    a2 = a2
    Calls = {c1, c2, c3}
    Accounts = {a1, a2}
    NoAccount = NoAccount
    Asks <- TwoOperators
INVARIANTS
    ExecutedOnce
    SessionKept
PROPERTIES
    EveryCallSettles
CHECK_DEADLOCK FALSE
