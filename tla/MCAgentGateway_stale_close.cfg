SPECIFICATION StableSpec
CONSTANTS
    a1 = a1
    a2 = a2
    t1 = t1
    Replicas = {r1}
    Agents = {a1}
    Tenants = {t1}
    TenantOf <- MCTenantOf
    Conns = {c1, c2}
    NoConn = NoConn
    NoAgent = NoAgent
    NoReplica = NoReplica
    ClientMessages = {}
    MaxInbox = 1
INVARIANTS
    ConnectedIsReachable
CHECK_DEADLOCK FALSE
