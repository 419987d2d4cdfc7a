SPECIFICATION SpecWithSync
CONSTANTS
    a1 = a1
    a2 = a2
    t1 = t1
    Replicas = {r1}
    Agents = {a1}
    Tenants = {t1}
    TenantOf <- MCTenantOf
    Conns = {c1}
    NoConn = NoConn
    NoAgent = NoAgent
    NoReplica = NoReplica
    ClientMessages = {}
    MaxInbox = 1
INVARIANTS
    ConnectedHasAgent
CHECK_DEADLOCK FALSE
