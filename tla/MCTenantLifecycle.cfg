SPECIFICATION Spec
CONSTANTS
    p1 = p1
    p2 = p2
    d1 = d1
    d2 = d2
    e1 = e1
    e2 = e2
    s1 = s1
    interval = interval
    retention = retention
    Requests = {r1, r2, r3}
    Replicas = {p1, p2}
    Domains = {d1, d2}
    Directories = {e1, e2}
    States = {s1}
    Settings = {interval, retention}
    Bodies <- AllBodies
    NoBody = NoBody
    NoReplica = NoReplica
SYMMETRY Symmetry
INVARIANTS
    OneTenantPerDirectory
    AnswersAreTrue
    SettingsFromRequests
    AuditIsTrue
PROPERTIES
    ConsentIsOneTime
    OperatorsDecide
CHECK_DEADLOCK FALSE
