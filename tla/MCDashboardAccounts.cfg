SPECIFICATION Spec
CONSTANTS
    p1 = p1
    i1 = i1
    e1 = e1
    s1 = s1
    DefaultEmail = DefaultEmail
    Requests = {r1, r2, r3, r4}
    Replicas = {p1}
    Emails = {DefaultEmail, e1}
    Identities = {i1}
    States = {s1}
    Bodies <- AllBodies
    DefaultPassword = DefaultPassword
    NoPassword = NoPassword
    NoIdentity = NoIdentity
    NoAccount = NoAccount
    NoBody = NoBody
    NoReplica = NoReplica
SYMMETRY Symmetry
INVARIANTS
    OneAccountPerIdentity
    CredentialsEnd
    AnswersAreTrue
PROPERTIES
    SignInIsOneTime
    AccountsGoForward
CHECK_DEADLOCK FALSE
