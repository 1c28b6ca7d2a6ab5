SPECIFICATION Spec
CONSTANTS
    None = None
    h1 = h1  o1 = o1  t1 = t1  s1 = s1  admin = admin  service = service
    a1 = a1  a2 = a2  k1 = k1  x1 = x1  p1 = p1  p2 = p2
    Holds = {h1}
    Organizations = {o1}
    Targets = {t1}
    Subjects = {s1}
    Callers = {admin, service}
    Keys = {k1}
    Texts = {x1}
    AdminCallers = {admin}
    GuardCallers = {service}
    Actors = {a1}
    Requests <- EveryMutation
    Invocations <- EveryInvocation
    Calls = {p1}
    ActivityIds = {1, 2}
    Memberships <- Membership
    Grants <- EveryGrant
    Revocable <- AllRevocable
    PoolSize = 1
    MaxActivations = 1
INVARIANTS
    PluginTypeOK
    AnswersAreAuthorized
    RefusalsAreTrue
    NothingBeforeTheSchema
