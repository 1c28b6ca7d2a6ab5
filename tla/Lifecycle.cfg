SPECIFICATION FairSpec
CONSTANTS
    None = None
    h1 = h1  o1 = o1  t1 = t1  s1 = s1  admin = admin  service = service
    a1 = a1  a2 = a2  k1 = k1  x1 = x1  p1 = p1  p2 = p2
    Holds = {h1}
    Organizations = {o1}
    Targets = {t1}
    Subjects = {s1}
    Callers = {admin, service}
    Keys = {k1}
    Texts = {x1}
    AdminCallers = {admin}
    GuardCallers = {service}
    Actors = {a1, a2}
    Requests <- Rivals
    Invocations <- RivalInvocations
    Calls = {p1, p2}
    ActivityIds = {1}
    Memberships <- TwoMembers
    Grants <- WriteGrants
    Revocable = {}
    PoolSize = 1
    MaxActivations = 2
INVARIANTS
    ResponsesAreTrue
PROPERTIES
    TablesRestWhileInactive
    CallsAnswered
    TransitionsEnd
