SPECIFICATION Spec
CONSTANTS
    None = None
    h1 = h1  h2 = h2  o1 = o1  t1 = t1  s1 = s1  s2 = s2
    c1 = c1  a1 = a1  k1 = k1  k2 = k2  x1 = x1  p1 = p1  g1 = g1  g2 = g2
    Holds = {h1, h2}
    Organizations = {o1}
    Targets = {t1}
    Subjects = {s1, s2}
    Callers = {c1}
    Actors = {a1}
    Keys = {k1, k2}
    Texts = {x1}
    Requests <- ScopesComeAndGo
    Calls = {p1}
    ActivityIds = {1, 2, 3, 4, 5}
    GuardCalls = {g1}
    Checks <- OneCheck
INVARIANTS
    GuardTypeOK
    StandingHoldBlocks
    DenialHasACause
    EvidenceRederivable
    EvidenceBeforeAnswer
