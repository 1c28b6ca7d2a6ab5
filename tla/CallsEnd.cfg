SPECIFICATION ContendedSpec
CONSTANTS
    None = None
    h1 = h1  h2 = h2  o1 = o1  o2 = o2  t1 = t1  s1 = s1
    c1 = c1  a1 = a1  a2 = a2  k1 = k1  k2 = k2  x1 = x1  x2 = x2
    p1 = p1  p2 = p2  p3 = p3
    Holds = {h1, h2}
    Organizations = {o1}
    Targets = {t1}
    Subjects = {s1}
    Callers = {c1}
    Actors = {a1}
    Keys = {k1}
    Texts = {x1, x2}
    Requests <- Contended
    Calls = {p1, p2, p3}
    MaxActivityId = 3
PROPERTIES
    CallsEnd
