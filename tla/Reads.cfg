SPECIFICATION Spec
CONSTANTS
    None = None
    o1 = o1  o2 = o2  t1 = t1  c1 = c1  a1 = a1  k1 = k1  k2 = k2  k3 = k3
    x1 = x1  p1 = p1  r1 = r1
    Holds = {1, 2, 3}
    Organizations = {o1, o2}
    Targets = {t1}
    Subjects = {}
    Callers = {c1}
    Actors = {a1}
    Keys = {k1, k2, k3}
    Texts = {x1}
    Requests <- ThreeHolds
    Calls = {p1}
    ActivityIds = {1, 2, 3, 4}
    Readers = {r1}
    Reads <- EveryRead
INVARIANTS
    ViewsComeFromHistory
    ReleasedViewsAreFinal
    PagesSkipNoHold
    ShownAsAsked
    CursorsSkipNoActivity
