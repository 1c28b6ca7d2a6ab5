\* One agent executes every kind of tool while another adds a scope
\* or releases the hold.
SPECIFICATION Spec
CONSTANTS
    None = None
    h1 = h1  o1 = o1  t1 = t1  c1 = c1  a1 = a1  k1 = k1  x1 = x1
    p1 = p1  p2 = p2
    Holds = {h1}
    Organizations = {o1}
    Targets = {t1}
    Subjects = {}
    Callers = {c1}
    Actors = {a1}
    Keys = {k1}
    Texts = {x1}
    Requests <- AllMutations
    Executions <- TwoAgents
    LaterCodes = {"quota_exceeded"}
    Payloads = {}
    Calls = {p1, p2}
    ActivityIds = {1, 2, 3}
INVARIANTS
    ToolsTypeOK
    RejectionsAreFinal
    SuccessIsDurable
    ReasonsSurvive
PROPERTIES
    ToolsDoWhatTheySay
