SPECIFICATION Spec
CONSTANTS
    m1 = m1
    w1 = w1
    m2 = m2
    t1 = t1
    Nodes = {m1, w1, m2, t1}
    Start = w1
    Kind <- GraphKind
    Edge <- GraphEdge
    OnReply <- GraphOnReply
    OnTimeout <- GraphOnTimeout
    Request = Request
    End = End
    None = None
    Replicas = {r1, r2}
    Inbox = {1, 2}
    Types <- InboxTypes
    MaxVisits = 1
    MaxErrors = 2
    MaxTries = 2
    Pausable = {t1}
    MaxUpsets = 2
CHECK_DEADLOCK FALSE
INVARIANTS
    WaitsForSomething
    ParkedIsPaused
    AppliedOnce
PROPERTIES
    HeldStays
    RunEnds
