SPECIFICATION Spec
CONSTANTS
    e1 = e1
    e2 = e2
    w1 = w1
    Webhooks = {w1}
    Events = {e1, e2}
    Wants <- BothWanted
    Replicas = {r1, r2}
    None = None
    MaxEdits = 1
    MaxFaults = 2
    MaxAttempts = 2
    BatchSize = 2
CHECK_DEADLOCK FALSE
INVARIANTS
    PostOnce
    GivenUpLast
PROPERTIES
    RowsSettle
