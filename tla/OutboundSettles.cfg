SPECIFICATION FairSpec
CONSTANTS
    d1 = d1
    d2 = d2
    r1 = r1
    r2 = r2
    o1 = o1
    o2 = o2
    None = None
    Deliveries = {d1, d2}
    Replicas = {r1, r2}
    Operators = {o1, o2}
    MaxAttempts = 2
    BatchSize = 2
    PerHour = 1
    Reports = FALSE
    MaxFaults = 0
    MaxRetries = 2
INVARIANT LimitHeld
PROPERTY Settles
CHECK_DEADLOCK FALSE
