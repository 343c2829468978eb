SPECIFICATION Spec
CONSTANTS
    d1 = d1
    d2 = d2
    r1 = r1
    r2 = r2
    o1 = o1
    o2 = o2
    None = None
    Deliveries = {d1, d2}
    Replicas = {r1, r2}
    Operators = {o1, o2}
    MaxAttempts = 2
    BatchSize = 2
    PerHour = 0
    Reports = TRUE
    MaxFaults = 1
    MaxRetries = 2
SYMMETRY MCSymmetry
INVARIANTS SentOnce StatusEarned NeverStranded
CHECK_DEADLOCK FALSE
