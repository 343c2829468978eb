SPECIFICATION Spec
CONSTANTS
    Keys = {k1}
    Callers = {c1, c2}
    Recipients = {r1}
    Replicas = {p1, p2}
    None = None
    MaxAlerts = 2
    MaxResolves = 1
    MaxFaults = 1
    MaxAttempts = 2
    BatchSize = 1
CHECK_DEADLOCK FALSE
INVARIANTS
    MailOnce
    BlipSilent
    SilenceExplained
PROPERTIES
    RaiseTakes
    NotesSettle
