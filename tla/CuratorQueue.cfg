SPECIFICATION Spec
SYMMETRY MCSymmetry
CONSTANTS
    j1 = j1
    j2 = j2
    w1 = w1
    w2 = w2
    Jobs = {j1, j2}
    Workers = {w1, w2}
    Keys = {k1}
    NoKey = NoKey
    NoJob = NoJob
    Priority <- MCPriority
    Faults = TRUE
    MaxAttempts = 2
    MaxClaims = 2
INVARIANTS
    TypeOK
    ExclusiveRun
    BudgetExact
    DeadOnlyWhenSpent
    RetryFits
PROPERTIES
    SettledUnlessExpired
    RecoverySweepsAll
