SPECIFICATION Spec
CONSTANTS
    a = a
    b = b
    i1 = i1
    i2 = i2
    a1 = a1
    a2 = a2
    a3 = a3
    b1 = b1
    Replicas = {a, b}
    Passes = {a1, a2, a3, b1}
    Home <- MCHome
    Ids = {i1, i2}
    NoReplica = NoReplica
    NoId = NoId
    MaxFaults = 1
    MaxGrants = 2
SYMMETRY Alike
INVARIANTS NoLostLock
PROPERTY ImplementsOwnership
