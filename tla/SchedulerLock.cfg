SPECIFICATION FairSpec
CONSTANTS
    c1 = c1
    c2 = c2
    c3 = c3
    p1 = p1
    p2 = p2
    n1 = n1
    n2 = n2
    None = None
    Calls = {c1, c2, c3}
    Processes = {p1, p2}
    Names = {n1, n2}
    Owner <- MCOwner
    Name <- MCName
    PoolMax = 2
    MaxWeb = 2
    Faults = TRUE
INVARIANTS HeldExact RoomToWork
PROPERTIES TicksEnd TickOwnership
CHECK_DEADLOCK FALSE
