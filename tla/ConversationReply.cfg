SPECIFICATION Spec
CONSTANTS
    a = a
    b = b
    Replicas = {a, b}
    Runs = {1, 2}
    Nobody = Nobody
    Departed = Departed
    MaxCustomer = 2
    MaxEvents = 1
SYMMETRY Alike
INVARIANTS OneReply AnswersLatest ClaimBacked
CHECK_DEADLOCK FALSE
