SPECIFICATION Spec
CONSTANTS
    pass1 = pass1
    pass2 = pass2
    respawn1 = respawn1
    respawn2 = respawn2
    Reconciles = {pass1, pass2}
    Respawns = {respawn1, respawn2}
    Runners = {r1, r2, r3}
    NoRunner = NoRunner
    MaxSaves = 2
    MaxFlips = 2
    MaxFaults = 1
SYMMETRY Alike
INVARIANTS NoStrayRunner ConfigApplied NoDeadEntry
