SPECIFICATION Spec
CONSTANTS
    NumProcs = 1
    k1 = k1
    k2 = k2
    Kills = {k1, k2}
    Signals = {"SIGTERM"}
    Codes = {"zero", "nonzero"}
    Faulty = {}
    MaxFinished = 1
    Grace = 1
    MaxTime = 1
INVARIANT EndedAtMostOnce
CHECK_DEADLOCK FALSE
