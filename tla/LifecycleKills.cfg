\* One process, two concurrent kills with two signals, faulty child: every
\* interleaving of close, error, tick, kills and clear.
SPECIFICATION FairSpec
CONSTANTS
    NumProcs = 1
    k1 = k1
    k2 = k2
    Kills = {k1, k2}
    Signals = {"SIGTERM", "SIGKILL"}
    Codes = {"zero", "nonzero"}
    Faulty = {1}
    MaxFinished = 1
    Grace = 1
    MaxTime = 1
INVARIANTS
    FinishedIsComplete
    RepeatedEndNeedsRace
    CleanupIsFinal
PROPERTIES
    VerdictStands
    FlushedBeforeEnded
    DeadIsNoticed
    KeepsPromise
CHECK_DEADLOCK FALSE
