\* Two processes and a kill over one grace period, one finished record kept:
\* finishing at the same time or apart, reaping, clearing, shutdown.
SPECIFICATION FairSpec
CONSTANTS
    NumProcs = 2
    k1 = k1
    k2 = k2
    Kills = {k1}
    Signals = {"SIGTERM"}
    Codes = {"zero"}
    Faulty = {}
    MaxFinished = 1
    Grace = 1
    MaxTime = 1
INVARIANTS
    WatcherMatchesLive
PROPERTIES
    ForgetsOnlyFinished
    ReapKeepsNewest
    ExcessIsReaped
CHECK_DEADLOCK FALSE
