\* Two processes and two stops, three configs: ends, stops, timeouts, clear and
\* shutdown between any two microtasks.
SPECIFICATION Spec
CONSTANTS
    Procs = {1, 2}
    k1 = k1
    k2 = k2
    Kills = {k1, k2}
    Configs <- SomeConfigs
INVARIANTS
    BookkeepingFollowsProcess
    CrashIsShown
    ConfigIsObeyed
PROPERTIES
    StopIsQuietAlone
CHECK_DEADLOCK FALSE
