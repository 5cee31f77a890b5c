\* One process, two stops of it, the default config.
SPECIFICATION Spec
CONSTANTS
    Procs = {1}
    k1 = k1
    k2 = k2
    Kills = {k1, k2}
    Configs <- SomeConfigs
PROPERTIES
    StopIsQuiet
CHECK_DEADLOCK FALSE
