\* Three processes and the overview alone.
SPECIFICATION SessionSpec
CONSTANTS
    Parts = {"overview"}
    Keys = {"once", "again"}
    Repeating = {"again"}
    Cooldown = 2
    MaxWatches = 2
    MaxWatchTime = 3
    MaxUpdates = 3
    MaxAdded = 3
    MaxOutputs = 3
    Procs = {1, 2, 3}
    Kills = {}
    DockDefault = "collapsed"
    NameRank <- SomeRanks
    Matching = {1, 3}
    MaxVisible = 1
    MaxCachedViewers = 2
    LongLines = {2, 4}
    MaxBytes = 5
    MaxLogged = 6
    DefaultTail = 4
    MaxPreviewLines = 4
    PreviewHeight = 2
    MaxShown = 5
    StderrLines = {2}
    MatchingLines = {1, 4, 5}
    MaxBufferLines = 4
    Heights = {2}
    FollowByDefault = TRUE
PROPERTIES
    SelectionSurvives
CHECK_DEADLOCK FALSE
