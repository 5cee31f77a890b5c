\* Watches: one content that fires once and one that repeats, lists of up to
\* two, three watches in all, three updates, three outputs and one cooldown.
\* Three processes for the lists and two for the dock; the window of the
\* overview shows one row, the overlay keeps two of three viewers. The log of
\* one process, lines of two sizes, more of them than a view keeps.
SPECIFICATION SessionSpec
CONSTANTS
    Parts = {"watches", "dock", "overview", "overlay", "preview", "viewer"}
    Keys = {"once", "again"}
    Repeating = {"again"}
    Cooldown = 2
    MaxWatches = 2
    MaxWatchTime = 3
    MaxUpdates = 3
    MaxAdded = 3
    MaxOutputs = 3
    Procs = {1, 2, 3}
    Kills = {}
    DockDefault = "collapsed"
    NameRank <- SomeRanks
    Matching = {1, 3}
    MaxVisible = 1
    MaxCachedViewers = 2
    LongLines = {2, 4}
    MaxBytes = 5
    MaxLogged = 6
    DefaultTail = 4
    MaxPreviewLines = 4
    PreviewHeight = 2
    MaxShown = 5
    StderrLines = {2}
    MatchingLines = {1, 4, 5}
    MaxBufferLines = 4
    Heights = {2}
    FollowByDefault = TRUE
INVARIANTS
    FiresAsOftenAsAsked
    FirstMatchFires
    DockFollows
    OverlayListens
    SelectionIsInView
PROPERTIES
    ViewKeepsSelection
    PreviewStaysPut
    ScreenFollowsReader
CHECK_DEADLOCK FALSE
