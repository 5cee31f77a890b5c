\* Delivery: windows of three units, two deliveries each; nine matches over eight
\* units: three windows that close by the timer or by a payload that comes first.
\* Requests: two, each with either grace, over a clock that both outlast.
\* Text: any three elements, any five that rows are laid out from. Lines: four
\* processes, six lines of output. Output: lines that are short, that grow when
\* serialized, and that are longer than the whole budget. Settings: two instances.
SPECIFICATION ServicesSpec
CONSTANTS
    Window = 3
    MaxPerWindow = 2
    MaxTime = 8
    MaxArrivals = 9
    Requests = {r1, r2}
    Timeouts = {0, 2}
    Grace = 1
    Headroom = 2
    PinTimeout = 1
    MaxClock = 6
    TabStop = 4
    RowWidths = {5}
    LabelWidth = 2
    MaxText = 3
    MaxLaidOut = 5
    LineWidths = {8, 12, 16}
    NameWidths = {3, 5}
    PrefixWidth = 2
    GapWidth = 2
    SuffixWidth = 3
    ArrowWidth = 2
    MaxEntries = 4
    MaxRepeats = 6
    MaxOutputBytes = 40
    MaxOutputLines = 14
    MaxJsonBytes = 72
    ScanLines = 3
    DefaultTailLines = 2
    Attempts = 10
    MetaSize = 2
    NoticeSize = 4
    LineKinds <- SomeLines
    TailsAsked = {0, 1, 30}
    MaxStdout = 4
    MaxStderr = 2
    WatchLimit = 2
    MaxItems = 2
    Instances = {p1, p2}
INVARIANTS
    EveryMatchIsAccountedFor
    BurstsAreBounded
    HandlerIsWaitedFor
    RowsShowText
    NothingIsHidden
    OutputFits
PROPERTIES
    SuppressedIsTold
    RequestsSettle
    UpdateIsReported
    SettingsAreKept
CHECK_DEADLOCK FALSE
