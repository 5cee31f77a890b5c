\* Lines of one byte, events of up to two lines, four chunks on two streams
\* over one throttle interval and a half; two log files that hold one large
\* entry or a few small ones, three entries and two faults; files longer than
\* what is read of them; one view that comes and goes over four lines.
SPECIFICATION LogSpec
CONSTANTS
    Chunks <- SomeChunks
    MaxPending = 1
    MaxLines = 2
    Throttle = 2
    MaxTime = 3
    MaxChunks = 4
    Files <- SomeFiles
    Cap = 4
    MarkerSize = 2
    Sizes = {1, 3}
    Largest = 3
    MaxEntries = 3
    MaxFaults = 2
    MaxRead = 4
    ChunkSize = 3
    MaxFull = 5
    NoteSize = 2
    Characters <- SomeCharacters
    LoggedLines <- SomeLines
    Asked = {0, 1, 2, 3}
    MaxFile = 6
    MaxEntered = 3
    Counts <- SomeCounts
    Views = {"view"}
    TailLines = 2
INVARIANTS
    ChunkingIsInvisible
    CapIsKept
    LossIsMarked
    ReadsBack
    SubscriberKeepsUp
PROPERTIES
    OutputIsPromised
    EveryLineIsTold
CHECK_DEADLOCK FALSE
