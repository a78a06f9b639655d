CONSTANTS
    MaxArenas = 1
    PageSize = 4
    AllocSize = 8
    Spans <- TailSpans
    MaxLogEntries = 2
    MapAddrs = {10, 18, 30}
    Files <- TailFiles
    TargetOff = {3, 7}
    VolatileAddrs = {50}
    AppCallBackSet = FALSE
SPECIFICATION Spec
INVARIANT PointersPreserved
