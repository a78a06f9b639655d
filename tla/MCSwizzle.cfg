CONSTANTS
    MaxArenas = 2
    PageSize = 4
    AllocSize = 8
    Spans <- MCSpans
    MaxLogEntries = 2
    MapAddrs = {10, 16, 30}
    Files <- MCFiles
    TargetOff = {7}
    VolatileAddrs = {32}
    AppCallBackSet = TRUE
SPECIFICATION FairSpec
INVARIANTS TypeOK LogRoom PointersPreserved VolatileDropped RootPreserved Recoverable CallBackBeforeSwizzle
PROPERTIES ProgressKept InitCompletes
