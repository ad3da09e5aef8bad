CONSTANTS
    NThread = 2
    Kind <- KindDef
    StatsEvery = 2
    LogsResolved = TRUE
    LogsFailed = TRUE
    MaxAddr = 2
SPECIFICATION MdigSpec
INVARIANTS
    EachLineOnce
    TotalsAreTrue
PROPERTY Ends
