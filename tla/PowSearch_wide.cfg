\* pow_c and pow_sse, with a 64-bit return value: two calls of a context with up
\* to three work items.
CONSTANTS
    NumMaxThreads = 3
    Batch = 2
    RetMax = 16
    MaxIter = 2
    MaxCalls = 2
SPECIFICATION FairSpec
CHECK_DEADLOCK FALSE
INVARIANTS
    TypeOK
    ResultIsFresh
    WinnerGotResult
    NothingRunsAfterReturn
PROPERTY FoundEndsCall
