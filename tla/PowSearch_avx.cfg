\* pow_avx: the loop returns an int, as wide as the hashes of MaxIter iterations.
CONSTANTS
    NumMaxThreads = 3
    Batch = 2
    RetMax = 4
    MaxIter = 2
    MaxCalls = 2
SPECIFICATION Spec
CHECK_DEADLOCK FALSE
INVARIANT WinnerGotResult
