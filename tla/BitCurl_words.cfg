\* The words of pow_sse and pow_avx in small: two elements of two lanes each, told
\* apart by two trits, two threads, with incr_n starting at the last of those trits.
CONSTANTS
    Block = 2
    HashLen = 15
    Rounds = 5
    NonceLen = 9
    CodeLen = 2
    OuterStart = 1
    OuterLen = 5
    Width = 2
    Elements = 2
    UnseenSet <- BothBuilds
    NumWorkers = 2
    TxLen = 10
    TxSet <- SomeTxs
    MwmSet = {1, 2, 4}
    NoOutput = NoOutput
    Undefined = Undefined
SPECIFICATION Spec
CHECK_DEADLOCK FALSE
INVARIANTS
    TypeOK
    ResultHasWeight
    LanesDiffer
PROPERTIES
    CurlSpec
    NoHitMissed
    CounterAdvances
