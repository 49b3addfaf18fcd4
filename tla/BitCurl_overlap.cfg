\* The words of pow_avx in small: four elements, whose first one has the highest
\* codes, and incr_n starting at a trit of the code. The first thread does not shift,
\* and the second one shifts without a carry.
CONSTANTS
    Block = 2
    HashLen = 15
    Rounds = 5
    NonceLen = 9
    CodeLen = 2
    OuterStart = 1
    OuterLen = 5
    Width = 2
    Elements = 4
    UnseenSet <- IntegerBuild
    NumWorkers = 2
    TxLen = 10
    TxSet <- SomeTxs
    MwmSet = {4}
    NoOutput = NoOutput
    Undefined = Undefined
SPECIFICATION Spec
CHECK_DEADLOCK FALSE
INVARIANTS
    DifferentNonces
