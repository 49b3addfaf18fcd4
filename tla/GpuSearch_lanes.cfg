\* One group of one item: nothing runs concurrently, but two lanes may hit at once.
CONSTANTS
    NumGroups = 1
    GroupSize = 1
    Lanes <- ThreeLanes
    Offsets <- OneTrit
    CharMax = 2
    LoopCount = 2
    MaxIter = 2
    MaxCalls = 2
    None = None
SPECIFICATION Spec
CHECK_DEADLOCK FALSE
INVARIANT ResultHasWeight
