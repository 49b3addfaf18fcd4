\* Two groups of two items each, whose numbers fit a char.
CONSTANTS
    NumGroups = 2
    GroupSize = 2
    Lanes <- OneLane
    Offsets <- OneTrit
    CharMax = 2
    LoopCount = 2
    MaxIter = 2
    MaxCalls = 2
    None = None
SPECIFICATION FairSpec
CHECK_DEADLOCK FALSE
INVARIANTS
    TypeOK
    ResultWasTested
PROPERTY HitEndsCall
