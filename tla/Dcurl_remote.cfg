\* The remote interface with fallback to a GPU that may be missing: two calls
\* per thread, so late replies meet later requests. The threads are fair.
CONSTANTS
    t1 = t1
    t2 = t2
    t3 = t3
    t4 = t4
    Threads <- TwoThreads
    Build = {"gpu", "remote"}
    Capacity <- ScarceHardware
    IntBits = 1
    MaxCalls = 2
    None = None
    Stale = Stale
SPECIFICATION FairSpec
CHECK_DEADLOCK FALSE
INVARIANTS
    ResultIsOwn
    QuiescentIsClean
    NoLostWakeup
PROPERTIES
    ServiceSpec
    EveryCallReturns
