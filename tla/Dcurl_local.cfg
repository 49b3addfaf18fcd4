\* A machine with a CPU and an FPGA: the slots of the local pool.
CONSTANTS
    t1 = t1
    t2 = t2
    t3 = t3
    t4 = t4
    Threads <- FourThreads
    Build = {"cpu", "fpga"}
    Capacity <- Hardware
    IntBits = 3
    MaxCalls = 1
    None = None
    Stale = Stale
SYMMETRY ThreadSymmetry
SPECIFICATION Spec
CHECK_DEADLOCK FALSE
INVARIANTS
    TypeOK
    SlotAlwaysFound
    ContextExclusive
    QuiescentIsClean
    NoLostWakeup
