\* A build for a CPU and an FPGA, behind each of the bindings, with a device that
\* drops a proof of work for the next one.
CONSTANTS
    t1 = t1
    t2 = t2
    App = App
    None = None
    Nobody = Nobody
    ImplList = ImplList
    Fpga = "fpga"
    LIST_POISONING = FALSE
    LIST_POISON = LIST_POISON
    ControlRestarts = TRUE
    WholeTransfers = TRUE
    Threads <- TwoThreads
    Actors <- AllActors
    Order <- CpuThenFpga
    Bindings = {"direct", "ccurl", "go"}
    MaxCalls = 1
    MaxInits = 2
    MaxDestroys = 2
SPECIFICATION FairSpec
CHECK_DEADLOCK FALSE
INVARIANTS
    TypeOK
    SafeUnlessMisused
    RegistryExact
    NothingLeaked
    CompatInitOnce
    NonceIsOwn
PROPERTIES
    CallsReturn
