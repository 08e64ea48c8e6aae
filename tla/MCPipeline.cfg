SPECIFICATION CaseSpec
CONSTANTS
    Tasks = {"p", "t", "q"}
    Leader <- MCLeader
    Comms = {"app", "sh"}
    TrackedCommands = {"app"}
    IgnoredCommands = {}
    MemoryFaults = {"SEGV"}
    OtherCrashes = {"ABRT"}
    Buckets = {1}
    RingCapacity = 3
    PendingCapacity = 1
    MaxRuns = 2
    MaxSignals = 2
    MaxSyscalls = 2
INVARIANTS
    TypeOK
    ReportedOnce
    NothingAfterCrash
    CoherentReport
PROPERTY
    PromiseSpec
    EventuallyReported
CHECK_DEADLOCK FALSE
