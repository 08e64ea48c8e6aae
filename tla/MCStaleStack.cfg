SPECIFICATION Spec
CONSTANTS
    Tasks = {"p"}
    Leader <- MCLeader
    Comms = {"app"}
    TrackedCommands = {"app"}
    IgnoredCommands = {}
    MemoryFaults = {"SEGV"}
    OtherCrashes = {"ABRT"}
    Buckets = {1}
    RingCapacity = 2
    PendingCapacity = 1
    MaxRuns = 1
    MaxSignals = 2
    MaxSyscalls = 1
INVARIANT StackAtCrash
CHECK_DEADLOCK FALSE
