SPECIFICATION Spec
CONSTANTS
    Tasks = {"p"}
    Leader <- MCLeader
    Comms = {"app"}
    TrackedCommands = {"app"}
    IgnoredCommands = {}
    MemoryFaults = {"SEGV"}
    OtherCrashes = {"ABRT"}
    Buckets = {1}
    RingCapacity = 3
    PendingCapacity = 1
    MaxRuns = 2
    MaxSignals = 1
    MaxSyscalls = 2
INVARIANT OwnEventsOnly
CHECK_DEADLOCK FALSE
