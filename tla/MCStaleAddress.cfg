SPECIFICATION Spec
CONSTANTS
    Tasks = {"p"}
    Leader <- MCLeader
    Comms = {"app"}
    TrackedCommands = {"app"}
    IgnoredCommands = {}
    MemoryFaults = {"SEGV"}
    OtherCrashes = {"ABRT"}
    Buckets = {1}
    RingCapacity = 3
    PendingCapacity = 1
    MaxRuns = 2
    MaxSignals = 2
    MaxSyscalls = 1
INVARIANT ExactAddress
CHECK_DEADLOCK FALSE
