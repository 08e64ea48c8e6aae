CONSTANTS
    Threads = {"p", "t"}
    Process <- MCProcess
    Comms = {"app", "other"}
    TrackedCommands = {"app"}
    IgnoredCommands = {}
    Files = {"config", "null", "devel"}
    NoisyFiles = {"null", "devel"}
    Capacity = 1
    MaxCalls = 4
SPECIFICATION Spec
CHECK_DEADLOCK FALSE
INVARIANTS
    TypeOK
    OneOpenat
    ReportedOnce
