CONSTANTS
    Threads = {"p", "t"}
    Process <- MCProcess
    Comms = {"app", "other"}
    TrackedCommands = {"app"}
    IgnoredCommands = {}
    Files = {"config", "null", "devel"}
    NoisyFiles = {"null", "devel"}
    Capacity = 2
    MaxCalls = 3
SPECIFICATION Spec
CHECK_DEADLOCK FALSE
INVARIANT MatchingEnter
