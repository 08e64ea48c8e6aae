CONSTANTS
    Threads = {"p", "t", "q"}
    Process <- MCProcess
    TracedProcesses = {"p"}
    Capacity = 1
    MaxCalls = 5
SPECIFICATION Spec
CHECK_DEADLOCK FALSE
INVARIANTS
    TypeOK
    PairedAlone
    NothingLeft
