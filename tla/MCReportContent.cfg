SPECIFICATION Spec
CONSTANTS
    Sizes = {1, 2, 3}
    Event <- MCEvent
    Names = {"db", "/etc/ld.so"}
    NoName = "none"
    BenignNames = {"/etc/ld.so"}
    MaxErrors = 2
    MaxSlow = 1
    QuietContext = 2
    PriorityContext = 1
    SlowThreshold = 2
    EINPROGRESS = 115
    ENOENT = 2
    ECONNREFUSED = 111
    ETIMEDOUT = 110
    MaxPushes = 5
INVARIANTS
    TypeOK
    RecentIsNewest
    PriorityKept
    DrainIsSortedMerge
    FailuresShown
    LastFailureStands
    OffsetsInOrder
PROPERTY
    WindowSpec
CHECK_DEADLOCK FALSE
