SPECIFICATION Spec
CONSTANTS
    NoMaps = NoMaps
    NoTable = NoTable
    NoFile = NoFile
    NoSymbol = NoSymbol
    LowMemory = 3
    Reach = 2
    Signals = {11}
    MemoryFaults = {11}
    Files = {"app", "lib.so"}
    Named = {"app", "lib.so", "app (deleted)", "lib.so (deleted)"}
    Deleted <- MCDeleted
    SharedObjects = {"lib.so"}
    Binaries <- MCBinaries
    Spaces <- MCFrameSpaces
    Stacks <- MCFrames
    Faults = {7}
    MaxHolders = 2
    MaxReplaced = 1
INVARIANT ResolvedRight
CHECK_DEADLOCK FALSE
