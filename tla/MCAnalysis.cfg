SPECIFICATION CaseSpec
CONSTANTS
    NoMaps = NoMaps
    NoTable = NoTable
    NoFile = NoFile
    NoSymbol = NoSymbol
    LowMemory = 3
    Reach = 2
    Signals = {11, 6}
    MemoryFaults = {11}
    Files = {"app", "lib.so", "libc.so.6"}
    Named = {"app", "lib.so", "libc.so.6",
             "app (deleted)", "lib.so (deleted)", "libc.so.6 (deleted)"}
    Deleted <- MCDeleted
    SharedObjects = {"lib.so", "libc.so.6", "libc.so.6 (deleted)"}
    Binaries <- MCAllBinaries
    Spaces <- MCSpaces
    Stacks <- MCStacks
    Faults = {2, 5, 7, 9}
    MaxHolders = 2
    MaxReplaced = 1
INVARIANTS
    TypeOK
    NullRecognised
    PlaceIsRight
    CacheIsOfFile
    ResolvedAtZeroBias
CHECK_DEADLOCK FALSE
