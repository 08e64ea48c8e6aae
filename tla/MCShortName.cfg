SPECIFICATION Spec
CONSTANTS
    MaxStarts = 1
    MaxRecords = 2
    MaxEdits = 1
    Hooks = 2
    Names = {"my_long_progra", "my_long_program", "my_long_program_name"}
    LongNames = {"my_long_program_name"}
    Shortened = "my_long_program"
    Advised = "my_long_progra"
    Config <- MCAdvised
    DefaultThreshold = 2
    NoConfig = NoConfig
INVARIANT AdvisedNameTracked
CHECK_DEADLOCK FALSE
