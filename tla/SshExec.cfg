SPECIFICATION ExecSpec
CONSTANTS
    MaxOutput = 2
    Window = 2
    MaxPrint = 4
    CmdTimeout = 3
INVARIANTS
    NothingLost
PROPERTIES
    CallEndsWithinLimit
CHECK_DEADLOCK FALSE
