SPECIFICATION FairSpec
CONSTANTS
    Clocks <- MCClocks
    IntMax = 3
    Settings <- MCSettings
    MaxKeys = 3
INVARIANTS
    TypeOK
    SleepsOnTime
    TerminalRestored
    OnlyExitKeysLeave
PROPERTIES
    ExitKeyLeaves
\* The loop may be left: nothing happens after that.
CHECK_DEADLOCK FALSE
