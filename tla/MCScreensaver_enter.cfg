SPECIFICATION FairSpec
CONSTANTS
    Clocks <- MCClocks
    IntMax = 3
    Settings <- MCOneFrame
    MaxKeys = 2
PROPERTIES
    EnterLeaves
CHECK_DEADLOCK FALSE
