CONSTANTS
    MaxCommands = 4
    Capacity = 2
    Chunk = 2
SPECIFICATION FairSpec
INVARIANTS
    TypeOK
    ResultComplete
    KilledByEarlyExit
PROPERTIES
    ReturnsWhenFits
CHECK_DEADLOCK FALSE
