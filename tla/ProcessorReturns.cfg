CONSTANTS
    MaxCommands = 3
    Capacity = 2
    Chunk = 2
SPECIFICATION FairSpec
PROPERTY
    ProcessWorkReturns
CHECK_DEADLOCK FALSE
