CONSTANTS
    Headers <- MCHeaders
    LineCells = {0, 1, 2}
    Ids = {1, 2}
    MaxRows = 2
    MaxFiles = 2
    MaxRanges = 2
    MaxLines = 6
    MaxScript = 2
SPECIFICATION Spec
INVARIANTS
    TypeOK
    RowsInStep
    ShortestDecides
    RowsAreServed
    ItemsAreBlocks
    SameNumbers
    ResumeServesSelected
CHECK_DEADLOCK FALSE
