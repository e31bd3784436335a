CONSTANTS
    c1 = c1
    c2 = c2
    c3 = c3
    Clients = {c1, c2, c3}
    NumItems = 4
    Faults = {}
SPECIFICATION FairSpec
INVARIANTS
    AbortOnlyAfterEnd
PROPERTIES
    ImplementsFairDispatch
