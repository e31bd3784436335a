CONSTANTS
    c1 = c1
    c2 = c2
    Clients = {c1, c2}
    NumItems = 2
    Faults = {"crash"}
SPECIFICATION FairSpec
PROPERTY
    CrashHasNoImpact
CHECK_DEADLOCK FALSE
