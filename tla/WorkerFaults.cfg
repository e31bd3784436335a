CONSTANTS
    c1 = c1
    c2 = c2
    c3 = c3
    Clients = {c1, c2, c3}
    NumItems = 2
    Faults = {"crash", "kill", "loss", "slow"}
SPECIFICATION FairSpec
INVARIANTS
    TypeOK
    Custody
    ToDoExact
    WrittenOnce
    DoneIsComplete
    StopIsFinal
    ProtocolKept
PROPERTIES
    ImplementsDispatch
    ClientsEnd
    FaultsContained
CHECK_DEADLOCK FALSE
