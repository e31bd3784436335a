CONSTANTS
    Tools = {"wsub", "wresume", "launch"}
    Schedulers = {"slurm", "pbs"}
SPECIFICATION FairSpec
INVARIANTS
    TypeOK
    ReportedComplete
    ArtifactsInOnePlace
    HandledLeavesNothing
    ServerBeforeClients
PROPERTIES
    EndsOrStarves
CHECK_DEADLOCK FALSE
