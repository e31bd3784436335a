CONSTANTS
    Tools = {"wresume"}
    Schedulers = {"slurm"}
SPECIFICATION Spec
INVARIANTS
    ResumedHasDirectory
CHECK_DEADLOCK FALSE
