CONSTANTS
    Schedulers = {"slurm", "pbs torque"}
    a = a
    b = b
    Values = {a, b}
    MaxGiven = 1
    MaxLines = 2
    MaxJobs = 3
SPECIFICATION Spec
SYMMETRY Symmetry
INVARIANTS
    TypeOK
    LastGivenWins
    DirectivesKept
    FirstPartKept
    RefusedFor
CHECK_DEADLOCK FALSE
