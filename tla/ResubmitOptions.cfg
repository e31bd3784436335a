CONSTANTS
    Schedulers = {"slurm", "pbs torque"}
    a = a
    b = b
    Values = {a, b}
    MaxGiven = 1
    MaxLines = 1
    MaxJobs = 2
SPECIFICATION Spec
INVARIANT
    SubmitOptionsKept
CHECK_DEADLOCK FALSE
