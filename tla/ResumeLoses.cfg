CONSTANTS
    NumItems = 3
    MaxJobs = 2
SPECIFICATION Spec
INVARIANT
    NotDoneResumed
CHECK_DEADLOCK FALSE
