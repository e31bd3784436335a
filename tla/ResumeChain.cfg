CONSTANTS
    NumItems = 3
    MaxJobs = 3
SPECIFICATION FairSpec
INVARIANTS
    TypeOK
    LogFollowsOutput
    NoRework
    SummaryIsTrue
    LossExplained
PROPERTY
    JobsEnd
CHECK_DEADLOCK FALSE
