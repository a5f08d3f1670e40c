\* Two jobs, two processors, two attempts, one manual retry.
SPECIFICATION FairSpec
CONSTANTS
    p1 = p1
    p2 = p2
    NumJobs = 2
    Processors = {p1, p2}
    BatchSize = 2
    MaxAttempts = 2
    MaxRetries = 1
INVARIANTS
    TypeOK
    OneChild
    RetryBudget
PROPERTIES
    JobsDecided
CHECK_DEADLOCK FALSE
