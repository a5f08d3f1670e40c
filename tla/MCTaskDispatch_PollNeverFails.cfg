SPECIFICATION Spec
CONSTANTS
    l1 = l1
    l2 = l2
    l3 = l3
    l4 = l4
    w1 = w1
    w2 = w2
    login = login
    NumTasks = 1
    MaxRuns = 2
    Leases = {l1, l2}
    Workers = {w1, w2}
    NoLease = NoLease
    NoWorker = NoWorker
    NoLogin = NoLogin
    LoginOf <- NoLogins
    Chained <- AllChained
    StartFrom <- AnyStart
    Outcomes <- AllOutcomes
    MaxCandidates = 2
    MaxConfigs = 1
SYMMETRY IdSymmetry
INVARIANTS
    PollNeverFails
CHECK_DEADLOCK FALSE
