\* Liveness: two tasks of one login with one run each, leased any number of times.
SPECIFICATION LiveSpec
CONSTANTS
    l1 = l1
    l2 = l2
    l3 = l3
    l4 = l4
    w1 = w1
    w2 = w2
    login = login
    NumTasks = 2
    MaxRuns = 1
    Leases = {l1, l2}
    Workers = {w1}
    NoLease = NoLease
    NoWorker = NoWorker
    NoLogin = NoLogin
    LoginOf <- OneLogin
    Chained <- AllChained
    StartFrom <- ClientStart
    Outcomes <- AllOutcomes
    MaxCandidates = 2
    MaxConfigs = 1
PROPERTIES
    EventuallyDecided
CHECK_DEADLOCK FALSE
