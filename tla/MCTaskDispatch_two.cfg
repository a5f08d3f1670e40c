\* Two BOE tasks of one portal login, clients that start only idle tasks.
SPECIFICATION Spec
CONSTANTS
    l1 = l1
    l2 = l2
    l3 = l3
    l4 = l4
    w1 = w1
    w2 = w2
    login = login
    NumTasks = 2
    MaxRuns = 2
    Leases = {l1, l2, l3}
    Workers = {w1}
    NoLease = NoLease
    NoWorker = NoWorker
    NoLogin = NoLogin
    LoginOf <- OneLogin
    Chained <- AllChained
    StartFrom <- ClientStart
    Outcomes <- AllOutcomes
    MaxCandidates = 2
    MaxConfigs = 1
SYMMETRY IdSymmetry
INVARIANTS
    TypeOK
    
    OneActiveRun
CHECK_DEADLOCK FALSE
