\* No symmetry: a liveness property is checked, and d1 is the one that runs.
SPECIFICATION BoundedSpec
CONSTANTS
    a1 = a1
    a2 = a2
    d1 = d1
    d2 = d2
    NoDispatcher = NoDispatcher
    NoDelivery = NoDelivery
    Attempts = {a1, a2}
    MaxMessages = 2
    Dispatchers = {d1, d2}
    MaxAttempts = 2
    BatchSize = 2
INVARIANTS
    TypeOK
    FirstArrivalInOrder
    SentIsApplied
PROPERTIES
    DeliversInOrder
    EventuallySettled
CHECK_DEADLOCK FALSE
