SPECIFICATION Spec
CONSTANTS
    Leases = {l1, l2}
    Runs = {r1}
    RunOf <- OneRun
    Engines = {e1, e2}
    NoEngine = NoEngine
    Slots = 2
    l1 = l1
    l2 = l2
    r1 = r1
SYMMETRY Symmetry
INVARIANTS
    TypeOK
    FinishMatchesAttempt
    HandledOnce
PROPERTY
    OutcomesStand
