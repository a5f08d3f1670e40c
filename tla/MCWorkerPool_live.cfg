SPECIFICATION HealthySpec
CONSTANTS
    Leases = {l1, l2}
    Runs = {r1}
    RunOf <- OneRun
    Engines = {e1}
    NoEngine = NoEngine
    Slots = 1
    l1 = l1
    l2 = l2
    r1 = r1
PROPERTY
    AttemptsEnd
