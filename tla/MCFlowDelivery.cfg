SPECIFICATION Spec
CONSTANTS
    u1 = u1
    u2 = u2
    l1 = l1
    l2 = l2
    None = None
    Numbers = {1, 2}
    Offered <- OfferedVersions
    Uploads = {u1, u2}
    Publishers = {"p1"}
    Loads = {l1, l2}
SYMMETRY Symmetry
CONSTRAINT NotExcused
INVARIANTS
    TypeOK
    VersionHasPackage
    PublishedWasChecked
    TriggerNeverRaises
    ValidIsWhole
    RunsCanLoad
PROPERTIES
    SameResolution
CHECK_DEADLOCK FALSE
