SPECIFICATION BoundedSpec
CONSTANTS
    c1 = c1
    c2 = c2
    line1 = line1
    line2 = line2
    Callers = {c1, c2}
    NoType = NoType
    Overlap = Overlap
    Rerun = Rerun
    Tasks = {1, 2, 3, 4}
    Lines = {line1, line2}
SYMMETRY Symmetry
INVARIANTS
    TypeOK
    StepsInOrder
    OneTaskAtATime
    CreatingHasWork
    DatesCounted
    
    
CHECK_DEADLOCK FALSE
