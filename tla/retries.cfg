SPECIFICATION FairSpec
CONSTANTS
    None = None
    Keys = {k}
    Calls = {c1, c2}
    Bodies = {b1, b2}
    MaxRows = 2
INVARIANTS
    TypeOK
    DoneOnce
    
    SamePayment
PROPERTIES
    ProgressEnds
