SPECIFICATION Spec
CONSTANTS
    Requests = {r1, r2, r3, r4, r5}
    Keys = {k1}
    NoKey = NoKey
    Overlaps = {1, 2}
    MaxFaults = 2
    Emails = {e1}
    Names = {n1}
    NoName = NoName
    ResetLimit = 2
INVARIANTS
    
    ResetMailsBounded

    
SYMMETRY RequestSymmetry
CHECK_DEADLOCK FALSE
