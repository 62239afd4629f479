SPECIFICATION Spec
CONSTANTS
    Requests = {r1, r2, r3}
    Keys = {k1}
    NoKey = NoKey
    Overlaps = {1, 2}
    MaxFaults = 1
    Investments = {i1, i2}
    NoInvestment = NoInvestment
    Held <- OnePosition
    Openings <- SmallOpenings
    Edits <- SmallEdits
    Orders <- SmallOrders
    Keep = Keep
INVARIANTS
    TypeOK
    CostBasis
    UnitsMatchTrades
    StaleOnlyByTheOther
SYMMETRY RequestSymmetry
CHECK_DEADLOCK FALSE
