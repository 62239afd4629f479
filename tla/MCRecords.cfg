SPECIFICATION Spec
CONSTANTS
    Requests = {r1, r2, r3}
    Keys = {k1}
    NoKey = NoKey
    Overlaps = {1, 2}
    MaxFaults = 1
    Ids = {i1, i2}
    NoId = NoId
    Held <- OneOfEach
    Openings <- SmallOpenings
    Edits <- SmallEdits
    Keep = Keep
INVARIANTS
    TypeOK
    LastEventTellsStatus
    CacheFollowsRow
    AtMostOncePerKey
SYMMETRY RequestSymmetry
CHECK_DEADLOCK FALSE
