SPECIFICATION SafeSpec
CONSTANTS
    Aggregates = {a1}
    Publishers = {p1, p2}
    RowLocks = TRUE
    MaxEvents = 3
    MaxFaults <- NoRefusal
INVARIANTS
    OrderedPerAggregate
SYMMETRY ReplicaSymmetry
