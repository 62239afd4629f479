SPECIFICATION Spec
CONSTANTS
    Replicas = {c1, c2}
    NoReplica = NoReplica
    MaxMessages = 2
    MaxCrashes = 1
    MaxMoves = 1
    MaxLapses = 2
    MaxErrors = 1
INVARIANTS
    LossAccounted
    RedeliveryBounded
PROPERTIES
    EveryMessageSettles
CHECK_DEADLOCK FALSE
