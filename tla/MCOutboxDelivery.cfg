SPECIFICATION Spec
CONSTANTS
    Aggregates = {a1}
    Publishers = {p1, p2}
    RowLocks = FALSE
    MaxEvents = 2
    MaxFaults <- DeliveryFaults
INVARIANTS
    TypeOK
    LossBounded
    TopicIsCommitted
    DuplicatesBounded
PROPERTIES
    ImplementsDelivery
