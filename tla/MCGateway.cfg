SPECIFICATION Spec
CONSTANTS
    Requests = {r1, r2}
    TripAfter = 1
    MaxRequests = 2
    TTL = 2
    MaxWrites = 2
    MaxErrors = 3
PROPERTIES
    BreakersRecover
    EventuallyFresh
