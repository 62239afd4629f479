SPECIFICATION Spec
CONSTANTS
    Requests = {r1, r2, r3}
    NoRequest = NoRequest
    MaxConns = 3
PROPERTIES
    EveryCallEnds
    DeadlinesRescue
CHECK_DEADLOCK FALSE
