SPECIFICATION Spec
CONSTANTS
    Requests = {r1, r2, r3, r4}
    Debts = {d1}
    NoDebt = NoDebt
    Keys = {k1}
    NoKey = NoKey
    Amounts = {0, 1, 2}
    Totals = {2}
    Changes = {"paused", "paid_off", "defaulted"}
    OpenAs = {"active"}
    Serial = FALSE
    MaxFaults <- OneAbandon
INVARIANTS
    TypeOK
    ZeroMeansPaidOff
    NeverOverCredited
    LastEventTellsStatus
SYMMETRY RequestSymmetry
CHECK_DEADLOCK FALSE
