SPECIFICATION Spec
CONSTANTS
    Requests = {r1, r2, r3, r4}
    Debts = {d1}
    NoDebt = NoDebt
    Keys = {k1}
    NoKey = NoKey
    Amounts = {1, 2}
    Totals = {2}
    Changes = {"active", "paused", "paid_off"}
    OpenAs = {"active", "settled"}
    Serial = TRUE
    MaxFaults <- EveryFault
INVARIANTS
    LedgerBalanced
    AtMostOncePerKey
    CacheCoherent
    DeletedIsLast
PROPERTIES
    PaidOffIsTerminal
SYMMETRY RequestSymmetry
CHECK_DEADLOCK FALSE
