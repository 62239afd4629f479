SPECIFICATION Spec
CONSTANTS
    Requests = {r1, r2, r3}
    c1 = c1
    i1 = i1
    i2 = i2
    Cards = {c1, c2}
    NoCard = NoCard
    Invoices = {i1, i2}
    NoInvoice = NoInvoice
    Keys = {}
    NoKey = NoKey
    Amounts = {1, 2}
    Limits = {1, 3}
    LastMonth = 2
    Keep = Keep
    OpenCards <- OneCard
    OpenInvoices <- OneInvoice
    Serial = FALSE
    MaxFaults <- DbAndAbandon
SYMMETRY RequestSymmetry
INVARIANTS TypeOK CreditWithinLimit PaidMeansCovered InvoiceBacked
CHECK_DEADLOCK FALSE
