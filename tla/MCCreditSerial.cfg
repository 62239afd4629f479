SPECIFICATION Spec
CONSTANTS
    Requests = {r1, r2, r3, r4}
    c1 = c1
    i1 = i1
    i2 = i2
    Cards = {c1}
    NoCard = NoCard
    Invoices = {i1, i2, i3}
    NoInvoice = NoInvoice
    Keys = {k1}
    NoKey = NoKey
    Amounts = {1, 2}
    Limits = {1}
    LastMonth = 3
    Keep = Keep
    OpenCards <- OneCard
    OpenInvoices <- TwoInvoices
    Serial = TRUE
    MaxFaults <- OneRedis
SYMMETRY RequestSymmetry
INVARIANTS CreditAccounted InvoiceExact InvoiceCacheCoherent
CHECK_DEADLOCK FALSE
