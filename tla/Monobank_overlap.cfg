SPECIFICATION Spec
CONSTANTS
    w1 = w1
    w2 = w2
    i1 = i1
    i2 = i2
    NoInvoice = NoInvoice
    Workers <- TwoWorkers
    Invoices <- TwoInvoices
    Recreates = FALSE
    MaxTime = 4
SYMMETRY Symmetry
INVARIANTS
    TypeOK
    NeverStuck
    PaidIsCollected
CHECK_DEADLOCK FALSE
