SPECIFICATION Spec
CONSTANTS
    w1 = w1
    w2 = w2
    i1 = i1
    i2 = i2
    NoInvoice = NoInvoice
    Workers <- OneWorker
    Invoices <- TwoInvoices
    Recreates = TRUE
    MaxTime = 5
SYMMETRY Symmetry
INVARIANTS
    NeverStuck
CHECK_DEADLOCK FALSE
