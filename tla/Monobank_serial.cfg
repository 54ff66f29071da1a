SPECIFICATION FairSpec
CONSTANTS
    w1 = w1
    w2 = w2
    i1 = i1
    i2 = i2
    NoInvoice = NoInvoice
    Workers <- OneWorker
    Invoices <- TwoInvoices
    Recreates = FALSE
    MaxTime = 5
PROPERTIES
    NeverBackwards
    EventuallyAgrees
CHECK_DEADLOCK FALSE
