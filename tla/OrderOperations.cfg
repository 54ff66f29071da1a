SPECIFICATION Spec
CONSTANTS
    Workers = {w1, w2}
    Items = {i1}
    SupplierOrders = {g1}
SYMMETRY Symmetry
CHECK_DEADLOCK FALSE
INVARIANTS
    TypeOK
    CompletedIsReceived
    ReasonTellsCancelled
    EventTellsStatus
    SupplierOrdersNoted
PROPERTY NothingDeliveredIsLost
