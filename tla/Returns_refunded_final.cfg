SPECIFICATION Spec
CONSTANTS
    w1 = w1
    w2 = w2
    r1 = r1
    r2 = r2
    r3 = r3
    i1 = i1
    i2 = i2
    NoReturn = NoReturn
    Workers <- TwoWorkers
    ReturnIds <- TwoReturns
    Items <- OneItem
    Quantity <- SmallQuantity
    Price <- SmallPrice
    Returnable <- OneItem
    Legacy <- NoLegacy
SYMMETRY Symmetry
PROPERTY RefundedIsFinal
CHECK_DEADLOCK FALSE
