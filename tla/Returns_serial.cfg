SPECIFICATION Spec
CONSTANTS
    w1 = w1
    w2 = w2
    r1 = r1
    r2 = r2
    r3 = r3
    i1 = i1
    i2 = i2
    NoReturn = NoReturn
    Workers <- OneWorker
    ReturnIds <- ThreeReturns
    Items <- BothItems
    Quantity <- MCQuantity
    Price <- MCPrice
    Returnable <- BothItems
    Legacy <- FirstIsLegacy
INVARIANTS
    ReservedWithinOrdered
    MoneyMatchesLines
PROPERTIES
    EventsExplainStatus
    RefundedIsFinal
CHECK_DEADLOCK FALSE
