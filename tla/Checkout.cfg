SPECIFICATION FairSpec
CONSTANTS
    w1 = w1
    w2 = w2
    u1 = u1
    stranger = stranger
    p1 = p1
    p2 = p2
    k1 = k1
    k2 = k2
    o1 = o1
    o2 = o2
    NoUser = NoUser
    NoPromo = NoPromo
    Workers <- TwoWorkers
    Users <- OneUser
    Products <- TwoProducts
    Promos <- TwoPromos
    Orders <- TwoOrders
    MaxQuantity = 1
    Offers <- Markets
    Owner <- MCOwner
    UsageLimit <- UsedOnce
    Percent <- Half
INVARIANTS
    TypeOK
    LockedRowsStand
    PromoAccounting
    DiscountWithinMarkup
PROPERTIES
    PlacesOrdersAtOnce
    EveryCheckoutEnds
CHECK_DEADLOCK FALSE
