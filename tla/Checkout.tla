------------------------------ MODULE Checkout ------------------------------
(***************************************************************************)
(* Carts, checkout and promo codes: apps/commerce/services/cart_service.py,*)
(* checkout_service.py and loyalty_service.py.                             *)
(*                                                                         *)
(* submit_checkout is one database transaction of several statements.  It  *)
(* locks the rows of the cart, prices them, redeems the promo code under   *)
(* the lock of its row, prepares the payment (which may call a provider    *)
(* over the network) and empties the cart.  What it writes is seen by      *)
(* nobody before the commit, and is undone by any error or crash before    *)
(* it: the state of the transaction is kept in tx, and the locks it holds  *)
(* follow from the step it has reached.  The requests on single cart rows  *)
(* take one statement each and are one step; they wait for the lock of a   *)
(* row they touch, not for the lock of another row of the same cart.       *)
(***************************************************************************)
EXTENDS Naturals, FiniteSets, Functions

CONSTANTS
    Workers,      \* the server processes or threads that serve checkouts
    Users, Products,
    Promos,       \* promo codes for the markup (discount type product_markup)
    Orders,       \* primary keys of orders (bounds the checkouts that commit)
    MaxQuantity,  \* bound of a cart row
    Offers,       \* the states of the market a product may be in
    Owner,        \* LoyaltyPromoCode.customer
    UsageLimit,   \* LoyaltyPromoCode.usage_limit
    Percent,      \* LoyaltyPromoCode.discount_percent
    NoUser, NoPromo

ASSUME CheckoutAssumption ==
    /\ IsFiniteSet(Orders) /\ IsFiniteSet(Workers) /\ IsFiniteSet(Products)
    /\ MaxQuantity \in Nat \ {0}
    /\ Offers \subseteq [price : Nat, cost : Nat, stock : Nat]
    /\ DOMAIN Owner = Promos
    /\ UsageLimit \in [Promos -> Nat \ {0}]
    /\ Percent \in [Promos -> 0..100]
    /\ NoUser \notin Users
    /\ NoPromo \notin Promos

VARIABLES
    cart,         \* CartItem.quantity of each cart and product, 0: no row
    order,        \* Order rows with their items and redemption
    used,         \* LoyaltyPromoCode.usage_count
    usable,       \* the promo code is neither expired nor disabled
    offer,        \* price, landed cost and stock of each product now
    tx            \* the checkout each worker is serving

vars == <<cart, order, used, usable, offer, tx>>

Quantities == [Products -> Nat]

EmptyCart == [p \in Products |-> 0]

OrderRow ==
    [status : {"absent", "placed", "deleted"},
     user : Users \cup {NoUser},
     qty : Quantities,                \* OrderItem.quantity, 0: no such line
     subtotal : Nat,
     markup : Nat,                    \* available_markup_total
     discount : Nat,                  \* discount_total
     total : Nat,
     promo : Promos \cup {NoPromo}]   \* its LoyaltyPromoRedemption

NoOrder == [status |-> "absent", user |-> NoUser, qty |-> EmptyCart, subtotal |-> 0,
            markup |-> 0, discount |-> 0, total |-> 0, promo |-> NoPromo]

Transaction ==
    [step : {"idle", "waiting", "locked", "priced", "redeemed"},
     user : Users \cup {NoUser},
     promo : Promos \cup {NoPromo},   \* the promo code of the payload
     items : Quantities,              \* the rows it locked, as it read them
     count : Nat,                     \* the usage_count it writes
     draft : OrderRow]                \* the order it inserts

Idle == [step |-> "idle", user |-> NoUser, promo |-> NoPromo, items |-> EmptyCart,
         count |-> 0, draft |-> NoOrder]

\* Mutant: the transaction ends before the payment is prepared.
HoldsRowsUntilPriced(w) == tx[w].step \in {"locked", "priced"}

HoldsRows(w) == tx[w].step \in {"locked", "priced", "redeemed"}

\* Mutant: the rows are read without select_for_update.
RowLockedNever(u, p) == FALSE

RowLocked(u, p) == \E w \in Workers : HoldsRows(w) /\ tx[w].user = u /\ tx[w].items[p] > 0

PromoLocked(k) == \E w \in Workers : tx[w].step = "redeemed" /\ tx[w].promo = k

----------------------------------------------------------------------------
(* The cart.                                                               *)

\* add_product_to_cart, set_cart_item_quantity and remove_cart_item on one row.
SetRow(u, p, n) ==
    /\ ~ RowLocked(u, p)
    /\ cart' = [cart EXCEPT ![u][p] = n]
    /\ UNCHANGED <<order, used, usable, offer, tx>>

AddToCart(u, p, n) ==
    /\ n > 0
    /\ cart[u][p] + n <= MaxQuantity   \* bound
    /\ SetRow(u, p, cart[u][p] + n)

SetQuantity(u, p, n) ==
    /\ cart[u][p] > 0
    /\ SetRow(u, p, n)

----------------------------------------------------------------------------
(* Checkout.                                                               *)

Submit(w, u, k) ==
    /\ tx[w] = Idle
    /\ Cardinality({v \in Workers : tx[v].step # "idle"})
           < Cardinality({o \in Orders : order[o].status = "absent"})   \* bound
    /\ tx' = [tx EXCEPT ![w] = [Idle EXCEPT !.step = "waiting", !.user = u, !.promo = k]]
    /\ UNCHANGED <<cart, order, used, usable, offer>>

\* An exception leaves nothing of the transaction behind.
Rollback(w) ==
    /\ tx' = [tx EXCEPT ![w] = Idle]
    /\ UNCHANGED <<cart, order, used, usable, offer>>

\* The rows are locked in the order they were created, and a checkout that waits
\* for a row waits for the oldest one of a checkout before it: taking all locks at
\* once loses nothing.
LockCart(w) ==
    LET u == tx[w].user IN
    /\ tx[w].step = "waiting"
    /\ \A p \in Products : ~ RowLocked(u, p)
    /\ IF cart[u] = EmptyCart
       THEN Rollback(w)
       ELSE /\ tx' = [tx EXCEPT ![w].step = "locked", ![w].items = cart[u]]
            /\ UNCHANGED <<cart, order, used, usable, offer>>

\* _ensure_promo_is_applicable
Applicable(k, u) == Owner[k] = u /\ usable[k] /\ used[k] < UsageLimit[k]

\* get_line_total and _calculate_product_markup_total, with the landed cost as the
\* floor; a cost that is not known leaves no markup.
Subtotal(items) == SumFunction([p \in Products |-> offer[p].price * items[p]])

\* Mutant: a product sold under its cost has a negative markup.
MarkupUnitSigned(p) == offer[p].price - offer[p].cost

MarkupUnit(p) ==
    IF offer[p].cost = 0 \/ offer[p].cost >= offer[p].price
    THEN 0
    ELSE offer[p].price - offer[p].cost

Markup(items) == SumFunction([p \in Products |-> MarkupUnit(p) * items[p]])

\* Mutant: the percentage is taken of the price.
DiscountOnPrice(k, items) == (Subtotal(items) * Percent[k] + 50) \div 100

\* compute_loyalty_discount_for_checkout, rounded half up
Discount(k, items) ==
    LET requested == (Markup(items) * Percent[k] + 50) \div 100 IN
    IF requested <= Markup(items) THEN requested ELSE Markup(items)

DraftOf(u, k, items, discount) ==
    LET subtotal == Subtotal(items) IN
    [status |-> "placed", user |-> u, qty |-> items, subtotal |-> subtotal,
     markup |-> Markup(items), discount |-> discount,
     total |-> IF discount <= subtotal THEN subtotal - discount ELSE 0, promo |-> k]

\* Every item sellable, in stock and priced; the promo code read without its lock.
\* A code for the delivery fee is refused here, the fee being always zero: such codes
\* are never redeemed and are not modelled.
Acceptable(u, k, items) ==
    /\ \A p \in Products : items[p] > 0 => offer[p].price > 0 /\ items[p] <= offer[p].stock
    /\ k # NoPromo => Applicable(k, u) /\ Markup(items) > 0

Price(w) ==
    LET u == tx[w].user
        k == tx[w].promo
        items == tx[w].items IN
    /\ tx[w].step = "locked"
    /\ Acceptable(u, k, items)
    /\ tx' = [tx EXCEPT
                ![w].step = "priced",
                ![w].draft = DraftOf(u, k, items, IF k = NoPromo THEN 0 ELSE Discount(k, items))]
    /\ UNCHANGED <<cart, order, used, usable, offer>>

\* Mutant: usage_count is missing from the saved fields.
CountUnsaved(k) == IF k = NoPromo THEN 0 ELSE used[k]

\* usage_count as the redemption saves it
Count(k) == IF k = NoPromo THEN 0 ELSE used[k] + 1

\* register_promo_redemption: the code is checked again under the lock of its row.
Redeem(w) ==
    LET k == tx[w].promo IN
    /\ tx[w].step = "priced"
    /\ k # NoPromo => ~ PromoLocked(k) /\ Applicable(k, tx[w].user)
    /\ tx' = [tx EXCEPT ![w].step = "redeemed", ![w].count = Count(k)]
    /\ UNCHANGED <<cart, order, used, usable, offer>>

\* The payment row is written, the cart is emptied of all its rows, those added
\* since the locking included, and the transaction commits.
Commit(w, o) ==
    LET k == tx[w].promo IN
    /\ tx[w].step = "redeemed"
    /\ order[o].status = "absent"
    /\ order' = [order EXCEPT ![o] = tx[w].draft]
    /\ cart' = [cart EXCEPT ![tx[w].user] = EmptyCart]
    /\ used' = IF k = NoPromo THEN used ELSE [used EXCEPT ![k] = tx[w].count]
    /\ tx' = [tx EXCEPT ![w] = Idle]
    /\ UNCHANGED <<usable, offer>>

\* Mutant: an item that is out of stock is waited for.
RefusePromoOnly(w) ==
    LET k == tx[w].promo IN
    /\ tx[w].step = "priced" /\ k # NoPromo
    /\ ~ PromoLocked(k) /\ ~ Applicable(k, tx[w].user)
    /\ Rollback(w)

\* A ValidationError of submit_checkout.
Refuse(w) ==
    LET k == tx[w].promo IN
    /\ \/ tx[w].step = "locked" /\ ~ Acceptable(tx[w].user, k, tx[w].items)
       \/ /\ tx[w].step = "priced" /\ k # NoPromo
          /\ ~ PromoLocked(k) /\ ~ Applicable(k, tx[w].user)
    /\ Rollback(w)

\* Any other error before the commit: the payment cannot be prepared (LiqPay), the
\* database refuses, the process dies.
Crash(w) == tx[w].step # "idle" /\ Rollback(w)

----------------------------------------------------------------------------
(* The rest of the shop.                                                   *)

\* OrderOperationsService.delete_order; the redemption goes with the order.
DeleteOrder(o) ==
    /\ order[o].status = "placed"
    /\ order' = [order EXCEPT ![o].status = "deleted"]
    /\ UNCHANGED <<cart, used, usable, offer, tx>>

\* The promo code expires or an administrator disables it.
PromoLapses(k) ==
    /\ usable[k]
    /\ usable' = [usable EXCEPT ![k] = FALSE]
    /\ UNCHANGED <<cart, order, used, offer, tx>>

\* A price list is imported or the product repriced.
MarketMoves(p, m) ==
    /\ offer[p] # m
    /\ offer' = [offer EXCEPT ![p] = m]
    /\ UNCHANGED <<cart, order, used, usable, tx>>

Init ==
    /\ cart = [u \in Users |-> EmptyCart]
    /\ order = [o \in Orders |-> NoOrder]
    /\ used = [k \in Promos |-> 0]
    /\ usable = [k \in Promos |-> TRUE]
    /\ offer \in [Products -> Offers]
    /\ tx = [w \in Workers |-> Idle]

Next ==
    \/ \E u \in Users, p \in Products, n \in 0..MaxQuantity :
        \/ AddToCart(u, p, n)
        \/ SetQuantity(u, p, n)
    \/ \E w \in Workers :
        \/ \E u \in Users, k \in Promos \cup {NoPromo} : Submit(w, u, k)
        \/ LockCart(w)
        \/ Price(w)
        \/ Redeem(w)
        \/ \E o \in Orders : Commit(w, o)
        \/ Refuse(w)
        \/ Crash(w)
    \/ \E o \in Orders : DeleteOrder(o)
    \/ \E k \in Promos : PromoLapses(k)
    \/ \E p \in Products, m \in Offers : MarketMoves(p, m)

Spec == Init /\ [][Next]_vars

\* A request goes on until it is answered: the clients of the providers give up
\* after a timeout.  The database grants a row lock in the order of the requests.
Proceed(w) == Price(w) \/ Refuse(w) \/ Redeem(w) \/ \E o \in Orders : Commit(w, o)

FairSpec ==
    Spec /\ \A w \in Workers : WF_vars(Proceed(w)) /\ SF_vars(LockCart(w))

----------------------------------------------------------------------------

TypeOK ==
    /\ cart \in [Users -> Quantities]
    /\ order \in [Orders -> OrderRow]
    /\ used \in [Promos -> Nat]
    /\ usable \in [Promos -> BOOLEAN]
    /\ offer \in [Products -> Offers]
    /\ tx \in [Workers -> Transaction]

\* While an order is built nobody changes the rows it is built from, and nobody
\* else builds an order from the same cart: select_for_update on the cart's rows.
LockedRowsStand ==
    \A w \in Workers : HoldsRows(w) =>
        /\ \A p \in Products : tx[w].items[p] \in {0, cart[tx[w].user][p]}
        /\ \A v \in Workers \ {w} : HoldsRows(v) => tx[v].user # tx[w].user

\* usage_count is the number of orders that ever took the discount, rolled back
\* checkouts not counted and deleted orders counted, and stays within the limit.
PromoAccounting ==
    \A k \in Promos :
        /\ used[k] = Cardinality({o \in Orders : order[o].promo = k})
        /\ used[k] <= UsageLimit[k]

\* A promo code gives away markup only: rounded as it is, the discount never
\* takes an order below the cost of its items, nor down to nothing.
DiscountWithinMarkup ==
    \A o \in Orders : order[o].status # "absent" =>
        /\ order[o].subtotal - order[o].total <= order[o].markup
        /\ order[o].total > 0

\* Checkout, for all its steps, is the indivisible step of OrderPlacement.
Placement == INSTANCE OrderPlacement WITH cart <- cart, order <- order, used <- used

PlacesOrdersAtOnce == Placement!Spec

\* Every checkout is answered: no two of them wait for each other's locks.
EveryCheckoutEnds == \A w \in Workers : tx[w].step # "idle" ~> tx[w].step = "idle"
=============================================================================
