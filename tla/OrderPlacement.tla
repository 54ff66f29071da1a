--------------------------- MODULE OrderPlacement ---------------------------
(***************************************************************************)
(* What checkout promises, with no transaction, lock or request in sight:  *)
(* placing an order is one indivisible step.  The lines of an order are    *)
(* rows its customer's cart holds at that instant, with the quantities     *)
(* they have at that instant; the cart is empty afterwards, so that no row *)
(* is ordered twice; and a promo code is spent by that very step, only     *)
(* while it has uses left and only by the customer it was issued to.       *)
(* Checkout implements this module.                                        *)
(***************************************************************************)
EXTENDS Naturals

CONSTANTS
    Users, Products, Orders, Promos,
    NoUser, NoPromo,
    Owner,        \* the customer each promo code was issued to
    UsageLimit    \* uses each promo code was issued for

VARIABLES
    cart,         \* quantity of each product in each cart, 0: no row
    order,        \* the orders with their lines
    used          \* uses of each promo code so far

vars == <<cart, order, used>>

EmptyCart == [p \in Products |-> 0]

Init ==
    /\ cart = [u \in Users |-> EmptyCart]
    /\ \A o \in Orders : order[o].status = "absent"
    /\ used = [k \in Promos |-> 0]

\* The customer changes one row of the cart.
ChangeCart(u, p) ==
    /\ \E n \in {cart'[u][p]} : cart' = [cart EXCEPT ![u][p] = n]
    /\ UNCHANGED <<order, used>>

Place(u, o) ==
    /\ order[o].status = "absent"
    /\ \A n \in Orders \ {o} : order'[n] = order[n]
    /\ order'[o].status = "placed"
    /\ order'[o].user = u
    /\ \E p \in Products : order'[o].qty[p] > 0
    /\ \A p \in Products : order'[o].qty[p] \in {0, cart[u][p]}
    /\ cart' = [cart EXCEPT ![u] = EmptyCart]
    /\ LET k == order'[o].promo IN
         \/ k = NoPromo /\ UNCHANGED used
         \/ /\ k \in Promos
            /\ Owner[k] = u
            /\ used[k] < UsageLimit[k]
            /\ used' = [used EXCEPT ![k] = @ + 1]

\* An order deleted by an operator does not give the promo code back.
Delete(o) ==
    /\ order[o].status = "placed"
    /\ order' = [order EXCEPT ![o].status = "deleted"]
    /\ UNCHANGED <<cart, used>>

Next ==
    \/ \E u \in Users, p \in Products : ChangeCart(u, p)
    \/ \E u \in Users, o \in Orders : Place(u, o)
    \/ \E o \in Orders : Delete(o)

Spec == Init /\ [][Next]_vars
=============================================================================
