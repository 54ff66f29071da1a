----------------------------- MODULE MCCheckout -----------------------------
(* An instance of Checkout for TLC.  Three offers: with a markup of which a  *)
(* half is not a whole unit, under its cost, and out of the market.  Two     *)
(* promo codes for half of the markup: the customer's own and a stranger's.  *)
EXTENDS Checkout, TLC

CONSTANTS w1, w2, u1, stranger, p1, p2, k1, k2, o1, o2

TwoWorkers == {w1, w2}
OneUser == {u1}
TwoProducts == {p1, p2}
TwoPromos == {k1, k2}
TwoOrders == {o1, o2}

Markets == {[price |-> 3, cost |-> 2, stock |-> 2],
            [price |-> 1, cost |-> 2, stock |-> 1],
            [price |-> 0, cost |-> 0, stock |-> 0]}
MCOwner == [k \in Promos |-> IF k = k2 THEN stranger ELSE u1]
UsedOnce == [k \in Promos |-> 1]
Half == [k \in Promos |-> 50]
=============================================================================
