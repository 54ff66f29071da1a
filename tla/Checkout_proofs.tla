--------------------------- MODULE Checkout_proofs ---------------------------
(***************************************************************************)
(* Proofs about Checkout, for every set of customers, products, promo      *)
(* codes and workers and for every market: what the locks of a checkout    *)
(* keep from its beginning to its commit, that codes are counted right,    *)
(* that a discount stays within the markup, and that a checkout is the one *)
(* step of OrderPlacement.                                                 *)
(***************************************************************************)
EXTENDS Checkout, Sums

Holding == {"locked", "priced", "redeemed"}

\* the discount is markup only, and something is left to pay
Fair(x) == x.subtotal - x.total <= x.markup /\ x.total > 0

\* what a checkout has read, under the locks it holds, still holds
Sound(x) ==
    /\ x.step # "idle" => x.user \in Users
    /\ x.step \in Holding => /\ \E p \in Products : x.items[p] > 0
                             /\ \A p \in Products : x.items[p] \in {0, cart[x.user][p]}
    /\ x.step \in {"priced", "redeemed"} =>
           /\ x.draft.status = "placed" /\ x.draft.user = x.user
           /\ x.draft.qty = x.items /\ x.draft.promo = x.promo
           /\ Fair(x.draft)
    /\ x.step = "redeemed" /\ x.promo # NoPromo =>
           /\ x.count = used[x.promo] + 1
           /\ used[x.promo] < UsageLimit[x.promo]
           /\ Owner[x.promo] = x.user

\* the locks of the rows, and of the promo code
Apart ==
    \A v, w \in Workers : v # w =>
        /\ tx[v].step \in Holding /\ tx[w].step \in Holding => tx[v].user # tx[w].user
        /\ tx[v].step = "redeemed" /\ tx[w].step = "redeemed" /\ tx[v].promo = tx[w].promo
             => tx[v].promo = NoPromo

\* an order that is not there has spent no code; one that is there is fair
Booked ==
    \A o \in Orders : /\ order[o].status = "absent" => order[o].promo = NoPromo
                      /\ order[o].status # "absent" => Fair(order[o])

IInv == TypeOK /\ (\A w \in Workers : Sound(tx[w])) /\ Apart /\ Booked /\ PromoAccounting

----------------------------------------------------------------------------
(* Types and amounts.                                                      *)

LEMMA RowTypes ==
    /\ EmptyCart \in Quantities
    /\ NoOrder \in OrderRow /\ NoOrder.status = "absent" /\ NoOrder.promo = NoPromo
    /\ Idle \in Transaction /\ Idle.step = "idle"
  <1>1. EmptyCart \in Quantities
    BY DEF EmptyCart, Quantities
  <1>2. NoOrder \in OrderRow /\ NoOrder.status = "absent" /\ NoOrder.promo = NoPromo
    BY <1>1 DEF NoOrder, OrderRow
  <1>3. Idle \in Transaction /\ Idle.step = "idle"
    BY <1>1, <1>2 DEF Idle, Transaction
  <1>4. QED
    BY <1>1, <1>2, <1>3

LEMMA TimesGrows ==
    ASSUME NEW a \in Nat, NEW b \in Nat, NEW n \in Nat
    PROVE  /\ a * n \in Nat
           /\ a <= b => a * n <= b * n
           /\ a < b /\ n > 0 => a * n < b * n
  <1>1. a * n \in Nat
    OBVIOUS
  <1>2. ASSUME a <= b PROVE a * n <= b * n
    <2>1. PICK c \in Nat : b = a + c
      <3>1. b - a \in Nat /\ b = a + (b - a)
        BY <1>2
      <3>2. QED
        BY <3>1
    <2>2. b * n = a * n + c * n /\ c * n \in Nat
      BY <2>1
    <2>3. QED
      BY <1>1, <2>2
  <1>3. ASSUME a < b, n > 0 PROVE a * n < b * n
    <2>1. PICK c \in Nat : b = a + 1 + c
      <3>1. b - a - 1 \in Nat /\ b = a + 1 + (b - a - 1)
        BY <1>3
      <3>2. QED
        BY <3>1
    <2>2. b * n = a * n + n + c * n /\ c * n \in Nat
      BY <2>1
    <2>3. QED
      BY <1>1, <1>3, <2>2
  <1>4. QED
    BY <1>1, <1>2, <1>3

\* What a product earns over its cost is no more than its price, and less when it has one.
LEMMA UnitBelowPrice ==
    ASSUME offer \in [Products -> Offers], NEW p \in Products
    PROVE  /\ offer[p].price \in Nat /\ MarkupUnit(p) \in Nat
           /\ MarkupUnit(p) <= offer[p].price
           /\ offer[p].price > 0 => MarkupUnit(p) < offer[p].price
  <1>1. offer[p].price \in Nat /\ offer[p].cost \in Nat
    BY CheckoutAssumption
  <1>2. QED
    BY <1>1 DEF MarkupUnit

\* The markup of a cart is less than its price, as soon as one row has a price.
LEMMA MarkupBelowSubtotal ==
    ASSUME offer \in [Products -> Offers], NEW items \in Quantities
    PROVE  /\ Subtotal(items) \in Nat /\ Markup(items) \in Nat
           /\ (\E p \in Products : items[p] > 0 /\ offer[p].price > 0)
                => Markup(items) < Subtotal(items)
  <1> DEFINE f == [p \in Products |-> MarkupUnit(p) * items[p]]
             g == [p \in Products |-> offer[p].price * items[p]]
  <1>1. IsFiniteSet(Products)
    BY CheckoutAssumption
  <1>2. ASSUME NEW p \in Products
        PROVE  /\ f[p] \in Nat /\ g[p] \in Nat /\ f[p] <= g[p]
               /\ items[p] > 0 /\ offer[p].price > 0 => f[p] < g[p]
    <2>1. items[p] \in Nat
      BY DEF Quantities
    <2>2. f[p] = MarkupUnit(p) * items[p] /\ g[p] = offer[p].price * items[p]
      OBVIOUS
    <2> HIDE DEF f, g
    <2>3. QED
      BY <2>1, <2>2, UnitBelowPrice, TimesGrows
  <1>3. DOMAIN f = Products /\ DOMAIN g = Products
    OBVIOUS
  <1> HIDE DEF f, g
  <1>4. SumFunction(f) \in Nat /\ SumFunction(g) \in Nat
    BY <1>1, <1>2, <1>3, SumOfAll, SumType
  <1>5. ASSUME NEW p \in Products, items[p] > 0, offer[p].price > 0
        PROVE  SumFunction(f) < SumFunction(g)
    <2>1. SumFunctionOnSet(f, Products) < SumFunctionOnSet(g, Products)
      BY <1>1, <1>2, <1>5, SumStrict
    <2>2. QED
      BY <1>3, <2>1, SumOfAll
  <1>6. QED
    BY <1>4, <1>5 DEF f, g, Subtotal, Markup

LEMMA DiscountBelowMarkup ==
    ASSUME NEW k \in Promos, NEW items, Markup(items) \in Nat
    PROVE  Discount(k, items) \in Nat /\ Discount(k, items) <= Markup(items)
  <1>1. Percent[k] \in Nat
    BY CheckoutAssumption
  <1>2. Markup(items) * Percent[k] \in Nat
    BY <1>1
  <1>3. (Markup(items) * Percent[k] + 50) \div 100 \in Nat
    BY <1>2
  <1>4. QED
    BY <1>3 DEF Discount

\* The order that a checkout drafts is fair.
LEMMA DraftIsFair ==
    ASSUME offer \in [Products -> Offers], NEW items \in Quantities, NEW u \in Users,
           NEW k \in Promos \cup {NoPromo}, Acceptable(u, k, items),
           NEW q \in Products, items[q] > 0,
           NEW discount, discount = IF k = NoPromo THEN 0 ELSE Discount(k, items)
    PROVE  LET d == DraftOf(u, k, items, discount)
           IN  /\ d \in OrderRow /\ Fair(d)
               /\ d.status = "placed" /\ d.user = u /\ d.qty = items /\ d.promo = k
  <1> DEFINE d == DraftOf(u, k, items, discount)
  <1>1. offer[q].price > 0
    BY DEF Acceptable
  <1>2. Subtotal(items) \in Nat /\ Markup(items) \in Nat /\ Markup(items) < Subtotal(items)
    BY <1>1, MarkupBelowSubtotal
  <1>3. discount \in Nat /\ discount <= Markup(items)
    BY <1>2, DiscountBelowMarkup
  <1>4. /\ d.status = "placed" /\ d.user = u /\ d.qty = items /\ d.promo = k
        /\ d.subtotal = Subtotal(items) /\ d.markup = Markup(items)
        /\ d.total = Subtotal(items) - discount
        /\ d \in OrderRow
    BY <1>2, <1>3 DEF DraftOf, OrderRow
  <1>5. Fair(d)
    BY <1>2, <1>3, <1>4 DEF Fair
  <1>6. QED
    BY <1>4, <1>5

----------------------------------------------------------------------------
(* The steps of a checkout.                                                *)

\* A checkout goes on and leaves the rest.
LEMMA TxMoves ==
    ASSUME IInv, NEW w \in Workers, NEW x \in Transaction,
           tx' = [tx EXCEPT ![w] = x],
           UNCHANGED <<cart, order, used>>, usable' = usable, offer' = offer,
           Sound(x),
           x.step \in Holding =>
             \A v \in Workers \ {w} : tx[v].step \in Holding => tx[v].user # x.user,
           x.step = "redeemed" /\ x.promo # NoPromo =>
             \A v \in Workers \ {w} : tx[v].step = "redeemed" => tx[v].promo # x.promo
    PROVE  IInv'
  <1>1. \A v \in Workers : tx'[v] = IF v = w THEN x ELSE tx[v]
    BY DEF IInv, TypeOK
  <1>2. TypeOK'
    BY DEF IInv, TypeOK
  <1>3. \A v \in Workers : Sound(tx'[v])
    BY <1>1 DEF IInv
  <1>4. ASSUME NEW v \in Workers PROVE Sound(tx[v])'
    <2>1. Sound(tx'[v])
      BY <1>3
    <2>2. QED
      BY <2>1 DEF Sound
  <1>5. Apart'
    BY <1>1 DEF IInv, Apart
  <1>6. Booked' /\ PromoAccounting'
    BY DEF IInv, Booked, PromoAccounting
  <1>7. QED
    BY <1>2, <1>4, <1>5, <1>6 DEF IInv

LEMMA RollbackKeeps ==
    ASSUME IInv, NEW w \in Workers, Rollback(w)
    PROVE  IInv'
  <1>1. Sound(Idle) /\ Idle \in Transaction /\ Idle.step = "idle"
    BY RowTypes DEF Sound, Holding
  <1>2. QED
    BY <1>1, TxMoves DEF Rollback, Holding

LEMMA SubmitKeeps ==
    ASSUME IInv, NEW w \in Workers, NEW u \in Users, NEW k \in Promos \cup {NoPromo},
           Submit(w, u, k)
    PROVE  IInv'
  <1> DEFINE x == [Idle EXCEPT !.step = "waiting", !.user = u, !.promo = k]
  <1>1. x \in Transaction /\ x.step = "waiting" /\ x.user = u
    BY RowTypes DEF Idle, Transaction
  <1>2. tx' = [tx EXCEPT ![w] = x] /\ UNCHANGED <<cart, order, used, usable, offer>>
    BY DEF Submit
  <1> HIDE DEF x
  <1>3. Sound(x)
    BY <1>1 DEF Sound, Holding
  <1>4. QED
    BY <1>1, <1>2, <1>3, TxMoves DEF Holding

LEMMA LockCartKeeps ==
    ASSUME IInv, NEW w \in Workers, LockCart(w)
    PROVE  IInv'
  <1> DEFINE u == tx[w].user
             x == [tx[w] EXCEPT !.step = "locked", !.items = cart[u]]
  <1>1. /\ tx[w] \in Transaction /\ tx[w].step = "waiting" /\ u \in Users
        /\ cart[u] \in Quantities /\ \A p \in Products : ~ RowLocked(u, p)
    BY DEF LockCart, IInv, TypeOK, Sound
  <1>2. CASE cart[u] = EmptyCart
    BY <1>2, RollbackKeeps DEF LockCart
  <1>3. CASE cart[u] # EmptyCart
    <2>1. x \in Transaction /\ x.step = "locked" /\ x.user = u /\ x.items = cart[u]
      BY <1>1 DEF Transaction
    <2>2. tx' = [tx EXCEPT ![w] = x] /\ UNCHANGED <<cart, order, used, usable, offer>>
      BY <1>3 DEF LockCart, IInv, TypeOK
    <2> HIDE DEF x
    <2>3. \E p \in Products : cart[u][p] > 0
      BY <1>1, <1>3 DEF Quantities, EmptyCart
    <2>4. Sound(x)
      BY <1>1, <2>1, <2>3 DEF Sound, Holding
    <2>5. \A v \in Workers : tx[v].step \in Holding => tx[v].user # u
      BY <1>1 DEF RowLocked, HoldsRows, Holding, IInv, Sound
    <2>6. QED
      BY <2>1, <2>2, <2>4, <2>5, TxMoves
  <1>4. QED
    BY <1>2, <1>3

LEMMA PriceKeeps ==
    ASSUME IInv, NEW w \in Workers, Price(w)
    PROVE  IInv'
  <1> DEFINE u == tx[w].user
             k == tx[w].promo
             items == tx[w].items
             discount == IF k = NoPromo THEN 0 ELSE Discount(k, items)
             d == DraftOf(u, k, items, discount)
             x == [tx[w] EXCEPT !.step = "priced", !.draft = d]
  <1>1. /\ tx[w] \in Transaction /\ tx[w].step = "locked" /\ u \in Users
        /\ items \in Quantities /\ k \in Promos \cup {NoPromo} /\ Sound(tx[w])
        /\ Acceptable(u, k, items) /\ offer \in [Products -> Offers]
    BY DEF Price, IInv, TypeOK, Sound, Transaction
  <1>2. PICK q \in Products : items[q] > 0
    BY <1>1 DEF Sound, Holding
  <1>3. tx' = [tx EXCEPT ![w] = x] /\ UNCHANGED <<cart, order, used, usable, offer>>
    BY DEF Price, IInv, TypeOK
  <1> HIDE DEF u, k, items, discount
  <1>4. /\ d \in OrderRow /\ Fair(d)
        /\ d.status = "placed" /\ d.user = u /\ d.qty = items /\ d.promo = k
    <2>1. discount = IF k = NoPromo THEN 0 ELSE Discount(k, items)
      BY DEF discount
    <2>2. QED
      BY <1>1, <1>2, <2>1, DraftIsFair
  <1> HIDE DEF d
  <1>5. /\ x \in Transaction /\ x.step = "priced" /\ x.user = u /\ x.promo = k
        /\ x.items = items /\ x.draft = d
    BY <1>1, <1>4 DEF Transaction, u, k, items
  <1> HIDE DEF x
  <1>6. Sound(x)
    BY <1>1, <1>4, <1>5 DEF Sound, Holding, u, k, items
  <1>7. \A v \in Workers \ {w} : tx[v].step \in Holding => tx[v].user # u
    BY <1>1 DEF IInv, Apart, Holding, u
  <1>8. QED
    BY <1>3, <1>5, <1>6, <1>7, TxMoves

LEMMA RedeemKeeps ==
    ASSUME IInv, NEW w \in Workers, Redeem(w)
    PROVE  IInv'
  <1> DEFINE k == tx[w].promo
             x == [tx[w] EXCEPT !.step = "redeemed", !.count = Count(k)]
  <1>1. /\ tx[w] \in Transaction /\ tx[w].step = "priced" /\ Sound(tx[w])
        /\ k \in Promos \cup {NoPromo}
        /\ k # NoPromo => ~ PromoLocked(k) /\ Applicable(k, tx[w].user)
    BY DEF Redeem, IInv, TypeOK, Transaction
  <1>2. tx' = [tx EXCEPT ![w] = x] /\ UNCHANGED <<cart, order, used, usable, offer>>
    BY DEF Redeem, IInv, TypeOK
  <1>3. Count(k) \in Nat /\ (k # NoPromo => Count(k) = used[k] + 1)
    BY <1>1 DEF Count, IInv, TypeOK
  <1>4. /\ x \in Transaction /\ x.step = "redeemed" /\ x.user = tx[w].user /\ x.promo = k
        /\ x.items = tx[w].items /\ x.draft = tx[w].draft /\ x.count = Count(k)
    BY <1>1, <1>3 DEF Transaction
  <1> HIDE DEF x
  <1>5. Sound(x)
    BY <1>1, <1>3, <1>4 DEF Sound, Holding, Applicable
  <1>6. \A v \in Workers \ {w} : tx[v].step \in Holding => tx[v].user # tx[w].user
    BY <1>1 DEF IInv, Apart, Holding
  <1>7. k # NoPromo => \A v \in Workers \ {w} : tx[v].step = "redeemed" => tx[v].promo # k
    BY <1>1 DEF PromoLocked
  <1>8. QED
    BY <1>2, <1>4, <1>5, <1>6, <1>7, TxMoves

LEMMA RefuseKeeps ==
    ASSUME IInv, NEW w \in Workers, Refuse(w) \/ Crash(w)
    PROVE  IInv'
  BY RollbackKeeps DEF Refuse, Crash

\* What the commit needs to know of its checkout.
LEMMA CommitFacts ==
    ASSUME IInv, NEW w \in Workers, NEW o \in Orders, Commit(w, o)
    PROVE  LET u == tx[w].user
               k == tx[w].promo
               d == tx[w].draft
           IN  /\ u \in Users /\ d \in OrderRow /\ Fair(d)
               /\ d.status = "placed" /\ d.user = u /\ d.promo = k
               /\ \E p \in Products : d.qty[p] > 0
               /\ \A p \in Products : d.qty[p] \in {0, cart[u][p]}
               /\ k \in Promos \cup {NoPromo}
               /\ k # NoPromo => /\ Owner[k] = u /\ used[k] < UsageLimit[k]
                                 /\ tx[w].count = used[k] + 1
               /\ \A v \in Workers \ {w} :
                    /\ tx[v].step \in Holding => tx[v].user # u
                    /\ tx[v].step = "redeemed" /\ tx[v].promo # NoPromo => tx[v].promo # k
               /\ order[o].promo = NoPromo
  <1>1. /\ tx[w] \in Transaction /\ tx[w].step = "redeemed" /\ Sound(tx[w])
        /\ order[o].status = "absent"
    BY DEF Commit, IInv, TypeOK
  <1>2. tx[w].draft \in OrderRow /\ tx[w].promo \in Promos \cup {NoPromo}
    BY <1>1 DEF Transaction
  <1>3. order[o].promo = NoPromo
    BY <1>1 DEF IInv, Booked
  <1>4. \A v \in Workers \ {w} :
          /\ tx[v].step \in Holding => tx[v].user # tx[w].user
          /\ tx[v].step = "redeemed" /\ tx[v].promo # NoPromo => tx[v].promo # tx[w].promo
    BY <1>1 DEF IInv, Apart, Holding
  <1>5. QED
    BY <1>1, <1>2, <1>3, <1>4 DEF Sound, Holding

LEMMA CommitKeeps ==
    ASSUME IInv, NEW w \in Workers, NEW o \in Orders, Commit(w, o)
    PROVE  IInv'
  <1> DEFINE u == tx[w].user
             k == tx[w].promo
             d == tx[w].draft
  <1>1. /\ u \in Users /\ d \in OrderRow /\ Fair(d) /\ d.status = "placed" /\ d.promo = k
        /\ k \in Promos \cup {NoPromo}
        /\ k # NoPromo => used[k] < UsageLimit[k] /\ tx[w].count = used[k] + 1
        /\ \A v \in Workers \ {w} :
             /\ tx[v].step \in Holding => tx[v].user # u
             /\ tx[v].step = "redeemed" /\ tx[v].promo # NoPromo => tx[v].promo # k
        /\ order[o].promo = NoPromo
    BY CommitFacts
  <1>2. /\ order' = [order EXCEPT ![o] = d] /\ cart' = [cart EXCEPT ![u] = EmptyCart]
        /\ used' = IF k = NoPromo THEN used ELSE [used EXCEPT ![k] = tx[w].count]
        /\ tx' = [tx EXCEPT ![w] = Idle] /\ UNCHANGED <<usable, offer>>
    BY DEF Commit
  <1>3. /\ order \in [Orders -> OrderRow] /\ cart \in [Users -> Quantities]
        /\ used \in [Promos -> Nat] /\ tx \in [Workers -> Transaction]
        /\ usable \in [Promos -> BOOLEAN] /\ offer \in [Products -> Offers]
        /\ UsageLimit \in [Promos -> Nat \ {0}] /\ NoPromo \notin Promos
    BY CheckoutAssumption DEF IInv, TypeOK
  <1> HIDE DEF u, k, d
  <1>4. /\ \A n \in Orders : order'[n] = IF n = o THEN d ELSE order[n]
        /\ \A c \in Users : c # u => cart'[c] = cart[c]
        /\ \A j \in Promos : used'[j] = IF j = k THEN used[j] + 1 ELSE used[j]
        /\ \A v \in Workers : tx'[v] = IF v = w THEN Idle ELSE tx[v]
    BY <1>1, <1>2, <1>3
  <1>5. used' \in [Promos -> Nat]
    BY <1>1, <1>2, <1>3
  <1>6. TypeOK'
    BY <1>1, <1>2, <1>3, <1>5, RowTypes DEF TypeOK
  <1>7. ASSUME NEW v \in Workers PROVE Sound(tx[v])'
    <2>1. CASE v = w
      BY <1>4, <2>1, RowTypes DEF Sound, Holding
    <2>2. CASE v # w
      <3>1. tx'[v] = tx[v] /\ Sound(tx[v]) /\ tx[v] \in Transaction
        BY <1>3, <1>4, <2>2 DEF IInv
      <3>2. tx[v].step \in Holding => tx[v].user \in Users /\ cart'[tx[v].user] = cart[tx[v].user]
        BY <1>1, <1>4, <2>2, <3>1 DEF Sound, Holding
      <3>3. tx[v].step = "redeemed" /\ tx[v].promo # NoPromo
              => used'[tx[v].promo] = used[tx[v].promo]
        BY <1>1, <1>4, <2>2, <3>1 DEF Transaction
      <3>4. QED
        BY <3>1, <3>2, <3>3 DEF Sound
    <2>3. QED
      BY <2>1, <2>2
  <1>8. Apart'
    BY <1>4, RowTypes DEF IInv, Apart, Holding
  <1>9. Booked'
    BY <1>1, <1>4 DEF IInv, Booked
  <1>10. PromoAccounting'
    <2>1. ASSUME NEW j \in Promos
          PROVE  used'[j] = Cardinality({n \in Orders : order'[n].promo = j})
                 /\ used'[j] <= UsageLimit[j]
      <3> DEFINE S == {n \in Orders : order[n].promo = j}
                 T == {n \in Orders : order'[n].promo = j}
      <3>1. used[j] = Cardinality(S) /\ used[j] <= UsageLimit[j] /\ IsFiniteSet(S)
        <4>1. IsFiniteSet(Orders)
          BY CheckoutAssumption
        <4>2. IsFiniteSet(S)
          BY <4>1, FS_Subset
        <4>3. QED
          BY <4>2 DEF IInv, PromoAccounting
      <3>2. CASE j = k
        <4>1. T = S \cup {o} /\ o \notin S
          BY <1>1, <1>3, <1>4, <3>2
        <4> HIDE DEF S, T
        <4>2. Cardinality(T) = Cardinality(S) + 1
          BY <3>1, <4>1, FS_AddElement
        <4>3. used'[j] = used[j] + 1 /\ used[j] < UsageLimit[j]
          BY <1>1, <1>3, <1>4, <3>2
        <4>4. used[j] \in Nat /\ UsageLimit[j] \in Nat
          BY <1>3
        <4>5. QED
          BY <3>1, <4>2, <4>3, <4>4 DEF T
      <3>3. CASE j # k
        <4>1. T = S
          BY <1>1, <1>3, <1>4, <3>3
        <4>2. QED
          BY <1>4, <3>1, <3>3, <4>1
      <3>4. QED
        BY <3>2, <3>3
    <2>2. QED
      BY <2>1 DEF PromoAccounting
  <1>11. QED
    BY <1>6, <1>7, <1>8, <1>9, <1>10 DEF IInv

----------------------------------------------------------------------------
(* The rest of the shop.                                                   *)

\* A row that is written is not a row that a checkout has read.
LEMMA SetRowKeeps ==
    ASSUME IInv, NEW u \in Users, NEW p \in Products, NEW n \in Nat, SetRow(u, p, n)
    PROVE  IInv'
  <1>1. /\ cart' = [cart EXCEPT ![u][p] = n] /\ UNCHANGED <<order, used, usable, offer, tx>>
        /\ cart \in [Users -> Quantities] /\ ~ RowLocked(u, p)
    BY DEF SetRow, IInv, TypeOK
  <1>2. /\ cart' \in [Users -> Quantities]
        /\ \A c \in Users, q \in Products : c # u \/ q # p => cart'[c][q] = cart[c][q]
    BY <1>1 DEF Quantities
  <1>3. TypeOK'
    BY <1>1, <1>2 DEF IInv, TypeOK
  <1>4. ASSUME NEW v \in Workers PROVE Sound(tx[v])'
    <2>1. Sound(tx[v]) /\ tx[v] \in Transaction
      BY DEF IInv, TypeOK
    <2>2. tx[v].step \in Holding /\ tx[v].user = u => tx[v].items[p] = 0
      <3>1. tx[v].items[p] \in Nat
        BY <2>1 DEF Transaction, Quantities
      <3>2. QED
        BY <1>1, <3>1 DEF RowLocked, HoldsRows, Holding
    <2>3. tx[v].step \in Holding =>
            \A q \in Products : tx[v].items[q] \in {0, cart'[tx[v].user][q]}
      BY <1>2, <2>1, <2>2 DEF Sound, Holding
    <2>4. QED
      BY <1>1, <2>1, <2>3 DEF Sound
  <1>5. Apart' /\ Booked' /\ PromoAccounting'
    BY <1>1 DEF IInv, Apart, Booked, PromoAccounting
  <1>6. QED
    BY <1>3, <1>4, <1>5 DEF IInv

LEMMA DeleteKeeps ==
    ASSUME IInv, NEW o \in Orders, DeleteOrder(o)
    PROVE  IInv'
  <1>1. /\ order \in [Orders -> OrderRow] /\ order[o].status = "placed"
        /\ UNCHANGED <<cart, used, usable, offer, tx>>
    BY DEF DeleteOrder, IInv, TypeOK
  <1>2. /\ order' \in [Orders -> OrderRow]
        /\ \A n \in Orders :
             /\ n # o => order'[n] = order[n]
             /\ order'[n].promo = order[n].promo
             /\ order'[n].subtotal = order[n].subtotal /\ order'[n].total = order[n].total
             /\ order'[n].markup = order[n].markup
        /\ order'[o].status = "deleted"
    BY <1>1 DEF DeleteOrder, OrderRow
  <1>3. TypeOK'
    BY <1>1, <1>2 DEF IInv, TypeOK
  <1>4. Booked'
    BY <1>1, <1>2 DEF IInv, Booked, Fair
  <1>5. PromoAccounting'
    <2>1. \A k \in Promos : {n \in Orders : order'[n].promo = k}
                             = {n \in Orders : order[n].promo = k}
      BY <1>2
    <2>2. QED
      BY <1>1, <2>1 DEF IInv, PromoAccounting
  <1>6. Apart' /\ \A v \in Workers : Sound(tx[v])'
    BY <1>1 DEF IInv, Apart, Sound
  <1>7. QED
    BY <1>3, <1>4, <1>5, <1>6 DEF IInv

LEMMA MarketKeeps ==
    ASSUME IInv, UNCHANGED <<cart, order, used, tx>>,
           usable' \in [Promos -> BOOLEAN], offer' \in [Products -> Offers]
    PROVE  IInv'
  <1>1. TypeOK'
    BY DEF IInv, TypeOK
  <1>2. ASSUME NEW w \in Workers PROVE Sound(tx[w])'
    BY DEF IInv, Sound
  <1>3. Apart' /\ Booked' /\ PromoAccounting'
    BY DEF IInv, Apart, Booked, PromoAccounting
  <1>4. QED
    BY <1>1, <1>2, <1>3 DEF IInv

LEMMA InitInvariant == Init => IInv
  <1> SUFFICES ASSUME Init PROVE IInv
    OBVIOUS
  <1>1. /\ \A o \in Orders : order[o] = NoOrder
        /\ \A w \in Workers : tx[w] = Idle
    BY DEF Init
  <1>2. TypeOK
    BY RowTypes DEF Init, TypeOK
  <1>3. (\A w \in Workers : Sound(tx[w])) /\ Apart /\ Booked
    BY <1>1, RowTypes DEF Sound, Apart, Booked, Holding
  <1>4. PromoAccounting
    <2>1. ASSUME NEW k \in Promos
          PROVE  /\ used[k] = 0 /\ 0 <= UsageLimit[k]
                 /\ {o \in Orders : order[o].promo = k} = {}
      BY <1>1, RowTypes, CheckoutAssumption DEF Init
    <2>2. Cardinality({}) = 0
      BY FS_EmptySet
    <2>3. QED
      BY <2>1, <2>2 DEF PromoAccounting
  <1>5. QED
    BY <1>2, <1>3, <1>4 DEF IInv

LEMMA StepKeeps == IInv /\ [Next]_vars => IInv'
  <1> SUFFICES ASSUME IInv, [Next]_vars PROVE IInv'
    OBVIOUS
  <1>1. usable \in [Promos -> BOOLEAN] /\ offer \in [Products -> Offers]
    BY DEF IInv, TypeOK
  <1>2. CASE UNCHANGED vars
    BY <1>1, <1>2, MarketKeeps DEF vars
  <1>3. ASSUME NEW u \in Users, NEW p \in Products, NEW n \in 0 .. MaxQuantity,
               AddToCart(u, p, n) \/ SetQuantity(u, p, n)
        PROVE  IInv'
    <2>1. n \in Nat /\ cart[u][p] + n \in Nat
      BY CheckoutAssumption DEF IInv, TypeOK, Quantities
    <2>2. QED
      BY <1>3, <2>1, SetRowKeeps DEF AddToCart, SetQuantity
  <1>4. ASSUME NEW w \in Workers, NEW u \in Users, NEW k \in Promos \cup {NoPromo},
               Submit(w, u, k)
        PROVE  IInv'
    BY <1>4, SubmitKeeps
  <1>5. ASSUME NEW w \in Workers,
               LockCart(w) \/ Price(w) \/ Redeem(w) \/ Refuse(w) \/ Crash(w)
        PROVE  IInv'
    BY <1>5, LockCartKeeps, PriceKeeps, RedeemKeeps, RefuseKeeps
  <1>6. ASSUME NEW w \in Workers, NEW o \in Orders, Commit(w, o) PROVE IInv'
    BY <1>6, CommitKeeps
  <1>7. ASSUME NEW o \in Orders, DeleteOrder(o) PROVE IInv'
    BY <1>7, DeleteKeeps
  <1>8. ASSUME NEW k \in Promos, PromoLapses(k) PROVE IInv'
    BY <1>1, <1>8, MarketKeeps DEF PromoLapses
  <1>9. ASSUME NEW p \in Products, NEW m \in Offers, MarketMoves(p, m) PROVE IInv'
    BY <1>1, <1>9, MarketKeeps DEF MarketMoves
  <1>10. QED
    BY <1>2, <1>3, <1>4, <1>5, <1>6, <1>7, <1>8, <1>9 DEF Next

----------------------------------------------------------------------------
(* The theorems.                                                           *)

\* Everything the proofs know of a reachable state: what a checkout has read under its
\* locks still holds, its draft is fair, and the codes are counted.
THEOREM Invariance == Spec => []IInv
  BY InitInvariant, StepKeeps, PTL DEF Spec

\* The variables have their types; among others no amount of an order is negative.
THEOREM TypesAlways == Spec => []TypeOK
  <1>1. IInv => TypeOK
    BY DEF IInv
  <1>2. QED
    BY <1>1, Invariance, PTL

\* While an order is built nobody changes the rows that it is built from, and nobody else
\* builds an order from the same cart, for any number of customers and workers.
THEOREM RowsStandWhileLocked == Spec => []LockedRowsStand
  <1>1. IInv => LockedRowsStand
    BY DEF IInv, Sound, Apart, Holding, LockedRowsStand, HoldsRows
  <1>2. QED
    BY <1>1, Invariance, PTL

\* usage_count is the number of orders that took the discount of the code, and never
\* exceeds its limit, however many checkouts redeem it at once or fail, and whatever
\* orders are deleted.
THEOREM PromosCounted == Spec => []PromoAccounting
  <1>1. IInv => PromoAccounting
    BY DEF IInv
  <1>2. QED
    BY <1>1, Invariance, PTL

\* For every price, cost and percentage a code gives away markup only, and leaves
\* something to pay.
THEOREM DiscountsStayInMarkup == Spec => []DiscountWithinMarkup
  <1>1. IInv => DiscountWithinMarkup
    BY DEF IInv, Booked, Fair, DiscountWithinMarkup
  <1>2. QED
    BY <1>1, Invariance, PTL

\* Checkout implements OrderPlacement: with all its statements, locks, failures and
\* overlapping requests, the commit is one step that places an order from the rows of the
\* cart of that instant, and every other step changes a row, deletes an order or is none.
THEOREM CheckoutIsOneStep == Spec => PlacesOrdersAtOnce
  <1>1. Init => Placement!Init
    BY RowTypes DEF Init, Placement!Init, EmptyCart, Placement!EmptyCart
  <1>2. IInv /\ [Next]_vars => [Placement!Next]_(Placement!vars)
    <2> SUFFICES ASSUME IInv, [Next]_vars PROVE [Placement!Next]_(Placement!vars)
      OBVIOUS
    <2>1. ASSUME NEW u \in Users, NEW p \in Products, NEW n \in 0 .. MaxQuantity,
                 AddToCart(u, p, n) \/ SetQuantity(u, p, n)
          PROVE  Placement!Next
      <3>1. PICK m : /\ cart' = [cart EXCEPT ![u][p] = m] /\ UNCHANGED <<order, used>>
        BY <2>1 DEF AddToCart, SetQuantity, SetRow
      <3>2. cart'[u][p] = m
        BY <3>1 DEF IInv, TypeOK, Quantities
      <3>3. Placement!ChangeCart(u, p)
        BY <3>1, <3>2 DEF Placement!ChangeCart
      <3>4. QED
        BY <3>3 DEF Placement!Next
    <2>2. ASSUME NEW w \in Workers, NEW o \in Orders, Commit(w, o)
          PROVE  Placement!Next
      <3> DEFINE u == tx[w].user
                 k == tx[w].promo
                 d == tx[w].draft
      <3>1. /\ u \in Users /\ d.status = "placed" /\ d.user = u /\ d.promo = k
            /\ \E p \in Products : d.qty[p] > 0
            /\ \A p \in Products : d.qty[p] \in {0, cart[u][p]}
            /\ k \in Promos \cup {NoPromo}
            /\ k # NoPromo => /\ Owner[k] = u /\ used[k] < UsageLimit[k]
                              /\ tx[w].count = used[k] + 1
        BY <2>2, CommitFacts
      <3>2. /\ order[o].status = "absent" /\ order' = [order EXCEPT ![o] = d]
            /\ cart' = [cart EXCEPT ![u] = EmptyCart]
            /\ used' = IF k = NoPromo THEN used ELSE [used EXCEPT ![k] = tx[w].count]
        BY <2>2 DEF Commit
      <3> HIDE DEF u, k, d
      <3>3. order'[o] = d /\ \A n \in Orders \ {o} : order'[n] = order[n]
        BY <3>2 DEF IInv, TypeOK
      <3>4. \/ k = NoPromo /\ UNCHANGED used
            \/ /\ k \in Promos /\ Owner[k] = u /\ used[k] < UsageLimit[k]
               /\ used' = [used EXCEPT ![k] = used[k] + 1]
        BY <3>1, <3>2
      <3>5. Placement!Place(u, o)
        BY <3>1, <3>2, <3>3, <3>4 DEF Placement!Place, EmptyCart, Placement!EmptyCart
      <3>6. QED
        BY <3>1, <3>5 DEF Placement!Next
    <2>3. ASSUME NEW o \in Orders, DeleteOrder(o) PROVE Placement!Next
      BY <2>3 DEF DeleteOrder, Placement!Delete, Placement!Next
    <2>4. ASSUME UNCHANGED <<cart, order, used>> PROVE UNCHANGED Placement!vars
      BY <2>4 DEF Placement!vars
    <2>5. ASSUME NEW w \in Workers,
                 \/ \E u \in Users, k \in Promos \cup {NoPromo} : Submit(w, u, k)
                 \/ LockCart(w) \/ Price(w) \/ Redeem(w) \/ Refuse(w) \/ Crash(w)
          PROVE  UNCHANGED Placement!vars
      BY <2>4, <2>5 DEF Submit, LockCart, Price, Redeem, Refuse, Crash, Rollback
    <2>6. ASSUME \/ UNCHANGED vars \/ (\E k \in Promos : PromoLapses(k))
                 \/ \E p \in Products, m \in Offers : MarketMoves(p, m)
          PROVE  UNCHANGED Placement!vars
      BY <2>4, <2>6 DEF vars, PromoLapses, MarketMoves
    <2>7. QED
      BY <2>1, <2>2, <2>3, <2>5, <2>6 DEF Next
  <1>3. QED
    BY <1>1, <1>2, Invariance, PTL DEF Spec, PlacesOrdersAtOnce, Placement!Spec
=============================================================================
