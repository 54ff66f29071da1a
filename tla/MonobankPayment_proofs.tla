----------------------- MODULE MonobankPayment_proofs -----------------------
(***************************************************************************)
(* Proofs about MonobankPayment, for every set of workers and of invoices  *)
(* and every bound of the clock.                                           *)
(***************************************************************************)
EXTENDS MonobankPayment, TLAPS

Paid == {"success", "reversed"}

\* what the provider has said: the present state of an invoice, or an earlier one of
\* it; money that was collected is kept or given back
Known(p, inv, now) ==
    /\ p.invoice \in Invoices /\ inv[p.invoice].invoice = p.invoice
    /\ p.at \in 1..now /\ p.at <= inv[p.invoice].at
    /\ p.at = inv[p.invoice].at => p.status = inv[p.invoice].status
    /\ p.status = "success" => inv[p.invoice].status \in Paid

\* what a request may rely on while it waits
Holds(k, inv, now) ==
    /\ k.op \in {"ask", "cancel", "finalize", "remove", "removed"} =>
         k.seen.invoice \in Invoices /\ inv[k.seen.invoice].invoice = k.seen.invoice
    /\ k.op \in {"apply", "link"} => Known(k.payload, inv, now)
    /\ k.op = "removed" => inv[k.seen.invoice].status = "expired"

Types ==
    /\ clock \in 0..MaxTime
    /\ invoice \in [Invoices -> Payload]
    /\ webhook \subseteq Payload
    /\ payment \in Row
    /\ work \in [Workers -> Request]

ProviderInv ==
    /\ \A i \in Invoices : \/ invoice[i].invoice = NoInvoice /\ invoice[i].at = 0
                           \/ invoice[i].invoice = i /\ Known(invoice[i], invoice, clock)
    /\ \A p \in webhook : Known(p, invoice, clock)
    /\ payment.invoice \in Invoices => invoice[payment.invoice].invoice = payment.invoice
    /\ payment.modified <= clock

WorkInv == \A w \in Workers : Holds(work[w], invoice, clock)

BaseInv == Types /\ ProviderInv /\ WorkInv

\* a request and the row it will write to are of one invoice, except while the first
\* invoice is created
Serves(k, row) ==
    /\ k.op \in {"ask", "cancel", "finalize", "remove", "removed"} =>
         k.seen.invoice = row.invoice
    /\ k.op = "apply" => k.payload.invoice = row.invoice
    /\ k.op \in {"create", "link"} => row.invoice = NoInvoice

\* without a second creation the payment carries one invoice for ever
OneInvoice ==
    /\ \A w \in Workers : Serves(work[w], payment)
    /\ \A v, w \in Workers : Creating(v) /\ Creating(w) => v = w
    /\ \A w \in Workers :
         work[w].op = "link" => invoice[work[w].payload.invoice].status = "created"

Serial == \A v, w \in Workers : v = w

\* served one at a time, a request has the row itself before it, and a removal is
\* later than what the row knows
SeenIsRow == \A w \in Workers :
    /\ work[w].op # "idle" => work[w].seen = payment
    /\ work[w].op = "removed" => payment.modified < clock

IInv == /\ BaseInv
        /\ ~Recreates => OneInvoice /\ NeverStuck /\ PaidIsCollected
        /\ Serial => SeenIsRow

----------------------------------------------------------------------------
(* The provider.                                                           *)

LEMMA BlankTypes ==
    /\ NoPayload \in Payload /\ NoRow \in Row /\ Idle \in Request /\ Idle.op = "idle"
    /\ NoPayload.invoice = NoInvoice /\ NoPayload.at = 0
    /\ NoRow.invoice = NoInvoice /\ NoRow.modified = 0
  BY DEF NoPayload, NoRow, Idle, Payload, Row, Request, Ops, Statuses

\* a change of an invoice that respects what is over with it makes nothing untrue
LEMMA ChangeEffect ==
    ASSUME Types, ProviderInv, NEW i \in Invoices, NEW s \in Statuses, Change(i, s),
           Exists(i) => /\ invoice[i].status # "expired"
                        /\ invoice[i].status \in Paid => s \in Paid
    PROVE  /\ clock \in Nat /\ clock' = clock + 1 /\ clock' \in 0..MaxTime
           /\ invoice' \in [Invoices -> Payload] /\ webhook' \subseteq Payload
           /\ invoice'[i] = [invoice |-> i, status |-> s, at |-> clock']
           /\ \A j \in Invoices \ {i} : invoice'[j] = invoice[j]
           /\ Known(invoice'[i], invoice', clock')
           /\ \A q : Known(q, invoice, clock) => Known(q, invoice', clock')
           /\ \A k : Holds(k, invoice, clock) => Holds(k, invoice', clock')
           /\ \A j \in Invoices :
                \/ invoice'[j].invoice = NoInvoice /\ invoice'[j].at = 0
                \/ invoice'[j].invoice = j /\ Known(invoice'[j], invoice', clock')
           /\ \A q \in webhook' : Known(q, invoice', clock')
  <1> DEFINE new == [invoice |-> i, status |-> s, at |-> clock + 1]
  <1>1. /\ clock \in Nat /\ clock' = clock + 1 /\ clock' \in 0..MaxTime
        /\ clock < MaxTime
    BY PaymentAssumption DEF Types, Change
  <1>2. new \in Payload /\ invoice' = [invoice EXCEPT ![i] = new]
        /\ webhook' = webhook \cup {new}
    BY <1>1 DEF Change, Payload
  <1>3. /\ invoice' \in [Invoices -> Payload] /\ webhook' \subseteq Payload
        /\ invoice'[i] = new
        /\ \A j \in Invoices \ {i} : invoice'[j] = invoice[j]
    BY <1>2 DEF Types
  <1>4. new.invoice = i /\ new.status = s /\ new.at = clock + 1 /\ new.at = clock'
    BY <1>1
  <1> HIDE DEF new
  <1>5. Known(new, invoice', clock')
    BY <1>1, <1>3, <1>4 DEF Known, Paid
  <1>6. ASSUME NEW q, Known(q, invoice, clock) PROVE Known(q, invoice', clock')
    <2>1. /\ q.invoice \in Invoices /\ invoice[q.invoice].invoice = q.invoice
          /\ q.at \in 1..clock /\ q.at \in 1..clock' /\ q.at < clock'
      BY <1>1, <1>6 DEF Known
    <2>2. CASE q.invoice = i
      <3>1. Exists(i)
        BY <2>1, <2>2, PaymentAssumption DEF Exists
      <3>2. q.status = "success" => s \in Paid
        BY <1>6, <2>2, <3>1 DEF Known
      <3>3. QED
        BY <1>3, <1>4, <2>1, <2>2, <3>2 DEF Known
    <2>3. CASE q.invoice # i
      BY <1>3, <1>6, <2>1, <2>3 DEF Known
    <2>4. QED
      BY <2>2, <2>3
  <1>7. ASSUME NEW k, Holds(k, invoice, clock) PROVE Holds(k, invoice', clock')
    <2>1. \A j \in Invoices : invoice[j].invoice = j =>
             /\ invoice'[j].invoice = j
             /\ invoice[j].status = "expired" => invoice'[j].status = "expired"
      BY <1>3, <1>4, PaymentAssumption DEF Exists
    <2>2. QED
      BY <1>6, <1>7, <2>1 DEF Holds
  <1>8. \A j \in Invoices :
           \/ invoice'[j].invoice = NoInvoice /\ invoice'[j].at = 0
           \/ invoice'[j].invoice = j /\ Known(invoice'[j], invoice', clock')
    BY <1>3, <1>4, <1>5, <1>6 DEF ProviderInv
  <1>9. \A q \in webhook' : Known(q, invoice', clock')
    BY <1>2, <1>5, <1>6 DEF ProviderInv
  <1>10. invoice'[i] = [invoice |-> i, status |-> s, at |-> clock']
    BY <1>1, <1>3 DEF new
  <1>11. QED
    BY <1>1, <1>3, <1>5, <1>6, <1>7, <1>8, <1>9, <1>10

----------------------------------------------------------------------------
(* What each kind of step must respect to keep the invariant.              *)

Ahead(k) == k.op \in {"create", "link"}

\* the provider changes invoice i, for a request or on its own
LEMMA ChangeKeeps ==
    ASSUME IInv, NEW i \in Invoices, NEW s \in Statuses, Change(i, s),
           Exists(i) => /\ invoice[i].status # "expired"
                        /\ invoice[i].status \in Paid => s \in Paid,
           UNCHANGED payment, work' \in [Workers -> Request],
           \A w \in Workers : Holds(work'[w], invoice', clock'),
           ~Recreates =>
             /\ \A w \in Workers : Serves(work'[w], payment)
             /\ \A v, w \in Workers : Ahead(work'[v]) /\ Ahead(work'[w]) => v = w
             /\ \A w \in Workers : work'[w].op = "link" =>
                   invoice'[work'[w].payload.invoice].status = "created",
           Serial => \A w \in Workers : work'[w].op # "idle" => work'[w].seen = payment
    PROVE  IInv'
  <1>1. Types /\ ProviderInv
    BY DEF IInv, BaseInv
  <1>2. /\ clock \in Nat /\ clock' = clock + 1 /\ clock' \in 0..MaxTime
        /\ invoice' \in [Invoices -> Payload] /\ webhook' \subseteq Payload
        /\ invoice'[i] = [invoice |-> i, status |-> s, at |-> clock']
        /\ \A j \in Invoices \ {i} : invoice'[j] = invoice[j]
        /\ \A j \in Invoices :
             \/ invoice'[j].invoice = NoInvoice /\ invoice'[j].at = 0
             \/ invoice'[j].invoice = j /\ Known(invoice'[j], invoice', clock')
        /\ \A q \in webhook' : Known(q, invoice', clock')
    BY <1>1, ChangeEffect
  <1>3. payment \in Row /\ payment.modified \in Nat /\ payment.modified <= clock
        /\ payment.modified < clock'
    BY <1>1, <1>2 DEF Types, ProviderInv, Row
  <1>4. Types'
    BY <1>1, <1>2 DEF Types
  <1>5. ProviderInv'
    <2>1. payment.invoice \in Invoices => invoice'[payment.invoice].invoice = payment.invoice
      BY <1>1, <1>2 DEF ProviderInv
    <2>2. payment.modified <= clock'
      BY <1>2, <1>3
    <2>3. QED
      BY <1>2, <2>1, <2>2 DEF ProviderInv
  <1>6. BaseInv'
    BY <1>4, <1>5 DEF BaseInv, WorkInv
  <1>7. ASSUME ~Recreates
        PROVE  OneInvoice' /\ NeverStuck' /\ PaidIsCollected'
    <2>1. OneInvoice'
      BY <1>7 DEF OneInvoice, Creating, Ahead
    <2>2. payment.invoice \in Invoices \cup {NoInvoice} /\ NeverStuck /\ PaidIsCollected
      BY <1>3, <1>7 DEF Row, IInv
    <2>3. invoice'[i].at = clock' /\ ~(payment.modified >= clock')
      BY <1>2, <1>3
    <2>4. NeverStuck'
      BY <1>2, <2>2, <2>3 DEF NeverStuck
    <2>5. payment.invoice = i => Exists(i)
      BY <1>1, PaymentAssumption DEF ProviderInv, Exists
    <2>6. PaidIsCollected'
      BY <1>2, <2>2, <2>5 DEF PaidIsCollected, Paid
    <2>7. QED
      BY <2>1, <2>4, <2>6
  <1>8. Serial => SeenIsRow'
    BY <1>3 DEF SeenIsRow
  <1>9. QED
    BY <1>6, <1>7, <1>8 DEF IInv, Serial

\* a request goes on, or begins, and writes nothing
LEMMA MoveKeeps ==
    ASSUME IInv, NEW w \in Workers, NEW k \in Request,
           work' = [work EXCEPT ![w] = k],
           UNCHANGED <<clock, invoice, webhook, payment>>,
           Holds(k, invoice, clock),
           ~Recreates => /\ Serves(k, payment)
                         /\ Ahead(k) => \A v \in Workers \ {w} : ~Ahead(work[v])
                         /\ k.op = "link" => invoice[k.payload.invoice].status = "created",
           Serial => /\ k.op # "idle" => k.seen = payment
                     /\ k.op = "removed" => payment.modified < clock
    PROVE  IInv'
  <1>1. \A v \in Workers : work'[v] = IF v = w THEN k ELSE work[v]
    BY DEF IInv, BaseInv, Types
  <1>2. BaseInv'
    <2>1. Types'
      BY DEF IInv, BaseInv, Types
    <2>2. ProviderInv'
      BY DEF IInv, BaseInv, ProviderInv
    <2>3. WorkInv'
      BY <1>1 DEF IInv, BaseInv, WorkInv
    <2>4. QED
      BY <2>1, <2>2, <2>3 DEF BaseInv
  <1>3. ASSUME ~Recreates
        PROVE  OneInvoice' /\ NeverStuck' /\ PaidIsCollected'
    <2>1. OneInvoice'
      BY <1>1, <1>3 DEF IInv, OneInvoice, Creating, Ahead
    <2>2. QED
      BY <1>3, <2>1 DEF IInv, NeverStuck, PaidIsCollected
  <1>4. Serial => SeenIsRow'
    BY <1>1 DEF SeenIsRow, Serial
  <1>5. QED
    BY <1>2, <1>3, <1>4 DEF IInv, Serial

\* a request saves the row and ends
LEMMA SaveKeeps ==
    ASSUME IInv, NEW w \in Workers, Finish(w), UNCHANGED <<clock, invoice>>,
           webhook' \subseteq webhook, payment' \in Row, payment'.modified <= clock,
           payment'.invoice \in Invoices =>
             invoice[payment'.invoice].invoice = payment'.invoice,
           ~Recreates => /\ \A v \in Workers \ {w} : Serves(work[v], payment')
                         /\ NeverStuck' /\ PaidIsCollected'
    PROVE  IInv'
  <1>1. \A v \in Workers : work'[v] = IF v = w THEN Idle ELSE work[v]
    BY DEF IInv, BaseInv, Types, Finish
  <1>2. Types'
    BY BlankTypes DEF IInv, BaseInv, Types, Finish
  <1>3. ProviderInv'
    BY DEF IInv, BaseInv, ProviderInv
  <1>4. WorkInv'
    BY <1>1, BlankTypes DEF IInv, BaseInv, WorkInv, Holds
  <1>5. ASSUME ~Recreates PROVE OneInvoice'
    <2>1. Serves(Idle, payment')
      BY BlankTypes DEF Serves
    <2>2. QED
      BY <1>1, <1>5, <2>1, BlankTypes DEF IInv, OneInvoice, Creating
  <1>6. Serial => SeenIsRow'
    BY <1>1, BlankTypes DEF SeenIsRow, Serial
  <1>7. QED
    BY <1>2, <1>3, <1>4, <1>5, <1>6 DEF IInv, BaseInv, Serial

----------------------------------------------------------------------------
(* The operations.                                                         *)

LEMMA InitInvariant == Init => IInv
  <1> SUFFICES ASSUME Init PROVE IInv
    OBVIOUS
  <1>1. Types
    BY BlankTypes, PaymentAssumption DEF Init, Types
  <1>2. ProviderInv
    BY BlankTypes, PaymentAssumption DEF Init, ProviderInv
  <1>3. WorkInv
    BY BlankTypes DEF Init, WorkInv, Holds
  <1>4. OneInvoice
    BY BlankTypes DEF Init, OneInvoice, Serves, Creating
  <1>5. NeverStuck /\ PaidIsCollected /\ SeenIsRow
    BY BlankTypes DEF Init, NeverStuck, PaidIsCollected, SeenIsRow
  <1>6. QED
    BY <1>1, <1>2, <1>3, <1>4, <1>5 DEF IInv, BaseInv

\* what the invariant says of one worker's request
LEMMA OfRequest ==
    ASSUME IInv, NEW w \in Workers
    PROVE  /\ work[w] \in Request /\ payment \in Row /\ clock \in Nat
           /\ Holds(work[w], invoice, clock)
           /\ ~Recreates =>
                /\ Serves(work[w], payment)
                /\ Ahead(work[w]) => \A v \in Workers \ {w} : ~Ahead(work[v])
                /\ work[w].op = "link" => invoice[work[w].payload.invoice].status = "created"
           /\ Serial => /\ work[w].op # "idle" => work[w].seen = payment
                        /\ work[w].op = "removed" => payment.modified < clock
           /\ payment.modified \in Nat /\ payment.modified <= clock
  BY DEF IInv, BaseInv, Types, ProviderInv, WorkInv, OneInvoice, Creating, Ahead, SeenIsRow, Row

LEMMA InvoiceMovesKeeps ==
    ASSUME IInv, NEW i \in Invoices, NEW s \in Statuses, InvoiceMoves(i, s)
    PROVE  IInv'
  <1>1. /\ Exists(i) /\ s \in Moves[invoice[i].status] /\ Change(i, s)
        /\ \A w \in Workers : work[w].op = "link" => work[w].payload.invoice # i
        /\ UNCHANGED <<payment, work>>
    BY DEF InvoiceMoves
  <1>2. invoice[i].status \in Statuses
    BY DEF IInv, BaseInv, Types, Payload
  <1>3. invoice[i].status # "expired" /\ (invoice[i].status \in Paid => s \in Paid)
    BY <1>1, <1>2 DEF Moves, Paid, Statuses
  <1>4. /\ \A j \in Invoices \ {i} : invoice'[j] = invoice[j]
        /\ \A k : Holds(k, invoice, clock) => Holds(k, invoice', clock')
    BY <1>1, <1>3, ChangeEffect DEF IInv, BaseInv
  <1>5. work' \in [Workers -> Request] /\ \A w \in Workers : work'[w] = work[w]
    BY <1>1 DEF IInv, BaseInv, Types
  <1>6. \A w \in Workers : work[w].op = "link" =>
           work[w].payload.invoice \in Invoices \ {i}
    BY <1>1, OfRequest DEF Holds, Known
  <1>7. \A w \in Workers : Holds(work'[w], invoice', clock')
    BY <1>4, <1>5, OfRequest
  <1>8. ~Recreates =>
           /\ \A w \in Workers : Serves(work'[w], payment)
           /\ \A v, w \in Workers : Ahead(work'[v]) /\ Ahead(work'[w]) => v = w
           /\ \A w \in Workers : work'[w].op = "link" =>
                 invoice'[work'[w].payload.invoice].status = "created"
    BY <1>4, <1>5, <1>6, OfRequest
  <1>9. Serial => \A w \in Workers : work'[w].op # "idle" => work'[w].seen = payment
    BY <1>5, OfRequest
  <1>10. QED
    BY <1>1, <1>3, <1>5, <1>7, <1>8, <1>9, ChangeKeeps

LEMMA BeginWebhookKeeps ==
    ASSUME IInv, NEW w \in Workers, NEW q \in webhook, BeginWebhook(w, q)
    PROVE  IInv'
  <1> DEFINE k == [op |-> "apply", seen |-> payment, payload |-> q]
  <1>1. work' = [work EXCEPT ![w] = k] /\ payment.invoice = q.invoice
        /\ UNCHANGED <<clock, invoice, webhook, payment>>
    BY DEF BeginWebhook
  <1>2. q \in Payload /\ Known(q, invoice, clock) /\ payment \in Row
    BY DEF IInv, BaseInv, Types, ProviderInv
  <1>3. k \in Request /\ k.op = "apply" /\ k.seen = payment /\ k.payload = q
    BY <1>2 DEF Request, Ops
  <1> HIDE DEF k
  <1>4. Holds(k, invoice, clock) /\ Serves(k, payment) /\ ~Ahead(k)
    BY <1>1, <1>2, <1>3 DEF Holds, Serves, Ahead
  <1>5. QED
    BY <1>1, <1>3, <1>4, MoveKeeps

LEMMA BeginActionKeeps ==
    ASSUME IInv, NEW w \in Workers,
           NEW op \in {"ask", "cancel", "finalize", "remove", "create"}, BeginAction(w, op)
    PROVE  IInv'
  <1> DEFINE k == [Idle EXCEPT !.op = op, !.seen = payment]
  <1>1. /\ work' = [work EXCEPT ![w] = k]
        /\ UNCHANGED <<clock, invoice, webhook, payment>>
        /\ op # "create" => payment.invoice # NoInvoice
        /\ op = "create" /\ ~Recreates =>
             payment.invoice = NoInvoice /\ \A v \in Workers : ~Ahead(work[v])
    BY DEF BeginAction, Creating, Ahead
  <1>2. payment \in Row
    BY OfRequest
  <1>3. k \in Request /\ k.op = op /\ k.seen = payment
    BY <1>2, BlankTypes DEF Request, Ops
  <1> HIDE DEF k
  <1>4. op # "create" =>
           payment.invoice \in Invoices /\ invoice[payment.invoice].invoice = payment.invoice
    BY <1>1, <1>2 DEF Row, IInv, BaseInv, ProviderInv
  <1>5. Holds(k, invoice, clock) /\ (~Recreates => Serves(k, payment))
    BY <1>1, <1>3, <1>4 DEF Holds, Serves
  <1>6. ~Recreates => (Ahead(k) => \A v \in Workers \ {w} : ~Ahead(work[v]))
    BY <1>1, <1>3 DEF Ahead
  <1>7. QED
    BY <1>1, <1>3, <1>5, <1>6, MoveKeeps

\* the answer to a request is the present state of an invoice that exists
LEMMA AskKeeps ==
    ASSUME IInv, NEW w \in Workers, Ask(w)
    PROVE  IInv'
  <1> DEFINE answer == invoice[work[w].seen.invoice]
             k == [work[w] EXCEPT !.op = "apply", !.payload = answer]
  <1>1. /\ work[w] \in Request /\ work[w].op = "ask"
        /\ work[w].seen.invoice \in Invoices
        /\ answer.invoice = work[w].seen.invoice
    BY OfRequest DEF Ask, Holds
  <1>2. work' = [work EXCEPT ![w] = k] /\ UNCHANGED <<clock, invoice, webhook, payment>>
    BY <1>1 DEF Ask, IInv, BaseInv, Types
  <1>3. answer \in Payload /\ Known(answer, invoice, clock)
    BY <1>1, PaymentAssumption DEF IInv, BaseInv, Types, ProviderInv
  <1> HIDE DEF answer
  <1>4. k \in Request /\ k.op = "apply" /\ k.seen = work[w].seen /\ k.payload = answer
    BY <1>1, <1>3 DEF Request, Ops
  <1> HIDE DEF k
  <1>5. Holds(k, invoice, clock) /\ ~Ahead(k)
    BY <1>3, <1>4 DEF Holds, Ahead
  <1>6. ~Recreates => Serves(k, payment)
    BY <1>1, <1>4, OfRequest DEF Serves
  <1>7. Serial => k.seen = payment
    BY <1>1, <1>4, OfRequest
  <1>8. QED
    BY <1>2, <1>4, <1>5, <1>6, <1>7, MoveKeeps

LEMMA CallFailsKeeps ==
    ASSUME IInv, NEW w \in Workers, CallFails(w)
    PROVE  IInv'
  <1>1. Holds(Idle, invoice, clock) /\ Serves(Idle, payment) /\ ~Ahead(Idle)
    BY BlankTypes DEF Holds, Serves, Ahead
  <1>2. QED
    BY <1>1, BlankTypes, MoveKeeps DEF CallFails, Finish

\* a request makes the provider change the invoice of the row
LEMMA ActKeeps ==
    ASSUME IInv, NEW w \in Workers, work[w].op \in {"cancel", "finalize", "remove"},
           NEW op \in {"ask", "removed"}, NEW s \in Statuses,
           Change(work[w].seen.invoice, s), UNCHANGED payment,
           work' = [work EXCEPT ![w].op = op],
           op = "removed" => s = "expired",
           invoice[work[w].seen.invoice].status # "expired",
           invoice[work[w].seen.invoice].status \in Paid => s \in Paid
    PROVE  IInv'
  <1> DEFINE i == work[w].seen.invoice
             k == [work[w] EXCEPT !.op = op]
  <1>1. /\ work[w] \in Request /\ Holds(work[w], invoice, clock)
        /\ i \in Invoices /\ invoice[i].invoice = i
    BY OfRequest DEF Holds
  <1>2. /\ invoice'[i] = [invoice |-> i, status |-> s, at |-> clock']
        /\ \A j : Holds(j, invoice, clock) => Holds(j, invoice', clock')
    BY <1>1, ChangeEffect DEF IInv, BaseInv
  <1>3. work' = [work EXCEPT ![w] = k]
    BY DEF IInv, BaseInv, Types
  <1>4. k \in Request /\ k.op = op /\ k.seen = work[w].seen
    BY <1>1 DEF Request, Ops
  <1> HIDE DEF k
  <1>5. /\ work' \in [Workers -> Request]
        /\ \A v \in Workers : work'[v] = IF v = w THEN k ELSE work[v]
    BY <1>3, <1>4 DEF IInv, BaseInv, Types
  <1>6. Holds(k, invoice', clock')
    BY <1>1, <1>2, <1>4 DEF Holds
  <1>7. \A v \in Workers : Holds(work'[v], invoice', clock')
    BY <1>2, <1>5, <1>6, OfRequest
  <1>8. ASSUME ~Recreates
        PROVE  /\ \A v \in Workers : Serves(work'[v], payment) /\ ~Ahead(work'[v])
               /\ \A v \in Workers : work'[v].op # "link"
    <2>1. payment.invoice = i /\ i # NoInvoice
      BY <1>1, <1>8, OfRequest, PaymentAssumption DEF Serves
    <2>2. \A v \in Workers : Serves(work[v], payment)
      BY <1>8, OfRequest
    <2>3. \A v \in Workers : work[v].op \notin {"create", "link"}
      BY <2>1, <2>2 DEF Serves
    <2>4. Serves(k, payment) /\ k.op \notin {"create", "link"}
      BY <1>4, <2>1 DEF Serves
    <2>5. QED
      BY <1>5, <2>2, <2>3, <2>4 DEF Ahead
  <1>9. Serial => \A v \in Workers : work'[v].op # "idle" => work'[v].seen = payment
    BY <1>4, <1>5, OfRequest
  <1> HIDE DEF i
  <1>10. Change(i, s) /\ invoice[i].status # "expired"
         /\ (invoice[i].status \in Paid => s \in Paid)
    BY DEF i
  <1>11. QED
    BY <1>1, <1>5, <1>7, <1>8, <1>9, <1>10, ChangeKeeps

LEMMA ProviderActsKeeps ==
    ASSUME IInv, NEW w \in Workers, Cancel(w) \/ Finalize(w) \/ Remove(w)
    PROVE  IInv'
  <1>1. {"success", "reversed", "expired"} \subseteq Statuses
    BY DEF Statuses
  <1>2. CASE Cancel(w)
    BY <1>1, <1>2, ActKeeps DEF Cancel, ProviderActs, Paid
  <1>3. CASE Finalize(w)
    BY <1>1, <1>3, ActKeeps DEF Finalize, ProviderActs, Paid
  <1>4. CASE Remove(w)
    BY <1>1, <1>4, ActKeeps DEF Remove, Paid
  <1>5. QED
    BY <1>2, <1>3, <1>4

LEMMA CreateKeeps ==
    ASSUME IInv, NEW w \in Workers, NEW i \in Invoices, Create(w, i)
    PROVE  IInv'
  <1> DEFINE answer == invoice'[i]
             k == [work[w] EXCEPT !.op = "link", !.payload = answer]
  <1>1. /\ work[w] \in Request /\ work[w].op = "create" /\ ~Exists(i)
        /\ Change(i, "created") /\ UNCHANGED payment
        /\ work' = [work EXCEPT ![w] = k]
    BY OfRequest DEF Create, IInv, BaseInv, Types
  <1>2. "created" \in Statuses
    BY DEF Statuses
  <1>3. /\ invoice' \in [Invoices -> Payload]
        /\ invoice'[i] = [invoice |-> i, status |-> "created", at |-> clock']
        /\ Known(invoice'[i], invoice', clock')
        /\ \A j : Holds(j, invoice, clock) => Holds(j, invoice', clock')
    BY <1>1, <1>2, ChangeEffect DEF IInv, BaseInv
  <1>4. answer \in Payload /\ answer.invoice = i /\ invoice'[i].status = "created"
        /\ Known(answer, invoice', clock')
    BY <1>3
  <1> HIDE DEF answer
  <1>5. k \in Request /\ k.op = "link" /\ k.seen = work[w].seen /\ k.payload = answer
    BY <1>1, <1>4 DEF Request, Ops
  <1> HIDE DEF k
  <1>6. /\ work' \in [Workers -> Request]
        /\ \A v \in Workers : work'[v] = IF v = w THEN k ELSE work[v]
    BY <1>1, <1>5 DEF IInv, BaseInv, Types
  <1>7. Holds(k, invoice', clock')
    BY <1>4, <1>5 DEF Holds
  <1>8. \A v \in Workers : Holds(work'[v], invoice', clock')
    BY <1>3, <1>6, <1>7, OfRequest
  <1>9. ASSUME ~Recreates
        PROVE  /\ \A v \in Workers : Serves(work'[v], payment)
               /\ \A u, v \in Workers : Ahead(work'[u]) /\ Ahead(work'[v]) => u = v
               /\ \A v \in Workers : work'[v].op = "link" =>
                     invoice'[work'[v].payload.invoice].status = "created"
    <2>1. /\ \A v \in Workers : Serves(work[v], payment)
          /\ \A v \in Workers \ {w} : ~Ahead(work[v])
      BY <1>1, <1>9, OfRequest DEF Ahead
    <2>2. payment.invoice = NoInvoice
      BY <1>1, <2>1 DEF Serves
    <2>3. Serves(k, payment)
      BY <1>5, <2>2 DEF Serves
    <2>4. \A v \in Workers : Ahead(work'[v]) => v = w
      BY <1>6, <2>1
    <2>5. \A v \in Workers : work'[v].op = "link" => v = w
      BY <2>4 DEF Ahead
    <2>6. QED
      BY <1>4, <1>5, <1>6, <2>1, <2>3, <2>4, <2>5
  <1>10. Serial => \A v \in Workers : work'[v].op # "idle" => work'[v].seen = payment
    BY <1>1, <1>5, <1>6, OfRequest
  <1>11. QED
    BY <1>1, <1>2, <1>6, <1>8, <1>9, <1>10, ChangeKeeps

----------------------------------------------------------------------------
(* Saving the row.                                                         *)

\* a status that is applied is not late for the row the request read; its invoice has
\* that status, or a later date
LEMMA EndApplyKeeps ==
    ASSUME IInv, NEW w \in Workers, EndApply(w)
    PROVE  /\ IInv' /\ payment'.invoice = payment.invoice
           /\ Serial => payment' = payment \/ payment'.modified > payment.modified
  <1> DEFINE q == work[w].payload
             seen == work[w].seen
  <1>1. /\ work[w] \in Request /\ payment \in Row /\ clock \in Nat
        /\ work[w].op = "apply" /\ Known(q, invoice, clock)
        /\ payment.modified \in Nat /\ payment.modified <= clock
    BY OfRequest DEF EndApply, Holds
  <1>2. q.status \in Statuses /\ q.at \in Nat /\ q.at # 0 /\ q.at <= clock
        /\ seen.modified \in Nat
    BY <1>1 DEF Request, Payload, Row, Known
  <1>3. /\ Finish(w) /\ UNCHANGED <<clock, invoice>> /\ webhook' \subseteq webhook
        /\ Apply(seen, q)
    BY DEF EndApply
  <1>4. \/ payment' = payment
        \/ ~Late(seen, q) /\ payment' = [payment EXCEPT !.status = q.status, !.modified = q.at]
    BY <1>2, <1>3 DEF Apply
  <1>5. CASE payment' = payment
    <2>1. payment.invoice \in Invoices =>
             invoice[payment.invoice].invoice = payment.invoice
      BY DEF IInv, BaseInv, ProviderInv
    <2>2. ASSUME ~Recreates PROVE /\ \A v \in Workers : Serves(work[v], payment)
                                   /\ NeverStuck' /\ PaidIsCollected'
      BY <1>3, <1>5, <2>2, OfRequest DEF IInv, NeverStuck, PaidIsCollected
    <2>3. IInv'
      BY <1>1, <1>3, <1>5, <2>1, <2>2, SaveKeeps
    <2>4. QED
      BY <1>5, <2>3
  <1>6. CASE ~Late(seen, q) /\ payment' = [payment EXCEPT !.status = q.status, !.modified = q.at]
    <2>1. /\ payment' \in Row /\ payment'.invoice = payment.invoice
          /\ payment'.status = q.status /\ payment'.modified = q.at
      BY <1>1, <1>2, <1>6 DEF Row
    <2>2. payment'.invoice \in Invoices =>
             invoice[payment'.invoice].invoice = payment'.invoice
      BY <2>1 DEF IInv, BaseInv, ProviderInv
    <2>3. ASSUME ~Recreates
          PROVE  /\ \A v \in Workers : Serves(work[v], payment')
                 /\ NeverStuck' /\ PaidIsCollected'
      <3>1. \A v \in Workers : Serves(work[v], payment)
        BY <2>3, OfRequest
      <3>2. q.invoice = payment.invoice
        BY <1>1, <3>1 DEF Serves
      <3>3. q.at <= invoice[payment.invoice].at /\ invoice[payment.invoice].at \in Nat
            /\ (q.at = invoice[payment.invoice].at
                  => q.status = invoice[payment.invoice].status)
            /\ (q.status = "success" => invoice[payment.invoice].status \in Paid)
        BY <1>1, <3>2 DEF Known, IInv, BaseInv, Types, Payload
      <3>4. NeverStuck'
        BY <1>2, <1>3, <2>1, <3>3 DEF NeverStuck
      <3>5. PaidIsCollected'
        BY <1>3, <2>1, <3>3 DEF PaidIsCollected, Paid
      <3>6. QED
        BY <2>1, <3>1, <3>4, <3>5 DEF Serves
    <2>4. IInv'
      BY <1>2, <1>3, <2>1, <2>2, <2>3, SaveKeeps
    <2>5. Serial => payment'.modified > payment.modified
      <3>1. Serial => seen = payment
        BY <1>1, OfRequest
      <3>2. seen.modified = 0 \/ q.at > seen.modified
        BY <1>2, <1>6 DEF Late
      <3>3. QED
        BY <1>2, <2>1, <3>1, <3>2
    <2>6. QED
      BY <2>1, <2>4, <2>5
  <1>7. QED
    BY <1>4, <1>5, <1>6

LEMMA EndRemoveKeeps ==
    ASSUME IInv, NEW w \in Workers, EndRemove(w)
    PROVE  /\ IInv' /\ payment'.invoice = payment.invoice
           /\ Serial => payment'.modified > payment.modified
  <1>1. /\ work[w].op = "removed" /\ Finish(w) /\ UNCHANGED <<clock, invoice, webhook>>
        /\ payment' = [payment EXCEPT !.status = "expired", !.modified = clock]
        /\ payment \in Row /\ clock \in Nat
        /\ Holds(work[w], invoice, clock)
    BY OfRequest DEF EndRemove
  <1>2. /\ payment' \in Row /\ payment'.invoice = payment.invoice
        /\ payment'.status = "expired" /\ payment'.modified = clock
    BY <1>1 DEF Row, Statuses
  <1>3. payment'.invoice \in Invoices =>
           invoice[payment'.invoice].invoice = payment'.invoice
    BY <1>2 DEF IInv, BaseInv, ProviderInv
  <1>4. ASSUME ~Recreates
        PROVE  /\ \A v \in Workers : Serves(work[v], payment')
               /\ NeverStuck' /\ PaidIsCollected'
    <2>1. \A v \in Workers : Serves(work[v], payment)
      BY <1>4, OfRequest
    <2>2. invoice[payment.invoice].status = "expired"
      BY <1>1, <2>1 DEF Serves, Holds
    <2>3. NeverStuck' /\ PaidIsCollected'
      BY <1>1, <1>2, <2>2 DEF NeverStuck, PaidIsCollected
    <2>4. QED
      BY <1>2, <2>1, <2>3 DEF Serves
  <1>5. IInv'
    BY <1>1, <1>2, <1>3, <1>4, SaveKeeps
  <1>6. Serial => payment.modified < clock /\ payment.modified \in Nat
    BY <1>1, OfRequest
  <1>7. QED
    BY <1>1, <1>2, <1>5, <1>6

\* the first invoice of a payment is linked while nobody else is at work on it
LEMMA EndCreateKeeps ==
    ASSUME IInv, NEW w \in Workers, EndCreate(w)
    PROVE  IInv' /\ (~Recreates => payment.invoice = NoInvoice)
  <1> DEFINE i == work[w].payload.invoice
  <1>1. /\ work[w].op = "link" /\ Finish(w) /\ UNCHANGED <<clock, invoice, webhook>>
        /\ payment' = [invoice |-> i, status |-> "created", modified |-> clock]
        /\ clock \in Nat /\ Known(work[w].payload, invoice, clock)
    BY OfRequest DEF EndCreate, Holds
  <1>2. i \in Invoices /\ invoice[i].invoice = i
    BY <1>1 DEF Known
  <1> HIDE DEF i
  <1>3. /\ payment' \in Row /\ payment'.invoice = i
        /\ payment'.status = "created" /\ payment'.modified = clock
    BY <1>1, <1>2 DEF Row, Statuses
  <1>4. ASSUME ~Recreates
        PROVE  /\ \A v \in Workers \ {w} : Serves(work[v], payment')
               /\ NeverStuck' /\ PaidIsCollected' /\ payment.invoice = NoInvoice
    <2>1. /\ \A v \in Workers : /\ Serves(work[v], payment)
                                /\ Holds(work[v], invoice, clock)
          /\ \A v \in Workers \ {w} : ~Ahead(work[v])
          /\ invoice[i].status = "created"
      BY <1>1, <1>4, OfRequest DEF Ahead, i
    <2>2. payment.invoice = NoInvoice
      BY <1>1, <2>1 DEF Serves
    <2>3. \A v \in Workers \ {w} : Serves(work[v], payment')
      BY <2>1, <2>2, PaymentAssumption DEF Serves, Holds, Known, Ahead
    <2>4. NeverStuck' /\ PaidIsCollected'
      BY <1>1, <1>3, <2>1 DEF NeverStuck, PaidIsCollected
    <2>5. QED
      BY <2>2, <2>3, <2>4
  <1>5. IInv'
    BY <1>1, <1>2, <1>3, <1>4, SaveKeeps
  <1>6. QED
    BY <1>4, <1>5

LEMMA FailCreateKeeps ==
    ASSUME IInv, NEW w \in Workers, FailCreate(w)
    PROVE  IInv' /\ (~Recreates => payment.invoice = NoInvoice)
  <1>1. /\ Ahead(work[w]) /\ Finish(w) /\ UNCHANGED <<clock, invoice, webhook>>
        /\ payment' = [payment EXCEPT !.status = "failure"]
        /\ payment \in Row /\ clock \in Nat /\ payment.modified <= clock
    BY OfRequest DEF FailCreate, Creating, Ahead
  <1>2. /\ payment' \in Row /\ payment'.invoice = payment.invoice
        /\ payment'.modified = payment.modified
    BY <1>1 DEF Row, Statuses
  <1>3. payment'.invoice \in Invoices =>
           invoice[payment'.invoice].invoice = payment'.invoice
    BY <1>2 DEF IInv, BaseInv, ProviderInv
  <1>4. ASSUME ~Recreates
        PROVE  /\ \A v \in Workers : Serves(work[v], payment')
               /\ NeverStuck' /\ PaidIsCollected' /\ payment.invoice = NoInvoice
    <2>1. \A v \in Workers : Serves(work[v], payment)
      BY <1>4, OfRequest
    <2>2. payment.invoice = NoInvoice
      BY <1>1, <2>1 DEF Serves, Ahead
    <2>3. NeverStuck' /\ PaidIsCollected'
      BY <1>2, <2>2 DEF NeverStuck, PaidIsCollected
    <2>4. QED
      BY <1>2, <2>1, <2>2, <2>3 DEF Serves
  <1>5. IInv'
    BY <1>1, <1>2, <1>3, <1>4, SaveKeeps
  <1>6. QED
    BY <1>4, <1>5

----------------------------------------------------------------------------
(* Every step.                                                             *)

LEMMA StutterKeeps ==
    ASSUME IInv, UNCHANGED vars
    PROVE  IInv'
  <1>1. BaseInv'
    BY DEF vars, IInv, BaseInv, Types, ProviderInv, WorkInv
  <1>2. ~Recreates => OneInvoice' /\ NeverStuck' /\ PaidIsCollected'
    BY DEF vars, IInv, OneInvoice, Creating, NeverStuck, PaidIsCollected
  <1>3. Serial => SeenIsRow'
    BY DEF vars, IInv, SeenIsRow
  <1>4. QED
    BY <1>1, <1>2, <1>3 DEF IInv, Serial

\* a step that changes the status of a payment with an invoice brings a later date
Forward == payment.invoice # NoInvoice /\ payment'.status # payment.status =>
               payment'.modified > payment.modified

LEMMA StepKeeps ==
    ASSUME IInv, [Next]_vars
    PROVE  IInv' /\ (~Recreates /\ Serial => Forward)
  <1>1. CASE UNCHANGED vars
    BY <1>1, StutterKeeps DEF vars, Forward
  <1>2. ASSUME NEW i \in Invoices, NEW s \in Statuses, InvoiceMoves(i, s)
        PROVE  IInv' /\ Forward
    BY <1>2, InvoiceMovesKeeps DEF InvoiceMoves, Forward
  <1>3. ASSUME NEW w \in Workers, NEW q \in webhook, BeginWebhook(w, q)
        PROVE  IInv' /\ Forward
    BY <1>3, BeginWebhookKeeps DEF BeginWebhook, Forward
  <1>4. ASSUME NEW w \in Workers,
               NEW op \in {"ask", "cancel", "finalize", "remove", "create"},
               BeginAction(w, op)
        PROVE  IInv' /\ Forward
    BY <1>4, BeginActionKeeps DEF BeginAction, Forward
  <1>5. ASSUME NEW w \in Workers, Ask(w) \/ CallFails(w)
        PROVE  IInv' /\ Forward
    BY <1>5, AskKeeps, CallFailsKeeps DEF Ask, CallFails, Forward
  <1>6. ASSUME NEW w \in Workers, Cancel(w) \/ Finalize(w) \/ Remove(w)
        PROVE  IInv' /\ Forward
    BY <1>6, ProviderActsKeeps DEF Cancel, Finalize, Remove, ProviderActs, Forward
  <1>7. ASSUME NEW w \in Workers, NEW i \in Invoices, Create(w, i)
        PROVE  IInv' /\ Forward
    BY <1>7, CreateKeeps DEF Create, Forward
  <1>8. ASSUME NEW w \in Workers, EndApply(w)
        PROVE  IInv' /\ (Serial => Forward)
    BY <1>8, EndApplyKeeps DEF Forward
  <1>9. ASSUME NEW w \in Workers, EndRemove(w)
        PROVE  IInv' /\ (Serial => Forward)
    BY <1>9, EndRemoveKeeps DEF Forward
  <1>10. ASSUME NEW w \in Workers, EndCreate(w) \/ FailCreate(w)
         PROVE  IInv' /\ (~Recreates => Forward)
    BY <1>10, EndCreateKeeps, FailCreateKeeps DEF Forward
  <1>11. QED
    BY <1>1, <1>2, <1>3, <1>4, <1>5, <1>6, <1>7, <1>8, <1>9, <1>10 DEF Next

----------------------------------------------------------------------------
(* The theorems.                                                           *)

\* Everything the proofs know of a reachable state: what the provider has said, what a
\* waiting request may rely on and, without a second creation, that the payment has one
\* invoice.
THEOREM Invariance == Spec => []IInv
  <1>1. IInv /\ [Next]_vars => IInv'
    BY StepKeeps
  <1>2. QED
    BY <1>1, InitInvariant, PTL DEF Spec

\* The clock, the invoices, the notifications, the payment and the requests always
\* have their types, no date is in the future, and what is applied was said of an
\* invoice that exists, whatever the operators do.
THEOREM TypesAlways == Spec => []TypeOK
  <1>1. IInv => TypeOK
    <2> SUFFICES ASSUME IInv PROVE TypeOK
      OBVIOUS
    <2>1. Types /\ clock \in Nat
      BY OfRequest, PaymentAssumption DEF IInv, BaseInv, Types
    <2>2. \A q \in webhook : q.at <= clock
      BY <2>1 DEF IInv, BaseInv, ProviderInv, Known
    <2>3. \A i \in Invoices : invoice[i].at <= clock
      BY <2>1 DEF IInv, BaseInv, ProviderInv, Known
    <2>4. ASSUME NEW w \in Workers, work[w].op = "apply"
          PROVE  Exists(work[w].payload.invoice)
      BY <2>4, OfRequest, PaymentAssumption DEF Holds, Known, Exists
    <2>5. QED
      BY <2>1, <2>2, <2>3, <2>4 DEF Types, TypeOK
  <1>2. QED
    BY <1>1, Invariance, PTL

\* Where no invoice is created for a payment that has one, any number of requests may
\* overlap: a payment whose date would make the guard drop the provider's present
\* answer shows that answer already.
THEOREM RefreshRepairs ==
    ASSUME ~Recreates PROVE Spec => []NeverStuck
  <1>1. IInv => NeverStuck
    BY DEF IInv
  <1>2. QED
    BY <1>1, Invariance, PTL

\* Where no invoice is created for a payment that has one, a payment is shown as paid
\* only if the provider has collected the money of the invoice it carries.
THEOREM PaidMeansCollected ==
    ASSUME ~Recreates PROVE Spec => []PaidIsCollected
  <1>1. IInv => PaidIsCollected
    BY DEF IInv
  <1>2. QED
    BY <1>1, Invariance, PTL

\* Requests that are served one at a time never take a payment back to what the
\* provider said earlier: a new status comes with a later date.
THEOREM StatusesGoForward ==
    ASSUME ~Recreates, \A v, w \in Workers : v = w PROVE Spec => NeverBackwards
  <1>1. IInv /\ [Next]_vars => [Forward]_payment
    BY StepKeeps DEF Serial
  <1>2. QED
    BY <1>1, Invariance, PTL DEF Spec, NeverBackwards, Forward
=============================================================================
