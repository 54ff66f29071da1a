-------------------------- MODULE MonobankPayment --------------------------
(***************************************************************************)
(* The Monobank payment of one order: OrderPayment as it is changed by the *)
(* provider's webhooks, by operators who refresh, cancel, finalize, remove *)
(* or create the invoice, and by nothing else                              *)
(* (apps/commerce/services/monobank/invoice_service.py, webhook_service.py,*)
(* apps/backoffice/api/views/payment_views.py).                            *)
(*                                                                         *)
(* A request reads the payment row, may then call the provider over the    *)
(* network, and saves the fields it decided on the row it read: nothing is *)
(* locked, and what happens between two of these steps it does not see.    *)
(* The guard against late webhooks compares the provider's modifiedDate    *)
(* with the provider_modified_at the request read.  The provider is not    *)
(* part of the repository: its actions are what the requests and payloads  *)
(* of the code suppose.  Its notifications may arrive late, in any order   *)
(* and more than once.                                                     *)
(***************************************************************************)
EXTENDS Naturals

CONSTANTS
    Workers,      \* the server processes or threads that serve requests
    Invoices,     \* invoice ids of the provider (bounds the creations)
    Recreates,    \* "create invoice" is pressed although there is an invoice
    MaxTime,      \* bound of the clock
    NoInvoice

ASSUME PaymentAssumption ==
    /\ NoInvoice \notin Invoices
    /\ Recreates \in BOOLEAN
    /\ MaxTime \in Nat

VARIABLES
    clock,        \* the time; dates of the provider are times of this clock
    invoice,      \* the provider's invoices
    webhook,      \* notifications the provider still tries to deliver
    payment,      \* the OrderPayment row
    work          \* the request each worker is serving

vars == <<clock, invoice, webhook, payment, work>>

Statuses == {"pending", "created", "processing", "hold", "success",
             "failure", "reversed", "expired"}

\* What the provider says of an invoice: InvoiceStatusResponse and webhook body.
Payload == [invoice : Invoices \cup {NoInvoice}, status : Statuses, at : Nat]

NoPayload == [invoice |-> NoInvoice, status |-> "pending", at |-> 0]

\* modified is provider_modified_at, 0 when it is not set
Row == [invoice : Invoices \cup {NoInvoice}, status : Statuses, modified : Nat]

Ops == {"idle", "ask", "apply", "cancel", "finalize", "remove", "removed",
        "create", "link"}

\* seen is the payment as the request read it
Request == [op : Ops, seen : Row, payload : Payload]

NoRow == [invoice |-> NoInvoice, status |-> "pending", modified |-> 0]

Idle == [op |-> "idle", seen |-> NoRow, payload |-> NoPayload]

Finish(w) == work' = [work EXCEPT ![w] = Idle]

----------------------------------------------------------------------------
(* The provider.                                                           *)

Moves == [s \in Statuses |->
    CASE s = "created" -> {"processing", "expired"}
      [] s = "processing" -> {"success", "failure", "hold"}
      [] s = "hold" -> {"success", "reversed"}
      [] s = "success" -> {"reversed"}
      [] OTHER -> {}]

Exists(i) == invoice[i].invoice # NoInvoice

\* Every change of an invoice has a date of its own and is notified.
Change(i, status) ==
    LET p == [invoice |-> i, status |-> status, at |-> clock + 1] IN
    /\ clock < MaxTime   \* bound
    /\ clock' = clock + 1
    /\ invoice' = [invoice EXCEPT ![i] = p]
    /\ webhook' = webhook \cup {p}

\* The customer pays or does not, the bank decides.  The customer sees the page of
\* an invoice when the request that created it is over.
InvoiceMoves(i, status) ==
    /\ Exists(i)
    /\ status \in Moves[invoice[i].status]
    /\ \A w \in Workers : work[w].op = "link" => work[w].payload.invoice # i
    /\ Change(i, status)
    /\ UNCHANGED <<payment, work>>

----------------------------------------------------------------------------
(* Applying a payload.                                                     *)

\* Mutant: the dates are not compared.
LateAnyDate(seen, p) == FALSE

\* Mutant: the dates compared the wrong way.
LateReversed(seen, p) == p.at # 0 /\ seen.modified # 0 /\ p.at > seen.modified

Late(seen, p) == p.at # 0 /\ seen.modified # 0 /\ p.at <= seen.modified

\* Mutant: provider_modified_at is the time of the receipt.
ApplyReceived(seen, p) ==
    payment' = IF Late(seen, p) THEN payment
               ELSE [payment EXCEPT !.status = p.status, !.modified = clock]

\* Mutant: blocked money is taken for collected money.
ApplyOptimistic(seen, p) ==
    payment' = IF Late(seen, p) THEN payment
               ELSE [payment EXCEPT !.status = IF p.status = "hold" THEN "success"
                                               ELSE p.status,
                                    !.modified = p.at]

\* apply_invoice_status_payload; the invoice id is not among the saved fields, the
\* date is, the one read before when the payload has none.
Apply(seen, p) ==
    payment' = IF Late(seen, p) THEN payment
               ELSE [payment EXCEPT !.status = p.status,
                                    !.modified = IF p.at # 0 THEN p.at
                                                 ELSE seen.modified]

\* MonobankWebhookService.handle finds the payment of the invoice; a notification
\* of an invoice that no payment carries is refused and stays with the provider.
BeginWebhook(w, p) ==
    /\ work[w] = Idle
    /\ payment.invoice = p.invoice
    /\ work' = [work EXCEPT ![w] = [op |-> "apply", seen |-> payment, payload |-> p]]
    /\ UNCHANGED <<clock, invoice, webhook, payment>>

\* The answer may reach the provider or not; it never resends what it is not
\* still trying to deliver.
EndApply(w) ==
    LET r == work[w] IN
    /\ r.op = "apply"
    /\ Apply(r.seen, r.payload)
    /\ webhook' \in {webhook, webhook \ {r.payload}}
    /\ Finish(w)
    /\ UNCHANGED <<clock, invoice>>

----------------------------------------------------------------------------
(* Operators.                                                              *)

Creating(w) == work[w].op \in {"create", "link"}

\* Refresh, cancel, finalize and remove need a linked invoice.  A creation needs
\* nothing: that it comes first and alone is an assumption on the operators.
BeginAction(w, op) ==
    /\ work[w] = Idle
    /\ \/ op # "create" /\ payment.invoice # NoInvoice
       \/ op = "create" /\ payment.invoice = NoInvoice
          /\ \A v \in Workers : ~ Creating(v)
       \/ op = "create" /\ Recreates
    /\ work' = [work EXCEPT ![w] = [Idle EXCEPT !.op = op, !.seen = payment]]
    /\ UNCHANGED <<clock, invoice, webhook, payment>>

\* get_invoice_status
Ask(w) ==
    /\ work[w].op = "ask"
    /\ work' = [work EXCEPT ![w].op = "apply",
                            ![w].payload = invoice[work[w].seen.invoice]]
    /\ UNCHANGED <<clock, invoice, webhook, payment>>

\* cancel_invoice_payment and finalize_invoice_hold: the provider acts, then the
\* status is asked for with the row read before.
ProviderActs(w, op, from, to) ==
    LET i == work[w].seen.invoice IN
    /\ work[w].op = op
    /\ invoice[i].status \in from
    /\ Change(i, to)
    /\ work' = [work EXCEPT ![w].op = "ask"]
    /\ UNCHANGED payment

\* Part of the money given back leaves the invoice paid.
Cancel(w) ==
    \/ ProviderActs(w, "cancel", {"hold", "success"}, "reversed")
    \/ ProviderActs(w, "cancel", {"success"}, "success")

Finalize(w) == ProviderActs(w, "finalize", {"hold"}, "success")

\* remove_invoice
Remove(w) ==
    LET i == work[w].seen.invoice IN
    /\ work[w].op = "remove"
    /\ invoice[i].status = "created"
    /\ Change(i, "expired")
    /\ work' = [work EXCEPT ![w].op = "removed"]
    /\ UNCHANGED payment

\* Mutant: a status of its own, which no choice of the field knows.
EndRemoveNamed(w) ==
    /\ work[w].op = "removed"
    /\ payment' = [payment EXCEPT !.status = "removed", !.modified = clock]
    /\ Finish(w)
    /\ UNCHANGED <<clock, invoice, webhook>>

EndRemove(w) ==
    /\ work[w].op = "removed"
    /\ payment' = [payment EXCEPT !.status = "expired", !.modified = clock]
    /\ Finish(w)
    /\ UNCHANGED <<clock, invoice, webhook>>

\* create_invoice_for_order, which submit_checkout calls for a new payment
Create(w, i) ==
    /\ work[w].op = "create"
    /\ ~ Exists(i)
    /\ Change(i, "created")
    /\ work' = [work EXCEPT ![w].op = "link", ![w].payload = invoice'[i]]
    /\ UNCHANGED payment

EndCreate(w) ==
    /\ work[w].op = "link"
    /\ payment' = [invoice |-> work[w].payload.invoice, status |-> "created",
                   modified |-> clock]
    /\ Finish(w)
    /\ UNCHANGED <<clock, invoice, webhook>>

\* MonobankApiError of create_invoice, which the provider may have served all the
\* same: the row keeps its invoice and its date.
FailCreate(w) ==
    /\ Creating(w)
    /\ payment' = [payment EXCEPT !.status = "failure"]
    /\ Finish(w)
    /\ UNCHANGED <<clock, invoice, webhook>>

\* Any other failure, before or after the provider acted, changes nothing here.
CallFails(w) ==
    /\ work[w].op \notin {"idle", "apply"}
    /\ Finish(w)
    /\ UNCHANGED <<clock, invoice, webhook, payment>>

----------------------------------------------------------------------------

Init ==
    /\ clock = 0
    /\ invoice = [i \in Invoices |-> NoPayload]
    /\ webhook = {}
    /\ payment = NoRow
    /\ work = [w \in Workers |-> Idle]

Next ==
    \/ \E i \in Invoices, s \in Statuses : InvoiceMoves(i, s)
    \/ \E w \in Workers :
        \/ \E p \in webhook : BeginWebhook(w, p)
        \/ EndApply(w)
        \/ \E op \in {"ask", "cancel", "finalize", "remove", "create"} : BeginAction(w, op)
        \/ Ask(w)
        \/ Cancel(w)
        \/ Finalize(w)
        \/ Remove(w)
        \/ EndRemove(w)
        \/ \E i \in Invoices : Create(w, i)
        \/ EndCreate(w)
        \/ FailCreate(w)
        \/ CallFails(w)

Spec == Init /\ [][Next]_vars

\* A request that waits for the provider ends, the client's timeout at the latest.
Ends(w) == EndApply(w) \/ EndRemove(w) \/ EndCreate(w) \/ CallFails(w)

\* The provider's notification of the present state of the payment's invoice
DeliverLatest(w) ==
    /\ payment.invoice # NoInvoice
    /\ invoice[payment.invoice] \in webhook
    /\ BeginWebhook(w, invoice[payment.invoice])

\* The provider repeats that notification until the server has had it once.
Fairness ==
    \A w \in Workers : WF_vars(Ends(w)) /\ SF_vars(DeliverLatest(w))

FairSpec == Spec /\ Fairness

----------------------------------------------------------------------------
(* Properties.                                                             *)

\* Every variable has its type; the provider's dates are not in the future and a
\* payload about to be applied tells something of an existing invoice.
TypeOK ==
    /\ clock \in 0..MaxTime
    /\ invoice \in [Invoices -> Payload]
    /\ webhook \subseteq Payload
    /\ payment \in Row
    /\ work \in [Workers -> Request]
    /\ \A p \in webhook \cup {invoice[i] : i \in Invoices} : p.at <= clock
    /\ \A w \in Workers : work[w].op = "apply" =>
        Exists(work[w].payload.invoice)

\* A payment whose date would make the guard drop the provider's present answer
\* already shows that answer: pressing "refresh" is always enough to repair what
\* late or overlapping requests have written (apply_invoice_status_payload).
NeverStuck ==
    LET now == invoice[payment.invoice] IN
    payment.invoice # NoInvoice /\ payment.modified >= now.at =>
        payment.status = now.status

\* An order is shown as paid only when the provider has collected the money of the
\* invoice it carries, whatever payloads and answers overlap: the shop delivers on
\* it (order_payment.py status "success").
PaidIsCollected ==
    payment.invoice # NoInvoice /\ payment.status = "success" =>
        invoice[payment.invoice].status \in {"success", "reversed"}

\* Served one at a time, requests never take a payment back to what the provider
\* said earlier: a new status comes with a later date, whatever the order in which
\* the notifications arrive and however often (the date guard's reason to be).
NeverBackwards ==
    [][ payment.invoice # NoInvoice /\ payment'.status # payment.status =>
            payment'.modified > payment.modified ]_payment

\* When the provider has no more to say, the payment shows its last word, although
\* notifications came late, out of order or twice and calls failed.
EventuallyAgrees ==
    <>[](payment.invoice # NoInvoice =>
            payment.status = invoice[payment.invoice].status)
=============================================================================
