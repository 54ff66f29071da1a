------------------------------ MODULE Returns ------------------------------
(***************************************************************************)
(* Return requests of one completed order: the customer API                *)
(* (apps/commerce/api/views/returns_views.py) creates them and submits the *)
(* parcel number, the backoffice API (apps/backoffice/api/views/           *)
(* returns_views.py) approves, rejects, accepts, refunds and deletes them. *)
(*                                                                         *)
(* No handler locks the rows it works on.  Each request therefore takes    *)
(* two steps: a Begin step reads the rows and validates what it read, and  *)
(* an End step, the commit, writes the fields the handler saves.  Several  *)
(* workers run requests at the same time; with one worker the same actions *)
(* are the requests served one after another.  A request the validation    *)
(* refuses changes nothing and is not a step.  The settings of the service *)
(* (enabled, recipient data), the fourteen days of the order and the hour  *)
(* for editing a parcel number only decide whether a request is refused,   *)
(* and may do so at any time: they are not part of the state.              *)
(***************************************************************************)
EXTENDS Naturals, FiniteSets, Functions

CONSTANTS
    Workers,      \* the server processes or threads that serve requests
    ReturnIds,    \* primary keys of return requests (bounds the creations)
    Items,        \* the order items of the order
    Quantity,     \* OrderItem.quantity
    Price,        \* OrderItem.unit_price, whole units
    Returnable,   \* items outside the non-returnable categories
    Legacy,       \* rows written before approved quantities were stored
    NoReturn      \* the id of a request that has no row yet

ASSUME ReturnsAssumption ==
    /\ IsFiniteSet(Workers) /\ IsFiniteSet(ReturnIds) /\ IsFiniteSet(Items)
    /\ Quantity \in [Items -> Nat \ {0}]
    /\ Price \in [Items -> Nat]
    /\ Returnable \subseteq Items
    /\ Legacy \subseteq ReturnIds
    /\ \A r, s \in Legacy : r = s
    /\ Legacy # {} => Returnable # {}      \* a request has a line
    /\ NoReturn \notin ReturnIds

VARIABLES
    ret,          \* ReturnRequest rows with their items
    event,        \* the ReturnEvent the last step inserted, if it did
    lastNumber,   \* ReturnRequestNumberSequence.last_number
    work          \* the request each worker is serving

vars == <<ret, event, lastNumber, work>>

Statuses == {"new", "approved", "rejected", "awaiting_ttn", "in_transit",
             "received", "accepted", "refunded", "cancelled"}

\* "absent": the row is not created yet; "deleted": it is gone.
RowStates == Statuses \cup {"absent", "deleted"}

RowOf(Amount) ==
    [status : RowStates,
     number : Nat,                    \* return_number
     req    : [Items -> Nat],         \* quantity_requested, 0: no such line
     appr   : [Items -> Nat],         \* quantity_approved
     refund : [Items -> Nat],         \* the line's refund_amount
     amount : Amount,                 \* refund_amount of the request
     tracked  : BOOLEAN,              \* customer_return_tracking_submitted_at
     accepted : BOOLEAN,              \* accepted_at is set
     paid     : BOOLEAN]              \* refund_status = done

Zero == [i \in Items |-> 0]

NoRow == [status |-> "absent", number |-> 0, req |-> Zero, appr |-> Zero,
          refund |-> Zero, amount |-> 0, tracked |-> FALSE,
          accepted |-> FALSE, paid |-> FALSE]

\* a ReturnEvent; a creation is logged with an empty status it comes from
Event == [id : ReturnIds \cup {NoReturn}, from : RowStates, to : RowStates]

NoEvent == [id |-> NoReturn, from |-> "absent", to |-> "absent"]

Exists(r) == ret[r].status \in Statuses

\* get_reserved_return_quantities_for_order
Reserved(i) ==
    SumFunctionOnSet([r \in ReturnIds |-> ret[r].req[i]],
                     {r \in ReturnIds : ret[r].status \in Statuses \ {"rejected", "cancelled"}})

\* Mutant: what other requests reserve is forgotten.
AvailableUnreserved(i) == Quantity[i]

\* ReturnableOrderItem.max_return_quantity
Available(i) == IF Reserved(i) >= Quantity[i] THEN 0 ELSE Quantity[i] - Reserved(i)

LineRefund(q) == [i \in Items |-> Price[i] * q[i]]

----------------------------------------------------------------------------
(* Requests in flight.                                                     *)

Ops == {"idle", "create", "tracking", "status", "comment"}

RequestOf(Amount) ==
    [op : Ops, id : ReturnIds \cup {NoReturn},
     seen : RowOf(Amount),            \* the row as the request read it
     qty  : [Items -> Nat],           \* quantities of the payload
     target : RowStates]              \* the status asked for

Idle == [op |-> "idle", id |-> NoReturn, seen |-> NoRow, qty |-> Zero, target |-> "absent"]

\* what a request keeps of a row of which it uses the status alone
Glance(r) == [NoRow EXCEPT !.status = ret[r].status]

Serve(w, request) == work[w] = Idle /\ work' = [work EXCEPT ![w] = request]

\* Mutant: the two statuses swapped.
LogSwapped(r, from, to) == event' = [id |-> r, from |-> to, to |-> from]

\* ReturnEvent.objects.create
Log(r, from, to) == event' = [id |-> r, from |-> from, to |-> to]

NoLog == event' = NoEvent

Finish(w) == work' = [work EXCEPT ![w] = Idle]

\* payloads up to one more than was ordered
Quantities == [Items -> UNION {0..Quantity[i] + 1 : i \in Items}]

----------------------------------------------------------------------------
(* Customer: create.                                                       *)

\* ReturnRequestCreateAPIView.post up to the insert: the availability of every
\* line is read here, without a lock.
BeginCreate(w, q) ==
    /\ Cardinality({v \in Workers : work[v].op = "create"})
           < Cardinality({r \in ReturnIds : ret[r].status = "absent"})   \* bound
    /\ \E i \in Items : q[i] > 0
    /\ \A i \in Items : q[i] > 0 => i \in Returnable /\ q[i] <= Available(i)
    /\ Serve(w, [Idle EXCEPT !.op = "create", !.qty = q])
    /\ NoLog
    /\ UNCHANGED <<ret, lastNumber>>

\* Mutant: numbered by the rows there are.
NumberByCount == Cardinality({r \in ReturnIds : Exists(r)}) + 1

\* generate_return_number
NextNumber == lastNumber + 1

\* generate_return_number holds the row lock of the sequence until the commit,
\* so that numbering, the inserts and the first event are one step.
EndCreate(w, r) ==
    LET q == work[w].qty IN
    /\ work[w].op = "create"
    /\ ret[r].status = "absent"
    /\ lastNumber' = NextNumber
    /\ ret' = [ret EXCEPT ![r] =
                [NoRow EXCEPT !.status = "new", !.number = NextNumber,
                              !.req = q, !.refund = LineRefund(q),
                              !.amount = SumFunction(LineRefund(q))]]
    /\ Log(r, "absent", "new")
    /\ Finish(w)

----------------------------------------------------------------------------
(* Customer: parcel number.                                                *)

\* Within the hour that the number can be edited it is submitted again.
BeginTracking(w, r) ==
    /\ \/ ret[r].status \in {"approved", "awaiting_ttn"}
       \/ ret[r].status = "in_transit" /\ ret[r].tracked
    /\ Serve(w, [Idle EXCEPT !.op = "tracking", !.id = r, !.seen = Glance(r)])
    /\ NoLog
    /\ UNCHANGED <<ret, lastNumber>>

\* Mutant: a status of the order instead of one of the return.
EndTrackingShipped(w) ==
    /\ work[w].op = "tracking"
    /\ Exists(work[w].id)
    /\ ret' = [ret EXCEPT ![work[w].id].status = "shipped"]
    /\ Log(work[w].id, work[w].seen.status, "shipped")
    /\ Finish(w)
    /\ UNCHANGED lastNumber

\* Saving a row that was deleted meanwhile fails.
EndTracking(w) ==
    LET r == work[w].id
        status == work[w].seen.status IN
    /\ work[w].op = "tracking"
    /\ IF Exists(r)
       THEN /\ ret' = [ret EXCEPT ![r].status = "in_transit", ![r].tracked = TRUE]
            /\ Log(r, status, "in_transit")
       ELSE NoLog /\ UNCHANGED ret
    /\ Finish(w)
    /\ UNCHANGED lastNumber

----------------------------------------------------------------------------
(* Backoffice: status transitions.                                         *)

ALLOWED_STATUS_TRANSITIONS ==
    [s \in RowStates |->
        CASE s = "new" -> {"approved", "rejected", "cancelled"}
          [] s = "approved" -> {"awaiting_ttn", "cancelled"}
          [] s = "awaiting_ttn" -> {"cancelled"}
          [] s = "in_transit" -> {"received", "accepted", "cancelled"}
          [] s = "received" -> {"accepted"}
          [] s = "accepted" -> {"refunded", "cancelled"}
          [] OTHER -> {}]

\* Mutants: acceptance of a parcel never announced, a refund taken back.
CanMoveUnannounced(s, t) ==
    t \in ALLOWED_STATUS_TRANSITIONS[s] \/ (s = "approved" /\ t = "accepted")

CanMoveBack(s, t) ==
    t \in ALLOWED_STATUS_TRANSITIONS[s] \/ (s = "refunded" /\ t = "cancelled")

CanMove(s, t) == t \in ALLOWED_STATUS_TRANSITIONS[s]

\* BackofficeReturnStatusUpdateAPIView.post up to the first save.
ReadForStatus(w, r, target, a) ==
    /\ Exists(r)
    /\ CanMove(ret[r].status, target)
    /\ Serve(w, [op |-> "status", id |-> r, seen |-> ret[r], qty |-> a, target |-> target])
    /\ NoLog
    /\ UNCHANGED <<ret, lastNumber>>

BeginStatus(w, r, target) ==
    target # "approved" /\ ReadForStatus(w, r, target, Zero)

\* Mutant: more may be approved than was asked for.
BeginApprovalUnbounded(w, r, a) ==
    (\E i \in Items : a[i] > 0) /\ ReadForStatus(w, r, "approved", a)

\* An approval names the quantity approved of each line; without a payload that
\* is the quantity requested.
BeginApproval(w, r, a) ==
    /\ \A i \in Items : a[i] <= ret[r].req[i]
    /\ \E i \in Items : a[i] > 0
    /\ ReadForStatus(w, r, "approved", a)

\* Mutant: the request's amount is not recomputed.
ApproveLinesOnly(row, seen, a) == [row EXCEPT !.appr = a, !.refund = LineRefund(a)]

\* A line is saved only when it differs from what the request read.
Approve(row, seen, a) ==
    LET saved == {i \in Items : seen.req[i] > 0
                      /\ (seen.appr[i] # a[i] \/ seen.refund[i] # Price[i] * a[i])}
    IN [row EXCEPT !.appr = [i \in Items |-> IF i \in saved THEN a[i] ELSE @[i]],
                   !.refund = [i \in Items |-> IF i \in saved THEN Price[i] * a[i] ELSE @[i]],
                   !.amount = SumFunction(LineRefund(a))]

\* _fill_accepted_quantities_for_legacy_returns
FillLegacy(row, seen) ==
    IF \E i \in Items : seen.appr[i] > 0
    THEN row
    ELSE [row EXCEPT !.appr = seen.req, !.refund = LineRefund(seen.req),
                     !.amount = SumFunction(LineRefund(seen.req))]

\* apply_return_status_transition
Transition(row, target) ==
    [row EXCEPT !.status = target,
                !.accepted = @ \/ target = "accepted",
                !.paid = @ \/ target = "refunded"]

EndStatus(w) ==
    LET r == work[w].id
        seen == work[w].seen
        target == work[w].target
        moved == Transition(ret[r], target) IN
    /\ work[w].op = "status"
    /\ IF Exists(r)
       THEN /\ ret' = [ret EXCEPT ![r] =
                  CASE target = "approved" -> Approve(moved, seen, work[w].qty)
                    [] target = "accepted" -> FillLegacy(moved, seen)
                    [] OTHER -> moved]
            /\ Log(r, seen.status, target)
       ELSE NoLog /\ UNCHANGED ret
    /\ Finish(w)
    /\ UNCHANGED lastNumber

----------------------------------------------------------------------------
(* Backoffice: comment without a transition, and deletion.                 *)

BeginComment(w, r) ==
    /\ Exists(r)
    /\ Serve(w, [Idle EXCEPT !.op = "comment", !.id = r, !.seen = Glance(r)])
    /\ NoLog
    /\ UNCHANGED <<ret, lastNumber>>

EndComment(w) ==
    LET r == work[w].id
        status == work[w].seen.status IN
    /\ work[w].op = "comment"
    /\ IF Exists(r) THEN Log(r, status, status) ELSE NoLog
    /\ Finish(w)
    /\ UNCHANGED <<ret, lastNumber>>

\* The deletion depends on nothing it reads: a request in any status goes.
Delete(w, r) ==
    /\ work[w] = Idle
    /\ Exists(r)
    /\ ret' = [ret EXCEPT ![r] = [NoRow EXCEPT !.status = "deleted", !.number = ret[r].number]]
    /\ NoLog
    /\ UNCHANGED <<lastNumber, work>>

----------------------------------------------------------------------------

\* A legacy row: under way, every line still with approved quantity zero.
LegacyRow(s) ==
    LET q == [i \in Items |-> IF i \in Returnable THEN 1 ELSE 0] IN
    [NoRow EXCEPT !.status = s, !.number = 1, !.req = q, !.refund = LineRefund(q),
                  !.amount = SumFunction(LineRefund(q)),
                  !.tracked = (s = "in_transit")]

Init ==
    /\ \E s \in {"approved", "in_transit"} :
           ret = [r \in ReturnIds |-> IF r \in Legacy THEN LegacyRow(s) ELSE NoRow]
    /\ event = NoEvent
    /\ lastNumber = Cardinality(Legacy)
    /\ work = [w \in Workers |-> Idle]

Next ==
    \/ \E w \in Workers :
        \/ \E q \in Quantities : BeginCreate(w, q)
        \/ \E r \in ReturnIds :
            \/ EndCreate(w, r)
            \/ BeginTracking(w, r)
            \/ \E target \in Statuses : BeginStatus(w, r, target)
            \/ \E a \in Quantities : BeginApproval(w, r, a)
            \/ BeginComment(w, r)
            \/ Delete(w, r)
        \/ EndTracking(w)
        \/ EndStatus(w)
        \/ EndComment(w)

Spec == Init /\ [][Next]_vars

----------------------------------------------------------------------------
(* Properties that hold however many requests overlap.                     *)

TypeOK ==
    /\ ret \in [ReturnIds -> RowOf(Nat)]
    /\ event \in Event
    /\ lastNumber \in Nat
    /\ work \in [Workers -> RequestOf(Nat)]

\* Two requests never carry the same return number, not even one of them
\* deleted: generate_return_number increments the sequence under its row lock.
UniqueNumbers ==
    \A r, s \in ReturnIds :
        /\ ret[r].status # "absent" => ret[r].number \in 1..lastNumber
        /\ r # s /\ ret[r].status # "absent" /\ ret[s].status # "absent"
              => ret[r].number # ret[s].number

\* Money goes back only for a parcel that was sent and taken in: whatever stale
\* row a transition was decided on, a refund that was made had an acceptance
\* before it and an acceptance had a parcel number before it.
PaidOnlyAfterParcel ==
    \A r \in ReturnIds : Exists(r) =>
        /\ ret[r].paid => ret[r].accepted
        /\ ret[r].accepted => ret[r].tracked

\* No request has more approved than it asked for, even when two approvals of
\* it overlap and each saves only the lines that differ from what it read.
ApprovedWithinRequested ==
    \A r \in ReturnIds, i \in Items :
        Exists(r) => ret[r].appr[i] <= ret[r].req[i]

----------------------------------------------------------------------------
(* Properties of requests served one after another.                        *)

\* The requests that still count never claim more of an item than was ordered
\* ("Requested quantity exceeds available return quantity.").
ReservedWithinOrdered == \A i \in Items : Reserved(i) <= Quantity[i]

\* refund_amount is the sum of the line refunds through creation, partial
\* approval and the legacy fill, and a refund that was made pays exactly the
\* approved quantities, at least one.
MoneyMatchesLines ==
    \A r \in ReturnIds : Exists(r) =>
        /\ ret[r].amount = SumFunction(ret[r].refund)
        /\ ret[r].paid =>
              /\ ret[r].refund = LineRefund(ret[r].appr)
              /\ \E i \in Items : ret[r].appr[i] > 0

\* The audit trail explains every status: an event names the status the request
\* really left and the one it is in, and no status changes without an event.
EventsExplainStatus ==
    [][LET r == event'.id IN
        /\ event' # NoEvent => /\ event'.from = ret[r].status
                               /\ event'.to = ret'[r].status
        /\ \A s \in ReturnIds \ {r} :
              ret'[s].status \in {ret[s].status, "deleted"}]_vars

\* "refunded" is the final monetary status: nothing leads out of it but the
\* deletion of the row (README.md, return statuses).
RefundedIsFinal ==
    [][\A r \in ReturnIds : ret[r].status = "refunded"
          => ret'[r].status \in {"refunded", "deleted"}]_vars
============================================================================
