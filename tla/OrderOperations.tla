-------------------------- MODULE OrderOperations --------------------------
(***************************************************************************)
(* What operators and tasks do to one order after checkout: statuses,      *)
(* reservation of its items, deletion, orders placed at the supplier GPL,  *)
(* tracking of the parcel                                                  *)
(* (apps/backoffice/services/order_operations_service.py,                  *)
(* order_supplier_service.py, apps/commerce/services/returns_service.py,   *)
(* nova_poshta/tracking_service.py).                                       *)
(*                                                                         *)
(* A request reads the order without a lock, decides, and writes columns   *)
(* computed from its copy.  The first UPDATE of a row locks it until the   *)
(* transaction ends: cancelling and deleting lock the order and then its   *)
(* items, reserving and procuring lock items and then the order, so that   *)
(* they can wait for each other; PostgreSQL then aborts one of them.       *)
(***************************************************************************)
EXTENDS FiniteSets

CONSTANTS
    Workers,         \* threads and Celery processes that serve requests
    Items,           \* items of the order
    SupplierOrders   \* ids GPL gives to orders (bounds how many are placed)

ASSUME OrderAssumption ==
    IsFiniteSet(Workers) /\ IsFiniteSet(Items) /\ Items # {}

VARIABLES
    order,        \* the Order row
    item,         \* procurement_status of its items
    event,        \* to_status of the last status_change event, or "none"
    answered,     \* GPL orders whose creation was reported to an operator
    placed,       \* GPL orders
    work,         \* the request each worker is serving
    overlapped    \* some request has committed on a copy that was out of date

vars == <<order, item, event, answered, placed, work, overlapped>>

Statuses == {"new", "processing", "ready_for_shipment", "shipped", "completed",
             "cancelled"}

Procurement == {"pending", "awaiting_procurement", "reserved",
                "partially_reserved", "unavailable", "cancelled"}

\* reason: a cancellation reason is set.  received: received_at_source.
\* notes: the GPL orders named in operator_notes.
Row == [exists : BOOLEAN, status : Statuses, reason : BOOLEAN,
        received : {"no", "tracking", "fallback"}, notes : SUBSET SupplierOrders]

NewRow == [exists |-> TRUE, status |-> "new", reason |-> FALSE,
           received |-> "no", notes |-> {}]

Ops == {"idle", "status", "cancelling", "await", "procure", "procuring",
        "reserve", "reserving", "delete", "deleting", "supply", "supplied",
        "unsupply", "track"}

\* seen: the columns of its copy that the request will still use, the others blank.
\* part: the items it writes.  id: the GPL order it was told.  fresh: nobody has
\* changed the order or its items since the request read them.
Request == [op : Ops, seen : Row, target : Statuses, part : SUBSET Items,
            id : SUBSET SupplierOrders, fresh : BOOLEAN]

Idle == [op |-> "idle", seen |-> NewRow, target |-> "new", part |-> {},
         id |-> {}, fresh |-> TRUE]

----------------------------------------------------------------------------
(* Reading, row locks, committing.                                         *)

Copy(columns) ==
    [c \in DOMAIN NewRow |-> IF c \in columns THEN order[c] ELSE NewRow[c]]

Begin(w, op, columns, target, part) ==
    /\ work[w].op = "idle"
    /\ order.exists
    /\ work' = [work EXCEPT ![w] =
                   [Idle EXCEPT !.op = op, !.seen = Copy(columns),
                                !.target = target, !.part = part]]
    /\ UNCHANGED <<order, item, event, answered, placed, overlapped>>

HoldsOrder(w) == work[w].op \in {"cancelling", "deleting"}

HeldItems(w) == IF work[w].op \in {"procuring", "reserving"} THEN work[w].part
                ELSE {}

OrderFree(w) == \A v \in Workers \ {w} : ~HoldsOrder(v)

ItemsFree(w, part) == \A v \in Workers \ {w} : HeldItems(v) \cap part = {}

Finish(w) == work' = [work EXCEPT ![w] = Idle]

\* The request ends with its writes; the copies of the others are out of date.
Commit(w) ==
    /\ work' = [v \in Workers |->
                   IF v = w \/ work[v].op = "idle" THEN Idle
                   ELSE [work[v] EXCEPT !.fresh = FALSE]]
    /\ overlapped' = (overlapped \/ ~work[w].fresh)

\* An error, a crash, or the victim of a deadlock: the transaction is rolled back.
Rollback(w) ==
    /\ work[w].op # "idle"
    /\ Finish(w)
    /\ UNCHANGED <<order, item, event, answered, placed, overlapped>>

----------------------------------------------------------------------------
(* Statuses.                                                               *)

OPERATOR_NEXT_STATUS == [s \in Statuses |->
    CASE s = "new" -> {"processing", "cancelled"}
      [] s = "processing" -> {"ready_for_shipment", "cancelled"}
      [] s = "ready_for_shipment" -> {"shipped", "cancelled"}
      [] s = "shipped" -> {"completed"}
      [] OTHER -> {}]

\* _ensure_transition_allowed; only a privileged actor may reset to new
CanMove(status, target, privileged) ==
    \/ privileged
    \/ target # "new" /\ (target = status \/ target \in OPERATOR_NEXT_STATUS[status])

BeginStatus(w, target, privileged) ==
    /\ CanMove(order.status, target, privileged)
    /\ Begin(w, "status",
             IF target = "completed" THEN {"notes", "received"} ELSE {"notes"},
             target, {})

\* Mutant: an order is not marked received when it is completed.
ReceivedNotByCompletion(seen, target) == order.received

\* ensure_order_received_from_completed_fallback
Received(seen, target) ==
    IF target = "completed" /\ seen.received = "no" THEN "fallback"
    ELSE order.received

\* Mutant: the reason of an earlier cancellation is kept.
SetStatusKeepingReason(seen, target) ==
    /\ order' = [order EXCEPT !.status = target,
                              !.reason = @ \/ target = "cancelled",
                              !.notes = seen.notes,
                              !.received = Received(seen, target)]
    /\ event' = target

\* The writes of set_status to the order, with its event.
SetStatus(seen, target) ==
    /\ order' = [order EXCEPT !.status = target,
                              !.reason = (target = "cancelled"),
                              !.notes = seen.notes,
                              !.received = Received(seen, target)]
    /\ event' = target

EndStatus(w) ==
    /\ work[w].op = "status"
    /\ work[w].target # "cancelled"
    /\ OrderFree(w)
    /\ order.exists
    /\ SetStatus(work[w].seen, work[w].target)
    /\ Commit(w)
    /\ UNCHANGED <<item, answered, placed>>

Cancelling(w) ==
    /\ work[w].op = "status"
    /\ work[w].target = "cancelled"
    /\ OrderFree(w)
    /\ order.exists
    /\ work' = [work EXCEPT ![w].op = "cancelling"]
    /\ UNCHANGED <<order, item, event, answered, placed, overlapped>>

EndCancel(w) ==
    /\ work[w].op = "cancelling"
    /\ ItemsFree(w, Items)
    /\ SetStatus(work[w].seen, "cancelled")
    /\ item' = [i \in Items |-> "cancelled"]
    /\ Commit(w)
    /\ UNCHANGED <<answered, placed>>

----------------------------------------------------------------------------
(* Procurement.                                                            *)

BeginAwait(w, privileged) ==
    /\ CanMove(order.status, "processing", privileged)
    /\ Begin(w, "await", {"notes"}, "processing", {})

ReadItems(w) ==
    /\ work[w].op = "await"
    /\ work' = [work EXCEPT ![w].op = "procure",
                            ![w].part = {i \in Items : item[i] = "pending"}]
    /\ UNCHANGED <<order, item, event, answered, placed, overlapped>>

\* An empty item_ids means all items.
BeginReserve(w, part) == Begin(w, "reserve", {"status", "notes"}, "new", part)

LockItems(w) ==
    /\ work[w].op \in {"procure", "reserve"}
    /\ order.exists
    /\ ItemsFree(w, work[w].part)
    /\ work' = [work EXCEPT ![w].op =
                   IF @ = "procure" THEN "procuring" ELSE "reserving"]
    /\ UNCHANGED <<order, item, event, answered, placed, overlapped>>

\* The items of part as written, the others as they are.
Merged(old, part, written) ==
    [i \in Items |-> IF i \in part THEN written[i] ELSE old[i]]

EndAwait(w) ==
    /\ work[w].op = "procuring"
    /\ OrderFree(w)
    /\ order.exists
    /\ item' = Merged(item, work[w].part, [i \in Items |-> "awaiting_procurement"])
    /\ SetStatus(work[w].seen, "processing")
    /\ Commit(w)
    /\ UNCHANGED <<answered, placed>>

\* Mutant: the automatic transition leaves no event.
RecalculateQuietly(seen, notes) ==
    /\ order' = [order EXCEPT !.status = IF seen.status = "new" THEN "processing" ELSE @,
                              !.notes = notes]
    /\ UNCHANGED event

\* _recalculate_order_status_from_items: a new order is in processing; the columns
\* of a cancellation are left as they are.
Recalculate(seen, notes) ==
    /\ order' = [order EXCEPT !.status = IF seen.status = "new" THEN "processing" ELSE @,
                              !.notes = notes]
    /\ event' = IF seen.status = "new" THEN "processing" ELSE event

\* Imports move stock at any time: an item may find its offer in any condition.
\* Only a request with a note saves the notes.
EndReserve(w, found, noted) ==
    /\ work[w].op = "reserving"
    /\ OrderFree(w)
    /\ order.exists
    /\ item' = Merged(item, work[w].part, found)
    /\ Recalculate(work[w].seen, IF noted THEN work[w].seen.notes ELSE order.notes)
    /\ Commit(w)
    /\ UNCHANGED <<answered, placed>>

\* Mutant: an offer that is out of stock has a state of its own.
FoundOutOfStock == [Items -> {"out_of_stock", "reserved"}]

\* What the reservation writes: by the stock of the offer, or as the operator chose.
Found == [Items -> Procurement \ {"pending", "cancelled"}]

----------------------------------------------------------------------------
(* Deletion.                                                               *)

\* Mutant: only a completed order is kept.
DeletableUnlessCompleted(status) == status # "completed"

Deletable(status) == status \notin {"shipped", "completed"}

BeginDelete(w) ==
    /\ Deletable(order.status)
    /\ Begin(w, "delete", {}, "new", {})

Deleting(w) ==
    /\ work[w].op = "delete"
    /\ OrderFree(w)
    /\ order.exists
    /\ work' = [work EXCEPT ![w].op = "deleting"]
    /\ UNCHANGED <<order, item, event, answered, placed, overlapped>>

EndDelete(w) ==
    /\ work[w].op = "deleting"
    /\ ItemsFree(w, Items)
    /\ order' = [NewRow EXCEPT !.exists = FALSE]
    /\ item' = [i \in Items |-> "pending"]
    /\ event' = "none"
    /\ Commit(w)
    /\ UNCHANGED <<answered, placed>>

----------------------------------------------------------------------------
(* Orders at the supplier, tracking of the parcel: the network is asked    *)
(* between the reading and the writing.                                    *)

BeginSupply(w) == Begin(w, "supply", {"notes"}, "new", {})

\* GPL places the order; its answer may be lost.
PlaceSupply(w, id) ==
    /\ work[w].op = "supply"
    /\ id \notin placed
    /\ placed' = placed \cup {id}
    /\ \/ Finish(w)
       \/ work' = [work EXCEPT ![w].op = "supplied", ![w].id = {id}]
    /\ UNCHANGED <<order, item, event, answered, overlapped>>

BeginUnsupply(w) ==
    /\ answered # {}
    /\ Begin(w, "unsupply", {"notes"}, "new", {})

\* Mutant: the id is noted for the answer only, not for the row.
NotedNowhere(w) == work[w].seen.notes

\* _append_order_note; the note of a cancelled GPL order names no order.
Noted(w) == work[w].seen.notes \cup work[w].id

EndSupply(w) ==
    /\ work[w].op \in {"supplied", "unsupply"}
    /\ OrderFree(w)
    /\ order.exists
    /\ order' = [order EXCEPT !.notes = Noted(w)]
    /\ answered' = answered \cup work[w].id
    /\ Commit(w)
    /\ UNCHANGED <<item, event, placed>>

BeginTrack(w) == Begin(w, "track", {"received"}, "new", {})

NewlyReceived(seen) == seen.received = "no"

\* ensure_order_received_from_tracking, the parcel being received
EndTrack(w) ==
    /\ work[w].op = "track"
    /\ NewlyReceived(work[w].seen)
    /\ OrderFree(w)
    /\ order.exists
    /\ order' = [order EXCEPT !.received = "tracking"]
    /\ Commit(w)
    /\ UNCHANGED <<item, event, answered, placed>>

----------------------------------------------------------------------------
Init ==
    /\ order = NewRow
    /\ item = [i \in Items |-> "pending"]
    /\ event = "none"
    /\ answered = {} /\ placed = {}
    /\ work = [w \in Workers |-> Idle]
    /\ overlapped = FALSE

Requests(w) ==
    \/ \E target \in Statuses, privileged \in BOOLEAN :
           BeginStatus(w, target, privileged)
    \/ \E privileged \in BOOLEAN : BeginAwait(w, privileged)
    \/ \E part \in SUBSET Items : BeginReserve(w, part)
    \/ BeginDelete(w)
    \/ BeginSupply(w)
    \/ BeginUnsupply(w)
    \/ BeginTrack(w)

Proceeds(w) ==
    \/ EndStatus(w) \/ Cancelling(w) \/ EndCancel(w)
    \/ ReadItems(w) \/ LockItems(w) \/ EndAwait(w)
    \/ \E found \in Found, noted \in BOOLEAN : EndReserve(w, found, noted)
    \/ Deleting(w) \/ EndDelete(w)
    \/ \E id \in SupplierOrders : PlaceSupply(w, id)
    \/ EndSupply(w)
    \/ EndTrack(w)

Next == \E w \in Workers : Requests(w) \/ Proceeds(w) \/ Rollback(w)

Spec == Init /\ [][Next]_vars

----------------------------------------------------------------------------
(* Properties.                                                             *)

\* The variables have their types.
TypeOK ==
    /\ order \in Row
    /\ item \in [Items -> Procurement]
    /\ event \in Statuses \cup {"none"}
    /\ answered \subseteq placed /\ placed \subseteq SupplierOrders
    /\ work \in [Workers -> Request]
    /\ overlapped \in BOOLEAN

\* A completed order has a date of receipt, without which none of it can be returned
\* (is_order_return_window_open), whatever overlaps: the request that completes it and
\* the tracking each decide on a copy whether the other has set the date.
CompletedIsReceived == order.status = "completed" => order.received # "no"

\* A cancelled order has a reason; and unless a request was overtaken, no other order
\* has one (a reservation decided before a cancellation revives the order and leaves
\* the reason).
ReasonTellsCancelled ==
    /\ order.status = "cancelled" => order.reason
    /\ order.reason /\ ~overlapped => order.status = "cancelled"

\* The last status event in the history names the status of the order, although the
\* statuses are decided on copies: the event is inserted while its writer has the row.
EventTellsStatus == order.status = (IF event = "none" THEN "new" ELSE event)

\* As long as no request is overtaken, every GPL order an operator was told of stays in
\* the notes: get_gpl_payload_preview shows with them that the goods are ordered already.
SupplierOrdersNoted == ~overlapped /\ order.exists => answered \subseteq order.notes

\* As long as no request is overtaken, a shipped or completed order is never deleted
\* and the date of receipt, once set, stays.
NothingDeliveredIsLost ==
    [][~overlapped' => /\ order.status \in {"shipped", "completed"} => order'.exists
                       /\ order.received # "no" /\ order'.exists
                              => order'.received = order.received]_vars
============================================================================
