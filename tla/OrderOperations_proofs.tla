----------------------- MODULE OrderOperations_proofs -----------------------
(***************************************************************************)
(* Proofs about OrderOperations, for every set of workers, items and GPL   *)
(* orders.                                                                 *)
(***************************************************************************)
EXTENDS OrderOperations, TLAPS

\* a copy of the date of receipt, once set, stays true of the order
CopyOfReceived ==
    \A w \in Workers :
        (work[w].op = "status" /\ work[w].target = "completed" /\ order.exists)
          => work[w].seen.received = "no" \/ order.received # "no"

\* what a request that nobody has overtaken read is still so
CopyIsFresh(k) ==
    /\ k.op \in {"status", "cancelling", "await", "procure", "procuring", "reserve",
                 "reserving", "supply", "supplied", "unsupply"}
         => k.seen.notes = order.notes
    /\ k.op \in {"reserve", "reserving"} => k.seen.status = order.status
    /\ k.op = "track" \/ (k.op = "status" /\ k.target = "completed")
         => k.seen.received = order.received
    /\ k.op \in {"delete", "deleting"} => Deletable(order.status)

FreshCopies == \A w \in Workers : work[w].fresh => CopyIsFresh(work[w])

\* only GPL's answer gives a request an id
Ids == \A w \in Workers : /\ work[w].id \subseteq placed
                          /\ work[w].op \notin {"supplied", "idle"} => work[w].id = {}

Targets == \A w \in Workers : work[w].op = "cancelling" => work[w].target = "cancelled"

\* a delivered order was never deleted
Gone == order.exists \/ order.status \notin {"shipped", "completed"}

IInv ==
    /\ TypeOK /\ CopyOfReceived /\ FreshCopies /\ Ids /\ Targets /\ Gone
    /\ CompletedIsReceived /\ ReasonTellsCancelled /\ EventTellsStatus
    /\ SupplierOrdersNoted

----------------------------------------------------------------------------
(* Types.                                                                  *)

LEMMA RowTypes == NewRow \in Row /\ Idle \in Request
  BY DEF NewRow, Row, Idle, Request, Statuses, Ops

LEMMA CopyType ==
    ASSUME order \in Row, NEW columns
    PROVE  /\ Copy(columns) \in Row
           /\ "notes" \in columns => Copy(columns).notes = order.notes
           /\ "status" \in columns => Copy(columns).status = order.status
           /\ "received" \in columns => Copy(columns).received = order.received
  <1> DEFINE fields == {"exists", "status", "reason", "received", "notes"}
             copy == [c \in fields |-> IF c \in columns THEN order[c] ELSE NewRow[c]]
  <1>1. DOMAIN NewRow = fields
    BY DEF NewRow
  <1>2. Copy(columns) = copy
    BY <1>1 DEF Copy
  <1>3. /\ copy.exists \in BOOLEAN
        /\ copy.status \in Statuses
        /\ copy.reason \in BOOLEAN
        /\ copy.received \in {"no", "tracking", "fallback"}
        /\ copy.notes \in SUBSET SupplierOrders
    BY RowTypes DEF Row
  <1>4. copy = [exists |-> copy.exists, status |-> copy.status, reason |-> copy.reason,
                received |-> copy.received, notes |-> copy.notes]
    OBVIOUS
  <1>5. QED
    BY <1>2, <1>3, <1>4 DEF Row

----------------------------------------------------------------------------
(* What a request may do without committing, and what a commit must respect. *)

\* a request that writes nothing to the order only has to read it faithfully
LEMMA MoveKeeps ==
    ASSUME IInv, NEW w \in Workers, NEW k \in Request,
           work' = [work EXCEPT ![w] = k],
           UNCHANGED <<order, item, event, answered, overlapped>>,
           placed \subseteq placed', placed' \subseteq SupplierOrders,
           k.fresh => CopyIsFresh(k),
           k.op = "status" /\ k.target = "completed" /\ order.exists
             => k.seen.received = "no" \/ order.received # "no",
           k.id \subseteq placed', k.op \notin {"supplied", "idle"} => k.id = {},
           k.op = "cancelling" => k.target = "cancelled"
    PROVE  IInv'
  <1>1. \A v \in Workers : work'[v] = IF v = w THEN k ELSE work[v]
    BY DEF IInv, TypeOK
  <1>2. TypeOK'
    BY DEF IInv, TypeOK
  <1>3. CopyOfReceived'
    BY <1>1 DEF IInv, CopyOfReceived
  <1>4. FreshCopies'
    BY <1>1 DEF IInv, FreshCopies, CopyIsFresh
  <1>5. Ids' /\ Targets'
    BY <1>1 DEF IInv, Ids, Targets
  <1>6. CompletedIsReceived' /\ ReasonTellsCancelled' /\ EventTellsStatus'
        /\ SupplierOrdersNoted' /\ Gone'
    BY DEF IInv, CompletedIsReceived, ReasonTellsCancelled, EventTellsStatus,
           SupplierOrdersNoted, Gone
  <1>7. QED
    BY <1>2, <1>3, <1>4, <1>5, <1>6 DEF IInv

LEMMA StaleCopy ==
    ASSUME NEW k \in Request, NEW stale, stale = [k EXCEPT !.fresh = FALSE]
    PROVE  /\ stale \in Request
           /\ ~stale.fresh
           /\ stale.op = k.op /\ stale.target = k.target
           /\ stale.seen = k.seen /\ stale.id = k.id
  BY DEF Request

\* a commit leaves the other requests with copies that are out of date: what they
\* hold on to is that a date of receipt is never taken back
LEMMA CommitKeeps ==
    ASSUME IInv, NEW w \in Workers, Commit(w), UNCHANGED placed,
           order' \in Row, item' \in [Items -> Procurement],
           event' \in Statuses \cup {"none"}, answered' \subseteq placed,
           order'.exists => order.exists /\ (order.received # "no" => order'.received # "no"),
           CompletedIsReceived', ReasonTellsCancelled', EventTellsStatus',
           SupplierOrdersNoted', Gone'
    PROVE  IInv'
  <1>1. \A v \in Workers :
           \/ work'[v] = Idle
           \/ /\ work'[v] = [work[v] EXCEPT !.fresh = FALSE]
              /\ work[v].op # "idle"
    BY DEF Commit
  <1>2. \A v \in Workers : work[v] \in Request
    BY DEF IInv, TypeOK
  <1>3. \A v \in Workers :
           /\ work'[v] \in Request
           /\ \/ work'[v] = Idle
              \/ /\ ~work'[v].fresh
                 /\ work'[v].op = work[v].op /\ work'[v].target = work[v].target
                 /\ work'[v].seen = work[v].seen /\ work'[v].id = work[v].id
    <2> TAKE v \in Workers
    <2>1. CASE work'[v] = Idle
      BY <2>1, RowTypes
    <2>2. CASE work'[v] = [work[v] EXCEPT !.fresh = FALSE]
      BY <1>2, <2>2, StaleCopy
    <2>3. QED
      BY <1>1, <2>1, <2>2
  <1>4. Idle.op = "idle" /\ Idle.id = {}
    BY DEF Idle
  <1>5. TypeOK'
    <2>1. work' \in [Workers -> Request]
      BY <1>3 DEF Commit
    <2>2. overlapped' \in BOOLEAN
      BY DEF Commit
    <2>3. QED
      BY <2>1, <2>2 DEF IInv, TypeOK
  <1>6. CopyOfReceived'
    BY <1>3, <1>4 DEF IInv, CopyOfReceived
  <1>7. FreshCopies'
    BY <1>3, <1>4 DEF FreshCopies, CopyIsFresh
  <1>8. Ids' /\ Targets'
    BY <1>3, <1>4 DEF IInv, Ids, Targets
  <1>9. QED
    BY <1>5, <1>6, <1>7, <1>8 DEF IInv

\* what a request that begins has read is so
LEMMA BeginKeeps ==
    ASSUME IInv, NEW w \in Workers, NEW op \in Ops \ {"idle", "supplied", "cancelling"},
           NEW columns, NEW target \in Statuses, NEW part \in SUBSET Items,
           Begin(w, op, columns, target, part),
           op \in {"status", "await", "procure", "procuring", "reserve", "reserving",
                  "supply", "unsupply"} => "notes" \in columns,
           op \in {"reserve", "reserving"} => "status" \in columns,
           op = "track" \/ (op = "status" /\ target = "completed")
             => "received" \in columns,
           op \in {"delete", "deleting"} => Deletable(order.status)
    PROVE  IInv'
  <1> DEFINE k == [Idle EXCEPT !.op = op, !.seen = Copy(columns), !.target = target,
                               !.part = part]
  <1>1. work' = [work EXCEPT ![w] = k]
    BY Zenon DEF Begin
  <1>2. /\ Copy(columns) \in Row
        /\ "notes" \in columns => Copy(columns).notes = order.notes
        /\ "status" \in columns => Copy(columns).status = order.status
        /\ "received" \in columns => Copy(columns).received = order.received
    BY CopyType DEF IInv, TypeOK
  <1>3. /\ k \in Request
        /\ k.op = op /\ k.seen = Copy(columns) /\ k.target = target
        /\ k.id = {} /\ k.fresh = TRUE
    <2>1. Idle.id = {} /\ Idle.fresh = TRUE
      BY DEF Idle
    <2> DEFINE seen == Copy(columns)
    <2>2. k = [Idle EXCEPT !.op = op, !.seen = seen, !.target = target, !.part = part]
      OBVIOUS
    <2>3. op \in Ops /\ seen \in Row
      BY <1>2
    <2> HIDE DEF k, seen
    <2>4. k \in Request /\ k.op = op /\ k.seen = seen /\ k.target = target
          /\ k.id = {} /\ k.fresh = TRUE
      BY <2>1, <2>2, <2>3, RowTypes DEF Request
    <2>5. QED
      BY <2>4 DEF seen
  <1> HIDE DEF k
  <1>4. CopyIsFresh(k)
    BY <1>2, <1>3 DEF CopyIsFresh
  <1>5. k.op = "status" /\ k.target = "completed"
          => k.seen.received = "no" \/ order.received # "no"
    BY <1>2, <1>3
  <1>6. /\ k.id = {} /\ k.op # "cancelling"
        /\ UNCHANGED <<order, item, event, answered, placed, overlapped>>
    BY <1>3 DEF Begin
  <1>7. placed \subseteq SupplierOrders
    BY DEF IInv, TypeOK
  <1>8. QED
    BY <1>1, <1>3, <1>4, <1>5, <1>6, <1>7, MoveKeeps

----------------------------------------------------------------------------
(* The operations, one lemma each.                                         *)

LEMMA InitInvariant == Init => IInv
  <1> SUFFICES ASSUME Init PROVE IInv
    OBVIOUS
  <1>1. NewRow.status = "new" /\ NewRow.reason = FALSE
    BY DEF NewRow
  <1>2. \A w \in Workers : work[w].op = "idle" /\ work[w].id = {}
    BY DEF Init, Idle
  <1>3. TypeOK
    BY RowTypes DEF Init, TypeOK, Procurement
  <1>4. CopyOfReceived /\ FreshCopies /\ Ids /\ Targets
    BY <1>2 DEF CopyOfReceived, FreshCopies, CopyIsFresh, Ids, Targets
  <1>5. CompletedIsReceived /\ ReasonTellsCancelled /\ EventTellsStatus
        /\ SupplierOrdersNoted /\ Gone
    BY <1>1 DEF Init, CompletedIsReceived, ReasonTellsCancelled, EventTellsStatus,
                SupplierOrdersNoted, Gone
  <1>6. QED
    BY <1>3, <1>4, <1>5 DEF IInv

LEMMA RequestsKeep ==
    ASSUME IInv, NEW w \in Workers, Requests(w)
    PROVE  IInv'
  <1> Ops \ {"idle", "supplied", "cancelling"}
        = {"status", "await", "procure", "procuring", "reserve", "reserving",
           "delete", "deleting", "supply", "unsupply", "track"}
    BY DEF Ops
  <1> "new" \in Statuses /\ "processing" \in Statuses
    BY DEF Statuses
  <1>1. ASSUME NEW target \in Statuses, NEW privileged \in BOOLEAN,
               BeginStatus(w, target, privileged)
        PROVE  IInv'
    <2> DEFINE columns == IF target = "completed" THEN {"notes", "received"}
                          ELSE {"notes"}
    <2>1. Begin(w, "status", columns, target, {})
      BY <1>1 DEF BeginStatus
    <2>2. "notes" \in columns /\ (target = "completed" => "received" \in columns)
      OBVIOUS
    <2> HIDE DEF columns
    <2>3. QED
      BY <2>1, <2>2, BeginKeeps
  <1>2. ASSUME NEW privileged \in BOOLEAN, BeginAwait(w, privileged)
        PROVE  IInv'
    BY <1>2, BeginKeeps DEF BeginAwait
  <1>3. ASSUME NEW part \in SUBSET Items, BeginReserve(w, part)
        PROVE  IInv'
    BY <1>3, BeginKeeps DEF BeginReserve
  <1>4. ASSUME BeginDelete(w)
        PROVE  IInv'
    <2>1. Begin(w, "delete", {}, "new", {}) /\ Deletable(order.status)
      BY <1>4 DEF BeginDelete
    <2>2. "delete" \in Ops \ {"idle", "supplied", "cancelling"} /\ {} \in SUBSET Items
      OBVIOUS
    <2>3. QED
      BY <2>1, <2>2, BeginKeeps
  <1>5. ASSUME BeginSupply(w) \/ BeginUnsupply(w)
        PROVE  IInv'
    <2>1. Begin(w, "supply", {"notes"}, "new", {}) \/ Begin(w, "unsupply", {"notes"}, "new", {})
      BY <1>5 DEF BeginSupply, BeginUnsupply
    <2>2. CASE Begin(w, "supply", {"notes"}, "new", {})
      BY <2>2, BeginKeeps
    <2>3. CASE Begin(w, "unsupply", {"notes"}, "new", {})
      BY <2>3, BeginKeeps
    <2>4. QED
      BY <2>1, <2>2, <2>3
  <1>6. ASSUME BeginTrack(w)
        PROVE  IInv'
    BY <1>6, BeginKeeps DEF BeginTrack
  <1>7. QED
    BY <1>1, <1>2, <1>3, <1>4, <1>5, <1>6 DEF Requests

LEMMA EndsIdle ==
    ASSUME IInv, NEW w \in Workers, work' = [work EXCEPT ![w] = Idle],
           UNCHANGED <<order, item, event, answered, overlapped>>,
           placed \subseteq placed', placed' \subseteq SupplierOrders
    PROVE  IInv'
  <1>1. Idle.op = "idle" /\ Idle.id = {}
    BY DEF Idle
  <1>2. CopyIsFresh(Idle)
    BY <1>1 DEF CopyIsFresh
  <1>3. QED
    BY <1>1, <1>2, RowTypes, MoveKeeps

\* a step of a request that goes on with what it has read
LEMMA GoesOn ==
    ASSUME IInv, NEW w \in Workers, NEW op \in Ops, NEW part \in SUBSET Items,
           NEW id \in SUBSET SupplierOrders,
           work' = [work EXCEPT ![w] = [@ EXCEPT !.op = op, !.part = part, !.id = id]],
           UNCHANGED <<order, item, event, answered, overlapped>>,
           placed \subseteq placed', placed' \subseteq SupplierOrders,
           id \subseteq placed', op # "supplied" => id = {},
           \/ work[w].op = "status" /\ work[w].target = "cancelled" /\ op = "cancelling"
           \/ work[w].op = "await" /\ op = "procure"
           \/ work[w].op = "procure" /\ op = "procuring"
           \/ work[w].op = "reserve" /\ op = "reserving"
           \/ work[w].op = "delete" /\ op = "deleting"
           \/ work[w].op = "supply" /\ op = "supplied"
    PROVE  IInv'
  <1> DEFINE k == [work[w] EXCEPT !.op = op, !.part = part, !.id = id]
  <1>1. work' = [work EXCEPT ![w] = k]
    OBVIOUS
  <1>2. work[w] \in Request
    BY DEF IInv, TypeOK
  <1>3. /\ k \in Request
        /\ k.op = op /\ k.id = id /\ k.seen = work[w].seen
        /\ k.target = work[w].target /\ k.fresh = work[w].fresh
    BY <1>2 DEF Request
  <1> HIDE DEF k
  <1>4. k.fresh => CopyIsFresh(k)
    <2>1. work[w].fresh => CopyIsFresh(work[w])
      BY DEF IInv, FreshCopies
    <2>2. QED
      BY <1>3, <2>1 DEF CopyIsFresh
  <1>5. k.op # "status" /\ (k.op = "cancelling" => k.target = "cancelled")
    BY <1>3
  <1>6. k.id \subseteq placed' /\ (k.op \notin {"supplied", "idle"} => k.id = {})
    BY <1>3
  <1>7. QED
    BY <1>1, <1>3, <1>4, <1>5, <1>6, MoveKeeps

\* GoesOn as the actions write it: the op, and what else they set
LEMMA MovesKeep ==
    ASSUME IInv, NEW w \in Workers,
           \/ Cancelling(w) \/ ReadItems(w) \/ LockItems(w) \/ Deleting(w)
           \/ (\E id \in SupplierOrders : PlaceSupply(w, id))
           \/ Rollback(w)
    PROVE  IInv'
  <1> DEFINE becomes(op, part, id) ==
                 work' = [work EXCEPT ![w] = [@ EXCEPT !.op = op, !.part = part, !.id = id]]
  <1>1. /\ work[w] \in Request
        /\ work[w] = [op |-> work[w].op, seen |-> work[w].seen,
                      target |-> work[w].target, part |-> work[w].part,
                      id |-> work[w].id, fresh |-> work[w].fresh]
        /\ work[w].part \in SUBSET Items
        /\ work[w].op \notin {"supplied", "idle"} => work[w].id = {}
        /\ placed \subseteq SupplierOrders
    BY DEF IInv, TypeOK, Ids, Request
  <1>2. {"cancelling", "procure", "procuring", "reserving", "deleting", "supplied"}
          \subseteq Ops
    BY DEF Ops
  <1>3. CASE Cancelling(w) \/ Deleting(w) \/ LockItems(w)
    <2>1. PICK op \in Ops :
             /\ work' = [work EXCEPT ![w].op = op]
             /\ \/ work[w].op = "status" /\ work[w].target = "cancelled" /\ op = "cancelling"
                \/ work[w].op = "procure" /\ op = "procuring"
                \/ work[w].op = "reserve" /\ op = "reserving"
                \/ work[w].op = "delete" /\ op = "deleting"
      BY <1>2, <1>3 DEF Cancelling, Deleting, LockItems
    <2>2. work[w].id = {}
      BY <1>1, <2>1
    <2>3. becomes(op, work[w].part, {})
      BY <1>1, <2>1, <2>2
    <2>4. UNCHANGED <<order, item, event, answered, placed, overlapped>>
      BY <1>3 DEF Cancelling, Deleting, LockItems
    <2>5. /\ {} \in SUBSET SupplierOrders /\ {} \subseteq placed'
          /\ placed \subseteq placed' /\ placed' \subseteq SupplierOrders
          /\ work[w].part \in SUBSET Items
      BY <1>1, <2>4
    <2>6. CASE work[w].op = "status" /\ work[w].target = "cancelled" /\ op = "cancelling"
      BY <2>3, <2>4, <2>5, <2>6, GoesOn
    <2>7. CASE work[w].op = "procure" /\ op = "procuring"
      BY <2>3, <2>4, <2>5, <2>7, GoesOn
    <2>8. CASE work[w].op = "reserve" /\ op = "reserving"
      BY <2>3, <2>4, <2>5, <2>8, GoesOn
    <2>9. CASE work[w].op = "delete" /\ op = "deleting"
      BY <2>3, <2>4, <2>5, <2>9, GoesOn
    <2>10. QED
      BY <2>1, <2>6, <2>7, <2>8, <2>9
  <1>4. CASE ReadItems(w)
    <2> DEFINE pending == {i \in Items : item[i] = "pending"}
    <2>1. work[w].op = "await" /\ work[w].id = {}
      BY <1>1, <1>4 DEF ReadItems
    <2>2. becomes("procure", pending, {})
      BY <1>1, <1>4, <2>1 DEF ReadItems
    <2>3. UNCHANGED <<order, item, event, answered, placed, overlapped>>
      BY <1>4 DEF ReadItems
    <2> HIDE DEF pending
    <2>4. pending \in SUBSET Items
      BY DEF pending
    <2>5. QED
      BY <1>1, <1>2, <2>1, <2>2, <2>3, <2>4, GoesOn
  <1>5. ASSUME NEW id \in SupplierOrders, PlaceSupply(w, id)
        PROVE  IInv'
    <2>1. work[w].op = "supply" /\ placed' = placed \cup {id}
          /\ UNCHANGED <<order, item, event, answered, overlapped>>
      BY <1>5 DEF PlaceSupply
    <2>2. CASE Finish(w)
      BY <1>1, <2>1, <2>2, EndsIdle DEF Finish
    <2>3. CASE work' = [work EXCEPT ![w].op = "supplied", ![w].id = {id}]
      <3>1. becomes("supplied", work[w].part, {id})
        BY <1>1, <2>3
      <3>2. {id} \in SUBSET SupplierOrders /\ {id} \subseteq placed'
            /\ placed \subseteq placed' /\ placed' \subseteq SupplierOrders
        BY <1>1, <2>1
      <3>3. QED
        BY <1>1, <1>2, <2>1, <3>1, <3>2, GoesOn
    <2>4. QED
      BY <1>5, <2>2, <2>3 DEF PlaceSupply
  <1>6. CASE Rollback(w)
    BY <1>1, <1>6, EndsIdle DEF Rollback, Finish
  <1>7. QED
    BY <1>3, <1>4, <1>5, <1>6

----------------------------------------------------------------------------
(* Requests that commit.                                                   *)

\* what a commit that writes to an existing order may rely on
LEMMA AtCommit ==
    ASSUME IInv, NEW w \in Workers, Commit(w)
    PROVE  /\ work[w] \in Request
           /\ ~overlapped' => ~overlapped /\ CopyIsFresh(work[w])
           /\ work[w].id \subseteq placed
           /\ work[w].op \notin {"supplied", "idle"} => work[w].id = {}
           /\ placed \subseteq SupplierOrders /\ answered \subseteq placed
           /\ order \in Row
  BY DEF IInv, TypeOK, Commit, FreshCopies, Ids

LEMMA SetStatusWrites ==
    ASSUME IInv, NEW seen \in Row, NEW target \in Statuses, SetStatus(seen, target)
    PROVE  /\ order' \in Row
           /\ order'.exists = order.exists /\ order'.status = target
           /\ order'.reason = (target = "cancelled")
           /\ order'.notes = seen.notes
           /\ order'.received = Received(seen, target)
           /\ order.received # "no" => order'.received # "no"
           /\ event' = target /\ event' \in Statuses \cup {"none"}
  <1>1. Received(seen, target) \in {"no", "tracking", "fallback"}
        /\ (order.received # "no" => Received(seen, target) # "no")
    BY DEF IInv, TypeOK, Received, Row
  <1>2. order' = [order EXCEPT !.status = target, !.reason = (target = "cancelled"),
                               !.notes = seen.notes, !.received = Received(seen, target)]
        /\ event' = target
    BY DEF SetStatus
  <1>3. seen.notes \in SUBSET SupplierOrders /\ (target = "cancelled") \in BOOLEAN
    BY DEF Row
  <1>4. QED
    BY <1>1, <1>2, <1>3 DEF IInv, TypeOK, Row

\* a status set from a copy: the receipt of a completed order is the copy's to tell
LEMMA SetStatusKeeps ==
    ASSUME IInv, NEW w \in Workers, NEW target \in Statuses,
           SetStatus(work[w].seen, target), Commit(w), UNCHANGED <<answered, placed>>,
           item' \in [Items -> Procurement],
           work[w].op \in {"status", "cancelling", "procuring"},
           order.exists \/ target = "cancelled",
           target = "completed" => work[w].op = "status" /\ work[w].target = "completed"
    PROVE  IInv'
  <1>1. /\ work[w] \in Request /\ answered \subseteq placed
        /\ ~overlapped' => ~overlapped /\ CopyIsFresh(work[w])
    BY AtCommit
  <1>2. work[w].seen \in Row
    BY <1>1 DEF Request
  <1> DEFINE seen == work[w].seen
  <1>3. /\ order' \in Row
        /\ order'.exists = order.exists /\ order'.status = target
        /\ order'.reason = (target = "cancelled")
        /\ order'.notes = seen.notes
        /\ order'.received = Received(seen, target)
        /\ order.received # "no" => order'.received # "no"
        /\ event' = target /\ event' \in Statuses \cup {"none"}
    BY <1>2, SetStatusWrites
  <1>4. CompletedIsReceived'
    <2> SUFFICES ASSUME target = "completed" PROVE order'.received # "no"
      BY <1>3 DEF CompletedIsReceived
    <2>1. seen.received = "no" \/ order.received # "no"
      BY DEF IInv, CopyOfReceived
    <2>2. QED
      BY <1>3, <2>1 DEF Received
  <1>5. ReasonTellsCancelled' /\ Gone'
    BY <1>3 DEF ReasonTellsCancelled, Gone
  <1>6. EventTellsStatus'
    <2>1. target # "none"
      BY DEF Statuses
    <2>2. QED
      BY <1>3, <2>1 DEF EventTellsStatus
  <1>7. SupplierOrdersNoted'
    <2> SUFFICES ASSUME ~overlapped', order'.exists PROVE answered' \subseteq order'.notes
      BY DEF SupplierOrdersNoted
    <2>1. seen.notes = order.notes
      BY <1>1 DEF CopyIsFresh
    <2>2. answered \subseteq order.notes
      BY <1>1, <1>3 DEF IInv, SupplierOrdersNoted
    <2>3. QED
      BY <1>3, <2>1, <2>2
  <1>8. order'.exists => order.exists /\ (order.received # "no" => order'.received # "no")
    BY <1>3
  <1> HIDE DEF seen
  <1>9. QED
    BY <1>1, <1>3, <1>4, <1>5, <1>6, <1>7, <1>8, CommitKeeps

LEMMA MergedType ==
    ASSUME item \in [Items -> Procurement], NEW part, NEW written \in [Items -> Procurement]
    PROVE  Merged(item, part, written) \in [Items -> Procurement]
  BY DEF Merged

LEMMA EndStatusKeeps ==
    ASSUME IInv, NEW w \in Workers, EndStatus(w)
    PROVE  IInv'
  <1>1. work[w].target \in Statuses /\ item \in [Items -> Procurement]
    BY DEF IInv, TypeOK, Request
  <1>2. /\ work[w].op = "status" /\ order.exists
        /\ SetStatus(work[w].seen, work[w].target) /\ Commit(w)
        /\ UNCHANGED <<item, answered, placed>>
    BY DEF EndStatus
  <1>3. QED
    BY <1>1, <1>2, SetStatusKeeps

LEMMA EndCancelKeeps ==
    ASSUME IInv, NEW w \in Workers, EndCancel(w)
    PROVE  IInv'
  <1>1. "cancelled" \in Statuses /\ [i \in Items |-> "cancelled"] \in [Items -> Procurement]
    BY DEF Statuses, Procurement
  <1>2. /\ work[w].op = "cancelling"
        /\ SetStatus(work[w].seen, "cancelled") /\ Commit(w)
        /\ item' = [i \in Items |-> "cancelled"] /\ UNCHANGED <<answered, placed>>
    BY DEF EndCancel
  <1>3. QED
    BY <1>1, <1>2, SetStatusKeeps

LEMMA EndAwaitKeeps ==
    ASSUME IInv, NEW w \in Workers, EndAwait(w)
    PROVE  IInv'
  <1> DEFINE awaiting == [i \in Items |-> "awaiting_procurement"]
  <1>1. "processing" \in Statuses /\ awaiting \in [Items -> Procurement]
    BY DEF Statuses, Procurement
  <1>2. /\ work[w].op = "procuring" /\ order.exists
        /\ SetStatus(work[w].seen, "processing") /\ Commit(w)
        /\ item' = Merged(item, work[w].part, awaiting) /\ UNCHANGED <<answered, placed>>
    BY DEF EndAwait
  <1> HIDE DEF awaiting
  <1>3. item' \in [Items -> Procurement]
    BY <1>1, <1>2, MergedType DEF IInv, TypeOK
  <1>4. QED
    BY <1>1, <1>2, <1>3, SetStatusKeeps

\* a reservation moves a new order on, by its copy; the columns of a cancellation stay
LEMMA EndReserveKeeps ==
    ASSUME IInv, NEW w \in Workers, NEW found \in Found, NEW noted \in BOOLEAN,
           EndReserve(w, found, noted)
    PROVE  IInv'
  <1> DEFINE seen == work[w].seen
             notes == IF noted THEN seen.notes ELSE order.notes
             status == IF seen.status = "new" THEN "processing" ELSE order.status
  <1>1. /\ work[w].op = "reserving" /\ order.exists /\ Commit(w)
        /\ item' = Merged(item, work[w].part, found) /\ UNCHANGED <<answered, placed>>
        /\ order' = [order EXCEPT !.status = status, !.notes = notes]
        /\ event' = IF seen.status = "new" THEN "processing" ELSE event
    BY DEF EndReserve, Recalculate
  <1>2. /\ work[w] \in Request /\ answered \subseteq placed /\ order \in Row
        /\ ~overlapped' => ~overlapped /\ CopyIsFresh(work[w])
    BY <1>1, AtCommit
  <1>3. notes \in SUBSET SupplierOrders /\ status \in Statuses
    BY <1>2 DEF Request, Row, Statuses
  <1>4. ~overlapped' => notes = order.notes /\ seen.status = order.status
    BY <1>1, <1>2 DEF CopyIsFresh
  <1> HIDE DEF notes
  <1>5. /\ order' \in Row /\ order'.exists = order.exists /\ order'.status = status
        /\ order'.notes = notes /\ order'.received = order.received
        /\ order'.reason = order.reason
    <2> HIDE DEF status
    <2>1. QED
      BY <1>1, <1>2, <1>3 DEF Row
  <1>6. item' \in [Items -> Procurement]
    BY <1>1, MergedType DEF IInv, TypeOK, Found
  <1>7. event' \in Statuses \cup {"none"}
    BY <1>1 DEF IInv, TypeOK, Statuses
  <1>8. CompletedIsReceived'
    BY <1>5 DEF IInv, CompletedIsReceived
  <1>9. ReasonTellsCancelled'
    BY <1>4, <1>5, <1>2 DEF IInv, ReasonTellsCancelled
  <1>10. EventTellsStatus' /\ Gone'
    BY <1>1, <1>5 DEF IInv, EventTellsStatus, Gone
  <1>11. SupplierOrdersNoted'
    BY <1>1, <1>2, <1>4, <1>5 DEF IInv, SupplierOrdersNoted
  <1>12. answered' \subseteq placed
         /\ (order'.exists
               => order.exists /\ (order.received # "no" => order'.received # "no"))
    BY <1>1, <1>2, <1>5
  <1> HIDE DEF status, seen
  <1>13. QED
    BY <1>1, <1>5, <1>6, <1>7, <1>8, <1>9, <1>10, <1>11, <1>12, CommitKeeps

LEMMA EndDeleteKeeps ==
    ASSUME IInv, NEW w \in Workers, EndDelete(w)
    PROVE  IInv'
  <1>1. /\ order' \in Row /\ order'.exists = FALSE /\ order'.status = "new"
        /\ order'.reason = FALSE
    <2>1. NewRow.status = "new" /\ NewRow.reason = FALSE
      BY DEF NewRow
    <2>2. QED
      BY <2>1, RowTypes DEF EndDelete, Row
  <1>2. /\ Commit(w) /\ UNCHANGED <<answered, placed>> /\ event' = "none"
        /\ item' \in [Items -> Procurement]
    BY DEF EndDelete, Procurement
  <1>3. answered' \subseteq placed
    BY <1>2, AtCommit
  <1>4. CompletedIsReceived' /\ ReasonTellsCancelled' /\ EventTellsStatus'
        /\ SupplierOrdersNoted' /\ Gone'
    BY <1>1, <1>2 DEF CompletedIsReceived, ReasonTellsCancelled, EventTellsStatus,
                      SupplierOrdersNoted, Gone
  <1>5. QED
    BY <1>1, <1>2, <1>3, <1>4, CommitKeeps

LEMMA EndSupplyKeeps ==
    ASSUME IInv, NEW w \in Workers, EndSupply(w)
    PROVE  IInv'
  <1> DEFINE notes == work[w].seen.notes \cup work[w].id
  <1>1. /\ work[w].op \in {"supplied", "unsupply"} /\ order.exists /\ Commit(w)
        /\ order' = [order EXCEPT !.notes = notes]
        /\ answered' = answered \cup work[w].id /\ UNCHANGED <<item, event, placed>>
    BY DEF EndSupply, Noted
  <1>2. /\ work[w] \in Request /\ work[w].id \subseteq placed /\ order \in Row
        /\ placed \subseteq SupplierOrders /\ answered \subseteq placed
        /\ ~overlapped' => ~overlapped /\ CopyIsFresh(work[w])
    BY <1>1, AtCommit
  <1>3. notes \in SUBSET SupplierOrders
    BY <1>2 DEF Request, Row
  <1>4. ~overlapped' => notes = order.notes \cup work[w].id
    BY <1>1, <1>2 DEF CopyIsFresh
  <1> HIDE DEF notes
  <1>5. /\ order' \in Row /\ order'.exists = order.exists
        /\ order'.status = order.status /\ order'.reason = order.reason
        /\ order'.received = order.received /\ order'.notes = notes
    BY <1>1, <1>2, <1>3 DEF Row
  <1>6. answered' \subseteq placed
    BY <1>1, <1>2
  <1>7. CompletedIsReceived' /\ EventTellsStatus' /\ Gone'
    BY <1>1, <1>5 DEF IInv, CompletedIsReceived, EventTellsStatus, Gone
  <1>8. ReasonTellsCancelled'
    BY <1>2, <1>5 DEF IInv, ReasonTellsCancelled
  <1>9. SupplierOrdersNoted'
    BY <1>1, <1>2, <1>4, <1>5 DEF IInv, SupplierOrdersNoted
  <1>10. item' \in [Items -> Procurement] /\ event' \in Statuses \cup {"none"}
    BY <1>1 DEF IInv, TypeOK
  <1>11. QED
    BY <1>1, <1>5, <1>6, <1>7, <1>8, <1>9, <1>10, CommitKeeps

LEMMA EndTrackKeeps ==
    ASSUME IInv, NEW w \in Workers, EndTrack(w)
    PROVE  IInv'
  <1>1. /\ order.exists /\ Commit(w) /\ order' = [order EXCEPT !.received = "tracking"]
        /\ UNCHANGED <<item, event, answered, placed>>
    BY DEF EndTrack
  <1>2. /\ order \in Row /\ answered \subseteq placed
        /\ ~overlapped' => ~overlapped
    BY <1>1, AtCommit
  <1>3. /\ order' \in Row /\ order'.exists = order.exists
        /\ order'.status = order.status /\ order'.reason = order.reason
        /\ order'.received = "tracking" /\ order'.notes = order.notes
    BY <1>1, <1>2 DEF Row
  <1>4. CompletedIsReceived' /\ EventTellsStatus' /\ Gone'
    BY <1>1, <1>3 DEF IInv, CompletedIsReceived, EventTellsStatus, Gone
  <1>5. ReasonTellsCancelled' /\ SupplierOrdersNoted'
    BY <1>1, <1>2, <1>3 DEF IInv, ReasonTellsCancelled, SupplierOrdersNoted
  <1>6. item' \in [Items -> Procurement] /\ event' \in Statuses \cup {"none"}
    BY <1>1 DEF IInv, TypeOK
  <1>7. QED
    BY <1>1, <1>2, <1>3, <1>4, <1>5, <1>6, CommitKeeps

LEMMA StutterKeeps ==
    ASSUME IInv, UNCHANGED vars
    PROVE  IInv'
  BY DEF vars, IInv, TypeOK, CopyOfReceived, FreshCopies, CopyIsFresh, Ids, Targets,
         CompletedIsReceived, ReasonTellsCancelled, EventTellsStatus, SupplierOrdersNoted,
         Gone

LEMMA StepKeeps == IInv /\ [Next]_vars => IInv'
  <1> SUFFICES ASSUME IInv, [Next]_vars PROVE IInv'
    OBVIOUS
  <1>1. CASE UNCHANGED vars
    BY <1>1, StutterKeeps
  <1>2. ASSUME NEW w \in Workers, Requests(w)
        PROVE  IInv'
    BY <1>2, RequestsKeep
  <1>3. ASSUME NEW w \in Workers, Rollback(w)
        PROVE  IInv'
    BY <1>3, MovesKeep
  <1>4. ASSUME NEW w \in Workers, Proceeds(w)
        PROVE  IInv'
    <2>1. CASE EndStatus(w) \/ EndCancel(w) \/ EndAwait(w)
      BY <2>1, EndStatusKeeps, EndCancelKeeps, EndAwaitKeeps
    <2>2. CASE Cancelling(w) \/ ReadItems(w) \/ LockItems(w) \/ Deleting(w)
      BY <2>2, MovesKeep
    <2>3. CASE \E found \in Found, noted \in BOOLEAN : EndReserve(w, found, noted)
      BY <2>3, EndReserveKeeps
    <2>4. CASE \E id \in SupplierOrders : PlaceSupply(w, id)
      BY <2>4, MovesKeep
    <2>5. CASE EndDelete(w) \/ EndSupply(w) \/ EndTrack(w)
      BY <2>5, EndDeleteKeeps, EndSupplyKeeps, EndTrackKeeps
    <2>6. QED
      BY <1>4, <2>1, <2>2, <2>3, <2>4, <2>5 DEF Proceeds
  <1>5. QED
    BY <1>1, <1>2, <1>3, <1>4 DEF Next

----------------------------------------------------------------------------
(* The theorems.                                                           *)

\* Everything the proofs know of a reachable state: the properties below, and what a
\* request that nobody has overtaken, or any request, can still rely on in its copy.
THEOREM Invariance == Spec => []IInv
  BY InitInvariant, StepKeeps, PTL DEF Spec

\* The order, its items and the requests under way always have their types, and
\* operators are told of placed GPL orders only.
THEOREM TypesAlways == Spec => []TypeOK
  <1>1. IInv => TypeOK
    BY DEF IInv
  <1>2. QED
    BY <1>1, Invariance, PTL

\* Whatever requests overlap on an order, once it is completed it has a date of
\* receipt: set_status and the tracking decide on their copies, and neither can take
\* away what the other has set.
THEOREM CompletedOrdersAreReceived == Spec => []CompletedIsReceived
  <1>1. IInv => CompletedIsReceived
    BY DEF IInv
  <1>2. QED
    BY <1>1, Invariance, PTL

\* A cancelled order has a reason, and without a request that was overtaken no other
\* order has one.
THEOREM ReasonsTellCancelled == Spec => []ReasonTellsCancelled
  <1>1. IInv => ReasonTellsCancelled
    BY DEF IInv
  <1>2. QED
    BY <1>1, Invariance, PTL

\* The history of statuses ends with the status of the order, although every request
\* decides on the status of its copy.
THEOREM EventsTellStatus == Spec => []EventTellsStatus
  <1>1. IInv => EventTellsStatus
    BY DEF IInv
  <1>2. QED
    BY <1>1, Invariance, PTL

\* Unless a request was overtaken, the notes of an order name every GPL order that was
\* reported to an operator.
THEOREM NotesNameSupplierOrders == Spec => []SupplierOrdersNoted
  <1>1. IInv => SupplierOrdersNoted
    BY DEF IInv
  <1>2. QED
    BY <1>1, Invariance, PTL

LEMMA UnwrittenOrder ==
    ASSUME NEW w \in Workers,
           \/ Requests(w) \/ Rollback(w) \/ Cancelling(w) \/ ReadItems(w) \/ LockItems(w)
           \/ Deleting(w) \/ (\E id \in SupplierOrders : PlaceSupply(w, id))
    PROVE  UNCHANGED order
  BY DEF Requests, BeginStatus, BeginAwait, BeginReserve, BeginDelete, BeginSupply,
         BeginUnsupply, BeginTrack, Begin, Rollback, Cancelling, ReadItems, LockItems,
         Deleting, PlaceSupply

\* what a step that is not overtaken may do to a delivered order
KeepsDelivered ==
    ~overlapped' => /\ order.status \in {"shipped", "completed"} => order'.exists
                    /\ order.received # "no" /\ order'.exists
                           => order'.received = order.received

\* Unless a request was overtaken, no step deletes a shipped or completed order, and no
\* step moves or takes back its date of receipt.
THEOREM DeliveredOrdersAreKept == Spec => NothingDeliveredIsLost
  <1>1. IInv /\ [Next]_vars => [KeepsDelivered]_vars
    <2> DEFINE Goal == /\ order.status \in {"shipped", "completed"} => order'.exists
                       /\ order.received # "no" /\ order'.exists
                             => order'.received = order.received
    <2> SUFFICES ASSUME IInv, Next, ~overlapped'
                 PROVE  Goal
      BY DEF KeepsDelivered
    <2>0. order \in Row
      BY DEF IInv, TypeOK
    <2>1. PICK w \in Workers : Requests(w) \/ Proceeds(w) \/ Rollback(w)
      BY DEF Next
    <2>2. ASSUME UNCHANGED order PROVE Goal
      BY <2>2 DEF IInv, Gone
    <2>3. CASE Requests(w) \/ Rollback(w) \/ Cancelling(w) \/ ReadItems(w) \/ LockItems(w)
               \/ Deleting(w) \/ (\E id \in SupplierOrders : PlaceSupply(w, id))
      BY <2>2, <2>3, UnwrittenOrder
    <2>4. ASSUME NEW target \in Statuses, SetStatus(work[w].seen, target), Commit(w),
                 order.exists \/ target = "cancelled",
                 target = "completed" => work[w].op = "status" /\ work[w].target = "completed"
          PROVE  Goal
      <3>1. work[w] \in Request /\ CopyIsFresh(work[w])
        BY <2>4, AtCommit
      <3>2. /\ order'.exists = order.exists
            /\ order'.received = Received(work[w].seen, target)
        BY <2>4, <3>1, SetStatusWrites DEF Request
      <3>3. order.received # "no" => Received(work[w].seen, target) = order.received
        BY <2>4, <3>1 DEF CopyIsFresh, Received
      <3>4. QED
        BY <3>2, <3>3 DEF IInv, Gone
    <2>5. CASE EndStatus(w)
      BY <2>4, <2>5 DEF EndStatus, IInv, TypeOK, Request
    <2>6. CASE EndCancel(w)
      BY <2>4, <2>6 DEF EndCancel, Statuses
    <2>7. CASE EndAwait(w)
      BY <2>4, <2>7 DEF EndAwait, Statuses
    <2>8. CASE \E found \in Found, noted \in BOOLEAN : EndReserve(w, found, noted)
      BY <2>0, <2>8 DEF EndReserve, Recalculate, Row
    <2>9. CASE EndDelete(w)
      <3>1. CopyIsFresh(work[w]) /\ work[w].op = "deleting"
        BY <2>9, AtCommit DEF EndDelete
      <3>2. order.status \notin {"shipped", "completed"}
        BY <3>1 DEF CopyIsFresh, Deletable
      <3>3. order'.exists = FALSE
        BY <2>9, RowTypes DEF EndDelete, Row
      <3>4. QED
        BY <3>2, <3>3
    <2>10. CASE EndSupply(w)
      BY <2>0, <2>10 DEF EndSupply, Row
    <2>11. CASE EndTrack(w)
      <3>1. CopyIsFresh(work[w]) /\ work[w].op = "track" /\ work[w].seen.received = "no"
        BY <2>11, AtCommit DEF EndTrack, NewlyReceived
      <3>2. order.received = "no"
        BY <3>1 DEF CopyIsFresh
      <3>3. order.exists /\ order'.exists = order.exists
        BY <2>0, <2>11 DEF EndTrack, Row
      <3>4. QED
        BY <3>2, <3>3
    <2>12. QED
      BY <2>1, <2>3, <2>5, <2>6, <2>7, <2>8, <2>9, <2>10, <2>11 DEF Proceeds
  <1>2. QED
    BY <1>1, Invariance, PTL DEF Spec, NothingDeliveredIsLost, KeepsDelivered
=============================================================================
