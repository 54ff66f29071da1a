--------------------------- MODULE FiscalReceipt ---------------------------
(***************************************************************************)
(* The fiscal receipt of one order at Vchasno.Kasa                         *)
(* (apps/commerce/services/vchasno_kasa/service.py, client.py,             *)
(* apps/commerce/tasks/vchasno_kasa.py, backoffice vchasno_kasa_views.py). *)
(*                                                                         *)
(* Operators press Issue and Sync, and completing the order queues a task; *)
(* nothing excludes one from another.  No transaction spans a request: the *)
(* row of the receipt is read, the service is asked, and the columns       *)
(* computed from the copy and the answer are saved.  The service is        *)
(* external: an order sent again with the same external_order_id is the    *)
(* same document.                                                          *)
(***************************************************************************)
EXTENDS FiniteSets

CONSTANTS
    Workers,   \* threads and Celery processes that serve requests
    Keys       \* values external_order_id can take

ASSUME FiscalAssumption == IsFiniteSet(Keys) /\ Keys # {}

VARIABLES
    row,     \* the OrderReceipt row of the order
    docs,    \* the document at the service under each external_order_id
    shift,   \* the shift of the cash register
    work     \* the request each worker is serving

vars == <<row, docs, shift, work>>

\* "created" also stands for delivered, "failed" for error and cancelled.
States == {"none", "created", "fiscalized", "failed"}

\* code: fiscal_status_code.  url: there is a receipt_url.  error: error_code
\* or error_message is set.  answered: response_payload is not empty.
Row == [exists : BOOLEAN, key : Keys, code : States, url : BOOLEAN,
        error : BOOLEAN, answered : BOOLEAN]

Ops == {"idle", "task", "issue", "get", "create", "read", "list", "apply",
        "fail", "refused"}

\* seen: the columns of its copy of the row that the request writes back or
\* sends.  answer: what the service told it.  fresh: nobody has saved the row since
\* the request read it.
Request == [op : Ops, seen : Row, answer : States, fresh : BOOLEAN]

NoRow == [exists |-> FALSE, key |-> CHOOSE k \in Keys : TRUE, code |-> "none",
          url |-> FALSE, error |-> FALSE, answered |-> FALSE]

Idle == [op |-> "idle", seen |-> NoRow, answer |-> "none", fresh |-> TRUE]

Copy == [row EXCEPT !.code = "none", !.error = FALSE]

----------------------------------------------------------------------------
(* Decisions on a row.                                                     *)

Done(r) == r.url /\ r.code = "fiscalized"

\* Mutant: a stored error does not matter.
ShouldSyncAfterError(r) == r.answered

\* _should_sync_existing_receipt
ShouldSync(r) == r.answered /\ ~r.error

----------------------------------------------------------------------------
(* Requests.  Every step between two calls to the database or the service  *)
(* is one action.                                                          *)

Goto(w, op) == work' = [work EXCEPT ![w] = [Idle EXCEPT !.op = op]]

\* The request has its answer, or its error, and keeps its copy.
GotoKeeping(w, op, answer) ==
    work' = [work EXCEPT ![w] = [@ EXCEPT !.op = op, !.answer = answer]]

\* The request goes on with the copy it has just read.
GotoWithCopy(w, op) ==
    work' = [work EXCEPT ![w] = [Idle EXCEPT !.op = op, !.seen = Copy]]

\* The Issue button, the Sync button, the task queued when the order is completed.
BeginIssue(w)  == work[w].op = "idle" /\ Goto(w, "issue") /\ UNCHANGED <<row, docs, shift>>
BeginSync(w)   == work[w].op = "idle" /\ Goto(w, "read") /\ UNCHANGED <<row, docs, shift>>
BeginTask(w)   == work[w].op = "idle" /\ Goto(w, "task") /\ UNCHANGED <<row, docs, shift>>

\* issue_or_sync_order_receipt
Task(w) ==
    /\ work[w].op = "task"
    /\ Goto(w, IF ~row.exists THEN "issue"
               ELSE IF Done(row) THEN "idle" ELSE "read")
    /\ UNCHANGED <<row, docs, shift>>

\* _auto_open_shift_for_receipt_if_closed: a failure to learn the state or to open
\* the shift is ignored.
AutoOpen(w) ==
    /\ work[w].op = "issue"
    /\ shift' \in {shift, "open"}
    /\ Goto(w, "get")
    /\ UNCHANGED <<row, docs>>

AfterGet(r) == IF Done(r) THEN "idle" ELSE IF ShouldSync(r) THEN "read" ELSE "create"

\* _get_or_create_sale_receipt finds the row and issue_order_receipt decides.
GetRow(w) ==
    /\ work[w].op = "get"
    /\ row.exists
    /\ IF AfterGet(row) = "create" THEN GotoWithCopy(w, "create")
                                   ELSE Goto(w, AfterGet(row))
    /\ UNCHANGED <<row, docs, shift>>

\* ... or inserts it, with a new external_order_id; the unique constraint leaves
\* one row whoever inserts.
CreateRow(w, key) ==
    /\ work[w].op = "get"
    /\ ~row.exists
    /\ row' = [row EXCEPT !.exists = TRUE, !.key = key]
    /\ work' = [work EXCEPT ![w] = [Idle EXCEPT !.op = "create", !.seen = row']]
    /\ UNCHANGED <<docs, shift>>

\* sync_order_receipt reads the row; without one it raises.
ReadRow(w) ==
    /\ work[w].op = "read"
    /\ IF row.exists THEN GotoWithCopy(w, "list") ELSE Goto(w, "idle")
    /\ UNCHANGED <<row, docs, shift>>

----------------------------------------------------------------------------
(* The service.                                                            *)

\* Mutant: each attempt is sent with an id of its own.
SendsNewKey(r) == IF \A k \in Keys : docs[k] # "none" THEN r.key
                  ELSE CHOOSE k \in Keys : docs[k] = "none"

\* external_order_id of build_vchasno_order_payload
SentKey(r) == r.key

\* POST /api/v1/orders registers the document, or knows it already, and says so.
Accept(w) ==
    /\ work[w].op = "create"
    /\ LET key == SentKey(work[w].seen) IN
       /\ docs' = [docs EXCEPT ![key] = IF @ = "none" THEN "created" ELSE @]
       /\ GotoKeeping(w, "apply", docs'[key])
    /\ UNCHANGED <<row, shift>>

\* Mutant: ... is given a status of its own.
AnswerOddlyUnknown(w) ==
    /\ work[w].op = "create"
    /\ GotoKeeping(w, "apply", "unknown")
    /\ UNCHANGED <<row, docs, shift>>

\* A 2xx answer that is no order (_decode_payload gives {} or {"raw": ...}) is
\* taken for an order without a status.
AnswerOddly(w) ==
    /\ work[w].op = "create"
    /\ GotoKeeping(w, "apply", "none")
    /\ UNCHANGED <<row, docs, shift>>

\* list_orders, matched by order number or external_order_id
List(w) ==
    /\ work[w].op = "list"
    /\ \E k \in Keys : docs[k] # "none" /\ GotoKeeping(w, "apply", docs[k])
    /\ UNCHANGED <<row, docs, shift>>

\* The list is the latest page: the document need not be on it.
NotListed(w) ==
    /\ work[w].op = "list"
    /\ GotoKeeping(w, "fail", "none")
    /\ UNCHANGED <<row, docs, shift>>

\* HTTP 400 and above comes with details, an unreachable service without.
Fail(w) ==
    /\ work[w].op \in {"create", "list"}
    /\ \E op \in {"fail", "refused"} : GotoKeeping(w, op, "none")
    /\ UNCHANGED <<row, docs, shift>>

\* The service fiscalizes the order when the shift is open, or gives it up.
Conclude(k) ==
    /\ docs[k] = "created"
    /\ docs' \in {[docs EXCEPT ![k] = s] :
                     s \in {"failed"} \cup (IF shift = "open" THEN {"fiscalized"} ELSE {})}
    /\ UNCHANGED <<row, shift, work>>

\* open_vchasno_shift and close_vchasno_shift, pressed by an operator
SetShift == shift' \in {"open", "closed"} /\ UNCHANGED <<row, docs, work>>

----------------------------------------------------------------------------
(* Saving.                                                                 *)

\* The request ends with its save; the copies of the others are out of date.
SaveRow(w, r) ==
    /\ row' = r
    /\ work' = [v \in Workers |->
                   IF v = w \/ work[v].op = "idle" THEN Idle
                   ELSE [work[v] EXCEPT !.fresh = FALSE]]
    /\ UNCHANGED <<docs, shift>>

\* _apply_provider_payload; an empty answer stays an empty response_payload.
Apply(w) ==
    /\ work[w].op = "apply"
    /\ \E answered \in IF work[w].answer = "none" THEN BOOLEAN ELSE {TRUE} :
         SaveRow(w, [row EXCEPT
             !.code = work[w].answer,
             !.url = work[w].answer = "fiscalized" \/ work[w].seen.url,
             !.error = FALSE, !.answered = answered])

\* Mutant: an error clears the status.
ErroredWithoutStatus(r, payload) ==
    [r EXCEPT !.error = TRUE, !.answered = payload, !.code = "none"]

\* The columns _store_receipt_error saves.
Errored(r, payload) == [r EXCEPT !.error = TRUE, !.answered = payload]

StoreError(w) ==
    /\ work[w].op \in {"fail", "refused"}
    /\ SaveRow(w, Errored(row, work[w].op = "refused" \/ work[w].seen.answered))

\* The process dies, or the answer does not come in time (a read that times out is
\* no URLError and is not stored).
Drop(w) == work[w].op # "idle" /\ Goto(w, "idle") /\ UNCHANGED <<row, docs, shift>>

----------------------------------------------------------------------------

Init ==
    /\ row = NoRow
    /\ docs = [k \in Keys |-> "none"]
    /\ shift = "closed"
    /\ work = [w \in Workers |-> Idle]

Step(w) ==
    \/ BeginIssue(w) \/ BeginSync(w) \/ BeginTask(w)
    \/ Task(w) \/ AutoOpen(w) \/ GetRow(w)
    \/ \E key \in Keys : CreateRow(w, key)
    \/ ReadRow(w)
    \/ Accept(w) \/ AnswerOddly(w) \/ List(w) \/ NotListed(w) \/ Fail(w)
    \/ Apply(w) \/ StoreError(w) \/ Drop(w)

Next == \/ \E w \in Workers : Step(w)
        \/ \E k \in Keys : Conclude(k)
        \/ SetShift

\* A request that is made again and again is not cut off every time, and the
\* service that is asked again and again does answer.
Fairness ==
    /\ SF_vars(\E w \in Workers : AutoOpen(w))
    /\ SF_vars(\E w \in Workers : GetRow(w) \/ \E key \in Keys : CreateRow(w, key))
    /\ SF_vars(\E w \in Workers : ReadRow(w))
    /\ SF_vars(\E w \in Workers : Accept(w))
    /\ SF_vars(\E w \in Workers : List(w) \/ NotListed(w))
    /\ SF_vars(\E w \in Workers : StoreError(w))

Spec == Init /\ [][Next]_vars /\ Fairness

----------------------------------------------------------------------------
(* Properties.                                                             *)

\* The state space is what the code's columns can hold.
TypeOK ==
    /\ row \in Row
    /\ docs \in [Keys -> States]
    /\ shift \in {"open", "closed"}
    /\ work \in [Workers -> Request]

Live == {k \in Keys : docs[k] # "none"}

\* "twice" is no state of the abstract document.
Document == IF Live = {} THEN "none"
            ELSE IF Cardinality(Live) = 1 THEN docs[CHOOSE k \in Live : TRUE]
            ELSE "twice"

Receipt == INSTANCE OneReceipt WITH doc <- Document, known <- row.code

\* Operators and tasks that ask for the receipt together or again after a lost
\* answer register one document, and the row never shows a state that the document
\* has not been in.
OneReceiptSpec == Receipt!Spec

\* A receipt that is shown as fiscalized, with its link, is withdrawn only by a
\* request that saves over a row somebody else has saved since it read it.
ShownStays ==
    [][Done(row) /\ ~Done(row') =>
          \E w \in Workers : /\ work[w].op = "apply" /\ ~work[w].fresh
                             /\ work'[w].op = "idle"]_vars

\* Operators who keep pressing Issue get the order registered, whatever errors,
\* refusals and empty answers have been stored before.
AskingRegisters ==
    []<>(\E w \in Workers : work[w].op = "issue") => <>(Document # "none")
============================================================================
