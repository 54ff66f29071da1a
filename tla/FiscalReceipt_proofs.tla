------------------------ MODULE FiscalReceipt_proofs ------------------------
(***************************************************************************)
(* Proofs about FiscalReceipt, for every set of workers and of keys: that  *)
(* it implements OneReceipt, and that only a request that was overtaken    *)
(* withdraws a receipt that is shown.                                      *)
(***************************************************************************)
EXTENDS FiscalReceipt, FiniteSetTheorems, TLAPS

Past(s) == Receipt!Past(s)

\* the document of the row's key; no other can be registered
Registered == docs[row.key]

\* a document is registered under the key of the row only, which stays
OneKey == \A k \in Keys : docs[k] # "none" => row.exists /\ k = row.key

\* the row shows a state the document has been in, and none before there is a row
RowIsTrue == /\ row.code \in Past(Registered)
             /\ ~row.exists => row.code = "none"

\* what request k holds, of the row r and a document that has been in the states past
Fits(k, r, past) ==
    /\ k.op \in {"create", "list", "apply", "fail", "refused"} => r.exists
    /\ k.op = "create" => k.seen.key = r.key
    /\ k.op = "apply" => k.answer \in past
    /\ k.op = "create" /\ k.fresh => ~Done(r)
    /\ k.op = "apply" /\ k.fresh /\ Done(r) => k.answer = "fiscalized"

WorkInv == \A w \in Workers : Fits(work[w], row, Past(Registered))

IInv == TypeOK /\ OneKey /\ RowIsTrue /\ WorkInv

----------------------------------------------------------------------------
(* Types.                                                                  *)

LEMMA RowTypes == NoRow \in Row /\ Idle \in Request /\ Idle.op = "idle" /\ NoRow.code = "none"
  <1>1. (CHOOSE k \in Keys : TRUE) \in Keys
    BY FiscalAssumption
  <1>2. NoRow \in Row /\ NoRow.code = "none"
    BY <1>1 DEF NoRow, Row, States
  <1>3. QED
    BY <1>2 DEF Idle, Request, Ops, States

LEMMA CopyType ==
    ASSUME row \in Row
    PROVE  Copy \in Row /\ Copy.key = row.key
  BY DEF Copy, Row, States

LEMMA StaleCopy ==
    ASSUME NEW k \in Request, NEW stale, stale = [k EXCEPT !.fresh = FALSE]
    PROVE  /\ stale \in Request
           /\ ~stale.fresh
           /\ stale.op = k.op /\ stale.seen = k.seen /\ stale.answer = k.answer
  BY DEF Request

LEMMA BlankRequest ==
    ASSUME NEW op \in Ops, NEW k, k = [Idle EXCEPT !.op = op]
    PROVE  k \in Request /\ k.op = op
  BY RowTypes DEF Request

----------------------------------------------------------------------------
(* What a step must respect to keep the invariant.                         *)

\* a step of one request that leaves the row and tells it no more than is true
LEMMA MoveKeeps ==
    ASSUME IInv, NEW w \in Workers, NEW k \in Request,
           work' = [work EXCEPT ![w] = k], UNCHANGED row,
           docs' \in [Keys -> States], shift' \in {"open", "closed"}, OneKey',
           Past(Registered) \subseteq Past(Registered'),
           Fits(k, row, Past(Registered'))
    PROVE  IInv'
  <1>1. \A v \in Workers : work'[v] = IF v = w THEN k ELSE work[v]
    BY DEF IInv, TypeOK
  <1>2. TypeOK'
    BY DEF IInv, TypeOK
  <1>3. \A v \in Workers : Fits(work[v], row, Past(Registered'))
    BY DEF IInv, WorkInv, Fits
  <1>4. WorkInv'
    BY <1>1, <1>3 DEF WorkInv
  <1>5. RowIsTrue'
    BY DEF IInv, RowIsTrue
  <1>6. QED
    BY <1>2, <1>4, <1>5 DEF IInv

LEMMA OnlyMoveKeeps ==
    ASSUME IInv, NEW w \in Workers, NEW k \in Request,
           work' = [work EXCEPT ![w] = k], UNCHANGED <<row, docs>>,
           shift' \in {"open", "closed"},
           Fits(k, row, Past(Registered))
    PROVE  IInv'
  <1>1. docs' \in [Keys -> States] /\ OneKey' /\ Registered' = Registered
    BY DEF IInv, TypeOK, OneKey, Registered
  <1>2. QED
    BY <1>1, MoveKeeps

\* a save of columns of the row that leaves its key
LEMMA SaveKeeps ==
    ASSUME IInv, NEW w \in Workers, NEW r \in Row, SaveRow(w, r),
           r.exists = row.exists, r.key = row.key,
           r.code \in Past(Registered), ~r.exists => r.code = "none"
    PROVE  IInv'
  <1>1. row' = r /\ UNCHANGED <<docs, shift>>
    BY DEF SaveRow
  <1>2. Registered' = Registered
    BY <1>1 DEF Registered
  <1>3. \A v \in Workers : /\ work'[v] \in Request
                           /\ Fits(work'[v], r, Past(Registered))
    <2> TAKE v \in Workers
    <2>1. CASE work'[v] = Idle
      BY <2>1, RowTypes DEF Fits
    <2>2. CASE work'[v] = [work[v] EXCEPT !.fresh = FALSE]
      <3>1. work[v] \in Request /\ Fits(work[v], row, Past(Registered))
        BY DEF IInv, TypeOK, WorkInv
      <3>2. /\ work'[v] \in Request /\ ~work'[v].fresh
            /\ work'[v].op = work[v].op /\ work'[v].seen = work[v].seen
            /\ work'[v].answer = work[v].answer
        BY <2>2, <3>1, StaleCopy
      <3>3. QED
        BY <3>1, <3>2 DEF Fits
    <2>3. QED
      BY <2>1, <2>2 DEF SaveRow
  <1>4. TypeOK'
    <2>1. work' \in [Workers -> Request]
      BY <1>3 DEF SaveRow
    <2>2. QED
      BY <1>1, <2>1 DEF IInv, TypeOK
  <1>5. OneKey' /\ RowIsTrue'
    BY <1>1, <1>2 DEF IInv, OneKey, RowIsTrue
  <1>6. WorkInv'
    BY <1>1, <1>2, <1>3 DEF WorkInv
  <1>7. QED
    BY <1>4, <1>5, <1>6 DEF IInv

----------------------------------------------------------------------------
(* The operations.                                                         *)

LEMMA InitInvariant == Init => IInv
  <1> SUFFICES ASSUME Init PROVE IInv
    OBVIOUS
  <1>1. TypeOK
    BY RowTypes DEF Init, TypeOK, States
  <1>2. OneKey
    BY DEF Init, OneKey
  <1>3. RowIsTrue
    BY RowTypes DEF Init, RowIsTrue, Past, Receipt!Past
  <1>4. WorkInv
    BY RowTypes DEF Init, WorkInv, Fits
  <1>5. QED
    BY <1>1, <1>2, <1>3, <1>4 DEF IInv

\* a request that starts over holds nothing
LEMMA GotoKeeps ==
    ASSUME IInv, NEW w \in Workers, NEW op \in {"idle", "task", "issue", "get", "read"},
           Goto(w, op), UNCHANGED <<row, docs>>, shift' \in {"open", "closed"}
    PROVE  IInv'
  <1> DEFINE k == [Idle EXCEPT !.op = op]
  <1>1. work' = [work EXCEPT ![w] = k]
    BY DEF Goto
  <1>2. k \in Request /\ k.op = op
    BY BlankRequest DEF Ops
  <1> HIDE DEF k
  <1>3. Fits(k, row, Past(Registered))
    BY <1>2 DEF Fits
  <1>4. QED
    BY <1>1, <1>2, <1>3, OnlyMoveKeeps

LEMMA GotoWithCopyKeeps ==
    ASSUME IInv, NEW w \in Workers, NEW op \in {"create", "list"},
           GotoWithCopy(w, op), row.exists, op = "create" => ~Done(row),
           UNCHANGED <<row, docs, shift>>
    PROVE  IInv'
  <1>1. Copy \in Row /\ Copy.key = row.key
    BY CopyType DEF IInv, TypeOK
  <1> DEFINE k == [Idle EXCEPT !.op = op, !.seen = Copy]
  <1>2. work' = [work EXCEPT ![w] = k]
    BY DEF GotoWithCopy
  <1>3. k \in Request /\ k.op = op /\ k.seen = Copy
    <2> DEFINE seen == Copy
    <2>1. seen \in Row /\ op \in Ops /\ k = [Idle EXCEPT !.op = op, !.seen = seen]
      BY <1>1 DEF Ops
    <2> HIDE DEF seen, k
    <2>2. k \in Request /\ k.op = op /\ k.seen = seen
      BY <2>1, RowTypes DEF Request
    <2>3. QED
      BY <2>2 DEF seen
  <1> HIDE DEF k
  <1>4. Fits(k, row, Past(Registered))
    BY <1>1, <1>3 DEF Fits
  <1>5. shift' \in {"open", "closed"}
    BY DEF IInv, TypeOK
  <1>6. QED
    BY <1>2, <1>3, <1>4, <1>5, OnlyMoveKeeps

LEMMA AskingKeeps ==
    ASSUME IInv, NEW w \in Workers,
           \/ BeginIssue(w) \/ BeginSync(w) \/ BeginTask(w) \/ Task(w) \/ AutoOpen(w)
           \/ GetRow(w) \/ ReadRow(w) \/ Drop(w)
    PROVE  IInv'
  <1>1. CASE \/ BeginIssue(w) \/ BeginSync(w) \/ BeginTask(w) \/ Task(w) \/ AutoOpen(w)
             \/ Drop(w)
    <2>1. /\ \E op \in {"idle", "task", "issue", "get", "read"} : Goto(w, op)
          /\ UNCHANGED <<row, docs>>
      BY <1>1 DEF BeginIssue, BeginSync, BeginTask, Task, AutoOpen, Drop
    <2>2. shift' \in {"open", "closed"}
      BY <1>1 DEF IInv, TypeOK, BeginIssue, BeginSync, BeginTask, Task, AutoOpen, Drop
    <2>3. QED
      BY <2>1, <2>2, GotoKeeps
  <1>2. CASE GetRow(w)
    <2>1. row.exists /\ UNCHANGED <<row, docs, shift>> /\ shift' \in {"open", "closed"}
      BY <1>2 DEF GetRow, IInv, TypeOK
    <2>2. CASE AfterGet(row) = "create"
      <3>1. GotoWithCopy(w, "create") /\ ~Done(row)
        BY <1>2, <2>2 DEF GetRow, AfterGet
      <3>2. QED
        BY <2>1, <3>1, GotoWithCopyKeeps
    <2>3. CASE AfterGet(row) # "create"
      <3>1. Goto(w, AfterGet(row)) /\ AfterGet(row) \in {"idle", "read"}
        BY <1>2, <2>3 DEF GetRow, AfterGet
      <3>2. QED
        BY <2>1, <3>1, GotoKeeps
    <2>4. QED
      BY <2>2, <2>3
  <1>3. CASE ReadRow(w)
    <2>1. UNCHANGED <<row, docs, shift>> /\ shift' \in {"open", "closed"}
      BY <1>3 DEF ReadRow, IInv, TypeOK
    <2>2. CASE row.exists
      <3>1. GotoWithCopy(w, "list")
        BY <1>3, <2>2 DEF ReadRow
      <3>2. QED
        BY <2>1, <2>2, <3>1, GotoWithCopyKeeps
    <2>3. CASE ~row.exists
      <3>1. Goto(w, "idle")
        BY <1>3, <2>3 DEF ReadRow
      <3>2. QED
        BY <2>1, <3>1, GotoKeeps
    <2>4. QED
      BY <2>2, <2>3
  <1>4. QED
    BY <1>1, <1>2, <1>3

\* before there is a row no document is registered, so that any key will do
LEMMA CreateRowKeeps ==
    ASSUME IInv, NEW w \in Workers, NEW key \in Keys, CreateRow(w, key)
    PROVE  /\ IInv'
           /\ Registered = "none" /\ Registered' = "none" /\ row'.code = row.code
  <1>1. /\ work[w].op = "get" /\ ~row.exists
        /\ row' = [row EXCEPT !.exists = TRUE, !.key = key]
        /\ work' = [work EXCEPT ![w] = [Idle EXCEPT !.op = "create", !.seen = row']]
        /\ UNCHANGED <<docs, shift>>
    BY DEF CreateRow
  <1>2. /\ row' \in Row /\ row'.exists = TRUE /\ row'.key = key
        /\ row'.code = row.code /\ row.key \in Keys
    BY <1>1 DEF IInv, TypeOK, Row
  <1>3. \A k \in Keys : docs[k] = "none"
    BY <1>1 DEF IInv, OneKey
  <1>4. Registered = "none" /\ Registered' = "none"
    BY <1>1, <1>2, <1>3 DEF Registered
  <1>5. row'.code = "none"
    BY <1>1, <1>2 DEF IInv, RowIsTrue
  <1> DEFINE k == [Idle EXCEPT !.op = "create", !.seen = row']
  <1>6. k \in Request /\ k.op = "create" /\ k.seen = row'
    BY <1>2, RowTypes DEF Request, Ops
  <1>7. \A v \in Workers : work'[v] = IF v = w THEN k ELSE work[v]
    BY <1>1 DEF IInv, TypeOK
  <1> HIDE DEF k
  <1>8. TypeOK'
    <2>1. work' \in [Workers -> Request]
      BY <1>1, <1>6 DEF IInv, TypeOK, k
    <2>2. QED
      BY <1>1, <1>2, <2>1 DEF IInv, TypeOK
  <1>9. OneKey' /\ RowIsTrue'
    BY <1>1, <1>2, <1>3, <1>4, <1>5 DEF OneKey, RowIsTrue, Past, Receipt!Past
  <1>10. WorkInv'
    <2>1. \A v \in Workers : Fits(work[v], row', Past(Registered'))
      <3> TAKE v \in Workers
      <3>1. Fits(work[v], row, Past("none"))
        BY <1>4 DEF IInv, WorkInv
      <3>2. work[v].op \notin {"create", "list", "apply", "fail", "refused"}
        BY <1>1, <3>1 DEF Fits
      <3>3. QED
        BY <3>2 DEF Fits
    <2>2. Fits(k, row', Past(Registered'))
      BY <1>2, <1>5, <1>6 DEF Fits, Done
    <2>3. QED
      BY <1>7, <2>1, <2>2 DEF WorkInv
  <1>11. QED
    BY <1>2, <1>4, <1>8, <1>9, <1>10 DEF IInv

\* the states of a document are only added to
LEMMA PastGrows ==
    ASSUME NEW s, NEW t, s = t \/ s = "none" \/ (s = "created" /\ t # "none")
    PROVE  Past(s) \subseteq Past(t)
  BY DEF Past, Receipt!Past

LEMMA AcceptKeeps ==
    ASSUME IInv, NEW w \in Workers, Accept(w)
    PROVE  /\ IInv' /\ UNCHANGED row
           /\ Registered' = IF Registered = "none" THEN "created" ELSE Registered
  <1> DEFINE next == IF Registered = "none" THEN "created" ELSE Registered
             answer == docs'[row.key]
             k == [work[w] EXCEPT !.op = "apply", !.answer = answer]
  <1>1. /\ work[w] \in Request /\ row \in Row /\ row.key \in Keys
        /\ docs \in [Keys -> States] /\ shift \in {"open", "closed"}
        /\ Fits(work[w], row, Past(Registered)) /\ work[w].op = "create"
    BY DEF IInv, TypeOK, Row, WorkInv, Accept
  <1>2. row.exists /\ SentKey(work[w].seen) = row.key
        /\ (work[w].fresh => ~Done(row))
    BY <1>1 DEF Fits, SentKey
  <1>3. /\ docs' = [docs EXCEPT ![row.key] = IF @ = "none" THEN "created" ELSE @]
        /\ work' = [work EXCEPT ![w] = k]
        /\ UNCHANGED <<row, shift>>
    BY <1>2 DEF Accept, GotoKeeping
  <1>4. /\ docs' \in [Keys -> States] /\ docs'[row.key] = next
        /\ \A j \in Keys \ {row.key} : docs'[j] = docs[j]
    BY <1>1, <1>3 DEF States, Registered
  <1>5. Registered' = next /\ answer = next
    BY <1>3, <1>4 DEF Registered
  <1>6. OneKey'
    BY <1>2, <1>3, <1>4 DEF IInv, OneKey
  <1>7. Past(Registered) \subseteq Past(Registered')
    BY <1>5, PastGrows
  <1>8. answer \in States
    BY <1>1, <1>4
  <1> HIDE DEF next, answer
  <1>9. /\ k \in Request /\ k.op = "apply" /\ k.answer = answer
        /\ k.fresh = work[w].fresh
    BY <1>1, <1>8 DEF Request, Ops
  <1> HIDE DEF k
  <1>10. answer \in Past(Registered')
    BY <1>5 DEF Past, Receipt!Past
  <1>11. Fits(k, row, Past(Registered'))
    BY <1>2, <1>9, <1>10 DEF Fits
  <1>12. IInv'
    BY <1>1, <1>3, <1>4, <1>6, <1>7, <1>9, <1>11, MoveKeeps
  <1>13. QED
    BY <1>3, <1>5, <1>12 DEF next

\* an answer that tells what the document has been
LEMMA AnswerKeeps ==
    ASSUME IInv, NEW w \in Workers, NEW op \in {"apply", "fail", "refused"},
           NEW answer \in States, GotoKeeping(w, op, answer),
           UNCHANGED <<row, docs, shift>>, work[w].op \in {"create", "list"},
           op = "apply" => answer \in Past(Registered),
           op = "apply" /\ work[w].op = "list" => answer = Registered
    PROVE  IInv'
  <1> DEFINE k == [work[w] EXCEPT !.op = op, !.answer = answer]
  <1>1. work[w] \in Request /\ Fits(work[w], row, Past(Registered)) /\ RowIsTrue
        /\ shift' \in {"open", "closed"}
    BY DEF IInv, TypeOK, WorkInv
  <1>2. work' = [work EXCEPT ![w] = k]
    BY DEF GotoKeeping
  <1>3. /\ k \in Request /\ k.op = op /\ k.answer = answer
        /\ k.fresh = work[w].fresh
    BY <1>1 DEF Request, Ops
  <1> HIDE DEF k
  <1>4. op = "apply" /\ k.fresh /\ Done(row) => answer = "fiscalized"
    <2> SUFFICES ASSUME op = "apply", k.fresh, Done(row) PROVE answer = "fiscalized"
      OBVIOUS
    <2>1. work[w].op = "list"
      BY <1>1, <1>3 DEF Fits
    <2>2. row.code = "fiscalized" /\ row.code \in Past(Registered)
      BY <1>1 DEF RowIsTrue, Done
    <2>3. Registered = "fiscalized"
      BY <2>2 DEF Past, Receipt!Past
    <2>4. QED
      BY <2>1, <2>3
  <1>5. Fits(k, row, Past(Registered))
    BY <1>1, <1>3, <1>4 DEF Fits
  <1>6. QED
    BY <1>1, <1>2, <1>3, <1>5, OnlyMoveKeeps

LEMMA AnsweredKeeps ==
    ASSUME IInv, NEW w \in Workers, AnswerOddly(w) \/ List(w) \/ NotListed(w) \/ Fail(w)
    PROVE  IInv'
  <1>1. "none" \in States /\ "none" \in Past(Registered)
    BY DEF States, Past, Receipt!Past
  <1>2. CASE AnswerOddly(w)
    BY <1>1, <1>2, AnswerKeeps DEF AnswerOddly
  <1>3. CASE List(w)
    <2>1. PICK j \in Keys : docs[j] # "none" /\ GotoKeeping(w, "apply", docs[j])
      BY <1>3 DEF List
    <2>2. docs[j] \in States /\ docs[j] = Registered
      BY <2>1 DEF IInv, TypeOK, OneKey, Registered
    <2>3. Registered \in Past(Registered)
      BY DEF Past, Receipt!Past
    <2>4. QED
      BY <1>3, <2>1, <2>2, <2>3, AnswerKeeps DEF List
  <1>4. CASE NotListed(w)
    BY <1>1, <1>4, AnswerKeeps DEF NotListed
  <1>5. CASE Fail(w)
    <2>1. PICK op \in {"fail", "refused"} : GotoKeeping(w, op, "none")
      BY <1>5 DEF Fail
    <2>2. QED
      BY <1>1, <1>5, <2>1, AnswerKeeps DEF Fail
  <1>6. QED
    BY <1>2, <1>3, <1>4, <1>5

LEMMA ConcludeKeeps ==
    ASSUME IInv, NEW k \in Keys, Conclude(k)
    PROVE  /\ IInv' /\ UNCHANGED row
           /\ Registered = "created" /\ Registered' \in {"failed", "fiscalized"}
  <1>1. /\ docs[k] = "created" /\ row.exists /\ k = row.key
        /\ UNCHANGED <<row, shift, work>>
    BY DEF Conclude, IInv, OneKey
  <1>2. PICK s \in {"failed", "fiscalized"} : docs' = [docs EXCEPT ![k] = s]
    BY DEF Conclude
  <1>3. /\ docs' \in [Keys -> States] /\ docs'[k] = s
        /\ \A j \in Keys \ {k} : docs'[j] = docs[j]
    BY <1>2 DEF IInv, TypeOK, States
  <1>4. Registered = "created" /\ Registered' = s
    BY <1>1, <1>3 DEF Registered
  <1>5. Past(Registered) \subseteq Past(Registered')
    BY <1>4, PastGrows
  <1>6. TypeOK'
    BY <1>1, <1>3 DEF IInv, TypeOK
  <1>7. OneKey' /\ RowIsTrue'
    BY <1>1, <1>3, <1>5 DEF IInv, OneKey, RowIsTrue
  <1>8. WorkInv'
    BY <1>1, <1>5 DEF IInv, WorkInv, Fits
  <1>9. QED
    BY <1>1, <1>4, <1>6, <1>7, <1>8 DEF IInv

LEMMA ApplyKeeps ==
    ASSUME IInv, NEW w \in Workers, Apply(w)
    PROVE  /\ IInv' /\ UNCHANGED docs /\ row'.key = row.key
           /\ row'.code \in Past(Registered)
           /\ work[w].fresh /\ Done(row) => Done(row')
  <1>1. /\ work[w] \in Request /\ work[w].op = "apply" /\ row \in Row
        /\ Fits(work[w], row, Past(Registered))
    BY DEF Apply, IInv, TypeOK, WorkInv
  <1> DEFINE answer == work[w].answer
             url == answer = "fiscalized" \/ work[w].seen.url
  <1>2. answer \in States /\ url \in BOOLEAN /\ row.exists /\ answer \in Past(Registered)
        /\ (work[w].fresh /\ Done(row) => answer = "fiscalized")
    BY <1>1 DEF Request, Row, Fits
  <1>3. PICK answered \in BOOLEAN :
           SaveRow(w, [row EXCEPT !.code = answer, !.url = url,
                                  !.error = FALSE, !.answered = answered])
    BY DEF Apply
  <1> DEFINE r == [row EXCEPT !.code = answer, !.url = url,
                              !.error = FALSE, !.answered = answered]
  <1>4. answer = "fiscalized" => url
    OBVIOUS
  <1> HIDE DEF answer, url
  <1>5. /\ r \in Row /\ r.exists = row.exists /\ r.key = row.key
        /\ r.code = answer /\ r.url = url
    BY <1>1, <1>2 DEF Row
  <1>6. SaveRow(w, r)
    BY <1>3
  <1> HIDE DEF r
  <1>7. IInv'
    BY <1>2, <1>5, <1>6, SaveKeeps
  <1>8. row' = r /\ UNCHANGED docs
    BY <1>6 DEF SaveRow
  <1>9. QED
    BY <1>2, <1>4, <1>5, <1>7, <1>8 DEF Done

LEMMA StoreErrorKeeps ==
    ASSUME IInv, NEW w \in Workers, StoreError(w)
    PROVE  /\ IInv' /\ UNCHANGED docs /\ row'.key = row.key
           /\ row'.code = row.code /\ row'.url = row.url
  <1> DEFINE payload == work[w].op = "refused" \/ work[w].seen.answered
             r == Errored(row, payload)
  <1>1. row \in Row /\ payload \in BOOLEAN
    BY DEF IInv, TypeOK, Request, Row
  <1>2. SaveRow(w, r)
    BY DEF StoreError
  <1> HIDE DEF payload
  <1>3. /\ r \in Row /\ r.exists = row.exists /\ r.key = row.key
        /\ r.code = row.code /\ r.url = row.url
    BY <1>1 DEF Row, Errored
  <1> HIDE DEF r
  <1>4. r.code \in Past(Registered) /\ (~r.exists => r.code = "none")
    BY <1>3 DEF IInv, RowIsTrue
  <1>5. IInv'
    BY <1>2, <1>3, <1>4, SaveKeeps
  <1>6. row' = r /\ UNCHANGED docs
    BY <1>2 DEF SaveRow
  <1>7. QED
    BY <1>3, <1>5, <1>6

LEMMA SetShiftKeeps ==
    ASSUME IInv, SetShift
    PROVE  IInv' /\ UNCHANGED <<row, docs>>
  BY DEF SetShift, IInv, TypeOK, OneKey, RowIsTrue, WorkInv, Fits, Registered

LEMMA StutterKeeps ==
    ASSUME IInv, UNCHANGED vars
    PROVE  IInv' /\ UNCHANGED <<row, docs>>
  BY DEF vars, IInv, TypeOK, OneKey, RowIsTrue, WorkInv, Fits, Registered

\* what a request does between its answer and its end, and before the service
LEMMA ReadingLeavesRow ==
    ASSUME NEW w \in Workers,
           \/ BeginIssue(w) \/ BeginSync(w) \/ BeginTask(w) \/ Task(w) \/ AutoOpen(w)
           \/ GetRow(w) \/ ReadRow(w) \/ Drop(w)
           \/ AnswerOddly(w) \/ List(w) \/ NotListed(w) \/ Fail(w)
    PROVE  UNCHANGED <<row, docs>>
  BY DEF BeginIssue, BeginSync, BeginTask, Task, AutoOpen, GetRow, ReadRow, Drop,
         AnswerOddly, List, NotListed, Fail

----------------------------------------------------------------------------
(* The document and the row, step by step.                                 *)

\* what a step does to the document and to what the row says of it
RowSteps ==
    \/ Registered' = Registered /\ row'.code = row.code
    \/ Registered = "none" /\ Registered' = "created" /\ row'.code = row.code
    \/ /\ Registered = "created" /\ Registered' \in {"failed", "fiscalized"}
       /\ row'.code = row.code
    \/ Registered' = Registered /\ row'.code \in Past(Registered)

\* what a step does to a receipt that is shown
Shows ==
    Done(row) /\ ~Done(row') =>
        \E w \in Workers : /\ work[w].op = "apply" /\ ~work[w].fresh
                           /\ work'[w].op = "idle"

LEMMA StepKeeps ==
    ASSUME IInv, [Next]_vars
    PROVE  IInv' /\ RowSteps /\ Shows
  <1>1. ASSUME UNCHANGED <<row, docs>>
        PROVE  RowSteps /\ Shows
    BY <1>1 DEF RowSteps, Shows, Registered
  <1>2. CASE UNCHANGED vars
    BY <1>1, <1>2, StutterKeeps
  <1>3. CASE SetShift
    BY <1>1, <1>3, SetShiftKeeps
  <1>4. ASSUME NEW k \in Keys, Conclude(k)
        PROVE  IInv' /\ RowSteps /\ Shows
    BY <1>4, ConcludeKeeps DEF RowSteps, Shows
  <1>5. ASSUME NEW w \in Workers, Step(w)
        PROVE  IInv' /\ RowSteps /\ Shows
    <2>1. CASE \/ BeginIssue(w) \/ BeginSync(w) \/ BeginTask(w) \/ Task(w) \/ AutoOpen(w)
               \/ GetRow(w) \/ ReadRow(w) \/ Drop(w)
      BY <1>1, <2>1, AskingKeeps, ReadingLeavesRow
    <2>2. CASE AnswerOddly(w) \/ List(w) \/ NotListed(w) \/ Fail(w)
      BY <1>1, <2>2, AnsweredKeeps, ReadingLeavesRow
    <2>3. ASSUME NEW key \in Keys, CreateRow(w, key)
          PROVE  IInv' /\ RowSteps /\ Shows
      <3>1. ~row.exists
        BY <2>3 DEF CreateRow
      <3>2. ~Done(row)
        BY <3>1 DEF IInv, RowIsTrue, Done
      <3>3. QED
        BY <2>3, <3>2, CreateRowKeeps DEF RowSteps, Shows
    <2>4. CASE Accept(w)
      BY <2>4, AcceptKeeps DEF RowSteps, Shows
    <2>5. CASE Apply(w)
      <3>1. /\ IInv' /\ UNCHANGED docs /\ row'.key = row.key
            /\ row'.code \in Past(Registered)
            /\ work[w].fresh /\ Done(row) => Done(row')
        BY <2>5, ApplyKeeps
      <3>2. RowSteps
        BY <3>1 DEF RowSteps, Registered
      <3>3. work[w].op = "apply" /\ work'[w] = Idle
        BY <2>5 DEF Apply, SaveRow
      <3>4. QED
        BY <3>1, <3>2, <3>3, RowTypes DEF Shows
    <2>6. CASE StoreError(w)
      BY <2>6, StoreErrorKeeps DEF RowSteps, Shows, Registered, Done
    <2>7. QED
      BY <1>5, <2>1, <2>2, <2>3, <2>4, <2>5, <2>6 DEF Step
  <1>6. QED
    BY <1>2, <1>3, <1>4, <1>5 DEF Next

Told == Document = Registered

\* the document of the abstraction, counted over the keys, is that of the row's key
LEMMA DocumentRegistered ==
    ASSUME IInv
    PROVE  Document = Registered
  <1>1. Live \subseteq {row.key} /\ row.key \in Keys
    BY DEF IInv, TypeOK, Row, OneKey, Live
  <1>2. CASE Live = {}
    <2>1. Registered = "none"
      BY <1>1, <1>2 DEF Live, Registered
    <2>2. QED
      BY <1>2, <2>1 DEF Document
  <1>3. CASE Live = {row.key}
    <2>1. Cardinality(Live) = 1 /\ Live # {}
      BY <1>3, FS_Singleton
    <2>2. (CHOOSE k \in Live : TRUE) = row.key
      BY <1>3
    <2>3. QED
      BY <2>1, <2>2 DEF Document, Registered
  <1>4. QED
    BY <1>1, <1>2, <1>3

----------------------------------------------------------------------------
(* The theorems.                                                           *)

\* Everything the proofs know of a reachable state: one key, a row that tells what the
\* document has been, and requests whose answers are true of it.
THEOREM Invariance == Spec => []IInv
  <1>1. IInv /\ [Next]_vars => IInv'
    BY StepKeeps
  <1>2. QED
    BY <1>1, InitInvariant, PTL DEF Spec

\* The row, the documents and the requests always have their types.
THEOREM TypesAlways == Spec => []TypeOK
  <1>1. IInv => TypeOK
    BY DEF IInv
  <1>2. QED
    BY <1>1, Invariance, PTL

\* However many operators and tasks ask for the receipt of the order, and whatever of
\* their answers is lost, it is one document whose outcome is final, and the row shows
\* only states the document has been in: the service implements OneReceipt.
THEOREM OneReceiptImplemented == Spec => OneReceiptSpec
  <1>1. Init => Receipt!Init
    <2> SUFFICES ASSUME Init PROVE Receipt!Init
      OBVIOUS
    <2>1. IInv
      BY InitInvariant
    <2>2. row.key \in Keys /\ Registered = "none" /\ row.code = "none"
      BY <2>1, RowTypes DEF Init, IInv, TypeOK, Row, Registered
    <2>3. QED
      BY <2>1, <2>2, DocumentRegistered DEF Receipt!Init
  <1>2. IInv => Told
    BY DocumentRegistered DEF Told
  <1>3. (IInv /\ [Next]_vars /\ Told /\ Told') => [Receipt!Next]_<<Document, row.code>>
    BY StepKeeps DEF Told, RowSteps, Past, Receipt!Next, Receipt!Register, Receipt!Conclude,
                     Receipt!Learn
  <1>4. QED
    BY <1>1, <1>2, <1>3, Invariance, PTL DEF Spec, OneReceiptSpec, Receipt!Spec

\* A receipt that is shown with its link is withdrawn only by a request that saves over
\* a row that somebody else has saved since it read it.
THEOREM ShownReceiptsStay == Spec => ShownStays
  <1>1. IInv /\ [Next]_vars => [Shows]_vars
    BY StepKeeps
  <1>2. QED
    BY <1>1, Invariance, PTL DEF Spec, ShownStays, Shows
=============================================================================
