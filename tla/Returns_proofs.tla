--------------------------- MODULE Returns_proofs ---------------------------
(***************************************************************************)
(* Proofs about Returns, for every set of workers, requests and items: of  *)
(* what holds however many requests overlap, and of what holds of requests *)
(* served one after another (Serial).                                      *)
(***************************************************************************)
EXTENDS Returns, Sums

TypeInv ==
    /\ ret \in [ReturnIds -> RowOf(Nat)]
    /\ lastNumber \in Nat
    /\ work \in [Workers -> RequestOf(Nat)]

Shipped == {"in_transit", "received", "accepted", "refunded"}

TakenIn == {"accepted", "refunded"}

\* the facts recorded on a row keep up with its status
RowInv ==
    \A r \in ReturnIds : Exists(r) =>
        /\ ret[r].status \in Shipped => ret[r].tracked
        /\ ret[r].status \in TakenIn => ret[r].accepted
        /\ ret[r].accepted => ret[r].tracked
        /\ ret[r].paid => ret[r].accepted

\* what a request read may be stale, but the facts it proves of its row persist
WorkOK(k) ==
    /\ k.op \in {"tracking", "status", "comment"} =>
         k.id \in ReturnIds /\ ret[k.id].status # "absent"
    /\ k.op = "status" =>
         /\ k.target \in ALLOWED_STATUS_TRANSITIONS[k.seen.status]
         /\ Exists(k.id) =>
              /\ k.seen.status \in Shipped => ret[k.id].tracked
              /\ k.seen.status \in TakenIn => ret[k.id].accepted
              /\ k.seen.req = ret[k.id].req
              /\ k.target = "approved" => \A i \in Items : k.qty[i] <= ret[k.id].req[i]

WorkInv == \A w \in Workers : WorkOK(work[w])

IInv == TypeInv /\ RowInv /\ WorkInv /\ UniqueNumbers /\ ApprovedWithinRequested

----------------------------------------------------------------------------
(* Types.                                                                  *)

LEMMA RowTypes ==
    /\ Zero \in [Items -> Nat]
    /\ NoRow \in RowOf(Nat)
    /\ Idle \in RequestOf(Nat)
  BY DEF Zero, NoRow, Idle, RowOf, RequestOf, RowStates, Statuses, Ops

LEMMA LineRefundType ==
    ASSUME NEW q \in [Items -> Nat]
    PROVE  LineRefund(q) \in [Items -> Nat] /\ SumFunction(LineRefund(q)) \in Nat
  <1>1. \A i \in Items : Price[i] * q[i] \in Nat
    BY ReturnsAssumption
  <1>2. LineRefund(q) \in [Items -> Nat]
    BY <1>1 DEF LineRefund
  <1>3. SumFunctionOnSet(LineRefund(q), Items) \in Nat
    BY <1>2, SumType, ReturnsAssumption
  <1>4. QED
    BY <1>2, <1>3, SumOfAll

LEMMA QuantitiesType == Quantities \subseteq [Items -> Nat]
  BY ReturnsAssumption DEF Quantities

LEMMA InitType == Init => TypeInv
  <1> SUFFICES ASSUME Init PROVE TypeInv
    OBVIOUS
  <1>1. \A s \in {"approved", "in_transit"} : LegacyRow(s) \in RowOf(Nat)
    <2> SUFFICES ASSUME NEW s \in {"approved", "in_transit"}
                 PROVE  LegacyRow(s) \in RowOf(Nat)
      OBVIOUS
    <2> DEFINE q == [i \in Items |-> IF i \in Returnable THEN 1 ELSE 0]
    <2>1. q \in [Items -> Nat]
      OBVIOUS
    <2>2. LineRefund(q) \in [Items -> Nat] /\ SumFunction(LineRefund(q)) \in Nat
      BY <2>1, LineRefundType
    <2> HIDE DEF q
    <2>3. [NoRow EXCEPT !.status = s, !.number = 1, !.req = q, !.refund = LineRefund(q),
                  !.amount = SumFunction(LineRefund(q)),
                  !.tracked = (s = "in_transit")] \in RowOf(Nat)
      BY <2>1, <2>2, RowTypes DEF RowOf, RowStates, Statuses
    <2>4. QED
      BY <2>3 DEF LegacyRow, q
  <1>2. Cardinality(Legacy) \in Nat
    <2>1. IsFiniteSet(Legacy)
      BY FS_Subset, ReturnsAssumption
    <2>2. QED
      BY <2>1, FS_CardinalityType
  <1>3. ret \in [ReturnIds -> RowOf(Nat)]
    BY <1>1, RowTypes DEF Init
  <1>4. QED
    BY <1>2, <1>3, RowTypes DEF Init, TypeInv

LEMMA TransitionType ==
    ASSUME NEW row \in RowOf(Nat), NEW target \in Statuses
    PROVE  /\ Transition(row, target) \in RowOf(Nat)
           /\ Transition(row, target).status = target
           /\ Transition(row, target).number = row.number
           /\ Transition(row, target).req = row.req
           /\ Transition(row, target).appr = row.appr
           /\ Transition(row, target).refund = row.refund
           /\ Transition(row, target).amount = row.amount
           /\ Transition(row, target).tracked = row.tracked
           /\ Transition(row, target).accepted = (row.accepted \/ target = "accepted")
           /\ Transition(row, target).paid = (row.paid \/ target = "refunded")
  <1> DEFINE acc == row.accepted \/ target = "accepted"
             pd == row.paid \/ target = "refunded"
  <1>1. acc \in BOOLEAN /\ pd \in BOOLEAN
    OBVIOUS
  <1>2. Transition(row, target) = [row EXCEPT !.status = target, !.accepted = acc, !.paid = pd]
    BY DEF Transition, RowOf
  <1> HIDE DEF acc, pd
  <1>3. Transition(row, target) \in RowOf(Nat)
    BY <1>1, <1>2 DEF RowOf, RowStates
  <1>4. /\ Transition(row, target).status = target
        /\ Transition(row, target).number = row.number
        /\ Transition(row, target).req = row.req
        /\ Transition(row, target).appr = row.appr
        /\ Transition(row, target).refund = row.refund
        /\ Transition(row, target).amount = row.amount
        /\ Transition(row, target).tracked = row.tracked
    BY <1>2 DEF RowOf
  <1>5. Transition(row, target).accepted = acc /\ Transition(row, target).paid = pd
    BY <1>2 DEF RowOf
  <1>6. QED
    BY <1>3, <1>4, <1>5 DEF acc, pd

LEMMA ApproveType ==
    ASSUME NEW row \in RowOf(Nat), NEW seen \in RowOf(Nat), NEW a \in [Items -> Nat]
    PROVE  LET new == Approve(row, seen, a) IN
           /\ new \in RowOf(Nat)
           /\ new.status = row.status /\ new.number = row.number /\ new.req = row.req
           /\ new.tracked = row.tracked /\ new.accepted = row.accepted /\ new.paid = row.paid
           /\ \A i \in Items : new.appr[i] \in {row.appr[i], a[i]}
  <1> DEFINE saved == {i \in Items : seen.req[i] > 0
                         /\ (seen.appr[i] # a[i] \/ seen.refund[i] # Price[i] * a[i])}
             appr == [i \in Items |-> IF i \in saved THEN a[i] ELSE row.appr[i]]
             refund == [i \in Items |-> IF i \in saved THEN Price[i] * a[i] ELSE row.refund[i]]
             amount == SumFunction(LineRefund(a))
  <1>1. Approve(row, seen, a)
          = [row EXCEPT !.appr = appr, !.refund = refund, !.amount = amount]
    BY Zenon DEF Approve, RowOf
  <1>2. amount \in Nat
    BY LineRefundType
  <1>3. \A i \in Items : Price[i] * a[i] \in Nat
    BY ReturnsAssumption
  <1>4. appr \in [Items -> Nat] /\ refund \in [Items -> Nat]
    BY <1>3 DEF RowOf
  <1>5. \A i \in Items : appr[i] \in {row.appr[i], a[i]}
    OBVIOUS
  <1> HIDE DEF saved, appr, refund, amount
  <1>6. Approve(row, seen, a)
          = [status |-> row.status, number |-> row.number, req |-> row.req, appr |-> appr,
             refund |-> refund, amount |-> amount, tracked |-> row.tracked,
             accepted |-> row.accepted, paid |-> row.paid]
    BY <1>1 DEF RowOf
  <1>7. QED
    BY <1>2, <1>4, <1>5, <1>6 DEF RowOf

LEMMA FillLegacyType ==
    ASSUME NEW row \in RowOf(Nat), NEW seen \in RowOf(Nat)
    PROVE  LET new == FillLegacy(row, seen) IN
           /\ new \in RowOf(Nat)
           /\ new.status = row.status /\ new.number = row.number /\ new.req = row.req
           /\ new.tracked = row.tracked /\ new.accepted = row.accepted /\ new.paid = row.paid
           /\ new.appr \in {row.appr, seen.req}
  <1>1. CASE \E i \in Items : seen.appr[i] > 0
    BY <1>1 DEF FillLegacy
  <1>2. CASE ~ \E i \in Items : seen.appr[i] > 0
    <2> DEFINE refund == LineRefund(seen.req)
               amount == SumFunction(LineRefund(seen.req))
    <2>1. seen.req \in [Items -> Nat]
      BY DEF RowOf
    <2>2. refund \in [Items -> Nat] /\ amount \in Nat
      BY <2>1, LineRefundType
    <2>3. FillLegacy(row, seen)
            = [row EXCEPT !.appr = seen.req, !.refund = refund, !.amount = amount]
      BY <1>2, Zenon DEF FillLegacy
    <2> HIDE DEF refund, amount
    <2>4. FillLegacy(row, seen)
            = [status |-> row.status, number |-> row.number, req |-> row.req, appr |-> seen.req,
               refund |-> refund, amount |-> amount, tracked |-> row.tracked,
               accepted |-> row.accepted, paid |-> row.paid]
      BY <2>3 DEF RowOf
    <2>5. QED
      BY <2>1, <2>2, <2>4 DEF RowOf
  <1>3. QED
    BY <1>1, <1>2

----------------------------------------------------------------------------
(* What each action does, as far as the invariant needs it.                *)

\* An action writes at most one row, and no worker but its own.
Writes(r, new) ==
    /\ ret' = [ret EXCEPT ![r] = new]
    /\ new \in RowOf(Nat)

LEMMA BeginEffect ==
    ASSUME TypeInv, NEW w \in Workers, NEW request \in RequestOf(Nat),
           Serve(w, request), UNCHANGED <<ret, lastNumber>>
    PROVE  /\ TypeInv'
           /\ work'[w] = request
           /\ \A v \in Workers \ {w} : work'[v] = work[v]
  BY DEF TypeInv, Serve

LEMMA FinishEffect ==
    ASSUME TypeInv, NEW w \in Workers, Finish(w)
    PROVE  /\ work' \in [Workers -> RequestOf(Nat)]
           /\ work'[w] = Idle
           /\ \A v \in Workers \ {w} : work'[v] = work[v]
  BY RowTypes DEF TypeInv, Finish

LEMMA EndStatusEffect ==
    ASSUME TypeInv, WorkInv, NEW w \in Workers, EndStatus(w), Exists(work[w].id)
    PROVE  LET k == work[w]
               new == ret'[k.id] IN
           /\ Writes(k.id, new)
           /\ new.status = k.target
           /\ new.number = ret[k.id].number
           /\ new.req = ret[k.id].req
           /\ new.tracked = ret[k.id].tracked
           /\ new.accepted = (ret[k.id].accepted \/ k.target = "accepted")
           /\ new.paid = (ret[k.id].paid \/ k.target = "refunded")
           /\ \/ k.target = "approved"
                  /\ \A i \in Items : new.appr[i] \in {ret[k.id].appr[i], k.qty[i]}
              \/ new.appr = ret[k.id].appr
              \/ new.appr = k.seen.req
  <1> DEFINE k == work[w]
             moved == Transition(ret[k.id], k.target)
             new == CASE k.target = "approved" -> Approve(moved, k.seen, k.qty)
                      [] k.target = "accepted" -> FillLegacy(moved, k.seen)
                      [] OTHER -> moved
  <1>1. /\ k \in RequestOf(Nat)
        /\ k.id \in ReturnIds
        /\ ret[k.id] \in RowOf(Nat)
        /\ k.seen \in RowOf(Nat)
        /\ k.qty \in [Items -> Nat]
    BY DEF TypeInv, WorkInv, WorkOK, EndStatus, RequestOf
  <1>2. k.target \in Statuses
    BY <1>1 DEF WorkInv, WorkOK, EndStatus, ALLOWED_STATUS_TRANSITIONS, Statuses, RowStates,
                RequestOf, RowOf
  <1>3. ret' = [ret EXCEPT ![k.id] = new]
    BY DEF EndStatus
  <1>4. ret'[k.id] = new
    BY <1>1, <1>3 DEF TypeInv
  <1> HIDE DEF k
  <1>5. /\ moved \in RowOf(Nat)
        /\ moved.status = k.target
        /\ moved.number = ret[k.id].number
        /\ moved.req = ret[k.id].req
        /\ moved.appr = ret[k.id].appr
        /\ moved.tracked = ret[k.id].tracked
        /\ moved.accepted = (ret[k.id].accepted \/ k.target = "accepted")
        /\ moved.paid = (ret[k.id].paid \/ k.target = "refunded")
    BY <1>1, <1>2, TransitionType
  <1> HIDE DEF moved
  <1>6. CASE k.target = "approved"
    <2>1. new = Approve(moved, k.seen, k.qty)
      BY <1>6
    <2> HIDE DEF new
    <2>2. /\ new \in RowOf(Nat)
          /\ new.status = moved.status /\ new.number = moved.number /\ new.req = moved.req
          /\ new.tracked = moved.tracked /\ new.accepted = moved.accepted
          /\ new.paid = moved.paid
          /\ \A i \in Items : new.appr[i] \in {moved.appr[i], k.qty[i]}
      BY <1>1, <1>5, <2>1, ApproveType
    <2>3. Writes(k.id, new)
      BY <1>3, <2>2 DEF Writes
    <2>4. QED
      BY <1>4, <1>5, <1>6, <2>2, <2>3 DEF k
  <1>7. CASE k.target = "accepted"
    <2>1. new = FillLegacy(moved, k.seen)
      BY <1>7
    <2> HIDE DEF new
    <2>2. /\ new \in RowOf(Nat)
          /\ new.status = moved.status /\ new.number = moved.number /\ new.req = moved.req
          /\ new.tracked = moved.tracked /\ new.accepted = moved.accepted
          /\ new.paid = moved.paid
          /\ new.appr \in {moved.appr, k.seen.req}
      BY <1>1, <1>5, <2>1, FillLegacyType
    <2>3. Writes(k.id, new)
      BY <1>3, <2>2 DEF Writes
    <2>4. QED
      BY <1>4, <1>5, <1>7, <2>2, <2>3 DEF k
  <1>8. CASE k.target \notin {"approved", "accepted"}
    <2>1. new = moved
      BY <1>8
    <2>2. QED
      BY <1>3, <1>4, <1>5, <1>8, <2>1 DEF Writes, k
  <1>9. QED
    BY <1>6, <1>7, <1>8

----------------------------------------------------------------------------
(* The invariant is inductive.                                             *)

\* A row that exists keeps its quantities and what was recorded on it.
Persist ==
    \A r \in ReturnIds : ret[r].status # "absent" =>
        /\ ret'[r].status # "absent"
        /\ Exists(r)' => /\ Exists(r)
                         /\ ret'[r].req = ret[r].req
                         /\ ret[r].tracked => ret'[r].tracked
                         /\ ret[r].accepted => ret'[r].accepted

LEMMA WorkPersists ==
    ASSUME NEW k, WorkOK(k), Persist
    PROVE  /\ k.op \in {"tracking", "status", "comment"} =>
                k.id \in ReturnIds /\ ret'[k.id].status # "absent"
           /\ k.op = "status" =>
                /\ k.target \in ALLOWED_STATUS_TRANSITIONS[k.seen.status]
                /\ Exists(k.id)' =>
                     /\ k.seen.status \in Shipped => ret'[k.id].tracked
                     /\ k.seen.status \in TakenIn => ret'[k.id].accepted
                     /\ k.seen.req = ret'[k.id].req
                     /\ k.target = "approved" => \A i \in Items : k.qty[i] <= ret'[k.id].req[i]
  BY DEF WorkOK, Persist, Exists

LEMMA OthersKeepWorking ==
    ASSUME WorkInv, Persist, NEW w \in Workers,
           \A v \in Workers \ {w} : work'[v] = work[v],
           work'[w].op = "idle"
    PROVE  WorkInv'
  <1> SUFFICES ASSUME NEW v \in Workers PROVE WorkOK(work[v])'
    BY DEF WorkInv
  <1>1. CASE v = w
    BY <1>1 DEF WorkOK
  <1>2. CASE v # w
    <2>1. WorkOK(work[v]) /\ work'[v] = work[v]
      BY <1>2 DEF WorkInv
    <2> DEFINE k == work[v]
    <2>2. WorkOK(k)
      BY <2>1
    <2> HIDE DEF k
    <2>3. QED
      BY <2>1, <2>2, WorkPersists DEF WorkOK, k
  <1>3. QED
    BY <1>1, <1>2

LEMMA BeginKeeps ==
    ASSUME IInv, NEW w \in Workers, NEW request \in RequestOf(Nat), WorkOK(request),
           Serve(w, request), UNCHANGED <<ret, lastNumber>>
    PROVE  IInv'
  <1>1. /\ TypeInv'
        /\ work'[w] = request
        /\ \A v \in Workers \ {w} : work'[v] = work[v]
    BY BeginEffect DEF IInv
  <1>2. RowInv' /\ UniqueNumbers' /\ ApprovedWithinRequested'
    BY DEF IInv, RowInv, UniqueNumbers, ApprovedWithinRequested, Exists
  <1>3. WorkInv'
    <2> SUFFICES ASSUME NEW v \in Workers PROVE WorkOK(work[v])'
      BY DEF WorkInv
    <2>1. work'[v] = work[v] \/ work'[v] = request
      BY <1>1
    <2>2. QED
      BY <2>1 DEF IInv, WorkInv, WorkOK, Exists
  <1>4. QED
    BY <1>1, <1>2, <1>3 DEF IInv

LEMMA BeginCreateKeeps ==
    ASSUME IInv, NEW w \in Workers, NEW q \in [Items -> Nat], BeginCreate(w, q)
    PROVE  IInv'
  <1> DEFINE request == [Idle EXCEPT !.op = "create", !.qty = q]
  <1>1. request \in RequestOf(Nat) /\ request.op = "create"
    BY RowTypes DEF RequestOf, Ops, Idle
  <1>2. Serve(w, request) /\ UNCHANGED <<ret, lastNumber>>
    BY DEF BeginCreate
  <1> HIDE DEF request
  <1>3. WorkOK(request)
    BY <1>1 DEF WorkOK
  <1>4. QED
    BY <1>1, <1>2, <1>3, BeginKeeps

LEMMA GlanceType ==
    ASSUME TypeInv, NEW r \in ReturnIds
    PROVE  Glance(r) \in RowOf(Nat)
  BY RowTypes DEF TypeInv, Glance, RowOf

LEMMA BeginReadKeeps ==
    ASSUME IInv, NEW w \in Workers, NEW r \in ReturnIds,
           BeginTracking(w, r) \/ BeginComment(w, r)
    PROVE  IInv'
  <1> DEFINE request(op) == [Idle EXCEPT !.op = op, !.id = r, !.seen = Glance(r)]
  <1>1. \A op \in {"tracking", "comment"} :
            request(op) \in RequestOf(Nat) /\ request(op).op = op /\ request(op).id = r
    BY RowTypes, GlanceType DEF IInv, RequestOf, Ops, Idle
  <1>2. PICK op \in {"tracking", "comment"} :
            Serve(w, request(op)) /\ UNCHANGED <<ret, lastNumber>>
    BY DEF BeginTracking, BeginComment
  <1>3. ret[r].status # "absent"
    BY DEF BeginTracking, BeginComment, Exists, Statuses
  <1> HIDE DEF request
  <1>4. WorkOK(request(op))
    BY <1>1, <1>3 DEF WorkOK
  <1>5. QED
    BY <1>1, <1>2, <1>4, BeginKeeps

LEMMA ReadForStatusKeeps ==
    ASSUME IInv, NEW w \in Workers, NEW r \in ReturnIds, NEW target, NEW a \in [Items -> Nat],
           ReadForStatus(w, r, target, a),
           target = "approved" => \A i \in Items : a[i] <= ret[r].req[i]
    PROVE  IInv'
  <1> DEFINE request == [op |-> "status", id |-> r, seen |-> ret[r], qty |-> a,
                         target |-> target]
  <1>1. target \in Statuses
    BY DEF ReadForStatus, CanMove, ALLOWED_STATUS_TRANSITIONS, Exists, Statuses, RowStates
  <1>2. request \in RequestOf(Nat)
    BY <1>1 DEF IInv, TypeInv, RequestOf, Ops, RowStates
  <1>3. WorkOK(request)
    BY DEF WorkOK, ReadForStatus, CanMove, IInv, RowInv, Exists, Statuses
  <1>4. QED
    BY <1>2, <1>3, BeginKeeps DEF ReadForStatus

LEMMA BeginStatusKeeps ==
    ASSUME IInv, NEW w \in Workers, NEW r \in ReturnIds,
           \/ \E target \in Statuses : BeginStatus(w, r, target)
           \/ \E a \in Quantities : BeginApproval(w, r, a)
    PROVE  IInv'
  <1>1. ASSUME NEW target \in Statuses, BeginStatus(w, r, target) PROVE IInv'
    BY <1>1, RowTypes, ReadForStatusKeeps DEF BeginStatus
  <1>2. ASSUME NEW a \in Quantities, BeginApproval(w, r, a) PROVE IInv'
    BY <1>2, QuantitiesType, ReadForStatusKeeps DEF BeginApproval
  <1>3. QED
    BY <1>1, <1>2

\* the facts about one row that writing it must keep
RowOK(row) ==
    row.status \in Statuses =>
        /\ row.status \in Shipped => row.tracked
        /\ row.status \in TakenIn => row.accepted
        /\ row.accepted => row.tracked
        /\ row.paid => row.accepted
        /\ \A i \in Items : row.appr[i] <= row.req[i]

\* Writing a row that was there, with its number, keeps the invariants of the rows.
LEMMA WriteKeeps ==
    ASSUME IInv, NEW r \in ReturnIds, NEW new, Writes(r, new), RowOK(new),
           ret[r].status # "absent", new.status # "absent",
           new.number = ret[r].number, lastNumber' = lastNumber
    PROVE  /\ ret' \in [ReturnIds -> RowOf(Nat)]
           /\ RowInv' /\ UniqueNumbers' /\ ApprovedWithinRequested'
  <1>1. /\ ret' \in [ReturnIds -> RowOf(Nat)]
        /\ ret'[r] = new
        /\ \A s \in ReturnIds \ {r} : ret'[s] = ret[s]
    BY DEF IInv, TypeInv, Writes
  <1>2. RowInv' /\ ApprovedWithinRequested'
    BY <1>1 DEF IInv, RowInv, ApprovedWithinRequested, RowOK, Exists
  <1>3. \A s \in ReturnIds :
            /\ ret'[s].number = ret[s].number
            /\ ret'[s].status = "absent" <=> ret[s].status = "absent"
    BY <1>1
  <1>4. UniqueNumbers'
    BY <1>3 DEF IInv, UniqueNumbers
  <1>5. QED
    BY <1>1, <1>2, <1>4

LEMMA EndTrackingKeeps ==
    ASSUME IInv, NEW w \in Workers, EndTracking(w)
    PROVE  IInv'
  <1> DEFINE r == work[w].id
  <1>1. r \in ReturnIds /\ ret[r].status # "absent" /\ ret[r] \in RowOf(Nat)
    BY DEF IInv, TypeInv, WorkInv, WorkOK, EndTracking
  <1>2. /\ work' \in [Workers -> RequestOf(Nat)]
        /\ work'[w] = Idle
        /\ \A v \in Workers \ {w} : work'[v] = work[v]
    BY FinishEffect DEF IInv, EndTracking
  <1>3. work'[w].op = "idle"
    BY <1>2 DEF Idle
  <1>4. CASE Exists(r)
    <2> DEFINE new == [ret[r] EXCEPT !.status = "in_transit", !.tracked = TRUE]
    <2>1. /\ new \in RowOf(Nat)
          /\ new.status = "in_transit" /\ new.tracked = TRUE
          /\ new.number = ret[r].number /\ new.req = ret[r].req /\ new.appr = ret[r].appr
          /\ new.accepted = ret[r].accepted /\ new.paid = ret[r].paid
      BY <1>1 DEF RowOf, RowStates, Statuses
    <2>2. ret' = [ret EXCEPT ![r] = new]
      BY <1>1, <1>4 DEF EndTracking, IInv, TypeInv
    <2> HIDE DEF new
    <2>3. Writes(r, new)
      BY <2>1, <2>2 DEF Writes
    <2>4. RowOK(new)
      BY <1>1, <1>4, <2>1 DEF RowOK, IInv, RowInv, ApprovedWithinRequested, Shipped, TakenIn
    <2>5. /\ ret' \in [ReturnIds -> RowOf(Nat)]
          /\ RowInv' /\ UniqueNumbers' /\ ApprovedWithinRequested'
      BY <1>1, <2>1, <2>3, <2>4, WriteKeeps DEF EndTracking
    <2>6. Persist
      BY <1>4, <2>1, <2>2 DEF Persist, Exists, IInv, TypeInv
    <2>7. WorkInv'
      BY <1>2, <1>3, <2>6, OthersKeepWorking DEF IInv
    <2>8. QED
      BY <1>2, <2>5, <2>7 DEF IInv, TypeInv, EndTracking
  <1>5. CASE ~Exists(r)
    <2>1. UNCHANGED <<ret, lastNumber>>
      BY <1>5 DEF EndTracking
    <2>2. RowInv' /\ UniqueNumbers' /\ ApprovedWithinRequested' /\ Persist
      BY <2>1 DEF IInv, RowInv, UniqueNumbers, ApprovedWithinRequested, Exists, Persist
    <2>3. WorkInv'
      BY <1>2, <1>3, <2>2, OthersKeepWorking DEF IInv
    <2>4. QED
      BY <1>2, <2>1, <2>2, <2>3 DEF IInv, TypeInv
  <1>6. QED
    BY <1>4, <1>5

LEMMA EndStatusKeeps ==
    ASSUME IInv, NEW w \in Workers, EndStatus(w)
    PROVE  IInv'
  <1> DEFINE k == work[w]
             r == k.id
             new == ret'[r]
  <1>1. /\ r \in ReturnIds /\ ret[r].status # "absent" /\ ret[r] \in RowOf(Nat)
        /\ k.op = "status" /\ WorkOK(k)
    BY DEF IInv, TypeInv, WorkInv, WorkOK, EndStatus
  <1>2. /\ work' \in [Workers -> RequestOf(Nat)]
        /\ work'[w] = Idle
        /\ \A v \in Workers \ {w} : work'[v] = work[v]
        /\ lastNumber' = lastNumber
    BY FinishEffect DEF IInv, EndStatus
  <1>3. work'[w].op = "idle"
    BY <1>2 DEF Idle
  <1>4. CASE Exists(r)
    <2>1. /\ Writes(r, new)
          /\ new.status = k.target
          /\ new.number = ret[r].number
          /\ new.req = ret[r].req
          /\ new.tracked = ret[r].tracked
          /\ new.accepted = (ret[r].accepted \/ k.target = "accepted")
          /\ new.paid = (ret[r].paid \/ k.target = "refunded")
          /\ \/ k.target = "approved"
                 /\ \A i \in Items : new.appr[i] \in {ret[r].appr[i], k.qty[i]}
             \/ new.appr = ret[r].appr
             \/ new.appr = k.seen.req
      BY <1>4, EndStatusEffect DEF IInv
    <2> HIDE DEF new
    <2>2. new \in RowOf(Nat) /\ k \in RequestOf(Nat)
      BY <2>1 DEF Writes, IInv, TypeInv
    <2> HIDE DEF k
    <2>3. /\ k.seen.status \in RowStates
          /\ k.target \in ALLOWED_STATUS_TRANSITIONS[k.seen.status]
          /\ k.seen.status \in Shipped => ret[r].tracked
          /\ k.seen.status \in TakenIn => ret[r].accepted
          /\ k.seen.req = ret[r].req
          /\ k.target = "approved" => \A i \in Items : k.qty[i] <= ret[r].req[i]
      BY <1>1, <1>4, <2>2 DEF WorkOK, RequestOf, RowOf
    <2>4. /\ k.target \in Shipped => k.seen.status \in Shipped
          /\ k.target = "accepted" => k.seen.status \in Shipped
          /\ k.target = "refunded" => k.seen.status = "accepted"
          /\ k.target \in Statuses
      BY <2>3 DEF ALLOWED_STATUS_TRANSITIONS, RowStates, Statuses, Shipped
    <2>5. /\ ret[r].accepted => ret[r].tracked
          /\ ret[r].paid => ret[r].accepted
          /\ \A i \in Items : ret[r].appr[i] <= ret[r].req[i]
      BY <1>1, <1>4 DEF IInv, RowInv, ApprovedWithinRequested
    <2>6. \A i \in Items : new.appr[i] <= new.req[i]
      <3>1. ret[r].req \in [Items -> Nat]
        BY <1>1 DEF RowOf
      <3>2. QED
        BY <2>1, <2>3, <2>5, <3>1
    <2>7. RowOK(new)
      BY <2>1, <2>3, <2>4, <2>5, <2>6 DEF RowOK, Shipped, TakenIn
    <2>8. new.status # "absent"
      BY <2>1, <2>4 DEF Statuses
    <2>9. /\ ret' \in [ReturnIds -> RowOf(Nat)]
          /\ RowInv' /\ UniqueNumbers' /\ ApprovedWithinRequested'
      BY <1>1, <1>2, <2>1, <2>7, <2>8, WriteKeeps
    <2>10. Persist
      BY <1>4, <2>1, <2>8 DEF Persist, Exists, IInv, TypeInv, Writes
    <2>11. WorkInv'
      BY <1>2, <1>3, <2>10, OthersKeepWorking DEF IInv
    <2>12. QED
      BY <1>2, <2>9, <2>11 DEF IInv, TypeInv
  <1>5. CASE ~Exists(r)
    <2>1. UNCHANGED <<ret, lastNumber>>
      BY <1>5 DEF EndStatus
    <2>2. RowInv' /\ UniqueNumbers' /\ ApprovedWithinRequested' /\ Persist
      BY <2>1 DEF IInv, RowInv, UniqueNumbers, ApprovedWithinRequested, Exists, Persist
    <2>3. WorkInv'
      BY <1>2, <1>3, <2>2, OthersKeepWorking DEF IInv
    <2>4. QED
      BY <1>2, <2>1, <2>2, <2>3 DEF IInv, TypeInv
  <1>6. QED
    BY <1>4, <1>5

LEMMA EndCommentKeeps ==
    ASSUME IInv, NEW w \in Workers, EndComment(w)
    PROVE  IInv'
  <1>1. /\ work' \in [Workers -> RequestOf(Nat)]
        /\ work'[w] = Idle
        /\ \A v \in Workers \ {w} : work'[v] = work[v]
        /\ UNCHANGED <<ret, lastNumber>>
    BY FinishEffect DEF IInv, EndComment
  <1>2. RowInv' /\ UniqueNumbers' /\ ApprovedWithinRequested' /\ Persist
    BY <1>1 DEF IInv, RowInv, UniqueNumbers, ApprovedWithinRequested, Exists, Persist
  <1>3. work'[w].op = "idle"
    BY <1>1 DEF Idle
  <1>4. WorkInv'
    BY <1>1, <1>2, <1>3, OthersKeepWorking DEF IInv
  <1>5. QED
    BY <1>1, <1>2, <1>4 DEF IInv, TypeInv

LEMMA DeleteKeeps ==
    ASSUME IInv, NEW w \in Workers, NEW r \in ReturnIds, Delete(w, r)
    PROVE  IInv'
  <1> DEFINE new == [NoRow EXCEPT !.status = "deleted", !.number = ret[r].number]
  <1>1. ret[r] \in RowOf(Nat) /\ ret[r].status # "absent"
    BY DEF IInv, TypeInv, Delete, Exists, Statuses
  <1>2. new \in RowOf(Nat) /\ new.status = "deleted" /\ new.number = ret[r].number
    BY <1>1, RowTypes DEF RowOf, RowStates
  <1>3. Writes(r, new)
    BY <1>2 DEF Delete, Writes
  <1> HIDE DEF new
  <1>4. RowOK(new) /\ new.status # "absent"
    BY <1>2 DEF RowOK, Statuses
  <1>5. /\ ret' \in [ReturnIds -> RowOf(Nat)]
        /\ RowInv' /\ UniqueNumbers' /\ ApprovedWithinRequested'
    BY <1>1, <1>2, <1>3, <1>4, WriteKeeps DEF Delete
  <1>6. Persist
    BY <1>2, <1>3 DEF Persist, Exists, IInv, TypeInv, Writes, Statuses
  <1>7. WorkInv'
    <2> SUFFICES ASSUME NEW v \in Workers PROVE WorkOK(work[v])'
      BY DEF WorkInv
    <2>1. WorkOK(work[v]) /\ work'[v] = work[v]
      BY DEF IInv, WorkInv, Delete
    <2> DEFINE k == work[v]
    <2>2. WorkOK(k)
      BY <2>1
    <2> HIDE DEF k
    <2>3. QED
      BY <1>6, <2>1, <2>2, WorkPersists DEF WorkOK, k
  <1>8. QED
    BY <1>5, <1>7 DEF IInv, TypeInv, Delete

LEMMA EndCreateKeeps ==
    ASSUME IInv, NEW w \in Workers, NEW r \in ReturnIds, EndCreate(w, r)
    PROVE  IInv'
  <1> DEFINE q == work[w].qty
             new == [NoRow EXCEPT !.status = "new", !.number = NextNumber,
                                  !.req = q, !.refund = LineRefund(q),
                                  !.amount = SumFunction(LineRefund(q))]
  <1>1. q \in [Items -> Nat] /\ lastNumber \in Nat /\ ret[r].status = "absent"
    BY DEF IInv, TypeInv, EndCreate, RequestOf
  <1>2. LineRefund(q) \in [Items -> Nat] /\ SumFunction(LineRefund(q)) \in Nat
    BY <1>1, LineRefundType
  <1>3. ret' = [ret EXCEPT ![r] = new]
    BY DEF EndCreate
  <1> HIDE DEF q
  <1>4. new \in RowOf(Nat)
    <2> DEFINE n == NextNumber
               lines == LineRefund(q)
               total == SumFunction(LineRefund(q))
    <2>1. n \in Nat /\ q \in [Items -> Nat] /\ lines \in [Items -> Nat] /\ total \in Nat
      BY <1>1, <1>2 DEF NextNumber
    <2>2. new = [NoRow EXCEPT !.status = "new", !.number = n, !.req = q,
                              !.refund = lines, !.amount = total]
      OBVIOUS
    <2> HIDE DEF n, lines, total, new
    <2>3. [NoRow EXCEPT !.status = "new", !.number = n, !.req = q,
                        !.refund = lines, !.amount = total] \in RowOf(Nat)
      BY <2>1, RowTypes DEF RowOf, RowStates, Statuses
    <2>4. QED
      BY <2>2, <2>3
  <1>5. /\ new.status = "new" /\ new.number = lastNumber + 1
        /\ new.appr = Zero /\ new.req = q
        /\ ~new.accepted /\ ~new.paid
    BY DEF NoRow, NextNumber
  <1> HIDE DEF new
  <1>6. /\ ret' \in [ReturnIds -> RowOf(Nat)]
        /\ ret'[r] = new
        /\ \A s \in ReturnIds \ {r} : ret'[s] = ret[s]
        /\ lastNumber' = lastNumber + 1
    BY <1>3, <1>4 DEF IInv, TypeInv, EndCreate, NextNumber
  <1>7. RowInv'
    BY <1>5, <1>6 DEF IInv, RowInv, Exists, Shipped, TakenIn
  <1>8. ApprovedWithinRequested'
    <2>1. \A i \in Items : new.appr[i] <= new.req[i]
      BY <1>1, <1>5 DEF Zero
    <2>2. QED
      BY <1>6, <2>1 DEF IInv, ApprovedWithinRequested, Exists
  <1>9. UniqueNumbers'
    <2>1. ASSUME NEW s \in ReturnIds, ret'[s].status # "absent"
          PROVE  ret'[s].number \in 1..lastNumber' /\ (s # r => ret'[s].number # lastNumber + 1)
      BY <1>1, <1>5, <1>6, <2>1 DEF IInv, UniqueNumbers
    <2>2. ASSUME NEW s \in ReturnIds, NEW t \in ReturnIds, s # t,
                 ret'[s].status # "absent", ret'[t].status # "absent"
          PROVE  ret'[s].number # ret'[t].number
      <3>1. CASE s = r
        BY <1>5, <1>6, <2>1, <2>2, <3>1
      <3>2. CASE t = r
        BY <1>5, <1>6, <2>1, <2>2, <3>2
      <3>3. CASE s # r /\ t # r
        BY <1>6, <2>2, <3>3 DEF IInv, UniqueNumbers
      <3>4. QED
        BY <3>1, <3>2, <3>3
    <2>3. QED
      BY <2>1, <2>2 DEF UniqueNumbers
  <1>10. /\ work' \in [Workers -> RequestOf(Nat)]
         /\ work'[w] = Idle
         /\ \A v \in Workers \ {w} : work'[v] = work[v]
    BY FinishEffect DEF IInv, EndCreate
  <1>11. Persist
    BY <1>1, <1>6 DEF Persist, Exists
  <1>12. work'[w].op = "idle"
    BY <1>10 DEF Idle
  <1>13. WorkInv'
    BY <1>10, <1>11, <1>12, OthersKeepWorking DEF IInv
  <1>14. QED
    BY <1>1, <1>6, <1>7, <1>8, <1>9, <1>10, <1>13 DEF IInv, TypeInv

LEMMA InitIInv == Init => IInv
  <1> SUFFICES ASSUME Init PROVE IInv
    OBVIOUS
  <1>1. TypeInv
    BY InitType
  <1>2. WorkInv
    BY DEF Init, WorkInv, WorkOK, Idle
  <1>3. PICK s \in {"approved", "in_transit"} :
            ret = [r \in ReturnIds |-> IF r \in Legacy THEN LegacyRow(s) ELSE NoRow]
    BY DEF Init
  <1>4. /\ LegacyRow(s).status = s /\ LegacyRow(s).number = 1
        /\ LegacyRow(s).tracked = (s = "in_transit")
        /\ ~LegacyRow(s).accepted /\ ~LegacyRow(s).paid
        /\ LegacyRow(s).appr = Zero
    BY DEF LegacyRow, NoRow
  <1>5. NoRow.status = "absent"
    BY DEF NoRow
  <1>6. RowInv
    BY <1>3, <1>4, <1>5 DEF RowInv, Exists, Statuses, Shipped, TakenIn
  <1>7. ApprovedWithinRequested
    <2> SUFFICES ASSUME NEW r \in ReturnIds, NEW i \in Items, Exists(r)
                 PROVE  ret[r].appr[i] <= ret[r].req[i]
      BY DEF ApprovedWithinRequested
    <2>1. ret[r] = LegacyRow(s)
      BY <1>3, <1>5 DEF Exists, Statuses
    <2>2. ret[r].appr[i] = 0
      BY <1>4, <2>1 DEF Zero
    <2>3. ret[r].req[i] \in Nat
      BY <1>1 DEF TypeInv, RowOf
    <2>4. QED
      BY <2>2, <2>3
  <1>8. UniqueNumbers
    <2>1. \A r \in ReturnIds : ret[r].status # "absent" => r \in Legacy /\ ret[r].number = 1
      BY <1>3, <1>4, <1>5
    <2>2. ASSUME NEW r \in Legacy PROVE lastNumber = 1
      <3>1. Legacy = {r}
        BY ReturnsAssumption
      <3>2. QED
        BY <3>1, FS_Singleton DEF Init
    <2>3. QED
      BY <2>1, <2>2, ReturnsAssumption DEF UniqueNumbers
  <1>9. QED
    BY <1>1, <1>2, <1>6, <1>7, <1>8 DEF IInv

LEMMA NextIInv == IInv /\ [Next]_vars => IInv'
  <1> SUFFICES ASSUME IInv, [Next]_vars PROVE IInv'
    OBVIOUS
  <1>1. ASSUME NEW w \in Workers, NEW q \in Quantities, BeginCreate(w, q) PROVE IInv'
    BY <1>1, QuantitiesType, BeginCreateKeeps
  <1>2. ASSUME NEW w \in Workers, NEW r \in ReturnIds, EndCreate(w, r) PROVE IInv'
    BY <1>2, EndCreateKeeps
  <1>3. ASSUME NEW w \in Workers, NEW r \in ReturnIds,
               BeginTracking(w, r) \/ BeginComment(w, r)
        PROVE  IInv'
    BY <1>3, BeginReadKeeps
  <1>4. ASSUME NEW w \in Workers, NEW r \in ReturnIds,
               \/ \E target \in Statuses : BeginStatus(w, r, target)
               \/ \E a \in Quantities : BeginApproval(w, r, a)
        PROVE  IInv'
    BY <1>4, BeginStatusKeeps
  <1>5. ASSUME NEW w \in Workers, NEW r \in ReturnIds, Delete(w, r) PROVE IInv'
    BY <1>5, DeleteKeeps
  <1>6. ASSUME NEW w \in Workers, EndTracking(w) PROVE IInv'
    BY <1>6, EndTrackingKeeps
  <1>7. ASSUME NEW w \in Workers, EndStatus(w) PROVE IInv'
    BY <1>7, EndStatusKeeps
  <1>8. ASSUME NEW w \in Workers, EndComment(w) PROVE IInv'
    BY <1>8, EndCommentKeeps
  <1>9. CASE UNCHANGED vars
    BY <1>9 DEF vars, IInv, TypeInv, RowInv, WorkInv, WorkOK, UniqueNumbers,
                ApprovedWithinRequested, Exists
  <1>10. QED
    BY <1>1, <1>2, <1>3, <1>4, <1>5, <1>6, <1>7, <1>8, <1>9 DEF Next

----------------------------------------------------------------------------

\* The inductive invariant: what a row records keeps up with its status, and what
\* a request in flight read of its row stays true of what the row records.
THEOREM Invariance == Spec => []IInv
  BY InitIInv, NextIInv, PTL DEF Spec

\* Numbers are unique however many creations overlap
\* (generate_return_number, apps/commerce/services/returns_service.py).
THEOREM NumbersUnique == Spec => []UniqueNumbers
  <1>1. IInv => UniqueNumbers
    BY DEF IInv
  <1>2. QED
    BY <1>1, Invariance, PTL

\* A refund was preceded by an acceptance and by a parcel number, for any number of
\* overlapping requests (apply_return_status_transition and the parcel number view).
THEOREM RefundsBacked == Spec => []PaidOnlyAfterParcel
  <1>1. IInv => PaidOnlyAfterParcel
    BY DEF IInv, RowInv, PaidOnlyAfterParcel
  <1>2. QED
    BY <1>1, Invariance, PTL

\* Overlapping approvals never approve more of a line than was requested
\* (_apply_approved_items).
THEOREM ApprovalsBounded == Spec => []ApprovedWithinRequested
  <1>1. IInv => ApprovedWithinRequested
    BY DEF IInv
  <1>2. QED
    BY <1>1, Invariance, PTL

----------------------------------------------------------------------------
(* Types, with the event.                                                  *)

LEMMA EventType == IInv /\ Next => event' \in Event
  <1> SUFFICES ASSUME IInv, Next PROVE event' \in Event
    OBVIOUS
  <1>1. NoEvent \in Event
    BY DEF NoEvent, Event, RowStates
  <1>2. ASSUME NEW r \in ReturnIds, NEW from \in RowStates, NEW to \in RowStates,
               Log(r, from, to)
        PROVE  event' \in Event
    BY <1>2 DEF Log, Event
  <1>3. ASSUME NEW w \in Workers,
               \/ \E q \in Quantities : BeginCreate(w, q)
               \/ \E r \in ReturnIds : BeginTracking(w, r) \/ BeginComment(w, r) \/ Delete(w, r)
        PROVE  event' \in Event
    BY <1>1, <1>3 DEF BeginCreate, BeginTracking, BeginComment, Delete, NoLog
  <1>4. ASSUME NEW w \in Workers, NEW r \in ReturnIds,
               \/ \E target \in Statuses : BeginStatus(w, r, target)
               \/ \E a \in Quantities : BeginApproval(w, r, a)
        PROVE  event' \in Event
    BY <1>1, <1>4 DEF BeginStatus, BeginApproval, ReadForStatus, NoLog
  <1>5. ASSUME NEW w \in Workers, NEW r \in ReturnIds, EndCreate(w, r)
        PROVE  event' \in Event
    BY <1>2, <1>5 DEF EndCreate, RowStates, Statuses
  <1>6. ASSUME NEW w \in Workers
        PROVE  /\ work[w].seen.status \in RowStates /\ work[w].target \in RowStates
               /\ work[w].op \in {"tracking", "status", "comment"} => work[w].id \in ReturnIds
    BY DEF IInv, TypeInv, WorkInv, WorkOK, RequestOf, RowOf
  <1>7. ASSUME NEW w \in Workers, EndTracking(w) PROVE event' \in Event
    BY <1>1, <1>2, <1>6, <1>7 DEF EndTracking, NoLog, RowStates, Statuses
  <1>8. ASSUME NEW w \in Workers, EndStatus(w) PROVE event' \in Event
    BY <1>1, <1>2, <1>6, <1>8 DEF EndStatus, NoLog
  <1>9. ASSUME NEW w \in Workers, EndComment(w) PROVE event' \in Event
    BY <1>1, <1>2, <1>6, <1>9 DEF EndComment, NoLog
  <1>10. QED
    BY <1>3, <1>4, <1>5, <1>7, <1>8, <1>9 DEF Next

\* Rows, events and requests in flight keep their types; amounts are numbers,
\* whatever was created, approved in part or filled in.
THEOREM TypesAlways == Spec => []TypeOK
  <1>1. Init => event \in Event
    BY DEF Init, NoEvent, Event, RowStates
  <1>2. IInv /\ event \in Event /\ [Next]_vars => (event \in Event)'
    BY EventType DEF vars
  <1>3. IInv /\ event \in Event => TypeOK
    BY DEF IInv, TypeInv, TypeOK
  <1>4. QED
    BY <1>1, <1>2, <1>3, Invariance, PTL DEF Spec

----------------------------------------------------------------------------
(* Requests served one after another.                                      *)

Serial == \A v, w \in Workers : v = w

\* the rows whose claims on the items count
CountedOf(rows) ==
    {r \in ReturnIds : rows[r].status \in Statuses \ {"rejected", "cancelled"}}

Counted == CountedOf(ret)

\* the lines of a row add up, and approved lines are priced as approved
MoneyOK(row) ==
    row.status \in Statuses =>
        /\ row.amount = SumFunction(row.refund)
        /\ \E i \in Items : row.req[i] > 0
        /\ \A i \in Items : row.req[i] = 0 => row.refund[i] = 0
        /\ (\E i \in Items : row.appr[i] > 0) => row.refund = LineRefund(row.appr)
        /\ row.accepted => \E i \in Items : row.appr[i] > 0

MoneyInv == \A r \in ReturnIds : MoneyOK(ret[r])

\* what the one request in flight read is still so
Fresh(k) ==
    /\ k.op \in {"tracking", "status", "comment"} =>
         Exists(k.id) /\ k.seen.status = ret[k.id].status
    /\ k.op = "tracking" => k.seen.status \in {"approved", "awaiting_ttn", "in_transit"}
    /\ k.op = "status" =>
         /\ k.seen = ret[k.id]
         /\ k.target = "approved" => \E i \in Items : k.qty[i] > 0
    /\ k.op = "create" =>
         /\ \E i \in Items : k.qty[i] > 0
         /\ \A i \in Items : k.qty[i] <= Available(i)

FreshInv == \A w \in Workers : Fresh(work[w])

SerialInv == IInv /\ MoneyInv /\ FreshInv /\ ReservedWithinOrdered

LEMMA ApproveMoney ==
    ASSUME NEW row \in RowOf(Nat), NEW seen \in RowOf(Nat), NEW a \in [Items -> Nat],
           seen.req = row.req, seen.appr = row.appr, seen.refund = row.refund,
           \A i \in Items : a[i] <= row.req[i] /\ row.appr[i] <= row.req[i],
           \A i \in Items : row.req[i] = 0 => row.refund[i] = 0
    PROVE  LET new == Approve(row, seen, a) IN
           /\ new.appr = a /\ new.refund = LineRefund(a)
           /\ new.amount = SumFunction(LineRefund(a))
  <1> DEFINE saved == {i \in Items : seen.req[i] > 0
                         /\ (seen.appr[i] # a[i] \/ seen.refund[i] # Price[i] * a[i])}
             appr == [i \in Items |-> IF i \in saved THEN a[i] ELSE row.appr[i]]
             refund == [i \in Items |-> IF i \in saved THEN Price[i] * a[i] ELSE row.refund[i]]
             amount == SumFunction(LineRefund(a))
  <1>1. Approve(row, seen, a)
          = [row EXCEPT !.appr = appr, !.refund = refund, !.amount = amount]
    BY Zenon DEF Approve, RowOf
  <1>2. ASSUME NEW i \in Items, i \notin saved
        PROVE  row.appr[i] = a[i] /\ row.refund[i] = Price[i] * a[i]
    <2>1. row.req[i] \in Nat /\ row.appr[i] \in Nat /\ a[i] \in Nat /\ Price[i] \in Nat
      BY ReturnsAssumption DEF RowOf
    <2>2. CASE row.req[i] > 0
      BY <1>2, <2>2
    <2>3. CASE row.req[i] = 0
      <3>1. a[i] = 0 /\ row.appr[i] = 0 /\ row.refund[i] = 0
        BY <2>1, <2>3
      <3>2. Price[i] * 0 = 0
        BY <2>1
      <3>3. QED
        BY <3>1, <3>2
    <2>4. QED
      BY <2>1, <2>2, <2>3
  <1>3. appr = a
    BY <1>2
  <1>4. refund = LineRefund(a)
    BY <1>2 DEF LineRefund
  <1> HIDE DEF saved, appr, refund, amount
  <1>5. /\ Approve(row, seen, a).appr = appr
        /\ Approve(row, seen, a).refund = refund
        /\ Approve(row, seen, a).amount = amount
    BY <1>1 DEF RowOf
  <1>6. QED
    BY <1>3, <1>4, <1>5 DEF amount

LEMMA FillLegacyMoney ==
    ASSUME NEW row \in RowOf(Nat), NEW seen \in RowOf(Nat), seen.appr = row.appr,
           seen.req = row.req
    PROVE  LET new == FillLegacy(row, seen) IN
           \/ new = row /\ \E i \in Items : row.appr[i] > 0
           \/ /\ new.appr = row.req /\ new.refund = LineRefund(row.req)
              /\ new.amount = SumFunction(LineRefund(row.req))
  <1>1. CASE \E i \in Items : seen.appr[i] > 0
    BY <1>1 DEF FillLegacy
  <1>2. CASE ~ \E i \in Items : seen.appr[i] > 0
    <2> DEFINE refund == LineRefund(seen.req)
               amount == SumFunction(LineRefund(seen.req))
    <2>1. FillLegacy(row, seen)
            = [row EXCEPT !.appr = seen.req, !.refund = refund, !.amount = amount]
      BY <1>2, Zenon DEF FillLegacy
    <2> HIDE DEF refund, amount
    <2>2. /\ FillLegacy(row, seen).appr = seen.req
          /\ FillLegacy(row, seen).refund = refund
          /\ FillLegacy(row, seen).amount = amount
      BY <2>1 DEF RowOf
    <2>3. QED
      BY <2>2 DEF refund, amount
  <1>3. QED
    BY <1>1, <1>2

LEMMA EndStatusMoney ==
    ASSUME SerialInv, NEW w \in Workers, EndStatus(w)
    PROVE  LET k == work[w]
               new == ret'[k.id] IN
           /\ Exists(k.id)
           /\ k.target \in ALLOWED_STATUS_TRANSITIONS[ret[k.id].status]
           /\ event'.id = k.id /\ event'.from = ret[k.id].status /\ event'.to = k.target
           /\ \A s \in ReturnIds \ {k.id} : ret'[s] = ret[s]
           /\ new.status = k.target
           /\ new.req = ret[k.id].req
           /\ MoneyOK(new)
  <1> DEFINE k == work[w]
             row == ret[k.id]
             moved == Transition(row, k.target)
             new == CASE k.target = "approved" -> Approve(moved, k.seen, k.qty)
                      [] k.target = "accepted" -> FillLegacy(moved, k.seen)
                      [] OTHER -> moved
  <1>1. /\ k \in RequestOf(Nat)
        /\ k.id \in ReturnIds
        /\ row \in RowOf(Nat)
        /\ Exists(k.id)
        /\ k.seen = row
        /\ k.qty \in [Items -> Nat]
        /\ k.target \in ALLOWED_STATUS_TRANSITIONS[row.status]
        /\ k.target = "approved" => /\ \A i \in Items : k.qty[i] <= row.req[i]
                                    /\ \E i \in Items : k.qty[i] > 0
    BY DEF SerialInv, IInv, TypeInv, WorkInv, WorkOK, FreshInv, Fresh, EndStatus, RequestOf
  <1>2. k.target \in Statuses
    BY <1>1 DEF ALLOWED_STATUS_TRANSITIONS, Statuses, RowStates, Exists
  <1>3. ret' = [ret EXCEPT ![k.id] = new] /\ Log(k.id, k.seen.status, k.target)
    BY <1>1 DEF EndStatus
  <1>4. ret'[k.id] = new /\ \A s \in ReturnIds \ {k.id} : ret'[s] = ret[s]
    BY <1>1, <1>3 DEF SerialInv, IInv, TypeInv
  <1>5. event'.id = k.id /\ event'.from = row.status /\ event'.to = k.target
    BY <1>1, <1>3 DEF Log
  <1>6. /\ row.amount = SumFunction(row.refund)
        /\ \E i \in Items : row.req[i] > 0
        /\ \A i \in Items : row.req[i] = 0 => row.refund[i] = 0
        /\ (\E i \in Items : row.appr[i] > 0) => row.refund = LineRefund(row.appr)
        /\ row.accepted => \E i \in Items : row.appr[i] > 0
        /\ \A i \in Items : row.appr[i] <= row.req[i]
    BY <1>1 DEF SerialInv, MoneyInv, MoneyOK, IInv, ApprovedWithinRequested, Exists
  <1> HIDE DEF k, row
  <1>7. /\ moved \in RowOf(Nat)
        /\ moved.status = k.target
        /\ moved.req = row.req
        /\ moved.appr = row.appr
        /\ moved.refund = row.refund
        /\ moved.amount = row.amount
        /\ moved.accepted = (row.accepted \/ k.target = "accepted")
    BY <1>1, <1>2, TransitionType
  <1> HIDE DEF moved
  <1>8. new.status = k.target /\ new.req = row.req /\ MoneyOK(new)
    <2>1. CASE k.target = "approved"
      <3>1. new = Approve(moved, k.seen, k.qty)
        BY <2>1
      <3> HIDE DEF new
      <3>2. new.status = moved.status /\ new.req = moved.req /\ new.accepted = moved.accepted
        BY <1>1, <1>7, <3>1, ApproveType
      <3>3. /\ new.appr = k.qty /\ new.refund = LineRefund(k.qty)
            /\ new.amount = SumFunction(LineRefund(k.qty))
        BY <1>1, <1>6, <1>7, <2>1, <3>1, ApproveMoney
      <3>4. \A i \in Items : row.req[i] = 0 => LineRefund(k.qty)[i] = 0
        <4> SUFFICES ASSUME NEW i \in Items, row.req[i] = 0 PROVE LineRefund(k.qty)[i] = 0
          OBVIOUS
        <4>1. k.qty[i] = 0 /\ Price[i] \in Nat
          BY <1>1, <2>1, ReturnsAssumption
        <4>2. QED
          BY <4>1 DEF LineRefund
      <3>5. QED
        BY <1>1, <1>6, <1>7, <2>1, <3>2, <3>3, <3>4 DEF MoneyOK
    <2>2. CASE k.target = "accepted"
      <3>1. new = FillLegacy(moved, k.seen)
        BY <2>2
      <3> HIDE DEF new
      <3>2. new.status = moved.status /\ new.req = moved.req /\ new.accepted = moved.accepted
        BY <1>1, <1>7, <3>1, FillLegacyType
      <3>3. CASE new = moved /\ \E i \in Items : moved.appr[i] > 0
        BY <1>6, <1>7, <3>2, <3>3 DEF MoneyOK
      <3>4. CASE /\ new.appr = moved.req /\ new.refund = LineRefund(moved.req)
                 /\ new.amount = SumFunction(LineRefund(moved.req))
        <4>1. \A i \in Items : row.req[i] = 0 => LineRefund(row.req)[i] = 0
          BY ReturnsAssumption DEF LineRefund
        <4>2. QED
          BY <1>6, <1>7, <3>2, <3>4, <4>1 DEF MoneyOK
      <3>5. QED
        BY <1>1, <1>7, <3>1, <3>3, <3>4, FillLegacyMoney
    <2>3. CASE k.target \notin {"approved", "accepted"}
      <3>1. new = moved
        BY <2>3
      <3> HIDE DEF new
      <3>2. QED
        BY <1>6, <1>7, <2>3, <3>1 DEF MoneyOK
    <2>4. QED
      BY <2>1, <2>2, <2>3
  <1> HIDE DEF new
  <1>9. QED
    BY <1>1, <1>4, <1>5, <1>8 DEF k, row

\* what the rows claim of an item
Claims(rows, i) == [r \in ReturnIds |-> rows[r].req[i]]

LEMMA ClaimsAreSummed ==
    ASSUME NEW rows \in [ReturnIds -> RowOf(Nat)], NEW i \in Items
    PROVE  /\ CountedOf(rows) \subseteq ReturnIds /\ IsFiniteSet(CountedOf(rows))
           /\ \A r \in ReturnIds : Claims(rows, i)[r] = rows[r].req[i]
                                     /\ Claims(rows, i)[r] \in Nat
           /\ SumFunctionOnSet(Claims(rows, i), CountedOf(rows)) \in Nat
  <1>1. CountedOf(rows) \subseteq ReturnIds
    BY DEF CountedOf
  <1>2. IsFiniteSet(CountedOf(rows))
    BY <1>1, FS_Subset, ReturnsAssumption
  <1>3. \A r \in ReturnIds : Claims(rows, i)[r] = rows[r].req[i]
                               /\ Claims(rows, i)[r] \in Nat
    BY DEF RowOf, Claims
  <1>4. SumFunctionOnSet(Claims(rows, i), CountedOf(rows)) \in Nat
    BY <1>1, <1>2, <1>3, SumType
  <1>5. QED
    BY <1>1, <1>2, <1>3, <1>4

LEMMA ReservedIsSum ==
    ASSUME NEW i \in Items
    PROVE  /\ Reserved(i) = SumFunctionOnSet(Claims(ret, i), CountedOf(ret))
           /\ Reserved(i)' = SumFunctionOnSet(Claims(ret', i), CountedOf(ret'))
  BY Zenon DEF Reserved, Claims, CountedOf

\* A step that lets no request claim anew leaves the claims within the order.
LEMMA ReservedShrinks ==
    ASSUME TypeInv, TypeInv', ReservedWithinOrdered,
           \A r \in Counted' : r \in Counted /\ ret'[r].req = ret[r].req
    PROVE  ReservedWithinOrdered'
  <1> SUFFICES ASSUME NEW i \in Items PROVE Reserved(i)' <= Quantity[i]
    BY DEF ReservedWithinOrdered
  <1> DEFINE f == Claims(ret, i)
             g == Claims(ret', i)
             S == Counted
             T == Counted'
  <1>1. /\ Reserved(i) = SumFunctionOnSet(f, S)
        /\ S \subseteq ReturnIds /\ IsFiniteSet(S)
        /\ \A r \in ReturnIds : f[r] = ret[r].req[i] /\ f[r] \in Nat
        /\ Reserved(i) \in Nat
    BY ReservedIsSum, ClaimsAreSummed DEF TypeInv, Counted
  <1>2. /\ Reserved(i)' = SumFunctionOnSet(g, T)
        /\ T \subseteq ReturnIds /\ IsFiniteSet(T)
        /\ \A r \in ReturnIds : g[r] = ret'[r].req[i] /\ g[r] \in Nat
        /\ Reserved(i)' \in Nat
    BY ReservedIsSum, ClaimsAreSummed DEF TypeInv, Counted
  <1>3. T \subseteq S /\ \A r \in T : g[r] = f[r]
    BY <1>1, <1>2
  <1> HIDE DEF f, g, S, T
  <1>4. SumFunctionOnSet(g, T) = SumFunctionOnSet(f, T)
    BY <1>1, <1>2, <1>3, SumSame
  <1>5. SumFunctionOnSet(f, T) <= SumFunctionOnSet(f, S)
    BY <1>1, <1>3, SumSubset
  <1>6. Reserved(i) <= Quantity[i] /\ Quantity[i] \in Nat
    BY ReturnsAssumption DEF ReservedWithinOrdered
  <1>7. QED
    BY <1>1, <1>2, <1>4, <1>5, <1>6

\* A request that begins to count adds its own claim.
LEMMA ReservedGrows ==
    ASSUME TypeInv, TypeInv', NEW r \in ReturnIds, r \notin Counted,
           Counted' = Counted \cup {r}, \A s \in ReturnIds \ {r} : ret'[s] = ret[s],
           NEW i \in Items
    PROVE  Reserved(i)' = Reserved(i) + ret'[r].req[i]
  <1> DEFINE f == Claims(ret, i)
             g == Claims(ret', i)
             S == Counted
             T == Counted'
  <1>1. /\ Reserved(i) = SumFunctionOnSet(f, S)
        /\ S \subseteq ReturnIds /\ IsFiniteSet(S)
        /\ \A s \in ReturnIds : f[s] = ret[s].req[i] /\ f[s] \in Nat
        /\ Reserved(i) \in Nat
    BY ReservedIsSum, ClaimsAreSummed DEF TypeInv, Counted
  <1>2. /\ Reserved(i)' = SumFunctionOnSet(g, T)
        /\ T \subseteq ReturnIds /\ IsFiniteSet(T)
        /\ \A s \in ReturnIds : g[s] = ret'[s].req[i] /\ g[s] \in Nat
    BY ReservedIsSum, ClaimsAreSummed DEF TypeInv, Counted
  <1>3. T \ {r} = S /\ r \in T /\ \A s \in S : g[s] = f[s]
    BY <1>1, <1>2
  <1> HIDE DEF f, g, S, T
  <1>4. SumFunctionOnSet(g, T) = g[r] + SumFunctionOnSet(g, S)
    <2>1. SumFunctionOnSet(g, T) = g[r] + SumFunctionOnSet(g, T \ {r})
      BY <1>2, <1>3, SumWithout
    <2>2. QED
      BY <1>3, <2>1
  <1>5. SumFunctionOnSet(g, S) = SumFunctionOnSet(f, S)
    BY <1>1, <1>3, SumSame
  <1>6. QED
    BY <1>1, <1>2, <1>4, <1>5

\* A step that ends the one request in flight, or that none is in flight at.
LEMMA NoneInFlight ==
    ASSUME Serial, NEW w \in Workers, work'[w].op = "idle"
    PROVE  FreshInv'
  BY DEF Serial, FreshInv, Fresh

LEMMA BeginKeepsSerial ==
    ASSUME Serial, SerialInv, IInv', NEW w \in Workers, NEW request,
           Fresh(request), Serve(w, request), UNCHANGED ret
    PROVE  SerialInv'
  <1>1. MoneyInv'
    BY DEF SerialInv, MoneyInv
  <1>2. \A i \in Items : Reserved(i)' = Reserved(i)
    BY Zenon DEF Reserved
  <1>3. ReservedWithinOrdered'
    BY <1>2 DEF SerialInv, ReservedWithinOrdered
  <1>4. \A i \in Items : Available(i)' = Available(i)
    BY <1>2 DEF Available
  <1>5. work'[w] = request
    BY DEF Serve, SerialInv, IInv, TypeInv
  <1>6. FreshInv'
    <2> SUFFICES ASSUME NEW v \in Workers PROVE Fresh(work[v])'
      BY DEF FreshInv
    <2>1. work'[v] = request
      BY <1>5 DEF Serial
    <2>2. QED
      BY <1>4, <2>1 DEF Fresh, Exists
  <1>7. QED
    BY <1>1, <1>3, <1>6 DEF SerialInv

LEMMA EndKeepsSerial ==
    ASSUME Serial, SerialInv, IInv', NEW w \in Workers, work'[w].op = "idle",
           NEW r \in ReturnIds, \A s \in ReturnIds \ {r} : ret'[s] = ret[s],
           MoneyOK(ret'[r]),
           r \in Counted' => r \in Counted /\ ret'[r].req = ret[r].req
    PROVE  SerialInv'
  <1>1. MoneyInv'
    BY DEF SerialInv, MoneyInv, MoneyOK
  <1>2. \A s \in Counted' : s \in Counted /\ ret'[s].req = ret[s].req
    BY DEF Counted, CountedOf
  <1>3. ReservedWithinOrdered'
    BY <1>2, ReservedShrinks DEF SerialInv, IInv
  <1>4. QED
    BY <1>1, <1>3, NoneInFlight DEF SerialInv

\* the steps EventsExplainStatus and RefundedIsFinal allow
Explained ==
    LET r == event'.id IN
    /\ event' # NoEvent => /\ event'.from = ret[r].status
                           /\ event'.to = ret'[r].status
    /\ \A s \in ReturnIds \ {r} : ret'[s].status \in {ret[s].status, "deleted"}

Final ==
    \A r \in ReturnIds : ret[r].status = "refunded"
        => ret'[r].status \in {"refunded", "deleted"}

SerialStep == SerialInv' /\ Explained /\ Final

LEMMA NothingWritten ==
    ASSUME SerialInv, UNCHANGED ret,
           \/ NoLog
           \/ \E r \in ReturnIds : Log(r, ret[r].status, ret[r].status)
    PROVE  Explained /\ Final
  BY DEF NoLog, Log, Explained, Final

LEMMA BeginCreateSerial ==
    ASSUME Serial, SerialInv, IInv', NEW w \in Workers, NEW q \in [Items -> Nat],
           BeginCreate(w, q)
    PROVE  SerialStep
  <1> DEFINE request == [Idle EXCEPT !.op = "create", !.qty = q]
  <1>1. request.op = "create" /\ request.qty = q
    BY DEF Idle
  <1>2. \A i \in Items : q[i] <= Available(i)
    <2> SUFFICES ASSUME NEW i \in Items PROVE q[i] <= Available(i)
      OBVIOUS
    <2>1. Reserved(i) \in Nat /\ Quantity[i] \in Nat /\ q[i] \in Nat
      BY ReservedIsSum, ClaimsAreSummed, ReturnsAssumption DEF SerialInv, IInv, TypeInv
    <2>2. Available(i) \in Nat
      BY <2>1 DEF Available
    <2>3. q[i] > 0 => q[i] <= Available(i)
      BY DEF BeginCreate
    <2>4. QED
      BY <2>1, <2>2, <2>3
  <1>3. Serve(w, request) /\ UNCHANGED ret /\ NoLog /\ \E i \in Items : q[i] > 0
    BY DEF BeginCreate
  <1> HIDE DEF request
  <1>4. Fresh(request)
    BY <1>1, <1>2, <1>3 DEF Fresh
  <1>5. QED
    BY <1>3, <1>4, BeginKeepsSerial, NothingWritten DEF SerialStep

LEMMA BeginReadSerial ==
    ASSUME Serial, SerialInv, IInv', NEW w \in Workers, NEW r \in ReturnIds,
           BeginTracking(w, r) \/ BeginComment(w, r)
    PROVE  SerialStep
  <1> DEFINE request(op) == [Idle EXCEPT !.op = op, !.id = r, !.seen = Glance(r)]
  <1>1. \A op \in {"tracking", "comment"} :
            /\ request(op).op = op /\ request(op).id = r
            /\ request(op).seen.status = ret[r].status
    BY DEF Idle, Glance, NoRow
  <1>2. PICK op \in {"tracking", "comment"} :
            /\ Serve(w, request(op)) /\ UNCHANGED ret /\ NoLog
            /\ Exists(r)
            /\ op = "tracking" => ret[r].status \in {"approved", "awaiting_ttn", "in_transit"}
    BY DEF BeginTracking, BeginComment, Exists, Statuses
  <1> HIDE DEF request
  <1>3. Fresh(request(op))
    BY <1>1, <1>2 DEF Fresh
  <1>4. QED
    BY <1>2, <1>3, BeginKeepsSerial, NothingWritten DEF SerialStep

LEMMA BeginStatusSerial ==
    ASSUME Serial, SerialInv, IInv', NEW w \in Workers, NEW r \in ReturnIds,
           \/ \E target \in Statuses : BeginStatus(w, r, target)
           \/ \E a \in Quantities : BeginApproval(w, r, a)
    PROVE  SerialStep
  <1>1. ASSUME NEW target, NEW a, ReadForStatus(w, r, target, a),
               target = "approved" => \E i \in Items : a[i] > 0
        PROVE  SerialStep
    <2> DEFINE request == [op |-> "status", id |-> r, seen |-> ret[r], qty |-> a,
                           target |-> target]
    <2>1. Serve(w, request) /\ UNCHANGED ret /\ NoLog /\ Exists(r)
      BY <1>1 DEF ReadForStatus
    <2>2. Fresh(request)
      BY <1>1, <2>1 DEF Fresh
    <2>3. QED
      BY <2>1, <2>2, BeginKeepsSerial, NothingWritten DEF SerialStep
  <1>2. ASSUME NEW target \in Statuses, BeginStatus(w, r, target) PROVE SerialStep
    BY <1>1, <1>2 DEF BeginStatus
  <1>3. ASSUME NEW a \in Quantities, BeginApproval(w, r, a) PROVE SerialStep
    BY <1>1, <1>3 DEF BeginApproval
  <1>4. QED
    BY <1>2, <1>3

LEMMA FinishIsIdle ==
    ASSUME TypeInv, NEW w \in Workers, Finish(w)
    PROVE  work'[w].op = "idle"
  BY FinishEffect DEF Idle

LEMMA EndCommentSerial ==
    ASSUME Serial, SerialInv, IInv', NEW w \in Workers, EndComment(w)
    PROVE  SerialStep
  <1> DEFINE r == work[w].id
  <1>1. r \in ReturnIds /\ Exists(r) /\ work[w].seen.status = ret[r].status
    BY DEF EndComment, SerialInv, IInv, WorkInv, WorkOK, FreshInv, Fresh
  <1>2. UNCHANGED ret /\ Log(r, ret[r].status, ret[r].status) /\ work'[w].op = "idle"
    BY <1>1, FinishIsIdle DEF EndComment, SerialInv, IInv
  <1>3. SerialInv'
    <2>1. MoneyOK(ret'[r])
      BY <1>1, <1>2 DEF SerialInv, MoneyInv
    <2>2. QED
      BY <1>1, <1>2, <2>1, EndKeepsSerial DEF Counted
  <1>4. QED
    BY <1>1, <1>2, <1>3, NothingWritten DEF SerialStep

LEMMA EndTrackingSerial ==
    ASSUME Serial, SerialInv, IInv', NEW w \in Workers, EndTracking(w)
    PROVE  SerialStep
  <1> DEFINE r == work[w].id
             new == ret'[r]
  <1>1. /\ r \in ReturnIds /\ Exists(r) /\ work[w].seen.status = ret[r].status
        /\ ret[r].status \in {"approved", "awaiting_ttn", "in_transit"}
        /\ ret[r] \in RowOf(Nat) /\ MoneyOK(ret[r])
    BY DEF EndTracking, SerialInv, IInv, TypeInv, WorkInv, WorkOK, FreshInv, Fresh, MoneyInv
  <1>2. /\ ret' = [ret EXCEPT ![r].status = "in_transit", ![r].tracked = TRUE]
        /\ Log(r, ret[r].status, "in_transit")
        /\ work'[w].op = "idle"
    BY <1>1, FinishIsIdle DEF EndTracking, SerialInv, IInv
  <1>3. /\ \A s \in ReturnIds \ {r} : ret'[s] = ret[s]
        /\ new.status = "in_transit" /\ new.req = ret[r].req /\ new.appr = ret[r].appr
        /\ new.refund = ret[r].refund /\ new.amount = ret[r].amount
        /\ new.accepted = ret[r].accepted
    BY <1>1, <1>2 DEF SerialInv, IInv, TypeInv, RowOf
  <1> HIDE DEF new
  <1>4. MoneyOK(new) /\ r \in Counted
    BY <1>1, <1>3 DEF MoneyOK, Counted, CountedOf, Exists, Statuses
  <1>5. SerialInv'
    BY <1>1, <1>2, <1>3, <1>4, EndKeepsSerial DEF new
  <1>6. Explained
    BY <1>1, <1>2, <1>3 DEF Explained, Log, new
  <1>7. Final
    BY <1>1, <1>3 DEF Final, new
  <1>8. QED
    BY <1>5, <1>6, <1>7 DEF SerialStep

LEMMA EndStatusSerial ==
    ASSUME Serial, SerialInv, IInv', NEW w \in Workers, EndStatus(w)
    PROVE  SerialStep
  <1> DEFINE k == work[w]
             r == k.id
             new == ret'[r]
  <1>1. /\ r \in ReturnIds /\ ret[r].status \in RowStates
        /\ work'[w].op = "idle"
    BY FinishIsIdle DEF EndStatus, SerialInv, IInv, TypeInv, WorkInv, WorkOK, RowOf
  <1>2. /\ Exists(r)
        /\ k.target \in ALLOWED_STATUS_TRANSITIONS[ret[r].status]
        /\ event'.id = r /\ event'.from = ret[r].status /\ event'.to = k.target
        /\ \A s \in ReturnIds \ {r} : ret'[s] = ret[s]
        /\ new.status = k.target
        /\ new.req = ret[r].req
        /\ MoneyOK(new)
    BY EndStatusMoney
  <1> HIDE DEF k, new
  <1>3. ret[r].status \notin {"rejected", "cancelled", "refunded"}
    BY <1>1, <1>2 DEF ALLOWED_STATUS_TRANSITIONS
  <1>4. r \in Counted
    BY <1>1, <1>2, <1>3 DEF Counted, CountedOf, Exists
  <1>5. SerialInv'
    BY <1>1, <1>2, <1>4, EndKeepsSerial DEF new
  <1>6. Explained
    BY <1>1, <1>2 DEF Explained, new
  <1>7. Final
    BY <1>1, <1>2, <1>3 DEF Final, new
  <1>8. QED
    BY <1>5, <1>6, <1>7 DEF SerialStep

LEMMA DeleteSerial ==
    ASSUME Serial, SerialInv, IInv', NEW w \in Workers, NEW r \in ReturnIds, Delete(w, r)
    PROVE  SerialStep
  <1>1. /\ \A s \in ReturnIds \ {r} : ret'[s] = ret[s]
        /\ ret'[r].status = "deleted"
        /\ NoLog
        /\ work'[w].op = "idle"
    BY DEF Delete, SerialInv, IInv, TypeInv, NoRow, Idle
  <1>2. MoneyOK(ret'[r]) /\ r \notin Counted'
    BY <1>1 DEF MoneyOK, Counted, CountedOf, Statuses
  <1>3. SerialInv'
    BY <1>1, <1>2, EndKeepsSerial
  <1>4. Explained
    BY <1>1 DEF Explained, NoLog
  <1>5. Final
    BY <1>1 DEF Final
  <1>6. QED
    BY <1>3, <1>4, <1>5 DEF SerialStep

LEMMA EndCreateSerial ==
    ASSUME Serial, SerialInv, IInv', NEW w \in Workers, NEW r \in ReturnIds, EndCreate(w, r)
    PROVE  SerialStep
  <1> DEFINE q == work[w].qty
             new == ret'[r]
  <1>1. /\ q \in [Items -> Nat] /\ ret[r].status = "absent"
        /\ \E i \in Items : q[i] > 0
        /\ \A i \in Items : q[i] <= Available(i)
        /\ work'[w].op = "idle"
    BY FinishIsIdle
    DEF EndCreate, SerialInv, IInv, TypeInv, RequestOf, FreshInv, Fresh
  <1>2. /\ \A s \in ReturnIds \ {r} : ret'[s] = ret[s]
        /\ new.status = "new" /\ new.req = q /\ new.appr = Zero
        /\ new.refund = LineRefund(q) /\ new.amount = SumFunction(LineRefund(q))
        /\ ~new.accepted
        /\ Log(r, "absent", "new")
    BY DEF EndCreate, NoRow, SerialInv, IInv, TypeInv
  <1> HIDE DEF q, new
  <1>3. MoneyOK(new)
    <2>1. \A i \in Items : q[i] = 0 => LineRefund(q)[i] = 0
      BY ReturnsAssumption DEF LineRefund
    <2>2. \A i \in Items : ~ new.appr[i] > 0
      BY <1>2 DEF Zero
    <2>3. QED
      BY <1>1, <1>2, <2>1, <2>2 DEF MoneyOK
  <1>4. r \notin Counted /\ Counted' = Counted \cup {r}
    BY <1>1, <1>2 DEF Counted, CountedOf, Statuses, new
  <1>5. ReservedWithinOrdered'
    <2> SUFFICES ASSUME NEW i \in Items PROVE Reserved(i)' <= Quantity[i]
      BY DEF ReservedWithinOrdered
    <2>1. Reserved(i)' = Reserved(i) + q[i]
      BY <1>2, <1>4, ReservedGrows DEF SerialInv, IInv, new
    <2>2. Reserved(i) \in Nat /\ Quantity[i] \in Nat /\ q[i] \in Nat
      BY <1>1, ReservedIsSum, ClaimsAreSummed, ReturnsAssumption DEF SerialInv, IInv, TypeInv
    <2>3. Reserved(i) <= Quantity[i] /\ q[i] <= Available(i)
      BY <1>1 DEF SerialInv, ReservedWithinOrdered
    <2>4. q[i] <= Quantity[i] - Reserved(i)
      BY <2>2, <2>3 DEF Available
    <2>5. QED
      BY <2>1, <2>2, <2>4
  <1>6. MoneyInv'
    BY <1>2, <1>3 DEF SerialInv, MoneyInv, MoneyOK, new
  <1>7. SerialInv'
    BY <1>1, <1>5, <1>6, NoneInFlight DEF SerialInv
  <1>8. Explained
    BY <1>1, <1>2 DEF Explained, Log, new
  <1>9. Final
    BY <1>1, <1>2 DEF Final
  <1>10. QED
    BY <1>7, <1>8, <1>9 DEF SerialStep

LEMMA InitSerial == Serial /\ Init => SerialInv
  <1> SUFFICES ASSUME Serial, Init PROVE SerialInv
    OBVIOUS
  <1> DEFINE q == [i \in Items |-> IF i \in Returnable THEN 1 ELSE 0]
  <1>1. IInv
    BY InitIInv
  <1>2. PICK s \in {"approved", "in_transit"} :
            ret = [r \in ReturnIds |-> IF r \in Legacy THEN LegacyRow(s) ELSE NoRow]
    BY DEF Init
  <1>3. /\ LegacyRow(s).req = q /\ LegacyRow(s).appr = Zero
        /\ LegacyRow(s).refund = LineRefund(q)
        /\ LegacyRow(s).amount = SumFunction(LineRefund(q))
        /\ ~LegacyRow(s).accepted
        /\ LegacyRow(s).status = s
        /\ NoRow.status = "absent" /\ NoRow.req = Zero
    BY DEF LegacyRow, NoRow
  <1>4. FreshInv
    BY DEF Init, FreshInv, Fresh, Idle
  <1>5. MoneyInv
    <2> SUFFICES ASSUME NEW r \in ReturnIds PROVE MoneyOK(ret[r])
      BY DEF MoneyInv
    <2>1. CASE r \notin Legacy
      BY <1>2, <1>3, <2>1 DEF MoneyOK, Statuses
    <2>2. CASE r \in Legacy
      <3>1. ret[r] = LegacyRow(s)
        BY <1>2, <2>2
      <3>2. \E i \in Items : q[i] > 0
        BY <2>2, ReturnsAssumption
      <3>3. \A i \in Items : q[i] = 0 => LineRefund(q)[i] = 0
        BY ReturnsAssumption DEF LineRefund
      <3>4. \A i \in Items : ~ Zero[i] > 0
        BY DEF Zero
      <3> HIDE DEF q
      <3>5. QED
        BY <1>3, <3>1, <3>2, <3>3, <3>4 DEF MoneyOK
    <2>3. QED
      BY <2>1, <2>2
  <1>6. ReservedWithinOrdered
    <2> SUFFICES ASSUME NEW i \in Items PROVE Reserved(i) <= Quantity[i]
      BY DEF ReservedWithinOrdered
    <2> DEFINE f == Claims(ret, i)
               C == CountedOf(ret)
    <2>1. /\ Reserved(i) = SumFunctionOnSet(f, C)
          /\ C \subseteq ReturnIds /\ IsFiniteSet(C)
          /\ \A r \in ReturnIds : f[r] = ret[r].req[i] /\ f[r] \in Nat
      BY <1>1, ReservedIsSum, ClaimsAreSummed DEF IInv, TypeInv
    <2>2. Quantity[i] >= 1 /\ Quantity[i] \in Nat
      BY ReturnsAssumption
    <2>3. C \subseteq Legacy
      BY <1>2, <1>3 DEF CountedOf, Statuses
    <2>4. \A r \in C : f[r] = q[i]
      BY <1>2, <1>3, <2>1, <2>3
    <2>5. q[i] \in {0, 1}
      OBVIOUS
    <2> HIDE DEF f, C, q
    <2>6. CASE C = {}
      BY <2>1, <2>2, <2>6, SumEmpty
    <2>7. CASE C # {}
      <3>1. PICK r \in C : C = {r}
        BY <2>3, <2>7, ReturnsAssumption
      <3>2. SumFunctionOnSet(f, C) = f[r] + SumFunctionOnSet(f, C \ {r})
        BY <2>1, SumWithout
      <3>3. C \ {r} = {} /\ SumFunctionOnSet(f, {}) = 0
        BY <3>1, SumEmpty
      <3>4. f[r] \in {0, 1}
        BY <2>4, <2>5, <3>1
      <3>5. SumFunctionOnSet(f, C) = f[r] + 0
        BY <3>2, <3>3
      <3>6. QED
        BY <2>1, <2>2, <3>4, <3>5
    <2>8. QED
      BY <2>6, <2>7
  <1>7. QED
    BY <1>1, <1>4, <1>5, <1>6 DEF SerialInv

LEMMA NextSerial == Serial /\ SerialInv /\ IInv' /\ Next => SerialStep
  <1> SUFFICES ASSUME Serial, SerialInv, IInv', Next PROVE SerialStep
    OBVIOUS
  <1>1. ASSUME NEW w \in Workers, NEW q \in Quantities, BeginCreate(w, q) PROVE SerialStep
    BY <1>1, QuantitiesType, BeginCreateSerial
  <1>2. ASSUME NEW w \in Workers, NEW r \in ReturnIds, EndCreate(w, r) PROVE SerialStep
    BY <1>2, EndCreateSerial
  <1>3. ASSUME NEW w \in Workers, NEW r \in ReturnIds,
               BeginTracking(w, r) \/ BeginComment(w, r)
        PROVE  SerialStep
    BY <1>3, BeginReadSerial
  <1>4. ASSUME NEW w \in Workers, NEW r \in ReturnIds,
               \/ \E target \in Statuses : BeginStatus(w, r, target)
               \/ \E a \in Quantities : BeginApproval(w, r, a)
        PROVE  SerialStep
    BY <1>4, BeginStatusSerial
  <1>5. ASSUME NEW w \in Workers, NEW r \in ReturnIds, Delete(w, r) PROVE SerialStep
    BY <1>5, DeleteSerial
  <1>6. ASSUME NEW w \in Workers, EndTracking(w) PROVE SerialStep
    BY <1>6, EndTrackingSerial
  <1>7. ASSUME NEW w \in Workers, EndStatus(w) PROVE SerialStep
    BY <1>7, EndStatusSerial
  <1>8. ASSUME NEW w \in Workers, EndComment(w) PROVE SerialStep
    BY <1>8, EndCommentSerial
  <1>9. QED
    BY <1>1, <1>2, <1>3, <1>4, <1>5, <1>6, <1>7, <1>8 DEF Next

LEMMA StutterSerial == SerialInv /\ UNCHANGED vars => SerialInv'
  <1> SUFFICES ASSUME SerialInv, UNCHANGED vars PROVE SerialInv'
    OBVIOUS
  <1>1. IInv'
    BY NextIInv DEF SerialInv
  <1>2. \A i \in Items : Reserved(i)' = Reserved(i)
    BY Zenon DEF Reserved, vars
  <1>3. ReservedWithinOrdered'
    BY <1>2 DEF SerialInv, ReservedWithinOrdered
  <1>4. \A i \in Items : Available(i)' = Available(i)
    BY <1>2 DEF Available
  <1>5. MoneyInv' /\ FreshInv'
    BY <1>4 DEF SerialInv, MoneyInv, FreshInv, Fresh, Exists, vars
  <1>6. QED
    BY <1>1, <1>3, <1>5 DEF SerialInv

\* Served one after another, requests act on what they read: the rows they read
\* are still as they read them, and the sums and the claims on the order hold.
THEOREM SerialInvariance ==
    ASSUME Serial
    PROVE  Spec => []SerialInv
  <1>1. Init => SerialInv
    BY InitSerial
  <1>2. SerialInv /\ IInv' /\ [Next]_vars => SerialInv'
    BY NextSerial, StutterSerial DEF SerialStep
  <1>3. QED
    BY <1>1, <1>2, Invariance, PTL DEF Spec

\* The requests that count never claim more of an item than was ordered
\* (ReturnRequestCreateAPIView.post): true of requests served one after another, and
\* refuted by the run of two at a time.
THEOREM ClaimsStayWithinOrder ==
    ASSUME Serial
    PROVE  Spec => []ReservedWithinOrdered
  <1>1. SerialInv => ReservedWithinOrdered
    BY DEF SerialInv
  <1>2. QED
    BY <1>1, SerialInvariance, PTL

\* Through creation, partial approval and the legacy fill the amount of a request
\* is the sum of its lines, and a refund pays the approved quantities, at least one.
THEOREM MoneyAddsUp ==
    ASSUME Serial
    PROVE  Spec => []MoneyMatchesLines
  <1>1. SerialInv => MoneyMatchesLines
    BY DEF SerialInv, MoneyInv, MoneyOK, MoneyMatchesLines, Exists, IInv, RowInv
  <1>2. QED
    BY <1>1, SerialInvariance, PTL

\* An event names the status a request left and the one it is in, and no status
\* changes without an event (ReturnEvent, apps/commerce/models/return_request.py).
THEOREM EventsTellTheStory ==
    ASSUME Serial
    PROVE  Spec => EventsExplainStatus
  <1>1. SerialInv /\ IInv' /\ [Next]_vars => [Explained]_vars
    BY NextSerial DEF SerialStep
  <1>2. QED
    BY <1>1, SerialInvariance, Invariance, PTL DEF Spec, EventsExplainStatus, Explained

\* Nothing leads out of "refunded" but the deletion of the row.
THEOREM RefundsStay ==
    ASSUME Serial
    PROVE  Spec => RefundedIsFinal
  <1>1. SerialInv /\ IInv' /\ [Next]_vars => [Final]_vars
    BY NextSerial DEF SerialStep
  <1>2. QED
    BY <1>1, SerialInvariance, Invariance, PTL DEF Spec, RefundedIsFinal, Final
============================================================================
