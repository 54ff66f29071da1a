------------------------ MODULE SupplierImport_proofs -----------------------
(***************************************************************************)
(* Proofs about SupplierImport, for every set of workers and of lists and  *)
(* every bound of the queue.                                               *)
(***************************************************************************)
EXTENDS SupplierImport, FiniteSetTheorems, TLAPS

\* while the cache answers and operators leave the lists alone, whoever is at work has
\* the lock
LockInv == \A w \in Workers : work[w].op # "idle" => lock = w

\* ... and one list waits at most, which is not asked for again
WaitInv == /\ Len(shelf) <= 1 /\ passed = {}
           /\ \A w \in Workers : work[w].op = "request" => shelf = <<>>

IInv == TypeOK /\ (~disturbed => LockInv /\ WaitInv)

----------------------------------------------------------------------------
(* Types, and the shelf.                                                   *)

LEMMA IdleType == Idle \in Job /\ Idle.op = "idle" /\ \A w \in Workers : w \notin {"free", "left"}
  BY ImportAssumption DEF Idle, Job, Ops

LEMMA WithoutType ==
    ASSUME shelf \in Seq(Lists), NEW l
    PROVE  Without(l) \in Seq(Lists) /\ Len(Without(l)) <= Len(shelf)
  BY DEF Without, InShelf

LEMMA LastType ==
    ASSUME shelf \in Seq(Lists)
    PROVE  Reusable \subseteq Lists /\ (Reusable = {} => shelf = <<>>)
  BY DEF Reusable

\* a list alone on the shelf has none before it
LEMMA NoneOlder ==
    ASSUME shelf \in Seq(Lists), NEW l
    PROVE  OlderThan(l) \subseteq Lists /\ (Len(shelf) <= 1 => OlderThan(l) = {})
  <1>1. DOMAIN shelf = 1 .. Len(shelf) /\ Len(shelf) \in Nat
    OBVIOUS
  <1>2. \A i \in DOMAIN shelf : shelf[i] \in Lists
    OBVIOUS
  <1>3. ASSUME Len(shelf) <= 1 PROVE OlderThan(l) = {}
    BY <1>1, <1>3 DEF OlderThan
  <1>4. QED
    BY <1>2, <1>3 DEF OlderThan

----------------------------------------------------------------------------
(* What each kind of step must respect to keep the invariant.              *)

\* a worker goes on with the lock it has, and touches the lists as it may
LEMMA WorkKeeps ==
    ASSUME IInv, NEW w \in Workers, NEW k \in Job, work' = [work EXCEPT ![w] = k],
           due' \in BOOLEAN, UNCHANGED <<dispatched, queued, lock, disturbed>>,
           running' \subseteq Workers \cup {"hand", "orphan"},
           shelf' \in Seq(Lists), passed' \subseteq Lists,
           work[w].op # "idle",
           ~disturbed => Len(shelf') <= 1 /\ passed' = {},
           ~disturbed /\ k.op = "request" => shelf' = <<>>
    PROVE  IInv'
  <1>1. \A v \in Workers : work'[v] = IF v = w THEN k ELSE work[v]
    BY DEF IInv, TypeOK
  <1>2. TypeOK'
    BY DEF IInv, TypeOK
  <1>3. ASSUME ~disturbed' PROVE LockInv' /\ WaitInv'
    <2>1. \A v \in Workers \ {w} : work[v].op = "idle"
      BY <1>3 DEF IInv, LockInv
    <2>2. QED
      BY <1>1, <1>3, <2>1 DEF IInv, LockInv, WaitInv
  <1>4. QED
    BY <1>2, <1>3 DEF IInv

\* a worker ends and leaves no lock of its own
LEMMA EndKeeps ==
    ASSUME IInv, NEW w \in Workers, NEW left \in {"free", "left"},
           work' = [work EXCEPT ![w] = Idle],
           lock' = IF lock = w THEN left ELSE lock,
           UNCHANGED <<due, dispatched, queued, shelf, passed, disturbed>>,
           running' \subseteq Workers \cup {"hand", "orphan"}
    PROVE  IInv'
  <1>1. \A v \in Workers : work'[v] = IF v = w THEN Idle ELSE work[v]
    BY DEF IInv, TypeOK
  <1>2. TypeOK'
    BY IdleType DEF IInv, TypeOK
  <1>3. ASSUME ~disturbed' PROVE LockInv' /\ WaitInv'
    BY <1>1, <1>3, IdleType DEF IInv, LockInv, WaitInv
  <1>4. QED
    BY <1>2, <1>3 DEF IInv

\* the schedule, and what operators do, leave the workers
LEMMA AsideKeeps ==
    ASSUME IInv, UNCHANGED work,
           due' \in BOOLEAN, dispatched' \in BOOLEAN, queued' \in 0 .. MaxQueued,
           lock' = lock \/ (lock = "left" /\ lock' = "free"),
           running' \subseteq Workers \cup {"hand", "orphan"},
           shelf' \in Seq(Lists), passed' \subseteq Lists, disturbed' \in BOOLEAN,
           ~disturbed' => (~disturbed /\ Len(shelf') <= Len(shelf) /\ passed' = {})
    PROVE  IInv'
  <1>1. TypeOK'
    BY DEF IInv, TypeOK
  <1>2. ASSUME ~disturbed' PROVE LockInv' /\ WaitInv'
    <2>1. LockInv /\ WaitInv
      BY <1>2 DEF IInv
    <2>2. LockInv'
      BY <2>1, IdleType DEF LockInv
    <2>3. shelf = <<>> => shelf' = <<>>
      BY <1>2
    <2>4. Len(shelf) \in Nat /\ Len(shelf') \in Nat
      BY DEF IInv, TypeOK
    <2>5. WaitInv'
      BY <1>2, <2>1, <2>3, <2>4 DEF WaitInv
    <2>6. QED
      BY <2>2, <2>5
  <1>3. QED
    BY <1>1, <1>2 DEF IInv

----------------------------------------------------------------------------
(* The operations.                                                         *)

LEMMA InitInvariant == Init => IInv
  <1> SUFFICES ASSUME Init PROVE IInv
    OBVIOUS
  <1>1. TypeOK
    <2>1. 0 \in 0 .. MaxQueued /\ <<>> \in Seq(Lists)
      BY ImportAssumption
    <2>2. QED
      BY <2>1, IdleType DEF Init, TypeOK
  <1>2. LockInv /\ WaitInv
    BY IdleType DEF Init, LockInv, WaitInv
  <1>3. QED
    BY <1>1, <1>2 DEF IInv

LEMMA ScheduleKeeps ==
    ASSUME IInv, Schedule
    PROVE  IInv'
  <1>1. /\ due \in BOOLEAN /\ dispatched \in BOOLEAN /\ queued \in 0 .. MaxQueued
        /\ MaxQueued \in Nat
        /\ running \subseteq Workers \cup {"hand", "orphan"}
        /\ shelf \in Seq(Lists) /\ Len(shelf) \in Nat /\ passed \subseteq Lists
        /\ disturbed \in BOOLEAN /\ (~disturbed => passed = {})
    BY ImportAssumption DEF IInv, TypeOK, WaitInv
  <1> DEFINE facts ==
               /\ due' \in BOOLEAN /\ dispatched' \in BOOLEAN /\ queued' \in 0 .. MaxQueued
               /\ (lock' = lock \/ (lock = "left" /\ lock' = "free"))
               /\ running' \subseteq Workers \cup {"hand", "orphan"}
               /\ UNCHANGED <<shelf, passed, work, disturbed>>
  <1>2. MomentComes => facts
    BY <1>1 DEF MomentComes
  <1>3. ASSUME NEW r \in running, CloseStale(r) PROVE facts
    BY <1>1, <1>3 DEF CloseStale
  <1>4. Dispatch => facts
    BY <1>1 DEF Dispatch
  <1>5. DispatchCut => facts
    BY <1>1 DEF DispatchCut
  <1>6. DispatchWithoutCache => facts
    BY <1>1 DEF DispatchWithoutCache
  <1>7. RunNow => facts
    BY <1>1 DEF RunNow
  <1>8. DispatchLockLapses => facts
    BY <1>1 DEF DispatchLockLapses
  <1>9. PipelineLockLapses => facts
    BY <1>1 DEF PipelineLockLapses
  <1>10. facts
    BY <1>2, <1>3, <1>4, <1>5, <1>6, <1>7, <1>8, <1>9 DEF Schedule
  <1>11. /\ shelf' \in Seq(Lists) /\ passed' \subseteq Lists /\ disturbed' \in BOOLEAN
         /\ (~disturbed' => (~disturbed /\ Len(shelf') <= Len(shelf) /\ passed' = {}))
    BY <1>1, <1>10
  <1>12. QED
    BY <1>10, <1>11, AsideKeeps

LEMMA OperatorsKeep ==
    ASSUME IInv,
           (\E l \in Lists : OperatorDownloads(l)) \/ OperatorStartsRun \/ OperatorEndsRun
    PROVE  IInv'
  <1>1. /\ due \in BOOLEAN /\ dispatched \in BOOLEAN /\ queued \in 0 .. MaxQueued
        /\ running \subseteq Workers \cup {"hand", "orphan"}
        /\ shelf \in Seq(Lists) /\ Len(shelf) \in Nat /\ passed \subseteq Lists
        /\ disturbed \in BOOLEAN /\ (~disturbed => passed = {} /\ Len(shelf) <= 1)
    BY DEF IInv, TypeOK, WaitInv
  <1>2. ASSUME NEW l \in Lists, OperatorDownloads(l) PROVE IInv'
    <2>1. Append(shelf, l) \in Seq(Lists)
      BY <1>1
    <2>2. QED
      BY <1>1, <1>2, <2>1, AsideKeeps DEF OperatorDownloads
  <1>3. CASE OperatorStartsRun
    BY <1>1, <1>3, AsideKeeps DEF OperatorStartsRun
  <1>4. CASE OperatorEndsRun
    <2>1. /\ running' \subseteq Workers \cup {"hand", "orphan"}
          /\ UNCHANGED <<due, dispatched, queued, lock, work, disturbed>>
      BY <1>1, <1>4 DEF OperatorEndsRun
    <2>2. CASE UNCHANGED <<shelf, passed>>
      BY <1>1, <2>1, <2>2, AsideKeeps
    <2>3. ASSUME NEW l \in InShelf, shelf' = Without(l),
                 passed' = (passed \cup OlderThan(l)) \ {l}
          PROVE  IInv'
      <3>1. /\ shelf' \in Seq(Lists) /\ Len(shelf') <= Len(shelf)
            /\ OlderThan(l) \subseteq Lists /\ (Len(shelf) <= 1 => OlderThan(l) = {})
        BY <1>1, <2>3, WithoutType, NoneOlder
      <3>2. passed' \subseteq Lists /\ (~disturbed => passed' = {})
        BY <1>1, <2>3, <3>1
      <3>3. QED
        BY <1>1, <2>1, <3>1, <3>2, AsideKeeps
    <2>4. QED
      BY <1>4, <2>2, <2>3 DEF OperatorEndsRun
  <1>5. QED
    BY <1>2, <1>3, <1>4

\* the lock is taken when it is free; without the cache the model calls it disturbed
LEMMA BeginKeeps ==
    ASSUME IInv, NEW w \in Workers, BeginPipeline(w), queued' \in 0 .. MaxQueued
    PROVE  IInv'
  <1>1. UNCHANGED <<due, dispatched, running, shelf, passed>>
    BY DEF BeginPipeline
  <1>2. CASE UNCHANGED <<lock, work, disturbed>>
    BY <1>1, <1>2 DEF IInv, TypeOK, LockInv, WaitInv
  <1>3. ASSUME Goto(w, "begun"),
               \/ LockIsFree /\ lock' = w /\ UNCHANGED disturbed
               \/ disturbed' = TRUE /\ UNCHANGED lock
        PROVE  IInv'
    <2>1. work' \in [Workers -> Job]
          /\ \A v \in Workers : work'[v].op = IF v = w THEN "begun" ELSE work[v].op
      BY <1>3 DEF Goto, IInv, TypeOK, Job, Ops
    <2>2. TypeOK'
      BY <1>1, <1>3, <2>1 DEF IInv, TypeOK
    <2>3. ASSUME ~disturbed' PROVE LockInv' /\ WaitInv'
      <3>1. ~disturbed /\ lock = "free" /\ lock' = w
        BY <1>3, <2>3 DEF LockIsFree
      <3>2. \A v \in Workers : work[v].op = "idle"
        BY <3>1, IdleType DEF IInv, LockInv
      <3>3. QED
        BY <1>1, <2>1, <3>1, <3>2 DEF IInv, LockInv, WaitInv
    <2>4. QED
      BY <2>2, <2>3 DEF IInv
  <1>4. QED
    BY <1>2, <1>3 DEF BeginPipeline

LEMMA ProceedKeeps ==
    ASSUME IInv, NEW w \in Workers,
           \/ Choose(w) \/ (\E l \in Lists : Download(w, l))
           \/ StartRun(w) \/ Persist(w) \/ EndRun(w) \/ Mark(w) \/ Fail(w)
    PROVE  IInv'
  <1>1. /\ due \in BOOLEAN /\ work[w] \in Job
        /\ running \subseteq Workers \cup {"hand", "orphan"}
        /\ shelf \in Seq(Lists) /\ Len(shelf) \in Nat /\ passed \subseteq Lists
        /\ (~disturbed => passed = {} /\ Len(shelf) <= 1)
        /\ (~disturbed /\ work[w].op = "request" => shelf = <<>>)
    BY DEF IInv, TypeOK, WaitInv
  <1> DEFINE at(op) == [work[w] EXCEPT !.op = op]
             with(op, l) == [work[w] EXCEPT !.op = op, !.list = l]
  <1>2. \A op \in Ops : at(op) \in Job /\ at(op).op = op
    BY <1>1 DEF Job
  <1>3. \A op \in Ops, l \in Lists \cup {Nobody} : with(op, l) \in Job /\ with(op, l).op = op
    BY <1>1 DEF Job
  <1>4. \A op : Goto(w, op) => work' = [work EXCEPT ![w] = at(op)]
    BY DEF Goto, IInv, TypeOK
  <1>5. ToRelease(w) => work' = [work EXCEPT ![w] = with("release", Nobody)]
    BY DEF ToRelease, IInv, TypeOK
  <1>6. \A l : work' = [work EXCEPT ![w].op = "run", ![w].list = l]
                 => work' = [work EXCEPT ![w] = with("run", l)]
    BY DEF IInv, TypeOK
  <1> HIDE DEF at, with
  <1>7. {"request", "run", "persist", "applied", "mark", "release"} \subseteq Ops
    BY DEF Ops
  <1>8. ASSUME Choose(w) PROVE IInv'
    <2>1. /\ work[w].op = "begun"
          /\ UNCHANGED <<due, dispatched, queued, lock, running, shelf, passed, disturbed>>
      BY <1>8 DEF Choose
    <2>2. ASSUME NEW l \in Reusable, work' = [work EXCEPT ![w].op = "run", ![w].list = l]
          PROVE  IInv'
      <3>1. l \in Lists
        BY <1>1, <2>2, LastType
      <3>2. /\ work' = [work EXCEPT ![w] = with("run", l)]
            /\ with("run", l) \in Job /\ with("run", l).op = "run"
        BY <1>3, <1>6, <1>7, <2>2, <3>1
      <3>3. QED
        BY <1>1, <2>1, <3>2, WorkKeeps
    <2>3. ASSUME Reusable = {}, Goto(w, "request")
          PROVE  IInv'
      <3>1. shelf = <<>>
        BY <1>1, <2>3, LastType
      <3>2. /\ work' = [work EXCEPT ![w] = at("request")]
            /\ at("request") \in Job /\ at("request").op = "request"
        BY <1>2, <1>4, <1>7, <2>3
      <3>3. QED
        BY <1>1, <2>1, <3>1, <3>2, WorkKeeps
    <2>4. QED
      BY <1>8, <2>2, <2>3 DEF Choose
  <1>9. ASSUME NEW l \in Lists, Download(w, l) PROVE IInv'
    <2>1. /\ work[w].op = "request" /\ shelf' = Append(shelf, l) /\ passed' = passed \ {l}
          /\ work' = [work EXCEPT ![w] = with("run", l)]
          /\ UNCHANGED <<due, dispatched, queued, lock, running, disturbed>>
      BY <1>6, <1>9 DEF Download
    <2>2. shelf' \in Seq(Lists) /\ (~disturbed => Len(shelf') <= 1)
      BY <1>1, <2>1
    <2>3. passed' \subseteq Lists /\ (~disturbed => passed' = {}) /\ due' \in BOOLEAN
      BY <1>1, <2>1
    <2>4. with("run", l) \in Job /\ with("run", l).op = "run"
      BY <1>3, <1>7
    <2>5. QED
      BY <1>1, <2>1, <2>2, <2>3, <2>4, WorkKeeps
  <1>10. ASSUME StartRun(w) PROVE IInv'
    <2>1. /\ work[w].op # "idle" /\ work' = [work EXCEPT ![w] = at("persist")]
          /\ due' \in BOOLEAN /\ running' \subseteq Workers \cup {"hand", "orphan"}
          /\ UNCHANGED <<dispatched, queued, lock, shelf, passed, disturbed>>
      BY <1>1, <1>4, <1>10 DEF StartRun
    <2>2. at("persist") \in Job /\ at("persist").op = "persist"
      BY <1>2, <1>7
    <2>3. QED
      BY <1>1, <2>1, <2>2, WorkKeeps
  <1>11. ASSUME Persist(w) PROVE IInv'
    <2>1. /\ OlderThan(work[w].list) \subseteq Lists
          /\ Len(shelf) <= 1 => OlderThan(work[w].list) = {}
      BY <1>1, NoneOlder
    <2>2. /\ work[w].op # "idle" /\ work' = [work EXCEPT ![w] = at("applied")]
          /\ passed' \subseteq Lists /\ (~disturbed => passed' = {})
          /\ UNCHANGED <<due, dispatched, queued, lock, running, shelf, disturbed>>
      BY <1>1, <1>4, <1>11, <2>1 DEF Persist
    <2>3. at("applied") \in Job /\ at("applied").op = "applied"
      BY <1>2, <1>7
    <2>4. QED
      BY <1>1, <2>2, <2>3, WorkKeeps
  <1>12. ASSUME EndRun(w) PROVE IInv'
    <2>1. /\ work[w].op # "idle" /\ work' = [work EXCEPT ![w] = at("mark")]
          /\ running' \subseteq Workers \cup {"hand", "orphan"}
          /\ UNCHANGED <<due, dispatched, queued, lock, shelf, passed, disturbed>>
      BY <1>1, <1>4, <1>12 DEF EndRun
    <2>2. at("mark") \in Job /\ at("mark").op = "mark"
      BY <1>2, <1>7
    <2>3. QED
      BY <1>1, <2>1, <2>2, WorkKeeps
  <1>13. ASSUME Mark(w) PROVE IInv'
    <2>1. /\ Without(work[w].list) \in Seq(Lists)
          /\ Len(Without(work[w].list)) <= Len(shelf) /\ Len(Without(work[w].list)) \in Nat
      BY <1>1, WithoutType
    <2>2. /\ work[w].op # "idle" /\ work' = [work EXCEPT ![w] = with("release", Nobody)]
          /\ shelf' \in Seq(Lists) /\ passed' \subseteq Lists
          /\ (~disturbed => Len(shelf') <= 1 /\ passed' = {})
          /\ UNCHANGED <<due, dispatched, queued, lock, running, disturbed>>
      BY <1>1, <1>5, <1>13, <2>1 DEF Mark, MarkImported
    <2>3. with("release", Nobody) \in Job /\ with("release", Nobody).op = "release"
      BY <1>3, <1>7
    <2>4. QED
      BY <1>1, <2>2, <2>3, WorkKeeps
  <1>14. ASSUME Fail(w) PROVE IInv'
    <2>1. running' \subseteq Workers \cup {"hand", "orphan"}
      BY <1>1, <1>14 DEF Fail
    <2>2. /\ work[w].op # "idle" /\ work' = [work EXCEPT ![w] = with("release", Nobody)]
          /\ UNCHANGED <<due, dispatched, queued, lock, shelf, passed, disturbed>>
      BY <1>5, <1>14 DEF Fail
    <2>3. with("release", Nobody) \in Job /\ with("release", Nobody).op = "release"
      BY <1>3, <1>7
    <2>4. QED
      BY <1>1, <2>1, <2>2, <2>3, WorkKeeps
  <1>15. QED
    BY <1>8, <1>9, <1>10, <1>11, <1>12, <1>13, <1>14

LEMMA EndsKeep ==
    ASSUME IInv, NEW w \in Workers, Release(w) \/ Crash(w)
    PROVE  IInv'
  <1>1. CASE Release(w)
    BY <1>1, EndKeeps DEF Release, IInv, TypeOK
  <1>2. CASE Crash(w)
    <2>1. running' \subseteq Workers \cup {"hand", "orphan"}
      BY <1>2 DEF Crash, IInv, TypeOK
    <2>2. QED
      BY <1>2, <2>1, EndKeeps DEF Crash
  <1>3. QED
    BY <1>1, <1>2

LEMMA StepKeeps == IInv /\ [Next]_vars => IInv'
  <1> SUFFICES ASSUME IInv, [Next]_vars PROVE IInv'
    OBVIOUS
  <1>1. CASE UNCHANGED vars
    BY <1>1 DEF vars, IInv, TypeOK, LockInv, WaitInv
  <1>2. CASE Schedule
    BY <1>2, ScheduleKeeps
  <1>3. ASSUME NEW w \in Workers, TakeTask(w) \/ RunInline(w) PROVE IInv'
    <2>1. queued' \in 0 .. MaxQueued
      BY <1>3, ImportAssumption DEF TakeTask, RunInline, IInv, TypeOK
    <2>2. QED
      BY <1>3, <2>1, BeginKeeps DEF TakeTask, RunInline
  <1>4. ASSUME NEW w \in Workers, Proceed(w) \/ Fail(w) \/ Crash(w) PROVE IInv'
    BY <1>4, ProceedKeeps, EndsKeep DEF Proceed
  <1>5. CASE (\E l \in Lists : OperatorDownloads(l)) \/ OperatorStartsRun \/ OperatorEndsRun
    BY <1>5, OperatorsKeep
  <1>6. QED
    BY <1>1, <1>2, <1>3, <1>4, <1>5 DEF Next, Step

----------------------------------------------------------------------------
(* The theorems.                                                           *)

\* Everything the proofs know of a reachable state: unless it was disturbed, whoever is
\* at work has the lock, and at most one list waits.
THEOREM Invariance == Spec => []IInv
  BY InitInvariant, StepKeeps, PTL DEF Spec

\* The variables have their types, also when the cache fails and operators import by hand.
THEOREM TypesAlways == Spec => []TypeOK
  <1>1. IInv => TypeOK
    BY DEF IInv
  <1>2. QED
    BY <1>1, Invariance, PTL

\* As long as the cache answers, no two pipelines of the supplier work together, whatever
\* the dispatcher sends again, operators start and killed tasks leave behind.
THEOREM OnePipelineAtATime == Spec => []OnePipeline
  <1>1. IInv => OnePipeline
    <2> SUFFICES ASSUME IInv, ~disturbed
                 PROVE  Cardinality({w \in Workers : work[w].op \in Working}) <= 1
      BY DEF OnePipeline
    <2> DEFINE busy == {w \in Workers : work[w].op \in Working}
    <2>1. busy \subseteq {lock}
      BY DEF IInv, LockInv, Working
    <2>2. busy = {} \/ busy = {lock}
      BY <2>1
    <2>3. Cardinality({}) = 0 /\ Cardinality({lock}) = 1
      BY FS_EmptySet, FS_Singleton
    <2> HIDE DEF busy
    <2>4. Cardinality(busy) <= 1
      BY <2>2, <2>3
    <2>5. QED
      BY <2>4 DEF busy
  <1>2. QED
    BY <1>1, Invariance, PTL

\* As long as the cache answers and operators leave the lists alone, no list that waits
\* is older than the prices in the offers, so that no later pipeline takes prices back.
THEOREM NoPricesTakenBack == Spec => []NothingOldWaits
  <1>1. IInv => NothingOldWaits
    BY DEF IInv, WaitInv, NothingOldWaits
  <1>2. QED
    BY <1>1, Invariance, PTL
=============================================================================
