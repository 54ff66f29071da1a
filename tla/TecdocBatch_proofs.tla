------------------------- MODULE TecdocBatch_proofs -------------------------
(***************************************************************************)
(* Proofs about TecdocBatch, for every set of requests and of task ids and *)
(* every bound of the runs and of the mishaps.                             *)
(*                                                                         *)
(* Nothing locks the row of a run.  That an ended run comes back only      *)
(* through what was under way rests on nothing but the types.  What holds  *)
(* the batch together, while requests overlap and tasks start before their *)
(* ids are saved, is the invariant: the work that is wanted is of the one  *)
(* running run, and whoever is about to send or to save is alone with it.  *)
(***************************************************************************)
EXTENDS TecdocBatch, FiniteSetTheorems, TLAPS

\* Tasks and requests are about runs that have been created.
Placed ==
    /\ \A t \in Live : task[t].run \in Created
    /\ \A v \in Views : view[v].op \notin {"idle", "create"} => view[v].run \in Created

Running(r) == row[r].status = "running"

OneRun == \A r, s \in Runs : Running(r) /\ Running(s) => r = s

OneTask == \A t, u \in Wanted : t = u

Sends(v) == view[v].op \in {"send", "save", "saveresume"}

\* a task that is wanted is of a running run, and its id is lost only with an id in its
\* place that nobody has any more
TasksKnown ==
    \A t \in Wanted :
        /\ Running(task[t].run)
        /\ row[task[t].run].task = t \/ t \in BeingSaved \/ Unaware(t)
        /\ Unaware(t) => task[t].named \notin Live

\* a running run names no task that has been revoked, and has none
RowsKnow ==
    /\ \A r \in Runs : Running(r) /\ row[r].task \in Live => row[r].task \in Wanted
    /\ \A t \in Live : task[t].revoked => ~Running(task[t].run)

\* the request that sends a task of a running run is alone, and no other task is wanted
SendersAlone ==
    /\ \A u, v \in Views : Sends(u) /\ Sends(v) /\ Running(view[u].run) /\ Running(view[v].run)
                             => u = v
    /\ \A v \in Views : Sends(v) =>
         /\ Running(view[v].run) => Wanted \subseteq {view[v].task}
         /\ view[v].op = "send" => Running(view[v].run) /\ view[v].task = Nobody
         /\ view[v].op # "send" => view[v].task \in Tasks
         /\ view[v].task \in Live => /\ view[v].task \in Wanted
                                     /\ task[view[v].task].run = view[v].run

\* the request has found that the task of the run is gone, or that the run has had none
Orphaned(x) == x.op \in {"resume", "close"} \/ (x.op = "inspect" /\ x.stale)

Orphans == \A v \in Views : Orphaned(view[v]) => view[v].task \notin Live

CalmInv == OneRun /\ OneTask /\ TasksKnown /\ RowsKnow /\ SendersAlone /\ Orphans

IInv == TypeOK /\ Placed /\ (Calm => CalmInv)

----------------------------------------------------------------------------
(* Types.                                                                  *)

LEMMA Records ==
    /\ Idle \in View /\ Idle.op = "idle" /\ Idle.run = 0
    /\ Gone \in Task /\ Gone.st = "gone" /\ Nobody \notin Tasks
  <1>1. 0 \in 0 .. MaxRuns /\ Nobody \notin Tasks
    BY BatchAssumption DEF Nobody
  <1>2. Idle \in View /\ Idle.op = "idle" /\ Idle.run = 0
    BY <1>1 DEF Idle, View, Wants
  <1>3. Gone \in Task /\ Gone.st = "gone"
    BY <1>1 DEF Gone, Task
  <1>4. QED
    BY <1>1, <1>2, <1>3

LEMMA QueuedType ==
    ASSUME NEW r \in Runs
    PROVE  /\ Queued(r) \in Task /\ Queued(r).st = "queued" /\ Queued(r).run = r
           /\ Queued(r).revoked = FALSE
  <1>1. r \in 0 .. MaxRuns
    BY BatchAssumption DEF Runs
  <1>2. QED
    BY <1>1 DEF Queued, Gone, Task

LEMMA LookedType ==
    ASSUME TypeOK, NEW r \in Runs, NEW w \in Wants, NEW op \in {"inspect", "close", "stop"}
    PROVE  /\ Looked(r, w, op) \in View /\ Looked(r, w, op).op = op
           /\ Looked(r, w, op).run = r /\ Looked(r, w, op).task = row[r].task
           /\ Looked(r, w, op).stale => Outdated(r)
  <1>1. r \in 0 .. MaxRuns /\ row[r].task \in Tasks \cup {Nobody}
    BY BatchAssumption DEF Runs, TypeOK, Row
  <1>2. QED
    BY <1>1 DEF Looked, View, Outdated

\* what a request becomes when it goes to its next step
LEMMA GotoMoves ==
    ASSUME TypeOK, NEW v \in Views, NEW op \in {"resume", "close", "stop", "create"},
           Goto(v, op)
    PROVE  \E k \in View : /\ view' = [view EXCEPT ![v] = k]
                           /\ k.op = op /\ k.run = view[v].run /\ k.task = view[v].task
  <1> DEFINE k == [view[v] EXCEPT !.op = op, !.stale = FALSE]
  <1>1. view[v] \in View /\ view' = [view EXCEPT ![v] = k]
    BY DEF Goto, TypeOK
  <1>2. k \in View /\ k.op = op /\ k.run = view[v].run /\ k.task = view[v].task
    BY <1>1 DEF View
  <1>3. QED
    BY <1>1, <1>2

\* without mishaps there were none
LEMMA CalmBefore ==
    ASSUME NEW happens, mishaps \in 0 .. MaxMishaps, Mishap(happens) \/ LastMishap(happens)
    PROVE  mishaps' \in 0 .. MaxMishaps /\ (Calm' => Calm /\ ~happens)
  BY BatchAssumption DEF Mishap, LastMishap, Calm

----------------------------------------------------------------------------
(* An ended run.                                                           *)

Kept(r) == /\ UnderWay(r)' <= UnderWay(r)
           /\ Ended(r)' \/ UnderWay(r)' < UnderWay(r)

LEMMA Finite ==
    ASSUME NEW r \in Runs
    PROVE  /\ IsFiniteSet(Waiting(r)) /\ IsFiniteSet(Deciding(r))
           /\ Cardinality(Waiting(r)) \in Nat /\ Cardinality(Deciding(r)) \in Nat
  <1>1. Waiting(r) \subseteq Tasks /\ Deciding(r) \subseteq Views
    BY DEF Waiting, Deciding, TasksOf, Live
  <1>2. IsFiniteSet(Waiting(r)) /\ IsFiniteSet(Deciding(r))
    BY <1>1, BatchAssumption, FS_Subset
  <1>3. QED
    BY <1>2, FS_CardinalityType

LEMMA FiniteAfter ==
    ASSUME NEW r \in Runs
    PROVE  /\ IsFiniteSet(Waiting(r)') /\ IsFiniteSet(Deciding(r)')
           /\ Cardinality(Waiting(r)') \in Nat /\ Cardinality(Deciding(r)') \in Nat
  <1>1. Waiting(r)' \subseteq Tasks /\ Deciding(r)' \subseteq Views
    BY DEF Waiting, Deciding, TasksOf, Live
  <1>2. IsFiniteSet(Waiting(r)') /\ IsFiniteSet(Deciding(r)')
    BY <1>1, BatchAssumption, FS_Subset
  <1>3. QED
    BY <1>2, FS_CardinalityType

\* nothing is added, and the run stays ended
LEMMA NothingAdded ==
    ASSUME NEW r \in Runs, Waiting(r)' \subseteq Waiting(r), Deciding(r)' \subseteq Deciding(r),
           Ended(r)'
    PROVE  Kept(r)
  <1>1. /\ Cardinality(Waiting(r)') <= Cardinality(Waiting(r))
        /\ Cardinality(Deciding(r)') <= Cardinality(Deciding(r))
    BY Finite, FS_Subset
  <1>2. QED
    BY <1>1, Finite, FiniteAfter DEF Kept, UnderWay

\* a request goes on
LEMMA RequestMoves ==
    ASSUME TypeOK, NEW v \in Views, NEW k \in View, NEW r \in Runs, Ended(r),
           view' = [view EXCEPT ![v] = k],
           k.run = r /\ k.op \in {"inspect", "resume", "send"} => v \in Deciding(r),
           Ended(r)',
           \A t \in Tasks : task'[t].st = task[t].st /\ task'[t].run = task[t].run
    PROVE  Kept(r)
  <1>1. \A u \in Views : view'[u] = IF u = v THEN k ELSE view[u]
    BY DEF TypeOK
  <1>2. Deciding(r)' \subseteq Deciding(r)
    BY <1>1 DEF Deciding
  <1>3. Waiting(r)' \subseteq Waiting(r)
    BY DEF Waiting, TasksOf, Live
  <1>4. QED
    BY <1>2, <1>3, NothingAdded

LEMMA LookKeepsEnded ==
    ASSUME TypeOK, NEW v \in Views, NEW w \in Wants, Look(v, w), NEW r \in Runs, Ended(r)
    PROVE  Kept(r)
  <1>1. UNCHANGED <<row, task>> /\ Ended(r)'
    BY DEF Look, Ended
  <1>2. CASE view' = [view EXCEPT ![v] = [Idle EXCEPT !.op = "create", !.wants = w]]
    <2> DEFINE k == [Idle EXCEPT !.op = "create", !.wants = w]
    <2>1. k \in View /\ k.op = "create"
      BY Records DEF Idle, View, Wants
    <2>2. view' = [view EXCEPT ![v] = k]
      BY <1>2
    <2> HIDE DEF k
    <2>3. QED
      BY <1>1, <2>1, <2>2, RequestMoves
  <1>3. ASSUME NEW q \in Newest, NEW op \in {"inspect", "close", "stop"},
               view' = [view EXCEPT ![v] = Looked(q, w, op)]
        PROVE  Kept(r)
    <2> DEFINE k == Looked(q, w, op)
    <2>1. q \in Runs /\ q # r
      BY DEF Newest, Active, Ended
    <2>2. k \in View /\ k.run = q
      BY <2>1, LookedType
    <2>3. view' = [view EXCEPT ![v] = k]
      BY <1>3
    <2> HIDE DEF k
    <2>4. QED
      BY <1>1, <2>1, <2>2, <2>3, RequestMoves
  <1>4. QED
    BY <1>2, <1>3 DEF Look

LEMMA AnswerKeepsEnded ==
    ASSUME TypeOK, NEW v \in Views, Seen(v) \/ Unseen(v) \/ GiveUp(v) \/ Abort(v),
           NEW r \in Runs, Ended(r)
    PROVE  Kept(r)
  <1> DEFINE x == view[v]
  <1>1. UNCHANGED <<row, task>> /\ Ended(r)'
    BY DEF Seen, Unseen, GiveUp, Abort, Ended
  <1>2. \/ Done(v) \/ Goto(v, "close") \/ Goto(v, "stop")
        \/ x.op = "inspect" /\ Goto(v, "resume")
    BY DEF Seen, Unseen, GiveUp, Abort, GoOn
  <1>3. CASE Done(v)
    BY <1>1, <1>3, Records, RequestMoves DEF Done
  <1>4. ASSUME NEW op \in {"close", "stop"}, Goto(v, op) PROVE Kept(r)
    <2>1. PICK k \in View : view' = [view EXCEPT ![v] = k] /\ k.op = op
      BY <1>4, GotoMoves
    <2>2. QED
      BY <1>1, <2>1, RequestMoves
  <1>5. CASE x.op = "inspect" /\ Goto(v, "resume")
    <2>1. PICK k \in View : view' = [view EXCEPT ![v] = k] /\ k.run = x.run
      BY <1>5, GotoMoves
    <2>2. x.run = r => v \in Deciding(r)
      BY <1>5 DEF Deciding
    <2>3. QED
      BY <1>1, <2>1, <2>2, RequestMoves
  <1>6. QED
    BY <1>2, <1>3, <1>4, <1>5

LEMMA SaveKeepsEnded ==
    ASSUME TypeOK, NEW v \in Views, SaveResume(v) \/ Save(v), NEW r \in Runs, Ended(r)
    PROVE  Kept(r)
  <1> DEFINE x == view[v]
  <1>1. x \in View /\ UNCHANGED task /\ row \in [Runs -> Row]
    BY DEF SaveResume, Save, TypeOK
  <1>2. PICK b \in {"fresh", "quiet"} :
          row' = [row EXCEPT ![x.run].task = x.task, ![x.run].beat = b]
    BY DEF SaveResume, Save
  <1>3. row'[r].status = row[r].status
    BY <1>1, <1>2 DEF Row
  <1>4. Done(v) \/ Goto(v, "stop")
    BY DEF SaveResume, Save, GoOn
  <1>5. PICK y \in View : view' = [view EXCEPT ![v] = y] /\ y.op \in {"stop", "idle"}
    BY <1>4, GotoMoves, Records DEF Done
  <1>6. Ended(r)'
    BY <1>3 DEF Ended
  <1>7. QED
    BY <1>1, <1>5, <1>6, RequestMoves

LEMMA EndingKeepsEnded ==
    ASSUME TypeOK, NEW v \in Views, Close(v) \/ Stop(v), NEW r \in Runs, Ended(r)
    PROVE  Kept(r)
  <1> DEFINE x == view[v]
  <1>1. x \in View /\ row \in [Runs -> Row] /\ task \in [Tasks -> Task]
    BY DEF TypeOK
  <1>2. PICK status \in {"closed", "stopped"} : row' = Saved(x.run, status, x.task)
    BY DEF Close, Stop
  <1>3. Ended(r)'
    BY <1>1, <1>2 DEF Saved, Ended
  <1>4. Done(v) \/ Goto(v, "create")
    BY DEF Close, Stop
  <1>5. PICK y \in View : view' = [view EXCEPT ![v] = y] /\ y.op \in {"create", "idle"}
    BY <1>4, GotoMoves, Records DEF Done
  <1>6. \A t \in Tasks : task'[t].st = task[t].st /\ task'[t].run = task[t].run
    <2>1. CASE Close(v)
      BY <2>1 DEF Close
    <2>2. CASE Stop(v)
      BY <1>1, <2>2 DEF Stop, Task, Live
    <2>3. QED
      BY <2>1, <2>2
  <1>7. QED
    BY <1>3, <1>5, <1>6, RequestMoves

LEMMA CreateKeepsEnded ==
    ASSUME TypeOK, NEW v \in Views, Create(v), NEW r \in Runs, Ended(r)
    PROVE  Kept(r)
  <1>1. PICK q \in Runs \ Created :
          /\ row' = Saved(q, "running", Nobody)
          /\ view' = [view EXCEPT ![v] = [Idle EXCEPT !.op = "send", !.wants = "run",
                                                      !.run = q]]
    BY DEF Create
  <1> DEFINE k == [Idle EXCEPT !.op = "send", !.wants = "run", !.run = q]
  <1>2. q # r
    BY DEF Created, Ended
  <1>3. k \in View /\ k.run = q
    <2>1. q \in 0 .. MaxRuns
      BY BatchAssumption DEF Runs
    <2>2. QED
      BY <2>1, Records DEF Idle, View, Wants
  <1>4. view' = [view EXCEPT ![v] = k]
    BY <1>1
  <1> HIDE DEF k
  <1>5. UNCHANGED task /\ Ended(r)'
    BY <1>1, <1>2 DEF Create, TypeOK, Saved, Ended
  <1>6. QED
    BY <1>2, <1>3, <1>4, <1>5, RequestMoves

\* the request that may send a task becomes the task that it has sent
LEMMA SendKeepsEnded ==
    ASSUME TypeOK, NEW v \in Views, NEW t \in Tasks, Resume(v, t) \/ Send(v, t),
           NEW r \in Runs, Ended(r)
    PROVE  Kept(r)
  <1> DEFINE x == view[v]
  <1>1. /\ x \in View /\ x.op \in {"resume", "send"} /\ task \in [Tasks -> Task]
        /\ task[t].st = "gone" /\ Ended(r)'
    BY DEF Resume, Send, TypeOK, Ended, SpareFor, Spare, Live
  <1>2. \A u \in Views : u # v => view'[u] = view[u]
    BY DEF Resume, Send, TypeOK
  <1>3. view'[v].op \in {"saveresume", "save"}
    BY <1>1 DEF Resume, Send, TypeOK, View
  <1>4. \A u \in Tasks : task'[u] = IF u = t THEN Queued(x.run) ELSE task[u]
    BY <1>1 DEF Resume, Send
  <1>5. Queued(x.run).run = x.run /\ Queued(x.run).st = "queued"
    BY DEF Queued, Gone
  <1>6. CASE x.run # r
    <2>1. Waiting(r)' \subseteq Waiting(r)
      BY <1>4, <1>5, <1>6 DEF Waiting, TasksOf, Live
    <2>2. Deciding(r)' \subseteq Deciding(r)
      BY <1>2, <1>3 DEF Deciding
    <2>3. QED
      BY <1>1, <2>1, <2>2, NothingAdded
  <1>7. CASE x.run = r
    <2>1. Waiting(r)' = Waiting(r) \cup {t} /\ t \notin Waiting(r)
      BY <1>1, <1>4, <1>5, <1>7 DEF Waiting, TasksOf, Live
    <2>2. Deciding(r)' = Deciding(r) \ {v} /\ v \in Deciding(r)
      BY <1>1, <1>2, <1>3, <1>7 DEF Deciding
    <2>3. Cardinality(Waiting(r)') = Cardinality(Waiting(r)) + 1
      BY <2>1, Finite, FS_AddElement
    <2>4. Cardinality(Deciding(r)') = Cardinality(Deciding(r)) - 1
      BY <2>2, Finite, FS_RemoveElement
    <2>5. QED
      BY <1>1, <2>3, <2>4, Finite DEF Kept, UnderWay
  <1>8. QED
    BY <1>6, <1>7

\* a task of the run that starts is used up
LEMMA TakeKeepsEnded ==
    ASSUME TypeOK, NEW t \in Tasks, Take(t), NEW r \in Runs, Ended(r)
    PROVE  Kept(r)
  <1>1. /\ task[t].st = "queued" /\ UNCHANGED view
        /\ row \in [Runs -> Row] /\ task \in [Tasks -> Task]
        /\ row' = [row EXCEPT ![task[t].run].status = "running", ![task[t].run].beat = "fresh"]
    BY DEF Take, TypeOK
  <1>2. /\ \A u \in Tasks : u # t => task'[u] = task[u]
        /\ task'[t].st = "working"
    BY <1>1 DEF Take, Task
  <1>3. Deciding(r)' = Deciding(r)
    BY <1>1 DEF Deciding
  <1>4. Waiting(r)' = Waiting(r) \ {t}
    BY <1>2 DEF Waiting, TasksOf, Live
  <1>5. CASE task[t].run # r
    <2>1. Ended(r)'
      BY <1>1, <1>5 DEF Ended
    <2>2. QED
      BY <1>3, <1>4, <2>1, NothingAdded
  <1>6. CASE task[t].run = r
    <2>1. t \in Waiting(r)
      BY <1>1, <1>6 DEF Waiting, TasksOf, Live
    <2>2. Cardinality(Waiting(r)') = Cardinality(Waiting(r)) - 1
      BY <1>4, <2>1, Finite, FS_RemoveElement
    <2>3. QED
      BY <1>3, <2>2, Finite DEF Kept, UnderWay
  <1>7. QED
    BY <1>5, <1>6

LEMMA WorkKeepsEnded ==
    ASSUME TypeOK, NEW t \in Tasks, Beat(t) \/ Finish(t) \/ Die(t), NEW r \in Runs, Ended(r)
    PROVE  Kept(r)
  <1>1. /\ UNCHANGED view /\ row \in [Runs -> Row] /\ task \in [Tasks -> Task]
        /\ \A u \in Tasks : task'[u] = task[u] \/ task'[u] = Gone
    BY DEF Beat, Finish, Die, TypeOK
  <1>2. Deciding(r)' \subseteq Deciding(r)
    BY <1>1 DEF Deciding
  <1>3. Waiting(r)' \subseteq Waiting(r)
    BY <1>1, Records DEF Waiting, TasksOf, Live
  <1>4. row'[r].status \in {row[r].status, "closed"}
    <2>1. CASE Beat(t)
      BY <1>1, <2>1 DEF Beat, Row
    <2>2. CASE Finish(t)
      BY <1>1, <2>2 DEF Finish, Saved
    <2>3. CASE Die(t)
      BY <2>3 DEF Die
    <2>4. QED
      BY <2>1, <2>2, <2>3
  <1>5. Ended(r)'
    BY <1>4 DEF Ended
  <1>6. QED
    BY <1>2, <1>3, <1>5, NothingAdded

LEMMA StillnessKeepsEnded ==
    ASSUME TypeOK, UNCHANGED vars \/ (\E q \in Runs : GrowQuiet(q) \/ GrowStale(q)),
           NEW r \in Runs, Ended(r)
    PROVE  Kept(r)
  <1>1. UNCHANGED <<task, view>> /\ row \in [Runs -> Row]
    BY DEF vars, GrowQuiet, GrowStale, TypeOK
  <1>2. row'[r].status = row[r].status
    BY <1>1 DEF vars, GrowQuiet, GrowStale, Row
  <1>3. Ended(r)' /\ Deciding(r)' \subseteq Deciding(r) /\ Waiting(r)' \subseteq Waiting(r)
    BY <1>1, <1>2 DEF Ended, Deciding, Waiting, TasksOf, Live
  <1>4. QED
    BY <1>3, NothingAdded

LEMMA StepKeepsEnded ==
    ASSUME TypeOK, [Next]_vars, NEW r \in Runs, Ended(r)
    PROVE  Kept(r)
  <1>1. CASE UNCHANGED vars
    BY <1>1, StillnessKeepsEnded
  <1>2. ASSUME NEW v \in Views, NEW w \in Wants, Look(v, w) PROVE Kept(r)
    BY <1>2, LookKeepsEnded
  <1>3. ASSUME NEW v \in Views, Serve(v) \/ Abort(v) PROVE Kept(r)
    BY <1>3, AnswerKeepsEnded, SaveKeepsEnded, EndingKeepsEnded, CreateKeepsEnded,
       SendKeepsEnded DEF Serve
  <1>4. ASSUME NEW t \in Tasks, Work(t) PROVE Kept(r)
    BY <1>4, TakeKeepsEnded, WorkKeepsEnded DEF Work
  <1>5. ASSUME NEW q \in Runs, GrowQuiet(q) \/ GrowStale(q) PROVE Kept(r)
    BY <1>5, StillnessKeepsEnded
  <1>6. QED
    BY <1>1, <1>2, <1>3, <1>4, <1>5 DEF Next

----------------------------------------------------------------------------
(* The invariant: requests that leave the runs and the tasks.              *)

LEMMA ViewMoves ==
    ASSUME IInv, NEW v \in Views, NEW k \in View,
           view' = [view EXCEPT ![v] = k], UNCHANGED <<row, task>>,
           mishaps' \in 0 .. MaxMishaps, Calm' => Calm,
           k.op \notin {"send", "save", "saveresume"},
           k.op \notin {"idle", "create"} => k.run \in Created,
           Calm' => view[v].op \notin {"save", "saveresume"},
           Calm' /\ Orphaned(k) => k.task \notin Live
    PROVE  IInv'
  <1>1. \A u \in Views : view'[u] = IF u = v THEN k ELSE view[u]
    BY DEF IInv, TypeOK
  <1>2. TypeOK'
    BY DEF IInv, TypeOK
  <1>3. Live' = Live /\ Created' = Created /\ Wanted' = Wanted
    BY DEF Live, Created, Wanted
  <1>4. Placed'
    BY <1>1, <1>3 DEF IInv, Placed
  <1>5. ASSUME Calm' PROVE CalmInv'
    <2>1. Calm /\ CalmInv
      BY <1>5 DEF IInv
    <2>2. OneRun' /\ OneTask' /\ RowsKnow'
      BY <1>3, <2>1 DEF CalmInv, OneRun, OneTask, RowsKnow, Running
    <2>3. \A t : t \in BeingSaved => t \in BeingSaved'
      BY <1>1, <1>5 DEF BeingSaved
    <2>4. TasksKnown'
      BY <1>3, <2>1, <2>3 DEF CalmInv, TasksKnown, Running, Unaware
    <2>5. \A u \in Views : Sends(u)' => Sends(u) /\ view'[u] = view[u]
      BY <1>1 DEF Sends
    <2>6. SendersAlone'
      BY <1>3, <2>1, <2>5 DEF CalmInv, SendersAlone, Running
    <2>7. Orphans'
      BY <1>1, <1>3, <1>5, <2>1 DEF CalmInv, Orphans, Orphaned
    <2>8. QED
      BY <2>2, <2>4, <2>6, <2>7 DEF CalmInv
  <1>6. QED
    BY <1>2, <1>4, <1>5 DEF IInv

LEMMA LookKeeps ==
    ASSUME IInv, NEW v \in Views, NEW w \in Wants, Look(v, w)
    PROVE  IInv'
  <1>1. /\ view[v].op = "idle" /\ UNCHANGED <<row, task>> /\ TypeOK
    BY DEF Look, IInv
  <1> DEFINE seen == \E r \in Newest : Outdated(r) /\ TasksOf(r) # {}
  <1>2. mishaps' \in 0 .. MaxMishaps /\ (Calm' => Calm /\ ~seen)
    <2> HIDE DEF seen
    <2>1. Mishap(seen)
      BY DEF Look, seen
    <2>2. QED
      BY <2>1, CalmBefore DEF IInv, TypeOK
  <1>3. CASE view' = [view EXCEPT ![v] = [Idle EXCEPT !.op = "create", !.wants = w]]
    <2> DEFINE k == [Idle EXCEPT !.op = "create", !.wants = w]
    <2>1. k \in View /\ k.op = "create"
      BY Records DEF Idle, View, Wants
    <2>2. ~Orphaned(k)
      BY <2>1 DEF Orphaned
    <2> HIDE DEF k
    <2>3. view' = [view EXCEPT ![v] = k]
      BY <1>3 DEF k
    <2>4. QED
      BY <1>1, <1>2, <2>1, <2>2, <2>3, ViewMoves
  <1>4. ASSUME NEW r \in Newest, NEW op \in {"inspect", "close", "stop"},
               view' = [view EXCEPT ![v] = Looked(r, w, op)],
               op = "close" => row[r].task = Nobody
        PROVE  IInv'
    <2> DEFINE k == Looked(r, w, op)
    <2>1. r \in Runs /\ Running(r) /\ r \in Created
      BY DEF Newest, Active, Running, Created
    <2>2. /\ k \in View /\ k.op = op /\ k.run = r /\ k.task = row[r].task
          /\ k.stale => Outdated(r)
      BY <1>1, <2>1, LookedType
    <2>3. ASSUME Calm', Outdated(r) PROVE row[r].task \notin Live
      <3>1. CalmInv /\ TasksOf(r) = {}
        BY <1>2, <2>3 DEF IInv
      <3>2. ASSUME row[r].task \in Live PROVE FALSE
        <4>1. row[r].task \in Wanted
          BY <2>1, <3>1, <3>2 DEF CalmInv, RowsKnow
        <4>2. Running(task[row[r].task].run) /\ task[row[r].task].run \in Runs
          BY <3>1, <3>2, <4>1 DEF CalmInv, TasksKnown, IInv, Placed, Created
        <4>3. task[row[r].task].run = r
          BY <2>1, <3>1, <4>2 DEF CalmInv, OneRun
        <4>4. QED
          BY <3>1, <3>2, <4>3 DEF TasksOf
      <3>3. QED
        BY <3>2
    <2>4. Nobody \notin Live
      BY Records DEF Live
    <2> HIDE DEF k
    <2>5. view' = [view EXCEPT ![v] = k]
      BY <1>4 DEF k
    <2>6. Calm' /\ Orphaned(k) => k.task \notin Live
      BY <1>4, <2>2, <2>3, <2>4 DEF Orphaned
    <2>7. k.op \notin {"send", "save", "saveresume", "idle", "create"}
      BY <2>2
    <2>8. QED
      BY <1>1, <1>2, <2>1, <2>2, <2>5, <2>6, <2>7, ViewMoves
  <1>5. QED
    BY <1>3, <1>4 DEF Look

LEMMA AnswerKeeps ==
    ASSUME IInv, NEW v \in Views, Seen(v) \/ Unseen(v) \/ GiveUp(v) \/ Abort(v)
    PROVE  IInv'
  <1> DEFINE x == view[v]
  <1>1. UNCHANGED <<row, task>> /\ TypeOK
    BY DEF Seen, Unseen, GiveUp, Abort, IInv
  <1>2. mishaps' \in 0 .. MaxMishaps /\ (Calm' => Calm /\ x.op \notin {"save", "saveresume"})
    <2>1. mishaps \in 0 .. MaxMishaps
      BY DEF IInv, TypeOK
    <2>2. CASE Abort(v)
      BY <2>1, <2>2, BatchAssumption DEF Abort, Mishap, Calm
    <2>3. CASE Unseen(v)
      BY <2>1, <2>3, BatchAssumption DEF Unseen, Mishap, Calm
    <2>4. CASE Seen(v) \/ GiveUp(v)
      BY <2>1, <2>4 DEF Seen, GiveUp, Calm
    <2>5. QED
      BY <2>2, <2>3, <2>4
  <1>3. CASE Done(v)
    <2>1. view' = [view EXCEPT ![v] = Idle] /\ ~Orphaned(Idle)
      BY <1>3, Records DEF Done, Orphaned
    <2>2. QED
      BY <1>1, <1>2, <2>1, Records, ViewMoves
  <1>4. ASSUME NEW op \in {"resume", "close", "stop"}, Goto(v, op), x.op = "inspect",
               op # "stop" /\ Calm' => x.task \notin Live
        PROVE  IInv'
    <2>1. PICK k \in View : /\ view' = [view EXCEPT ![v] = k]
                            /\ k.op = op /\ k.run = x.run /\ k.task = x.task
      BY <1>1, <1>4, GotoMoves
    <2>2. x.run \in Created
      BY <1>4 DEF IInv, Placed
    <2>3. Calm' /\ Orphaned(k) => k.task \notin Live
      BY <1>4, <2>1 DEF Orphaned
    <2>4. QED
      BY <1>1, <1>2, <1>4, <2>1, <2>2, <2>3, ViewMoves
  <1>5. CASE Seen(v)
    <2>1. x.op = "inspect"
      BY <1>5 DEF Seen
    <2>2. x.stale /\ Calm' => x.task \notin Live
      BY <1>2, <2>1 DEF IInv, CalmInv, Orphans, Orphaned
    <2>3. Done(v) \/ (x.stale /\ Goto(v, "close")) \/ Goto(v, "stop")
      BY <1>5 DEF Seen, GoOn
    <2>4. QED
      BY <1>3, <1>4, <2>1, <2>2, <2>3
  <1>6. CASE Unseen(v)
    <2>1. /\ x.op = "inspect" /\ (Goto(v, "resume") \/ Goto(v, "close"))
          /\ x.task \in Live => mishaps' = mishaps + 1
      BY <1>6 DEF Unseen, Mishap
    <2>2. x.task \in Live => ~Calm'
      BY <2>1 DEF IInv, TypeOK, Calm
    <2>3. QED
      BY <1>4, <2>1, <2>2
  <1>7. QED
    BY <1>3, <1>5, <1>6 DEF GiveUp, Abort

----------------------------------------------------------------------------
(* Requests that write the row.                                            *)

LEMMA SaveKeeps ==
    ASSUME IInv, NEW v \in Views, SaveResume(v) \/ Save(v)
    PROVE  IInv'
  <1> DEFINE x == view[v]
  <1>1. /\ x \in View /\ Sends(v) /\ x.op # "send" /\ UNCHANGED <<task, mishaps>> /\ TypeOK
        /\ row \in [Runs -> Row]
    BY DEF SaveResume, Save, IInv, TypeOK, Sends
  <1>2. x.run \in Created /\ x.run \in Runs
    BY <1>1 DEF IInv, Placed, Sends, Created
  <1>3. PICK b \in {"fresh", "quiet"} :
          row' = [row EXCEPT ![x.run].task = x.task, ![x.run].beat = b]
    BY DEF SaveResume, Save
  <1>4. /\ row' \in [Runs -> Row]
        /\ \A r \in Runs : /\ row'[r].status = row[r].status
                           /\ row'[r].task = IF r = x.run THEN x.task ELSE row[r].task
    BY <1>1, <1>2, <1>3 DEF Row, View
  <1>5. Done(v) \/ Goto(v, "stop")
    BY DEF SaveResume, Save, GoOn
  <1>6. PICK y \in View : /\ view' = [view EXCEPT ![v] = y] /\ y.op \in {"stop", "idle"}
                          /\ y.op = "stop" => y.run = x.run
    BY <1>1, <1>5, GotoMoves, Records DEF Done
  <1>7. \A u \in Views : view'[u] = IF u = v THEN y ELSE view[u]
    BY <1>6 DEF IInv, TypeOK
  <1>8. TypeOK'
    BY <1>1, <1>4, <1>6 DEF IInv, TypeOK
  <1>9. /\ Live' = Live /\ Created' = Created /\ Wanted' = Wanted
        /\ \A r \in Runs : Running(r)' <=> Running(r)
        /\ \A t \in Tasks : Unaware(t)' <=> Unaware(t)
    BY <1>1, <1>4 DEF Live, Created, Wanted, Running, Unaware
  <1>10. Placed'
    BY <1>1, <1>2, <1>6, <1>7, <1>9 DEF IInv, Placed
  <1>11. ASSUME Calm' PROVE CalmInv'
    <2>1. CalmInv
      BY <1>1, <1>11 DEF IInv, Calm
    <2>2. /\ Running(x.run) => Wanted \subseteq {x.task}
          /\ x.task \in Live => x.task \in Wanted /\ task[x.task].run = x.run
      BY <1>1, <2>1 DEF CalmInv, SendersAlone
    <2>3. OneRun' /\ OneTask'
      BY <1>9, <2>1 DEF CalmInv, OneRun, OneTask
    <2>4. \A t \in BeingSaved : t = x.task \/ t \in BeingSaved'
      BY <1>7 DEF BeingSaved
    <2>5. ASSUME NEW t \in Wanted
          PROVE  /\ Running(task[t].run)'
                 /\ row'[task[t].run].task = t \/ t \in BeingSaved' \/ Unaware(t)
                 /\ Unaware(t) => task[t].named \notin Live
      <3>1. t \in Live /\ task[t].run \in Runs
        BY DEF Wanted, IInv, Placed, Created
      <3>2. /\ Running(task[t].run)
            /\ row[task[t].run].task = t \/ t \in BeingSaved \/ Unaware(t)
            /\ Unaware(t) => task[t].named \notin Live
        BY <2>1 DEF CalmInv, TasksKnown
      <3>3. QED
        BY <1>1, <1>4, <1>9, <2>2, <2>4, <3>1, <3>2
    <2>6. TasksKnown'
      BY <1>1, <1>9, <2>5 DEF TasksKnown, Wanted, Live
    <2>7. RowsKnow'
      <3>1. \A t \in Live : task[t].run \in Runs
        BY DEF IInv, Placed, Created
      <3>2. QED
        BY <1>1, <1>4, <1>9, <2>1, <2>2, <3>1 DEF CalmInv, RowsKnow
    <2>8. \A u \in Views : Sends(u)' => Sends(u) /\ view'[u] = view[u] /\ view[u].run \in Runs
      BY <1>6, <1>7 DEF Sends, IInv, Placed, Created
    <2>9. SendersAlone'
      BY <1>1, <1>9, <2>1, <2>8 DEF CalmInv, SendersAlone
    <2>10. Orphans'
      BY <1>6, <1>7, <1>9, <2>1 DEF CalmInv, Orphans, Orphaned
    <2>11. QED
      BY <2>3, <2>6, <2>7, <2>9, <2>10 DEF CalmInv
  <1>12. QED
    BY <1>8, <1>10, <1>11 DEF IInv

\* a request that is not misled knows the run that is running, and all that works for it
LEMMA NotMisled ==
    ASSUME IInv, Calm, NEW v \in Views, view[v].op \in {"resume", "close", "stop"}, ~Misled(v)
    PROVE  /\ Running(view[v].run) /\ Wanted \subseteq {view[v].task}
           /\ \A r \in Runs : Running(r) => r = view[v].run
           /\ \A u \in Views \ {v} : Sends(u) => ~Running(view[u].run)
  <1> DEFINE x == view[v]
  <1>1. CalmInv /\ x.run \in Runs
    BY DEF IInv, Placed, Created
  <1>2. Running(x.run) /\ row[x.run].task = x.task
    BY DEF Misled, Running
  <1>3. \A r \in Runs : Running(r) => r = x.run
    BY <1>1, <1>2 DEF CalmInv, OneRun
  <1>4. ASSUME NEW u \in Views \ {v}, Sends(u) PROVE view[u].run # x.run
    BY <1>4 DEF Misled, Sending, Sends
  <1>5. \A u \in Views \ {v} : Sends(u) => ~Running(view[u].run)
    BY <1>3, <1>4 DEF Sends, IInv, Placed, Created
  <1>6. ASSUME NEW t \in Wanted PROVE t = x.task
    <2>1. t \in Live /\ task[t].run \in Runs
      BY DEF Wanted, IInv, Placed, Created
    <2>2. task[t].run = x.run /\ (row[x.run].task = t \/ t \in BeingSaved \/ Unaware(t))
      BY <1>1, <1>3, <2>1 DEF CalmInv, TasksKnown
    <2>3. ~Unaware(t)
      BY <2>1, <2>2 DEF Misled, TasksOf
    <2>4. t \notin BeingSaved
      <3>1. SUFFICES ASSUME NEW u \in Views, view[u].op \in {"save", "saveresume"},
                            view[u].task = t
                     PROVE  FALSE
        BY DEF BeingSaved
      <3>2. view[u].run = x.run
        BY <1>1, <2>1, <2>2, <3>1 DEF CalmInv, SendersAlone, Sends
      <3>3. QED
        BY <1>4, <3>1, <3>2 DEF Sends
    <2>5. QED
      BY <1>2, <2>2, <2>3, <2>4
  <1>7. QED
    BY <1>2, <1>3, <1>5, <1>6

LEMMA EndingKeeps ==
    ASSUME IInv, NEW v \in Views, Close(v) \/ Stop(v)
    PROVE  IInv'
  <1> DEFINE x == view[v]
  <1>1. /\ x \in View /\ x.op \in {"close", "stop"} /\ TypeOK
        /\ row \in [Runs -> Row] /\ task \in [Tasks -> Task]
    BY DEF Close, Stop, IInv, TypeOK
  <1>2. x.run \in Created /\ x.run \in Runs
    BY <1>1 DEF IInv, Placed, Created
  <1>3. mishaps' \in 0 .. MaxMishaps /\ (Calm' => Calm /\ ~Misled(v))
    BY BatchAssumption DEF Close, Stop, LastMishap, Calm, IInv, TypeOK
  <1>4. PICK status \in {"closed", "stopped"} : row' = Saved(x.run, status, x.task)
    BY DEF Close, Stop
  <1>5. /\ row' \in [Runs -> Row]
        /\ \A r \in Runs : row'[r] = IF r = x.run
                                     THEN [status |-> status, task |-> x.task, beat |-> "fresh"]
                                     ELSE row[r]
    BY <1>1, <1>2, <1>4 DEF Saved, Row, View
  <1>6. Done(v) \/ Goto(v, "create")
    BY DEF Close, Stop
  <1>7. PICK y \in View : view' = [view EXCEPT ![v] = y] /\ y.op \in {"create", "idle"}
    BY <1>1, <1>6, GotoMoves, Records DEF Done
  <1>8. \A u \in Views : view'[u] = IF u = v THEN y ELSE view[u]
    BY <1>7 DEF IInv, TypeOK
  <1>9. /\ task' \in [Tasks -> Task]
        /\ \A t \in Tasks : /\ task'[t].st = task[t].st /\ task'[t].run = task[t].run
                            /\ task[t].revoked => task'[t].revoked
                            /\ Stop(v) /\ t = x.task /\ t \in Live => task'[t].revoked
    <2>1. CASE Close(v)
      BY <1>1, <2>1 DEF Close, Stop
    <2>2. CASE Stop(v)
      BY <1>1, <2>2 DEF Stop, Task, Live
    <2>3. QED
      BY <2>1, <2>2
  <1>10. TypeOK'
    BY <1>3, <1>5, <1>7, <1>9 DEF IInv, TypeOK
  <1>11. /\ Live' = Live /\ Wanted' \subseteq Wanted
         /\ Created \subseteq Created'
         /\ Stop(v) => x.task \notin Wanted'
    BY <1>5, <1>9 DEF Live, Created, Wanted
  <1>12. Placed'
    <2>1. \A t \in Live' : task'[t].run \in Created
      BY <1>9, <1>11 DEF IInv, Placed, Live
    <2>2. \A u \in Views : view'[u].op \notin {"idle", "create"} => view'[u].run \in Created
      BY <1>7, <1>8 DEF IInv, Placed
    <2>3. QED
      BY <1>11, <2>1, <2>2 DEF Placed
  <1>13. ASSUME Calm' PROVE CalmInv'
    <2>1. CalmInv /\ Calm
      BY <1>3, <1>13 DEF IInv
    <2>2. /\ Wanted \subseteq {x.task}
          /\ \A r \in Runs : Running(r) => r = x.run
          /\ \A u \in Views \ {v} : Sends(u) => ~Running(view[u].run)
      BY <1>1, <1>3, <1>13, NotMisled
    <2>3. \A r \in Runs : ~Running(r)'
      BY <1>5, <2>2 DEF Running
    <2>4. Wanted' = {}
      <3>1. x.op = "close" => x.task \notin Wanted
        BY <2>1 DEF CalmInv, Orphans, Orphaned, Wanted
      <3>2. QED
        BY <1>11, <2>2, <3>1 DEF Close, Stop
    <2>5. OneRun' /\ OneTask' /\ TasksKnown'
      BY <2>3, <2>4 DEF OneRun, OneTask, TasksKnown
    <2>6. \A u \in Views : Sends(u)' => /\ u # v /\ Sends(u) /\ view'[u] = view[u]
                                        /\ view[u].run \in Runs
      BY <1>7, <1>8 DEF Sends, IInv, Placed, Created
    <2>7. RowsKnow'
      <3>1. \A t \in Live' : task'[t].run \in Runs
        BY <1>9, <1>11 DEF IInv, Placed, Created, Live
      <3>2. QED
        BY <2>3, <3>1 DEF RowsKnow
    <2>8. SendersAlone'
      <3>1. ASSUME NEW u \in Views, Sends(u)'
            PROVE  /\ view'[u].op # "send" /\ view'[u].task \in Tasks
                   /\ view'[u].task \notin Live' /\ ~Running(view[u].run)'
        <4>1. Sends(u) /\ ~Running(view[u].run) /\ view'[u] = view[u] /\ view[u].run \in Runs
          BY <2>2, <2>6, <3>1
        <4>2. view[u].op # "send" /\ view[u].task \in Tasks
          BY <2>1, <4>1 DEF CalmInv, SendersAlone
        <4>3. view[u].task \notin Live
          <5>1. SUFFICES ASSUME view[u].task \in Live PROVE FALSE
            OBVIOUS
          <5>2. view[u].task \in Wanted /\ task[view[u].task].run = view[u].run
            BY <2>1, <4>1, <5>1 DEF CalmInv, SendersAlone
          <5>3. Running(task[view[u].task].run)
            BY <2>1, <5>2 DEF CalmInv, TasksKnown
          <5>4. QED
            BY <4>1, <5>2, <5>3
        <4>4. QED
          BY <1>11, <2>3, <4>1, <4>2, <4>3
      <3>2. QED
        BY <3>1 DEF SendersAlone
    <2>9. Orphans'
      BY <1>7, <1>8, <1>11, <2>1 DEF CalmInv, Orphans, Orphaned
    <2>10. QED
      BY <2>5, <2>7, <2>8, <2>9 DEF CalmInv
  <1>14. QED
    BY <1>10, <1>12, <1>13 DEF IInv

LEMMA CreateKeeps ==
    ASSUME IInv, NEW v \in Views, Create(v)
    PROVE  IInv'
  <1>1. PICK r \in Runs \ Created :
          /\ row' = Saved(r, "running", Nobody)
          /\ view' = [view EXCEPT ![v] = [Idle EXCEPT !.op = "send", !.wants = "run",
                                                      !.run = r]]
    BY DEF Create
  <1> DEFINE k == [Idle EXCEPT !.op = "send", !.wants = "run", !.run = r]
  <1>2. k \in View /\ k.op = "send" /\ k.run = r /\ k.task = Nobody
    <2>1. r \in 0 .. MaxRuns
      BY BatchAssumption DEF Runs
    <2>2. QED
      BY <2>1, Records DEF Idle, View, Wants
  <1>3. view' = [view EXCEPT ![v] = k]
    BY <1>1
  <1> HIDE DEF k
  <1>4. /\ UNCHANGED task /\ row \in [Runs -> Row] /\ Nobody \notin Live
    BY Records DEF Create, IInv, TypeOK, Live
  <1>5. mishaps' \in 0 .. MaxMishaps /\ (Calm' => Calm /\ Newest = {})
    BY BatchAssumption DEF Create, LastMishap, Calm, IInv, TypeOK
  <1>6. /\ row' \in [Runs -> Row]
        /\ \A s \in Runs : row'[s] = IF s = r
                                     THEN [status |-> "running", task |-> Nobody, beat |-> "fresh"]
                                     ELSE row[s]
    BY <1>1, <1>4 DEF Saved, Row
  <1>7. \A u \in Views : view'[u] = IF u = v THEN k ELSE view[u]
    BY <1>3 DEF IInv, TypeOK
  <1>8. TypeOK'
    BY <1>2, <1>3, <1>4, <1>5, <1>6 DEF IInv, TypeOK
  <1>9. Live' = Live /\ Wanted' = Wanted /\ Created' = Created \cup {r}
    BY <1>4, <1>6 DEF Live, Created, Wanted
  <1>10. Placed'
    BY <1>2, <1>4, <1>7, <1>9 DEF IInv, Placed
  <1>11. ASSUME Calm' PROVE CalmInv'
    <2>1. CalmInv /\ Newest = {}
      BY <1>5, <1>11 DEF IInv
    <2>2. \A s \in Runs : ~Running(s)
      <3>1. Runs \subseteq Int
        BY BatchAssumption DEF Runs
      <3>2. QED
        BY <2>1, <3>1 DEF CalmInv, OneRun, Newest, Active, Running
    <2>3. \A s \in Runs : Running(s)' => s = r
      BY <1>6, <2>2 DEF Running
    <2>4. Wanted' = {}
      BY <1>9, <2>1, <2>2 DEF CalmInv, TasksKnown, Wanted, IInv, Placed, Created
    <2>5. OneRun' /\ OneTask' /\ TasksKnown'
      BY <2>3, <2>4 DEF OneRun, OneTask, TasksKnown
    <2>6. RowsKnow'
      <3>1. \A t \in Live : task[t].run \in Runs /\ task[t].run # r
        BY DEF IInv, Placed, Created
      <3>2. QED
        BY <1>4, <1>6, <1>9, <2>3, <3>1 DEF RowsKnow
    <2>7. ASSUME NEW u \in Views, u # v, Sends(u)'
          PROVE  /\ Sends(u) /\ view'[u] = view[u] /\ ~Running(view[u].run)'
                 /\ view[u].op # "send"
      <3>1. Sends(u) /\ view'[u] = view[u]
        BY <1>7, <2>7 DEF Sends
      <3>2. view[u].run \in Runs /\ view[u].run # r
        BY <3>1 DEF Sends, IInv, Placed, Created
      <3>3. view[u].op # "send"
        BY <2>1, <2>2, <3>1, <3>2 DEF CalmInv, SendersAlone
      <3>4. QED
        BY <2>3, <3>1, <3>2, <3>3
    <2>8. SendersAlone'
      <3>1. view'[v] = k /\ Running(r)'
        BY <1>6, <1>7 DEF Running
      <3>2. ASSUME NEW u \in Views, u # v, Sends(u)'
            PROVE  /\ view'[u].op # "send" /\ view'[u].task \in Tasks
                   /\ ~Running(view[u].run)' /\ view'[u].task \notin Live
        <4>1. view[u].task \in Live => view[u].task \in Wanted
          BY <2>1, <2>7, <3>2 DEF CalmInv, SendersAlone
        <4>2. QED
          BY <1>9, <2>1, <2>4, <2>7, <3>2, <4>1 DEF CalmInv, SendersAlone
      <3>3. \A u \in Views : Sends(u)' /\ Running(view[u].run)' => u = v
        BY <3>2
      <3>4. QED
        BY <1>2, <1>4, <1>9, <2>4, <3>1, <3>2, <3>3 DEF SendersAlone
    <2>9. Orphans'
      BY <1>2, <1>7, <1>9, <2>1 DEF CalmInv, Orphans, Orphaned
    <2>10. QED
      BY <2>5, <2>6, <2>8, <2>9 DEF CalmInv
  <1>12. QED
    BY <1>8, <1>10, <1>11 DEF IInv

\* a task is sent while no other is wanted
LEMMA SendKeeps ==
    ASSUME IInv, NEW v \in Views, NEW t \in Tasks, Resume(v, t) \/ Send(v, t)
    PROVE  IInv'
  <1> DEFINE x == view[v]
             q == Queued(x.run)
  <1>1. /\ x \in View /\ x.op \in {"resume", "send"} /\ TypeOK /\ UNCHANGED row
        /\ t \notin Live /\ \A u \in Views \ {v} : view[u].task # t
        /\ task' = [task EXCEPT ![t] = q] /\ task \in [Tasks -> Task]
    BY DEF Resume, Send, IInv, TypeOK, SpareFor, Spare
  <1>2. x.run \in Runs /\ x.run \in Created
    BY <1>1 DEF IInv, Placed, Created
  <1>3. q \in Task /\ q.st = "queued" /\ q.run = x.run /\ q.revoked = FALSE
    BY <1>2, QueuedType
  <1>4. PICK k \in View : /\ view' = [view EXCEPT ![v] = k]
                          /\ k.op \in {"saveresume", "save"} /\ k.run = x.run /\ k.task = t
    <2>1. CASE Resume(v, t)
      <3> DEFINE k == [x EXCEPT !.op = "saveresume", !.task = t]
      <3>1. view' = [view EXCEPT ![v] = k]
        BY <1>1, <2>1 DEF Resume, TypeOK
      <3>2. k \in View /\ k.op = "saveresume" /\ k.run = x.run /\ k.task = t
        BY <1>1 DEF View
      <3>3. QED
        BY <3>1, <3>2
    <2>2. CASE Send(v, t)
      <3> DEFINE k == [x EXCEPT !.op = "save", !.task = t]
      <3>1. view' = [view EXCEPT ![v] = k]
        BY <1>1, <2>2 DEF Send, TypeOK
      <3>2. k \in View /\ k.op = "save" /\ k.run = x.run /\ k.task = t
        BY <1>1 DEF View
      <3>3. QED
        BY <3>1, <3>2
    <2>3. QED
      BY <2>1, <2>2
  <1>5. mishaps' \in 0 .. MaxMishaps /\ (Calm' => Calm /\ (x.op = "resume" => ~Misled(v)))
    BY BatchAssumption DEF Resume, Send, LastMishap, Calm, IInv, TypeOK
  <1> HIDE DEF q
  <1>6. /\ task' \in [Tasks -> Task]
        /\ \A u \in Tasks : task'[u] = IF u = t THEN q ELSE task[u]
        /\ \A u \in Views : view'[u] = IF u = v THEN k ELSE view[u]
    BY <1>1, <1>3, <1>4 DEF IInv, TypeOK
  <1>7. TypeOK'
    BY <1>1, <1>4, <1>5, <1>6 DEF IInv, TypeOK
  <1>8. /\ Live' = Live \cup {t} /\ Wanted' = Wanted \cup {t} /\ Created' = Created
        /\ \A r : Running(r)' <=> Running(r)
    BY <1>1, <1>3, <1>6 DEF Live, Created, Wanted, Running
  <1>9. Placed'
    <2>1. \A u \in Live' : task'[u].run \in Created
      BY <1>2, <1>3, <1>6, <1>8 DEF IInv, Placed, Live
    <2>2. \A u \in Views : view'[u].op \notin {"idle", "create"} => view'[u].run \in Created
      BY <1>2, <1>4, <1>6 DEF IInv, Placed
    <2>3. QED
      BY <1>8, <2>1, <2>2 DEF Placed
  <1>10. ASSUME Calm' PROVE CalmInv'
    <2>1. CalmInv /\ Calm
      BY <1>5, <1>10 DEF IInv
    <2>2. /\ Running(x.run) /\ Wanted = {}
          /\ \A u \in Views \ {v} : Sends(u) => ~Running(view[u].run)
      <3>1. CASE x.op = "resume"
        <4>1. /\ Running(x.run) /\ Wanted \subseteq {x.task}
              /\ \A u \in Views \ {v} : Sends(u) => ~Running(view[u].run)
          BY <1>5, <1>10, <2>1, <3>1, NotMisled
        <4>2. x.task \notin Live
          BY <2>1, <3>1 DEF CalmInv, Orphans, Orphaned
        <4>3. QED
          BY <4>1, <4>2 DEF Wanted
      <3>2. CASE x.op = "send"
        <4>1. Running(x.run) /\ x.task = Nobody /\ Wanted \subseteq {x.task} /\ Sends(v)
          BY <2>1, <3>2 DEF CalmInv, SendersAlone, Sends
        <4>2. Nobody \notin Wanted
          BY Records DEF Wanted, Live
        <4>3. QED
          BY <2>1, <4>1, <4>2 DEF CalmInv, SendersAlone
      <3>3. QED
        BY <1>1, <3>1, <3>2
    <2>3. OneRun' /\ OneTask'
      BY <1>8, <2>1, <2>2 DEF CalmInv, OneRun, OneTask
    <2>4. TasksKnown'
      <3>1. t \in BeingSaved'
        BY <1>4, <1>6 DEF BeingSaved
      <3>2. ~Unaware(t)'
        BY <1>3, <1>6 DEF Unaware
      <3>3. task'[t].run = x.run
        BY <1>3, <1>6
      <3>4. QED
        BY <1>8, <2>2, <3>1, <3>2, <3>3 DEF TasksKnown
    <2>5. RowsKnow'
      <3>1. \A r \in Runs : Running(r) => row[r].task \notin Live
        BY <2>1, <2>2 DEF CalmInv, RowsKnow
      <3>2. \A u \in Live' : task'[u].revoked => u \in Live /\ task'[u] = task[u]
        BY <1>3, <1>6, <1>8 DEF Live
      <3>3. QED
        BY <1>1, <1>8, <2>1, <3>1, <3>2 DEF CalmInv, RowsKnow
    <2>6. ASSUME NEW u \in Views, u # v, Sends(u)'
          PROVE  /\ view'[u] = view[u] /\ ~Running(view[u].run)
                 /\ view[u].op # "send" /\ view[u].task \in Tasks
                 /\ view[u].task \notin Live'
      <3>1. Sends(u) /\ view'[u] = view[u]
        BY <1>6, <2>6 DEF Sends
      <3>2. QED
        BY <1>1, <1>8, <2>1, <2>2, <2>6, <3>1 DEF CalmInv, SendersAlone
    <2>7. SendersAlone'
      <3>1. /\ view'[v] = k /\ k.op # "send" /\ k.task = t /\ k.run = x.run
            /\ t \in Wanted' /\ Wanted' = {t} /\ task'[t].run = x.run
        BY <1>3, <1>4, <1>6, <1>8, <2>2
      <3>2. \A u \in Views : Sends(u)' /\ Running(view[u].run)' => u = v
        BY <1>8, <2>6
      <3>3. QED
        BY <2>6, <1>8, <3>1, <3>2 DEF SendersAlone
    <2>8. Orphans'
      <3>1. ASSUME NEW u \in Views, Orphaned(view[u])' PROVE view'[u].task \notin Live'
        <4>1. u # v /\ view'[u] = view[u]
          BY <1>4, <1>6, <3>1 DEF Orphaned
        <4>2. view[u].task \notin Live
          BY <2>1, <3>1, <4>1 DEF CalmInv, Orphans, Orphaned
        <4>3. QED
          BY <1>1, <1>8, <4>1, <4>2
      <3>2. QED
        BY <3>1 DEF Orphans
    <2>9. QED
      BY <2>3, <2>4, <2>5, <2>7, <2>8 DEF CalmInv
  <1>11. QED
    BY <1>7, <1>9, <1>10 DEF IInv

----------------------------------------------------------------------------
(* The tasks, and time.                                                    *)

\* only heartbeats change
LEMMA StillnessKeeps ==
    ASSUME IInv, UNCHANGED vars \/ (\E q \in Runs : GrowQuiet(q) \/ GrowStale(q))
    PROVE  IInv'
  <1>1. UNCHANGED <<task, view, mishaps>> /\ row \in [Runs -> Row]
    BY DEF vars, GrowQuiet, GrowStale, IInv, TypeOK
  <1>2. /\ row' \in [Runs -> Row]
        /\ \A r \in Runs : row'[r].status = row[r].status /\ row'[r].task = row[r].task
    BY <1>1 DEF vars, GrowQuiet, GrowStale, Row
  <1>3. TypeOK'
    BY <1>1, <1>2 DEF IInv, TypeOK
  <1>4. /\ Live' = Live /\ Created' = Created /\ Wanted' = Wanted /\ BeingSaved' = BeingSaved
        /\ \A r \in Runs : Running(r)' <=> Running(r)
        /\ \A t : Unaware(t)' <=> Unaware(t)
        /\ \A v : Sends(v)' <=> Sends(v)
    BY <1>1, <1>2 DEF Live, Created, Wanted, BeingSaved, Running, Unaware, Sends
  <1>5. Placed'
    BY <1>1, <1>4 DEF IInv, Placed
  <1>6. ASSUME Calm' PROVE CalmInv'
    <2>1. CalmInv
      BY <1>1, <1>6 DEF IInv, Calm
    <2>2. /\ \A t \in Live : task[t].run \in Runs
          /\ \A v \in Views : Sends(v) => view[v].run \in Runs
      BY DEF IInv, Placed, Created, Sends
    <2>3. OneRun' /\ OneTask'
      BY <1>4, <2>1 DEF CalmInv, OneRun, OneTask
    <2>4. TasksKnown'
      BY <1>1, <1>2, <1>4, <2>1, <2>2 DEF CalmInv, TasksKnown, Wanted
    <2>5. RowsKnow'
      BY <1>1, <1>2, <1>4, <2>1, <2>2 DEF CalmInv, RowsKnow
    <2>6. SendersAlone'
      BY <1>1, <1>4, <2>1, <2>2 DEF CalmInv, SendersAlone
    <2>7. Orphans'
      BY <1>1, <1>4, <2>1 DEF CalmInv, Orphans
    <2>8. QED
      BY <2>3, <2>4, <2>5, <2>6, <2>7 DEF CalmInv
  <1>7. QED
    BY <1>3, <1>5, <1>6 DEF IInv

\* a task of the running run starts
LEMMA TakeKeeps ==
    ASSUME IInv, NEW t \in Tasks, Take(t)
    PROVE  IInv'
  <1> DEFINE r == task[t].run
  <1>1. /\ task[t].st = "queued" /\ UNCHANGED view /\ t \in Live
        /\ row \in [Runs -> Row] /\ task \in [Tasks -> Task]
    BY DEF Take, IInv, TypeOK, Live
  <1>2. r \in Runs /\ r \in Created
    BY <1>1 DEF IInv, Placed, Created
  <1>3. mishaps' \in 0 .. MaxMishaps /\ (Calm' => Calm /\ ~task[t].revoked)
    BY BatchAssumption DEF Take, Mishap, Calm, IInv, TypeOK
  <1>4. /\ row' \in [Runs -> Row]
        /\ \A s \in Runs : row'[s].task = row[s].task
        /\ \A s \in Runs : row'[s].status = IF s = r THEN "running" ELSE row[s].status
    BY <1>1, <1>2 DEF Take, Row
  <1>5. /\ task' \in [Tasks -> Task]
        /\ \A u \in Tasks : /\ u # t => task'[u] = task[u]
                            /\ task'[u].run = task[u].run
                            /\ task'[u].revoked = task[u].revoked
        /\ task'[t].st = "working" /\ task'[t].named = row[r].task
    <2>1. row[r].task \in Tasks \cup {Nobody}
      BY <1>1, <1>2 DEF Row
    <2>2. QED
      BY <1>1, <2>1 DEF Take, Task
  <1>6. TypeOK'
    BY <1>1, <1>3, <1>4, <1>5 DEF IInv, TypeOK
  <1>7. Live' = Live /\ Wanted' = Wanted /\ Created' = Created /\ BeingSaved' = BeingSaved
    BY <1>1, <1>2, <1>4, <1>5 DEF Live, Wanted, Created, BeingSaved
  <1>8. Placed'
    BY <1>1, <1>5, <1>7 DEF IInv, Placed, Live
  <1>9. ASSUME Calm' PROVE CalmInv'
    <2>1. CalmInv /\ t \in Wanted
      BY <1>1, <1>3, <1>9 DEF IInv, Wanted
    <2>2. Running(r)
      BY <2>1 DEF CalmInv, TasksKnown
    <2>3. \A s \in Runs : Running(s)' <=> Running(s)
      BY <1>4, <2>2 DEF Running
    <2>4. OneRun' /\ OneTask'
      BY <1>7, <2>1, <2>3 DEF CalmInv, OneRun, OneTask
    <2>5. \A u \in Wanted : u = t
      BY <2>1 DEF CalmInv, OneTask
    <2>6. TasksKnown'
      <3>1. row[r].task = t \/ t \in BeingSaved
        BY <1>1, <2>1 DEF CalmInv, TasksKnown, Unaware
      <3>2. Unaware(t)' => row[r].task \notin Live
        BY <1>2, <1>5, <2>1, <2>2, <2>5 DEF CalmInv, RowsKnow, Unaware
      <3>3. QED
        BY <1>2, <1>4, <1>5, <1>7, <2>2, <2>3, <2>5, <3>1, <3>2 DEF TasksKnown
    <2>7. RowsKnow'
      <3>1. \A u \in Live : u \in Tasks /\ task[u].run \in Runs
        BY DEF IInv, Placed, Created, Live
      <3>2. QED
        BY <1>4, <1>5, <1>7, <2>1, <2>3, <3>1 DEF CalmInv, RowsKnow
    <2>8. SendersAlone'
      <3>1. \A v \in Views : Sends(v) => view[v].run \in Runs
        BY DEF IInv, Placed, Created, Sends
      <3>2. \A v : Sends(v)' <=> Sends(v)
        BY <1>1 DEF Sends
      <3>3. \A u \in Live : task'[u].run = task[u].run
        BY <1>5 DEF Live
      <3>4. QED
        BY <1>1, <1>7, <2>1, <2>3, <3>1, <3>2, <3>3 DEF CalmInv, SendersAlone
    <2>9. Orphans'
      BY <1>1, <1>7, <2>1 DEF CalmInv, Orphans
    <2>10. QED
      BY <2>4, <2>6, <2>7, <2>8, <2>9 DEF CalmInv
  <1>10. QED
    BY <1>6, <1>8, <1>9 DEF IInv

\* a task writes back the id that it has read: its own, or one that nobody has any more
LEMMA BeatKeeps ==
    ASSUME IInv, NEW t \in Tasks, Beat(t)
    PROVE  IInv'
  <1> DEFINE r == task[t].run
  <1>1. /\ task[t].st = "working" /\ UNCHANGED <<task, view, mishaps>> /\ t \in Live
        /\ row \in [Runs -> Row] /\ task[t].named \in Tasks \cup {Nobody}
    BY DEF Beat, IInv, TypeOK, Live, Task
  <1>2. r \in Runs
    BY <1>1 DEF IInv, Placed, Created
  <1>3. /\ row' \in [Runs -> Row]
        /\ \A s \in Runs : row'[s].status = row[s].status
        /\ \A s \in Runs : row'[s].task = IF s = r THEN task[t].named ELSE row[s].task
    BY <1>1, <1>2 DEF Beat, Row
  <1>4. TypeOK'
    BY <1>1, <1>3 DEF IInv, TypeOK
  <1>5. /\ Live' = Live /\ Created' = Created /\ Wanted' = Wanted /\ BeingSaved' = BeingSaved
        /\ \A s \in Runs : Running(s)' <=> Running(s)
        /\ \A u : Unaware(u)' <=> Unaware(u)
        /\ \A v : Sends(v)' <=> Sends(v)
    BY <1>1, <1>3 DEF Live, Created, Wanted, BeingSaved, Running, Unaware, Sends
  <1>6. Placed'
    BY <1>1, <1>5 DEF IInv, Placed
  <1>7. ASSUME Calm' PROVE CalmInv'
    <2>1. CalmInv
      BY <1>1, <1>7 DEF IInv, Calm
    <2>2. /\ \A u \in Live : task[u].run \in Runs
          /\ \A v \in Views : Sends(v) => view[v].run \in Runs
      BY DEF IInv, Placed, Created, Sends
    <2>3. OneRun' /\ OneTask'
      BY <1>5, <2>1 DEF CalmInv, OneRun, OneTask
    <2>4. t \in Wanted => task[t].named = t \/ (Unaware(t) /\ task[t].named \notin Live)
      BY <1>1, <2>1 DEF CalmInv, TasksKnown, Unaware
    <2>5. ASSUME NEW u \in Wanted
          PROVE  /\ Running(task[u].run)
                 /\ row'[task[u].run].task = u \/ u \in BeingSaved \/ Unaware(u)
                 /\ Unaware(u) => task[u].named \notin Live
      <3>1. /\ Running(task[u].run) /\ u \in Live
            /\ row[task[u].run].task = u \/ u \in BeingSaved \/ Unaware(u)
            /\ Unaware(u) => task[u].named \notin Live
        BY <2>1 DEF CalmInv, TasksKnown, Wanted
      <3>2. CASE task[u].run # r
        BY <1>3, <2>2, <3>1, <3>2
      <3>3. CASE task[u].run = r
        <4>1. t \in Wanted
          BY <1>1, <2>1, <3>1, <3>3 DEF CalmInv, RowsKnow, Wanted
        <4>2. t = u
          BY <2>1, <4>1 DEF CalmInv, OneTask
        <4>3. QED
          BY <1>2, <1>3, <2>4, <3>1, <4>1, <4>2
      <3>4. QED
        BY <3>2, <3>3
    <2>6. TasksKnown'
      BY <1>1, <1>5, <2>2, <2>5 DEF TasksKnown, Wanted
    <2>7. RowsKnow'
      <3>1. ASSUME NEW s \in Runs, Running(s), row'[s].task \in Live
            PROVE  row'[s].task \in Wanted
        <4>1. CASE s # r
          BY <1>3, <2>1, <3>1, <4>1 DEF CalmInv, RowsKnow
        <4>2. CASE s = r
          <5>1. t \in Wanted
            BY <1>1, <2>1, <3>1, <4>2 DEF CalmInv, RowsKnow, Wanted
          <5>2. QED
            BY <1>3, <2>4, <3>1, <4>2, <5>1
        <4>3. QED
          BY <4>1, <4>2
      <3>2. QED
        BY <1>1, <1>5, <2>1, <2>2, <3>1 DEF CalmInv, RowsKnow
    <2>8. SendersAlone'
      BY <1>1, <1>5, <2>1, <2>2 DEF CalmInv, SendersAlone
    <2>9. Orphans'
      BY <1>1, <1>5, <2>1 DEF CalmInv, Orphans
    <2>10. QED
      BY <2>3, <2>6, <2>7, <2>8, <2>9 DEF CalmInv
  <1>8. QED
    BY <1>4, <1>6, <1>7 DEF IInv

\* a task goes; when it finishes, so does its run
LEMMA EndKeeps ==
    ASSUME IInv, NEW t \in Tasks, Finish(t) \/ Die(t)
    PROVE  IInv'
  <1> DEFINE r == task[t].run
  <1>1. /\ t \in Live /\ UNCHANGED <<view, mishaps>>
        /\ row \in [Runs -> Row] /\ task \in [Tasks -> Task]
        /\ task[t].named \in Tasks \cup {Nobody}
    BY DEF Finish, Die, IInv, TypeOK, Live, Task
  <1>2. r \in Runs /\ r \in Created
    BY <1>1 DEF IInv, Placed, Created
  <1>3. /\ task' \in [Tasks -> Task] /\ task'[t].st = "gone"
        /\ \A u \in Tasks : u # t => task'[u] = task[u]
    BY <1>1, Records DEF Finish, Die
  <1>4. /\ row' \in [Runs -> Row]
        /\ \A s \in Runs : s # r => row'[s] = row[s]
        /\ \/ row'[r] = row[r]
           \/ row'[r].status = "closed" /\ row'[r].task = task[t].named
    <2>1. CASE Finish(t)
      BY <1>1, <1>2, <2>1 DEF Finish, Saved, Row
    <2>2. CASE Die(t)
      BY <1>1, <2>2 DEF Die
    <2>3. QED
      BY <2>1, <2>2
  <1>5. TypeOK'
    BY <1>1, <1>3, <1>4 DEF IInv, TypeOK
  <1>6. /\ Live' = Live \ {t} /\ Wanted' = Wanted \ {t} /\ BeingSaved' = BeingSaved
        /\ Created' = Created
        /\ \A u \in Live' : u \in Tasks /\ task'[u] = task[u]
    BY <1>1, <1>2, <1>3, <1>4 DEF Live, Wanted, BeingSaved, Created
  <1>7. Placed'
    BY <1>1, <1>6 DEF IInv, Placed
  <1>8. ASSUME Calm' PROVE CalmInv'
    <2>1. CalmInv
      BY <1>1, <1>8 DEF IInv, Calm
    <2>2. /\ \A u \in Live : task[u].run \in Runs
          /\ \A v \in Views : Sends(v) => view[v].run \in Runs
      BY DEF IInv, Placed, Created, Sends
    <2>3. \A s \in Runs : Running(s)' => Running(s) /\ row'[s] = row[s]
      BY <1>4 DEF Running
    <2>4. \A s \in Runs : Running(s) /\ s # r => Running(s)'
      BY <1>4 DEF Running
    <2>5. OneRun' /\ OneTask'
      BY <1>6, <2>1, <2>3 DEF CalmInv, OneRun, OneTask
    <2>6. Running(r) => t \in Wanted
      BY <1>1, <2>1 DEF CalmInv, RowsKnow, Wanted
    <2>7. TasksKnown'
      <3>1. SUFFICES ASSUME NEW u \in Wanted'
                     PROVE  /\ Running(task[u].run)'
                            /\ row'[task'[u].run].task = u \/ u \in BeingSaved' \/ Unaware(u)'
                            /\ Unaware(u)' => task'[u].named \notin Live'
        BY DEF TasksKnown
      <3>2. u \in Wanted /\ u # t /\ u \in Live' /\ task'[u] = task[u] /\ task[u].run \in Runs
        BY <1>6, <2>2 DEF Wanted
      <3>3. ~Running(r) /\ Running(task[u].run)
        BY <2>1, <2>6, <3>2 DEF CalmInv, OneTask, TasksKnown
      <3>4. row'[task[u].run] = row[task[u].run] /\ (Unaware(u)' <=> Unaware(u))
        BY <1>4, <3>2, <3>3 DEF Unaware
      <3>5. /\ row[task[u].run].task = u \/ u \in BeingSaved \/ Unaware(u)
            /\ Unaware(u) => task[u].named \notin Live
        BY <2>1, <3>2 DEF CalmInv, TasksKnown
      <3>6. QED
        BY <1>6, <3>2, <3>3, <3>4, <3>5 DEF Running
    <2>8. RowsKnow'
      BY <1>6, <2>1, <2>2, <2>3 DEF CalmInv, RowsKnow
    <2>9. SendersAlone'
      <3>1. \A v : Sends(v)' <=> Sends(v)
        BY <1>1 DEF Sends
      <3>2. ASSUME NEW v \in Views, view[v].op = "send" PROVE Running(view[v].run)'
        <4>1. /\ Running(view[v].run) /\ view[v].run \in Runs
              /\ Wanted \subseteq {Nobody}
          BY <2>1, <2>2, <3>2 DEF CalmInv, SendersAlone, Sends
        <4>2. t # Nobody
          BY Records
        <4>3. QED
          BY <1>1, <2>4, <2>6, <4>1, <4>2
      <3>3. QED
        BY <1>1, <1>6, <2>1, <2>2, <2>3, <3>1, <3>2 DEF CalmInv, SendersAlone
    <2>10. Orphans'
      BY <1>1, <1>6, <2>1 DEF CalmInv, Orphans
    <2>11. QED
      BY <2>5, <2>7, <2>8, <2>9, <2>10 DEF CalmInv
  <1>9. QED
    BY <1>5, <1>7, <1>8 DEF IInv

----------------------------------------------------------------------------
(* The theorems.                                                           *)

LEMMA InitInvariant == Init => IInv
  <1> SUFFICES ASSUME Init PROVE IInv
    OBVIOUS
  <1>1. TypeOK
    <2>1. \A r \in Runs : row[r] \in Row
      BY DEF Init, Row
    <2>2. 0 \in 0 .. MaxMishaps
      BY BatchAssumption
    <2>3. QED
      BY <2>1, <2>2, Records DEF Init, TypeOK
  <1>2. /\ Live = {} /\ Wanted = {} /\ \A r \in Runs : ~Running(r)
        /\ \A v \in Views : view[v].op = "idle"
    BY Records DEF Init, Live, Wanted, Running
  <1>3. Placed
    BY <1>2 DEF Placed
  <1>4. OneRun /\ OneTask /\ TasksKnown /\ Orphans
    BY <1>2 DEF OneRun, OneTask, TasksKnown, Orphans
  <1>5. RowsKnow
    BY <1>2 DEF RowsKnow
  <1>6. SendersAlone
    BY <1>2 DEF SendersAlone, Sends
  <1>7. QED
    BY <1>1, <1>3, <1>4, <1>5, <1>6 DEF IInv, CalmInv

LEMMA StepKeeps == IInv /\ [Next]_vars => IInv'
  <1> SUFFICES ASSUME IInv, [Next]_vars PROVE IInv'
    OBVIOUS
  <1>1. CASE UNCHANGED vars
    BY <1>1, StillnessKeeps
  <1>2. ASSUME NEW v \in Views, NEW w \in Wants, Look(v, w) PROVE IInv'
    BY <1>2, LookKeeps
  <1>3. ASSUME NEW v \in Views, Serve(v) \/ Abort(v) PROVE IInv'
    BY <1>3, AnswerKeeps, SaveKeeps, EndingKeeps, CreateKeeps, SendKeeps DEF Serve
  <1>4. ASSUME NEW t \in Tasks, Work(t) PROVE IInv'
    BY <1>4, TakeKeeps, BeatKeeps, EndKeeps DEF Work
  <1>5. ASSUME NEW r \in Runs, GrowQuiet(r) \/ GrowStale(r) PROVE IInv'
    BY <1>5, StillnessKeeps
  <1>6. QED
    BY <1>1, <1>2, <1>3, <1>4, <1>5 DEF Next

\* Everything the proofs know of a reachable state: tasks and requests are about runs that
\* exist, and until a mishap happens, however requests overlap and whenever tasks start,
\* the work that is wanted is of the one running run and whoever sends is alone with it.
THEOREM Invariance == Spec => []IInv
  BY InitInvariant, StepKeeps, PTL DEF Spec

\* The variables have their types, whatever mishaps happen.
THEOREM TypesAlways == Spec => []TypeOK
  <1>1. IInv => TypeOK
    BY DEF IInv
  <1>2. QED
    BY <1>1, Invariance, PTL

\* A run that was stopped or has ended comes back only through the tasks that waited and the
\* requests that were deciding at that moment, once through each.  It is proved of every
\* behaviour, with all the mishaps: requests that overlap, that are cut off after sending,
\* that close or stop what another resumes, workers that answer late, tasks that start early.
THEOREM RevivalsRunOut == Spec => EndedStays
  <1>1. TypeOK /\ [Next]_vars => [\A r \in Runs : Ended(r) => Kept(r)]_vars
    BY StepKeepsEnded
  <1>2. QED
    BY <1>1, TypesAlways, PTL DEF Spec, EndedStays, Kept

\* An ended run for which no task waits and no request decides never comes back: a stop
\* that finds nothing under way is final, whatever mishaps follow.
THEOREM NothingComesBack ==
    Spec => \A r \in Runs : [](Ended(r) /\ UnderWay(r) = 0 => []Ended(r))
  <1> SUFFICES ASSUME NEW r \in Runs
               PROVE  Spec => [](Ended(r) /\ UnderWay(r) = 0 => []Ended(r))
    OBVIOUS
  <1> DEFINE final == Ended(r) /\ UnderWay(r) = 0
  <1>1. TypeOK /\ final /\ [Next]_vars => final'
    <2> SUFFICES ASSUME TypeOK, final, [Next]_vars PROVE final'
      OBVIOUS
    <2>1. Kept(r)
      BY StepKeepsEnded
    <2>2. UnderWay(r)' \in Nat
      BY FiniteAfter DEF UnderWay
    <2>3. QED
      BY <2>1, <2>2 DEF Kept
  <1>2. final => Ended(r)
    OBVIOUS
  <1> HIDE DEF final
  <1>3. Spec => [](final => []Ended(r))
    BY <1>1, <1>2, TypesAlways, PTL DEF Spec
  <1>4. QED
    BY <1>3 DEF final

\* A set whose members are all equal has one at most.
LEMMA OneAtMost ==
    ASSUME NEW S, \A a, b \in S : a = b
    PROVE  Cardinality(S) <= 1
  <1>1. Cardinality({}) = 0 /\ \A a : Cardinality({a}) = 1
    BY FS_EmptySet, FS_Singleton
  <1>2. CASE S = {}
    BY <1>1, <1>2
  <1>3. CASE S # {}
    <2>1. PICK a \in S : TRUE
      BY <1>3
    <2>2. S = {a}
      BY <2>1
    <2>3. QED
      BY <1>1, <2>2
  <1>4. QED
    BY <1>2, <1>3

\* For any number of requests that overlap as they like, and tasks that start before their
\* ids are saved: until one of the mishaps one run is running and one task is wanted.
THEOREM OneBatchAtATime == Spec => []OneBatch
  <1>1. IInv => OneBatch
    <2> SUFFICES ASSUME IInv, Calm PROVE OneBatch
      BY DEF OneBatch
    <2>1. OneRun /\ OneTask
      BY DEF IInv, CalmInv
    <2>2. Cardinality({r \in Runs : row[r].status = "running"}) <= 1
      BY <2>1, OneAtMost DEF OneRun, Running
    <2>3. Cardinality(Wanted) <= 1
      BY <2>1, OneAtMost DEF OneTask
    <2>4. QED
      BY <2>2, <2>3 DEF OneBatch
  <1>2. QED
    BY <1>1, Invariance, PTL

\* Until one of the mishaps the only task whose id its run does not have, and is not about
\* to get, is one that started before the id was saved, whatever overlaps.
THEOREM WorkCanBeStopped == Spec => []Stoppable
  <1>1. IInv => Stoppable
    BY DEF IInv, CalmInv, TasksKnown, Running, Stoppable
  <1>2. QED
    BY <1>1, Invariance, PTL
=============================================================================
