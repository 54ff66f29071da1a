----------------------------- MODULE TecdocBatch -----------------------------
(***************************************************************************)
(* The batch that binds products to TecDoc articles: the operators'        *)
(* requests that start, stop and watch it, which also resume or close a    *)
(* batch whose task is gone, and the Celery task that works through the    *)
(* candidates and saves its progress in the row of the run                 *)
(* (apps/backoffice/api/views/autodb_matching/batch.py,                    *)
(* apps/autodb/tasks.py), for one of the two run types.                    *)
(*                                                                         *)
(* No one locks the row.  Requests and tasks write back the whole          *)
(* summary_json that they read, the id of the task in it included.         *)
(*                                                                         *)
(* There is no clock: a heartbeat grows old and a run stale at any moment. *)
(* What the tasks do to the products is left out, but not the order of     *)
(* their writes to the run.                                                *)
(***************************************************************************)
EXTENDS FiniteSets, Integers

CONSTANTS
    Views,       \* requests that are served at the same time
    MaxRuns,     \* bounds the runs that are created
    Tasks,       \* ids of tasks; one that nothing names is used again
    MaxMishaps   \* bounds the mishaps of a behaviour

ASSUME BatchAssumption ==
    /\ IsFiniteSet(Views)
    /\ IsFiniteSet(Tasks) /\ "nobody" \notin Tasks
    /\ MaxRuns \in Nat
    /\ MaxMishaps \in Nat \ {0}   \* some cannot be kept from happening

Runs == 1 .. MaxRuns

VARIABLES
    row,        \* the runs in the database, in the order of their creation
    task,       \* what each task is doing
    view,       \* what each request is doing
    mishaps     \* how many things have happened that the code does not guard against;
                \* the actions that bring them say which they are

vars == <<row, task, view, mishaps>>

Nobody == "nobody"

Wants == {"run", "stop", "state"}

\* status: "stopped" is partial with the reason manual_stop, "closed" any other end.
\* task: the task_id in the summary.  beat: "quiet" is a heartbeat of more than 180
\* seconds, "stale" a row not saved for 15 minutes.
Row == [status : {"none", "running", "closed", "stopped"}, task : Tasks \cup {Nobody},
        beat : {"fresh", "quiet", "stale"}]

\* named: the task_id in the task's own copy of the summary.
Task == [st : {"gone", "queued", "working"}, run : 0 .. MaxRuns,
         named : Tasks \cup {Nobody}, revoked : BOOLEAN]

\* task: the task_id in the request's copy of the summary.
View == [op : {"idle", "inspect", "resume", "saveresume", "close", "stop",
               "create", "send", "save"},
         wants : Wants, run : 0 .. MaxRuns, task : Tasks \cup {Nobody},
         stale : BOOLEAN]

Idle == [op |-> "idle", wants |-> "state", run |-> 0, task |-> Nobody, stale |-> FALSE]

Gone == [st |-> "gone", run |-> 0, named |-> Nobody, revoked |-> FALSE]

Queued(r) == [Gone EXCEPT !.st = "queued", !.run = r]

Live == {t \in Tasks : task[t].st # "gone"}

TasksOf(r) == {t \in Live : task[t].run = r}

\* The run can still be touched.
Matters(r) == row[r].status = "running" \/ TasksOf(r) # {} \/ \E v \in Views : view[v].run = r

\* An id for a new task.
Spare == {t \in Tasks \ Live : /\ \A r \in Runs : Matters(r) => row[r].task # t
                               /\ \A v \in Views : view[v].task # t
                               /\ \A u \in Live : task[u].named # t}

\* When there is none: the id that the request has read, if no other has read it.
SpareFor(v) ==
    IF Spare # {} THEN Spare
    ELSE {t \in {view[v].task} \ Live : \A u \in Views \ {v} : view[u].task # t}

Created == {r \in Runs : row[r].status # "none"}

\* Tasks that are sent and not yet named in the row.
BeingSaved == {view[v].task : v \in {u \in Views : view[u].op \in {"save", "saveresume"}}}

Busy == {v \in Views : view[v].op # "idle"}

\* A run can be created (a bound of the model).
RunsLeft ==
    Cardinality(Runs \ Created) > Cardinality({v \in Busy : view[v].wants = "run"})

Mishap(happens) ==
    IF happens THEN mishaps < MaxMishaps /\ mishaps' = mishaps + 1
               ELSE UNCHANGED mishaps

\* One that cannot be kept from happening: it uses up what is left of the bound.
LastMishap(happens) == mishaps' = IF happens THEN MaxMishaps ELSE mishaps

\* Other requests that are about to send a task of the same run or to save its id.
Sending(v) == {u \in Views \ {v} : /\ view[u].run = view[v].run
                                  /\ view[u].op \in {"send", "save", "saveresume"}}

\* A task that started before its id was in the row: it has read what was there, and
\* writes that back.
Unaware(t) == task[t].st = "working" /\ task[t].named # t

\* What the request does is a mishap: others have changed the run since it was read, or
\* are about to, or the task of the run cannot be found by the id in the row.
Misled(v) ==
    \/ row[view[v].run].status # "running"
    \/ row[view[v].run].task # view[v].task
    \/ Sending(v) # {}
    \/ \E t \in TasksOf(view[v].run) : Unaware(t)

Goto(v, op) == view' = [view EXCEPT ![v].op = op, ![v].stale = FALSE]

Done(v) == view' = [view EXCEPT ![v] = Idle]

----------------------------------------------------------------------------
(* Requests: first _active_batch_run.                                      *)

\* Mutant: a run whose heartbeat is old counts as ended.
ActiveIfFresh(r) == row[r].status = "running" /\ row[r].beat = "fresh"

Active(r) == row[r].status = "running"

Newest == {r \in Runs : Active(r) /\ \A s \in Runs : Active(s) => s <= r}

\* Mutant: a run is never too old.
OutdatedNever(r) == FALSE

Outdated(r) == row[r].beat = "stale"

\* A run was found that goes on: a request to stop stops it.
GoOn(v) == IF view[v].wants = "stop" THEN Goto(v, "stop") ELSE Done(v)

Looked(r, w, op) == [op |-> op, wants |-> w, run |-> r, task |-> row[r].task,
                     stale |-> op = "inspect" /\ Outdated(r)]

\* Mishap: the row is too old and a task lives.  Requests overlap as they like, but after
\* the last mishap they come one at a time (a bound of the model).
Look(v, w) ==
    /\ view[v].op = "idle"
    /\ w = "run" => RunsLeft
    /\ Busy # {} => mishaps < MaxMishaps
    /\ \/ /\ Newest = {}
          /\ w = "run"
          /\ view' = [view EXCEPT ![v] = [Idle EXCEPT !.op = "create", !.wants = w]]
       \/ \E r \in Newest :
            /\ \/ /\ row[r].task # Nobody /\ row[r].beat # "fresh"
                  /\ view' = [view EXCEPT ![v] = Looked(r, w, "inspect")]
               \/ /\ row[r].task = Nobody /\ Outdated(r)
                  /\ view' = [view EXCEPT ![v] = Looked(r, w, "close")]
               \/ /\ row[r].task = Nobody \/ row[r].beat = "fresh"
                  /\ ~Outdated(r)
                  /\ w = "stop"
                  /\ view' = [view EXCEPT ![v] = Looked(r, w, "stop")]
    /\ Mishap(\E r \in Newest : Outdated(r) /\ TasksOf(r) # {})
    /\ UNCHANGED <<row, task>>

\* A worker has the task, or none of them can be asked: the run goes on, unless its row
\* is too old.
Seen(v) ==
    /\ view[v].op = "inspect"
    /\ IF view[v].stale THEN Goto(v, "close") ELSE GoOn(v)
    /\ UNCHANGED <<row, task, mishaps>>

\* No worker says that it has the task: a continuous batch is resumed, another closed
\* (which it is, is left open).  Mishap: it is in the broker, or its worker did
\* not answer in time.
Unseen(v) ==
    /\ view[v].op = "inspect"
    /\ Goto(v, "resume") \/ Goto(v, "close")
    /\ Mishap(view[v].task \in Live)
    /\ UNCHANGED <<row, task>>

\* _try_resume_orphaned_run.  Mishap, here and in Close and Stop: the request is misled.
Resume(v, t) ==
    /\ view[v].op = "resume"
    /\ t \in SpareFor(v)
    /\ task' = [task EXCEPT ![t] = Queued(view[v].run)]
    /\ view' = [view EXCEPT ![v].op = "saveresume", ![v].task = t]
    /\ LastMishap(Misled(v))
    /\ UNCHANGED row

\* There is no id left (a bound of the model): as if the broker could not be reached.
GiveUp(v) ==
    /\ view[v].op = "resume"
    /\ SpareFor(v) = {}
    /\ Done(v)
    /\ UNCHANGED <<row, task, mishaps>>

\* Mutant: the id of the new task is not saved.
SaveResumeWithoutId(v) ==
    /\ view[v].op = "saveresume"
    /\ GoOn(v)
    /\ UNCHANGED <<row, task, mishaps>>

\* Mutant: the run is also marked running, as when it was created.
SaveResumeAndReopen(v) ==
    /\ view[v].op = "saveresume"
    /\ row' = [row EXCEPT ![view[v].run].task = view[v].task,
                          ![view[v].run].status = "running"]
    /\ GoOn(v)
    /\ UNCHANGED <<task, mishaps>>

\* The heartbeat in the summary stays old; a run that has none is as old as its row.
SaveResume(v) ==
    /\ view[v].op = "saveresume"
    /\ \E b \in {"fresh", "quiet"} :
         row' = [row EXCEPT ![view[v].run].task = view[v].task, ![view[v].run].beat = b]
    /\ GoOn(v)
    /\ UNCHANGED <<task, mishaps>>

Saved(r, status, t) == [row EXCEPT ![r] = [status |-> status, task |-> t, beat |-> "fresh"]]

\* Mutant: the run is marked stale.
CloseAsStale(v) ==
    /\ view[v].op = "close"
    /\ row' = [row EXCEPT ![view[v].run].status = "stale"]
    /\ Done(v)
    /\ UNCHANGED <<task, mishaps>>

\* _close_stale_run
Close(v) ==
    /\ view[v].op = "close"
    /\ row' = Saved(view[v].run, "closed", view[v].task)
    /\ IF view[v].wants = "run" THEN Goto(v, "create") ELSE Done(v)
    /\ LastMishap(Misled(v))
    /\ UNCHANGED task

\* _stop_batch: the task named in the summary is revoked and its process killed.
Stop(v) ==
    /\ view[v].op = "stop"
    /\ task' = [t \in Tasks |-> IF t = view[v].task /\ t \in Live
                                THEN [task[t] EXCEPT !.revoked = TRUE] ELSE task[t]]
    /\ row' = Saved(view[v].run, "stopped", view[v].task)
    /\ Done(v)
    /\ LastMishap(Misled(v))

\* _run_batch, when there was no active run.  Mishap: there is one by now.
Create(v) ==
    /\ view[v].op = "create"
    /\ \E r \in Runs \ Created :
         /\ r = Cardinality(Created) + 1
         /\ row' = Saved(r, "running", Nobody)
         /\ view' = [view EXCEPT ![v] = [Idle EXCEPT !.op = "send", !.wants = "run",
                                                     !.run = r]]
    /\ LastMishap(Newest # {})
    /\ UNCHANGED task

Send(v, t) ==
    /\ view[v].op = "send"
    /\ t \in Spare
    /\ task' = [task EXCEPT ![t] = Queued(view[v].run)]
    /\ view' = [view EXCEPT ![v].op = "save", ![v].task = t]
    /\ UNCHANGED <<row, mishaps>>

Save(v) ==
    /\ view[v].op = "save"
    /\ row' = [row EXCEPT ![view[v].run].task = view[v].task, ![view[v].run].beat = "fresh"]
    /\ Done(v)
    /\ UNCHANGED <<task, mishaps>>

\* The broker or the database cannot be reached, or the server is restarted (before the
\* request has changed anything this is as if it had not come).  Mishap: the task has been
\* sent, and the run does not know it.
Abort(v) ==
    /\ view[v].op \in {"saveresume", "send", "save"}
    /\ Done(v)
    /\ Mishap(view[v].op \in {"save", "saveresume"})
    /\ UNCHANGED <<row, task>>

----------------------------------------------------------------------------
(* The task.                                                               *)

\* It may start before its id is in the row (after the last mishap it does not, a bound of
\* the model).  Mishap: it starts although it is revoked.
Take(t) ==
    /\ task[t].st = "queued"
    /\ t \in BeingSaved => mishaps < MaxMishaps
    /\ LET r == task[t].run IN
         /\ row' = [row EXCEPT ![r].status = "running", ![r].beat = "fresh"]
         /\ task' = [task EXCEPT ![t].st = "working", ![t].named = row[r].task]
         /\ Mishap(task[t].revoked)
    /\ UNCHANGED view

\* Progress is saved before and after each product and while the task waits for the
\* quota or the remote side.
Beat(t) ==
    /\ task[t].st = "working"
    /\ row' = [row EXCEPT ![task[t].run].task = task[t].named,
                          ![task[t].run].beat = "fresh"]
    /\ UNCHANGED <<task, view, mishaps>>

\* No candidate is left, one pass is made, or an error stops the batch.
Finish(t) ==
    /\ task[t].st = "working"
    /\ row' = Saved(task[t].run, "closed", task[t].named)
    /\ task' = [task EXCEPT ![t] = Gone]
    /\ UNCHANGED <<view, mishaps>>

\* Killed by a stop, at its time limit or with its worker; a worker drops a task that
\* is revoked.
Die(t) ==
    /\ task[t].st = "working" \/ (task[t].st = "queued" /\ task[t].revoked)
    /\ task' = [task EXCEPT ![t] = Gone]
    /\ UNCHANGED <<row, view, mishaps>>

----------------------------------------------------------------------------
(* Time.                                                                   *)

GrowQuiet(r) ==
    /\ row[r].status = "running" /\ row[r].beat = "fresh"
    /\ row' = [row EXCEPT ![r].beat = "quiet"]
    /\ UNCHANGED <<task, view, mishaps>>

GrowStale(r) ==
    /\ row[r].status = "running" /\ row[r].beat = "quiet"
    /\ row' = [row EXCEPT ![r].beat = "stale"]
    /\ UNCHANGED <<task, view, mishaps>>

----------------------------------------------------------------------------
Init ==
    /\ row = [r \in Runs |-> [status |-> "none", task |-> Nobody, beat |-> "fresh"]]
    /\ task = [t \in Tasks |-> Gone]
    /\ view = [v \in Views |-> Idle]
    /\ mishaps = 0

Serve(v) ==
    \/ Seen(v) \/ Unseen(v) \/ SaveResume(v) \/ Close(v) \/ Stop(v) \/ Create(v)
    \/ Save(v) \/ GiveUp(v)
    \/ \E t \in Tasks : Resume(v, t) \/ Send(v, t)

Work(t) == Take(t) \/ Beat(t) \/ Finish(t) \/ Die(t)

Next ==
    \/ \E v \in Views, w \in Wants : Look(v, w)
    \/ \E v \in Views : Serve(v) \/ Abort(v)
    \/ \E t \in Tasks : Work(t)
    \/ \E r \in Runs : GrowQuiet(r) \/ GrowStale(r)

\* The page asks for the state again and again, requests are served and sent tasks reach
\* the broker, and time passes.
Fairness ==
    /\ \A v \in Views : WF_view(Serve(v))
    /\ SF_view(\E v \in Views : Look(v, "state"))
    /\ WF_row(\E r \in Newest : GrowQuiet(r) \/ GrowStale(r))

Spec == Init /\ [][Next]_vars /\ Fairness

----------------------------------------------------------------------------
(* Properties.                                                             *)

\* The variables have their types.
TypeOK ==
    /\ row \in [Runs -> Row]
    /\ task \in [Tasks -> Task]
    /\ view \in [Views -> View]
    /\ mishaps \in 0 .. MaxMishaps

Calm == mishaps = 0

Wanted == {t \in Live : ~task[t].revoked}

\* One batch at a time, however many requests overlap, whatever they want, whenever tasks
\* start, die or finish: at most one run is running and at most one task works or waits
\* that no stop has revoked, until one of the mishaps happens.
OneBatch ==
    Calm => /\ Cardinality({r \in Runs : row[r].status = "running"}) <= 1
            /\ Cardinality(Wanted) <= 1

\* What works can be stopped: until a mishap happens the task is of a running run whose row
\* names it, or the request that has sent it is about to save its id.  The only task that
\* loses its id is one that started before it was saved.
Stoppable ==
    Calm => \A t \in Wanted :
              /\ row[task[t].run].status = "running"
              /\ \/ row[task[t].run].task = t
                 \/ t \in BeingSaved
                 \/ Unaware(t)

\* What can still revive an ended run: its tasks in the broker, and the requests that have
\* found it running, or created it, and may send it one more.
Waiting(r) == {t \in TasksOf(r) : task[t].st = "queued"}

Deciding(r) == {v \in Views : view[v].run = r /\ view[v].op \in {"inspect", "resume", "send"}}

UnderWay(r) == Cardinality(Waiting(r)) + Cardinality(Deciding(r))

Ended(r) == row[r].status \in {"closed", "stopped"}

\* A run that was stopped or has ended comes back only through what was under way at that
\* moment, once through each: whatever overlaps, is cut off or answers late, nothing is
\* added to it, and each revival uses up one.  It holds with all the mishaps.
EndedStays ==
    [][\A r \in Runs : Ended(r) =>
          /\ UnderWay(r)' <= UnderWay(r)
          /\ Ended(r)' \/ UnderWay(r)' < UnderWay(r)]_vars

\* A running run without a task, now or soon.
Forgotten(r) ==
    /\ row[r].status = "running"
    /\ TasksOf(r) = {}
    /\ \A v \in Views : view[v].run = r => view[v].op \notin {"send", "save", "resume"}

\* No run blocks the button forever: whatever has happened to its task, to the request
\* that created it and to the id in its row, the newest running run is closed or resumed
\* when the state is asked for.  An older one is the newest once that has ended.
NoRunIsForgotten == []<>(\A r \in Newest : ~Forgotten(r))
==============================================================================
