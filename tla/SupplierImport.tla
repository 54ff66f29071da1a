--------------------------- MODULE SupplierImport ---------------------------
(***************************************************************************)
(* The scheduled import of one supplier's prices: the dispatcher that the  *)
(* beat calls every minute, the pipeline task with its lock in the cache,  *)
(* the import run, and what operators do beside them                       *)
(* (apps/supplier_imports/services/scheduling/scheduler.py, pipeline.py,   *)
(* tasks/run_scheduled_supplier_pipeline.py, import_runner/service.py,     *)
(* backoffice supplier_price_workflow).                                    *)
(*                                                                         *)
(* There is no clock.  A key of the cache lapses at any moment its time to *)
(* live allows: the dispatch lock (an hour) always, the pipeline lock (150 *)
(* minutes) only when the task that took it is gone, for Celery kills the  *)
(* task after the same 150 minutes.  (A pipeline that a request runs has   *)
(* no such limit; it is taken to end in time.)  A run is stale after 180   *)
(* minutes, when the task that began it is dead.                           *)
(***************************************************************************)
EXTENDS FiniteSets, Naturals, Sequences

CONSTANTS
    Workers,     \* Celery processes and threads that serve requests
    Lists,       \* ids of price lists that are downloaded and not imported
    MaxQueued    \* bounds the tasks in the queue

ASSUME ImportAssumption ==
    /\ IsFiniteSet(Lists) /\ MaxQueued \in Nat
    /\ Workers \cap {"free", "left", "hand", "orphan"} = {}   \* no other holders

VARIABLES
    due,          \* a moment of the schedule has come since last_started_at
    dispatched,   \* the dispatch lock of that moment is in the cache
    queued,       \* pipeline tasks in the queue
    lock,         \* who holds the pipeline lock: a worker, "free", or "left" by a dead one
    running,      \* the runs that are RUNNING: of a worker's pipeline, of an operator
                  \* ("hand"), or of a process that is dead ("orphan")
    shelf,        \* the lists downloaded and not imported, the oldest first
    passed,       \* lists older than the prices that are in the offers
    work,         \* what each worker is doing
    disturbed     \* operators have touched the lists, or the cache has failed

vars == <<due, dispatched, queued, lock, running, shelf, passed, work, disturbed>>

Nobody == "nobody"

Ops == {"idle", "begun", "request", "run", "persist", "applied", "mark",
        "release"}

\* list: the price list it imports.
Job == [op : Ops, list : Lists \cup {Nobody}]

Idle == [op |-> "idle", list |-> Nobody]

InShelf == {shelf[i] : i \in DOMAIN shelf}

Held == {work[w].list : w \in Workers}

Goto(w, op) == work' = [work EXCEPT ![w].op = op]

----------------------------------------------------------------------------
(* The dispatcher.                                                         *)

\* A moment of the schedule comes; its dispatch lock has a key of its own.  It stays due
\* until the source has started (schedule_catch_up_enabled, which is the default).
MomentComes ==
    /\ due' = TRUE /\ dispatched' = FALSE
    /\ UNCHANGED <<queued, lock, running, shelf, passed, work, disturbed>>

\* Mutant: runs left behind stay.
StaleNothing == {}

\* A run that is 180 minutes old has no task any more; an operator's may go on.
Stale == running \ Workers

CloseStale(r) ==
    /\ r \in Stale
    /\ running' = running \ {r}
    /\ UNCHANGED <<due, dispatched, queued, lock, shelf, passed, work, disturbed>>

\* dispatch_due_sources for one source; the lock is kept only when a task is sent.
Dispatch ==
    /\ due /\ ~dispatched
    /\ running = {}
    /\ queued < MaxQueued
    /\ dispatched' = TRUE /\ queued' = queued + 1
    /\ UNCHANGED <<due, lock, running, shelf, passed, work, disturbed>>

\* The dispatcher is killed between the lock and the task.
DispatchCut ==
    /\ due /\ ~dispatched
    /\ dispatched' = TRUE
    /\ UNCHANGED <<due, queued, lock, running, shelf, passed, work, disturbed>>

\* Without the cache every dispatcher has the lock.
DispatchWithoutCache ==
    /\ due /\ dispatched
    /\ running = {}
    /\ queued < MaxQueued
    /\ queued' = queued + 1
    /\ UNCHANGED <<due, dispatched, lock, running, shelf, passed, work, disturbed>>

\* An operator presses Run now; the view refuses while the pipeline lock is taken.
RunNow ==
    /\ lock = "free"
    /\ queued < MaxQueued
    /\ queued' = queued + 1
    /\ UNCHANGED <<due, dispatched, lock, running, shelf, passed, work, disturbed>>

DispatchLockLapses ==
    /\ dispatched
    /\ dispatched' = FALSE
    /\ UNCHANGED <<due, queued, lock, running, shelf, passed, work, disturbed>>

----------------------------------------------------------------------------
(* The pipeline.                                                           *)

\* Mutant: the lock is set, not added.
LockIsFreeAlways == TRUE

\* cache.add finds no lock
LockIsFree == lock = "free"

\* Without the cache the lock is taken for acquired.
BeginPipeline(w) ==
    /\ work[w].op = "idle"
    /\ \/ LockIsFree /\ lock' = w /\ Goto(w, "begun") /\ UNCHANGED disturbed
       \/ ~LockIsFree /\ UNCHANGED <<lock, work, disturbed>>
       \/ Goto(w, "begun") /\ disturbed' = TRUE /\ UNCHANGED lock
    /\ UNCHANGED <<due, dispatched, running, shelf, passed>>

TakeTask(w) == queued > 0 /\ queued' = queued - 1 /\ BeginPipeline(w)

\* dispatch_async is false: the request runs the task itself.
RunInline(w) == BeginPipeline(w) /\ UNCHANGED queued

\* Mutant: a new list is asked for every time.
ReusableNever == {}

\* _find_latest_unimported_downloaded_price_list
Reusable == IF shelf = <<>> THEN {} ELSE {shelf[Len(shelf)]}

\* Token and parameters are had; a list that waits is imported, or a new one requested.
Choose(w) ==
    /\ work[w].op = "begun"
    /\ \/ \E l \in Reusable :
            work' = [work EXCEPT ![w].op = "run", ![w].list = l]
       \/ Reusable = {} /\ Goto(w, "request")
    /\ UNCHANGED <<due, dispatched, queued, lock, running, shelf, passed, disturbed>>

NewList(l) == l \notin InShelf \cup Held

\* request_price_list and download_price_list, polled until the list is there
Download(w, l) ==
    /\ work[w].op = "request"
    /\ NewList(l)
    /\ shelf' = Append(shelf, l) /\ passed' = passed \ {l}
    /\ work' = [work EXCEPT ![w].op = "run", ![w].list = l]
    /\ UNCHANGED <<due, dispatched, queued, lock, running, disturbed>>

\* run_source: the source has started, with a run that is RUNNING.
StartRun(w) ==
    /\ work[w].op = "run"
    /\ due' = FALSE /\ running' = running \cup {w}
    /\ Goto(w, "persist")
    /\ UNCHANGED <<dispatched, queued, lock, shelf, passed, disturbed>>

OlderThan(l) == {shelf[i] : i \in {j \in DOMAIN shelf :
                                     \E k \in DOMAIN shelf : j < k /\ shelf[k] = l}}

\* persist_parsed_rows, one transaction: the offers have the prices of the list.
Persist(w) ==
    /\ work[w].op = "persist"
    /\ passed' = passed \cup OlderThan(work[w].list)
    /\ Goto(w, "applied")
    /\ UNCHANGED <<due, dispatched, queued, lock, running, shelf, disturbed>>

\* The run is saved as success, partial or failed.
EndRun(w) ==
    /\ work[w].op = "applied"
    /\ running' = running \ {w}
    /\ Goto(w, "mark")
    /\ UNCHANGED <<due, dispatched, queued, lock, shelf, passed, disturbed>>

ToRelease(w) == work' = [work EXCEPT ![w].op = "release", ![w].list = Nobody]

\* The shelf without l, which is on it once at most.
Without(l) ==
    IF l \in InShelf
    THEN LET i == CHOOSE i \in DOMAIN shelf : shelf[i] = l
         IN  SubSeq(shelf, 1, i - 1) \o SubSeq(shelf, i + 1, Len(shelf))
    ELSE shelf

MarkImported(l) ==
    /\ shelf' = Without(l)
    /\ passed' = passed \ {l}

\* The list is imported, whatever the status of the run; publishing and reindexing
\* follow.
Mark(w) ==
    /\ work[w].op = "mark"
    /\ MarkImported(work[w].list)
    /\ ToRelease(w)
    /\ UNCHANGED <<due, dispatched, queued, lock, running, disturbed>>

\* An exception, the soft time limit or a cooldown that does not end: run_source saves
\* its run as failed, unless it was still preparing its matcher, and the task goes on
\* to its finally.
Fail(w) ==
    /\ work[w].op \in {"begun", "request", "run", "persist", "applied", "mark"}
    /\ \/ running' = running \ {w}
       \/ work[w].op = "persist" /\ running' = (running \ {w}) \cup {"orphan"}
    /\ ToRelease(w)
    /\ UNCHANGED <<due, dispatched, queued, lock, shelf, passed, disturbed>>

\* Mutant: the key is blanked, not deleted.
ReleaseByBlanking(w) ==
    /\ work[w].op = "release"
    /\ lock' = IF lock = w THEN Nobody ELSE lock
    /\ work' = [work EXCEPT ![w] = Idle]
    /\ UNCHANGED <<due, dispatched, queued, running, shelf, passed, disturbed>>

\* The lock is deleted if it holds the task's own uuid.
Release(w) ==
    /\ work[w].op = "release"
    /\ lock' = IF lock = w THEN "free" ELSE lock
    /\ work' = [work EXCEPT ![w] = Idle]
    /\ UNCHANGED <<due, dispatched, queued, running, shelf, passed, disturbed>>

\* The process is killed: at the hard limit, for memory, by a deployment.
Crash(w) ==
    /\ work[w].op # "idle"
    /\ lock' = IF lock = w THEN "left" ELSE lock
    /\ running' = IF w \in running THEN (running \ {w}) \cup {"orphan"} ELSE running
    /\ work' = [work EXCEPT ![w] = Idle]
    /\ UNCHANGED <<due, dispatched, queued, shelf, passed, disturbed>>

PipelineLockLapses ==
    /\ lock = "left"
    /\ lock' = "free"
    /\ UNCHANGED <<due, dispatched, queued, running, shelf, passed, work, disturbed>>

----------------------------------------------------------------------------
(* Operators request, download and import lists by hand.                   *)

\* Ids are left to the pipelines that have requested a list (a bound of the model).
OperatorDownloads(l) ==
    /\ NewList(l)
    /\ Cardinality({x \in Lists : NewList(x)}) > Cardinality({w \in Workers : work[w].op = "request"})
    /\ shelf' = Append(shelf, l) /\ passed' = passed \ {l}
    /\ disturbed' = TRUE
    /\ UNCHANGED <<due, dispatched, queued, lock, running, work>>

\* run_source in a request of an operator
OperatorStartsRun ==
    /\ "hand" \notin running
    /\ shelf # <<>>
    /\ due' = FALSE /\ running' = running \cup {"hand"}
    /\ disturbed' = TRUE
    /\ UNCHANGED <<dispatched, queued, lock, shelf, passed, work>>

\* ... which imports the list, or fails.
OperatorEndsRun ==
    /\ "hand" \in running
    /\ running' = running \ {"hand"}
    /\ \/ UNCHANGED <<shelf, passed>>
       \/ \E l \in InShelf :
            /\ shelf' = Without(l)
            /\ passed' = (passed \cup OlderThan(l)) \ {l}
    /\ UNCHANGED <<due, dispatched, queued, lock, work, disturbed>>

----------------------------------------------------------------------------
Init ==
    /\ due = FALSE /\ dispatched = FALSE /\ queued = 0
    /\ lock = "free" /\ running = {}
    /\ shelf = <<>> /\ passed = {}
    /\ work = [w \in Workers |-> Idle]
    /\ disturbed = FALSE

Schedule ==
    \/ MomentComes
    \/ \E r \in running : CloseStale(r)
    \/ Dispatch \/ DispatchCut \/ DispatchWithoutCache \/ RunNow
    \/ DispatchLockLapses \/ PipelineLockLapses

Proceed(w) ==
    \/ Choose(w) \/ (\E l \in Lists : Download(w, l))
    \/ StartRun(w) \/ Persist(w) \/ EndRun(w) \/ Mark(w) \/ Release(w)

Step(w) ==
    TakeTask(w) \/ RunInline(w) \/ Proceed(w) \/ Fail(w) \/ Crash(w)

Next == \/ Schedule
        \/ \E w \in Workers : Step(w)
        \/ (\E l \in Lists : OperatorDownloads(l))
        \/ OperatorStartsRun \/ OperatorEndsRun

\* The beat keeps sending the dispatcher, keys of the cache lapse, workers take tasks
\* and go on, and a pipeline that is started again and again does not fail every time.
Fairness ==
    /\ WF_vars(\E r \in running : CloseStale(r))
    /\ WF_vars(DispatchLockLapses) /\ WF_vars(PipelineLockLapses)
    /\ \A w \in Workers : WF_vars(Proceed(w))
    /\ SF_vars(Dispatch)
    /\ SF_vars(\E w \in Workers : TakeTask(w))
    /\ SF_vars(\E w \in Workers : Choose(w))
    /\ SF_vars(\E w \in Workers, l \in Lists : Download(w, l))
    /\ SF_vars(\E w \in Workers : StartRun(w))

Spec == Init /\ [][Next]_vars /\ Fairness

----------------------------------------------------------------------------
(* Properties.                                                             *)

\* The variables have their types.
TypeOK ==
    /\ due \in BOOLEAN /\ dispatched \in BOOLEAN /\ queued \in 0 .. MaxQueued
    /\ lock \in Workers \cup {"free", "left"}
    /\ running \subseteq Workers \cup {"hand", "orphan"}
    /\ shelf \in Seq(Lists) /\ passed \subseteq Lists
    /\ work \in [Workers -> Job]
    /\ disturbed \in BOOLEAN

Working == {"begun", "request", "run", "persist", "applied", "mark"}

\* As long as the cache answers, two pipelines never work together, although a moment
\* can be dispatched again, operators run pipelines too and a killed task leaves its
\* lock behind.
OnePipeline ==
    ~disturbed => Cardinality({w \in Workers : work[w].op \in Working}) <= 1

\* No list that waits to be imported is older than the prices in the offers: the next
\* pipeline imports the list that waits, and would take the prices back.  This needs
\* that a list left by a failed pipeline is used before another is requested; it fails
\* once operators download or import by hand or the cache does not answer.
NothingOldWaits == ~disturbed => InShelf \cap passed = {}

\* Every moment of the schedule leads to an import, through lost tasks, killed
\* pipelines and the locks and runs that they leave behind.
MomentIsMet == due ~> ~due
============================================================================
