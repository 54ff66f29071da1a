# SVOM in TLA+

SVOM is a shop for car parts: a Django backend (`src/backend`), Celery workers, a Next.js
frontend, PostgreSQL, Redis and Elasticsearch, and outside services for payments (Monobank,
LiqPay), parcels (Nova Poshta), fiscal receipts (Vchasno.Kasa) and suppliers (GPL, UTR).
What is hard in it is not an algorithm. It is that requests of customers, operators, providers
and scheduled tasks change the same rows at the same time, mostly without locks, and that some
of them wait for the network in between. The server (`daphne`, one thread per request) and the
Celery workers run them in parallel, the database at its default isolation (read committed, no
`ATOMIC_REQUESTS`), so that what a request reads outside a row lock may be stale when it writes.

This directory models that: state machines of the components, TLC runs on small instances and
TLAPS proofs for all instances.

## Inventory

| component | state | operations | what is hard | what makes it correct |
|---|---|---|---|---|
| Return requests (`commerce`, `backoffice` returns views) | requests, their items, events, number sequence | create, submit parcel number, approve / reject / accept / refund, comment, delete | no handler locks its rows | unique numbers; nothing returned twice; money only for a parcel; amounts match lines; the audit trail tells the truth |
| Cart and checkout (`checkout_service.py`, `cart_service.py`) | cart rows, orders | change a row, submit | row locks, a provider call inside a transaction, crash and rollback | an order is the cart of one instant; no row ordered twice; each checkout ends |
| Promo codes (`loyalty_service.py`) | uses so far, expiry | issue, redeem, lapse | check first, redeem later | uses within the limit; only markup is given away |
| Monobank payment (`services/monobank`) | payment row, invoices at the provider | create, webhook, refresh, cancel, finalize, remove | late, repeated and reordered notifications; answers applied to rows read before the call | status never goes back, converges, never claims money that was not collected |
| LiqPay payment (`services/liqpay`) | payment row | prepare, callback, refresh | as above, with dates of several fields | as above |
| Order operations (`order_operations_service.py`) | order and item statuses, reason of a cancellation, date of receipt, events | confirm, ship, complete, cancel, reset, procure, reserve, recalculate, delete, bulk | transitions on rows read unlocked; recalculation racing a transition; row locks taken in opposite orders | the history explains the status; what is completed can be returned; nothing delivered is deleted |
| Fiscal receipts (`services/vchasno_kasa`) | receipt of an order, shift of the cash register | issue, synchronise, open and close the shift | two issuers; lost, odd and late answers; no transaction | one fiscal receipt per order; no state shown that it has not been in |
| Waybills and tracking (`services/nova_poshta`) | waybill, order | create, update, delete, poll | cache lock with a lifetime around a slow call | one active waybill |
| Supplier orders (`order_supplier_service.py`) | notes of the order that name the orders at GPL | place, cancel, preview | provider call, then save | operators see what has been ordered |
| Import scheduling (`supplier_imports/services/scheduling`) | import sources, price lists, runs, cache locks | dispatch, run, close stale, import by hand | locks that expire, killed tasks, lists left by failures | every moment of the schedule is met; one pipeline per supplier; prices do not go back |
| TecDoc batch (`backoffice/api/views/autodb_matching/batch.py`, `autodb/tasks.py`) | runs with the id of their task in a summary | start, stop, watch, resume, close stale, work | requests and task write back the whole summary they read; nobody locks; a task is looked for by asking the workers | one batch at a time; it can be stopped; an ended one comes back only through what was under way; a dead one does not block the button |
| Backups (`core/services/database_backup.py`) | runs, run lock, files | dispatch, run, clean up | lock deleted without asking whose it is | one run at a time |
| Support chat (`support`) | threads, messages, unread counters | post, read, close, assign | counters read and written unlocked | counters count; a closed thread stays closed |
| Import parsing, AutoDB, UTR, pricing, catalog, search, SEO, marketing, security, users, realtime, frontend, deployment | product data, derived data, permissions | batch pipelines, views | data rather than order of steps | outside this project, see *Not modelled* |

The components meet in rows. Checkout empties the cart, creates the order, redeems the promo code
and asks the provider for an invoice; the payment lives on through webhooks and operators;
operators and tracking take the order to "completed"; a completed order can be returned; imports
move prices and stock under all of them; the TecDoc batch gives products their articles. The
hazards of each, with the line of code where they bite and the property that watches it, are in
`PROJECT.json`.

## Modules

| module | models | sources |
|---|---|---|
| `Returns` | return requests of one completed order | `commerce/api/views/returns_views.py`, `commerce/services/returns_service.py`, `backoffice/api/views/returns_views.py`, `backoffice/api/serializers/return_operational_serializer.py` |
| `OrderPlacement` | abstract specification: what checkout promises | the effect of `submit_checkout` as one step |
| `Checkout` | carts, checkout transactions, promo codes; implements `OrderPlacement` | `checkout_service.py`, `cart_service.py`, `cart_calculations.py`, `loyalty_service.py` |
| `MonobankPayment` | one payment, its webhooks and operators, the provider as environment | `services/monobank/*.py`, `backoffice/api/views/payment_views.py` |
| `OrderOperations` | what operators and tasks do to one order after checkout | `order_operations_service.py`, `order_supplier_service.py`, `returns_service.py` (dates of receipt), `nova_poshta/tracking_service.py`, `backoffice/api/views/order_actions_view.py` |
| `OneReceipt` | abstract specification: one fiscal document, of which the shop knows a state it has been in | |
| `FiscalReceipt` | the receipt of one order at Vchasno.Kasa; implements `OneReceipt` | `services/vchasno_kasa/*.py`, `commerce/tasks/vchasno_kasa.py`, `vchasno_kasa_views.py` |
| `SupplierImport` | the scheduled import of one supplier | `supplier_imports/services/scheduling/*.py`, `tasks/run_scheduled_supplier_pipeline.py`, `services/import_runner/*.py`, `supplier_price_workflow/lifecycle_actions/*.py`, `import_schedules_views.py` |
| `TecdocBatch` | the batch that binds products to TecDoc articles | `autodb_matching/batch.py`, `autodb/tasks.py` |
| `Sums` | lemmas about the sums of the community modules, for the proofs | |
| `<module>_proofs` | theorems about each of the modules above but the two abstract ones | |
| `MC...` | instances for TLC | |

In each module the definitions that begin with the comment "Mutant:" are plausible bugs. They are
used by nothing: each replaces the definition under it in a run of its own, to show that the
property it is paired with in `PROJECT.json` notices.

### Returns

`ret` holds the rows with their items, `lastNumber` the sequence, `event` the audit row the last
step inserted, and `work[w]` the request that worker `w` is serving with its copy of the row.
A handler is two actions. `Begin...` is the read and all validation against it (the row and its
prefetched items are taken as one read). `End...` is the commit: it writes the fields that the
handler names in `update_fields`, computed from the copy, over whatever the row has become, and
inserts the event. A refused request changes nothing and is no step. With one worker this is the
program with its requests one after another; with two, all overlaps.

| action | code |
|---|---|
| `BeginCreate`, `EndCreate` | `ReturnRequestCreateAPIView.post`; number from `generate_return_number` |
| `BeginTracking`, `EndTracking` | `ReturnRequestTrackingSubmitAPIView.post` |
| `BeginStatus`, `BeginApproval`, `EndStatus` | `BackofficeReturnStatusUpdateAPIView.post` with `_apply_approved_items`, `apply_return_status_transition`, `_fill_accepted_quantities_for_legacy_returns` |
| `BeginComment`, `EndComment` | the same view asked for the status the return has |
| `Delete` | `BackofficeReturnDeleteAPIView.delete` |

Three facts that the code keeps as timestamps are booleans: `tracked` (a parcel number was
submitted), `accepted`, `paid`. Whether returns are enabled, the fourteen days and the hour in
which a parcel number may be edited can refuse any request at any time, so they are not state. An
order with returns cannot be deleted (foreign keys with PROTECT), so orders do not move.

### Checkout

`submit_checkout` is one transaction. `tx[w]` is its progress: *waiting* for the row locks of the
cart, *locked*, *priced* (order and items built, invisible to others), *redeemed* (promo row
locked and counted), and the commit. Which locks are held follows from the step. `Refuse` is a
ValidationError, `Crash` any other end before the commit: both leave nothing. Changes of cart rows
are single statements that wait for the row's lock and for no other. `MarketMoves` is all of
pricing and imports: price, cost and stock of a product change between any two steps.

Rows are locked in one statement in the order of their creation, so that taking all locks in one
step loses no behaviour. A failed Monobank invoice leaves the checkout successful; that failure is
a state of the payment and so is left to `MonobankPayment`. A LiqPay failure is a `Crash`. Promo codes for
the delivery fee are always refused because the fee is zero; they are not in the model. A deleted
order takes its redemption with it and does not give the use back.

`OrderPlacement` has the same `cart`, `order` and `used` and none of the rest. The refinement
mapping is the identity on these: every step of `Checkout` is a `ChangeCart`, `Place` or `Delete`
of `OrderPlacement` or leaves them alone. `Place` says that each line of the order has the
quantity of the cart row *at that instant* or is missing: rows added after the locking are
emptied with the cart and not ordered, as the code has it.

### MonobankPayment

`payment` is the row (invoice id, status, `provider_modified_at`), `invoice` what the provider
has, `webhook` the notifications it still tries to deliver, `clock` gives every change at the
provider a date of its own. Webhooks and operators' requests read the row, possibly call the
provider (`Ask`, `ProviderActs`, `Remove`, `Create` are the moments at which the provider acts),
and write what they decided on the row they read. A notification may be delivered at any later
time, in any order, again after it was applied (the answer may be lost), and is refused as long as
no payment carries its invoice. `CallFails` is a timeout or an error, before or after the provider
acted.

The provider is not in the repository. Its part assumes what the code assumes: statuses move
along the lifecycle of an invoice (`Moves`), an answer is the present state, and a later change has
a later `modifiedDate` (two changes in one second would be indistinguishable to the guard, which
drops equal dates), and the server's clock, from which a creation or a removal takes its date,
is the provider's clock. Cancelling part of the amount leaves the invoice paid. The amounts, the
currency and the deletion of the order with its payment are left out.

### OrderOperations

`order` is the row (status, whether a cancellation reason and a date of receipt are set, the GPL
orders named in the notes), `item` the procurement statuses, `event` the status in the last
event of the history, `placed` the orders at GPL and `answered` those an operator was told of.
`work[w]` is a request with the columns of its copy it will still use. All handlers run in a
transaction and none locks what it reads: `Begin...` is the read with the validation. The row
lock comes with the first UPDATE, and its place in the code matters:

| action | code |
|---|---|
| `BeginStatus`, `EndStatus` | `set_status` and the handlers that call it (confirm, ready, shipped, completed, reset to new) |
| `Cancelling`, `EndCancel` | `set_status` to "cancelled": the order first, then its items |
| `BeginAwait`, `ReadItems`, `LockItems`, `EndAwait` | `mark_awaiting_procurement`: the items first, then the order |
| `BeginReserve`, `LockItems`, `EndReserve` | `reserve_items` with `_recalculate_order_status_from_items` |
| `BeginDelete`, `Deleting`, `EndDelete` | `delete_order` |
| `BeginSupply`, `PlaceSupply`, `BeginUnsupply`, `EndSupply` | `create_gpl_order`, `cancel_gpl_order`; GPL may place the order and the answer, or the note, be lost |
| `BeginTrack`, `EndTrack` | the tracking task and `ensure_order_received_from_tracking` |
| `Rollback` | any error, a crash, or the victim that PostgreSQL picks when two requests wait for each other |

The bulk actions call the same handlers for one order after another inside one transaction.
`set_supplier_for_item` touches no modelled column. Which stock a reservation finds is free
(`Found`), because imports move it. `overlapped` becomes true when a request commits on a
copy that has become out of date: some properties hold whatever overlaps, others only before
that, and each says which. Among the first is that a completed order has a date of receipt: the
request that completes it and the tracking decide whether to set it on copies.

### OneReceipt and FiscalReceipt

`OneReceipt` is a document that is registered at most once and then fiscalized or given up, and a
reader who learns a state it has been in, or that there is none. `FiscalReceipt` has the row
of the receipt (`row`), the documents at the service by their `external_order_id` (`docs`),
the `shift`, and a request per worker. No transaction spans a request, so that every stretch
between two calls to the database or the service is an action:

| action | code |
|---|---|
| `BeginIssue`, `AutoOpen`, `GetRow`, `CreateRow` | `issue_order_receipt` up to the request: the shift is opened if it is closed, the row found or inserted with a new id |
| `BeginSync`, `ReadRow`, `List`, `NotListed` | `sync_order_receipt`: the latest page of the service's orders |
| `BeginTask`, `Task` | `issue_or_sync_order_receipt`, queued when the order is completed |
| `Accept`, `AnswerOddly`, `Fail` | the answers of `create_order`; a 2xx answer that is no JSON object of an order counts as success |
| `Apply`, `StoreError` | `_apply_provider_payload`, `_store_receipt_error`: columns of the copy saved over the row |
| `Drop` | the process dies, or a read times out (no `URLError`, so it is not stored) |
| `Conclude`, `SetShift` | the service; the shift buttons |

The mapping takes the documents to one (`Document`; "twice" is no state of `OneReceipt`) and the
status code of the row to what is known. One assumption carries it, and the code makes it too: an
order sent again under an `external_order_id` the service knows is the same document. The
deletion of the order, which deletes the row, is left out.

### SupplierImport

One supplier. `due` says that a moment of its schedule has come since the source last started,
`dispatched` that the dispatch lock of that moment is in the cache, `lock` who holds the pipeline
lock, `running` whose runs are RUNNING, `shelf` the price lists that are downloaded and not imported,
`passed` those of them that are older than the prices in the offers.

| action | code |
|---|---|
| `MomentComes`, `Dispatch`, `DispatchCut`, `DispatchWithoutCache` | `dispatch_due_sources`: as it is, cut off after its lock, with a cache that does not answer |
| `CloseStale` | `close_stale_running_runs`, after 180 minutes |
| `RunNow`, `RunInline` | `ImportScheduleRunAPIView.post`, asynchronous and not |
| `TakeTask`, `Release` | `run_scheduled_supplier_pipeline_task`: its lock, its `finally` |
| `Choose`, `Download` | the pipeline: a list that waits is reused, or one is requested and downloaded |
| `StartRun`, `Persist`, `EndRun`, `Mark` | `run_source`, and marking the list imported |
| `Fail`, `Crash` | an exception; a process that is killed |
| `DispatchLockLapses`, `PipelineLockLapses` | times to live in the cache |
| `OperatorDownloads`, `OperatorStartsRun`, `OperatorEndsRun` | the price list pages |

A moment that was missed stays due (`schedule_catch_up_enabled`, the default; a source without it
meets only what it can meet within the minute). There is no clock. What durations decide is said
by who can be gone: the pipeline lock outlives every task, because Celery kills a task after the
150 minutes for which the lock lasts (`config/settings/base.py:263-280`), and a run that is 180
minutes old has no task. A pipeline run inside a request (`RunInline`) has no such limit and is
assumed to end in time; so is the release of the lock, whose read, comparison and deletion are
three calls that only an expired lock could get between. Publishing and reindexing after the
import, and deleting price lists, are left out. `disturbed` becomes true when the cache fails or
operators touch the lists.

### TecdocBatch

One of the two run types. `row` holds the runs: their status, the id of their task in
`summary_json`, and how old the heartbeat is; `task` the Celery tasks with the id in *their* copy
of the summary; `view` the requests.

| action | code |
|---|---|
| `Look` | `_active_batch_run`, at the head of each request (run, stop, state) |
| `Seen`, `Unseen` | the inspection of the workers for the task |
| `Resume`, `SaveResume` | `_try_resume_orphaned_run` |
| `Close` | `_close_stale_run` |
| `Create`, `Send`, `Save`, `Abort` | `_run_batch`: the row, `apply_async`, the id saved |
| `GiveUp` | `apply_async` of a resume fails (taken when no id is left) |
| `Stop` | `_stop_batch`: the task that the summary names is revoked |
| `Take`, `Beat`, `Finish`, `Die` | the task: start, progress, end, kill |
| `GrowQuiet`, `GrowStale` | a heartbeat older than 180 seconds, a row older than 15 minutes |

Requests overlap as they like, and a task may start before its id is saved: neither is a mishap.
`mishaps` counts what the code does not guard against; each action names its own:

1. a request closes, stops or resumes a run that is not as it read it (`Misled`): it has ended
   or names another task, another request is about to send it a task or to save one's id, or a
   task of it is `Unaware`, because it started before its id was saved and writes the old one back;
2. a run is created although one has appeared since the request looked (`Create`);
3. a worker does not answer within 0.8 seconds, or the task is still in the broker, so that a
   live task is taken for lost (`Unseen`);
4. a row is too old while its task lives (`Look`);
5. a request ends between sending the task and saving its id (`Abort`);
6. a task starts although it was revoked (`Take`).

`OneBatch` and `Stoppable` hold until the first of them, under every overlap and early start before
it. The list cannot be shortened: if any of these six, or any of the four cases of the first, is not
counted, TLC finds `OneBatch` violated. `EndedStays` holds with all of them: a run that was stopped or
closed comes back only through the tasks that waited in the broker and the requests that were deciding
at that moment, once through each. `NoRunIsForgotten` holds with them too. What the task does to
products is left out.

## Runs

| run | instance | shows |
|---|---|---|
| `returns_concurrent` | 2 workers, 2 returns, 1 item of quantity 1, symmetry; 309k states | unique numbers, paid only after a parcel, approved within requested, under all overlaps |
| `returns_serial` | 1 worker, 3 returns (1 legacy), 2 items of quantity 2 and 1, one of them free; 512k states | reserved within ordered, money matches lines, events explain statuses, refunded is final, one request after another |
| `returns_overreturn` | as `returns_concurrent`, violation | two overlapping creations return an item twice |
| `returns_refunded_final` | as `returns_concurrent`, violation | an overlapping transition takes a refunded return out of "refunded" |
| `checkout` | 2 workers, 1 customer, 2 products, 2 promo codes (own, a stranger's), 2 orders, 3 market states; 263k states | locked rows stand, promo accounting, discount within markup, refinement of `OrderPlacement`, every checkout ends |
| `monobank_overlap` | 2 workers, 2 invoices, 4 changes at the provider, symmetry; 54k states | the guard never locks out the present answer; paid means collected |
| `monobank_serial` | 1 worker, 2 invoices, 5 changes; 21k states | never backwards; eventually agrees |
| `monobank_recreate` | 1 worker, a second creation allowed, violation | a failed second creation leaves a status that refresh cannot repair |
| `order_operations` | 2 workers, 1 item, 1 GPL order, symmetry; 932k states | completed means received, the reason of a cancellation, events name the status, GPL orders noted, nothing delivered lost |
| `fiscal_receipt` | 2 workers, 2 ids; 62k states | refinement of `OneReceipt`; a shown receipt is only withdrawn by an overtaken request; asking again registers it |
| `supplier_import` | 2 workers, 2 lists, a queue of 1; 126k states | one pipeline, nothing old waits, every moment is met |
| `tecdoc_batch` | 2 requests, 2 runs, 2 tasks, 1 mishap; 737k states | one batch under overlap, it can be stopped, an ended run comes back only through what was under way, no run is forgotten |

**Why the bounds are enough.** The races of `Returns` need two requests at once on one return, or
two creations for one item; a third worker adds a third stale copy, which the theorems cover for
the properties that hold. A third return in the serial run lets a legacy row, a cancelled
one and a new one claim the same item; the free item makes a line change in quantity and not in
money, which decides whether it is saved. In `Checkout`, one customer with two workers is the
double submission, two products let a row be added while others are locked, and the offers have a
markup of 1 that half a percentage rounds, a product under its cost and one off the market. Two
orders suffice for a code that may be used once. A customer's cart meets another's only in the
promo row, and a promo code belongs to one customer: the second customer is the owner of the
second code. In `MonobankPayment` four changes are creation, processing, hold and decision, and
five let a collected payment be reversed; the second invoice is the one that a lost answer leaves
behind.

In `OrderOperations` two requests are every pair of handlers that can overtake one another; one
item is enough for the opposite lock orders, because a request locks a set of items at once.
In `FiscalReceipt` the second id is the one that a second document would have. In `SupplierImport`
two lists are an old one and a newer one, two processes are a pipeline and one that wrongly starts
beside it, and a queue of one is filled again as soon as it is emptied. In `TecdocBatch` the second
run is the one started after, or beside, the first, and one mishap is enough to lose a task or an id.
Two requests and two tasks are a resume beside a stop, a close or another resume, with the
task of each. After the last mishap requests come one at a time and tasks do not start early, which
bounds the states that only the liveness property is about; the theorem about
`EndedStays` is for any bound. When both ids are in use a resume gives up, as when the broker cannot be reached.

**Deadlock** is checked in `fiscal_receipt` and `supplier_import`. Elsewhere it is not, because ids
and clocks are bounded (and a deleted order ends `OrderOperations`), so that the model may stop. That
nobody waits for ever in a checkout is `EveryCheckoutEnds`; the deadlock of the row locks in
`OrderOperations` is real and PostgreSQL ends it (`Rollback`).

**Fairness.** `Checkout`: a step of the transaction that can be taken is taken (`WF` of
`Proceed`), because the only thing awaited between locks is a provider behind a client with a
timeout, and PostgreSQL grants row locks to those who wait in turn (`SF` of `LockCart`). Crashes
are not fair; nor is anything the customer or the market does. `MonobankPayment`: a request that
waits for the provider ends (`WF` of `Ends`; the client's timeout, `client.py`), and the provider
repeats the notification of the invoice's last state until the server has had it (`SF` of
`DeliverLatest`). Older notifications, operators and customers owe nothing. `FiscalReceipt`: a step
of requests that are made again and again is not cut off each time (`SF` of each step), which is what
"the operator keeps pressing and the service is up" means; `Apply` and the service's decision
need none. `SupplierImport`: the beat comes every minute (`SF` of `Dispatch`, `WF` of `CloseStale`), keys
of the cache lapse, a pipeline that can go on does (`WF` of `Proceed`), and pipelines that are started
over and over do not fail at the same step for ever (`SF` of `Choose`, `Download`, `StartRun`).
`TecdocBatch`: the page asks for the state as long as it is open (`SF` of that `Look`), each request is
served to its end (`WF` of `Serve`), time passes (`WF`); the tasks owe nothing, they may hang or die.

## What the runs found

- **Over-return** (`returns_overreturn`). `build_returnable_order_items` reads the reserved
  quantity with no lock on the order, and nothing repeats the check at the insert.
- **Refunded is not final** (`returns_refunded_final`). The status view takes a stale row through
  `ALLOWED_STATUS_TRANSITIONS` and overwrites the status: "accepted" read, refunded by a colleague,
  "cancelled" saved. What holds all the same, and is proved, is that money was only paid for
  a parcel sent and taken in.
- **Refresh that refreshes nothing** (`monobank_recreate`). A failed second `create_invoice` writes
  "failure" and keeps the id and the date of the first invoice; the guard then drops the answers to
  later refreshes while the frontend reports success.

Two limits of the code are visible in how the properties are stated. With overlapping webhooks a
payment *can* go back to an earlier status (the second one checks its date against a row read
before the first one wrote); if both notifications are consumed, only a refresh repairs it.
`NeverBackwards` and `EventuallyAgrees` are therefore properties of requests served in turn, and
`NeverStuck`, that a refresh always repairs, is what holds under overlap. And overlapping
approvals may leave an amount that is not the sum of its lines, so `MoneyMatchesLines` is serial too.
That a creation of an invoice comes first and alone (`Recreates = FALSE`) is an assumption on the
operators: the button is not guarded.

What the newer models showed about the code, none of it contradicted by a document, and so stated
as conditions of the properties and not as violations:

- **Orders.** A request that was overtaken can delete an order that has been shipped meanwhile; a
  reservation decided on a "new" order takes a cancelled one up again and leaves the reason of the
  cancellation; a status set on an old copy erases the GPL notes written meanwhile. If the process dies between
  GPL's answer and the note, nobody sees that the goods are ordered. `reserve_items` asks for no status.
- **Receipts.** A save over a newer row can withdraw a receipt that was shown, with its link. A receipt
  that the service gave up is never issued again, and the task of a completed order never creates a
  document when the row exists: only the button does.
- **Imports.** The source counts as started before its import is done, so that a failed import is not repeated before
  the next moment. A list is marked imported even if its run failed. A list that always raises
  is reused at every moment until it is cleaned up. Of two lists downloaded by hand the newer may be
  imported first and the older one then takes the prices back. Two tasks queued for a moment both run.
  Without a cache every lock is granted.
- **TecDoc batch.** An `inspect` that nobody answers in time says "no task" rather than "unknown"
  (the comment at `batch.py:385` is about exceptions only), so a live task can get a second one beside it.
  The heartbeat stays old after a resume, and each further poll may queue another task while the first is in the
  broker. A run whose `apply_async` fails has no task and blocks the button for fifteen minutes. A stop
  that overlaps a resume is undone when the new task starts; a second stop revokes it only if its id
  is the one that the row was left with.

## Proofs

Seven modules of theorems, `<module>_proofs`, hold for every value of the constants under the
module's own assumption (`ReturnsAssumption`, ...: finite sets, positive quantities, names that
differ; TLC evaluates each in its runs). Every invariant, action property and refinement that a
passing run checks is a theorem; what is left to TLC is listed at the end. In each module an
inductive invariant `IInv` (also checked by TLC on the instance of the run) has the three
facts: `Init` establishes it, every step keeps it, it implies the properties. A step is described once
in a lemma of its own (what it writes and leaves alone), and the conjuncts of `IInv` are proved
from that description.

| module | theorems |
|---|---|
| `Returns_proofs` | `TypesAlways`, `NumbersUnique`, `RefundsBacked`, `ApprovalsBounded`; for one worker `ClaimsStayWithinOrder`, `MoneyAddsUp`, `EventsTellTheStory`, `RefundsStay` |
| `Checkout_proofs` | `TypesAlways`, `RowsStandWhileLocked`, `PromosCounted`, `DiscountsStayInMarkup`, `CheckoutIsOneStep` (refinement of `OrderPlacement`) |
| `MonobankPayment_proofs` | `TypesAlways`; unless invoices are created again `RefreshRepairs`, `PaidMeansCollected`; then for one worker `StatusesGoForward` |
| `OrderOperations_proofs` | `TypesAlways`, `CompletedOrdersAreReceived`, `ReasonsTellCancelled`, `EventsTellStatus`, `NotesNameSupplierOrders`, `DeliveredOrdersAreKept` |
| `FiscalReceipt_proofs` | `TypesAlways`, `OneReceiptImplemented` (refinement of `OneReceipt`), `ShownReceiptsStay` |
| `SupplierImport_proofs` | `TypesAlways`, `OnePipelineAtATime`, `NoPricesTakenBack` |
| `TecdocBatch_proofs` | `TypesAlways`, `RevivalsRunOut`, `NothingComesBack` with all mishaps; `OneBatchAtATime`, `WorkCanBeStopped` until the first |

**Hypotheses.** A theorem that assumes more than its module says so in its statement, and the run
of its property has the same restriction: one worker (`Serial`) where the overlapping case is
refuted by a run or by the discussion above, and `~Recreates` where a second creation breaks the
property (`monobank_recreate`). Properties that speak of undisturbed behaviours (`overlapped`,
`disturbed`, `mishaps`) carry that condition themselves.

**Returns.** None of the properties is inductive. That a refund was preceded by an acceptance
depends on the status it was decided on, and that status was read before other requests wrote.
`RowInv`: what a row records keeps up with its status (a shipped status has a parcel number, a
taken-in one an acceptance). `WorkInv`: what a request in flight read remains true of *what the
row records*, however stale the status it read has become, because records are never taken back. A
commit then establishes `RowInv` from the stale copy alone. With one worker more is true
(`SerialInv`): the copy *is* the row, the quantities of a creation are available until its commit
(`FreshInv`), and lines add up (`MoneyInv`: an unrequested line carries no money, an
approved one its price, an accepted request has an approved line). An approval saves only the lines that differ
from the copy; that the amount, which is computed from all of them, is still their sum is
`ApproveMoney`. Claims grow by a creation only (`ReservedGrows`) and otherwise shrink
(`ReservedShrinks`). A legacy row is assumed to have a line, as every request is created with one.

**Checkout.** What a transaction read stays true because of the locks it holds: `Sound` says what
each step has read and computed (the items are the rows of the cart or missing, the draft is made of them,
the count is one more than the uses), `Apart` that two transactions never hold the rows of one
customer, or one promo code, together. The accounting is over a set of orders whose size changes
with commits and deletions. That a discount stays within the markup is arithmetic with division over
sums of lines: each line's part of the markup is bounded, then the sums (`SumMonotone`, `SumStrict`).
The refinement needs `Sound`: at the commit the rows under the lock are the rows of that instant.

**MonobankPayment.** Everything that travels (notifications, answers, rows read) was said by the provider:
`Known` says that it is the present state of its invoice or has an earlier date, and that money
once collected stays collected or reversed. `BaseInv` holds whatever operators do and gives the
types. Without a second creation the payment carries one invoice for ever (`OneInvoice`), so that a
date on the row and a date in an answer are of the same invoice and the guard compares like with
like. With one worker the row is still the copy, and a removal is later than anything the row
knows (`SeenIsRow`).

**OrderOperations.** `CopyOfReceived` is why a completed order has a date of receipt on stale
copies: a date that a copy shows is never taken back, so whoever skips setting it is right to.
`CopyIsFresh` lists for each handler the columns that are as it read them while nobody has overtaken it; the
properties with "unless overtaken" follow at its commit.

**FiscalReceipt.** `OneKey`: documents are registered only under the key that the row got when it was
inserted. `RowIsTrue` and `Fits`: the row and every answer in flight name a state that the
document has been in; states only go forward, so a late answer stays true. Each step then maps to
`Register`, `Conclude`, `Learn` of `OneReceipt` or to a stutter.

**SupplierImport.** While undisturbed, whoever is at work holds the lock, so that two at work are one
(`LockInv`), and at most one list waits (`WaitInv`): a list that waits is taken before another is asked for.

**TecdocBatch.** Nothing locks the run. `RevivalsRunOut` needs only the types: no step adds to the tasks
that wait for an ended run, or to the requests that decide about it, except that a request which
decides becomes the task it sends, and a revival is a task that waited and now works. `NothingComesBack`
follows: with none of either a stop is final. For `OneBatch` and `Stoppable` the invariant has to speak of
requests that overlap: one run is running and one task is wanted (`OneRun`, `OneTask`); that task is named
by its run, or its request is about to save it, or it is unaware and then writes back an id that nobody
has any more (`TasksKnown`); no running run names a revoked task (`RowsKnow`); of the requests about to
send or to save, one at most is of a running run, and no other task is wanted beside its own
(`SendersAlone`); and what a request has found gone is gone (`Orphans`). A request that is not misled
then knows all the work there is (`NotMisled`), however many others overlap it.

**Sums.** The sums of the community modules are folds defined by recursion over subsets. `Sums`
proves that the recursion has one solution and what it is worth, without induction over an
operator: a smallest set for which a claim fails has a member, and without that member the claim
holds. From this: a sum of numbers is a number, any member can be taken out, sums are monotone, fewer
members sum to less, and one changed value changes the sum by as much.

**Only model-checked:** the liveness properties `EveryCheckoutEnds`, `EventuallyAgrees`,
`AskingRegisters`, `MomentIsMet` and `NoRunIsForgotten`. They rest on fairness, hence on `ENABLED`, which
the prover does not handle. The theorems are of each module's `Spec` and use its initial states and
steps only; the `FairSpec` of `Checkout` and `MonobankPayment` implies it.

## Not modelled

- Wording, notifications, realtime events and serialisation: nothing depends on them. Permissions and
  settings: they refuse requests, and the models let requests be refused or not made.
- Parsing and matching of price lists, pricing, catalog, AutoDB and UTR clones, search, SEO:
  computations whose result depends on data and not on an order of steps. They are most of the code's lines.
- LiqPay: the protocol of `MonobankPayment` with another guard, whose correctness depends on what three
  dates of the provider mean.
- Nova Poshta waybills: a lock in the cache around slow calls; whether it lasts long enough is a
  matter of two durations.
- Database backups: the shape of `SupplierImport` (a dispatch and a run lock), with files as its only effect.
- Support chat: counters and threads that are only shown.
- The estimate of the AutoDB quota: it tunes a speed.
- Checkout and payment together: an invoice left at the provider by a checkout that was rolled back
  is related to nothing in the code, so that no property could mention it.
- Frontend and deployment: the models let every request come at every time.

## Plan

Done: the seven components with their runs; the two abstract specifications; theorems for every safety
property and both refinements.

What could follow:

1. The safety facts behind the liveness properties, as theorems: for instance that a checkout that waits is
   never waiting in a circle, and that a moment that is due is never forgotten by the dispatcher.
2. More of the conditions "unless overtaken" and "undisturbed" split by cause, so that each theorem names
   the one event that breaks it.
3. The components that are `partly` modelled: waybills with their cache lock, and the composition of a
   checkout with the payment it leaves behind.
