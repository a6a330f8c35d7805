# TLA+ verification of contract-review-agent

This directory is a TLA+ development kept beside the contract review service in
`src/`. It models the parts of the program that carry state through concurrent
processes, callbacks, failures and retries, checks them with TLC on small instances,
and proves the most important facts with TLAPS for every size of the system.

## 1. The system

The service reviews contracts. An API process accepts a document, a Celery worker
runs the review, and people read the findings and decide on them in a browser
console. State lives in Redis (tasks), in the broker (messages), in files (results,
rule overlay, element catalogue), in process memory (model transport) and in the
console itself, a single page whose functions are suspended at every request.

| Component | State | Operations | Interacts with |
|---|---|---|---|
| Task store (`repositories/redis_task_store.py`) | task record; status, running, expiry and purge indexes; dispatch outbox; lock, fence, epoch; dead letters; stage events; idempotency keys | admit, attach input, acquire/release lease, mark running/succeeded/failed/expired, heartbeat, progress, requeue, delete, prune | every task process |
| Task service (`services/task_service.py`) | none of its own | create_task, queries, enqueue | store, file store, broker |
| Worker (`tasks/worker_tasks.py`) | lease token, heartbeat thread | execute one message | store, broker, review service |
| Reconciler (`tasks/reconcile_tasks.py`) | scanned tasks | requeue or close stale tasks, publish the outbox | store, broker |
| Cleanup (`tasks/cleanup_tasks.py`) | due tasks | expire, purge, prune | store, file store |
| Model transport (`services/model_transport.py`) | circuit breaker, concurrency gate | guarded call with retries | model services |
| Result store (`contract_review/store.py`, `services/review_result_store.py`) | artifact, revisions | save, append revision, load | review routes |
| Human review (`contract_review/pipeline.py`, `api/review_routes.py`) | run status, decisions | decide, finalise, attach a revision set | result store |
| Rule overlay (`services/rule_edits.py`) | overlay file, in-process lock | edit, switch, delete, propose, confirm | rules page, worker |
| Domain engine (`contract_review/*`) | none (functions of the document and the rules) | parse, retrieve, check rules, compare revisions, audit, report | pipeline |
| Console: session (`static/js/app.js`) | address, token, header name, health line | edit, save, reload, refresh health | every request |
| Console: task centre | `tasksState`, table, `detailTimer`, modal | filter, turn pages, open a task or its result, poll | task service |
| Console: review and draft pages | files, one review result, element form, overrides, comparison, dialogs | review, extract, fill in, credit check, compare | review routes |
| Console: element form and catalogue | catalogue, form, values | render, fill, collect, edit fields | element routes |
| Console: contract preview | attachments, object URL, preview | open, upload, draw | preview route |
| Console: result panels | merged items, panel, chosen verdict | merge, sort, show, select | review result |
| Console: rules page | rule list, pagers, form | list, edit, switch, confirm, delete, turn pages | rule overlay |

What is hard about it:

- **Concurrency.** Several workers, the heartbeat thread of each, overlapping
  reconcile rounds and the API all write the same record. A store method reads the
  record with GET, changes it in Python and writes it back with a script, so
  another process may act between the two. Rule edits and review revisions are
  read-modify-write on files. In the console every `await` is a gap: hosts, files
  and results captured before it may be gone after it.
- **Failure.** A worker, a reconcile round or an API process can be lost between
  any two commands; the broker redelivers unacknowledged messages; `apply_async`
  can raise although the message was taken; any request of the console may fail,
  also the second of two.
- **Time.** The lock has a TTL, the heartbeat a timeout, closed tasks an expiry, the
  breaker an open period, a place in the gate's queue a timeout; revisions are named
  after clocks.
- **Ordering.** A message, a heartbeat or an acknowledgement can arrive after the
  task has moved to another generation; answers to the console overtake each other.

What makes each component correct: a task has one writer at a time and its verdict
is final; the indexes agree with the records; lost work is recovered within the
retry limit and only then dead-lettered; one idempotency key stands for one task; a
breaker admits one probe and a gate gives back every slot; a review revision is
built on the version its author saw; a deleted rule does not return; what the console
shows belongs to what it stands beside, what it collects was filled in, and what it
starts (timers, object URLs, progress cards) ends.

## 2. Modules

| Module | Models |
|---|---|
| `TaskLifecycle` | abstract: the statuses of a task in the order its readers see them |
| `TaskLease` | execution of admitted tasks: lease scripts, worker, heartbeat thread, reconciler, dispatch outbox, enqueueing; implements `TaskLifecycle` |
| `TaskAdmission` | admission and retention: `create_task` with replay by key, pending limit and deferred input, and the cleanup rounds |
| `ModelTransport` | circuit breaker, concurrency gate and `post_json` |
| `ReviewStore` | revisions of a review result: decide, finalise, attach, append |
| `RuleEdits`, `RuleOverlay` | the edits of the rule library as operators; the overlay file and the threads that edit it |
| `RulesDesk`, `RulePack`, `Pager` | the rules page over `RuleEdits`; one rule pack with its two paged tables; paging arithmetic |
| `Ranks` | finite sets in an order (`Ranked`) and filtered lists (`Picked`) |
| `TaskList`, `TaskDetail` | the task centre: list (over `Pager`) and dialogs (over `TaskLifecycle`) |
| `ConsoleSession` | address, token, header name and health of the console |
| `ReviewDesk` | the review and draft pages with all their dialogs |
| `ElementFields` | element catalogue, its dialog and the form drawn from it |
| `ContractPreview` | the preview in the extraction dialog |
| `ReviewItems`, `ReviewPanels` | the merged list of a result; the four panels that show it |
| `MCTaskLease`, `MCTaskAdmission` | instances for TLC (symmetry) |
| `MCConsole`, `MCLibrary`, `MCProgress` | instances of the other modules for TLC, several to a run |
| `TaskLease_proofs`, `TaskAdmission_proofs`, `ModelTransport_proofs`, `ReviewStore_proofs` | theorems about the modules of those names |
| `Console_proofs` | theorems about `ConsoleSession`, `TaskList`, `TaskDetail`, `ReviewDesk`, `ElementFields` and `ContractPreview` |
| `Library_proofs` | theorems about `RuleOverlay`, `RulesDesk`, `RulePack`, `ReviewItems` and `ReviewPanels` |
| `MCConsole_proofs`, `MCLibrary_proofs` | the safety properties of the runs `console` and `library` as theorems |

How they compose: `TaskDetail` extends `TaskLifecycle` and uses it as its server, and
`TaskLease` implements `TaskLifecycle`, so what is shown of the dialogs holds on top of
the leases. `RuleOverlay` and `RulesDesk` extend `RuleEdits`: the first splits an edit
into the steps of its threads, the second takes it as one step and adds the page.
`RulePack` and `TaskList` extend `Pager`; `RulePack` and `ReviewItems` extend `Ranks`, and
`ReviewPanels` extends `ReviewItems`.

### TaskLease

State and code correspond as follows.

| Variables | Code |
|---|---|
| `task`, `statusSets`, `running`, `outbox` | the record and the Redis sets `TASK_STATUS`, `TASK_RUNNING_KEY`, `TASK_REQUEUE_DISPATCH_KEY` |
| `lock`, `lockTtl`, `fence`, `epoch` | the lock key with its TTL, the fence and epoch keys (0: no key) |
| `dlq`, `closings` | dead letters and terminal stage events per task |
| `queue` | messages in the broker, per task (external) |
| `api`, `apiSnap` | the handler of `create_task` from `_enqueue_task` on |
| `pc`, `job`, `token`, `snap`, `step`, `outcome`, `deadLetter` | the locals of `execute_contract_review_task` |
| `beating`, `beats` | the heartbeat thread, and heartbeats between their GET and their write |
| `rpc`, `rstale`, `rcur`, `rtodo` | the locals of `reconcile_stale_tasks` and `_dispatch_requeued_tasks` |

Every Lua script and every pipeline is one step. A method that reads with GET and
then evaluates a script is two steps (`MarkRunningRead`/`MarkRunningWrite`,
`ProgressRead`/`ProgressWrite`, `CloseRead`/`CloseWrite`, `BeatRead`/`BeatWrite`,
`RecoverRead`/`RequeueWrite` or `LostWrite`); `mark_pending_failed` is three (GET,
EXISTS on the lock, write).

Abstractions:

- A record keeps status, lease token, retry count and the age of `heartbeat_at`;
  `stage` is QUEUED exactly when the status is PENDING. The worker's result and the
  progress are not needed: losing the SUCCEEDED status is losing the result.
- Timestamps become ages that saturate just above `HeartbeatTimeout`. The time a
  method stamps is taken just before its GET; the model takes both together.
- The heartbeat key is written and never read, so it is left out.
- `execute_contract_review_task`'s first GET and `acquire_lease` are one step with
  the delivery of the message: nothing visible happens before the script.
- A reconcile round that finds nothing has no effect and is not a step.
- Redis and the metrics calls do not raise. Exceptions come from `load_manifest`
  and from the task handler, where the code expects them.
- The expiry entries written after a verdict belong to `TaskAdmission`.

### TaskAdmission

| Variables | Code |
|---|---|
| `rec`, `index`, `pending` | the record, `TASK_INDEX_KEY`, the PENDING status set |
| `idem`, `idemTtl` | the idempotency keys and their TTL |
| `age` | time since admission, up to the key TTL (for the properties) |
| `expiry`, `purge` | `TASK_EXPIRY_KEY`, `TASK_PURGE_KEY`, as remaining ticks |
| `dirAge` | the input directory of each task and the age of its files |
| `queue`, `outbox` | broker messages, `TASK_REQUEUE_DISPATCH_KEY` |
| `closing`, `clearing` | `_schedule_expiry` and `_clear_lifecycle` calls still to come |
| `pc`, `key`, `found`, `snap` | the locals of `create_task` and of the store method it is in |
| `phase`, `cpc`, `todo`, `cur`, `csnap`, `due` | the locals of `cleanup_expired_tasks` and of the store method it is in |
| `dropped` | history: keys a delete took away from another task |

A request that wins admission gets a fresh id; the model uses the request as the id of
its task. The steps of `create_task` follow the code: replay lookup (`Find`,
`FindGet`), early limit (`Count`), admission script (`AdmitReplays`, `AdmitFull`,
`AdmitCreates`), input (`Persist`, `PersistRaises`), binding (`AttachGet`,
`AttachWrite`), publishing (`Enqueue`, `EnqueueRaises`), and the failure path
(`CleanupInput`, `FailGet`, `FailWrite`, `FailSchedule`). Cleanup goes through its
phases: expire (`ExpireGet` to `SchedulePurge`), purge (`PurgeFiles`, `DeleteGet`,
`DeleteWrite`), orphaned directories and stale metadata.

Abstractions:

- Execution is `Start`, `Close`, `Requeue` and the lifecycle commands after them. Each
  is one step, which is justified as long as only execution writes a started task. Two
  races break that, both examined in `TaskLease` (findings 2 and 3 below) and left out
  here: a publish that raises although the broker took the message, and a heartbeat
  that overwrites a verdict.
- The GET and the EXISTS of `mark_pending_failed` are one step.
- A phase of a cleanup round that finds nothing is not a step; the batch limit is above
  the number of tasks. `prune_dead_letters` is left out.
- A tick is a unit of the TTLs. Locks and heartbeats live much shorter and are not seen.
- `MaxFaults` bounds, over the kinds in `FaultKinds`: a lost API process (`api`), a
  Redis call that raises after it took effect (`redis`), a directory that is not
  removed (`rmtree`), a lost worker or reconcile round (`worker`).

### TaskLifecycle

`status` and `retry` of every task, and one action per change a reader of
`GET /tasks/{id}` can see. `Reopen` is there because the code does it (finding 2).
`TaskLease` implements it with `task[t].status` and `retry_count` as they are, except
that a task whose publish raised counts as FAILED from that moment, as its creator was
told: `mark_pending_failed` then writes a record that a worker may already have changed
(finding 3), and this is the only place where a record does not follow the life cycle.
`Admit`, `Expire` and `Purge` are steps of `TaskAdmission`, which is not mapped to it.

### ModelTransport

Breaker (`state`, `failures`, `probe`, `generation`, `cooled`), gate (`limit`, `free`,
`active`, `waiting`) and, per thread, the position in `post_json`, its permit and its
attempt. `update_policy` replaces the semaphore for another limit and, where
`TimeoutChanges`, for another queue timeout alone. Taking a slot, counting it, uncounting it and releasing it are separate steps,
as they are separate critical sections in the code. Time is reduced to events that may
come at any moment: the end of the open period, the queue timeout, the answer. Left
out: the adaptive controller, `Retry-After`, back-off times.

### ReviewStore

`revisions` maps times to results; `lock` is `.append.lock`; each request has loaded a
result (`seen`) and made a new one (`made`). Loading, making, entering the lock,
comparing and committing are steps of their own; a process may stop between any two.
The rename and the answer are one step (`Commit`): a request that stops between them
has committed, which for the store is the same as being done; only its client does not
hear of it. Clocks of different processes differ and go back; a revision is named later than
the newest there is. A result is who decided what and who finalised, so that two
results differ exactly as their fingerprints do. Left out: writing the base artifact,
replay, and the stages of a run before HUMAN_REVIEW.

### RuleEdits, RuleOverlay, RulesDesk

An overlay is the functions `custom` and `candidates` and the sets `disabled` and
`removed`; of a rule the level and the method are told apart, because an edit through
the console changes the level. `RuleOverlay` has the API threads and a worker thread,
one lock per process, and the one temporary file all processes share. A write is
`_write_overlay` in its steps: `OpenTmp` empties the temporary file, `WriteText` (after
any number of `WritePart`) fills it, `Replace` renames whatever file has the temporary
name by then. `pc` tells under which name the file a thread has opened is known: the
temporary one, the final one after another process has renamed it, or none. A file holds
an overlay, `Cut` (nothing yet, or the beginning of one text) or `Torn` (pieces of two
texts); the last two are `Broken`, and `load_overlay` raises on them, so that nobody can
edit until a text is whole again. That pieces of two texts might by chance be JSON is left
out. A process that stops is one whose threads take no more steps; its restart with a new
lock is left out. `ideal` is the overlay if the edits that returned had run one by one.
`RulesDesk` has
the list and the form of the page; an answer carries the overlay it was made from.

### RulePack, Pager

`GroupRulesByTopic`, `FlattenScoreRows` and `RegroupScoreRows` are operators over the
sequence of topics of a pack, one for each function of the code. The code collects into
lists; here a list is a set of places in an order: the cells (group, place in the group)
in the order `Earlier` are the rows, the places where a group begins are the cells of a
page (`Heads`). The order is the one in which the loops meet them. `pager` keeps page and
size of both tables through reloads. `TopicsAssumption` says that no topic is listed
twice, as in `RULE_TOPICS` (`app.js:2408`) and `rule_edits.py:565-570`.

### TaskList, TaskDetail

`TaskList` numbers the pages rendered: an answer is written into the table it was sent
from, seen or not. `TaskDetail` numbers the calls of `openTaskDetail`: each leaves a
closure with a body of its own; all share `detailTimer`; `intervals` counts the
intervals alive in the browser. An answer carries the status of the moment it was made.

### ReviewDesk

The server is the number of reviews done and the files of each; a result, a form and
the values typed into it are the number of the review they come from. Each function
that waits is a request in flight with the host it captured (`at`) and the function it
returns to (`for`): `SyncDone`, `DraftReviewed`, `FillDone`, `ExtractDone`,
`CreditReviewed`, `CreditDone`, `ProjectDone`, `CompareDone`, with one action per
failure path. Package ids and the review context travel with the files.

### ElementFields, ContractPreview

`ElementFields` has the catalogue on the server with the gate behind its edits, the
copy in the console, the table in the dialog and the inputs of the form. It ends an
extraction in one step; the requests of an extraction are in `ReviewDesk`.
`ContractPreview` numbers the object URLs; a file the browser cannot show is uploaded
and its answer written into the one preview state.

### ReviewItems, ReviewPanels

The merge of findings with judgements of the model, the sort by severity and the cards
of the panels are operators; showing a result, choosing a panel, a verdict or a row are
actions. Texts are reduced to titles. The links of a row are left out: `openControl`
does nothing. Nothing calls the three card builders at `app.js:1460-1562`. `filter` is
`Picked`, the items at a set of places in their order.

### Parts of one run

`MCConsole`, `MCLibrary` and `MCProgress` check several modules in one run. `Init` picks
a part, the value of `part` never changes, and the part then runs by itself. Instances
share variables of the same name; the variables of the parts not picked are 0
(`Unused`). A module occurs twice where its user may be impatient or not: with
`Patient` the user waits for every answer. The conditions on constants that a module
states (`...Assumption`) are ASSUMEd by these modules for each instance.

The parts of `MCConsole` and `MCLibrary` are instances of the proof modules, which extend
or instantiate the models: what is run there is the model, and its theorems can be cited
for it. `MCProgress` instantiates the models themselves and adds fairness; it checks
liveness only.

### Runs

| Run | Instance | Checks |
|---|---|---|
| `task_lease_safety` | 1 task, 2 workers, 1 reconciler, timeout 1 tick, 1 retry, 1 progress call, 1 fault | type, fencing invariant, and the safety properties below |
| `task_lease_liveness` | same with 1 worker, fairness | `StaleIsRecovered`, `IntentReachesBroker`, `ImplementsLifecycle` |
| `task_lease_heartbeat` | timeout 2, no fault | violated: `HeartbeatKeepsLease` |
| `task_lease_result_lost` | 1 worker, no fault | violated: `ResultPersisted` |
| `task_lease_pending_failed` | 1 worker, 1 fault | violated: `PendingFailedOnlyUnleased` |
| `task_admission` | 2 requests, 1 key, limit 1, 1 cleanup process, TTLs of 1 tick, 1 recovery, 1 fault (`api`, `redis`, `worker`) | type, admission invariant, and the safety properties below |
| `task_retention` | 1 request, 2 cleanup processes, 2 faults (`rmtree`), fairness | `ClosedIsReclaimed`, `ReservationResolved` |
| `task_admission_key_dropped` | 3 requests, no fault | violated: `OneTaskPerKey` |
| `task_retention_late_clear` | 1 request, 1 recovery, no fault | violated: `ClosedIsScheduled` |
| `console` | see below | task dialogs, task list, connection, preview, review and draft pages, element form |
| `library` | see below | rule overlay, rules page, rule tables, result panels, review revisions, model transport |
| `progress` | see below, fairness | `HealthFollowsBase`, `RefreshSettles`, `WaitsEnd` |

- `RunningOwnsFence`: a RUNNING record carries the current generation.
- `SingleWriter`: at most one worker passes the script's check for a task.
- `StaleMeansExpired`: what `stale_running` reports has no live lock any more.
- `PendingIndexExact`: the PENDING index is exactly the PENDING records, also when
  `mark_pending_failed` races a worker.
- `RetriesBounded`: no task is retried more than `TASK_MAX_RETRIES` times.
- `DeadLetterHasVerdict`: a dead letter stands for a recorded verdict.
- `LiveLeaseKeepsFence`: no step opens a generation under a live lock.
- `LostVerdictFinal`: a task closed as lost stays closed.
- `StaleIsRecovered`: a stale RUNNING task leaves RUNNING.
- `IntentReachesBroker`: a recovery intent reaches the broker or becomes pointless.
- `ImplementsLifecycle`: leases, late writes and recovery are steps of `TaskLifecycle`.
- `KeyNamesTask`: while its TTL runs, the key of an indexed task leads back to that
  task, unless the delete of an older task took it away (finding 4).
- `FreshPendingBounded`: tasks waiting for their first execution stay within the limit;
  recovered tasks come on top because `requeue` does not ask for admission.
- `InputKept`: a queued or running task has its input bound and on disk.
- `OnlyWinnerHoldsInput`: every input directory belongs to an indexed task.
- `ClosedIsReclaimed`: record, index entries, key and input of a closed task disappear.
- `ReservationResolved`: a reservation is executed or closed.
- `TimersAccounted`: the intervals alive are exactly the one `detailTimer` names, and it
  polls only for a body that says it refreshes itself.
- `PageShowsItsFiles` (user who waits): the result on the review page is of the files
  chosen.
- `DraftInStep`: the form drawn is the one whose values are collected, the values typed
  are of that form, and a progress card belongs to a request that still runs.
- `FieldsInStep`: what is collected is what was filled in last; for a user who waits,
  dialog and form follow the catalogue.
- `NothingHidden`: every finding and every judgement is a row once, under the verdict of
  its level, and no card or column hides a worse one.
- `OpensOnRows`: a result opens on rows if it has any, whatever verdict was chosen before.
- `StateShown`: for a user who waits, the rows are of the page and filter in `tasksState`,
  and that page exists; the address in use is the one its field shows.
- `PreviewExact`: no object URL leaks or is used after it is revoked; for a user who
  waits, the contract shown is the one named above it.
- `PermitsAccounted`: in half-open the probe mark is set exactly while one call holds the
  permit to probe; free slots and calls in a slot add up to the limit.
- `HealthFollowsBase`: in whatever order two services answer, header name and health line
  end up being those of the address in use.
- `RefreshSettles`: polling ends once the task has its final status, and no open dialog
  shows an earlier one for ever.
- `WaitsEnd`: skeleton rows, the opening of a contract and a probe of the breaker end.
- `OverlayExact`: in any order of the edits of two processes, a file that can be read
  lists no deleted rule and reviews with none, and no id is a candidate and a rule. Two
  processes can make it unreadable: see "what the runs found".
- `EditsKept`: the threads of one process lose no edit of each other.
- `ListCurrent` (user who waits): the list is the library, and the server refuses nothing
  the page offers.
- `PagesExact`: the page is in range and offered, every rule is on exactly one page, and
  the cells of a matrix page span exactly its rows.
- `ConfirmedIsKept`: what the server confirmed stays in the current result, what it
  refused is not there.
- `FinalIsFrozen`: after the final result the decisions are what they were.

Bounds. Tasks do not interact (every key is per task and a worker carries one
message), so one task is enough for the safety properties; two workers are the
smallest number for a stale and a current holder, and with one retry a task goes
through two generations of leases and a final recovery. `MaxFaults` bounds process
losses and uncertain publishes together; refused publishes, expiring locks, stalls of
any length and late heartbeats are not bounded. One progress call stands for the
three in the code; the heartbeat run uses two. `CHECK_DEADLOCK FALSE` in the
`TaskLease` runs: a system whose task is closed may stop.

In `task_admission` two requests are enough for every conflict over a key and over the
last place in the queue; with TTLs of one tick the key of the first task can expire
before, between and after its result and its purge, and the second request can come at
any of these times. Ticks are not bounded. The third request of
`task_admission_key_dropped` is the one that finds the key gone. In
`task_retention` the second cleanup process stands for an overlapping round; directories
are per task, so one task is enough.

Instances of the other runs. `console`: 2 files, 2 field keys and 2 requests in flight;
the pages with 7 clicks, 3 reviews and 1 failing request, or with a user who waits and
8 clicks and 2 reviews; the element form with 6 clicks, or 8 for a user who waits; 2
dialogs of a task with 1 failing request; the list rendered 3 times; 4 edits, 2 calls, 2
failures and 2 services of the connection; 3 openings of the preview over 2 files, or 4
over 3 files for a user who waits. Two requests are the least with which an answer
overtakes another; 7 clicks are enough to begin a review, begin and end a second one,
type into its form and let the first end. `library`: 1 base rule and 2 new ones with 4
edits of two processes or of two threads; the rules page rendered twice with 2 edits;
packs of up to 6 rules, of one listed topic or of another, with pages of 1 and 4 rows (a
group that spans pages, a page that spans groups, more pages than the window shows); 3
requests on one review result with clocks of two ticks; the merge with 2 findings and 2
judgements of two rules with one title; the metrics with 3 findings; the breaker with
limits 1 and 2 and a queue timeout that changes; 3 threads on 2 slots. `progress`: 2 requests, calls
or threads; 1 dialog over a task that may be tried again; the list rendered 3 times; 4
edits and 2 failed calls of the connection; 3 openings of the preview; a breaker that
opens at the first failure, with one slot and a queue timeout that changes. Counters of clicks, edits and errors only bound the run: no action reads them
for anything else. `CHECK_DEADLOCK FALSE` in these runs: once the bounds are used up and
every request is answered, nothing is left to do. `Symmetry` permutes files, keys and
requests, new ids and threads; no definition chooses among those that are permuted.

Fairness (`FairSpec`). Time passes, the API handler and the workers keep taking
steps, and celery beat starts reconcile rounds for ever. `Scan` is strongly fair:
every round begins with it, while other steps of the round keep enabling and
disabling it. `Publish` is strongly fair: a broker outage ends. No fairness is
assumed for heartbeats or for faults.

In `TaskAdmission` the web server goes on with a request, workers take messages and
finish, cleanup rounds and the publishing of the outbox recur, and time passes. The
cleanup steps of one process are weakly fair together. `ReservationResolved` is checked
without the fault kinds `api` and `redis`: after the loss of the handler, or of the reply
of the admission script, a reservation stays PENDING and nobody publishes or closes it.
`ClosedIsReclaimed` is checked without `worker`: a worker lost between the verdict and
`_schedule_expiry` leaves a closed task that no index leads to. Both are listed as
hazards; no document promises otherwise.

The safety properties of `console` and `library` are checked, and proved, without any
fairness. In `progress` every request is answered or fails and the function that waits for it then
continues, the threads of the transport go on, and the 30-second interval of the
health call recurs (weak fairness). Only one part runs, so conjuncts of different parts are
merged into one. Strong fairness is used only for the interval of a task dialog: it fires
for ever, while requests in flight disable it from time to time. Nothing is assumed of the
user, of faults, or of the end of an open period.

### What the runs found

Five statements in the source or the documents are not kept by the code; each has a run
that ends in a counterexample, and an entry under `findings` in `PROJECT.json`.

1. *A live worker is not robbed* (comment in `_LEASE_WRITE_SCRIPT`). The lock's TTL
   is never extended by heartbeats, so an execution longer than the timeout loses its
   lease although it heartbeats on time.
2. *The result has been persisted* (event of `mark_succeeded`). A heartbeat read
   before and written after `mark_succeeded`'s write, but before the release, puts the
   record back to RUNNING without the result.
3. *Only tasks that are not leased are closed* (`mark_pending_failed`). After a
   publish that raised but was taken, a worker may start the task in between.
4. *A key returns the same task within its TTL* (`README.md`, `docs/ARCHITECTURE.md`).
   `delete` removes the key of the record it purges without checking that the key still
   names this task. With the default TTLs the key of a task expires before the task is
   purged, so a newer task may own it.
5. *Successful results enter their TTL* (`docs/ARCHITECTURE.md`). `_clear_lifecycle` of
   `requeue` is a command of its own and may come after the recovered task has been
   executed and scheduled for expiry; the entry is lost and the task is never purged.
Further behaviours are visible in the models without a run of their own. In the task
store and the transport:

- a worker lost or stalled between `acquire_lease` and `mark_running`
  (`worker_tasks.py:42`) leaves a PENDING task whose redelivered message is refused while
  the lock lives; the message is acknowledged and nobody publishes the task again;
- a late `ack_requeue_dispatch` (`redis_task_store.py:757`) drops the newer intent of an
  overlapping round, with two retries and two rounds in flight;
- `update_policy` is for a gate without active or waiting calls
  (`model_transport.py:409`), but a thread that has left the queue and is not yet active,
  or has stopped being active and not yet released its slot, is neither (419): it releases
  a slot of the new semaphore that it never took. `SlotsConserved` is checked with the
  policy left alone.

In the files:

- every change of the rule overlay is to land atomically (docstring, `rule_edits.py:11`),
  but the temporary file has one name for all processes and is opened, emptied and filled
  (147) before the rename (151). While a worker has just emptied it to add candidates, the
  API renames it: the overlay file is empty, and `load_overlay` raises (94) for every
  review and edit until the worker's text is written, into the file that is the overlay by
  now. When both texts go into one file and the shorter comes last, it stays unreadable.
  In `RuleOverlay` this is `OpenTmp(w)` between `WriteText(a)` and `Replace(a)`; that no
  such file is ever loaded, and that one process never makes one, is what `OverlayExact`
  and `EditsKept` check;
- the lock of the rule overlay is one of a process (`rule_edits.py:34`): an edit of the
  API between the load and the rename of a worker's candidates is lost, and an edit whose
  `os.replace` raises because the other process has renamed its file may have taken effect
  nevertheless. `EditsKept` is
  checked for the threads of one process. The lock of the element catalogue
  (`element_catalog_admin.py:101`) and its temporary file (70) are of the same kind;
- adding a rule under an id that is switched off leaves it off (`rule_edits.py:298`);
- a finding decided with DEFER cannot be decided again (`pipeline.py:2224`), and
  finalisation refuses a run that has one (2287): such a run has no way on.

In the console (`app.js`), for a user who does not wait or after a failure:

- a review answer is stored whatever files are chosen by then (880), so
  `PageShowsItsFiles` needs a user who waits; the same holds of overtaken list answers
  (2426, 2857) and a late preview (2341);
- the answer to a comparison replaces a newer result by the one it was sent with (709);
  for a user who waits there is no newer one, so no property is stated of it;
- `setReviewFiles` appends whenever there are files (793), so the cross of a file does not
  remove it, and a page that is rendered again shows no files although it has some (371);
- when the second request of a draft review fails, the new result stays with the old form
  (1961); the fill dialog shows a result of other files than those attached (1883), and its
  progress card stays above the result (1926);
- without a current result a comparison is sent without one (698), so nothing is attached
  to an earlier review of the base document, as the dialog announces (659);
- a field edited in its own form has replaced the table in the modal; when the table is
  not there `loadElementSchema` returns (2102) and the form of the page does not follow
  (2161); the placeholder meant to stay while the catalogue cannot be had (1684) is
  replaced at once by an empty form (1624);
- judgements without a rule are sorted among the findings, not behind them (461, 524);
- the filter element shows its first option after the page is rendered again while
  `tasksState` keeps the filter (2824);
- the form of a rule opens on the first level whatever the rule's level is, because the map
  back from the server's levels (2412) is never used (2714): saving makes the rule `medium`;
- `rerunActiveReview` from a result opened on the task page throws: that page has no button
  to disable (863).

## 3. Proofs

Every theorem is about the specification the runs check, for every value of its
constants. `TaskLease` and `TaskAdmission` ASSUME what their theorems need; the theorems
about the other modules take the module's `...Assumption` as a hypothesis. Those
assumptions are of the kind "a finite set", "a natural number", "a filter is one of the
filters": none excludes a case the code can be in.

The theorems come in two layers. The proof modules of the components prove the properties
of each module, for any constants that satisfy its assumption. `MCConsole_proofs` and
`MCLibrary_proofs` prove the properties of the runs `console` and `library` as they are
checked there: a lemma per part (`...Runs`) says that a behaviour of the run in which the
part was picked is a behaviour of the part's own specification, the assumption of its
instance holds by the ASSUMEs of the MC module, and the theorem of the component gives the
property. There the constants of the cfg (files, keys, tasks, requests, ids, threads) are
any sets of which the ASSUMEs hold; the numbers and the data that the MC module fixes are
as fixed.

With these, every safety property of every passing run is a theorem: all invariants and
all action properties.

### Execution: `TaskLease_proofs`

For any tasks, any finite sets of workers and reconcilers, and any timeout, retry limit
and number of faults (`Task` is not empty, `HeartbeatTimeout` and `ProgressCalls` are
positive, `MaxRetries` and `MaxFaults` are natural numbers):

| Theorem | States | Inductive invariant |
|---|---|---|
| `TypeCorrect` | `Spec => []TypeOK` | itself |
| `FencingHolds` | `Spec => []FencingInv` | itself |
| `RunningOwnsFenceHolds`, `SingleWriterHolds`, `PendingIndexExactHolds` | the invariants of the same names | `FencingInv` |
| `LiveLeaseKeepsFenceHolds`, `LostVerdictFinalHolds` | the action properties of the same names | `FencingInv` |
| `StaleMeansExpiredHolds` | the reconciler finds no task stale whose lock lives | `LeaseTimed` |
| `RetriesBoundedHolds` | recovery never spends more than `MaxRetries` | `RetryKnown`, `RetryCapped` |
| `DeadLetterHasVerdictHolds` | a dead letter stands for a recorded failure | `DeadLettersOwed` |
| `ImplementsLifecycleHolds` | `Spec => Lifecycle!Spec` | `LifecycleInv` |

`RunningOwnsFence` alone is not inductive: a worker about to write RUNNING must be known
to carry the current token, a heartbeat in flight must not resurrect a requeued record,
and the PENDING index must be right for `acquire_lease` to refuse a running task. The
parts of `FencingInv` are:

- `TokensIssued`: the fence is the epoch, a live lock is the fence, every token in use
  is at most the epoch and belongs to one worker;
- `SnapshotsOwned`: a record about to be written carries the token it is written under;
- `NoWayBack`: nobody who has seen the current generation RUNNING finds it PENDING,
  because `requeue` always opens a new generation;
- `LostSealed`: nobody holds the generation that recovery opened when it closed a task;
- `RunningOwnsFence` and `PendingIndexExact`.

The proof treats the steps by kind. `QuietKeeps` covers every step that writes no
record and opens no generation (most of them); `LeasedWriteKeeps` covers the four
writes under the lease, `RecoveryWriteKeeps` the two recovery writes, `AcquireKeeps`
the new generation; `TickKeeps`, `ApiFailKeeps` and the read lemmas the rest.

The four results on recovery rest on `FencingInv` and one strengthening each:

- `LeaseTimed`: the age of the heartbeat and the TTL of the lock add up to at most the
  timeout, for the record and for every copy that may still be written under the live
  lock. A tick keeps the sum; a heartbeat renews the lock and writes a young copy.
- `RetryKnown`: a generation has one retry count, wherever it is seen: in the record, in
  a worker's copy, in a heartbeat, in what `stale_running` scanned or in a recovery under
  way. So the limit compared at the scan is compared with the count that `requeue`
  increments. `RetryCapped` follows for the record and for all copies.
- `DeadLettersOwed`: dead letters, workers about to push one and reconcilers about to
  push one are together at most the recorded closings of the task. It counts sets of
  processes, so this is where their finiteness is used.
- `LifecycleInv`: an unpublished task is touched by nobody (`Unpublished`), the running
  set names RUNNING records (`RunningIndexed`), a worker of the current generation finds
  the status its own progress implies (`PhaseKnown`), and a verdict names its generation
  (`VerdictNamed`). With it every step shows as a step of `TaskLifecycle` or as none.

### Admission and retention: `TaskAdmission_proofs`

For any finite set of requests, any keys, cleanup processes, limit and positive TTLs and
any combination of faults:

| Theorem | States |
|---|---|
| `AdmissionHolds`, `TypeCorrect` | `Spec => [](TypeOK /\ AdmissionInv)`, `Spec => []TypeOK` |
| `KeyNamesTaskHolds`, `InputKeptHolds`, `FreshPendingBoundedHolds` | the invariants of the same names |
| `OnlyWinnerHoldsInputHolds` | the invariant, if `rmtree` is not among the fault kinds |

`AdmissionInv` is the inductive invariant. Its parts say who may touch a task when:

- `UnknownBlank`: an id nobody has admitted has left no trace;
- `ReservedOwned`: a reservation is PENDING, unpublished and untouched by others until
  its request has published or given it up, so the unchecked write of `attach_input` is
  safe;
- `PendingExact`: the PENDING index is exact;
- `LiveHasInput`: what runs or will run has its input;
- `EntriesSettled`, `CleanupSettled`: expiry and purge entries, and the tasks cleanup has
  in hand, are settled, so the unchecked writes of `mark_expired` and `delete` are safe;
- `KeyOwned`: a key names its owner, and its TTL and the owner's age add up;
- `KeyNamesTask`.

There is one lemma per group of steps with one leaf per part. `FreshPendingBounded` needs
only that no step but admission adds a fresh task (`FreshStep`) and that the script
compares the whole PENDING index with the limit. `OnlyWinnerHoldsInput` needs
`InputsTracked`: cleanup has removed the directory of a task whose record it is about to
change or whose index entries it is about to prune.

### Transport and files: `ModelTransport_proofs`, `ReviewStore_proofs`, `Library_proofs`

| Theorem | States | Assumes | Inductive invariant |
|---|---|---|---|
| `PermitsAccountedHolds` | `PermitsAccounted` | a finite set of threads, positive limits | `ProbeInv`; `SlotsConserved` when there is one policy |
| `ConfirmedIsKeptHolds`, `FinalIsFrozenHolds` | the invariants of the same names | `StoreAssumption` | `StoreInv` |
| `OverlayExactHolds` | `OverlayExact`, threads of two processes | `IdAssumption`, `ThreadAssumption` | `OverlayInv` |
| `EditsKeptHolds` | `EditsKept` | also that there is one process (`WorkerThread = {}`) | `LockedInv` |

- `ProbeInv`: a permit carries the period it was issued in, and no period lies ahead, so
  a thread that comes back late cannot settle the probe of another; the mark of the probe
  is that of the one thread that holds it.
- `StoreInv`: from the comparison to the commit the run is locked, so what was compared
  is still current (`ComparedIsCurrent`); what a request appends follows from what it
  loaded (`MadeFollows`); the current result holds the actions of the requests that are
  done, and no other (`HoldsTheDone`).
- `OverlayInv`: whatever is, or may become, the file is broken or a library one can review
  with (`Good`), since a thread loads no broken file and writes what an accepted edit makes
  of what it loaded; five lemmas say so of the five edits. `LockedInv` adds that a thread
  that has loaded the file holds the lock, the file is still what it loaded, and the
  temporary file is its own from the moment it empties it, so that the text it writes is
  whole. Across processes that is false: the lock is one of threads, and section 2 says
  what is lost and what is torn. `EditsKept` says of one process
  that the file is never broken.

### Console: `Console_proofs`, `Library_proofs`

For any files, elements, filters, ids, topics, metrics, addresses and page sizes and any
number of requests in flight, dialogs, runs and edits. "Waits" marks the theorems that
assume `Patient`, a user who waits for the answer to every click; section 2 says what
happens to one who does not.

| Theorem | States | Waits | Inductive invariant |
|---|---|---|---|
| `TimersAccountedHolds` | `TaskDetail!TimersAccounted` | | `DetailInv` |
| `UrlsAccountedHolds` | `ContractPreview!UrlsAccounted` | | `PreviewInv` |
| `PaneShowsNamedFileHolds` | `ContractPreview!PaneShowsNamedFile` | yes | `PreviewInv` |
| `TableCurrentHolds` | `TaskList!TableCurrent`, `PageExists` | yes | `ListInv` |
| `CollectsWhatWasFilledHolds` | `ElementFields!CollectsWhatWasFilled` | | `FormInv` |
| `DialogCurrentHolds` | `ElementFields!DialogCurrent` | yes | `DialogInv` |
| `DraftFormHolds` | `ReviewDesk!DrawnIsForm`, `OverridesOfForm` | | the two together |
| `NoOrphanSpinnerHolds` | `ReviewDesk!NoOrphanSpinner` | | `SpinnersOwned` |
| `PageShowsItsFilesHolds` | `ReviewDesk!PageShowsItsFiles` | yes | `PageInv` |
| `AddressAppliedHolds` | `ConsoleSession!AddressApplied` | | `SessionInv` |
| `ListCurrentHolds`, `NoEditRefusedHolds` | the properties of `RulesDesk` | yes | `RulesInv` |
| `TablesExactHolds` | the properties of `RulePack`, list and score matrix | | `PackInv` |
| `NothingLostHolds` | `ReviewPanels!NothingLost`, `VerdictOfLevel` | | `PanelsInv` |
| `NoHiddenBucketHolds`, `CardsShowWorstHolds`, `OpensOnRowsHolds` | the properties of `ReviewPanels` | | `PanelsInv` |

- `DetailInv`: requests and timers are of dialogs already opened, and while the first
  answer of a dialog is awaited nothing else of it is under way.
- `PreviewInv`: the current URL and the texts fetched are of the file the dialog has, and
  for a user who waits a request under way is of that file too.
- `ListInv`: the request of the view shown carries the query in force, and the number of
  pages known, if any, is that of the filter in force.
- `FormInv`: while the page is shown, the values in the inputs are those kept.
  `DialogInv`: at most one request is under way, what it has read is the catalogue as it
  is, and the table follows the catalogue unless an edit is still to be heard of.
- `SpinnersOwned`: a progress card has a request that names its page or its dialog.
  `PageInv`: one request at a time; the review under way and the result on the page are of
  the files chosen, and a comparison was sent with the result that still is current.
- `RulesInv`: at most one edit is under way and nothing is read beside it; the library
  differs from the list shown by candidates the model proposed meanwhile, and nothing
  else (`OnlyProposed`). That is what keeps every offered edit acceptable.
- `PackInv` is a page in range; the work is in lemmas about operators. Paging: `PagesCover`,
  `RowOnItsPage`, `RowOnNoOther`, `PageHasRows`, `Clamped`, `WindowAround`. Every rule is a
  row of the matrix once (`MatrixPermutes`): no topic is in two groups (`NamesOfTopics`,
  from `TopicsAssumption`), a group lists its rules once (`BucketClimbs`), and the rows are
  the cells in their order (`FlatRows`). Regrouping the rows of a page and flattening them
  again gives these rows (`RegroupExact`): the cells cover the page (`RunsCover`), a cell
  has the rows from its head to the next, all of its group (`RunHasGroup`), and walking the
  cells meets the rows one after the other (`CellsWalked`, `ClimbIsIdentity`).
- `PanelsInv`: the items shown are a complete list, judged by level, the worst first. It
  rests on lemmas about the operators: `RankOnto` and `RanksList` (ranking a finite set
  by a total order lists every member once, in order), `TakenOnce` (no judgement is given
  to two findings), `ExtrasLeft` (the rest is appended, each once), `Sorts`
  (`sortBySeverity` permutes and puts the worst first) and `ItemsMerged`.

The library's induction theorems cannot be used here, but its least-element theorem for a
well-founded relation can: `LeastNumber` (a set of natural numbers that is not empty has
a least member) stands in for induction in the proofs about pages, cards and ranks.

### The runs: `MCConsole_proofs`, `MCLibrary_proofs`

| Theorem of `MCConsole_proofs` | Part | From |
|---|---|---|
| `TimersAccountedHolds` | `detail` | `TimersAccountedHolds` |
| `PageShowsItsFilesHolds` | `patient_desk` | the theorem of this name |
| `DraftInStepHolds` | `desk` | `DraftFormHolds`, `NoOrphanSpinnerHolds` |
| `FieldsInStepHolds` | `fields`, `patient_fields` | `CollectsWhatWasFilledHolds`, `DialogCurrentHolds` |
| `StateShownHolds` | `list`, `session` | `TableCurrentHolds`, `AddressAppliedHolds` |
| `PreviewExactHolds` | `preview`, `patient_preview` | `UrlsAccountedHolds`, `PaneShowsNamedFileHolds` |

| Theorem of `MCLibrary_proofs` | Part | From |
|---|---|---|
| `OverlayExactHolds`, `EditsKeptHolds` | `overlay`, `locked` | the theorems of these names |
| `ListCurrentHolds` | `page` | `ListCurrentHolds`, `NoEditRefusedHolds` |
| `PagesExactHolds` | `pack` | `TablesExactHolds` |
| `NothingHiddenHolds` | `merge`, `metrics` | `NothingLostHolds`, `NoHiddenBucketHolds`, `CardsShowWorstHolds` |
| `OpensOnRowsHolds` | `merge` | `OpensOnRowsHolds` |
| `ConfirmedIsKeptHolds`, `FinalIsFrozenHolds` | `store` | the theorems of these names |
| `PermitsAccountedHolds` | `transport`, `gate` | `PermitsAccountedHolds` |

### What the proofs changed

The attempts to prove changed the models in these places: two CASE expressions
(`PreviewPane`, `ReasonablenessBucket`) had overlapping guards, where the code has an
order of ifs, and are written as such now; the properties of the rule tables are stated
per table; `filter` is `Picked`, and the rows and cells of the score matrix are ranked
places instead of recursive definitions and folds: the prover knows nothing of
`SelectSeq`, `FlattenSeq` and folds, and of a set and its order everything the proofs need. That a topic is
listed once is an assumption now, without which the regrouped rows would not be the rows.
No property changed its meaning.

### Only model-checked

- All liveness (`StaleIsRecovered`, `IntentReachesBroker`, `ClosedIsReclaimed`,
  `ReservationResolved`, `RefreshSettles`, `WaitsEnd`, `HealthFollowsBase`): fairness is out
  of the prover's reach.
- The violations of section 2, which are counterexamples.

## 4. Plan

Modelled: everything in section 2. Proved: everything in section 3; no safety property of
a passing run is left without a theorem.

## 5. Not modelled

Text processing (parsing, OCR, extraction, retrieval and scoring, rule evaluation, prompts,
report wording) has no protocol state and is out of TLC's reach beyond bounded operators.
The review pipeline is a sequential computation over one document; what people do to its
result is in `ReviewStore`. The result cache never updates an entry and recomputes its key
at every lookup. HTTP plumbing, logging and metrics read the modelled state and do not
change it. The API documentation viewer is third-party code. In the modelled parts the
adaptive concurrency controller, `prune_dead_letters`, the base artifact of a run and the
wording of the panels are left out. The components and their status are listed in
`PROJECT.json`.
