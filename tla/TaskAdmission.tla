--------------------------- MODULE TaskAdmission ---------------------------
(***************************************************************************)
(* Admission of review tasks and their retention: create_task with replay  *)
(* by idempotency key, the pending limit and the deferred input, the       *)
(* failure paths that close a reservation, and the periodic cleanup that   *)
(* expires, purges and prunes what admission and execution leave behind.   *)
(*                                                                         *)
(* A request that is admitted gets a fresh task id; the model names the    *)
(* task by its request.  Lua scripts and pipelines are atomic; a method    *)
(* that reads with GET and writes later is two steps with a snapshot.      *)
(* Execution is reduced to what admission and retention see of it: start,  *)
(* requeue, verdict, and the lifecycle entries written after them in a     *)
(* command of their own.  Start, requeue and verdict are single steps      *)
(* because only execution writes a task that has started.  The two races   *)
(* that break this are examined in module TaskLease and left out here: a   *)
(* publish that raises although the broker took the message, and a         *)
(* heartbeat that overwrites a verdict.                                    *)
(*                                                                         *)
(* Deadlines are remaining ticks: 0 is due, None is no entry.  The batch   *)
(* limit of a cleanup round is above the number of tasks.                  *)
(***************************************************************************)
EXTENDS Integers, FiniteSets, Sequences

CONSTANTS
  Request,       \* create_task calls, and the ids of the tasks they admit
  Key,           \* idempotency keys
  NoKey,         \* a request without the header
  NoTask,        \* an idempotency key that is not set
  Cleaner,       \* executions of the periodic cleanup task
  PendingLimit,  \* TASK_PENDING_LIMIT
  IdemTtl,       \* TASK_IDEMPOTENCY_TTL_SECONDS, in ticks
  SuccessTtl,    \* TASK_RESULT_TTL_SUCCESS
  FailedTtl,     \* TASK_RESULT_TTL_FAILED
  Retention,     \* TASK_EXPIRED_RETENTION_SECONDS
  CleanupInterval, \* TASK_CLEANUP_INTERVAL_SECONDS
  MaxRequeues,   \* bound: recoveries of one task
  FaultKinds,    \* faults that may happen, of "api", "redis", "rmtree" and
                 \* "worker"
  MaxFaults      \* bound: number of faults

ASSUME RequestAssumption == IsFiniteSet(Request) /\ Request # {}
ASSUME NoKeyAssumption == NoKey \notin Key
ASSUME NoTaskAssumption == NoTask \notin Request
ASSUME PendingLimitAssumption == PendingLimit \in Nat
ASSUME TtlAssumption ==
  /\ IdemTtl \in Nat \ {0} /\ SuccessTtl \in Nat \ {0} /\ FailedTtl \in Nat \ {0}
  /\ Retention \in Nat \ {0} /\ CleanupInterval \in Nat
ASSUME BoundAssumption == MaxRequeues \in Nat /\ MaxFaults \in Nat

VARIABLES
  \* Redis: records, task index, PENDING index
  rec, index, pending,
  \* Redis: idempotency keys with their TTL; time since admission
  idem, idemTtl, age,
  \* Redis: expiry and purge entries
  expiry, purge,
  \* file system: age of each task's input directory
  dirAge,
  \* broker messages, dispatch outbox
  queue, outbox,
  \* verdicts whose expiry entry is still to be written, and requeued tasks
  \* whose lifecycle entries are still to be cleared
  closing, clearing,
  \* create_task: control, key, task found by the key, record read
  pc, key, found, snap,
  \* cleanup: phase of the round, control, tasks left, task in hand, record
  \* read, and the tasks due for purging when the round began
  phase, cpc, todo, cur, csnap, due,
  \* keys that a delete took away from another task (history)
  dropped,
  \* environment
  faults

storeVars == <<rec, index, pending>>
keyVars   == <<idem, idemTtl, dropped>>
dueVars   == <<expiry, purge>>
workVars  == <<queue, outbox, closing, clearing>>
apiVars   == <<pc, key, found, snap>>
cleanVars == <<phase, cpc, todo, cur, csnap, due>>
vars == <<storeVars, keyVars, age, dueVars, dirAge, workVars, apiVars, cleanVars,
          faults>>

-----------------------------------------------------------------------------
(* Types *)

Closed == {"SUCCEEDED", "FAILED"}
Status == {"PENDING", "RUNNING", "EXPIRED"} \cup Closed

\* A record: status, whether the real input is bound to it, retries.  A
\* missing record has the status ABSENT.
Record == [status: Status \cup {"ABSENT"}, bound: BOOLEAN, retry: Nat]
Absent == [status |-> "ABSENT", bound |-> FALSE, retry |-> 0]

\* The reservation create_task admits before it has read the upload.
Reserved == [status |-> "PENDING", bound |-> FALSE, retry |-> 0]

None == -1

\* Age from which cleanup looks at an input directory.
OrphanAge == SuccessTtl + Retention + CleanupInterval

Exists(t) == rec[t].status # "ABSENT"

\* Task directories on disk.
Inputs == {t \in Request : dirAge[t] # None}

ApiPc == {"new", "find", "find_get", "count", "admit", "replay_get", "persist",
          "attach_get", "attach_write", "enqueue", "cleanup", "fail_get",
          "fail_write", "fail_schedule", "accepted", "replayed", "refused", "lost"}
ApiDone == {"new", "accepted", "replayed", "refused", "lost"}
CleanerPc == {"loop", "files", "mark_get", "mark_write", "mark_zrem", "schedule",
              "purge_files", "delete_get", "delete_write", "orphan_delete"}
Phase == {"idle", "expire", "purge", "orphan", "prune"}

\* Expiry given to a task with verdict s.
ResultTtl(s) == IF s = "SUCCEEDED" THEN SuccessTtl ELSE FailedTtl

Fault(kind) == /\ kind \in FaultKinds
               /\ faults < MaxFaults
               /\ faults' = faults + 1

-----------------------------------------------------------------------------
(* create_task *)

ApiFrame == UNCHANGED <<dueVars, outbox, closing, clearing, cleanVars>>
ApiGoto(r, label) == pc' = [pc EXCEPT ![r] = label]
\* What a method read goes out of scope when it returns.
Forget(r) == /\ found' = [found EXCEPT ![r] = NoTask]
             /\ snap' = [snap EXCEPT ![r] = Absent]

\* Mutant: a request without a key is looked up all the same.
SubmitLooksUp(r, k) ==
  /\ pc[r] = "new"
  /\ key' = [key EXCEPT ![r] = k]
  /\ ApiGoto(r, "find")
  /\ UNCHANGED <<storeVars, keyVars, age, dirAge, queue, found, snap, faults>>
  /\ ApiFrame

\* A request arrives, with or without the Idempotency-Key header.
Submit(r, k) ==
  /\ pc[r] = "new"
  /\ key' = [key EXCEPT ![r] = k]
  /\ ApiGoto(r, IF k = NoKey THEN "count" ELSE "find")
  /\ UNCHANGED <<storeVars, keyVars, age, dirAge, queue, found, snap, faults>>
  /\ ApiFrame

\* Validation fails, or a store call raises before it changed anything: the
\* request ends with an error and nothing is left behind.
Reject(r) ==
  /\ pc[r] \in {"find", "find_get", "count", "admit", "replay_get"}
  /\ ApiGoto(r, "refused")
  /\ Forget(r)
  /\ UNCHANGED <<storeVars, keyVars, age, dirAge, queue, key, faults>>
  /\ ApiFrame

\* find_by_idempotency_key, first step: GET the key.
Find(r) ==
  /\ pc[r] = "find"
  /\ found' = [found EXCEPT ![r] = idem[key[r]]]
  /\ ApiGoto(r, IF idem[key[r]] = NoTask THEN "count" ELSE "find_get")
  /\ UNCHANGED <<storeVars, keyVars, age, dirAge, queue, key, snap, faults>>
  /\ ApiFrame

\* Second step: GET the record; a missing one counts as no task.
FindGet(r) ==
  /\ pc[r] = "find_get"
  /\ ApiGoto(r, IF Exists(found[r]) THEN "replayed" ELSE "count")
  /\ Forget(r)
  /\ UNCHANGED <<storeVars, keyVars, age, dirAge, queue, key, faults>>
  /\ ApiFrame

\* Mutant: the input is written before admission, and left on refusal.
CountPersists(r) ==
  /\ pc[r] = "count"
  /\ ApiGoto(r, IF Cardinality(pending) >= PendingLimit THEN "refused" ELSE "admit")
  /\ dirAge' = [dirAge EXCEPT ![r] = 0]
  /\ UNCHANGED <<storeVars, keyVars, age, queue, key, found, snap, faults>>
  /\ ApiFrame

\* The early check of the pending limit.
Count(r) ==
  /\ pc[r] = "count"
  /\ ApiGoto(r, IF Cardinality(pending) >= PendingLimit THEN "refused" ELSE "admit")
  /\ UNCHANGED <<storeVars, keyVars, age, dirAge, queue, key, found, snap, faults>>
  /\ ApiFrame

\* Mutant: the task a key names is looked up under the new task's id.
ReplayableOwnRecord(r) ==
  /\ key[r] # NoKey
  /\ idem[key[r]] # NoTask
  /\ r \in index

\* _ADMIT_IDEMPOTENT_SCRIPT: the key names a task that is still indexed.
Replayable(r) ==
  /\ key[r] # NoKey
  /\ idem[key[r]] # NoTask
  /\ idem[key[r]] \in index

\* Mutant: the early check of the service is trusted.
QueueFullUnchecked == FALSE

\* SCARD of the PENDING index against the limit.
QueueFull == Cardinality(pending) >= PendingLimit

\* The writes of both admission scripts when the task is created.
Admit(r) ==
  /\ rec' = [rec EXCEPT ![r] = Reserved]
  /\ index' = index \cup {r}
  /\ pending' = pending \cup {r}
  /\ age' = [age EXCEPT ![r] = 0]
  /\ IF key[r] = NoKey
       THEN UNCHANGED <<idem, idemTtl>>
       ELSE /\ idem' = [idem EXCEPT ![key[r]] = r]
            /\ idemTtl' = [idemTtl EXCEPT ![key[r]] = IdemTtl]

\* admit_and_create: the key names a live task, its record is read next.
AdmitReplays(r) ==
  /\ pc[r] = "admit"
  /\ Replayable(r)
  /\ found' = [found EXCEPT ![r] = idem[key[r]]]
  /\ ApiGoto(r, "replay_get")
  /\ UNCHANGED <<storeVars, keyVars, age, dirAge, queue, key, snap, faults>>
  /\ ApiFrame

\* The queue is full: a key that names no live task is dropped first.
AdmitFull(r) ==
  /\ pc[r] = "admit"
  /\ ~Replayable(r)
  /\ QueueFull
  /\ ApiGoto(r, "refused")
  /\ IF key[r] = NoKey
       THEN UNCHANGED <<idem, idemTtl>>
       ELSE /\ idem' = [idem EXCEPT ![key[r]] = NoTask]
            /\ idemTtl' = [idemTtl EXCEPT ![key[r]] = 0]
  /\ UNCHANGED <<storeVars, dropped, age, dirAge, queue, key, found, snap, faults>>
  /\ ApiFrame

\* The task is created; the call may still raise after the script has run.
AdmitCreates(r, raises) ==
  /\ pc[r] = "admit"
  /\ ~Replayable(r)
  /\ ~QueueFull
  /\ Admit(r)
  /\ \/ /\ ~raises
        /\ ApiGoto(r, "persist")
        /\ UNCHANGED faults
     \/ /\ raises
        /\ Fault("redis")
        /\ ApiGoto(r, "refused")
  /\ UNCHANGED <<dropped, dirAge, queue, key, found, snap>>
  /\ ApiFrame

\* GET of the task to replay; a missing record is answered as a full queue.
ReplayGet(r) ==
  /\ pc[r] = "replay_get"
  /\ ApiGoto(r, IF Exists(found[r]) THEN "replayed" ELSE "refused")
  /\ Forget(r)
  /\ UNCHANGED <<storeVars, keyVars, age, dirAge, queue, key, faults>>
  /\ ApiFrame

\* _persist_input: the directory, the files and the manifest.
Persist(r) ==
  /\ pc[r] = "persist"
  /\ dirAge' = [dirAge EXCEPT ![r] = 0]
  /\ ApiGoto(r, "attach_get")
  /\ UNCHANGED <<storeVars, keyVars, age, queue, key, found, snap, faults>>
  /\ ApiFrame

\* The upload is too large, or writing stops half way.
PersistRaises(r, partial) ==
  /\ pc[r] = "persist"
  /\ dirAge' = [dirAge EXCEPT ![r] = IF partial THEN 0 ELSE @]
  /\ ApiGoto(r, "cleanup")
  /\ UNCHANGED <<storeVars, keyVars, age, queue, key, found, snap, faults>>
  /\ ApiFrame

\* attach_input: GET, and only a queued task is bound.
AttachGet(r) ==
  /\ pc[r] = "attach_get"
  /\ ApiGoto(r, IF rec[r].status = "PENDING" THEN "attach_write" ELSE "cleanup")
  /\ snap' = [snap EXCEPT ![r] = IF rec[r].status = "PENDING" THEN rec[r] ELSE Absent]
  /\ UNCHANGED <<storeVars, keyVars, age, dirAge, queue, key, found, faults>>
  /\ ApiFrame

\* The record is written back without a check; the call may raise afterwards.
AttachWrite(r, raises) ==
  /\ pc[r] = "attach_write"
  /\ rec' = [rec EXCEPT ![r] = [snap[r] EXCEPT !.bound = TRUE]]
  /\ \/ /\ ~raises
        /\ ApiGoto(r, "enqueue")
        /\ UNCHANGED faults
     \/ /\ raises
        /\ Fault("redis")
        /\ ApiGoto(r, "cleanup")
  /\ Forget(r)
  /\ UNCHANGED <<index, pending, keyVars, age, dirAge, queue, key>>
  /\ ApiFrame

\* _enqueue_task.
Enqueue(r) ==
  /\ pc[r] = "enqueue"
  /\ queue' = queue \cup {r}
  /\ ApiGoto(r, "accepted")
  /\ UNCHANGED <<storeVars, keyVars, age, dirAge, key, found, snap, faults>>
  /\ ApiFrame

\* apply_async raises and the broker has not taken the message.
EnqueueRaises(r) ==
  /\ pc[r] = "enqueue"
  /\ ApiGoto(r, "fail_get")
  /\ UNCHANGED <<storeVars, keyVars, age, dirAge, queue, key, found, snap, faults>>
  /\ ApiFrame

\* delete_task_files ignores errors, so it may also leave the directory.
RemoveInput(t) ==
  \/ dirAge' = [dirAge EXCEPT ![t] = None] /\ UNCHANGED faults
  \/ dirAge[t] # None /\ Fault("rmtree") /\ UNCHANGED dirAge

\* Mutant: the reservation of a failed upload is not closed.
CleanupInputOnly(r) ==
  /\ pc[r] = "cleanup"
  /\ RemoveInput(r)
  /\ ApiGoto(r, "refused")
  /\ UNCHANGED <<storeVars, keyVars, age, queue, key, found, snap>>
  /\ ApiFrame

\* _cleanup_input after a failure between admission and binding.
CleanupInput(r) ==
  /\ pc[r] = "cleanup"
  /\ RemoveInput(r)
  /\ ApiGoto(r, "fail_get")
  /\ UNCHANGED <<storeVars, keyVars, age, queue, key, found, snap>>
  /\ ApiFrame

\* mark_pending_failed: GET, EXISTS on the lock and the checks: only a queued
\* task is closed.
FailGet(r) ==
  /\ pc[r] = "fail_get"
  /\ ApiGoto(r, IF rec[r].status = "PENDING" THEN "fail_write" ELSE "refused")
  /\ snap' = [snap EXCEPT ![r] = IF rec[r].status = "PENDING" THEN rec[r] ELSE Absent]
  /\ UNCHANGED <<storeVars, keyVars, age, dirAge, queue, key, found, faults>>
  /\ ApiFrame

\* Mutant: the PENDING index is not left.
FailWriteKeepsIndex(r) ==
  /\ pc[r] = "fail_write"
  /\ rec' = [rec EXCEPT ![r] = [snap[r] EXCEPT !.status = "FAILED"]]
  /\ ApiGoto(r, "fail_schedule")
  /\ Forget(r)
  /\ UNCHANGED <<index, pending, keyVars, age, dirAge, queue, key, faults>>
  /\ ApiFrame

\* Its unconditional write of the record it read, now FAILED.
FailWrite(r) ==
  /\ pc[r] = "fail_write"
  /\ rec' = [rec EXCEPT ![r] = [snap[r] EXCEPT !.status = "FAILED"]]
  /\ pending' = pending \ {r}
  /\ ApiGoto(r, "fail_schedule")
  /\ Forget(r)
  /\ UNCHANGED <<index, keyVars, age, dirAge, queue, key, faults>>
  /\ ApiFrame

\* _schedule_expiry, in a pipeline of its own; the client gets an error.
FailSchedule(r) ==
  /\ pc[r] = "fail_schedule"
  /\ expiry' = [expiry EXCEPT ![r] = FailedTtl]
  /\ purge' = [purge EXCEPT ![r] = None]
  /\ ApiGoto(r, "refused")
  /\ UNCHANGED <<storeVars, keyVars, age, dirAge, workVars, key, found, snap,
                 cleanVars, faults>>

\* The API process is lost in the middle of a request.
ApiCrash(r) ==
  /\ pc[r] \notin ApiDone
  /\ Fault("api")
  /\ ApiGoto(r, "lost")
  /\ Forget(r)
  /\ UNCHANGED <<storeVars, keyVars, age, dirAge, queue, key>>
  /\ ApiFrame

\* A step of create_task the handler takes without a fault.
ApiStep(r) ==
  \/ Find(r) \/ FindGet(r) \/ Count(r)
  \/ AdmitReplays(r) \/ AdmitFull(r) \/ AdmitCreates(r, FALSE) \/ ReplayGet(r)
  \/ Persist(r) \/ AttachGet(r) \/ AttachWrite(r, FALSE)
  \/ Enqueue(r) \/ CleanupInput(r)
  \/ FailGet(r) \/ FailWrite(r) \/ FailSchedule(r)

ApiNext(r) ==
  \/ \E k \in Key \cup {NoKey} : Submit(r, k)
  \/ ApiStep(r)
  \/ Reject(r)
  \/ AdmitCreates(r, TRUE)
  \/ AttachWrite(r, TRUE)
  \/ \E partial \in BOOLEAN : PersistRaises(r, partial)
  \/ EnqueueRaises(r)
  \/ ApiCrash(r)

-----------------------------------------------------------------------------
(* Execution, as admission and retention see it *)

WorkFrame == UNCHANGED <<index, keyVars, age, dirAge, apiVars, cleanVars>>

\* A worker takes the message: acquire_lease and mark_running succeed.
Start(t) ==
  /\ t \in queue
  /\ t \in pending
  /\ rec[t].status = "PENDING"
  /\ queue' = queue \ {t}
  /\ rec' = [rec EXCEPT ![t].status = "RUNNING"]
  /\ pending' = pending \ {t}
  /\ UNCHANGED <<dueVars, outbox, closing, clearing, faults>>
  /\ WorkFrame

\* acquire_lease refuses: the message is acknowledged without work.
Drop(t) ==
  /\ t \in queue
  /\ t \notin pending
  /\ queue' = queue \ {t}
  /\ UNCHANGED <<rec, pending, dueVars, outbox, closing, clearing, faults>>
  /\ WorkFrame

\* The worker or the reconciler closes the task.
Close(t, s) ==
  /\ rec[t].status = "RUNNING"
  /\ rec' = [rec EXCEPT ![t].status = s]
  /\ closing' = [closing EXCEPT ![t] = s]
  /\ UNCHANGED <<pending, dueVars, queue, outbox, clearing, faults>>
  /\ WorkFrame

\* _schedule_expiry after mark_succeeded or mark_failed.
ScheduleExpiry(t) ==
  /\ closing[t] # "none"
  /\ expiry' = [expiry EXCEPT ![t] = ResultTtl(closing[t])]
  /\ purge' = [purge EXCEPT ![t] = None]
  /\ closing' = [closing EXCEPT ![t] = "none"]
  /\ UNCHANGED <<rec, pending, queue, outbox, clearing, faults>>
  /\ WorkFrame

\* A process is lost: a worker during execution, or it or a reconcile round
\* after the verdict and before its expiry entry.  The message of a worker,
\* acknowledged late, is delivered again.
WorkerCrash(t, again) ==
  /\ \/ closing[t] # "none"
     \/ again /\ rec[t].status = "RUNNING"
  /\ Fault("worker")
  /\ closing' = [closing EXCEPT ![t] = "none"]
  /\ queue' = IF again THEN queue \cup {t} ELSE queue
  /\ UNCHANGED <<rec, pending, dueVars, outbox, clearing>>
  /\ WorkFrame

\* A reconcile round puts a lost task back and intends its dispatch.
Requeue(t) ==
  /\ rec[t].status = "RUNNING"
  /\ rec[t].retry < MaxRequeues
  /\ rec' = [rec EXCEPT ![t].status = "PENDING", ![t].retry = @ + 1]
  /\ pending' = pending \cup {t}
  /\ outbox' = outbox \cup {t}
  /\ clearing' = clearing \cup {t}
  /\ UNCHANGED <<dueVars, queue, closing, faults>>
  /\ WorkFrame

\* _clear_lifecycle of that round.
ClearLifecycle(t) ==
  /\ t \in clearing
  /\ clearing' = clearing \ {t}
  /\ expiry' = [expiry EXCEPT ![t] = None]
  /\ purge' = [purge EXCEPT ![t] = None]
  /\ UNCHANGED <<rec, pending, queue, outbox, closing, faults>>
  /\ WorkFrame

\* Some round publishes the outbox; it may run beside the one that requeued.
Dispatch(t) ==
  /\ t \in outbox
  /\ outbox' = outbox \ {t}
  /\ queue' = IF rec[t].status = "PENDING" THEN queue \cup {t} ELSE queue
  /\ UNCHANGED <<rec, pending, dueVars, closing, clearing, faults>>
  /\ WorkFrame

WorkNext(t) ==
  \/ Start(t) \/ Drop(t)
  \/ \E s \in Closed : Close(t, s)
  \/ ScheduleExpiry(t)
  \/ \E again \in BOOLEAN : WorkerCrash(t, again)
  \/ Requeue(t) \/ ClearLifecycle(t) \/ Dispatch(t)

-----------------------------------------------------------------------------
(* cleanup_expired_tasks *)

CleanFrame == UNCHANGED <<workVars, apiVars, age>>
CGoto(c, label) == cpc' = [cpc EXCEPT ![c] = label]

\* The task in hand is done: its entry leaves the round's list.
CNext(c) ==
  /\ CGoto(c, "loop")
  /\ todo' = [todo EXCEPT ![c] = @ \ {cur[c]}]
  /\ cur' = [cur EXCEPT ![c] = NoTask]
  /\ csnap' = [csnap EXCEPT ![c] = Absent]

\* list_due_expiring.
DueExpiring == {t \in Request : expiry[t] = 0}

\* list_due_purge; a round asks with the time stamp of its beginning.
DuePurge == {t \in Request : purge[t] = 0}

\* list_stale_task_ids: directories older than every retention period.
StaleInputs == {t \in Request : dirAge[t] >= OrphanAge}

\* First half of prune_stale_metadata: indexed ids without a record.
StaleMetadata ==
  {t \in Request : /\ ~Exists(t)
                   /\ \/ t \in index \cup pending \cup outbox
                      \/ expiry[t] # None
                      \/ purge[t] # None}

\* The list of a phase, in a round that found the tasks in stamp due for
\* purging when it began.
PhaseList(p, stamp) ==
  CASE p = "expire" -> DueExpiring
    [] p = "purge"  -> DuePurge \cap stamp
    [] p = "orphan" -> StaleInputs
    [] p = "prune"  -> StaleMetadata

\* The round goes on with the first of the phases ps that has anything to
\* do; a phase that finds nothing has no effect and is not a step.
Enter(c, ps, stamp) ==
  \E i \in 1 .. Len(ps) + 1 :
    /\ \A j \in 1 .. i - 1 : PhaseList(ps[j], stamp) = {}
    /\ IF i <= Len(ps)
         THEN /\ PhaseList(ps[i], stamp) # {}
              /\ phase' = [phase EXCEPT ![c] = ps[i]]
              /\ todo' = [todo EXCEPT ![c] = PhaseList(ps[i], stamp)]
              /\ due' = [due EXCEPT ![c] = IF ps[i] = "expire" THEN stamp ELSE {}]
         ELSE /\ phase' = [phase EXCEPT ![c] = "idle"]
              /\ todo' = [todo EXCEPT ![c] = {}]
              /\ due' = [due EXCEPT ![c] = {}]

\* A cleanup round begins.
BeginRound(c) ==
  /\ phase[c] = "idle"
  /\ Enter(c, <<"expire", "purge", "orphan", "prune">>, DuePurge)
  /\ UNCHANGED <<storeVars, keyVars, dueVars, dirAge, cpc, cur, csnap, faults>>
  /\ CleanFrame

\* A phase has worked through its list.
NextPhase(c) ==
  /\ cpc[c] = "loop" /\ todo[c] = {}
  /\ \/ /\ phase[c] = "expire"
        /\ Enter(c, <<"purge", "orphan", "prune">>, due[c])
     \/ /\ phase[c] = "purge"
        /\ Enter(c, <<"orphan", "prune">>, {})
     \/ /\ phase[c] = "orphan"
        /\ Enter(c, <<"prune">>, {})
  /\ UNCHANGED <<storeVars, keyVars, dueVars, dirAge, cpc, cur, csnap, faults>>
  /\ CleanFrame

\* What a round does with a task whose result is due: a missing record is
\* deleted for good, a task that is not closed is skipped.
ExpireAction(t) ==
  IF ~Exists(t) THEN "delete_get"
  ELSE IF rec[t].status \in {"PENDING", "RUNNING"} THEN "loop" ELSE "files"

ExpireGet(c, t) ==
  /\ phase[c] = "expire" /\ cpc[c] = "loop"
  /\ t \in todo[c]
  /\ CGoto(c, ExpireAction(t))
  /\ cur' = [cur EXCEPT ![c] = IF ExpireAction(t) = "loop" THEN NoTask ELSE t]
  /\ todo' = [todo EXCEPT ![c] = IF ExpireAction(t) = "loop" THEN @ \ {t} ELSE @]
  /\ UNCHANGED <<storeVars, keyVars, dueVars, dirAge, phase, csnap, due, faults>>
  /\ CleanFrame

\* The input goes before the record is marked.
ExpireFiles(c) ==
  /\ cpc[c] = "files"
  /\ RemoveInput(cur[c])
  /\ CGoto(c, "mark_get")
  /\ UNCHANGED <<storeVars, keyVars, dueVars, phase, todo, cur, csnap, due>>
  /\ CleanFrame

\* mark_expired: GET.
MarkGet(c) ==
  /\ cpc[c] = "mark_get"
  /\ \/ /\ Exists(cur[c])
        /\ csnap' = [csnap EXCEPT ![c] = rec[cur[c]]]
        /\ CGoto(c, "mark_write")
        /\ UNCHANGED <<todo, cur>>
     \/ /\ ~Exists(cur[c])
        /\ CNext(c)
  /\ UNCHANGED <<storeVars, keyVars, dueVars, dirAge, phase, due, faults>>
  /\ CleanFrame

\* The unconditional write: whatever the record is now, it becomes the one
\* read before, EXPIRED.
MarkWrite(c) ==
  /\ cpc[c] = "mark_write"
  /\ rec' = [rec EXCEPT ![cur[c]] = [csnap[c] EXCEPT !.status = "EXPIRED"]]
  /\ pending' = IF csnap[c].status = "PENDING" THEN pending \ {cur[c]} ELSE pending
  /\ CGoto(c, "mark_zrem")
  /\ UNCHANGED <<index, keyVars, dueVars, dirAge, phase, todo, cur, csnap, due, faults>>
  /\ CleanFrame

MarkZrem(c) ==
  /\ cpc[c] = "mark_zrem"
  /\ expiry' = [expiry EXCEPT ![cur[c]] = None]
  /\ CGoto(c, "schedule")
  /\ UNCHANGED <<storeVars, keyVars, purge, dirAge, phase, todo, cur, csnap, due, faults>>
  /\ CleanFrame

\* Mutant: the purge entry is forgotten.
SchedulePurgeNot(c) ==
  /\ cpc[c] = "schedule"
  /\ CNext(c)
  /\ UNCHANGED <<storeVars, keyVars, dueVars, dirAge, phase, due, faults>>
  /\ CleanFrame

SchedulePurge(c) ==
  /\ cpc[c] = "schedule"
  /\ purge' = [purge EXCEPT ![cur[c]] = Retention]
  /\ CNext(c)
  /\ UNCHANGED <<storeVars, keyVars, expiry, dirAge, phase, due, faults>>
  /\ CleanFrame

PurgeFiles(c, t) ==
  /\ phase[c] = "purge" /\ cpc[c] = "loop"
  /\ t \in todo[c]
  /\ RemoveInput(t)
  /\ cur' = [cur EXCEPT ![c] = t]
  /\ CGoto(c, "delete_get")
  /\ UNCHANGED <<storeVars, keyVars, dueVars, phase, todo, csnap, due>>
  /\ CleanFrame

\* delete: GET, to learn the idempotency key of the record.
DeleteGet(c) ==
  /\ cpc[c] = "delete_get"
  /\ csnap' = [csnap EXCEPT ![c] = rec[cur[c]]]
  /\ CGoto(c, "delete_write")
  /\ UNCHANGED <<storeVars, keyVars, dueVars, dirAge, phase, todo, cur, due, faults>>
  /\ CleanFrame

\* The key a delete takes with it.
DeletedKey(c) == IF csnap[c].status = "ABSENT" THEN NoKey ELSE key[cur[c]]

\* Its pipeline: record, indexes, entries, and the key whatever task it names.
DeleteWrite(c) ==
  LET t == cur[c]
      k == DeletedKey(c)
  IN
  /\ cpc[c] = "delete_write"
  /\ rec' = [rec EXCEPT ![t] = Absent]
  /\ index' = index \ {t}
  /\ pending' = pending \ {t}
  /\ expiry' = [expiry EXCEPT ![t] = None]
  /\ purge' = [purge EXCEPT ![t] = None]
  /\ IF k = NoKey
       THEN UNCHANGED keyVars
       ELSE /\ idem' = [idem EXCEPT ![k] = NoTask]
            /\ idemTtl' = [idemTtl EXCEPT ![k] = 0]
            /\ dropped' = IF idem[k] \in {t, NoTask} THEN dropped
                                                     ELSE dropped \cup {k}
  /\ CNext(c)
  /\ outbox' = outbox \ {t}
  /\ UNCHANGED <<dirAge, phase, due, faults, age, queue, closing, clearing,
                 apiVars>>

\* Mutant: every old directory counts as an orphan.
OrphanGetUnchecked(c, t) ==
  /\ phase[c] = "orphan" /\ cpc[c] = "loop"
  /\ t \in todo[c]
  /\ cur' = [cur EXCEPT ![c] = t]
  /\ CGoto(c, "orphan_delete")
  /\ UNCHANGED todo
  /\ UNCHANGED <<storeVars, keyVars, dueVars, dirAge, phase, csnap, due, faults>>
  /\ CleanFrame

\* Only a directory whose record is gone is an orphan.
OrphanGet(c, t) ==
  /\ phase[c] = "orphan" /\ cpc[c] = "loop"
  /\ t \in todo[c]
  /\ \/ /\ Exists(t)
        /\ todo' = [todo EXCEPT ![c] = @ \ {t}]
        /\ UNCHANGED <<cpc, cur>>
     \/ /\ ~Exists(t)
        /\ cur' = [cur EXCEPT ![c] = t]
        /\ CGoto(c, "orphan_delete")
        /\ UNCHANGED todo
  /\ UNCHANGED <<storeVars, keyVars, dueVars, dirAge, phase, csnap, due, faults>>
  /\ CleanFrame

OrphanDelete(c) ==
  /\ cpc[c] = "orphan_delete"
  /\ RemoveInput(cur[c])
  /\ CNext(c)
  /\ UNCHANGED <<storeVars, keyVars, dueVars, phase, due>>
  /\ CleanFrame

\* Second half: one pipeline for all of them, and the round is over.
PruneWrite(c) ==
  /\ phase[c] = "prune"
  /\ index' = index \ todo[c]
  /\ pending' = pending \ todo[c]
  /\ outbox' = outbox \ todo[c]
  /\ expiry' = [t \in Request |-> IF t \in todo[c] THEN None ELSE expiry[t]]
  /\ purge' = [t \in Request |-> IF t \in todo[c] THEN None ELSE purge[t]]
  /\ phase' = [phase EXCEPT ![c] = "idle"]
  /\ todo' = [todo EXCEPT ![c] = {}]
  /\ due' = [due EXCEPT ![c] = {}]
  /\ UNCHANGED <<rec, keyVars, dirAge, cpc, cur, csnap, faults, queue, closing,
                 clearing, apiVars, age>>

CleanNext(c) ==
  \/ BeginRound(c)
  \/ \E t \in Request : ExpireGet(c, t) \/ PurgeFiles(c, t) \/ OrphanGet(c, t)
  \/ ExpireFiles(c) \/ MarkGet(c) \/ MarkWrite(c) \/ MarkZrem(c) \/ SchedulePurge(c)
  \/ NextPhase(c) \/ DeleteGet(c) \/ DeleteWrite(c)
  \/ OrphanDelete(c) \/ PruneWrite(c)

-----------------------------------------------------------------------------
(* Time, initial state and specification *)

CountDown(f) == [t \in Request |-> IF f[t] > 0 THEN f[t] - 1 ELSE f[t]]

\* An age is not told apart from its limit on.
Older(n, limit) == IF n # None /\ n < limit THEN n + 1 ELSE n

\* One tick: deadlines come closer, Redis drops the keys whose TTL runs out.
Tick ==
  /\ expiry' = CountDown(expiry)
  /\ purge' = CountDown(purge)
  /\ idemTtl' = [k \in Key |-> IF idemTtl[k] > 0 THEN idemTtl[k] - 1 ELSE 0]
  /\ idem' = [k \in Key |-> IF idemTtl[k] > 1 THEN idem[k] ELSE NoTask]
  /\ age' = [t \in Request |-> IF t \in index THEN Older(age[t], IdemTtl) ELSE 0]
  /\ dirAge' = [t \in Request |-> Older(dirAge[t], OrphanAge)]
  /\ UNCHANGED <<storeVars, dropped, workVars, apiVars, cleanVars, faults>>

Init ==
  /\ rec = [t \in Request |-> Absent] /\ index = {} /\ pending = {}
  /\ idem = [k \in Key |-> NoTask] /\ idemTtl = [k \in Key |-> 0]
  /\ age = [t \in Request |-> 0] /\ dropped = {}
  /\ expiry = [t \in Request |-> None] /\ purge = [t \in Request |-> None]
  /\ dirAge = [t \in Request |-> None]
  /\ queue = {} /\ outbox = {} /\ clearing = {}
  /\ closing = [t \in Request |-> "none"]
  /\ pc = [r \in Request |-> "new"] /\ key = [r \in Request |-> NoKey]
  /\ found = [r \in Request |-> NoTask] /\ snap = [r \in Request |-> Absent]
  /\ phase = [c \in Cleaner |-> "idle"] /\ cpc = [c \in Cleaner |-> "loop"]
  /\ todo = [c \in Cleaner |-> {}] /\ due = [c \in Cleaner |-> {}]
  /\ cur = [c \in Cleaner |-> NoTask] /\ csnap = [c \in Cleaner |-> Absent]
  /\ faults = 0

Next ==
  \/ \E r \in Request : ApiNext(r)
  \/ \E t \in Request : WorkNext(t)
  \/ \E c \in Cleaner : CleanNext(c)
  \/ Tick

Spec == Init /\ [][Next]_vars

\* The web server goes on with a request, workers take messages and finish,
\* celery beat starts cleanup and reconcile rounds for ever, time passes.  A
\* round keeps returning to its first step, so each kind of cleanup step is
\* taken together.
Fairness ==
  /\ WF_vars(Tick)
  /\ \A r \in Request : WF_vars(ApiStep(r))
  /\ \A t \in Request : /\ WF_vars(Start(t))
                        /\ WF_vars(\E s \in Closed : Close(t, s))
                        /\ WF_vars(ScheduleExpiry(t))
                        /\ WF_vars(ClearLifecycle(t))
                        /\ WF_vars(Dispatch(t))
  /\ \A c \in Cleaner : WF_vars(CleanNext(c))

FairSpec == Spec /\ Fairness

-----------------------------------------------------------------------------
(* Properties *)

\* The remaining time of an entry, or None.
Entry(limit) == None .. limit

StoreTypeOK ==
  /\ rec \in [Request -> Record]
  /\ index \subseteq Request /\ pending \subseteq Request
  /\ idem \in [Key -> Request \cup {NoTask}]
  /\ idemTtl \in [Key -> 0 .. IdemTtl]
  /\ age \in [Request -> 0 .. IdemTtl]
  /\ dropped \subseteq Key
  /\ expiry \in [Request -> Entry(SuccessTtl) \cup Entry(FailedTtl)]
  /\ purge \in [Request -> Entry(Retention)]
  /\ dirAge \in [Request -> Entry(OrphanAge)]

WorkTypeOK ==
  /\ queue \subseteq Request /\ outbox \subseteq Request /\ clearing \subseteq Request
  /\ closing \in [Request -> Closed \cup {"none"}]
  /\ faults \in Nat

ApiTypeOK ==
  /\ pc \in [Request -> ApiPc] /\ key \in [Request -> Key \cup {NoKey}]
  /\ \A r \in Request : pc[r] = "find" => key[r] # NoKey
  /\ found \in [Request -> Request \cup {NoTask}]
  /\ snap \in [Request -> Record]

CleanTypeOK ==
  /\ phase \in [Cleaner -> Phase] /\ cpc \in [Cleaner -> CleanerPc]
  /\ todo \in [Cleaner -> SUBSET Request] /\ due \in [Cleaner -> SUBSET Request]
  /\ cur \in [Cleaner -> Request \cup {NoTask}]
  /\ csnap \in [Cleaner -> Record]

\* Types of the store, of the work in flight, of the create_task handlers and
\* of the cleanup rounds.
TypeOK == StoreTypeOK /\ WorkTypeOK /\ ApiTypeOK /\ CleanTypeOK

\* While its TTL runs, the key of an indexed task leads back to that task, so
\* concurrent duplicates, refusals and re-use after a purge never register a
\* second one (_ADMIT_IDEMPOTENT_SCRIPT).  The only exception is a key that
\* the delete of an older task took away.
KeyNamesTask ==
  \A t \in index :
    /\ key[t] # NoKey
    /\ age[t] < IdemTtl
    /\ key[t] \notin dropped
    => idem[key[t]] = t

\* However many requests pass the early check together, the tasks that wait
\* for their first execution never exceed TASK_PENDING_LIMIT; only recovered
\* tasks come on top of it (QueueFull in the admission scripts).
FreshPendingBounded ==
  Cardinality({t \in pending : rec[t].retry = 0}) <= PendingLimit

\* A task that waits in the broker or runs has its input bound and on disk:
\* neither a failing request nor a cleanup round takes it away.
InputKept ==
  \A t \in Request :
    \/ t \in queue /\ rec[t].status = "PENDING"
    \/ rec[t].status = "RUNNING"
    => rec[t].bound /\ t \in Inputs

\* Only the winner of an admission writes contract bytes, and they go before
\* its index entry does: no refused or replayed request leaves a directory.
OnlyWinnerHoldsInput == Inputs \subseteq index

-----------------------------------------------------------------------------
(* The inductive invariant *)

\* pcs before the admission script, and between it and _enqueue_task.
PreAdmit == {"new", "find", "find_get", "count", "admit", "replay_get"}
Holding  == {"persist", "attach_get", "attach_write", "enqueue", "cleanup"}

\* The task was admitted or given up, and nobody will execute it any more.
Settled(t) ==
  /\ pc[t] \notin PreAdmit \cup Holding
  /\ rec[t].status \notin {"PENDING", "RUNNING"}

\* The task runs, or a message or an intent will make it run.
Live(t) ==
  \/ rec[t].status = "RUNNING"
  \/ rec[t].status = "PENDING" /\ t \in queue \cup outbox

\* An id nobody has admitted yet has left no trace.
UnknownBlank ==
  \A t \in Request : pc[t] \in PreAdmit =>
    /\ ~Exists(t)
    /\ t \notin index \cup queue \cup outbox \cup clearing
    /\ dirAge[t] = None
    /\ \A k \in Key : idem[k] # t

\* A reservation belongs to its request until it is enqueued.
ReservedOwned ==
  \A t \in Request : pc[t] \in Holding =>
    /\ rec[t].status = "PENDING" /\ rec[t].retry = 0
    /\ t \notin queue \cup outbox
    /\ t \in index
    /\ pc[t] = "attach_write" => snap[t].status = "PENDING" /\ snap[t].retry = 0
    /\ pc[t] \in {"attach_get", "attach_write", "enqueue"} => t \in Inputs
    /\ pc[t] = "enqueue" => rec[t].bound

\* The PENDING index is exact.
PendingExact == \A t \in Request : t \in pending <=> rec[t].status = "PENDING"

\* What will run has its input.
LiveHasInput ==
  \A t \in Request : Live(t) => rec[t].bound /\ t \in Inputs

\* Lifecycle entries exist only for settled tasks.
EntriesSettled ==
  \A t \in Request :
    \/ expiry[t] # None \/ purge[t] # None
    \/ closing[t] # "none" \/ pc[t] = "fail_schedule"
    => Settled(t)

\* Cleanup works on settled tasks; among directories it first only looks.
CleanupSettled ==
  \A c \in Cleaner :
    /\ cpc[c] # "loop" => cur[c] \in Request /\ Settled(cur[c])
    /\ \A t \in due[c] : Settled(t)
    /\ \A t \in todo[c] : pc[t] \notin PreAdmit /\ (phase[c] # "orphan" => Settled(t))

\* A key names the admitted task that owns it, and lives as long as the code
\* counts from its admission.
KeyOwned ==
  \A k \in Key : idem[k] # NoTask =>
    /\ idemTtl[k] > 0
    /\ key[idem[k]] = k
    /\ idem[k] \in index => idemTtl[k] + age[idem[k]] = IdemTtl

\* Admission, execution and cleanup keep out of each other's way: cleanup and
\* the failure paths of create_task only touch tasks nobody will execute.
AdmissionInv ==
  /\ UnknownBlank /\ ReservedOwned /\ PendingExact
  /\ LiveHasInput /\ EntriesSettled /\ CleanupSettled
  /\ KeyOwned /\ KeyNamesTask

-----------------------------------------------------------------------------
(* What the documentation says and the code does not keep, and liveness *)

\* Two indexed tasks share a key only if the older one was admitted at least
\* a key TTL ago ("the same key returns the same task in its TTL").
OneTaskPerKey ==
  \A t, u \in index :
    /\ t # u
    /\ key[t] = key[u]
    /\ key[t] # NoKey
    => age[t] = IdemTtl \/ age[u] = IdemTtl

\* A closed task has an expiry or purge entry, or somebody is about to write
\* it ("successful results ... enter their TTL").
ClosedIsScheduled ==
  \A t \in Request :
    rec[t].status \in Closed =>
      \/ expiry[t] # None \/ purge[t] # None
      \/ closing[t] # "none"
      \/ pc[t] = "fail_schedule"

\* Nothing of a task is left, and no key leads to it.
Gone(t) ==
  /\ ~Exists(t) /\ t \notin Inputs
  /\ t \notin index \cup pending
  /\ expiry[t] = None /\ purge[t] = None
  /\ \A k \in Key : idem[k] # t

\* Cleanup reclaims every closed task: record, index entries, key and input,
\* also when directories could not be removed at first.
ClosedIsReclaimed ==
  \A t \in Request : rec[t].status \in Closed ~> Gone(t)

\* A reservation is executed or closed: failed uploads, failed bindings and
\* failed publishes leave no task waiting for ever (_mark_reserved_task_failed).
ReservationResolved ==
  \A t \in Request : rec[t].status = "PENDING" ~> rec[t].status # "PENDING"
=============================================================================
