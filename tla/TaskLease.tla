----------------------------- MODULE TaskLease -----------------------------
(***************************************************************************)
(* Execution of admitted review tasks: the Redis task record with its      *)
(* fenced lease, the Celery worker with its heartbeat thread, the          *)
(* reconciler that recovers lost work through a dispatch outbox, and the   *)
(* API handler that enqueues a task or closes it when publishing fails.    *)
(*                                                                         *)
(* Every Lua script and every MULTI pipeline of redis_task_store.py is one *)
(* atomic step.  A store method that GETs the record, checks it and then   *)
(* evaluates a script is two steps, with the record it read kept in a      *)
(* local snapshot: other processes may run between the two.                *)
(*                                                                         *)
(* Time is discrete.  A record carries the age of its heartbeat_at instead *)
(* of the timestamp, and a lock its remaining TTL; Tick moves all of them. *)
(* Ages saturate just above HeartbeatTimeout, the only value the code      *)
(* compares them with.  A record's stage is left out: a record is QUEUED   *)
(* exactly when it is PENDING.  Expiry and purging of closed tasks belong  *)
(* to module TaskAdmission.                                                *)
(***************************************************************************)
EXTENDS Integers, FiniteSets

CONSTANTS
  Task,              \* task ids already admitted as PENDING
  Worker,            \* Celery worker processes (prefetch 1)
  Reconciler,        \* executions of the periodic reconcile task
  HeartbeatTimeout,  \* TASK_HEARTBEAT_TIMEOUT_SECONDS, in ticks
  MaxRetries,        \* TASK_MAX_RETRIES
  ProgressCalls,     \* update_progress calls of one execution (3 in the code)
  MaxFaults          \* bound: lost processes and uncertain publishes

ASSUME TaskAssumption == Task # {}
ASSUME ProcessesAssumption == IsFiniteSet(Worker) /\ IsFiniteSet(Reconciler)
ASSUME HeartbeatTimeoutAssumption == HeartbeatTimeout \in Nat \ {0}
ASSUME MaxRetriesAssumption == MaxRetries \in Nat
ASSUME ProgressCallsAssumption == ProgressCalls \in Nat \ {0}
ASSUME MaxFaultsAssumption == MaxFaults \in Nat

VARIABLES
  \* Redis: record, status indexes, running set, dispatch outbox
  task, statusSets, running, outbox,
  \* Redis: lock with its TTL, fence and epoch
  lock, lockTtl, fence, epoch,
  \* Redis: dead letters, and terminal events in the stage-event ledger
  dlq, closings,
  \* broker: messages waiting per task
  queue,
  \* API handler of create_task, one per task
  api, apiSnap,
  \* workers: control, message, lease token, record read, calls made,
  \* outcome to record, whether a failure is dead-lettered
  pc, job, token, snap, step, outcome, deadLetter,
  \* heartbeat threads alive, and heartbeats between their GET and their write
  beating, beats,
  \* reconcilers: control, scanned tasks, task in hand, listed dispatches
  rpc, rstale, rcur, rtodo,
  \* environment
  faults

recordVars == <<task, statusSets, running, outbox>>
leaseVars  == <<lock, lockTtl, fence, epoch>>
closeVars  == <<dlq, closings>>
apiVars    == <<api, apiSnap>>
localVars  == <<token, snap, step, outcome, deadLetter>>
beatVars   == <<beating, beats>>
recVars    == <<rpc, rstale, rcur, rtodo>>
vars == <<recordVars, leaseVars, closeVars, queue, apiVars, pc, job, localVars,
          beatVars, recVars, faults>>

-----------------------------------------------------------------------------
(* Types *)

Status == {"PENDING", "RUNNING", "SUCCEEDED", "FAILED"}

\* Ages above the timeout are not told apart.
Age == 0 .. HeartbeatTimeout + 1

Record == [status: Status, lease_token: Nat, retry_count: Nat, heartbeat_age: Age]

\* The record create_task admits: PENDING, never leased.
Admitted == [status |-> "PENDING", lease_token |-> 0, retry_count |-> 0,
             heartbeat_age |-> 0]

\* Fills a local that has not been assigned yet.
AnyTask == CHOOSE t \in Task : TRUE

Beat    == [worker: Worker, task: Task, token: Nat, rec: Record]
Scanned == [task: Task, token: Nat, retry: Nat]
InHand  == [task: Task, token: Nat, rec: Record]

\* pcs at which execute_contract_review_task holds a lease token
Leased == {"mark_running", "write_running", "abandon", "execute",
           "write_progress", "close", "write_close", "release", "dead_letter",
           "finally"}
WorkerPc == {"idle"} \cup Leased
\* pcs reached only after mark_running has written RUNNING
Started == Leased \ {"mark_running", "write_running", "abandon"}

ReconcilerPc == {"idle", "loop", "requeue_write", "lost_write", "lost_dlq",
                 "dispatch", "publish", "ack"}
ApiPc == {"enqueue", "fail_read", "fail_lock", "fail_write", "done", "raised"}

-----------------------------------------------------------------------------
(* The Lua scripts *)

\* Mutants of CanAcquire: without the PENDING index, without the lock.
CanAcquireUnindexed(t) == lock[t] = 0
CanAcquireLocked(t) == "PENDING" \in statusSets[t]

\* _ACQUIRE_LEASE_SCRIPT: the task is indexed PENDING and has no live lock.
CanAcquire(t) ==
  /\ "PENDING" \in statusSets[t]
  /\ lock[t] = 0

\* Mutant: the epoch is only initialised, never incremented.
NextTokenReused(t) == IF epoch[t] = 0 THEN 1 ELSE epoch[t]

\* INCR of the per-task epoch: the next fencing token.
NextToken(t) == epoch[t] + 1

\* Mutant: a lock that outlives the heartbeat timeout.
LeaseTtlPadded == HeartbeatTimeout + 2

\* TTL given to the lock; heartbeats never extend it.
LeaseTtl == HeartbeatTimeout

\* Mutant: an expired lock is good enough, the fence is not compared.
LeaseHeldExpired(t, tok) == lock[t] \in {0, tok}

\* _LEASE_WRITE_SCRIPT, worker mode: fence and live lock both match.
LeaseHeld(t, tok) ==
  /\ fence[t] = tok
  /\ lock[t] = tok

\* Mutant: recovery asks for the lock that a lost worker cannot renew.
CanRecoverLive(t, tok) ==
  /\ fence[t] = tok
  /\ lock[t] = tok
  /\ t \in running

\* _LEASE_WRITE_SCRIPT, recovery mode: same generation, lock expired, and
\* the task is still in the running set.
CanRecover(t, tok) ==
  /\ fence[t] = tok
  /\ lock[t] = 0
  /\ t \in running

\* Mutant: the previous status indexes are not left.
WriteRecordKeepsIndex(t, rec, prev, dispatchPending) ==
  /\ task' = [task EXCEPT ![t] = rec]
  /\ statusSets' = [statusSets EXCEPT ![t] = @ \cup {rec.status}]
  /\ running' = IF rec.status = "RUNNING" THEN running \cup {t}
                                          ELSE running \ {t}
  /\ outbox' = IF rec.status = "RUNNING" THEN outbox \ {t}
               ELSE IF dispatchPending THEN outbox \cup {t} ELSE outbox

\* Body of _LEASE_WRITE_SCRIPT after its checks: the record, the status
\* indexes (prev is the set of statuses to leave), running set and outbox.
WriteRecord(t, rec, prev, dispatchPending) ==
  /\ task' = [task EXCEPT ![t] = rec]
  /\ statusSets' = [statusSets EXCEPT ![t] = (@ \ prev) \cup {rec.status}]
  /\ running' = IF rec.status = "RUNNING" THEN running \cup {t}
                                          ELSE running \ {t}
  /\ outbox' = IF rec.status = "RUNNING" THEN outbox \ {t}
               ELSE IF dispatchPending THEN outbox \cup {t} ELSE outbox

\* Mutant: recovery moves the fence without taking the number from the epoch.
AdvanceFenceOnly(t) ==
  /\ fence' = [fence EXCEPT ![t] = NextToken(t)]
  /\ UNCHANGED <<lock, lockTtl, epoch>>

\* The recovery branch first moves to a new generation.
AdvanceFence(t) ==
  /\ epoch' = [epoch EXCEPT ![t] = NextToken(t)]
  /\ fence' = [fence EXCEPT ![t] = NextToken(t)]
  /\ UNCHANGED <<lock, lockTtl>>

\* _RELEASE_LEASE_SCRIPT: only the current holder drops the lock and leaves
\* the running set; for anybody else it changes nothing.
ReleaseLease(t, tok) ==
  /\ IF LeaseHeld(t, tok)
       THEN /\ lock' = [lock EXCEPT ![t] = 0]
            /\ lockTtl' = [lockTtl EXCEPT ![t] = 0]
            /\ running' = running \ {t}
       ELSE UNCHANGED <<lock, lockTtl, running>>
  /\ UNCHANGED <<task, statusSets, outbox, fence, epoch>>

\* Check made on the record read by heartbeat, update_progress,
\* mark_succeeded, mark_failed and requeue.
OwnedBy(rec, tok) == rec.status = "RUNNING" /\ rec.lease_token = tok

\* Check made on the record read by mark_running and mark_pending_failed.
IsQueued(rec) == rec.status = "PENDING"

\* stale_running: the heartbeat is older than the timeout.
IsStale(rec) == /\ rec.status = "RUNNING"
                /\ rec.lease_token > 0
                /\ rec.heartbeat_age > HeartbeatTimeout

-----------------------------------------------------------------------------
(* Time *)

\* Mutant: ages grow without end.
OlderUnbounded(rec) ==
  IF rec.status = "RUNNING" THEN [rec EXCEPT !.heartbeat_age = @ + 1] ELSE rec

\* A heartbeat_at that is set keeps getting older, also in a snapshot.
Older(rec) ==
  IF rec.status = "RUNNING" /\ rec.heartbeat_age <= HeartbeatTimeout
    THEN [rec EXCEPT !.heartbeat_age = @ + 1]
    ELSE rec

\* One tick: heartbeats age, and Redis drops the locks whose TTL runs out.
Tick ==
  /\ task' = [t \in Task |-> Older(task[t])]
  /\ snap' = [w \in Worker |-> Older(snap[w])]
  /\ beats' = {[b EXCEPT !.rec = Older(b.rec)] : b \in beats}
  /\ lockTtl' = [t \in Task |-> IF lockTtl[t] > 0 THEN lockTtl[t] - 1 ELSE 0]
  /\ lock' = [t \in Task |-> IF lockTtl[t] > 1 THEN lock[t] ELSE 0]
  /\ UNCHANGED <<statusSets, running, outbox, fence, epoch, closeVars, queue,
                 apiVars, pc, job, token, step, outcome, deadLetter, beating,
                 recVars, faults>>

-----------------------------------------------------------------------------
(* The API handler: _enqueue_task and mark_pending_failed *)

\* Everything an API step leaves alone when it only moves the handler.
ApiFrame == UNCHANGED <<leaseVars, running, outbox, dlq, pc, job, localVars,
                        beatVars, recVars>>

\* apply_async succeeds.
ApiEnqueue(t) ==
  /\ api[t] = "enqueue"
  /\ api' = [api EXCEPT ![t] = "done"]
  /\ queue' = [queue EXCEPT ![t] = @ + 1]
  /\ UNCHANGED <<task, statusSets, closings, apiSnap, faults>>
  /\ ApiFrame

\* apply_async raises although the broker may have taken the message.
ApiEnqueueRaises(t, taken) ==
  /\ api[t] = "enqueue"
  /\ faults + taken <= MaxFaults
  /\ faults' = faults + taken
  /\ api' = [api EXCEPT ![t] = "fail_read"]
  /\ queue' = [queue EXCEPT ![t] = @ + taken]
  /\ UNCHANGED <<task, statusSets, closings, apiSnap>>
  /\ ApiFrame

\* mark_pending_failed, first step: GET, and give up unless still queued.
ApiFailRead(t) ==
  /\ api[t] = "fail_read"
  /\ \/ /\ IsQueued(task[t])
        /\ apiSnap' = [apiSnap EXCEPT ![t] = task[t]]
        /\ api' = [api EXCEPT ![t] = "fail_lock"]
     \/ /\ ~IsQueued(task[t])
        /\ api' = [api EXCEPT ![t] = "raised"]
        /\ UNCHANGED apiSnap
  /\ UNCHANGED <<task, statusSets, closings, queue, faults>>
  /\ ApiFrame

\* Second step: EXISTS on the lock key.
ApiFailLock(t) ==
  /\ api[t] = "fail_lock"
  /\ api' = [api EXCEPT ![t] = IF lock[t] = 0 THEN "fail_write" ELSE "raised"]
  /\ UNCHANGED <<task, statusSets, closings, queue, apiSnap, faults>>
  /\ ApiFrame

\* Third step: _write_task_without_lease, an unconditional pipeline that
\* touches neither the running set nor the outbox.
ApiFailWrite(t) ==
  /\ api[t] = "fail_write"
  /\ api' = [api EXCEPT ![t] = "raised"]
  /\ task' = [task EXCEPT ![t] = [apiSnap[t] EXCEPT !.status = "FAILED"]]
  /\ statusSets' = [statusSets EXCEPT ![t] = (@ \ {"PENDING"}) \cup {"FAILED"}]
  /\ closings' = [closings EXCEPT ![t] = @ + 1]
  /\ UNCHANGED <<queue, apiSnap, faults>>
  /\ ApiFrame

ApiNext(t) ==
  \/ ApiEnqueue(t)
  \/ \E taken \in {0, 1} : ApiEnqueueRaises(t, taken)
  \/ ApiFailRead(t)
  \/ ApiFailLock(t)
  \/ ApiFailWrite(t)

-----------------------------------------------------------------------------
(* The worker: execute_contract_review_task *)

\* Everything a worker step leaves alone besides the record and the lease.
WorkerFrame == UNCHANGED <<apiVars, recVars>>

Goto(w, label) == pc' = [pc EXCEPT ![w] = label]

\* The record object a store method read goes out of scope.
Forget(w) == snap' = [snap EXCEPT ![w] = Admitted]

\* execute_contract_review_task is over: its locals are gone.
Return(w) ==
  /\ Goto(w, "idle")
  /\ Forget(w)
  /\ token' = [token EXCEPT ![w] = 0]
  /\ step' = [step EXCEPT ![w] = 0]
  /\ outcome' = [outcome EXCEPT ![w] = "FAILED"]
  /\ deadLetter' = [deadLetter EXCEPT ![w] = FALSE]
  /\ UNCHANGED job

\* A message is delivered and acquire_lease wins: a new generation and a lock
\* with a TTL.  (Nothing happens between the two that others could see:
\* a worker lost there leaves the message to the broker.)
Acquire(w, t) ==
  /\ pc[w] = "idle"
  /\ queue[t] > 0
  /\ CanAcquire(t)
  /\ queue' = [queue EXCEPT ![t] = @ - 1]
  /\ job' = [job EXCEPT ![w] = t]
  /\ epoch' = [epoch EXCEPT ![t] = NextToken(t)]
  /\ fence' = [fence EXCEPT ![t] = NextToken(t)]
  /\ lock' = [lock EXCEPT ![t] = NextToken(t)]
  /\ lockTtl' = [lockTtl EXCEPT ![t] = LeaseTtl]
  /\ token' = [token EXCEPT ![w] = NextToken(t)]
  /\ Goto(w, "mark_running")
  /\ UNCHANGED <<recordVars, closeVars, snap, step, outcome, deadLetter,
                 beatVars, faults>>
  /\ WorkerFrame

\* acquire_lease returns None: the task returns and its message is acked.
AcquireRefused(w, t) ==
  /\ pc[w] = "idle"
  /\ queue[t] > 0
  /\ ~CanAcquire(t)
  /\ queue' = [queue EXCEPT ![t] = @ - 1]
  /\ UNCHANGED <<recordVars, leaseVars, closeVars, pc, job, localVars, beatVars,
                 faults>>
  /\ WorkerFrame

\* mark_running reads the record and prepares the RUNNING one.
MarkRunningRead(w) ==
  LET rec == task[job[w]] IN
  /\ pc[w] = "mark_running"
  /\ \/ /\ IsQueued(rec)
        /\ snap' = [snap EXCEPT ![w] =
             [rec EXCEPT !.status = "RUNNING", !.lease_token = token[w],
                         !.heartbeat_age = 0]]
        /\ Goto(w, "write_running")
     \/ /\ ~IsQueued(rec)
        /\ Goto(w, "abandon")
        /\ UNCHANGED snap
  /\ UNCHANGED <<recordVars, leaseVars, closeVars, queue, job, token, step,
                 outcome, deadLetter, beatVars, faults>>
  /\ WorkerFrame

\* ... and writes it under the lease, after which the heartbeat thread
\* starts; a refused write leads to the release of the lease.
MarkRunningWrite(w) ==
  LET t == job[w] IN
  /\ pc[w] = "write_running"
  /\ \/ /\ LeaseHeld(t, token[w])
        /\ WriteRecord(t, snap[w], {"PENDING"}, FALSE)
        /\ beating' = [beating EXCEPT ![w] = TRUE]
        /\ Goto(w, "execute")
     \/ /\ ~LeaseHeld(t, token[w])
        /\ Goto(w, "abandon")
        /\ UNCHANGED <<recordVars, beating>>
  /\ Forget(w)
  /\ UNCHANGED <<leaseVars, closeVars, queue, job, token, step, outcome,
                 deadLetter, beats, faults>>
  /\ WorkerFrame

\* mark_running returned None: release the lease, return, message acked.
Abandon(w) ==
  /\ pc[w] = "abandon"
  /\ ReleaseLease(job[w], token[w])
  /\ Return(w)
  /\ UNCHANGED <<closeVars, queue, beatVars, faults>>
  /\ WorkerFrame

\* One update_progress call is over, its result ignored; after the last one
\* comes mark_succeeded.
AfterProgress(w) ==
  /\ step' = [step EXCEPT ![w] = @ + 1]
  /\ Goto(w, IF step[w] + 1 = ProgressCalls THEN "close" ELSE "execute")
  /\ outcome' = [outcome EXCEPT ![w] =
                   IF step[w] + 1 = ProgressCalls THEN "SUCCEEDED" ELSE @]

\* update_progress reads the record; a record that is no longer the worker's
\* ends the call.
ProgressRead(w) ==
  LET rec == task[job[w]] IN
  /\ pc[w] = "execute"
  /\ \/ /\ OwnedBy(rec, token[w])
        /\ snap' = [snap EXCEPT ![w] = rec]
        /\ Goto(w, "write_progress")
        /\ UNCHANGED <<step, outcome>>
     \/ /\ ~OwnedBy(rec, token[w])
        /\ AfterProgress(w)
        /\ UNCHANGED snap
  /\ UNCHANGED <<recordVars, leaseVars, closeVars, queue, job, token,
                 deadLetter, beatVars, faults>>
  /\ WorkerFrame

\* ... and writes it back if the lease is still held.
ProgressWrite(w) ==
  LET t == job[w] IN
  /\ pc[w] = "write_progress"
  /\ IF LeaseHeld(t, token[w]) THEN WriteRecord(t, snap[w], {}, FALSE)
                               ELSE UNCHANGED recordVars
  /\ AfterProgress(w)
  /\ Forget(w)
  /\ UNCHANGED <<leaseVars, closeVars, queue, job, token, deadLetter, beatVars,
                 faults>>
  /\ WorkerFrame

\* load_manifest (before the first call) or the handler (before the last one)
\* raises.  A TaskExecutionFailure of the handler says whether to dead-letter;
\* any other exception always does.
Raises(w, dead) ==
  /\ pc[w] = "execute"
  /\ (dead /\ step[w] = 0) \/ step[w] = ProgressCalls - 1
  /\ deadLetter' = [deadLetter EXCEPT ![w] = dead]
  /\ Goto(w, "close")
  /\ UNCHANGED <<recordVars, leaseVars, closeVars, queue, job, token, snap,
                 step, outcome, beatVars, faults>>
  /\ WorkerFrame

\* mark_succeeded / mark_failed read the record and prepare the final one.
CloseRead(w) ==
  LET rec == task[job[w]] IN
  /\ pc[w] = "close"
  /\ \/ /\ OwnedBy(rec, token[w])
        /\ snap' = [snap EXCEPT ![w] = [rec EXCEPT !.status = outcome[w]]]
        /\ Goto(w, "write_close")
     \/ /\ ~OwnedBy(rec, token[w])
        /\ Goto(w, "finally")
        /\ UNCHANGED snap
  /\ UNCHANGED <<recordVars, leaseVars, closeVars, queue, job, token, step,
                 outcome, deadLetter, beatVars, faults>>
  /\ WorkerFrame

\* Mutant: a failure whose write was refused is dead-lettered all the same.
CloseWriteDeadLetters(w) ==
  LET t == job[w] IN
  /\ pc[w] = "write_close"
  /\ \/ /\ LeaseHeld(t, token[w])
        /\ WriteRecord(t, snap[w], {"RUNNING"}, FALSE)
        /\ closings' = [closings EXCEPT ![t] = @ + 1]
        /\ Goto(w, "release")
     \/ /\ ~LeaseHeld(t, token[w])
        /\ Goto(w, "dead_letter")
        /\ UNCHANGED <<recordVars, closings>>
  /\ Forget(w)
  /\ UNCHANGED <<leaseVars, dlq, queue, job, token, step, outcome, deadLetter,
                 beatVars, faults>>
  /\ WorkerFrame

\* ... and write it, with its terminal event, under the lease.  A refused
\* write returns None: the result is dropped.
CloseWrite(w) ==
  LET t == job[w] IN
  /\ pc[w] = "write_close"
  /\ \/ /\ LeaseHeld(t, token[w])
        /\ WriteRecord(t, snap[w], {"RUNNING"}, FALSE)
        /\ closings' = [closings EXCEPT ![t] = @ + 1]
        /\ Goto(w, "release")
     \/ /\ ~LeaseHeld(t, token[w])
        /\ Goto(w, "finally")
        /\ UNCHANGED <<recordVars, closings>>
  /\ Forget(w)
  /\ UNCHANGED <<leaseVars, dlq, queue, job, token, step, outcome, deadLetter,
                 beatVars, faults>>
  /\ WorkerFrame

\* release_lease at the end of mark_succeeded / mark_failed; a failure that
\* asks for it goes on to the dead letters.
CloseRelease(w) ==
  /\ pc[w] = "release"
  /\ ReleaseLease(job[w], token[w])
  /\ Goto(w, IF outcome[w] = "FAILED" /\ deadLetter[w] THEN "dead_letter"
                                                       ELSE "finally")
  /\ UNCHANGED <<closeVars, queue, job, localVars, beatVars, faults>>
  /\ WorkerFrame

\* push_dead_letter
DeadLetter(w) ==
  /\ pc[w] = "dead_letter"
  /\ dlq' = [dlq EXCEPT ![job[w]] = @ + 1]
  /\ Goto(w, "finally")
  /\ UNCHANGED <<recordVars, leaseVars, closings, queue, job, localVars,
                 beatVars, faults>>
  /\ WorkerFrame

\* The finally block: stop the heartbeat thread (join gives up after one
\* second, so a beat in flight may outlive it), release, message acked.
Finally(w) ==
  /\ pc[w] = "finally"
  /\ ReleaseLease(job[w], token[w])
  /\ beating' = [beating EXCEPT ![w] = FALSE]
  /\ Return(w)
  /\ UNCHANGED <<closeVars, queue, beats, faults>>
  /\ WorkerFrame

\* The worker process is lost: its threads die with it, the unacknowledged
\* message goes back to the queue, the lock stays until its TTL runs out.
WorkerCrash(w) ==
  /\ pc[w] # "idle"
  /\ faults < MaxFaults
  /\ faults' = faults + 1
  /\ queue' = [queue EXCEPT ![job[w]] = @ + 1]
  /\ beating' = [beating EXCEPT ![w] = FALSE]
  /\ beats' = {b \in beats : b.worker # w}
  /\ Return(w)
  /\ UNCHANGED <<recordVars, leaseVars, closeVars>>
  /\ WorkerFrame

\* The heartbeat thread, first half of heartbeat(): GET and check.  A record
\* that is no longer the worker's ends the thread.
BeatRead(w) ==
  LET t == job[w]  rec == task[t] IN
  /\ beating[w]
  /\ ~\E b \in beats : b.worker = w /\ b.task = t /\ b.token = token[w]
  /\ \/ /\ OwnedBy(rec, token[w])
        /\ beats' = beats \cup {[worker |-> w, task |-> t, token |-> token[w],
                                 rec |-> [rec EXCEPT !.heartbeat_age = 0]]}
        /\ UNCHANGED beating
     \/ /\ ~OwnedBy(rec, token[w])
        /\ beating' = [beating EXCEPT ![w] = FALSE]
        /\ UNCHANGED beats
  /\ UNCHANGED <<recordVars, leaseVars, closeVars, queue, pc, job, localVars,
                 faults>>
  /\ WorkerFrame

\* Second half: write the record that was read, under the lease.  A refused
\* write ends the thread.
BeatWrite(b) ==
  /\ beats' = beats \ {b}
  /\ \/ /\ LeaseHeld(b.task, b.token)
        /\ WriteRecord(b.task, b.rec, {}, FALSE)
        /\ UNCHANGED beating
     \/ /\ ~LeaseHeld(b.task, b.token)
        /\ beating' = [beating EXCEPT ![b.worker] =
             @ /\ ~(job[b.worker] = b.task /\ token[b.worker] = b.token)]
        /\ UNCHANGED recordVars
  /\ UNCHANGED <<leaseVars, closeVars, queue, pc, job, localVars, faults>>
  /\ WorkerFrame

WorkerNext(w) ==
  \/ \E t \in Task : Acquire(w, t) \/ AcquireRefused(w, t)
  \/ MarkRunningRead(w) \/ MarkRunningWrite(w) \/ Abandon(w)
  \/ ProgressRead(w) \/ ProgressWrite(w)
  \/ \E dead \in BOOLEAN : Raises(w, dead)
  \/ CloseRead(w) \/ CloseWrite(w) \/ CloseRelease(w) \/ DeadLetter(w)
  \/ Finally(w)

-----------------------------------------------------------------------------
(* The reconciler: reconcile_stale_tasks and _dispatch_requeued_tasks *)

\* Everything a reconciler step leaves alone besides the Redis state.
ReconcilerFrame == UNCHANGED <<apiVars, pc, job, localVars, beatVars>>

RGoto(r, label) == rpc' = [rpc EXCEPT ![r] = label]

\* stale_running finds members of the running set with a stale heartbeat.
\* (A scan that finds none has no effect, see ListDispatches.)
Scan(r) ==
  LET stale == {t \in running : IsStale(task[t])} IN
  /\ rpc[r] = "idle"
  /\ stale # {}
  /\ rstale' = [rstale EXCEPT ![r] =
       {[task |-> t, token |-> task[t].lease_token,
         retry |-> task[t].retry_count] : t \in stale}]
  /\ RGoto(r, "loop")
  /\ UNCHANGED <<recordVars, leaseVars, closeVars, queue, rcur, rtodo, faults>>
  /\ ReconcilerFrame

\* Mutant: one retry too many.
RetryLeftInclusive(s) == s.retry <= MaxRetries

\* The scanned record still has retries: requeue it, else close it as lost.
RetryLeft(s) == s.retry < MaxRetries

\* The record requeue writes, and the one mark_failed(recovery=True) writes.
Requeued(rec) == [rec EXCEPT !.status = "PENDING", !.lease_token = 0,
                             !.retry_count = @ + 1, !.heartbeat_age = 0]
Lost(rec) == [rec EXCEPT !.status = "FAILED"]

\* Both GET the record and check the scanned token again.
RecoverRead(r, s) ==
  LET rec == task[s.task] IN
  /\ rpc[r] = "loop"
  /\ rstale' = [rstale EXCEPT ![r] = @ \ {s}]
  /\ \/ /\ OwnedBy(rec, s.token)
        /\ rcur' = [rcur EXCEPT ![r] =
             [task |-> s.task, token |-> s.token,
              rec |-> IF RetryLeft(s) THEN Requeued(rec) ELSE Lost(rec)]]
        /\ RGoto(r, IF RetryLeft(s) THEN "requeue_write" ELSE "lost_write")
     \/ /\ ~OwnedBy(rec, s.token)
        /\ UNCHANGED <<rcur, rpc>>
  /\ UNCHANGED <<recordVars, leaseVars, closeVars, queue, rtodo, faults>>
  /\ ReconcilerFrame

\* The recovery write of requeue: new generation, PENDING, outbox entry.
RequeueWrite(r) ==
  LET c == rcur[r] IN
  /\ rpc[r] = "requeue_write"
  /\ \/ /\ CanRecover(c.task, c.token)
        /\ AdvanceFence(c.task)
        /\ WriteRecord(c.task, c.rec, {"RUNNING"}, TRUE)
     \/ /\ ~CanRecover(c.task, c.token)
        /\ UNCHANGED <<leaseVars, recordVars>>
  /\ RGoto(r, "loop")
  /\ UNCHANGED <<closeVars, queue, rstale, rcur, rtodo, faults>>
  /\ ReconcilerFrame

\* The recovery write of mark_failed.  The release_lease that follows it in
\* the code uses the token the write has just superseded: it does nothing.
LostWrite(r) ==
  LET c == rcur[r] IN
  /\ rpc[r] = "lost_write"
  /\ \/ /\ CanRecover(c.task, c.token)
        /\ AdvanceFence(c.task)
        /\ WriteRecord(c.task, c.rec, {"RUNNING"}, FALSE)
        /\ closings' = [closings EXCEPT ![c.task] = @ + 1]
        /\ RGoto(r, "lost_dlq")
     \/ /\ ~CanRecover(c.task, c.token)
        /\ RGoto(r, "loop")
        /\ UNCHANGED <<leaseVars, recordVars, closings>>
  /\ UNCHANGED <<dlq, queue, rstale, rcur, rtodo, faults>>
  /\ ReconcilerFrame

\* push_dead_letter with reason worker_lost.
LostDeadLetter(r) ==
  /\ rpc[r] = "lost_dlq"
  /\ dlq' = [dlq EXCEPT ![rcur[r].task] = @ + 1]
  /\ RGoto(r, "loop")
  /\ UNCHANGED <<recordVars, leaseVars, closings, queue, rstale, rcur, rtodo,
                 faults>>
  /\ ReconcilerFrame

\* All scanned tasks are handled (or the scan found none): read the outbox
\* with list_requeue_dispatches.  An empty list ends the round.
ListDispatches(r) ==
  /\ \/ rpc[r] = "loop" /\ rstale[r] = {}
     \/ rpc[r] = "idle" /\ outbox # {}
  /\ rtodo' = [rtodo EXCEPT ![r] = outbox]
  /\ RGoto(r, IF outbox = {} THEN "idle" ELSE "dispatch")
  /\ UNCHANGED <<recordVars, leaseVars, closeVars, queue, rstale, rcur, faults>>
  /\ ReconcilerFrame

\* The next listed task is read: still PENDING, publish it; else just ack.
DispatchRead(r, t) ==
  /\ rpc[r] = "dispatch"
  /\ rtodo' = [rtodo EXCEPT ![r] = @ \ {t}]
  /\ rcur' = [rcur EXCEPT ![r] = [task |-> t, token |-> 0, rec |-> task[t]]]
  /\ RGoto(r, IF task[t].status = "PENDING" THEN "publish" ELSE "ack")
  /\ UNCHANGED <<recordVars, leaseVars, closeVars, queue, rstale, faults>>
  /\ ReconcilerFrame

\* The list is worked off: the round ends.
NextDispatch(r) == RGoto(r, IF rtodo[r] = {} THEN "idle" ELSE "dispatch")

\* apply_async succeeds; the outbox entry is acknowledged next.
Publish(r) ==
  /\ rpc[r] = "publish"
  /\ queue' = [queue EXCEPT ![rcur[r].task] = @ + 1]
  /\ RGoto(r, "ack")
  /\ UNCHANGED <<recordVars, leaseVars, closeVars, rstale, rcur, rtodo, faults>>
  /\ ReconcilerFrame

\* Mutant: a failed publish acknowledges the outbox entry.
PublishRaisesAcked(r, taken) ==
  /\ rpc[r] = "publish"
  /\ faults + taken <= MaxFaults
  /\ faults' = faults + taken
  /\ queue' = [queue EXCEPT ![rcur[r].task] = @ + taken]
  /\ RGoto(r, "ack")
  /\ UNCHANGED <<recordVars, leaseVars, closeVars, rstale, rcur, rtodo>>
  /\ ReconcilerFrame

\* apply_async raises, with or without the message taken: the outbox entry
\* stays for the next round.
PublishRaises(r, taken) ==
  /\ rpc[r] = "publish"
  /\ faults + taken <= MaxFaults
  /\ faults' = faults + taken
  /\ queue' = [queue EXCEPT ![rcur[r].task] = @ + taken]
  /\ NextDispatch(r)
  /\ UNCHANGED <<recordVars, leaseVars, closeVars, rstale, rcur, rtodo>>
  /\ ReconcilerFrame

\* ack_requeue_dispatch
AckDispatch(r) ==
  /\ rpc[r] = "ack"
  /\ outbox' = outbox \ {rcur[r].task}
  /\ NextDispatch(r)
  /\ UNCHANGED <<task, statusSets, running, leaseVars, closeVars, queue, rstale,
                 rcur, rtodo, faults>>
  /\ ReconcilerFrame

\* The process running the reconcile task is lost in the middle of a round.
ReconcilerCrash(r) ==
  /\ rpc[r] # "idle"
  /\ faults < MaxFaults
  /\ faults' = faults + 1
  /\ rstale' = [rstale EXCEPT ![r] = {}]
  /\ rtodo' = [rtodo EXCEPT ![r] = {}]
  /\ RGoto(r, "idle")
  /\ UNCHANGED <<recordVars, leaseVars, closeVars, queue, rcur>>
  /\ ReconcilerFrame

ReconcilerNext(r) ==
  \/ Scan(r)
  \/ \E s \in rstale[r] : RecoverRead(r, s)
  \/ RequeueWrite(r) \/ LostWrite(r) \/ LostDeadLetter(r)
  \/ ListDispatches(r)
  \/ \E t \in rtodo[r] : DispatchRead(r, t)
  \/ Publish(r) \/ \E taken \in {0, 1} : PublishRaises(r, taken)
  \/ AckDispatch(r)

-----------------------------------------------------------------------------
(* Specification *)

Init ==
  /\ task = [t \in Task |-> Admitted]
  /\ statusSets = [t \in Task |-> {"PENDING"}]
  /\ running = {} /\ outbox = {}
  /\ lock = [t \in Task |-> 0] /\ lockTtl = [t \in Task |-> 0]
  /\ fence = [t \in Task |-> 0] /\ epoch = [t \in Task |-> 0]
  /\ dlq = [t \in Task |-> 0] /\ closings = [t \in Task |-> 0]
  /\ queue = [t \in Task |-> 0]
  /\ api = [t \in Task |-> "enqueue"] /\ apiSnap = [t \in Task |-> Admitted]
  /\ pc = [w \in Worker |-> "idle"] /\ job = [w \in Worker |-> AnyTask]
  /\ token = [w \in Worker |-> 0] /\ snap = [w \in Worker |-> Admitted]
  /\ step = [w \in Worker |-> 0]
  /\ outcome = [w \in Worker |-> "FAILED"]
  /\ deadLetter = [w \in Worker |-> FALSE]
  /\ beating = [w \in Worker |-> FALSE] /\ beats = {}
  /\ rpc = [r \in Reconciler |-> "idle"]
  /\ rstale = [r \in Reconciler |-> {}] /\ rtodo = [r \in Reconciler |-> {}]
  /\ rcur = [r \in Reconciler |->
               [task |-> AnyTask, token |-> 0, rec |-> Admitted]]
  /\ faults = 0

Next ==
  \/ Tick
  \/ \E t \in Task : ApiNext(t)
  \/ \E w \in Worker : WorkerNext(w) \/ BeatRead(w) \/ WorkerCrash(w)
  \/ \E b \in beats : BeatWrite(b)
  \/ \E r \in Reconciler : ReconcilerNext(r) \/ ReconcilerCrash(r)

Spec == Init /\ [][Next]_vars

-----------------------------------------------------------------------------
(* Properties *)

\* Every variable has its type.
TypeOK ==
  /\ task \in [Task -> Record] /\ statusSets \in [Task -> SUBSET Status]
  /\ running \in SUBSET Task /\ outbox \in SUBSET Task
  /\ lock \in [Task -> Nat] /\ lockTtl \in [Task -> Nat]
  /\ fence \in [Task -> Nat] /\ epoch \in [Task -> Nat]
  /\ dlq \in [Task -> Nat] /\ closings \in [Task -> Nat]
  /\ queue \in [Task -> Nat]
  /\ api \in [Task -> ApiPc] /\ apiSnap \in [Task -> Record]
  /\ pc \in [Worker -> WorkerPc] /\ job \in [Worker -> Task]
  /\ token \in [Worker -> Nat] /\ snap \in [Worker -> Record]
  /\ step \in [Worker -> Nat]
  /\ outcome \in [Worker -> {"SUCCEEDED", "FAILED"}]
  /\ deadLetter \in [Worker -> BOOLEAN]
  /\ beating \in [Worker -> BOOLEAN] /\ beats \in SUBSET Beat
  /\ rpc \in [Reconciler -> ReconcilerPc]
  /\ rstale \in [Reconciler -> SUBSET Scanned]
  /\ rcur \in [Reconciler -> InHand]
  /\ rtodo \in [Reconciler -> SUBSET Task]
  /\ faults \in Nat

\* A RUNNING record always belongs to the current generation: nobody can
\* open a new generation (acquire_lease, recovery) and leave the record
\* RUNNING under the old token.
RunningOwnsFence ==
  \A t \in Task : task[t].status = "RUNNING" => task[t].lease_token = fence[t]

\* At most one worker passes the check of the lease-write script for a task,
\* whatever locks expired and whoever is still running with an old token.
SingleWriter ==
  \A v, w \in Worker :
    /\ pc[v] \in Leased /\ LeaseHeld(job[v], token[v])
    /\ pc[w] \in Leased /\ LeaseHeld(job[w], token[w])
    /\ job[v] = job[w]
    => v = w

\* stale_running never reports a task whose lease is still alive: by the
\* time heartbeat_at is older than the timeout, the lock has expired.
StaleMeansExpired ==
  \A t \in Task : IsStale(task[t]) => lock[t] = 0

\* The PENDING index that admission counts and acquire_lease consults holds
\* exactly the PENDING records, also when mark_pending_failed races a worker.
PendingIndexExact ==
  \A t \in Task : "PENDING" \in statusSets[t] <=> task[t].status = "PENDING"

\* Recovery never spends more than TASK_MAX_RETRIES retries, although the
\* count is compared on the scanned record and incremented on a later read.
RetriesBounded ==
  \A t \in Task : task[t].retry_count <= MaxRetries

\* A dead letter stands for a failure that was recorded: nobody whose final
\* write was refused pushes one, so there are never more dead letters than
\* terminal events in the task's ledger.
DeadLetterHasVerdict ==
  \A t \in Task : dlq[t] <= closings[t]

\* While a lock is alive its generation is current: neither another worker
\* nor the reconciler moves the fence under a live lease.
LiveLeaseKeepsFence ==
  [][\A t \in Task : lock[t] # 0 => fence'[t] = fence[t]]_vars

\* Once recovery has closed a task as lost, the verdict stands: a worker that
\* wakes up with the superseded token cannot reopen it or store its result.
LostVerdictFinal ==
  [][\A t \in Task :
       task[t].status = "FAILED" /\ 0 < task[t].lease_token
                                 /\ task[t].lease_token < fence[t]
         => task'[t].status = "FAILED"]_vars

\* create_task has told its caller that the task failed.  Whether the broker has
\* a message all the same is uncertain, and mark_pending_failed may race a worker
\* (see PendingFailedOnlyUnleased): for the life cycle the task is FAILED.
Raised(t) == api[t] \notin {"enqueue", "done"}

\* What readers of the records see.
Lifecycle == INSTANCE TaskLifecycle WITH
  status <- [t \in Task |-> IF Raised(t) THEN "FAILED" ELSE task[t].status],
  retry  <- [t \in Task |-> IF Raised(t) THEN 0 ELSE task[t].retry_count]

\* Leases, locks that run out, late writes, lost processes and recovery
\* implement the life cycle of a published task: PENDING is left by a worker's
\* start and re-entered only from RUNNING by spending a retry, a task is
\* SUCCEEDED only out of RUNNING, and no late writer of an older generation
\* changes a record in any other way.
ImplementsLifecycle == Lifecycle!Spec

(* The inductive invariant behind the fencing properties *)

\* Tokens come from the epoch: the fence is the epoch, a live lock is the
\* fence, and every token in use was issued and belongs to one worker.
TokensIssued ==
  /\ \A t \in Task : fence[t] = epoch[t] /\ lock[t] \in {0, fence[t]}
  /\ \A w \in Worker : pc[w] \in Leased => token[w] <= epoch[job[w]]
  /\ \A v, w \in Worker :
       /\ pc[v] \in Leased /\ pc[w] \in Leased
       /\ job[v] = job[w] /\ token[v] = token[w]
       => v = w
  /\ \A b \in beats : b.token <= epoch[b.task]
  /\ \A r \in Reconciler : rpc[r] \in {"requeue_write", "lost_write"} =>
       rcur[r].token <= epoch[rcur[r].task]

\* A record about to be written carries the token it is written under.
SnapshotsOwned ==
  /\ \A w \in Worker :
       /\ pc[w] \in {"write_running", "write_progress"} => OwnedBy(snap[w], token[w])
       /\ pc[w] = "write_close" => /\ snap[w].status \in {"SUCCEEDED", "FAILED"}
                                   /\ snap[w].lease_token = token[w]
  /\ \A b \in beats : OwnedBy(b.rec, b.token)
  /\ \A r \in Reconciler :
       /\ rpc[r] = "requeue_write" => /\ rcur[r].rec.status = "PENDING"
                                      /\ rcur[r].rec.lease_token = 0
       /\ rpc[r] = "lost_write" => /\ rcur[r].rec.status = "FAILED"
                                   /\ rcur[r].rec.lease_token = rcur[r].token
  /\ \A t \in Task : apiSnap[t].lease_token = 0

\* Nobody who has seen the current generation RUNNING finds it PENDING: going
\* back to PENDING always opens a new generation.
NoWayBack ==
  \A t \in Task : task[t].status = "PENDING" =>
    /\ task[t].lease_token = 0
    /\ \A w \in Worker : pc[w] \in Started /\ job[w] = t => token[w] # fence[t]
    /\ \A b \in beats : b.task = t => b.token # fence[t]
    /\ \A r \in Reconciler :
         rpc[r] \in {"requeue_write", "lost_write"} /\ rcur[r].task = t
           => rcur[r].token # fence[t]

\* A record closed as lost is sealed: no worker, no heartbeat in flight and
\* no reconciler holds the generation that recovery opened.
LostSealed ==
  \A t \in Task :
    task[t].status = "FAILED" /\ 0 < task[t].lease_token
                              /\ task[t].lease_token < fence[t] =>
      /\ \A w \in Worker : pc[w] \in Leased /\ job[w] = t => token[w] # fence[t]
      /\ \A b \in beats : b.task = t => b.token # fence[t]
      /\ \A r \in Reconciler :
           rpc[r] \in {"requeue_write", "lost_write"} /\ rcur[r].task = t
             => rcur[r].token # fence[t]

\* The parts together are preserved by every step.
FencingInv ==
  /\ TokensIssued
  /\ SnapshotsOwned
  /\ NoWayBack
  /\ LostSealed
  /\ RunningOwnsFence
  /\ PendingIndexExact

(* What the code says of itself and does not keep *)

\* _LEASE_WRITE_SCRIPT's comment: recovery waits for the lock to expire "so as
\* not to rob a worker that is still alive".  That needs a worker whose
\* heartbeat arrived within the last tick to still hold its lock.
HeartbeatKeepsLease ==
  \A w \in Worker :
    /\ pc[w] \in {"execute", "write_progress"}
    /\ OwnedBy(task[job[w]], token[w])
    /\ task[job[w]].heartbeat_age <= 1
    => lock[job[w]] = token[w]

\* mark_succeeded's event: "the result has been persisted, processing is
\* complete".  The record must then not go back to RUNNING without a result.
ResultPersisted ==
  [][\A t \in Task : task[t].status = "SUCCEEDED" => task'[t].status # "RUNNING"]_vars

\* mark_pending_failed's docstring: it "closes an admitted task that has not
\* been leased yet".
PendingFailedOnlyUnleased ==
  [][\A t \in Task : ApiFailWrite(t) => task[t].status = "PENDING" /\ lock[t] = 0]_vars

-----------------------------------------------------------------------------
(* Liveness *)

\* Workers and their threads keep running, the broker and Redis deliver,
\* celery beat starts reconcile rounds for ever and every round scans the
\* running set; a broker outage does not last for ever.
Fairness ==
  /\ WF_vars(Tick)
  /\ \A t \in Task : WF_vars(ApiNext(t))
  /\ \A w \in Worker : WF_vars(WorkerNext(w))
  /\ \A r \in Reconciler : /\ WF_vars(ReconcilerNext(r))
                           /\ SF_vars(Scan(r))
                           /\ SF_vars(Publish(r))

FairSpec == Spec /\ Fairness

\* A task of the running set whose heartbeat went stale is taken out of
\* RUNNING by the reconciler, whatever state its worker was lost in.
StaleIsRecovered ==
  \A t \in Task : t \in running /\ IsStale(task[t]) ~> task[t].status # "RUNNING"

\* A recovery intent that is not published yet survives failed publishes and
\* lost rounds until its message reaches the broker or the task is no longer
\* PENDING.
IntentReachesBroker ==
  \A t \in Task :
    t \in outbox /\ (\A r \in Reconciler : rpc[r] = "ack" => rcur[r].task # t)
      ~> (queue[t] > 0 \/ task[t].status # "PENDING")
=============================================================================
