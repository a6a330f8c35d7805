-------------------------- MODULE TaskLease_proofs --------------------------
(***************************************************************************)
(* Theorems about TaskLease for every set of tasks, workers and            *)
(* reconcilers and every value of the other constants: types and fencing,  *)
(* and then, on top of the fencing invariant, that recovery waits for the  *)
(* lock, spends no more retries than it may, leaves no dead letter without *)
(* a verdict, and that the whole implements TaskLifecycle.                 *)
(***************************************************************************)
EXTENDS TaskLease, FiniteSetTheorems, TLAPS

USE HeartbeatTimeoutAssumption, MaxRetriesAssumption, ProgressCallsAssumption,
    MaxFaultsAssumption

-----------------------------------------------------------------------------
(* Lemmas on the helpers *)

\* The record create_task admits is a record, and AnyTask is a task.
LEMMA AdmittedType == Admitted \in Record /\ AnyTask \in Task
  BY TaskAssumption DEF Admitted, Record, Status, Age, AnyTask

\* Ageing keeps a record's type, and everything in it but its age.
LEMMA OlderKeeps ==
  ASSUME NEW rec \in Record
  PROVE  /\ Older(rec) \in Record
         /\ Older(rec).status = rec.status
         /\ Older(rec).lease_token = rec.lease_token
         /\ Older(rec).retry_count = rec.retry_count
  BY DEF Older, Record, Age

\* The records the store methods build from the one they read.
LEMMA WithStatus ==
  ASSUME NEW rec \in Record, NEW s \in Status
  PROVE  /\ [rec EXCEPT !.status = s] \in Record
         /\ [rec EXCEPT !.status = s].status = s
         /\ [rec EXCEPT !.status = s].lease_token = rec.lease_token
  BY DEF Record

LEMMA WithAge ==
  ASSUME NEW rec \in Record
  PROVE  /\ [rec EXCEPT !.heartbeat_age = 0] \in Record
         /\ [rec EXCEPT !.heartbeat_age = 0].status = rec.status
         /\ [rec EXCEPT !.heartbeat_age = 0].lease_token = rec.lease_token
  BY DEF Record, Age

LEMMA WithLease ==
  ASSUME NEW rec \in Record, NEW k \in Nat
  PROVE  LET new == [rec EXCEPT !.status = "RUNNING", !.lease_token = k,
                                !.heartbeat_age = 0]
         IN  new \in Record /\ OwnedBy(new, k)
  <1>1. 0 \in Age  BY DEF Age
  <1>2. rec = [status |-> rec.status, lease_token |-> rec.lease_token,
               retry_count |-> rec.retry_count,
               heartbeat_age |-> rec.heartbeat_age]
    BY DEF Record
  <1>3. QED  BY <1>1, <1>2 DEF Record, Status, OwnedBy

LEMMA RecoveredRecords ==
  ASSUME NEW rec \in Record
  PROVE  /\ Requeued(rec) \in Record /\ Requeued(rec).status = "PENDING"
         /\ Requeued(rec).lease_token = 0
         /\ Lost(rec) \in Record /\ Lost(rec).status = "FAILED"
         /\ Lost(rec).lease_token = rec.lease_token
  <1>1. Requeued(rec) \in Record
    <2>1. rec.retry_count + 1 \in Nat /\ 0 \in Age
      BY DEF Record, Age
    <2>2. rec = [status |-> rec.status, lease_token |-> rec.lease_token,
                 retry_count |-> rec.retry_count,
                 heartbeat_age |-> rec.heartbeat_age]
      BY DEF Record
    <2>3. QED  BY <2>1, <2>2 DEF Record, Status, Requeued
  <1>2. Requeued(rec).status = "PENDING" /\ Requeued(rec).lease_token = 0
    BY DEF Record, Requeued
  <1>3. Lost(rec) \in Record /\ Lost(rec).status = "FAILED"
        /\ Lost(rec).lease_token = rec.lease_token
    BY DEF Record, Status, Lost
  <1>4. QED  BY <1>1, <1>2, <1>3

\* _LEASE_WRITE_SCRIPT's body keeps the types of what it writes.
LEMMA WriteRecordType ==
  ASSUME TypeOK, NEW t \in Task, NEW rec \in Record, NEW prev,
         NEW d \in BOOLEAN, WriteRecord(t, rec, prev, d)
  PROVE  /\ task' \in [Task -> Record] /\ statusSets' \in [Task -> SUBSET Status]
         /\ running' \in SUBSET Task /\ outbox' \in SUBSET Task
  <1>1. task' \in [Task -> Record]
    BY DEF TypeOK, WriteRecord
  <1>2. statusSets' \in [Task -> SUBSET Status]
    <2>1. rec.status \in Status  BY DEF Record
    <2>2. (statusSets[t] \ prev) \cup {rec.status} \in SUBSET Status
      BY <2>1 DEF TypeOK
    <2>3. QED  BY <2>2 DEF TypeOK, WriteRecord
  <1>3. running' \in SUBSET Task /\ outbox' \in SUBSET Task
    BY DEF TypeOK, WriteRecord
  <1>4. QED  BY <1>1, <1>2, <1>3

\* So do its recovery branch and _RELEASE_LEASE_SCRIPT.
LEMMA AdvanceFenceType ==
  ASSUME TypeOK, NEW t \in Task, AdvanceFence(t)
  PROVE  /\ lock' \in [Task -> Nat] /\ lockTtl' \in [Task -> Nat]
         /\ fence' \in [Task -> Nat] /\ epoch' \in [Task -> Nat]
  BY DEF TypeOK, AdvanceFence, NextToken

LEMMA ReleaseLeaseType ==
  ASSUME TypeOK, NEW t \in Task, NEW tok, ReleaseLease(t, tok)
  PROVE  /\ task' \in [Task -> Record] /\ statusSets' \in [Task -> SUBSET Status]
         /\ running' \in SUBSET Task /\ outbox' \in SUBSET Task
         /\ lock' \in [Task -> Nat] /\ lockTtl' \in [Task -> Nat]
         /\ fence' \in [Task -> Nat] /\ epoch' \in [Task -> Nat]
  <1>1. UNCHANGED <<task, statusSets, outbox, fence, epoch>>
    BY DEF ReleaseLease
  <1>2. lock' \in [Task -> Nat] /\ lockTtl' \in [Task -> Nat] /\ running' \in SUBSET Task
    <2>0. lock \in [Task -> Nat] /\ lockTtl \in [Task -> Nat] /\ running \in SUBSET Task
      BY DEF TypeOK
    <2>1. CASE LeaseHeld(t, tok)
      <3>1. /\ lock' = [lock EXCEPT ![t] = 0] /\ lockTtl' = [lockTtl EXCEPT ![t] = 0]
            /\ running' = running \ {t}
        BY <2>1 DEF ReleaseLease
      <3>2. QED  BY <2>0, <3>1
    <2>2. CASE ~LeaseHeld(t, tok)
      <3>1. UNCHANGED <<lock, lockTtl, running>>
        BY <2>2 DEF ReleaseLease
      <3>2. QED  BY <2>0, <3>1
    <2>3. QED  BY <2>1, <2>2
  <1>3. QED  BY <1>1, <1>2 DEF TypeOK

\* The worker's locals after execute_contract_review_task has returned.
LEMMA ReturnType ==
  ASSUME TypeOK, NEW w \in Worker, Return(w)
  PROVE  /\ pc' \in [Worker -> WorkerPc] /\ job' \in [Worker -> Task]
         /\ token' \in [Worker -> Nat] /\ snap' \in [Worker -> Record]
         /\ step' \in [Worker -> Nat]
         /\ outcome' \in [Worker -> {"SUCCEEDED", "FAILED"}]
         /\ deadLetter' \in [Worker -> BOOLEAN]
  BY AdmittedType DEF TypeOK, Return, Goto, Forget, WorkerPc

\* ... and after an update_progress call.
LEMMA AfterProgressType ==
  ASSUME TypeOK, NEW w \in Worker, AfterProgress(w)
  PROVE  /\ pc' \in [Worker -> WorkerPc] /\ step' \in [Worker -> Nat]
         /\ outcome' \in [Worker -> {"SUCCEEDED", "FAILED"}]
  BY DEF TypeOK, AfterProgress, Goto, WorkerPc, Leased

-----------------------------------------------------------------------------
(* Type correctness *)

\* Types of the steps of the API handler.
LEMMA ApiType ==
  ASSUME TypeOK, NEW t \in Task, ApiNext(t)
  PROVE  TypeOK'
  <1> USE DEF TypeOK, ApiFrame, leaseVars, localVars, beatVars, recVars, ApiPc
  <1>1. CASE ApiEnqueue(t)  BY <1>1 DEF ApiEnqueue
  <1>2. ASSUME NEW taken \in {0, 1}, ApiEnqueueRaises(t, taken)
        PROVE  TypeOK'
    BY <1>2 DEF ApiEnqueueRaises
  <1>3. CASE ApiFailRead(t)
    <2>1. CASE IsQueued(task[t])
      <3>1. /\ apiSnap' = [apiSnap EXCEPT ![t] = task[t]]
            /\ api' = [api EXCEPT ![t] = "fail_lock"]
        BY <1>3, <2>1 DEF ApiFailRead
      <3>2. apiSnap' \in [Task -> Record]
        BY <3>1
      <3>3. api' \in [Task -> ApiPc]
        BY <3>1
      <3>4. QED  BY <1>3, <3>2, <3>3 DEF ApiFailRead
    <2>2. CASE ~IsQueued(task[t])  BY <1>3, <2>2 DEF ApiFailRead
    <2>3. QED  BY <2>1, <2>2
  <1>4. CASE ApiFailLock(t)  BY <1>4 DEF ApiFailLock
  <1>5. CASE ApiFailWrite(t)
    <2>1. [apiSnap[t] EXCEPT !.status = "FAILED"] \in Record
      <3>1. apiSnap[t] \in Record  OBVIOUS
      <3>2. "FAILED" \in Status  BY DEF Status
      <3> HIDE DEF TypeOK
      <3>3. QED  BY <3>1, <3>2, WithStatus
    <2> DEFINE new == [apiSnap[t] EXCEPT !.status = "FAILED"]
               sets == (statusSets[t] \ {"PENDING"}) \cup {"FAILED"}
    <2>2. task' = [task EXCEPT ![t] = new] /\ statusSets' = [statusSets EXCEPT ![t] = sets]
      BY <1>5 DEF ApiFailWrite
    <2>3. sets \in SUBSET Status
      BY DEF Status
    <2> HIDE DEF new, sets
    <2>4. task' \in [Task -> Record] /\ statusSets' \in [Task -> SUBSET Status]
      BY <2>1, <2>2, <2>3 DEF new
    <2>5. closings' \in [Task -> Nat] /\ api' \in [Task -> ApiPc]
      BY <1>5 DEF ApiFailWrite
    <2>6. QED  BY <1>5, <2>4, <2>5 DEF ApiFailWrite
  <1>6. QED  BY <1>1, <1>2, <1>3, <1>4, <1>5 DEF ApiNext

\* Types of the steps of the worker.
LEMMA WorkerType ==
  ASSUME TypeOK, NEW w \in Worker, WorkerNext(w)
  PROVE  TypeOK'
  <1> USE AdmittedType
      DEF TypeOK, WorkerFrame, Goto, Forget, recordVars, leaseVars, closeVars,
          apiVars, localVars, beatVars, recVars, WorkerPc, Leased
  <1>1. ASSUME NEW t \in Task, Acquire(w, t)
        PROVE  TypeOK'
    BY <1>1 DEF Acquire, NextToken, LeaseTtl
  <1>2. ASSUME NEW t \in Task, AcquireRefused(w, t)
        PROVE  TypeOK'
    BY <1>2 DEF AcquireRefused
  <1>3. CASE MarkRunningRead(w)
    <2>1. task[job[w]] \in Record /\ token[w] \in Nat
      OBVIOUS
    <2> DEFINE new == [task[job[w]] EXCEPT !.status = "RUNNING",
                         !.lease_token = token[w], !.heartbeat_age = 0]
    <2>2. new \in Record
      BY <2>1, WithLease
    <2>3. snap' = [snap EXCEPT ![w] = new] \/ snap' = snap
      BY <1>3 DEF MarkRunningRead
    <2> HIDE DEF new
    <2>4. snap' \in [Worker -> Record]
      BY <2>2, <2>3
    <2>5. QED  BY <1>3, <2>4 DEF MarkRunningRead
  <1>4. CASE MarkRunningWrite(w)
    <2>1. CASE LeaseHeld(job[w], token[w])
      <3>1. WriteRecord(job[w], snap[w], {"PENDING"}, FALSE)
        BY <1>4, <2>1 DEF MarkRunningWrite
      <3>2. QED  BY <1>4, <2>1, <3>1, WriteRecordType DEF MarkRunningWrite
    <2>2. CASE ~LeaseHeld(job[w], token[w])
      BY <1>4, <2>2 DEF MarkRunningWrite
    <2>3. QED  BY <2>1, <2>2
  <1>5. CASE Abandon(w)
    <2>1. ReleaseLease(job[w], token[w]) /\ Return(w)
      BY <1>5 DEF Abandon
    <2>2. QED  BY <1>5, <2>1, ReleaseLeaseType, ReturnType DEF Abandon
  <1>6. CASE ProgressRead(w)
    <2>1. CASE OwnedBy(task[job[w]], token[w])
      <3>1. snap' = [snap EXCEPT ![w] = task[job[w]]] /\ Goto(w, "write_progress")
        BY <1>6, <2>1 DEF ProgressRead
      <3>2. snap' \in [Worker -> Record]
        BY <3>1
      <3>3. pc' \in [Worker -> WorkerPc]
        BY <3>1
      <3>4. QED  BY <1>6, <2>1, <3>2, <3>3 DEF ProgressRead
    <2>2. CASE ~OwnedBy(task[job[w]], token[w])
      BY <1>6, <2>2, AfterProgressType DEF ProgressRead
    <2>3. QED  BY <2>1, <2>2
  <1>7. CASE ProgressWrite(w)
    <2>1. CASE LeaseHeld(job[w], token[w])
      <3>1. WriteRecord(job[w], snap[w], {}, FALSE)
        BY <1>7, <2>1 DEF ProgressWrite
      <3>2. QED  BY <1>7, <3>1, WriteRecordType, AfterProgressType DEF ProgressWrite
    <2>2. CASE ~LeaseHeld(job[w], token[w])
      BY <1>7, <2>2, AfterProgressType DEF ProgressWrite
    <2>3. QED  BY <2>1, <2>2
  <1>8. ASSUME NEW dead \in BOOLEAN, Raises(w, dead)
        PROVE  TypeOK'
    BY <1>8 DEF Raises
  <1>9. CASE CloseRead(w)
    <2> DEFINE new == [task[job[w]] EXCEPT !.status = outcome[w]]
    <2>1. new \in Record
      <3>1. task[job[w]] \in Record /\ outcome[w] \in Status
        BY DEF Status
      <3>2. QED  BY <3>1, WithStatus
    <2>2. snap' = [snap EXCEPT ![w] = new] \/ snap' = snap
      BY <1>9 DEF CloseRead
    <2> HIDE DEF new
    <2>3. snap' \in [Worker -> Record]
      BY <2>1, <2>2
    <2>4. QED  BY <1>9, <2>3 DEF CloseRead
  <1>10. CASE CloseWrite(w)
    <2>1. CASE LeaseHeld(job[w], token[w])
      <3>1. WriteRecord(job[w], snap[w], {"RUNNING"}, FALSE)
        BY <1>10, <2>1 DEF CloseWrite
      <3>2. closings' \in [Task -> Nat]
        BY <1>10, <2>1 DEF CloseWrite
      <3>3. pc' \in [Worker -> WorkerPc] /\ snap' \in [Worker -> Record]
        BY <1>10, <2>1 DEF CloseWrite
      <3>4. QED  BY <1>10, <3>1, <3>2, <3>3, WriteRecordType DEF CloseWrite
    <2>2. CASE ~LeaseHeld(job[w], token[w])
      BY <1>10, <2>2 DEF CloseWrite
    <2>3. QED  BY <2>1, <2>2
  <1>11. CASE CloseRelease(w)
    <2>1. ReleaseLease(job[w], token[w])
      BY <1>11 DEF CloseRelease
    <2>2. QED  BY <1>11, <2>1, ReleaseLeaseType DEF CloseRelease
  <1>12. CASE DeadLetter(w)
    BY <1>12 DEF DeadLetter
  <1>13. CASE Finally(w)
    <2>1. ReleaseLease(job[w], token[w]) /\ Return(w)
      BY <1>13 DEF Finally
    <2>2. QED  BY <1>13, <2>1, ReleaseLeaseType, ReturnType DEF Finally
  <1>14. QED
    BY <1>1, <1>2, <1>3, <1>4, <1>5, <1>6, <1>7, <1>8, <1>9, <1>10, <1>11,
       <1>12, <1>13 DEF WorkerNext

\* Types of a heartbeat, of a lost worker and of a tick.
LEMMA BeatType ==
  ASSUME TypeOK
  PROVE  /\ \A w \in Worker : BeatRead(w) \/ WorkerCrash(w) => TypeOK'
         /\ \A b \in beats : BeatWrite(b) => TypeOK'
         /\ Tick => TypeOK'
  <1> USE AdmittedType
      DEF TypeOK, WorkerFrame, Goto, Forget, recordVars, leaseVars, closeVars,
          apiVars, localVars, beatVars, recVars, WorkerPc, Leased
  <1>1. ASSUME NEW w \in Worker, BeatRead(w)  PROVE TypeOK'
    <2> DEFINE new == [task[job[w]] EXCEPT !.heartbeat_age = 0]
               b   == [worker |-> w, task |-> job[w], token |-> token[w],
                       rec |-> new]
    <2>1. new \in Record
      BY WithAge
    <2> HIDE DEF new
    <2>2. b \in Beat
      BY <2>1 DEF Beat
    <2> HIDE DEF b
    <2>3. beats' = beats \cup {b} \/ beats' = beats
      BY <1>1 DEF BeatRead, b, new
    <2>4. beats' \in SUBSET Beat
      BY <2>2, <2>3
    <2>5. QED  BY <1>1, <2>4 DEF BeatRead
  <1>2. ASSUME NEW w \in Worker, WorkerCrash(w)  PROVE TypeOK'
    BY <1>2 DEF WorkerCrash, Return
  <1>3. ASSUME NEW b \in beats, BeatWrite(b)  PROVE TypeOK'
    <2>1. b.worker \in Worker /\ b.task \in Task /\ b.rec \in Record
      BY DEF Beat
    <2>2. CASE LeaseHeld(b.task, b.token)
      <3>1. WriteRecord(b.task, b.rec, {}, FALSE)
        BY <1>3, <2>2 DEF BeatWrite
      <3>2. QED  BY <1>3, <2>1, <2>2, <3>1, WriteRecordType DEF BeatWrite
    <2>3. CASE ~LeaseHeld(b.task, b.token)
      BY <1>3, <2>1, <2>3 DEF BeatWrite
    <2>4. QED  BY <2>2, <2>3
  <1>4. ASSUME Tick  PROVE TypeOK'
    <2>1. task' \in [Task -> Record] /\ snap' \in [Worker -> Record]
      BY <1>4, OlderKeeps DEF Tick
    <2>2. ASSUME NEW b \in beats
          PROVE  [b EXCEPT !.rec = Older(b.rec)] \in Beat
      <3>1. b \in Beat  OBVIOUS
      <3>2. b.rec \in Record  BY <3>1 DEF Beat
      <3>3. Older(b.rec) \in Record  BY <3>2, OlderKeeps
      <3>4. QED  BY <3>1, <3>3 DEF Beat
    <2>3. beats' \in SUBSET Beat
      BY <1>4, <2>2 DEF Tick
    <2>4. lock' \in [Task -> Nat] /\ lockTtl' \in [Task -> Nat]
      BY <1>4 DEF Tick
    <2>5. QED  BY <1>4, <2>1, <2>3, <2>4 DEF Tick
  <1>5. QED  BY <1>1, <1>2, <1>3, <1>4

\* Types of the steps of the reconciler.
LEMMA ReconcilerType ==
  ASSUME TypeOK, NEW r \in Reconciler, ReconcilerNext(r) \/ ReconcilerCrash(r)
  PROVE  TypeOK'
  <1> USE AdmittedType
      DEF TypeOK, ReconcilerFrame, RGoto, NextDispatch, recordVars, leaseVars,
          closeVars, apiVars, localVars, beatVars, ReconcilerPc, InHand
  <1>1. CASE Scan(r)
    BY <1>1 DEF Scan, Scanned, Record
  <1>2. ASSUME NEW s \in rstale[r], RecoverRead(r, s)
        PROVE  TypeOK'
    <2>1. s.task \in Task /\ s.token \in Nat
      BY DEF Scanned
    <2> DEFINE rec == IF RetryLeft(s) THEN Requeued(task[s.task])
                                      ELSE Lost(task[s.task])
               cur == [task |-> s.task, token |-> s.token, rec |-> rec]
    <2>2. rec \in Record
      BY <2>1, RecoveredRecords
    <2> HIDE DEF rec
    <2>3. cur \in InHand
      BY <2>1, <2>2
    <2> HIDE DEF cur
    <2>4. rcur' = [rcur EXCEPT ![r] = cur] \/ rcur' = rcur
      BY <1>2 DEF RecoverRead, cur, rec
    <2>5. rcur' \in [Reconciler -> InHand]
      BY <2>3, <2>4
    <2>6. QED  BY <1>2, <2>5 DEF RecoverRead
  <1>3. CASE RequeueWrite(r)
    <2>1. rcur[r].task \in Task /\ rcur[r].rec \in Record
      OBVIOUS
    <2>2. CASE CanRecover(rcur[r].task, rcur[r].token)
      <3>1. WriteRecord(rcur[r].task, rcur[r].rec, {"RUNNING"}, TRUE)
            /\ AdvanceFence(rcur[r].task)
        BY <1>3, <2>2 DEF RequeueWrite
      <3>2. QED
        BY <1>3, <2>1, <2>2, <3>1, WriteRecordType, AdvanceFenceType
           DEF RequeueWrite
    <2>3. CASE ~CanRecover(rcur[r].task, rcur[r].token)
      BY <1>3, <2>3 DEF RequeueWrite
    <2>4. QED  BY <2>2, <2>3
  <1>4. CASE LostWrite(r)
    <2>1. rcur[r].task \in Task /\ rcur[r].rec \in Record
      OBVIOUS
    <2>2. CASE CanRecover(rcur[r].task, rcur[r].token)
      <3>1. WriteRecord(rcur[r].task, rcur[r].rec, {"RUNNING"}, FALSE)
            /\ AdvanceFence(rcur[r].task)
        BY <1>4, <2>2 DEF LostWrite
      <3>2. closings' \in [Task -> Nat] /\ rpc' \in [Reconciler -> ReconcilerPc]
        <4>1. /\ closings' = [closings EXCEPT ![rcur[r].task] = @ + 1]
              /\ rpc' = [rpc EXCEPT ![r] = "lost_dlq"]
          BY <1>4, <2>2 DEF LostWrite
        <4>2. QED  BY <2>1, <4>1
      <3>3. /\ lock' \in [Task -> Nat] /\ lockTtl' \in [Task -> Nat]
            /\ fence' \in [Task -> Nat] /\ epoch' \in [Task -> Nat]
        BY <2>1, <3>1, AdvanceFenceType
      <3>4. /\ task' \in [Task -> Record] /\ statusSets' \in [Task -> SUBSET Status]
            /\ running' \in SUBSET Task /\ outbox' \in SUBSET Task
        BY <2>1, <3>1, WriteRecordType
      <3>5. QED
        BY <1>4, <3>2, <3>3, <3>4 DEF LostWrite
    <2>3. CASE ~CanRecover(rcur[r].task, rcur[r].token)
      BY <1>4, <2>3 DEF LostWrite
    <2>4. QED  BY <2>2, <2>3
  <1>5. CASE LostDeadLetter(r)  BY <1>5 DEF LostDeadLetter
  <1>6. CASE ListDispatches(r)  BY <1>6 DEF ListDispatches
  <1>7. ASSUME NEW t \in rtodo[r], DispatchRead(r, t)
        PROVE  TypeOK'
    BY <1>7 DEF DispatchRead
  <1>8. CASE Publish(r)  BY <1>8 DEF Publish
  <1>9. ASSUME NEW taken \in {0, 1}, PublishRaises(r, taken)
        PROVE  TypeOK'
    BY <1>9 DEF PublishRaises
  <1>10. CASE AckDispatch(r)  BY <1>10 DEF AckDispatch
  <1>11. CASE ReconcilerCrash(r)  BY <1>11 DEF ReconcilerCrash
  <1>12. QED
    BY <1>1, <1>2, <1>3, <1>4, <1>5, <1>6, <1>7, <1>8, <1>9, <1>10, <1>11
       DEF ReconcilerNext

\* Every state of every behaviour is well typed.
THEOREM TypeCorrect == Spec => []TypeOK
  <1>1. Init => TypeOK
    BY AdmittedType
       DEF Init, TypeOK, Status, ApiPc, WorkerPc, ReconcilerPc, InHand
  <1>2. TypeOK /\ [Next]_vars => TypeOK'
    <2> SUFFICES ASSUME TypeOK, [Next]_vars  PROVE TypeOK'
      OBVIOUS
    <2>1. CASE Next
      BY <2>1, ApiType, WorkerType, BeatType, ReconcilerType DEF Next
    <2>2. CASE UNCHANGED vars
      BY <2>2 DEF TypeOK, vars, recordVars, leaseVars, closeVars, apiVars,
                  localVars, beatVars, recVars
    <2>3. QED  BY <2>1, <2>2
  <1>3. QED  BY <1>1, <1>2, PTL DEF Spec

-----------------------------------------------------------------------------
(* The fencing invariant *)

\* pcs between the RUNNING record and the verdict.
Executing == {"execute", "write_progress", "close", "write_close"}

\* At most one handler of create_task moves, and forwards.
ApiMoves ==
  \/ UNCHANGED api
  \/ \E t \in Task : /\ api[t] # "done" /\ api'[t] # "enqueue"
                     /\ Raised(t) => Raised(t)'
                     /\ \A u \in Task \ {t} : api'[u] = api[u]

\* What stale_running keeps of a record it reports.
ScannedFrom(s, rec) == /\ IsStale(rec)
                       /\ s.token = rec.lease_token
                       /\ s.retry = rec.retry_count

\* A step that writes no record, opens no generation and puts nobody in front
\* of a write: processes only move on, give up or disappear, locks only go.
\* A scan may note what the records hold.
Quiet ==
  /\ UNCHANGED <<task, statusSets, fence, epoch, apiSnap>>
  /\ running' \subseteq running
  /\ ApiMoves
  /\ \A t \in Task : \/ lock'[t] = lock[t] /\ lockTtl'[t] = lockTtl[t]
                     \/ lock'[t] = 0 /\ lockTtl'[t] = 0
  /\ beats' \subseteq beats
  /\ \A w \in Worker :
       /\ pc'[w] \in Leased =>
            pc[w] \in Leased /\ job'[w] = job[w] /\ token'[w] = token[w]
       /\ pc'[w] \in Started => pc[w] \in Started
       /\ pc'[w] \in Executing => pc[w] \in Executing
       /\ pc'[w] \in {"mark_running", "write_running", "write_progress",
                      "write_close"} => pc'[w] = pc[w] /\ snap'[w] = snap[w]
  /\ \A r \in Reconciler :
       rpc'[r] \in {"requeue_write", "lost_write"} =>
         rpc'[r] = rpc[r] /\ rcur'[r] = rcur[r]
  /\ \A r \in Reconciler : \A s \in rstale'[r] :
       s \in rstale[r] \/ ScannedFrom(s, task[s.task])

\* Quiet steps keep the fencing invariant.
LEMMA QuietKeeps ==
  ASSUME TypeOK, FencingInv, Quiet
  PROVE  FencingInv'
  <1> USE DEF FencingInv, Quiet
  <1>1. TokensIssued'
    BY DEF TokensIssued
  <1>2. SnapshotsOwned'
    <2>1. ASSUME NEW w \in Worker
          PROVE  /\ pc'[w] \in {"write_running", "write_progress"} =>
                      OwnedBy(snap'[w], token'[w])
                 /\ pc'[w] = "write_close" =>
                      /\ snap'[w].status \in {"SUCCEEDED", "FAILED"}
                      /\ snap'[w].lease_token = token'[w]
      BY DEF SnapshotsOwned, Leased
    <2>2. \A b \in beats' : OwnedBy(b.rec, b.token)
      BY DEF SnapshotsOwned
    <2>3. ASSUME NEW r \in Reconciler
          PROVE  /\ rpc'[r] = "requeue_write" =>
                      rcur'[r].rec.status = "PENDING" /\ rcur'[r].rec.lease_token = 0
                 /\ rpc'[r] = "lost_write" =>
                      /\ rcur'[r].rec.status = "FAILED"
                      /\ rcur'[r].rec.lease_token = rcur'[r].token
      BY DEF SnapshotsOwned
    <2>4. \A t \in Task : apiSnap'[t].lease_token = 0
      BY DEF SnapshotsOwned
    <2>5. QED  BY <2>1, <2>2, <2>3, <2>4 DEF SnapshotsOwned, OwnedBy
  <1>3. NoWayBack'
    <2> SUFFICES ASSUME NEW t \in Task, task[t].status = "PENDING"
                 PROVE  /\ task[t].lease_token = 0
                        /\ \A w \in Worker : pc'[w] \in Started /\ job'[w] = t
                                           => token'[w] # fence[t]
                        /\ \A b \in beats' : b.task = t => b.token # fence[t]
                        /\ \A r \in Reconciler :
                             /\ rpc'[r] \in {"requeue_write", "lost_write"}
                             /\ rcur'[r].task = t
                             => rcur'[r].token # fence[t]
      BY DEF NoWayBack
    <2> QED  BY DEF NoWayBack, Started
  <1>4. LostSealed'
    <2> SUFFICES ASSUME NEW t \in Task, task[t].status = "FAILED",
                        0 < task[t].lease_token, task[t].lease_token < fence[t]
                 PROVE  /\ \A w \in Worker : pc'[w] \in Leased /\ job'[w] = t
                                           => token'[w] # fence[t]
                        /\ \A b \in beats' : b.task = t => b.token # fence[t]
                        /\ \A r \in Reconciler :
                             /\ rpc'[r] \in {"requeue_write", "lost_write"}
                             /\ rcur'[r].task = t
                             => rcur'[r].token # fence[t]
      BY DEF LostSealed
    <2> QED  BY DEF LostSealed
  <1>5. RunningOwnsFence' /\ PendingIndexExact'
    BY DEF RunningOwnsFence, PendingIndexExact
  <1>6. QED  BY <1>1, <1>2, <1>3, <1>4, <1>5

\* What _LEASE_WRITE_SCRIPT leaves behind, key by key.
LEMMA WriteRecordEffect ==
  ASSUME TypeOK, NEW t \in Task, NEW rec \in Record, NEW prev, NEW d,
         WriteRecord(t, rec, prev, d)
  PROVE  /\ task'[t] = rec
         /\ statusSets'[t] = (statusSets[t] \ prev) \cup {rec.status}
         /\ \A u \in Task \ {t} : /\ task'[u] = task[u]
                                  /\ statusSets'[u] = statusSets[u]
  BY DEF TypeOK, WriteRecord

\* The quiet steps of the worker: a refusal, an exception, the end of a call,
\* the release of the lease, the loss of the process.
LEMMA WorkerQuiet ==
  ASSUME TypeOK, NEW w \in Worker,
         \/ \E t \in Task : AcquireRefused(w, t)
         \/ MarkRunningRead(w) /\ ~IsQueued(task[job[w]])
         \/ MarkRunningWrite(w) /\ ~LeaseHeld(job[w], token[w])
         \/ Abandon(w)
         \/ ProgressRead(w) /\ ~OwnedBy(task[job[w]], token[w])
         \/ ProgressWrite(w) /\ ~LeaseHeld(job[w], token[w])
         \/ \E dead \in BOOLEAN : Raises(w, dead)
         \/ CloseRead(w) /\ ~OwnedBy(task[job[w]], token[w])
         \/ CloseWrite(w) /\ ~LeaseHeld(job[w], token[w])
         \/ CloseRelease(w) \/ DeadLetter(w) \/ Finally(w) \/ WorkerCrash(w)
         \/ BeatRead(w) /\ ~OwnedBy(task[job[w]], token[w])
  PROVE  Quiet
  <1> USE DEF TypeOK, Quiet, WorkerFrame, Goto, recordVars, leaseVars, closeVars,
              apiVars, localVars, beatVars, recVars, Leased, Started, Executing, ApiMoves
  <1>1. ASSUME NEW t \in Task, AcquireRefused(w, t)  PROVE Quiet
    BY <1>1 DEF AcquireRefused
  <1>2. CASE MarkRunningRead(w) /\ ~IsQueued(task[job[w]])
    BY <1>2 DEF MarkRunningRead
  <1>3. CASE MarkRunningWrite(w) /\ ~LeaseHeld(job[w], token[w])
    BY <1>3 DEF MarkRunningWrite, Forget
  <1>4. CASE Abandon(w)
    BY <1>4 DEF Abandon, ReleaseLease, Return, Forget
  <1>5. CASE ProgressRead(w) /\ ~OwnedBy(task[job[w]], token[w])
    BY <1>5 DEF ProgressRead, AfterProgress
  <1>6. CASE ProgressWrite(w) /\ ~LeaseHeld(job[w], token[w])
    BY <1>6 DEF ProgressWrite, AfterProgress, Forget
  <1>7. ASSUME NEW dead \in BOOLEAN, Raises(w, dead)  PROVE Quiet
    BY <1>7 DEF Raises
  <1>8. CASE CloseRead(w) /\ ~OwnedBy(task[job[w]], token[w])
    BY <1>8 DEF CloseRead
  <1>9. CASE CloseWrite(w) /\ ~LeaseHeld(job[w], token[w])
    BY <1>9 DEF CloseWrite, Forget
  <1>10. CASE CloseRelease(w)
    BY <1>10 DEF CloseRelease, ReleaseLease
  <1>11. CASE DeadLetter(w)
    BY <1>11 DEF DeadLetter
  <1>12. CASE Finally(w)
    BY <1>12 DEF Finally, ReleaseLease, Return, Forget
  <1>13. CASE WorkerCrash(w)
    BY <1>13 DEF WorkerCrash, Return, Forget
  <1>14. CASE BeatRead(w) /\ ~OwnedBy(task[job[w]], token[w])
    BY <1>14 DEF BeatRead
  <1>15. QED
    BY <1>1, <1>2, <1>3, <1>4, <1>5, <1>6, <1>7, <1>8, <1>9, <1>10, <1>11,
       <1>12, <1>13, <1>14

\* The quiet steps of the API handler and of the reconciler.
LEMMA OthersQuiet ==
  ASSUME TypeOK
  PROVE  /\ \A t \in Task :
              \/ ApiEnqueue(t) \/ \E taken \in {0, 1} : ApiEnqueueRaises(t, taken)
              \/ (ApiFailRead(t) /\ ~IsQueued(task[t])) \/ ApiFailLock(t)
              => Quiet
         /\ \A r \in Reconciler :
              \/ Scan(r) \/ \E s \in rstale[r] :
                                RecoverRead(r, s) /\ ~OwnedBy(task[s.task], s.token)
              \/ RequeueWrite(r) /\ ~CanRecover(rcur[r].task, rcur[r].token)
              \/ LostWrite(r) /\ ~CanRecover(rcur[r].task, rcur[r].token)
              \/ LostDeadLetter(r) \/ ListDispatches(r)
              \/ \E t \in rtodo[r] : DispatchRead(r, t)
              \/ Publish(r) \/ \E taken \in {0, 1} : PublishRaises(r, taken)
              \/ AckDispatch(r) \/ ReconcilerCrash(r)
              => Quiet
  <1> USE DEF TypeOK, Quiet, ApiFrame, ReconcilerFrame, RGoto, NextDispatch,
              recordVars, leaseVars, closeVars, apiVars, localVars, beatVars,
              recVars, ApiMoves, Raised
  <1>1. ASSUME NEW t \in Task,
               \/ ApiEnqueue(t) \/ \E taken \in {0, 1} : ApiEnqueueRaises(t, taken)
               \/ (ApiFailRead(t) /\ ~IsQueued(task[t])) \/ ApiFailLock(t)
        PROVE  Quiet
    <2>1. /\ UNCHANGED <<task, statusSets, fence, epoch, apiSnap, running, lock,
                         lockTtl, beats, pc, job, token, snap, rpc, rcur, rstale>>
      BY <1>1 DEF ApiEnqueue, ApiEnqueueRaises, ApiFailRead, ApiFailLock
    <2>2. /\ api[t] \in {"enqueue", "fail_read", "fail_lock"}
          /\ api'[t] \in {"done", "fail_read", "fail_write", "raised"}
          /\ api[t] # "enqueue" => api'[t] # "done"
          /\ \A u \in Task \ {t} : api'[u] = api[u]
      BY <1>1 DEF ApiEnqueue, ApiEnqueueRaises, ApiFailRead, ApiFailLock
    <2>3. ApiMoves
      BY <2>2
    <2>4. QED  BY <2>1, <2>3
  <1>2. ASSUME NEW r \in Reconciler,
               \/ LostDeadLetter(r) \/ ListDispatches(r)
               \/ Publish(r) \/ AckDispatch(r) \/ ReconcilerCrash(r)
        PROVE  Quiet
    <2>1. CASE LostDeadLetter(r)  BY <2>1 DEF LostDeadLetter
    <2>2. CASE ListDispatches(r)  BY <2>2 DEF ListDispatches
    <2>3. CASE Publish(r)  BY <2>3 DEF Publish
    <2>4. CASE AckDispatch(r)  BY <2>4 DEF AckDispatch
    <2>5. CASE ReconcilerCrash(r)  BY <2>5 DEF ReconcilerCrash
    <2>6. QED  BY <1>2, <2>1, <2>2, <2>3, <2>4, <2>5
  <1>3. ASSUME NEW r \in Reconciler,
               \/ \E s \in rstale[r] :
                    RecoverRead(r, s) /\ ~OwnedBy(task[s.task], s.token)
               \/ RequeueWrite(r) /\ ~CanRecover(rcur[r].task, rcur[r].token)
               \/ LostWrite(r) /\ ~CanRecover(rcur[r].task, rcur[r].token)
        PROVE  Quiet
    <2>1. CASE \E s \in rstale[r] :
                 RecoverRead(r, s) /\ ~OwnedBy(task[s.task], s.token)
      BY <2>1 DEF RecoverRead
    <2>2. CASE RequeueWrite(r) /\ ~CanRecover(rcur[r].task, rcur[r].token)
      BY <2>2 DEF RequeueWrite
    <2>3. CASE LostWrite(r) /\ ~CanRecover(rcur[r].task, rcur[r].token)
      BY <2>3 DEF LostWrite
    <2>4. QED  BY <1>3, <2>1, <2>2, <2>3
  <1>4. ASSUME NEW r \in Reconciler,
               \/ \E t \in rtodo[r] : DispatchRead(r, t)
               \/ \E taken \in {0, 1} : PublishRaises(r, taken)
        PROVE  Quiet
    BY <1>4 DEF DispatchRead, PublishRaises
  <1>5. ASSUME NEW r \in Reconciler, Scan(r)  PROVE Quiet
    <2>1. \A q \in Reconciler : \A s \in rstale'[q] :
            s \in rstale[q] \/ ScannedFrom(s, task[s.task])
      BY <1>5 DEF Scan, ScannedFrom
    <2>2. QED  BY <1>5, <2>1 DEF Scan
  <1>6. QED  BY <1>1, <1>2, <1>3, <1>4, <1>5

\* A write under the lease, by a worker or by its heartbeat thread, keeps the
\* invariant: the writer holds the current generation, so the record it
\* replaces is not PENDING unless the write takes it out of the PENDING index.
LEMMA LeasedWriteKeeps ==
  ASSUME TypeOK, FencingInv,
         NEW t \in Task, NEW rec \in Record, NEW prev, NEW d, NEW tok \in Nat,
         LeaseHeld(t, tok), WriteRecord(t, rec, prev, d),
         rec.status # "PENDING", rec.lease_token = tok,
         task[t].status # "PENDING" \/ prev = {"PENDING"},
         UNCHANGED <<fence, epoch, lock, apiSnap, job, token, rpc, rcur>>,
         beats' \subseteq beats,
         \A w \in Worker :
           /\ pc'[w] \in Leased => pc[w] \in Leased
           /\ pc'[w] \in Started => pc[w] \in Started \/ job[w] = t
           /\ pc'[w] \in {"write_running", "write_progress", "write_close"} =>
                pc'[w] = pc[w] /\ snap'[w] = snap[w]
  PROVE  FencingInv'
  <1>1. /\ task'[t] = rec
        /\ statusSets'[t] = (statusSets[t] \ prev) \cup {rec.status}
        /\ \A u \in Task \ {t} : /\ task'[u] = task[u]
                                 /\ statusSets'[u] = statusSets[u]
    BY WriteRecordEffect
  <1>2. fence[t] = tok /\ lock[t] = tok
    BY DEF LeaseHeld
  <1>3. TokensIssued'
    BY DEF FencingInv, TokensIssued
  <1>4. SnapshotsOwned'
    BY DEF FencingInv, SnapshotsOwned, OwnedBy, Leased
  <1>5. NoWayBack'
    BY <1>1 DEF FencingInv, NoWayBack
  <1>6. LostSealed'
    BY <1>1, <1>2 DEF FencingInv, LostSealed
  <1>7. RunningOwnsFence'
    BY <1>1, <1>2 DEF FencingInv, RunningOwnsFence
  <1>8. PendingIndexExact'
    BY <1>1 DEF FencingInv, PendingIndexExact
  <1>9. QED  BY <1>3, <1>4, <1>5, <1>6, <1>7, <1>8 DEF FencingInv

\* A recovery write keeps it: it opens a generation above every token that is
\* in use, so whatever it writes is out of reach of everybody else.
LEMMA RecoveryWriteKeeps ==
  ASSUME TypeOK, FencingInv,
         NEW t \in Task, NEW rec \in Record, NEW d, NEW r \in Reconciler,
         rcur[r].task = t, rpc[r] \in {"requeue_write", "lost_write"},
         CanRecover(t, rcur[r].token), AdvanceFence(t),
         WriteRecord(t, rec, {"RUNNING"}, d),
         \/ rec.status = "PENDING" /\ rec.lease_token = 0
         \/ rec.status = "FAILED",
         UNCHANGED <<apiSnap, pc, job, token, snap, beats, rcur>>,
         \A q \in Reconciler : rpc'[q] \in {"requeue_write", "lost_write"} =>
                                 rpc'[q] = rpc[q]
  PROVE  FencingInv'
  <1>1. /\ task'[t] = rec
        /\ statusSets'[t] = (statusSets[t] \ {"RUNNING"}) \cup {rec.status}
        /\ \A u \in Task \ {t} : /\ task'[u] = task[u]
                                 /\ statusSets'[u] = statusSets[u]
    BY WriteRecordEffect
  <1>2. /\ fence'[t] = epoch[t] + 1 /\ epoch'[t] = epoch[t] + 1
        /\ \A u \in Task \ {t} : fence'[u] = fence[u] /\ epoch'[u] = epoch[u]
        /\ lock' = lock /\ lock[t] = 0
    BY DEF AdvanceFence, NextToken, TypeOK, CanRecover
  <1>3. task[t].status # "PENDING"
    BY DEF FencingInv, NoWayBack, CanRecover
  <1>4. TokensIssued'
    <2>1. \A u \in Task : fence'[u] = epoch'[u] /\ lock'[u] \in {0, fence'[u]}
                          /\ epoch[u] <= epoch'[u] /\ epoch'[u] \in Nat
      BY <1>2 DEF FencingInv, TokensIssued, TypeOK
    <2>2. \A w \in Worker : pc[w] \in Leased => token[w] <= epoch'[job[w]]
      BY <2>1 DEF FencingInv, TokensIssued, TypeOK
    <2>3. \A b \in beats : b.token <= epoch'[b.task]
      BY <2>1, <1>2 DEF FencingInv, TokensIssued, TypeOK, Beat
    <2>4. \A q \in Reconciler : rpc[q] \in {"requeue_write", "lost_write"} =>
             rcur[q].token <= epoch'[rcur[q].task]
      BY <2>1, <1>2 DEF FencingInv, TokensIssued, TypeOK, InHand
    <2>5. QED  BY <2>1, <2>2, <2>3, <2>4 DEF FencingInv, TokensIssued
  <1>5. SnapshotsOwned'
    BY DEF FencingInv, SnapshotsOwned, OwnedBy
  <1>6. /\ \A w \in Worker : pc[w] \in Leased /\ job[w] = t => token[w] # fence'[t]
        /\ \A b \in beats : b.task = t => b.token # fence'[t]
        /\ \A q \in Reconciler :
             rpc[q] \in {"requeue_write", "lost_write"} /\ rcur[q].task = t
               => rcur[q].token # fence'[t]
    <2>1. epoch[t] \in Nat /\ fence'[t] = epoch[t] + 1
      BY <1>2 DEF TypeOK
    <2>2. ASSUME NEW w \in Worker, pc[w] \in Leased, job[w] = t
          PROVE  token[w] # fence'[t]
      BY <2>1, <2>2 DEF FencingInv, TokensIssued, TypeOK
    <2>3. ASSUME NEW b \in beats, b.task = t  PROVE b.token # fence'[t]
      BY <2>1, <2>3 DEF FencingInv, TokensIssued, TypeOK, Beat
    <2>4. ASSUME NEW q \in Reconciler,
                 rpc[q] \in {"requeue_write", "lost_write"}, rcur[q].task = t
          PROVE  rcur[q].token # fence'[t]
      BY <2>1, <2>4 DEF FencingInv, TokensIssued, TypeOK, InHand
    <2>5. QED  BY <2>2, <2>3, <2>4
  <1>7. NoWayBack' /\ LostSealed'
    <2>1. NoWayBack'
      BY <1>1, <1>2, <1>6 DEF FencingInv, NoWayBack, Started
    <2>2. LostSealed'
      BY <1>1, <1>2, <1>6 DEF FencingInv, LostSealed
    <2>3. QED  BY <2>1, <2>2
  <1>8. RunningOwnsFence'
    BY <1>1, <1>2 DEF FencingInv, RunningOwnsFence
  <1>9. PendingIndexExact'
    BY <1>1, <1>3 DEF FencingInv, PendingIndexExact
  <1>10. QED  BY <1>4, <1>5, <1>6, <1>7, <1>8, <1>9 DEF FencingInv

\* Acquiring keeps it: the task is PENDING, and the new token is above every
\* token issued for it.
LEMMA AcquireKeeps ==
  ASSUME TypeOK, FencingInv, NEW w \in Worker, NEW t \in Task, Acquire(w, t)
  PROVE  FencingInv'
  <1>1. /\ epoch[t] \in Nat /\ task[t].status = "PENDING"
        /\ UNCHANGED <<task, statusSets, apiSnap, snap, beats, rpc, rcur>>
    BY DEF Acquire, CanAcquire, FencingInv, PendingIndexExact, TypeOK, WorkerFrame,
           recordVars, beatVars, recVars, apiVars
  <1>2. /\ fence'[t] = epoch[t] + 1 /\ epoch'[t] = epoch[t] + 1
        /\ lock'[t] = epoch[t] + 1
        /\ \A u \in Task \ {t} : fence'[u] = fence[u] /\ epoch'[u] = epoch[u]
                                 /\ lock'[u] = lock[u]
        /\ \A u \in Task : epoch'[u] \in Nat /\ epoch[u] <= epoch'[u]
    BY DEF Acquire, NextToken, TypeOK
  <1>3. /\ pc[w] = "idle" /\ pc'[w] = "mark_running"
        /\ job'[w] = t /\ token'[w] = epoch[t] + 1
        /\ \A v \in Worker \ {w} : pc'[v] = pc[v] /\ job'[v] = job[v]
                                   /\ token'[v] = token[v]
    BY DEF Acquire, NextToken, TypeOK, Goto
  <1>4. /\ \A v \in Worker \ {w} :
             pc[v] \in Leased => token[v] <= epoch[job[v]] /\ token[v] \in Nat
                                 /\ job[v] \in Task
        /\ \A b \in beats : b.token <= epoch[b.task] /\ b.token \in Nat
                            /\ b.task \in Task
        /\ \A r \in Reconciler : rpc[r] \in {"requeue_write", "lost_write"} =>
             /\ rcur[r].token <= epoch[rcur[r].task] /\ rcur[r].token \in Nat
             /\ rcur[r].task \in Task
    BY DEF FencingInv, TokensIssued, TypeOK, Beat, InHand
  <1>5. TokensIssued'
    <2>1. \A u \in Task : fence'[u] = epoch'[u] /\ lock'[u] \in {0, fence'[u]}
      BY <1>2 DEF FencingInv, TokensIssued
    <2>2. \A v \in Worker : pc'[v] \in Leased => token'[v] <= epoch'[job'[v]]
      BY <1>1, <1>2, <1>3, <1>4 DEF TypeOK
    <2>3. ASSUME NEW u \in Worker, NEW v \in Worker,
                 pc'[u] \in Leased, pc'[v] \in Leased,
                 job'[u] = job'[v], token'[u] = token'[v]
          PROVE  u = v
      BY <1>1, <1>3, <1>4, <2>3 DEF FencingInv, TokensIssued
    <2>4. \A b \in beats' : b.token <= epoch'[b.task]
      BY <1>1, <1>2, <1>4 DEF TypeOK
    <2>5. \A r \in Reconciler : rpc'[r] \in {"requeue_write", "lost_write"} =>
             rcur'[r].token <= epoch'[rcur'[r].task]
      BY <1>1, <1>2, <1>4 DEF TypeOK
    <2>6. QED  BY <2>1, <2>2, <2>3, <2>4, <2>5 DEF TokensIssued
  <1>6. SnapshotsOwned'
    BY <1>1, <1>3 DEF FencingInv, SnapshotsOwned, OwnedBy
  <1>7. NoWayBack'
    <2>1. /\ \A v \in Worker \ {w} : pc[v] \in Leased /\ job[v] = t
                                     => token[v] # fence'[t]
          /\ \A b \in beats : b.task = t => b.token # fence'[t]
          /\ \A r \in Reconciler :
               rpc[r] \in {"requeue_write", "lost_write"} /\ rcur[r].task = t
                 => rcur[r].token # fence'[t]
      BY <1>1, <1>2, <1>4
    <2>2. QED
      BY <1>1, <1>2, <1>3, <2>1 DEF FencingInv, NoWayBack, Started, Leased
  <1>8. LostSealed'
    BY <1>1, <1>2, <1>3 DEF FencingInv, LostSealed
  <1>9. RunningOwnsFence' /\ PendingIndexExact'
    BY <1>1, <1>2 DEF FencingInv, RunningOwnsFence, PendingIndexExact
  <1>10. QED  BY <1>5, <1>6, <1>7, <1>8, <1>9 DEF FencingInv

\* A tick keeps it: only ages and locks change.
LEMMA TickKeeps ==
  ASSUME TypeOK, FencingInv, Tick
  PROVE  FencingInv'
  <1>1. UNCHANGED <<statusSets, fence, epoch, apiSnap, pc, job, token, rpc, rcur>>
    BY DEF Tick, apiVars, recVars
  <1>2. \A t \in Task : /\ task'[t].status = task[t].status
                        /\ task'[t].lease_token = task[t].lease_token
                        /\ lock'[t] \in {0, lock[t]}
    BY OlderKeeps DEF Tick, TypeOK
  <1>3. \A w \in Worker : /\ snap'[w].status = snap[w].status
                          /\ snap'[w].lease_token = snap[w].lease_token
    BY OlderKeeps DEF Tick, TypeOK
  <1>4. ASSUME NEW c \in beats'
        PROVE  \E b \in beats : /\ c.task = b.task /\ c.token = b.token
                                /\ c.rec.status = b.rec.status
                                /\ c.rec.lease_token = b.rec.lease_token
    <2>1. PICK b \in beats : c = [b EXCEPT !.rec = Older(b.rec)]
      BY DEF Tick
    <2>2. b \in Beat /\ b.rec \in Record
      BY DEF TypeOK, Beat
    <2>3. c.task = b.task /\ c.token = b.token /\ c.rec = Older(b.rec)
      BY <2>1, <2>2 DEF Beat
    <2>4. QED  BY <2>2, <2>3, OlderKeeps
  <1>5. TokensIssued'
    BY <1>1, <1>2, <1>4 DEF FencingInv, TokensIssued
  <1>6. SnapshotsOwned'
    BY <1>1, <1>3, <1>4 DEF FencingInv, SnapshotsOwned, OwnedBy
  <1>7. NoWayBack'
    BY <1>1, <1>2, <1>4 DEF FencingInv, NoWayBack
  <1>8. LostSealed'
    BY <1>1, <1>2, <1>4 DEF FencingInv, LostSealed
  <1>9. RunningOwnsFence' /\ PendingIndexExact'
    BY <1>1, <1>2 DEF FencingInv, RunningOwnsFence, PendingIndexExact
  <1>10. QED  BY <1>5, <1>6, <1>7, <1>8, <1>9 DEF FencingInv

\* mark_pending_failed keeps it, although its write is unconditional: the
\* record it writes is FAILED and was never leased.
LEMMA ApiFailKeeps ==
  ASSUME TypeOK, FencingInv, NEW t \in Task,
         (ApiFailRead(t) /\ IsQueued(task[t])) \/ ApiFailWrite(t)
  PROVE  FencingInv'
  <1>1. UNCHANGED <<fence, epoch, lock, pc, job, token, snap, beats, rpc, rcur>>
    BY DEF ApiFailRead, ApiFailWrite, ApiFrame, leaseVars, localVars, beatVars,
           recVars
  <1>2. \A u \in Task : apiSnap'[u].lease_token = 0
    BY DEF ApiFailRead, ApiFailWrite, FencingInv, SnapshotsOwned, NoWayBack,
           TypeOK, IsQueued
  <1>3. \/ UNCHANGED <<task, statusSets>>
        \/ /\ task'[t].status = "FAILED" /\ task'[t].lease_token = 0
           /\ statusSets'[t] = (statusSets[t] \ {"PENDING"}) \cup {"FAILED"}
           /\ \A u \in Task \ {t} : /\ task'[u] = task[u]
                                    /\ statusSets'[u] = statusSets[u]
    <2>1. CASE ApiFailRead(t)
      BY <2>1 DEF ApiFailRead
    <2>2. CASE ApiFailWrite(t)
      <3>1. apiSnap[t] \in Record /\ apiSnap[t].lease_token = 0
        BY DEF TypeOK, FencingInv, SnapshotsOwned
      <3>2. task'[t] = [apiSnap[t] EXCEPT !.status = "FAILED"]
        BY <2>2 DEF ApiFailWrite, TypeOK
      <3>3. task'[t].status = "FAILED" /\ task'[t].lease_token = 0
        BY <3>1, <3>2, WithStatus DEF Status
      <3>4. QED  BY <2>2, <3>3 DEF ApiFailWrite, TypeOK
    <2>3. QED  BY <2>1, <2>2
  <1>4. TokensIssued'
    BY <1>1 DEF FencingInv, TokensIssued
  <1>5. SnapshotsOwned'
    BY <1>1, <1>2 DEF FencingInv, SnapshotsOwned, OwnedBy
  <1>6. NoWayBack'
    BY <1>1, <1>3 DEF FencingInv, NoWayBack
  <1>7. LostSealed'
    BY <1>1, <1>3 DEF FencingInv, LostSealed
  <1>8. RunningOwnsFence' /\ PendingIndexExact'
    BY <1>1, <1>3 DEF FencingInv, RunningOwnsFence, PendingIndexExact
  <1>9. QED  BY <1>4, <1>5, <1>6, <1>7, <1>8 DEF FencingInv

\* The reads that lead to a write keep it.  A record that passes the ownership
\* check is RUNNING, hence its token is the current fence.
LEMMA WorkerReadKeeps ==
  ASSUME TypeOK, FencingInv, NEW w \in Worker,
         \/ MarkRunningRead(w) /\ IsQueued(task[job[w]])
         \/ ProgressRead(w) /\ OwnedBy(task[job[w]], token[w])
         \/ CloseRead(w) /\ OwnedBy(task[job[w]], token[w])
  PROVE  FencingInv'
  <1>1. UNCHANGED <<task, statusSets, lock, fence, epoch, apiSnap, job, token, beats,
                    rpc, rcur>>
    BY DEF MarkRunningRead, ProgressRead, CloseRead, WorkerFrame, recordVars,
           leaseVars, apiVars, beatVars, recVars
  <1>2. /\ \A v \in Worker \ {w} : pc'[v] = pc[v] /\ snap'[v] = snap[v]
        /\ pc[w] \in Leased
        /\ pc'[w] \in {"write_running", "write_progress", "write_close"}
        /\ pc'[w] \in Started => pc[w] \in Started
    BY DEF MarkRunningRead, ProgressRead, CloseRead, Goto, TypeOK, Leased, Started
  <1>3. /\ pc'[w] \in {"write_running", "write_progress"} => OwnedBy(snap'[w], token[w])
        /\ pc'[w] = "write_close" => /\ snap'[w].status \in {"SUCCEEDED", "FAILED"}
                                     /\ snap'[w].lease_token = token[w]
    <2>0. task[job[w]] \in Record /\ token[w] \in Nat /\ outcome[w] \in Status
          /\ outcome[w] \in {"SUCCEEDED", "FAILED"}
      BY DEF TypeOK, Status
    <2>1. CASE MarkRunningRead(w) /\ IsQueued(task[job[w]])
      <3> DEFINE new == [task[job[w]] EXCEPT !.status = "RUNNING",
                           !.lease_token = token[w], !.heartbeat_age = 0]
      <3>1. snap'[w] = new /\ pc'[w] = "write_running"
        BY <2>1 DEF MarkRunningRead, TypeOK, Goto
      <3>2. OwnedBy(new, token[w])
        BY <2>0, WithLease
      <3> HIDE DEF new
      <3>3. QED  BY <3>1, <3>2
    <2>2. CASE ProgressRead(w) /\ OwnedBy(task[job[w]], token[w])
      BY <2>2 DEF ProgressRead, TypeOK, Goto
    <2>3. CASE CloseRead(w) /\ OwnedBy(task[job[w]], token[w])
      <3>1. snap'[w] = [task[job[w]] EXCEPT !.status = outcome[w]]
            /\ pc'[w] = "write_close"
        BY <2>3 DEF CloseRead, TypeOK, Goto
      <3>2. QED  BY <2>0, <2>3, <3>1, WithStatus DEF OwnedBy
    <2>4. QED  BY <2>1, <2>2, <2>3
  <1>4. TokensIssued'
    BY <1>1, <1>2 DEF FencingInv, TokensIssued
  <1>5. SnapshotsOwned'
    BY <1>1, <1>2, <1>3 DEF FencingInv, SnapshotsOwned, OwnedBy
  <1>6. NoWayBack'
    BY <1>1, <1>2 DEF FencingInv, NoWayBack
  <1>7. LostSealed'
    BY <1>1, <1>2 DEF FencingInv, LostSealed
  <1>8. RunningOwnsFence' /\ PendingIndexExact'
    BY <1>1 DEF FencingInv, RunningOwnsFence, PendingIndexExact
  <1>9. QED  BY <1>4, <1>5, <1>6, <1>7, <1>8 DEF FencingInv

LEMMA BeatReadKeeps ==
  ASSUME TypeOK, FencingInv, NEW w \in Worker,
         BeatRead(w), OwnedBy(task[job[w]], token[w])
  PROVE  FencingInv'
  <1> DEFINE b == [worker |-> w, task |-> job[w], token |-> token[w],
                   rec |-> [task[job[w]] EXCEPT !.heartbeat_age = 0]]
  <1>1. /\ UNCHANGED <<task, statusSets, lock, fence, epoch, apiSnap, pc, job, token,
                       snap, rpc, rcur>>
        /\ beats' = beats \cup {b}
    BY DEF BeatRead, WorkerFrame, recordVars, leaseVars, apiVars, localVars, recVars
  <1>2. /\ b.task = job[w] /\ b.token = token[w] /\ OwnedBy(b.rec, b.token)
        /\ job[w] \in Task /\ task[job[w]].status = "RUNNING"
    BY WithAge DEF TypeOK, OwnedBy
  <1> HIDE DEF b
  <1>3. token[w] = fence[job[w]] /\ fence[job[w]] = epoch[job[w]]
        /\ epoch[job[w]] \in Nat
    BY <1>2 DEF OwnedBy, FencingInv, RunningOwnsFence, TokensIssued, TypeOK
  <1>4. TokensIssued'
    BY <1>1, <1>2, <1>3 DEF FencingInv, TokensIssued
  <1>5. SnapshotsOwned'
    BY <1>1, <1>2 DEF FencingInv, SnapshotsOwned, OwnedBy
  <1>6. NoWayBack'
    BY <1>1, <1>2 DEF FencingInv, NoWayBack
  <1>7. LostSealed'
    BY <1>1, <1>2 DEF FencingInv, LostSealed
  <1>8. RunningOwnsFence' /\ PendingIndexExact'
    BY <1>1 DEF FencingInv, RunningOwnsFence, PendingIndexExact
  <1>9. QED  BY <1>4, <1>5, <1>6, <1>7, <1>8 DEF FencingInv

LEMMA RecoverReadKeeps ==
  ASSUME TypeOK, FencingInv, NEW r \in Reconciler, NEW s \in rstale[r],
         RecoverRead(r, s), OwnedBy(task[s.task], s.token)
  PROVE  FencingInv'
  <1>1. UNCHANGED <<task, statusSets, lock, fence, epoch, apiSnap, pc, job, token,
                    snap, beats>>
    BY DEF RecoverRead, ReconcilerFrame, recordVars, leaseVars, apiVars, localVars,
           beatVars
  <1>2. s.task \in Task /\ task[s.task] \in Record
    BY DEF TypeOK, Scanned
  <1> DEFINE rec == IF RetryLeft(s) THEN Requeued(task[s.task])
                                    ELSE Lost(task[s.task])
  <1>3. /\ rcur'[r].task = s.task /\ rcur'[r].token = s.token /\ rcur'[r].rec = rec
        /\ rpc'[r] = IF RetryLeft(s) THEN "requeue_write" ELSE "lost_write"
        /\ \A q \in Reconciler \ {r} : rcur'[q] = rcur[q] /\ rpc'[q] = rpc[q]
    BY DEF RecoverRead, RGoto, TypeOK
  <1>4. /\ rpc'[r] = "requeue_write" => rec.status = "PENDING" /\ rec.lease_token = 0
        /\ rpc'[r] = "lost_write" => rec.status = "FAILED" /\ rec.lease_token = s.token
    BY <1>2, <1>3, RecoveredRecords DEF OwnedBy
  <1> HIDE DEF rec
  <1>5. /\ task[s.task].status = "RUNNING" /\ s.token = epoch[s.task]
        /\ epoch[s.task] \in Nat
    BY <1>2 DEF OwnedBy, FencingInv, RunningOwnsFence, TokensIssued, TypeOK
  <1>6. TokensIssued'
    BY <1>1, <1>3, <1>5 DEF FencingInv, TokensIssued
  <1>7. SnapshotsOwned'
    BY <1>1, <1>3, <1>4 DEF FencingInv, SnapshotsOwned, OwnedBy
  <1>8. NoWayBack'
    BY <1>1, <1>3, <1>5 DEF FencingInv, NoWayBack
  <1>9. LostSealed'
    BY <1>1, <1>3, <1>5 DEF FencingInv, LostSealed
  <1>10. RunningOwnsFence' /\ PendingIndexExact'
    BY <1>1 DEF FencingInv, RunningOwnsFence, PendingIndexExact
  <1>11. QED  BY <1>6, <1>7, <1>8, <1>9, <1>10 DEF FencingInv

\* The writes under the lease, action by action.
LEMMA WorkerWriteKeeps ==
  ASSUME TypeOK, FencingInv, NEW w \in Worker, LeaseHeld(job[w], token[w]),
         MarkRunningWrite(w) \/ ProgressWrite(w) \/ CloseWrite(w)
  PROVE  FencingInv'
  <1>1. /\ job[w] \in Task /\ token[w] \in Nat /\ snap[w] \in Record
        /\ fence[job[w]] = token[w]
    BY DEF TypeOK, LeaseHeld
  <1>2. /\ UNCHANGED <<fence, epoch, lock, apiSnap, job, token, rpc, rcur, beats>>
        /\ \A v \in Worker :
             /\ pc'[v] \in Leased => pc[v] \in Leased
             /\ pc'[v] \in Started => pc[v] \in Started \/ job[v] = job[w]
             /\ pc'[v] \in {"write_running", "write_progress", "write_close"} =>
                  pc'[v] = pc[v] /\ snap'[v] = snap[v]
    <2>1. UNCHANGED <<fence, epoch, lock, apiSnap, job, token, rpc, rcur, beats>>
      BY DEF MarkRunningWrite, ProgressWrite, CloseWrite, WorkerFrame, leaseVars,
             apiVars, recVars, beatVars
    <2>2. /\ \A v \in Worker \ {w} : pc'[v] = pc[v] /\ snap'[v] = snap[v]
          /\ pc[w] \in {"write_running", "write_progress", "write_close"}
          /\ pc'[w] \in {"execute", "close", "release", "abandon", "finally"}
      <3> USE DEF Forget, Goto, TypeOK
      <3>1. CASE MarkRunningWrite(w)  BY <3>1 DEF MarkRunningWrite
      <3>2. CASE ProgressWrite(w)  BY <3>2 DEF ProgressWrite, AfterProgress
      <3>3. CASE CloseWrite(w)  BY <3>3 DEF CloseWrite
      <3>4. QED  BY <3>1, <3>2, <3>3
    <2>3. QED  BY <2>1, <2>2 DEF Leased, Started
  <1>3. CASE MarkRunningWrite(w)
    <2>1. WriteRecord(job[w], snap[w], {"PENDING"}, FALSE) /\ pc[w] = "write_running"
      BY <1>3 DEF MarkRunningWrite
    <2>2. snap[w].status # "PENDING" /\ snap[w].lease_token = token[w]
      BY <2>1 DEF FencingInv, SnapshotsOwned, OwnedBy
    <2>3. QED  BY <1>1, <1>2, <2>1, <2>2, LeasedWriteKeeps
  <1>4. CASE ProgressWrite(w) \/ CloseWrite(w)
    <2>1. /\ pc[w] \in {"write_progress", "write_close"}
          /\ \E prev : WriteRecord(job[w], snap[w], prev, FALSE)
      BY <1>4 DEF ProgressWrite, CloseWrite
    <2>2. snap[w].status # "PENDING" /\ snap[w].lease_token = token[w]
      BY <2>1 DEF FencingInv, SnapshotsOwned, OwnedBy
    <2>3. task[job[w]].status # "PENDING"
      BY <1>1, <2>1 DEF FencingInv, NoWayBack, Started, Leased
    <2>4. QED  BY <1>1, <1>2, <2>1, <2>2, <2>3, LeasedWriteKeeps
  <1>5. QED  BY <1>3, <1>4

LEMMA BeatWriteKeeps ==
  ASSUME TypeOK, FencingInv, NEW b \in beats, BeatWrite(b)
  PROVE  FencingInv'
  <1>1. /\ b.task \in Task /\ b.token \in Nat /\ b.rec \in Record
        /\ OwnedBy(b.rec, b.token)
    BY DEF TypeOK, Beat, FencingInv, SnapshotsOwned
  <1>2. /\ UNCHANGED <<fence, epoch, lock, apiSnap, pc, job, token, snap, rpc, rcur>>
        /\ beats' \subseteq beats
    BY DEF BeatWrite, WorkerFrame, leaseVars, apiVars, localVars, recVars
  <1>3. CASE LeaseHeld(b.task, b.token)
    <2>1. WriteRecord(b.task, b.rec, {}, FALSE)
      BY <1>3 DEF BeatWrite
    <2>2. task[b.task].status # "PENDING"
      BY <1>1, <1>3 DEF FencingInv, NoWayBack, LeaseHeld
    <2>3. b.rec.status # "PENDING" /\ b.rec.lease_token = b.token
      BY <1>1 DEF OwnedBy
    <2>4. QED  BY <1>1, <1>2, <1>3, <2>1, <2>2, <2>3, LeasedWriteKeeps
  <1>4. CASE ~LeaseHeld(b.task, b.token)
    <2>1. Quiet
      BY <1>2, <1>4 DEF BeatWrite, WorkerFrame, recordVars, leaseVars, apiVars, recVars,
                        Quiet, ApiMoves
    <2>2. QED  BY <2>1, QuietKeeps
  <1>5. QED  BY <1>3, <1>4

\* The recovery writes, action by action.
LEMMA ReconcilerWriteKeeps ==
  ASSUME TypeOK, FencingInv, NEW r \in Reconciler,
         CanRecover(rcur[r].task, rcur[r].token), RequeueWrite(r) \/ LostWrite(r)
  PROVE  FencingInv'
  <1>1. rcur[r].task \in Task /\ rcur[r].rec \in Record
    BY DEF TypeOK, InHand
  <1>2. /\ UNCHANGED <<apiSnap, pc, job, token, snap, beats, rcur>>
        /\ \A q \in Reconciler : rpc'[q] \in {"requeue_write", "lost_write"} =>
                                   rpc'[q] = rpc[q]
        /\ AdvanceFence(rcur[r].task)
        /\ \E d : WriteRecord(rcur[r].task, rcur[r].rec, {"RUNNING"}, d)
        /\ rpc[r] \in {"requeue_write", "lost_write"}
    BY DEF RequeueWrite, LostWrite, RGoto, ReconcilerFrame, apiVars, localVars,
           beatVars, TypeOK
  <1>3. \/ rcur[r].rec.status = "PENDING" /\ rcur[r].rec.lease_token = 0
        \/ rcur[r].rec.status = "FAILED"
    BY <1>2 DEF FencingInv, SnapshotsOwned
  <1>4. QED  BY <1>1, <1>2, <1>3, RecoveryWriteKeeps

-----------------------------------------------------------------------------
(* Theorems *)

\* Every step of the system keeps the fencing invariant.
LEMMA FencingStep ==
  ASSUME TypeOK, FencingInv, [Next]_vars
  PROVE  FencingInv'
  <1>1. CASE Tick
    BY <1>1, TickKeeps
  <1>2. ASSUME NEW t \in Task, ApiNext(t)  PROVE FencingInv'
    BY <1>2, ApiFailKeeps, OthersQuiet, QuietKeeps DEF ApiNext
  <1>3. ASSUME NEW w \in Worker, WorkerNext(w)  PROVE FencingInv'
    <2>1. \/ \E t \in Task : Acquire(w, t)
          \/ /\ LeaseHeld(job[w], token[w])
             /\ MarkRunningWrite(w) \/ ProgressWrite(w) \/ CloseWrite(w)
          \/ MarkRunningRead(w) /\ IsQueued(task[job[w]])
          \/ ProgressRead(w) /\ OwnedBy(task[job[w]], token[w])
          \/ CloseRead(w) /\ OwnedBy(task[job[w]], token[w])
          \/ Quiet
      BY <1>3, WorkerQuiet DEF WorkerNext
    <2>2. QED
      BY <2>1, AcquireKeeps, WorkerWriteKeeps, WorkerReadKeeps, QuietKeeps
  <1>4. ASSUME NEW w \in Worker, BeatRead(w) \/ WorkerCrash(w)  PROVE FencingInv'
    BY <1>4, BeatReadKeeps, WorkerQuiet, QuietKeeps
  <1>5. ASSUME NEW b \in beats, BeatWrite(b)  PROVE FencingInv'
    BY <1>5, BeatWriteKeeps
  <1>6. ASSUME NEW r \in Reconciler, ReconcilerNext(r) \/ ReconcilerCrash(r)
        PROVE  FencingInv'
    <2>1. \/ \E s \in rstale[r] : RecoverRead(r, s) /\ OwnedBy(task[s.task], s.token)
          \/ /\ CanRecover(rcur[r].task, rcur[r].token)
             /\ RequeueWrite(r) \/ LostWrite(r)
          \/ Quiet
      BY <1>6, OthersQuiet DEF ReconcilerNext
    <2>2. QED  BY <2>1, RecoverReadKeeps, ReconcilerWriteKeeps, QuietKeeps
  <1>7. CASE UNCHANGED vars
    <2>1. Quiet
      BY <1>7 DEF Quiet, vars, recordVars, leaseVars, apiVars, localVars, beatVars,
                  recVars, ApiMoves, Raised
    <2>2. QED  BY <2>1, QuietKeeps
  <1>8. QED  BY <1>1, <1>2, <1>3, <1>4, <1>5, <1>6, <1>7 DEF Next

\* Fencing: the tokens, snapshots and indexes of the store stay consistent
\* through every interleaving of workers, heartbeats, reconcilers and the API.
THEOREM FencingHolds == Spec => []FencingInv
  <1>1. Init => FencingInv
    BY DEF Init, FencingInv, TokensIssued, SnapshotsOwned, NoWayBack, LostSealed,
           RunningOwnsFence, PendingIndexExact, Admitted, Leased, Started
  <1>2. TypeOK /\ FencingInv /\ [Next]_vars => FencingInv'
    BY FencingStep
  <1>3. QED  BY <1>1, <1>2, TypeCorrect, PTL DEF Spec

\* A RUNNING record belongs to the current generation of its task.
THEOREM RunningOwnsFenceHolds == Spec => []RunningOwnsFence
  <1>1. FencingInv => RunningOwnsFence
    BY DEF FencingInv
  <1>2. QED  BY <1>1, FencingHolds, PTL

\* The PENDING index is exact.
THEOREM PendingIndexExactHolds == Spec => []PendingIndexExact
  <1>1. FencingInv => PendingIndexExact
    BY DEF FencingInv
  <1>2. QED  BY <1>1, FencingHolds, PTL

\* At most one worker at a time can write a task under the lease.
THEOREM SingleWriterHolds == Spec => []SingleWriter
  <1>1. FencingInv => SingleWriter
    BY DEF FencingInv, TokensIssued, SingleWriter, LeaseHeld
  <1>2. QED  BY <1>1, FencingHolds, PTL

\* A step never moves the fence of a task whose lock is alive: only acquiring
\* and recovery move it, and both need the lock to be gone.
LEMMA FenceStep ==
  ASSUME TypeOK, [Next]_vars, NEW t \in Task, lock[t] # 0
  PROVE  fence'[t] = fence[t]
  <1>1. CASE Tick  BY <1>1 DEF Tick
  <1>2. ASSUME NEW u \in Task, ApiNext(u)  PROVE fence' = fence
    BY <1>2 DEF ApiNext, ApiEnqueue, ApiEnqueueRaises, ApiFailRead, ApiFailLock,
                ApiFailWrite, ApiFrame, leaseVars
  <1>3. ASSUME NEW w \in Worker, WorkerNext(w)  PROVE fence'[t] = fence[t]
    <2>1. ASSUME NEW u \in Task, Acquire(w, u)  PROVE fence'[t] = fence[t]
      BY <2>1 DEF Acquire, CanAcquire, TypeOK
    <2>2. CASE ~\E u \in Task : Acquire(w, u)
      BY <1>3, <2>2
         DEF WorkerNext, AcquireRefused, MarkRunningRead, MarkRunningWrite, Abandon,
             ProgressRead, ProgressWrite, Raises, CloseRead, CloseWrite,
             CloseRelease, DeadLetter, Finally, ReleaseLease, leaseVars
    <2>3. QED  BY <2>1, <2>2
  <1>4. ASSUME NEW w \in Worker, BeatRead(w) \/ WorkerCrash(w)  PROVE fence' = fence
    BY <1>4 DEF BeatRead, WorkerCrash, leaseVars
  <1>5. ASSUME NEW b \in beats, BeatWrite(b)  PROVE fence' = fence
    BY <1>5 DEF BeatWrite, leaseVars
  <1>6. ASSUME NEW r \in Reconciler, ReconcilerNext(r) \/ ReconcilerCrash(r)
        PROVE  fence'[t] = fence[t]
    <2>1. CASE RequeueWrite(r) \/ LostWrite(r)
      BY <2>1 DEF RequeueWrite, LostWrite, CanRecover, AdvanceFence, leaseVars, TypeOK
    <2>2. CASE ~(RequeueWrite(r) \/ LostWrite(r))
      BY <1>6, <2>2
         DEF ReconcilerNext, Scan, RecoverRead, LostDeadLetter, ListDispatches,
             DispatchRead, Publish, PublishRaises, AckDispatch, ReconcilerCrash,
             leaseVars
    <2>3. QED  BY <2>1, <2>2
  <1>7. CASE UNCHANGED vars  BY <1>7 DEF vars, leaseVars
  <1>8. QED  BY <1>1, <1>2, <1>3, <1>4, <1>5, <1>6, <1>7 DEF Next

\* Nobody advances the generation of a live lease.
THEOREM LiveLeaseKeepsFenceHolds == Spec => LiveLeaseKeepsFence
  <1>1. TypeOK /\ [Next]_vars =>
          [\A t \in Task : lock[t] # 0 => fence'[t] = fence[t]]_vars
    BY FenceStep
  <1>2. QED  BY <1>1, TypeCorrect, PTL DEF Spec, LiveLeaseKeepsFence

\* A step that writes the record of a task closed as lost leaves it FAILED.
LEMMA LostStep ==
  ASSUME TypeOK, FencingInv, [Next]_vars, NEW t \in Task,
         task[t].status = "FAILED", 0 < task[t].lease_token,
         task[t].lease_token < fence[t]
  PROVE  task'[t].status = "FAILED"
  <1>0. /\ \A w \in Worker : pc[w] \in Leased /\ job[w] = t => token[w] # fence[t]
        /\ \A b \in beats : b.task = t => b.token # fence[t]
        /\ \A r \in Reconciler :
             rpc[r] \in {"requeue_write", "lost_write"} /\ rcur[r].task = t
               => rcur[r].token # fence[t]
    BY DEF FencingInv, LostSealed
  <1>1. CASE Tick
    BY <1>1, OlderKeeps DEF Tick, TypeOK
  <1>2. CASE Quiet
    BY <1>2 DEF Quiet
  <1>3. ASSUME NEW u \in Task, ApiFailRead(u) \/ ApiFailWrite(u)
        PROVE  task'[t].status = "FAILED"
    <2>1. \/ task' = task
          \/ task' = [task EXCEPT ![u] = [apiSnap[u] EXCEPT !.status = "FAILED"]]
      BY <1>3 DEF ApiFailRead, ApiFailWrite
    <2>2. [apiSnap[u] EXCEPT !.status = "FAILED"].status = "FAILED"
      BY WithStatus DEF TypeOK, Status
    <2>3. QED  BY <2>1, <2>2 DEF TypeOK
  <1>4. ASSUME NEW w \in Worker,
               \/ \E u \in Task : Acquire(w, u)
               \/ MarkRunningRead(w) \/ ProgressRead(w) \/ CloseRead(w) \/ BeatRead(w)
        PROVE  task' = task
    BY <1>4 DEF Acquire, MarkRunningRead, ProgressRead, CloseRead, BeatRead,
                recordVars
  <1>5. ASSUME NEW w \in Worker, LeaseHeld(job[w], token[w]),
               MarkRunningWrite(w) \/ ProgressWrite(w) \/ CloseWrite(w)
        PROVE  task'[t] = task[t]
    <2>1. job[w] # t
      BY <1>0, <1>5 DEF LeaseHeld, MarkRunningWrite, ProgressWrite, CloseWrite, Leased
    <2>2. \E prev : WriteRecord(job[w], snap[w], prev, FALSE)
      BY <1>5 DEF MarkRunningWrite, ProgressWrite, CloseWrite
    <2>3. QED  BY <2>1, <2>2 DEF WriteRecord, TypeOK
  <1>6. ASSUME NEW b \in beats, BeatWrite(b)  PROVE task'[t] = task[t]
    BY <1>0, <1>6 DEF BeatWrite, LeaseHeld, WriteRecord, recordVars, TypeOK, Beat
  <1>7. ASSUME NEW r \in Reconciler, RequeueWrite(r) \/ LostWrite(r)
        PROVE  task'[t] = task[t]
    BY <1>0, <1>7 DEF RequeueWrite, LostWrite, CanRecover, WriteRecord, recordVars,
                      TypeOK, InHand
  <1>8. ASSUME NEW r \in Reconciler, NEW s \in rstale[r], RecoverRead(r, s)
        PROVE  task' = task
    BY <1>8 DEF RecoverRead, recordVars
  <1>9. CASE UNCHANGED vars
    BY <1>9 DEF vars, recordVars
  <1>10. CASE \E u \in Task : ApiNext(u)
    BY <1>2, <1>3, <1>10, OthersQuiet DEF ApiNext
  <1>11. CASE \E w \in Worker : WorkerNext(w) \/ BeatRead(w) \/ WorkerCrash(w)
    <2>1. PICK w \in Worker : WorkerNext(w) \/ BeatRead(w) \/ WorkerCrash(w)
      BY <1>11
    <2>2. \/ \E u \in Task : Acquire(w, u)
          \/ /\ LeaseHeld(job[w], token[w])
             /\ MarkRunningWrite(w) \/ ProgressWrite(w) \/ CloseWrite(w)
          \/ MarkRunningRead(w) \/ ProgressRead(w) \/ CloseRead(w) \/ BeatRead(w)
          \/ Quiet
      BY <2>1, WorkerQuiet DEF WorkerNext
    <2>3. QED  BY <1>2, <1>4, <1>5, <2>2
  <1>12. CASE \E r \in Reconciler : ReconcilerNext(r) \/ ReconcilerCrash(r)
    BY <1>2, <1>7, <1>8, <1>12, OthersQuiet DEF ReconcilerNext
  <1>13. QED  BY <1>1, <1>6, <1>9, <1>10, <1>11, <1>12 DEF Next

\* The verdict of recovery is final.
THEOREM LostVerdictFinalHolds == Spec => LostVerdictFinal
  <1>1. TypeOK /\ FencingInv /\ [Next]_vars =>
          [\A t \in Task :
             task[t].status = "FAILED" /\ 0 < task[t].lease_token
                                       /\ task[t].lease_token < fence[t]
               => task'[t].status = "FAILED"]_vars
    BY LostStep
  <1>2. QED  BY <1>1, TypeCorrect, FencingHolds, PTL DEF Spec, LostVerdictFinal

-----------------------------------------------------------------------------
(* The steps, as seen from the records and those who carry copies of them *)

\* pcs at which a worker, or a reconciler, is about to write what it read.
WritePc   == {"write_running", "write_progress", "write_close"}
RecoverPc == {"requeue_write", "lost_write"}

\* A worker moves on after the write it was about to make.
MovesOn(w) ==
  <<pc[w], pc'[w]>> \in {<<"write_running", "execute">>, <<"write_progress", "execute">>,
                         <<"write_progress", "close">>, <<"write_close", "release">>}

\* A worker or its heartbeat thread writes the record it carries under its
\* live lease, of generation k.
LeasedWrite(t, k, rec) ==
  /\ LeaseHeld(t, k)
  /\ \/ \E w \in Worker : /\ pc[w] \in WritePc /\ MovesOn(w)
                          /\ job[w] = t /\ token[w] = k /\ snap[w] = rec
     \/ \E b \in beats : b.task = t /\ b.token = k /\ b.rec = rec
  /\ task' = [task EXCEPT ![t] = rec]
  /\ running' = IF rec.status = "RUNNING" THEN running \cup {t} ELSE running \ {t}
  /\ UNCHANGED <<lock, lockTtl, fence, epoch, job, token, api, apiSnap, rpc, rstale,
                 rcur>>
  /\ beats' \subseteq beats
  /\ \A v \in Worker : \/ pc'[v] = pc[v] /\ snap'[v] = snap[v]
                       \/ job[v] = t /\ token[v] = k /\ MovesOn(v)

\* A worker of generation k = token[w] reads the record of its task and is
\* about to write rec.
ReadsForWrite(w, rec) ==
  /\ pc[w] \in Leased
  /\ pc' = [pc EXCEPT ![w] = pc'[w]] /\ pc'[w] \in WritePc
  /\ snap' = [snap EXCEPT ![w] = rec]
  /\ \/ /\ pc[w] = "mark_running" /\ pc'[w] = "write_running"
        /\ task[job[w]].status = "PENDING" /\ rec.heartbeat_age = 0
     \/ /\ pc'[w] # "write_running" /\ OwnedBy(task[job[w]], token[w])
        /\ rec.heartbeat_age = task[job[w]].heartbeat_age
  /\ rec.retry_count = task[job[w]].retry_count
  /\ UNCHANGED <<task, running, lock, lockTtl, fence, epoch, job, token, beats, api,
                 apiSnap, rpc, rstale, rcur>>

\* The heartbeat thread of w reads the record and is about to refresh it.
BeatsForWrite(w, b) ==
  /\ OwnedBy(task[job[w]], token[w])
  /\ b \in Beat /\ b.task = job[w] /\ b.token = token[w]
  /\ b.rec.heartbeat_age = 0 /\ b.rec.retry_count = task[job[w]].retry_count
  /\ beats' = beats \cup {b}
  /\ UNCHANGED <<task, running, lock, lockTtl, fence, epoch, pc, job, token, snap, api,
                 apiSnap, rpc, rstale, rcur>>

\* A reconciler has read the record of a scanned task and will recover it.
RecoversForWrite(r, s) ==
  /\ s \in rstale[r] /\ OwnedBy(task[s.task], s.token)
  /\ rcur' = [rcur EXCEPT ![r] =
       [task |-> s.task, token |-> s.token,
        rec |-> IF RetryLeft(s) THEN Requeued(task[s.task]) ELSE Lost(task[s.task])]]
  /\ rpc' = [rpc EXCEPT ![r] = IF RetryLeft(s) THEN "requeue_write" ELSE "lost_write"]
  /\ \A q \in Reconciler : rstale'[q] \subseteq rstale[q]
  /\ UNCHANGED <<task, running, lock, lockTtl, fence, epoch, pc, job, token, snap,
                 beats, api, apiSnap>>

\* A reconciler writes the recovered record, in a new generation.
RecoveryWrite(r) ==
  /\ rpc[r] \in RecoverPc
  /\ CanRecover(rcur[r].task, rcur[r].token)
  /\ AdvanceFence(rcur[r].task)
  /\ task' = [task EXCEPT ![rcur[r].task] = rcur[r].rec]
  /\ running' = IF rcur[r].rec.status = "RUNNING" THEN running \cup {rcur[r].task}
                                                  ELSE running \ {rcur[r].task}
  /\ rpc' = [rpc EXCEPT ![r] = rpc'[r]] /\ rpc'[r] \notin RecoverPc
  /\ UNCHANGED <<pc, job, token, snap, beats, api, apiSnap, rstale, rcur>>

\* Every step is one of these, quiet, a tick, an acquired lease or a step of
\* mark_pending_failed.
LEMMA StepKinds ==
  ASSUME TypeOK, [Next]_vars
  PROVE  \/ Tick
         \/ Quiet
         \/ \E t \in Task : (ApiFailRead(t) /\ IsQueued(task[t])) \/ ApiFailWrite(t)
         \/ \E w \in Worker, t \in Task : Acquire(w, t)
         \/ \E w \in Worker, rec \in Record : ReadsForWrite(w, rec)
         \/ \E w \in Worker, b \in Beat : BeatsForWrite(w, b)
         \/ \E t \in Task, k \in Nat, rec \in Record : LeasedWrite(t, k, rec)
         \/ \E r \in Reconciler, s \in Scanned : RecoversForWrite(r, s)
         \/ \E r \in Reconciler : RecoveryWrite(r)
  <1> DEFINE Goal ==
         \/ Tick
         \/ Quiet
         \/ \E t \in Task : (ApiFailRead(t) /\ IsQueued(task[t])) \/ ApiFailWrite(t)
         \/ \E w \in Worker, t \in Task : Acquire(w, t)
         \/ \E w \in Worker, rec \in Record : ReadsForWrite(w, rec)
         \/ \E w \in Worker, b \in Beat : BeatsForWrite(w, b)
         \/ \E t \in Task, k \in Nat, rec \in Record : LeasedWrite(t, k, rec)
         \/ \E r \in Reconciler, s \in Scanned : RecoversForWrite(r, s)
         \/ \E r \in Reconciler : RecoveryWrite(r)
  <1>1. ASSUME NEW t \in Task, ApiNext(t)  PROVE Goal
    BY <1>1, OthersQuiet DEF ApiNext
  <1>2. ASSUME NEW w \in Worker, MarkRunningRead(w), IsQueued(task[job[w]])
        PROVE  \E rec \in Record : ReadsForWrite(w, rec)
    <2> DEFINE rec == [task[job[w]] EXCEPT !.status = "RUNNING",
                         !.lease_token = token[w], !.heartbeat_age = 0]
    <2>1. rec \in Record /\ rec.heartbeat_age = 0
          /\ rec.retry_count = task[job[w]].retry_count
      <3>1. task[job[w]] \in Record /\ token[w] \in Nat  BY DEF TypeOK
      <3>2. rec \in Record  BY <3>1, WithLease
      <3>3. rec.heartbeat_age = 0 /\ rec.retry_count = task[job[w]].retry_count
        BY <3>1 DEF Record
      <3>4. QED  BY <3>2, <3>3
    <2>2. /\ pc[w] = "mark_running" /\ pc' = [pc EXCEPT ![w] = "write_running"]
          /\ snap' = [snap EXCEPT ![w] = rec]
      BY <1>2 DEF MarkRunningRead, Goto
    <2> HIDE DEF rec
    <2>3. ReadsForWrite(w, rec)
      BY <1>2, <2>1, <2>2
         DEF ReadsForWrite, MarkRunningRead, WorkerFrame, IsQueued, TypeOK, WritePc,
             Leased, recordVars, leaseVars, apiVars, beatVars, recVars
    <2>4. QED  BY <2>1, <2>3
  <1>3. ASSUME NEW w \in Worker, ProgressRead(w), OwnedBy(task[job[w]], token[w])
        PROVE  \E rec \in Record : ReadsForWrite(w, rec)
    <2>1. ReadsForWrite(w, task[job[w]])
      BY <1>3 DEF ReadsForWrite, ProgressRead, WorkerFrame, Goto, TypeOK, WritePc,
                  Leased, recordVars, leaseVars, apiVars, beatVars, recVars
    <2>2. QED  BY <2>1 DEF TypeOK
  <1>4. ASSUME NEW w \in Worker, CloseRead(w), OwnedBy(task[job[w]], token[w])
        PROVE  \E rec \in Record : ReadsForWrite(w, rec)
    <2> DEFINE rec == [task[job[w]] EXCEPT !.status = outcome[w]]
    <2>1. /\ rec \in Record /\ rec.heartbeat_age = task[job[w]].heartbeat_age
          /\ rec.retry_count = task[job[w]].retry_count
      <3>1. task[job[w]] \in Record /\ outcome[w] \in Status  BY DEF TypeOK, Status
      <3>2. QED  BY <3>1 DEF Record
    <2>2. /\ pc[w] = "close" /\ pc' = [pc EXCEPT ![w] = "write_close"]
          /\ snap' = [snap EXCEPT ![w] = rec]
      BY <1>4 DEF CloseRead, Goto
    <2> HIDE DEF rec
    <2>3. ReadsForWrite(w, rec)
      BY <1>4, <2>1, <2>2
         DEF ReadsForWrite, CloseRead, WorkerFrame, TypeOK, WritePc,
             Leased, recordVars, leaseVars, apiVars, beatVars, recVars
    <2>4. QED  BY <2>1, <2>3
  <1>5. ASSUME NEW w \in Worker, LeaseHeld(job[w], token[w]),
               MarkRunningWrite(w) \/ ProgressWrite(w) \/ CloseWrite(w)
        PROVE  LeasedWrite(job[w], token[w], snap[w])
    <2>1. /\ pc[w] \in WritePc
          /\ task' = [task EXCEPT ![job[w]] = snap[w]]
          /\ running' = IF snap[w].status = "RUNNING" THEN running \cup {job[w]}
                                                     ELSE running \ {job[w]}
      BY <1>5 DEF MarkRunningWrite, ProgressWrite, CloseWrite, WriteRecord, WritePc
    <2>2. /\ UNCHANGED <<lock, lockTtl, fence, epoch, job, token, api, apiSnap, rpc,
                         rstale, rcur, beats>>
      BY <1>5 DEF MarkRunningWrite, ProgressWrite, CloseWrite, WorkerFrame, leaseVars,
                  apiVars, beatVars, recVars
    <2>3. (\A v \in Worker \ {w} : pc'[v] = pc[v] /\ snap'[v] = snap[v]) /\ MovesOn(w)
      <3> USE DEF Forget, Goto, MovesOn, TypeOK
      <3>1. CASE MarkRunningWrite(w)  BY <1>5, <3>1 DEF MarkRunningWrite
      <3>2. CASE ProgressWrite(w)  BY <3>2 DEF ProgressWrite, AfterProgress
      <3>3. CASE CloseWrite(w)  BY <1>5, <3>3 DEF CloseWrite
      <3>4. QED  BY <1>5, <3>1, <3>2, <3>3
    <2>4. QED  BY <1>5, <2>1, <2>2, <2>3 DEF LeasedWrite
  <1>6. ASSUME NEW w \in Worker, WorkerNext(w)  PROVE Goal
    <2>1. \/ \E t \in Task : Acquire(w, t)
          \/ /\ LeaseHeld(job[w], token[w])
             /\ MarkRunningWrite(w) \/ ProgressWrite(w) \/ CloseWrite(w)
          \/ MarkRunningRead(w) /\ IsQueued(task[job[w]])
          \/ ProgressRead(w) /\ OwnedBy(task[job[w]], token[w])
          \/ CloseRead(w) /\ OwnedBy(task[job[w]], token[w])
          \/ Quiet
      BY <1>6, WorkerQuiet DEF WorkerNext
    <2>2. job[w] \in Task /\ token[w] \in Nat /\ snap[w] \in Record
      BY DEF TypeOK
    <2>3. QED  BY <1>2, <1>3, <1>4, <1>5, <2>1, <2>2
  <1>7. ASSUME NEW w \in Worker, BeatRead(w), OwnedBy(task[job[w]], token[w])
        PROVE  \E b \in Beat : BeatsForWrite(w, b)
    <2> DEFINE rec == [task[job[w]] EXCEPT !.heartbeat_age = 0]
               b   == [worker |-> w, task |-> job[w], token |-> token[w], rec |-> rec]
    <2>1. rec \in Record /\ rec.heartbeat_age = 0
          /\ rec.retry_count = task[job[w]].retry_count
      <3>1. task[job[w]] \in Record  BY DEF TypeOK
      <3>2. QED  BY <3>1 DEF Record, Age
    <2>2. beats' = beats \cup {b}
      BY <1>7 DEF BeatRead
    <2> HIDE DEF rec
    <2>3. b \in Beat  BY <2>1 DEF Beat, TypeOK
    <2>4. BeatsForWrite(w, b)
      BY <1>7, <2>1, <2>2, <2>3
         DEF BeatsForWrite, BeatRead, WorkerFrame, recordVars, leaseVars, localVars,
             apiVars, recVars
    <2>5. QED  BY <2>3, <2>4
  <1>8. ASSUME NEW w \in Worker, BeatRead(w) \/ WorkerCrash(w)  PROVE Goal
    BY <1>7, <1>8, WorkerQuiet
  <1>9. ASSUME NEW b \in beats, BeatWrite(b)  PROVE Goal
    <2>1. /\ UNCHANGED <<lock, lockTtl, fence, epoch, job, token, api, apiSnap, rpc,
                         rstale, rcur, pc, snap>>
          /\ beats' \subseteq beats
      BY <1>9 DEF BeatWrite, WorkerFrame, leaseVars, localVars, apiVars, recVars
    <2>2. b.task \in Task /\ b.token \in Nat /\ b.rec \in Record
      BY DEF TypeOK, Beat
    <2>3. CASE LeaseHeld(b.task, b.token)
      <3>1. /\ task' = [task EXCEPT ![b.task] = b.rec]
            /\ running' = IF b.rec.status = "RUNNING" THEN running \cup {b.task}
                                                     ELSE running \ {b.task}
        BY <1>9, <2>3 DEF BeatWrite, WriteRecord
      <3>2. LeasedWrite(b.task, b.token, b.rec)
        BY <2>1, <2>3, <3>1 DEF LeasedWrite
      <3>3. QED  BY <2>2, <3>2
    <2>4. CASE ~LeaseHeld(b.task, b.token)
      BY <1>9, <2>1, <2>4 DEF BeatWrite, recordVars, Quiet, ApiMoves
    <2>5. QED  BY <2>3, <2>4
  <1>10. ASSUME NEW r \in Reconciler, NEW s \in rstale[r], RecoverRead(r, s),
                OwnedBy(task[s.task], s.token)
         PROVE  s \in Scanned /\ RecoversForWrite(r, s)
    BY <1>10 DEF RecoversForWrite, RecoverRead, RGoto, ReconcilerFrame, recordVars,
                 leaseVars, apiVars, localVars, beatVars, TypeOK
  <1>11. ASSUME NEW r \in Reconciler, CanRecover(rcur[r].task, rcur[r].token),
                RequeueWrite(r) \/ LostWrite(r)
         PROVE  RecoveryWrite(r)
    BY <1>11 DEF RecoveryWrite, RequeueWrite, LostWrite, WriteRecord, RGoto,
                 ReconcilerFrame, recordVars, leaseVars, apiVars, localVars, beatVars,
                 TypeOK, RecoverPc
  <1>12. ASSUME NEW r \in Reconciler, ReconcilerNext(r) \/ ReconcilerCrash(r)
         PROVE  Goal
    <2>1. \/ \E s \in rstale[r] : RecoverRead(r, s) /\ OwnedBy(task[s.task], s.token)
          \/ /\ CanRecover(rcur[r].task, rcur[r].token)
             /\ RequeueWrite(r) \/ LostWrite(r)
          \/ Quiet
      BY <1>12, OthersQuiet DEF ReconcilerNext
    <2>2. QED  BY <1>10, <1>11, <2>1
  <1>13. CASE UNCHANGED vars
    BY <1>13 DEF Quiet, vars, recordVars, leaseVars, apiVars, localVars, beatVars,
                 recVars, ApiMoves
  <1>14. QED
    BY <1>1, <1>6, <1>8, <1>9, <1>12, <1>13 DEF Next

\* mark_pending_failed writes its task FAILED, from the record it read, or
\* nothing.
LEMMA ApiWriteEffect ==
  ASSUME TypeOK, NEW t \in Task, ApiFailRead(t) \/ ApiFailWrite(t), NEW u \in Task
  PROVE  \/ task'[u] = task[u]
         \/ /\ u = t /\ api[t] = "fail_write"
            /\ task'[u] \in Record /\ task'[u].status = "FAILED"
            /\ task'[u].lease_token = apiSnap[t].lease_token
            /\ task'[u].retry_count = apiSnap[t].retry_count
  <1>1. apiSnap[t] \in Record
    BY DEF TypeOK
  <1> DEFINE rec == [apiSnap[t] EXCEPT !.status = "FAILED"]
  <1>2. /\ rec \in Record /\ rec.status = "FAILED"
        /\ rec.lease_token = apiSnap[t].lease_token
        /\ rec.retry_count = apiSnap[t].retry_count
    BY <1>1 DEF Record, Status
  <1>3. \/ task' = task
        \/ api[t] = "fail_write" /\ task' = [task EXCEPT ![t] = rec]
    BY DEF ApiFailRead, ApiFailWrite
  <1> HIDE DEF rec
  <1>4. QED  BY <1>2, <1>3 DEF TypeOK

-----------------------------------------------------------------------------
(* Recovery waits for the lock *)

\* A heartbeat of this age under this lock leaves the lock no time beyond
\* the heartbeat timeout.
Fresh(rec, ttl) == rec.heartbeat_age + ttl <= HeartbeatTimeout

\* A lock exists exactly while it has a TTL, and whoever is RUNNING under a
\* live lock, or may still write RUNNING under it, has a heartbeat that is
\* young enough: it goes stale no earlier than the lock runs out.
LeaseTimed ==
  /\ \A t \in Task : /\ lock[t] = 0 <=> lockTtl[t] = 0
                     /\ lockTtl[t] <= HeartbeatTimeout
                     /\ lock[t] # 0 /\ task[t].status = "RUNNING"
                          => Fresh(task[t], lockTtl[t])
  /\ \A w \in Worker :
       /\ pc[w] \in {"write_running", "write_progress"}
       /\ token[w] = lock[job[w]] /\ lock[job[w]] # 0
       => Fresh(snap[w], lockTtl[job[w]])
  /\ \A b \in beats : b.token = lock[b.task] /\ lock[b.task] # 0
                       => Fresh(b.rec, lockTtl[b.task])

\* A tick keeps it: what the heartbeat ages, the lock has less to live.
LEMMA TickTimed ==
  ASSUME TypeOK, FencingInv, LeaseTimed, Tick
  PROVE  LeaseTimed'
  <1>1. UNCHANGED <<pc, job, token>>
    BY DEF Tick
  <1>2. ASSUME NEW t \in Task
        PROVE  /\ lock'[t] = 0 <=> lockTtl'[t] = 0
               /\ lockTtl'[t] <= HeartbeatTimeout
               /\ lock'[t] # 0 => /\ lock'[t] = lock[t] /\ lock[t] # 0
                                  /\ lockTtl'[t] = lockTtl[t] - 1
                                  /\ lockTtl[t] \in Nat /\ lockTtl[t] > 1
    BY DEF Tick, TypeOK, LeaseTimed
  <1>3. ASSUME NEW rec \in Record, NEW ttl \in Nat, ttl > 1,
               rec.status = "RUNNING", Fresh(rec, ttl)
        PROVE  Fresh(Older(rec), ttl - 1)
    BY <1>3 DEF Fresh, Older, Record, Age
  <1>4. ASSUME NEW t \in Task, lock'[t] # 0, task'[t].status = "RUNNING"
        PROVE  Fresh(task'[t], lockTtl'[t])
    <2>1. task'[t] = Older(task[t]) /\ task[t] \in Record
      BY DEF Tick, TypeOK
    <2>2. task[t].status = "RUNNING"
      BY <1>4, <2>1, OlderKeeps
    <2>3. Fresh(task[t], lockTtl[t])
      BY <1>2, <1>4, <2>2 DEF LeaseTimed
    <2>4. QED  BY <1>2, <1>3, <1>4, <2>1, <2>2, <2>3
  <1>5. ASSUME NEW w \in Worker, pc'[w] \in {"write_running", "write_progress"},
               token'[w] = lock'[job'[w]], lock'[job'[w]] # 0
        PROVE  Fresh(snap'[w], lockTtl'[job'[w]])
    <2>1. snap'[w] = Older(snap[w]) /\ snap[w] \in Record /\ job[w] \in Task
      BY DEF Tick, TypeOK
    <2>2. lock'[job[w]] = lock[job[w]] /\ lock[job[w]] # 0
      BY <1>1, <1>2, <1>5, <2>1
    <2>3. snap[w].status = "RUNNING" /\ Fresh(snap[w], lockTtl[job[w]])
      BY <1>1, <1>5, <2>2 DEF LeaseTimed, FencingInv, SnapshotsOwned, OwnedBy
    <2>4. QED  BY <1>1, <1>2, <1>3, <1>5, <2>1, <2>3
  <1>6. ASSUME NEW c \in beats', c.token = lock'[c.task], lock'[c.task] # 0
        PROVE  Fresh(c.rec, lockTtl'[c.task])
    <2>1. PICK b \in beats : c = [b EXCEPT !.rec = Older(b.rec)]
      BY DEF Tick
    <2>2. b \in Beat /\ b.rec \in Record /\ b.task \in Task
      BY DEF TypeOK, Beat
    <2>3. c.task = b.task /\ c.token = b.token /\ c.rec = Older(b.rec)
      BY <2>1, <2>2 DEF Beat
    <2>4. lock'[b.task] = lock[b.task] /\ lock[b.task] # 0
      BY <1>2, <1>6, <2>2, <2>3
    <2>5. b.rec.status = "RUNNING" /\ Fresh(b.rec, lockTtl[b.task])
      BY <1>6, <2>3, <2>4 DEF LeaseTimed, FencingInv, SnapshotsOwned, OwnedBy
    <2>6. QED  BY <1>2, <1>3, <1>6, <2>2, <2>3, <2>5
  <1>7. QED  BY <1>2, <1>4, <1>5, <1>6 DEF LeaseTimed

\* Acquiring keeps it: the task is PENDING, and nobody has the new token.
LEMMA AcquireTimed ==
  ASSUME TypeOK, FencingInv, LeaseTimed, NEW w \in Worker, NEW t \in Task,
         Acquire(w, t)
  PROVE  LeaseTimed'
  <1>1. /\ epoch[t] \in Nat /\ task[t].status = "PENDING"
        /\ UNCHANGED <<task, snap, beats>>
    BY DEF Acquire, CanAcquire, FencingInv, PendingIndexExact, TypeOK, recordVars,
           beatVars
  <1>2. /\ lock'[t] = epoch[t] + 1 /\ lockTtl'[t] = HeartbeatTimeout
        /\ \A u \in Task \ {t} : lock'[u] = lock[u] /\ lockTtl'[u] = lockTtl[u]
    BY DEF Acquire, NextToken, LeaseTtl, TypeOK
  <1>3. /\ pc'[w] = "mark_running"
        /\ \A v \in Worker \ {w} : pc'[v] = pc[v] /\ job'[v] = job[v]
                                   /\ token'[v] = token[v]
    BY DEF Acquire, TypeOK, Goto
  <1>4. /\ \A v \in Worker : pc[v] \in Leased /\ job[v] = t => token[v] # lock'[t]
        /\ \A b \in beats : b.task = t => b.token # lock'[t]
    BY <1>1, <1>2 DEF FencingInv, TokensIssued, TypeOK, Beat
  <1>5. \A u \in Task : /\ lock'[u] = 0 <=> lockTtl'[u] = 0
                        /\ lockTtl'[u] <= HeartbeatTimeout
                        /\ lock'[u] # 0 /\ task'[u].status = "RUNNING"
                             => Fresh(task'[u], lockTtl'[u])
    BY <1>1, <1>2 DEF LeaseTimed
  <1>6. ASSUME NEW v \in Worker, pc'[v] \in {"write_running", "write_progress"},
               token'[v] = lock'[job'[v]], lock'[job'[v]] # 0
        PROVE  Fresh(snap'[v], lockTtl'[job'[v]])
    <2>1. v # w /\ pc'[v] = pc[v] /\ job'[v] = job[v] /\ token'[v] = token[v]
      BY <1>3, <1>6
    <2>2. job[v] \in Task \ {t}
      BY <1>4, <1>6, <2>1 DEF Leased, TypeOK
    <2>3. QED  BY <1>1, <1>2, <1>6, <2>1, <2>2 DEF LeaseTimed
  <1>7. \A b \in beats' : b.token = lock'[b.task] /\ lock'[b.task] # 0
                          => Fresh(b.rec, lockTtl'[b.task])
    BY <1>1, <1>2, <1>4 DEF LeaseTimed, TypeOK, Beat
  <1>8. QED  BY <1>5, <1>6, <1>7 DEF LeaseTimed

\* A write under the lease keeps it: the record written is as fresh as the
\* lease it was read under.
LEMMA WriteTimed ==
  ASSUME TypeOK, FencingInv, LeaseTimed,
         NEW t \in Task, NEW k \in Nat, NEW rec \in Record, LeasedWrite(t, k, rec)
  PROVE  LeaseTimed'
  <1>1. lock[t] # 0 /\ rec.status = "RUNNING" => Fresh(rec, lockTtl[t])
    BY DEF LeasedWrite, LeaseHeld, LeaseTimed, FencingInv,
           SnapshotsOwned, OwnedBy, WritePc
  <1>2. \A u \in Task : task'[u] = IF u = t THEN rec ELSE task[u]
    BY DEF LeasedWrite, TypeOK
  <1>3. QED  BY <1>1, <1>2 DEF LeaseTimed, LeasedWrite, MovesOn, WritePc

\* The other steps keep it.
LEMMA TimedStep ==
  ASSUME TypeOK, FencingInv, LeaseTimed, [Next]_vars
  PROVE  LeaseTimed'
  <1>1. CASE Quiet
    <2>1. /\ UNCHANGED task
          /\ beats' \subseteq beats
          /\ \A t \in Task : \/ lock'[t] = lock[t] /\ lockTtl'[t] = lockTtl[t]
                             \/ lock'[t] = 0 /\ lockTtl'[t] = 0
          /\ \A w \in Worker : pc'[w] \in {"write_running", "write_progress"} =>
               /\ pc'[w] = pc[w] /\ snap'[w] = snap[w]
               /\ job'[w] = job[w] /\ token'[w] = token[w]
      BY <1>1 DEF Quiet, Leased
    <2>2. /\ \A w \in Worker : job[w] \in Task
          /\ \A b \in beats : b.task \in Task
      BY DEF TypeOK, Beat
    <2>3. \A t \in Task : /\ lock'[t] = 0 <=> lockTtl'[t] = 0
                          /\ lockTtl'[t] <= HeartbeatTimeout
                          /\ lock'[t] # 0 /\ task'[t].status = "RUNNING"
                               => Fresh(task'[t], lockTtl'[t])
      BY <2>1 DEF LeaseTimed
    <2>4. ASSUME NEW w \in Worker, pc'[w] \in {"write_running", "write_progress"},
                 token'[w] = lock'[job'[w]], lock'[job'[w]] # 0
          PROVE  Fresh(snap'[w], lockTtl'[job'[w]])
      BY <2>1, <2>2, <2>4 DEF LeaseTimed
    <2>5. \A b \in beats' : b.token = lock'[b.task] /\ lock'[b.task] # 0
                            => Fresh(b.rec, lockTtl'[b.task])
      BY <2>1, <2>2 DEF LeaseTimed
    <2>6. QED  BY <2>3, <2>4, <2>5 DEF LeaseTimed
  <1>2. ASSUME NEW t \in Task,
               (ApiFailRead(t) /\ IsQueued(task[t])) \/ ApiFailWrite(t)
        PROVE  LeaseTimed'
    <2>1. UNCHANGED <<lock, lockTtl, pc, job, token, snap, beats>>
      BY <1>2 DEF ApiFailRead, ApiFailWrite, ApiFrame, leaseVars, localVars, beatVars
    <2>2. \A u \in Task : task'[u] = task[u] \/ task'[u].status = "FAILED"
      BY <1>2, ApiWriteEffect
    <2>3. QED  BY <2>1, <2>2 DEF LeaseTimed
  <1>3. ASSUME NEW w \in Worker, NEW rec \in Record, ReadsForWrite(w, rec)
        PROVE  LeaseTimed'
    <2>1. /\ UNCHANGED <<task, lock, lockTtl, job, token, beats>>
          /\ \A v \in Worker \ {w} : pc'[v] = pc[v] /\ snap'[v] = snap[v]
          /\ snap'[w] = rec /\ job[w] \in Task
      BY <1>3 DEF ReadsForWrite, TypeOK
    <2>2. lock[job[w]] # 0 => Fresh(rec, lockTtl[job[w]])
      BY <1>3, <2>1 DEF ReadsForWrite, LeaseTimed, Fresh, OwnedBy, TypeOK
    <2>3. QED  BY <2>1, <2>2 DEF LeaseTimed
  <1>4. ASSUME NEW w \in Worker, NEW b \in Beat, BeatsForWrite(w, b)
        PROVE  LeaseTimed'
    <2>1. Fresh(b.rec, lockTtl[b.task])
      BY <1>4 DEF BeatsForWrite, LeaseTimed, Fresh, TypeOK, Beat
    <2>2. QED  BY <1>4, <2>1 DEF BeatsForWrite, LeaseTimed
  <1>5. ASSUME NEW r \in Reconciler, NEW s \in Scanned, RecoversForWrite(r, s)
        PROVE  LeaseTimed'
    BY <1>5 DEF RecoversForWrite, LeaseTimed
  <1>6. ASSUME NEW r \in Reconciler, RecoveryWrite(r)  PROVE LeaseTimed'
    BY <1>6 DEF RecoveryWrite, CanRecover, AdvanceFence, LeaseTimed, TypeOK, InHand
  <1>7. QED
    BY <1>1, <1>2, <1>3, <1>4, <1>5, <1>6, StepKinds, TickTimed, AcquireTimed,
       WriteTimed

\* stale_running reports no task whose lease is alive: recovery never meets a
\* lock it would have to wait for.
THEOREM StaleMeansExpiredHolds == Spec => []StaleMeansExpired
  <1>1. Init => LeaseTimed
    BY DEF Init, LeaseTimed, Admitted
  <1>2. TypeOK /\ FencingInv /\ LeaseTimed /\ [Next]_vars => LeaseTimed'
    BY TimedStep
  <1>3. TypeOK /\ LeaseTimed => StaleMeansExpired
    BY DEF LeaseTimed, StaleMeansExpired, IsStale, Fresh, TypeOK, Record, Age
  <1>4. QED  BY <1>1, <1>2, <1>3, TypeCorrect, FencingHolds, PTL DEF Spec

-----------------------------------------------------------------------------
(* Recovery spends no more retries than it may *)

\* The record belongs to an execution of generation k, running or closed.
HeldBy(rec, k) == /\ rec.lease_token = k /\ rec.status # "PENDING"
                  /\ rec.status = "FAILED" => k > 0

\* The record of task t, or a copy of it that somebody will write or decide
\* on, shows generation k with n retries spent.
Seen(t, k, n) ==
  \/ HeldBy(task[t], k) /\ task[t].retry_count = n
  \/ \E w \in Worker : /\ pc[w] \in WritePc
                       /\ job[w] = t /\ token[w] = k
                       /\ snap[w].retry_count = n
  \/ \E b \in beats : b.task = t /\ b.token = k /\ b.rec.retry_count = n
  \/ \E r \in Reconciler : \E s \in rstale[r] :
       s.task = t /\ s.token = k /\ s.retry = n
  \/ \E r \in Reconciler :
       /\ rcur[r].task = t /\ rcur[r].token = k
       /\ \/ rpc[r] = "requeue_write" /\ rcur[r].rec.retry_count = n + 1
          \/ rpc[r] = "lost_write" /\ rcur[r].rec.retry_count = n

\* A generation has one retry count, fixed when mark_running reads the record
\* for it: the count stale_running scanned is still the one requeue
\* increments if the token is still the one it scanned.
RetryKnown ==
  /\ \A t \in Task, k, m, n \in Nat : Seen(t, k, m) /\ Seen(t, k, n) => m = n
  /\ \A t \in Task, k, n \in Nat : Seen(t, k, n) => k <= epoch[t]
  /\ \A w \in Worker, t \in Task, k, n \in Nat :
       pc[w] = "mark_running" /\ job[w] = t /\ token[w] = k => ~Seen(t, k, n)

\* No record and no copy of one has more than TASK_MAX_RETRIES retries, and
\* one that goes back to PENDING has at least one.
RetryCapped ==
  /\ \A t \in Task : /\ task[t].retry_count <= MaxRetries
                     /\ apiSnap[t].retry_count <= MaxRetries
  /\ \A w \in Worker : pc[w] \in WritePc => snap[w].retry_count <= MaxRetries
  /\ \A b \in beats : b.rec.retry_count <= MaxRetries
  /\ \A r \in Reconciler :
       /\ rpc[r] \in RecoverPc => rcur[r].rec.retry_count <= MaxRetries
       /\ rpc[r] = "requeue_write" => rcur[r].rec.retry_count > 0

\* A step after which nobody shows a generation that nobody showed before.
LEMMA NothingNewSeen ==
  ASSUME TypeOK, TypeOK', RetryKnown,
         \A t \in Task, k, n \in Nat : Seen(t, k, n)' => Seen(t, k, n),
         \A t \in Task : epoch[t] <= epoch'[t],
         \A w \in Worker : pc'[w] = "mark_running" =>
           pc[w] = "mark_running" /\ job'[w] = job[w] /\ token'[w] = token[w]
  PROVE  RetryKnown'
  <1>1. \A t \in Task : epoch[t] \in Nat /\ epoch'[t] \in Nat
    BY DEF TypeOK
  <1>3. \A t \in Task, k, m, n \in Nat : Seen(t, k, m)' /\ Seen(t, k, n)' => m = n
    BY DEF RetryKnown
  <1>4. \A t \in Task, k, n \in Nat : Seen(t, k, n)' => k <= epoch'[t]
    BY <1>1 DEF RetryKnown
  <1>5. \A w \in Worker, t \in Task, k, n \in Nat :
          pc'[w] = "mark_running" /\ job'[w] = t /\ token'[w] = k
            => ~Seen(t, k, n)'
    BY DEF RetryKnown
  <1>6. QED  BY <1>3, <1>4, <1>5 DEF RetryKnown

\* The steps that show nothing new: quiet ones, ticks, the API's and the
\* writes of those who carried the record.
LEMMA QuietSeesNothing ==
  ASSUME TypeOK, Quiet, NEW t \in Task, NEW k \in Nat, NEW n \in Nat, Seen(t, k, n)'
  PROVE  Seen(t, k, n)
  <1>1. CASE HeldBy(task'[t], k) /\ task'[t].retry_count = n
    BY <1>1 DEF Quiet, Seen
  <1>2. ASSUME NEW w \in Worker, pc'[w] \in WritePc,
               job'[w] = t, token'[w] = k, snap'[w].retry_count = n
        PROVE  Seen(t, k, n)
    BY <1>2 DEF Quiet, Seen, Leased, WritePc
  <1>3. ASSUME NEW b \in beats', b.task = t, b.token = k, b.rec.retry_count = n
        PROVE  Seen(t, k, n)
    BY <1>3 DEF Quiet, Seen
  <1>4. ASSUME NEW r \in Reconciler, NEW s \in rstale'[r],
               s.task = t, s.token = k, s.retry = n
        PROVE  Seen(t, k, n)
    BY <1>4 DEF Quiet, Seen, ScannedFrom, IsStale, HeldBy
  <1>5. ASSUME NEW r \in Reconciler, rcur'[r].task = t, rcur'[r].token = k,
               \/ rpc'[r] = "requeue_write" /\ rcur'[r].rec.retry_count = n + 1
               \/ rpc'[r] = "lost_write" /\ rcur'[r].rec.retry_count = n
        PROVE  Seen(t, k, n)
    BY <1>5 DEF Quiet, Seen
  <1>6. QED  BY <1>1, <1>2, <1>3, <1>4, <1>5 DEF Seen

LEMMA TickSeesNothing ==
  ASSUME TypeOK, Tick, NEW t \in Task, NEW k \in Nat, NEW n \in Nat, Seen(t, k, n)'
  PROVE  Seen(t, k, n)
  <1>1. UNCHANGED <<pc, job, token, rpc, rstale, rcur>>
    BY DEF Tick, recVars
  <1>2. CASE HeldBy(task'[t], k) /\ task'[t].retry_count = n
    <2>1. task'[t] = Older(task[t]) /\ task[t] \in Record
      BY DEF Tick, TypeOK
    <2>2. QED  BY <1>2, <2>1, OlderKeeps DEF Seen, HeldBy
  <1>3. ASSUME NEW w \in Worker, pc'[w] \in WritePc,
               job'[w] = t, token'[w] = k, snap'[w].retry_count = n
        PROVE  Seen(t, k, n)
    <2>1. snap'[w] = Older(snap[w]) /\ snap[w] \in Record
      BY DEF Tick, TypeOK
    <2>2. QED  BY <1>1, <1>3, <2>1, OlderKeeps DEF Seen
  <1>4. ASSUME NEW c \in beats', c.task = t, c.token = k, c.rec.retry_count = n
        PROVE  Seen(t, k, n)
    <2>1. PICK b \in beats : c = [b EXCEPT !.rec = Older(b.rec)]
      BY DEF Tick
    <2>2. b \in Beat /\ b.rec \in Record
      BY DEF TypeOK, Beat
    <2>3. c.task = b.task /\ c.token = b.token /\ c.rec = Older(b.rec)
      BY <2>1, <2>2 DEF Beat
    <2>4. QED  BY <1>4, <2>2, <2>3, OlderKeeps DEF Seen
  <1>5. QED  BY <1>1, <1>2, <1>3, <1>4 DEF Seen

LEMMA ApiSeesNothing ==
  ASSUME TypeOK, FencingInv, NEW u \in Task, ApiFailRead(u) \/ ApiFailWrite(u),
         NEW t \in Task, NEW k \in Nat, NEW n \in Nat, Seen(t, k, n)'
  PROVE  Seen(t, k, n)
  <1>1. UNCHANGED <<pc, job, token, snap, beats, rpc, rstale, rcur>>
    BY DEF ApiFailRead, ApiFailWrite, ApiFrame, localVars, beatVars, recVars
  <1>2. apiSnap[u].lease_token = 0
    BY DEF FencingInv, SnapshotsOwned
  <1>3. \/ task'[t] = task[t]
        \/ task'[t].status = "FAILED" /\ task'[t].lease_token = 0
    BY <1>2, ApiWriteEffect
  <1>4. QED  BY <1>1, <1>3 DEF Seen, HeldBy

LEMMA WriteSeesNothing ==
  ASSUME TypeOK, FencingInv, NEW u \in Task, NEW j \in Nat, NEW rec \in Record,
         LeasedWrite(u, j, rec),
         NEW t \in Task, NEW k \in Nat, NEW n \in Nat, Seen(t, k, n)'
  PROVE  Seen(t, k, n)
  <1>1. task'[t] = IF t = u THEN rec ELSE task[t]
    BY DEF LeasedWrite, TypeOK
  <1>2. HeldBy(rec, k) => Seen(u, k, rec.retry_count)
    BY DEF LeasedWrite, WritePc, Seen, FencingInv, SnapshotsOwned,
           OwnedBy, HeldBy
  <1>3. CASE HeldBy(task'[t], k) /\ task'[t].retry_count = n
    BY <1>1, <1>2, <1>3 DEF Seen
  <1>4. CASE ~(HeldBy(task'[t], k) /\ task'[t].retry_count = n)
    BY <1>4 DEF Seen, LeasedWrite, MovesOn, WritePc
  <1>5. QED  BY <1>3, <1>4

\* mark_running shows its generation for the first time.
LEMMA ReadSees ==
  ASSUME TypeOK, TypeOK', FencingInv, RetryKnown,
         NEW w \in Worker, NEW rec \in Record, ReadsForWrite(w, rec)
  PROVE  RetryKnown'
  <1>1. /\ UNCHANGED <<task, epoch, job, token, beats, rpc, rstale, rcur>>
        /\ job[w] \in Task /\ token[w] \in Nat
        /\ \A v \in Worker \ {w} : pc'[v] = pc[v] /\ snap'[v] = snap[v]
        /\ snap'[w] = rec /\ pc[w] \in Leased /\ pc'[w] # "mark_running"
    BY DEF ReadsForWrite, TypeOK, WritePc
  <1>2. \A t \in Task, k, n \in Nat :
          Seen(t, k, n)' =>
            \/ Seen(t, k, n)
            \/ t = job[w] /\ k = token[w] /\ n = rec.retry_count
    BY <1>1 DEF Seen
  <1>3. CASE pc[w] = "mark_running"
    <2>1. \A n \in Nat : ~Seen(job[w], token[w], n)
      BY <1>1, <1>3 DEF RetryKnown
    <2>2. \A v \in Worker : v # w /\ pc[v] = "mark_running" /\ job[v] = job[w]
                              => token[v] # token[w]
      BY <1>1, <1>3 DEF FencingInv, TokensIssued, Leased
    <2>3. \A t \in Task, k, m, n \in Nat : Seen(t, k, m)' /\ Seen(t, k, n)' => m = n
      BY <1>2, <2>1 DEF RetryKnown
    <2>4. \A t \in Task, k, n \in Nat : Seen(t, k, n)' => k <= epoch'[t]
      BY <1>1, <1>2 DEF RetryKnown, FencingInv, TokensIssued
    <2>5. \A v \in Worker, t \in Task, k, n \in Nat :
            pc'[v] = "mark_running" /\ job'[v] = t /\ token'[v] = k
              => ~Seen(t, k, n)'
      BY <1>1, <1>2, <2>2 DEF RetryKnown
    <2>6. QED  BY <2>3, <2>4, <2>5 DEF RetryKnown
  <1>4. CASE pc[w] # "mark_running"
    <2>1. Seen(job[w], token[w], rec.retry_count)
      BY <1>4 DEF ReadsForWrite, Seen, OwnedBy, HeldBy
    <2>2. \A t \in Task, k, n \in Nat : Seen(t, k, n)' => Seen(t, k, n)
      BY <1>2, <2>1
    <2>3. \A t \in Task : epoch[t] <= epoch'[t]
      BY <1>1 DEF TypeOK
    <2>4. QED  BY <1>1, <2>2, <2>3, NothingNewSeen
  <1>5. QED  BY <1>3, <1>4

\* Every step keeps the counts of the generations.
LEMMA RetryKnownStep ==
  ASSUME TypeOK, TypeOK', FencingInv, RetryKnown, [Next]_vars
  PROVE  RetryKnown'
  <1>0. \A t \in Task : epoch[t] \in Nat  BY DEF TypeOK
  <1>1. CASE Quiet
    <2>1. /\ \A t \in Task : epoch[t] <= epoch'[t]
          /\ \A w \in Worker : pc'[w] = "mark_running" =>
               pc[w] = "mark_running" /\ job'[w] = job[w] /\ token'[w] = token[w]
      BY <1>0, <1>1 DEF Quiet, Leased
    <2>2. QED  BY <1>1, <2>1, QuietSeesNothing, NothingNewSeen
  <1>2. CASE Tick
    <2>1. UNCHANGED <<epoch, pc, job, token>>  BY <1>2 DEF Tick
    <2>2. QED  BY <1>0, <1>2, <2>1, TickSeesNothing, NothingNewSeen
  <1>3. ASSUME NEW t \in Task, ApiFailRead(t) \/ ApiFailWrite(t)
        PROVE  RetryKnown'
    <2>1. UNCHANGED <<epoch, pc, job, token>>
      BY <1>3 DEF ApiFailRead, ApiFailWrite, ApiFrame, leaseVars, localVars
    <2>2. QED  BY <1>0, <1>3, <2>1, ApiSeesNothing, NothingNewSeen
  <1>4. ASSUME NEW w \in Worker, NEW t \in Task, Acquire(w, t)  PROVE RetryKnown'
    <2>1. UNCHANGED <<task, snap, beats, rpc, rstale, rcur>>
      BY <1>4 DEF Acquire, WorkerFrame, recordVars, beatVars, recVars
    <2>2. /\ pc'[w] = "mark_running" /\ job'[w] = t /\ token'[w] = epoch[t] + 1
          /\ \A v \in Worker \ {w} : pc'[v] = pc[v] /\ job'[v] = job[v]
                                     /\ token'[v] = token[v]
          /\ \A u \in Task : epoch'[u] = IF u = t THEN epoch[t] + 1 ELSE epoch[u]
      BY <1>4 DEF Acquire, NextToken, Goto, TypeOK
    <2>3. \A u \in Task, k, n \in Nat : Seen(u, k, n)' => Seen(u, k, n)
      BY <2>1, <2>2 DEF Seen, WritePc
    <2>4. \A u \in Task, k, m, n \in Nat : Seen(u, k, m)' /\ Seen(u, k, n)' => m = n
      BY <2>3 DEF RetryKnown
    <2>5. \A u \in Task, k, n \in Nat : Seen(u, k, n)' => k <= epoch'[u]
      BY <1>0, <2>2, <2>3 DEF RetryKnown
    <2>6. \A v \in Worker, u \in Task, k, n \in Nat :
            pc'[v] = "mark_running" /\ job'[v] = u /\ token'[v] = k
              => ~Seen(u, k, n)'
      <3>1. \A n \in Nat : ~Seen(t, epoch[t] + 1, n)
        BY <1>0 DEF RetryKnown
      <3>2. QED  BY <2>2, <2>3, <3>1 DEF RetryKnown
    <2>7. QED  BY <2>4, <2>5, <2>6 DEF RetryKnown
  <1>5. ASSUME NEW w \in Worker, NEW b \in Beat, BeatsForWrite(w, b)
        PROVE  RetryKnown'
    <2>1. Seen(b.task, b.token, b.rec.retry_count)
      BY <1>5 DEF BeatsForWrite, Seen, OwnedBy, HeldBy
    <2>2. \A t \in Task, k, n \in Nat : Seen(t, k, n)' => Seen(t, k, n)
      BY <1>5, <2>1 DEF BeatsForWrite, Seen
    <2>3. QED  BY <1>0, <1>5, <2>2, NothingNewSeen DEF BeatsForWrite
  <1>6. ASSUME NEW t \in Task, NEW k \in Nat, NEW rec \in Record, LeasedWrite(t, k, rec)
        PROVE  RetryKnown'
    <2>1. /\ \A u \in Task : epoch[u] <= epoch'[u]
          /\ \A w \in Worker : pc'[w] = "mark_running" =>
               pc[w] = "mark_running" /\ job'[w] = job[w] /\ token'[w] = token[w]
      BY <1>0, <1>6 DEF LeasedWrite, MovesOn
    <2>2. \A u \in Task, j, n \in Nat : Seen(u, j, n)' => Seen(u, j, n)
      BY <1>6, WriteSeesNothing
    <2>3. QED  BY <2>1, <2>2, NothingNewSeen
  <1>7. ASSUME NEW r \in Reconciler, NEW s \in Scanned, RecoversForWrite(r, s)
        PROVE  RetryKnown'
    <2>1. /\ s.task \in Task /\ task[s.task] \in Record
          /\ UNCHANGED <<task, epoch, pc, job, token, snap, beats>>
          /\ \A q \in Reconciler : rstale'[q] \subseteq rstale[q]
          /\ \A q \in Reconciler \ {r} : rcur'[q] = rcur[q] /\ rpc'[q] = rpc[q]
          /\ rcur'[r].task = s.task /\ rcur'[r].token = s.token
      BY <1>7 DEF RecoversForWrite, Scanned, TypeOK
    <2>2. \/ /\ rpc'[r] = "requeue_write"
             /\ rcur'[r].rec.retry_count = task[s.task].retry_count + 1
          \/ /\ rpc'[r] = "lost_write"
             /\ rcur'[r].rec.retry_count = task[s.task].retry_count
      <3>1. /\ Requeued(task[s.task]).retry_count = task[s.task].retry_count + 1
            /\ Lost(task[s.task]).retry_count = task[s.task].retry_count
        BY <2>1 DEF Requeued, Lost, Record
      <3>2. QED  BY <1>7, <3>1 DEF RecoversForWrite, TypeOK
    <2>3. Seen(s.task, s.token, task[s.task].retry_count)
      BY <1>7 DEF RecoversForWrite, OwnedBy, HeldBy, Seen
    <2>4. task[s.task].retry_count \in Nat
      BY <2>1 DEF Record
    <2>5. ASSUME NEW t \in Task, NEW k \in Nat, NEW n \in Nat, Seen(t, k, n)'
          PROVE  Seen(t, k, n)
      <3>1. CASE /\ rcur'[r].task = t /\ rcur'[r].token = k
                 /\ \/ rpc'[r] = "requeue_write" /\ rcur'[r].rec.retry_count = n + 1
                    \/ rpc'[r] = "lost_write" /\ rcur'[r].rec.retry_count = n
        <4>1. task[s.task].retry_count = n
          BY <2>2, <2>4, <3>1
        <4>2. QED  BY <2>1, <2>3, <3>1, <4>1
      <3>2. CASE ~/\ rcur'[r].task = t /\ rcur'[r].token = k
                  /\ \/ rpc'[r] = "requeue_write" /\ rcur'[r].rec.retry_count = n + 1
                     \/ rpc'[r] = "lost_write" /\ rcur'[r].rec.retry_count = n
        BY <2>1, <2>5, <3>2 DEF Seen
      <3>3. QED  BY <3>1, <3>2
    <2>6. QED  BY <1>0, <2>1, <2>5, NothingNewSeen
  <1>8. ASSUME NEW r \in Reconciler, RecoveryWrite(r)  PROVE RetryKnown'
    <2>1. /\ rcur[r].task \in Task
          /\ \A t \in Task : task'[t] = IF t = rcur[r].task THEN rcur[r].rec ELSE task[t]
          /\ UNCHANGED <<pc, job, token, snap, beats, rstale, rcur>>
          /\ \A q \in Reconciler \ {r} : rpc'[q] = rpc[q]
          /\ rpc'[r] \notin {"requeue_write", "lost_write"}
      BY <1>8 DEF RecoveryWrite, RecoverPc, TypeOK, InHand
    <2>2. ASSUME NEW k \in Nat, HeldBy(rcur[r].rec, k)
          PROVE  Seen(rcur[r].task, k, rcur[r].rec.retry_count)
      BY <1>8, <2>2 DEF RecoveryWrite, RecoverPc, FencingInv, SnapshotsOwned, HeldBy, Seen
    <2>6. ASSUME NEW t \in Task, NEW k \in Nat, NEW n \in Nat, Seen(t, k, n)'
          PROVE  Seen(t, k, n)
      <3>1. CASE HeldBy(task'[t], k) /\ task'[t].retry_count = n
        BY <2>1, <2>2, <3>1 DEF Seen
      <3>2. CASE ~(HeldBy(task'[t], k) /\ task'[t].retry_count = n)
        BY <2>1, <2>6, <3>2 DEF Seen
      <3>3. QED  BY <3>1, <3>2
    <2>3. \A t \in Task : epoch[t] <= epoch'[t]
      BY <1>0, <1>8, <2>1 DEF RecoveryWrite, AdvanceFence, NextToken, TypeOK
    <2>4. UNCHANGED <<pc, job, token>>
      BY <1>8 DEF RecoveryWrite
    <2>5. QED  BY <2>3, <2>4, <2>6, NothingNewSeen
  <1>9. QED
    BY <1>1, <1>2, <1>3, <1>4, <1>5, <1>6, <1>7, <1>8, StepKinds, ReadSees

\* Every step keeps the cap.  The one that increments compares the count of
\* the scanned record with the limit: it is the count of the record it reads.
LEMMA RetryCappedStep ==
  ASSUME TypeOK, FencingInv, RetryKnown, RetryCapped, [Next]_vars
  PROVE  RetryCapped'
  <1>1. CASE Quiet
    BY <1>1 DEF Quiet, RetryCapped, WritePc, RecoverPc
  <1>2. CASE Tick
    <2>1. UNCHANGED <<apiSnap, pc, rpc, rcur>>
      BY <1>2 DEF Tick, apiVars, recVars
    <2>2. \A t \in Task : task'[t].retry_count = task[t].retry_count
      BY <1>2, OlderKeeps DEF Tick, TypeOK
    <2>3. \A w \in Worker : snap'[w].retry_count = snap[w].retry_count
      BY <1>2, OlderKeeps DEF Tick, TypeOK
    <2>4. ASSUME NEW c \in beats'  PROVE c.rec.retry_count <= MaxRetries
      <3>1. PICK b \in beats : c = [b EXCEPT !.rec = Older(b.rec)]
        BY <1>2 DEF Tick
      <3>2. b \in Beat /\ b.rec \in Record
        BY DEF TypeOK, Beat
      <3>3. c.rec = Older(b.rec)
        BY <3>1, <3>2 DEF Beat
      <3>4. QED  BY <3>2, <3>3, OlderKeeps DEF RetryCapped
    <2>5. QED  BY <2>1, <2>2, <2>3, <2>4 DEF RetryCapped
  <1>3. ASSUME NEW t \in Task,
               (ApiFailRead(t) /\ IsQueued(task[t])) \/ ApiFailWrite(t)
        PROVE  RetryCapped'
    <2>1. UNCHANGED <<pc, snap, beats, rpc, rcur>>
      BY <1>3 DEF ApiFailRead, ApiFailWrite, ApiFrame, localVars, beatVars, recVars
    <2>2. \A u \in Task : task'[u].retry_count <= MaxRetries
      BY <1>3, ApiWriteEffect DEF RetryCapped
    <2>3. \A u \in Task : apiSnap'[u] \in {apiSnap[u], task[u]}
      BY <1>3 DEF ApiFailRead, ApiFailWrite, TypeOK
    <2>4. QED  BY <2>1, <2>2, <2>3 DEF RetryCapped
  <1>4. ASSUME NEW w \in Worker, NEW t \in Task, Acquire(w, t)  PROVE RetryCapped'
    BY <1>4 DEF Acquire, WorkerFrame, Goto, recordVars, apiVars, beatVars, recVars,
                TypeOK, RetryCapped, WritePc
  <1>5. ASSUME NEW w \in Worker, NEW rec \in Record, ReadsForWrite(w, rec)
        PROVE  RetryCapped'
    BY <1>5 DEF ReadsForWrite, TypeOK, RetryCapped
  <1>6. ASSUME NEW w \in Worker, NEW b \in Beat, BeatsForWrite(w, b)
        PROVE  RetryCapped'
    BY <1>6 DEF BeatsForWrite, TypeOK, RetryCapped
  <1>7. ASSUME NEW t \in Task, NEW k \in Nat, NEW rec \in Record, LeasedWrite(t, k, rec)
        PROVE  RetryCapped'
    <2>1. rec.retry_count <= MaxRetries
      BY <1>7 DEF LeasedWrite, RetryCapped
    <2>2. \A u \in Task : task'[u] = IF u = t THEN rec ELSE task[u]
      BY <1>7 DEF LeasedWrite, TypeOK
    <2>3. QED  BY <1>7, <2>1, <2>2 DEF LeasedWrite, MovesOn, RetryCapped, WritePc
  <1>8. ASSUME NEW r \in Reconciler, NEW s \in Scanned, RecoversForWrite(r, s)
        PROVE  RetryCapped'
    <2> DEFINE rec == task[s.task]
               new == IF RetryLeft(s) THEN Requeued(rec) ELSE Lost(rec)
    <2>1. s.task \in Task /\ s.token \in Nat /\ s.retry \in Nat /\ rec \in Record
          /\ rec.retry_count \in Nat
      BY DEF Scanned, TypeOK, Record
    <2>2. Seen(s.task, s.token, s.retry) /\ Seen(s.task, s.token, rec.retry_count)
      BY <1>8 DEF RecoversForWrite, Seen, OwnedBy, HeldBy
    <2>3. rec.retry_count = s.retry
      BY <2>1, <2>2 DEF RetryKnown
    <2>4. /\ Requeued(rec).retry_count = rec.retry_count + 1
          /\ Lost(rec).retry_count = rec.retry_count
      BY <2>1 DEF Requeued, Lost, Record
    <2>5. new.retry_count <= MaxRetries
      BY <2>1, <2>3, <2>4 DEF RetryLeft, RetryCapped
    <2>6. /\ rcur'[r].rec = new
          /\ \A q \in Reconciler \ {r} : rcur'[q] = rcur[q] /\ rpc'[q] = rpc[q]
          /\ UNCHANGED <<task, apiSnap, pc, snap, beats>>
      BY <1>8 DEF RecoversForWrite, TypeOK
    <2> HIDE DEF new
    <2>7. rpc'[r] = "requeue_write" => rcur'[r].rec.retry_count > 0
      <3>1. rpc'[r] = "requeue_write" => RetryLeft(s)
        BY <1>8 DEF RecoversForWrite, TypeOK
      <3>2. RetryLeft(s) => new.retry_count > 0
        BY <2>1, <2>4 DEF new
      <3>3. QED  BY <2>6, <3>1, <3>2
    <2>8. QED  BY <2>5, <2>6, <2>7 DEF RetryCapped
  <1>9. ASSUME NEW r \in Reconciler, RecoveryWrite(r)  PROVE RetryCapped'
    <2>1. \A u \in Task : task'[u] = IF u = rcur[r].task THEN rcur[r].rec ELSE task[u]
      BY <1>9 DEF RecoveryWrite, TypeOK, InHand
    <2>2. \A q \in Reconciler : rpc'[q] \in RecoverPc => rpc'[q] = rpc[q]
      BY <1>9 DEF RecoveryWrite, TypeOK
    <2>3. QED  BY <1>9, <2>1, <2>2 DEF RecoveryWrite, RetryCapped, RecoverPc
  <1>10. QED
    BY <1>1, <1>2, <1>3, <1>4, <1>5, <1>6, <1>7, <1>8, <1>9, StepKinds

\* The retry invariant, kept by every step of the system.
LEMMA RetryInvariant == Spec => [](RetryKnown /\ RetryCapped)
  <1>1. Init => RetryKnown /\ RetryCapped
    BY DEF Init, RetryKnown, RetryCapped, Seen, HeldBy, Admitted, WritePc, RecoverPc
  <1>2. /\ TypeOK /\ TypeOK' /\ FencingInv /\ RetryKnown /\ RetryCapped
        /\ [Next]_vars
        => RetryKnown' /\ RetryCapped'
    BY RetryKnownStep, RetryCappedStep
  <1>3. QED  BY <1>1, <1>2, TypeCorrect, FencingHolds, PTL DEF Spec

\* Recovery never spends more than TASK_MAX_RETRIES retries.
THEOREM RetriesBoundedHolds == Spec => []RetriesBounded
  <1>1. RetryCapped => RetriesBounded
    BY DEF RetryCapped, RetriesBounded
  <1>2. QED  BY <1>1, RetryInvariant, PTL

-----------------------------------------------------------------------------
(* No dead letter without a verdict *)

\* Who has recorded a verdict of task t and may still push its dead letter.
OwedByWorkers(t) ==
  {w \in Worker : pc[w] \in {"release", "dead_letter"} /\ job[w] = t}
OwedByReconcilers(t) == {r \in Reconciler : rpc[r] = "lost_dlq" /\ rcur[r].task = t}

\* The verdicts of a task cover its dead letters and those still to come.
DeadLettersOwed ==
  \A t \in Task :
    dlq[t] + Cardinality(OwedByWorkers(t)) + Cardinality(OwedByReconcilers(t))
      <= closings[t]

\* The debts of a task are finitely many.
LEMMA OwedFinite ==
  ASSUME NEW t
  PROVE  /\ IsFiniteSet(OwedByWorkers(t)) /\ Cardinality(OwedByWorkers(t)) \in Nat
         /\ IsFiniteSet(OwedByReconcilers(t))
         /\ Cardinality(OwedByReconcilers(t)) \in Nat
  <1>1. OwedByWorkers(t) \subseteq Worker /\ OwedByReconcilers(t) \subseteq Reconciler
    BY DEF OwedByWorkers, OwedByReconcilers
  <1>2. IsFiniteSet(OwedByWorkers(t)) /\ IsFiniteSet(OwedByReconcilers(t))
    BY <1>1, ProcessesAssumption, FS_Subset
  <1>3. QED  BY <1>2, FS_CardinalityType

\* The same in the next state.
LEMMA OwedFiniteNext ==
  ASSUME NEW t
  PROVE  /\ IsFiniteSet(OwedByWorkers(t)') /\ Cardinality(OwedByWorkers(t)') \in Nat
         /\ IsFiniteSet(OwedByReconcilers(t)')
         /\ Cardinality(OwedByReconcilers(t)') \in Nat
  <1>1. /\ OwedByWorkers(t)' \subseteq Worker
        /\ OwedByReconcilers(t)' \subseteq Reconciler
    BY DEF OwedByWorkers, OwedByReconcilers
  <1>2. IsFiniteSet(OwedByWorkers(t)') /\ IsFiniteSet(OwedByReconcilers(t)')
    BY <1>1, ProcessesAssumption, FS_Subset
  <1>3. QED  BY <1>2, FS_CardinalityType

\* One more element is at most one more.
LEMMA AtMostOneMore ==
  ASSUME NEW S, IsFiniteSet(S), NEW x
  PROVE  /\ IsFiniteSet(S \cup {x}) /\ Cardinality(S \cup {x}) \in Nat
         /\ Cardinality(S \cup {x}) <= Cardinality(S) + 1
  <1>1. IsFiniteSet(S \cup {x}) /\ Cardinality(S) \in Nat
    BY FS_AddElement, FS_CardinalityType
  <1>2. Cardinality(S \cup {x}) \in Nat
    BY <1>1, FS_CardinalityType
  <1>3. \/ Cardinality(S \cup {x}) = Cardinality(S)
        \/ Cardinality(S \cup {x}) = Cardinality(S) + 1
    BY FS_AddElement
  <1>4. QED  BY <1>1, <1>2, <1>3

\* A step after which nobody owes more, and no dead letter was pushed.
NoNewDebt ==
  /\ UNCHANGED dlq
  /\ \A t \in Task : closings[t] <= closings'[t]
  /\ \A w \in Worker : pc'[w] \in {"release", "dead_letter"} =>
       pc[w] \in {"release", "dead_letter"} /\ job'[w] = job[w]
  /\ \A r \in Reconciler : rpc'[r] = "lost_dlq" =>
       rpc[r] = "lost_dlq" /\ rcur'[r] = rcur[r]

\* The steps of the API handler, the reads, refusals and heartbeats, and the
\* writes other than the verdicts are such steps.
LEMMA WorkerNoNewDebt ==
  ASSUME TypeOK, NEW w \in Worker,
         \/ WorkerNext(w) /\ ~CloseWrite(w) /\ ~DeadLetter(w)
         \/ BeatRead(w) \/ WorkerCrash(w)
  PROVE  NoNewDebt
  <1>1. UNCHANGED <<dlq, closings, rpc, rcur>>
    BY DEF WorkerNext, Acquire, AcquireRefused, MarkRunningRead, MarkRunningWrite,
           Abandon, ProgressRead, ProgressWrite, Raises, CloseRead, CloseRelease,
           Finally, BeatRead, WorkerCrash, WorkerFrame, closeVars, recVars
  <1> DEFINE Owes == {"release", "dead_letter"}
             Same == /\ \A v \in Worker \ {w} : pc'[v] = pc[v] /\ job'[v] = job[v]
                     /\ pc'[w] \in Owes => pc[w] \in Owes /\ job'[w] = job[w]
  <1>2. Same
    <2> USE DEF Goto, TypeOK
    <2>1. ASSUME NEW t \in Task, Acquire(w, t) \/ AcquireRefused(w, t)  PROVE Same
      BY <2>1 DEF Acquire, AcquireRefused
    <2>2. CASE MarkRunningRead(w)  BY <2>2 DEF MarkRunningRead
    <2>3. CASE MarkRunningWrite(w)  BY <2>3 DEF MarkRunningWrite
    <2>4. CASE Abandon(w)  BY <2>4 DEF Abandon, Return
    <2>5. CASE ProgressRead(w)  BY <2>5 DEF ProgressRead, AfterProgress
    <2>6. CASE ProgressWrite(w)  BY <2>6 DEF ProgressWrite, AfterProgress
    <2>7. ASSUME NEW dead \in BOOLEAN, Raises(w, dead)  PROVE Same
      BY <2>7 DEF Raises
    <2>8. CASE CloseRead(w)  BY <2>8 DEF CloseRead
    <2>9. CASE CloseRelease(w)  BY <2>9 DEF CloseRelease
    <2>10. CASE Finally(w)  BY <2>10 DEF Finally, Return
    <2>11. CASE BeatRead(w)  BY <2>11 DEF BeatRead
    <2>12. CASE WorkerCrash(w)  BY <2>12 DEF WorkerCrash, Return
    <2>13. QED
      BY <2>1, <2>2, <2>3, <2>4, <2>5, <2>6, <2>7, <2>8, <2>9, <2>10, <2>11, <2>12
         DEF WorkerNext
  <1>3. QED  BY <1>1, <1>2 DEF NoNewDebt, TypeOK

LEMMA OthersNoNewDebt ==
  ASSUME TypeOK,
         \/ Tick
         \/ \E t \in Task : ApiNext(t)
         \/ \E b \in beats : BeatWrite(b)
         \/ \E r \in Reconciler : \/ ReconcilerNext(r) /\ ~LostDeadLetter(r)
                                   /\ ~(LostWrite(r) /\ rpc'[r] = "lost_dlq")
                                 \/ ReconcilerCrash(r)
         \/ UNCHANGED vars
  PROVE  NoNewDebt
  <1> USE DEF NoNewDebt, TypeOK, closeVars, recVars
  <1>1. CASE Tick  BY <1>1 DEF Tick
  <1>2. ASSUME NEW t \in Task, ApiNext(t)  PROVE NoNewDebt
    <2>1. /\ UNCHANGED <<dlq, pc, job, rpc, rcur>>
          /\ closings' \in {closings, [closings EXCEPT ![t] = @ + 1]}
      BY <1>2 DEF ApiNext, ApiEnqueue, ApiEnqueueRaises, ApiFailRead, ApiFailLock,
                  ApiFailWrite, ApiFrame
    <2>2. \A u \in Task : /\ closings[u] \in Nat
                          /\ closings'[u] = closings[u] \/ closings'[u] = closings[u] + 1
      BY <2>1
    <2>3. \A u \in Task : closings[u] <= closings'[u]
      BY <2>2
    <2>4. QED  BY <2>1, <2>3
  <1>3. ASSUME NEW b \in beats, BeatWrite(b)  PROVE NoNewDebt
    BY <1>3 DEF BeatWrite, WorkerFrame
  <1>4. ASSUME NEW r \in Reconciler, ReconcilerNext(r), ~LostDeadLetter(r),
               ~(LostWrite(r) /\ rpc'[r] = "lost_dlq")
        PROVE  NoNewDebt
    <2> USE DEF ReconcilerFrame, RGoto, NextDispatch
    <2>1. CASE Scan(r)  BY <2>1 DEF Scan
    <2>2. ASSUME NEW s \in rstale[r], RecoverRead(r, s)  PROVE NoNewDebt
      BY <2>2 DEF RecoverRead
    <2>3. CASE RequeueWrite(r)  BY <2>3 DEF RequeueWrite
    <2>4. CASE LostWrite(r)
      <3>1. ~CanRecover(rcur[r].task, rcur[r].token)
        BY <1>4, <2>4 DEF LostWrite
      <3>2. /\ UNCHANGED <<dlq, closings, pc, job, rcur>>
            /\ rpc' = [rpc EXCEPT ![r] = "loop"]
        BY <2>4, <3>1 DEF LostWrite
      <3>3. \A t \in Task : closings[t] <= closings'[t]
        BY <3>2
      <3>4. QED  BY <3>2, <3>3
    <2>5. CASE ListDispatches(r)  BY <2>5 DEF ListDispatches
    <2>6. ASSUME NEW t \in rtodo[r], DispatchRead(r, t)  PROVE NoNewDebt
      BY <2>6 DEF DispatchRead
    <2>7. CASE Publish(r)  BY <2>7 DEF Publish
    <2>8. ASSUME NEW taken \in {0, 1}, PublishRaises(r, taken)  PROVE NoNewDebt
      BY <2>8 DEF PublishRaises
    <2>9. CASE AckDispatch(r)  BY <2>9 DEF AckDispatch
    <2>10. QED
      BY <1>4, <2>1, <2>2, <2>3, <2>4, <2>5, <2>6, <2>7, <2>8, <2>9 DEF ReconcilerNext
  <1>5. ASSUME NEW r \in Reconciler, ReconcilerCrash(r)  PROVE NoNewDebt
    BY <1>5 DEF ReconcilerCrash, ReconcilerFrame, RGoto
  <1>6. CASE UNCHANGED vars  BY <1>6 DEF vars
  <1>7. QED  BY <1>1, <1>2, <1>3, <1>4, <1>5, <1>6

\* Such a step keeps the account.
LEMMA NoNewDebtKeeps ==
  ASSUME TypeOK, TypeOK', DeadLettersOwed, NoNewDebt
  PROVE  DeadLettersOwed'
  <1> SUFFICES ASSUME NEW t \in Task
               PROVE  dlq'[t] + Cardinality(OwedByWorkers(t)')
                        + Cardinality(OwedByReconcilers(t)') <= closings'[t]
    BY DEF DeadLettersOwed
  <1>1. /\ OwedByWorkers(t)' \subseteq OwedByWorkers(t)
        /\ OwedByReconcilers(t)' \subseteq OwedByReconcilers(t)
    BY DEF NoNewDebt, OwedByWorkers, OwedByReconcilers
  <1>2. /\ Cardinality(OwedByWorkers(t)') <= Cardinality(OwedByWorkers(t))
        /\ Cardinality(OwedByReconcilers(t)') <= Cardinality(OwedByReconcilers(t))
    BY <1>1, OwedFinite, FS_Subset
  <1>3. /\ dlq'[t] = dlq[t] /\ dlq[t] \in Nat /\ closings[t] \in Nat
        /\ closings'[t] \in Nat /\ closings[t] <= closings'[t]
    BY DEF NoNewDebt, TypeOK
  <1>4. QED  BY <1>2, <1>3, OwedFinite, OwedFiniteNext DEF DeadLettersOwed

\* A verdict of a worker or of a reconciler pays for the dead letter its
\* writer may owe from then on; pushing the dead letter settles the debt.
LEMMA VerdictKeeps ==
  ASSUME TypeOK, TypeOK', DeadLettersOwed, NEW u \in Task, NEW w, NEW r,
         dlq' = dlq, closings' = [closings EXCEPT ![u] = @ + 1],
         \A t \in Task \ {u} : /\ OwedByWorkers(t)' \subseteq OwedByWorkers(t)
                               /\ OwedByReconcilers(t)' \subseteq OwedByReconcilers(t),
         \/ /\ OwedByWorkers(u)' \subseteq OwedByWorkers(u) \cup {w}
            /\ OwedByReconcilers(u)' \subseteq OwedByReconcilers(u)
         \/ /\ OwedByWorkers(u)' \subseteq OwedByWorkers(u)
            /\ OwedByReconcilers(u)' \subseteq OwedByReconcilers(u) \cup {r}
  PROVE  DeadLettersOwed'
  <1> SUFFICES ASSUME NEW t \in Task
               PROVE  dlq'[t] + Cardinality(OwedByWorkers(t)')
                        + Cardinality(OwedByReconcilers(t)') <= closings'[t]
    BY DEF DeadLettersOwed
  <1>1. /\ dlq'[t] = dlq[t] /\ dlq[t] \in Nat /\ closings[t] \in Nat
        /\ closings'[t] = IF t = u THEN closings[t] + 1 ELSE closings[t]
    BY DEF TypeOK
  <1>2. CASE t # u
    <2>1. /\ Cardinality(OwedByWorkers(t)') <= Cardinality(OwedByWorkers(t))
          /\ Cardinality(OwedByReconcilers(t)') <= Cardinality(OwedByReconcilers(t))
      BY <1>2, OwedFinite, FS_Subset
    <2>2. QED  BY <1>1, <1>2, <2>1, OwedFinite, OwedFiniteNext DEF DeadLettersOwed
  <1>3. CASE t = u
    <2>1. /\ IsFiniteSet(OwedByWorkers(t) \cup {w})
          /\ Cardinality(OwedByWorkers(t) \cup {w}) \in Nat
          /\ Cardinality(OwedByWorkers(t) \cup {w}) <= Cardinality(OwedByWorkers(t)) + 1
      BY OwedFinite, AtMostOneMore
    <2>2. /\ IsFiniteSet(OwedByReconcilers(t) \cup {r})
          /\ Cardinality(OwedByReconcilers(t) \cup {r}) \in Nat
          /\ Cardinality(OwedByReconcilers(t) \cup {r})
               <= Cardinality(OwedByReconcilers(t)) + 1
      BY OwedFinite, AtMostOneMore
    <2>3. CASE /\ OwedByWorkers(u)' \subseteq OwedByWorkers(u) \cup {w}
               /\ OwedByReconcilers(u)' \subseteq OwedByReconcilers(u)
      <3>1. /\ Cardinality(OwedByWorkers(t)') <= Cardinality(OwedByWorkers(t) \cup {w})
            /\ Cardinality(OwedByReconcilers(t)') <= Cardinality(OwedByReconcilers(t))
        BY <1>3, <2>1, <2>3, OwedFinite, FS_Subset
      <3>2. QED
        BY <1>1, <1>3, <2>1, <3>1, OwedFinite, OwedFiniteNext DEF DeadLettersOwed
    <2>4. CASE /\ OwedByWorkers(u)' \subseteq OwedByWorkers(u)
               /\ OwedByReconcilers(u)' \subseteq OwedByReconcilers(u) \cup {r}
      <3>1. /\ Cardinality(OwedByWorkers(t)') <= Cardinality(OwedByWorkers(t))
            /\ Cardinality(OwedByReconcilers(t)')
                 <= Cardinality(OwedByReconcilers(t) \cup {r})
        BY <1>3, <2>2, <2>4, OwedFinite, FS_Subset
      <3>2. QED
        BY <1>1, <1>3, <2>2, <3>1, OwedFinite, OwedFiniteNext DEF DeadLettersOwed
    <2>5. QED  BY <2>3, <2>4
  <1>4. QED  BY <1>2, <1>3

LEMMA PushKeeps ==
  ASSUME TypeOK, TypeOK', DeadLettersOwed, NEW u \in Task, NEW w, NEW r,
         dlq' = [dlq EXCEPT ![u] = @ + 1], closings' = closings,
         \A t \in Task : /\ OwedByWorkers(t)' \subseteq OwedByWorkers(t)
                         /\ OwedByReconcilers(t)' \subseteq OwedByReconcilers(t),
         \/ w \in OwedByWorkers(u) /\ w \notin OwedByWorkers(u)'
         \/ r \in OwedByReconcilers(u) /\ r \notin OwedByReconcilers(u)'
  PROVE  DeadLettersOwed'
  <1> SUFFICES ASSUME NEW t \in Task
               PROVE  dlq'[t] + Cardinality(OwedByWorkers(t)')
                        + Cardinality(OwedByReconcilers(t)') <= closings'[t]
    BY DEF DeadLettersOwed
  <1>1. /\ closings'[t] = closings[t] /\ dlq[t] \in Nat /\ closings[t] \in Nat
        /\ dlq'[t] = IF t = u THEN dlq[t] + 1 ELSE dlq[t]
    BY DEF TypeOK
  <1>2. /\ Cardinality(OwedByWorkers(t)') <= Cardinality(OwedByWorkers(t))
        /\ Cardinality(OwedByReconcilers(t)') <= Cardinality(OwedByReconcilers(t))
    BY OwedFinite, FS_Subset
  <1>3. CASE t # u
    BY <1>1, <1>2, <1>3, OwedFinite, OwedFiniteNext DEF DeadLettersOwed
  <1>4. CASE t = u
    <2>1. \/ OwedByWorkers(t)' # OwedByWorkers(t)
          \/ OwedByReconcilers(t)' # OwedByReconcilers(t)
      BY <1>4
    <2>2. \/ Cardinality(OwedByWorkers(t)') < Cardinality(OwedByWorkers(t))
          \/ Cardinality(OwedByReconcilers(t)') < Cardinality(OwedByReconcilers(t))
      <3>1. /\ OwedByWorkers(t)' # OwedByWorkers(t) =>
                 Cardinality(OwedByWorkers(t)') # Cardinality(OwedByWorkers(t))
            /\ OwedByReconcilers(t)' # OwedByReconcilers(t) =>
                 Cardinality(OwedByReconcilers(t)') # Cardinality(OwedByReconcilers(t))
        BY OwedFinite, FS_Subset
      <3>2. QED  BY <1>2, <2>1, <3>1, OwedFinite, OwedFiniteNext
    <2>3. QED  BY <1>1, <1>2, <1>4, <2>2, OwedFinite, OwedFiniteNext DEF DeadLettersOwed
  <1>5. QED  BY <1>3, <1>4

\* Every step keeps the account of dead letters.
LEMMA DeadLettersStep ==
  ASSUME TypeOK, TypeOK', DeadLettersOwed, [Next]_vars
  PROVE  DeadLettersOwed'
  <1>1. ASSUME NEW w \in Worker, CloseWrite(w)  PROVE DeadLettersOwed'
    <2>1. /\ UNCHANGED <<dlq, job, rpc, rcur>> /\ pc[w] = "write_close"
          /\ \A v \in Worker \ {w} : pc'[v] = pc[v]
          /\ job[w] \in Task
      BY <1>1 DEF CloseWrite, WorkerFrame, Goto, recVars, TypeOK
    <2>2. CASE LeaseHeld(job[w], token[w])
      <3>1. closings' = [closings EXCEPT ![job[w]] = @ + 1]
        BY <1>1, <2>2 DEF CloseWrite
      <3>2. /\ \A t \in Task \ {job[w]} : OwedByWorkers(t)' \subseteq OwedByWorkers(t)
            /\ OwedByWorkers(job[w])' \subseteq OwedByWorkers(job[w]) \cup {w}
            /\ \A t \in Task : OwedByReconcilers(t)' \subseteq OwedByReconcilers(t)
        BY <2>1 DEF OwedByWorkers, OwedByReconcilers
      <3>3. QED  BY <2>1, <3>1, <3>2, VerdictKeeps
    <2>3. CASE ~LeaseHeld(job[w], token[w])
      <3>1. UNCHANGED closings /\ pc'[w] = "finally"
        BY <1>1, <2>3 DEF CloseWrite, Goto, TypeOK
      <3>2. \A t \in Task : closings[t] <= closings'[t]
        BY <3>1 DEF TypeOK
      <3>3. NoNewDebt
        BY <2>1, <3>1, <3>2 DEF NoNewDebt
      <3>4. QED  BY <3>3, NoNewDebtKeeps
    <2>4. QED  BY <2>2, <2>3
  <1>2. ASSUME NEW w \in Worker, DeadLetter(w)  PROVE DeadLettersOwed'
    <2>1. /\ UNCHANGED <<closings, job, rpc, rcur>> /\ job[w] \in Task
          /\ dlq' = [dlq EXCEPT ![job[w]] = @ + 1]
          /\ pc[w] = "dead_letter" /\ pc'[w] = "finally"
          /\ \A v \in Worker \ {w} : pc'[v] = pc[v]
      BY <1>2 DEF DeadLetter, WorkerFrame, Goto, recVars, TypeOK
    <2>2. /\ \A t \in Task : /\ OwedByWorkers(t)' \subseteq OwedByWorkers(t)
                            /\ OwedByReconcilers(t)' \subseteq OwedByReconcilers(t)
          /\ w \in OwedByWorkers(job[w]) /\ w \notin OwedByWorkers(job[w])'
      BY <2>1 DEF OwedByWorkers, OwedByReconcilers
    <2>3. QED  BY <2>1, <2>2, PushKeeps
  <1>3. ASSUME NEW r \in Reconciler, LostWrite(r), rpc'[r] = "lost_dlq"
        PROVE  DeadLettersOwed'
    <2>1. /\ UNCHANGED <<dlq, pc, job, rcur>> /\ rcur[r].task \in Task
          /\ closings' = [closings EXCEPT ![rcur[r].task] = @ + 1]
          /\ \A q \in Reconciler \ {r} : rpc'[q] = rpc[q]
      BY <1>3 DEF LostWrite, ReconcilerFrame, RGoto, TypeOK, InHand
    <2>2. /\ \A t \in Task \ {rcur[r].task} :
               OwedByReconcilers(t)' \subseteq OwedByReconcilers(t)
          /\ OwedByReconcilers(rcur[r].task)' \subseteq
               OwedByReconcilers(rcur[r].task) \cup {r}
          /\ \A t \in Task : OwedByWorkers(t)' \subseteq OwedByWorkers(t)
      BY <2>1 DEF OwedByWorkers, OwedByReconcilers
    <2>3. QED  BY <2>1, <2>2, VerdictKeeps
  <1>4. ASSUME NEW r \in Reconciler, LostDeadLetter(r)  PROVE DeadLettersOwed'
    <2>1. /\ UNCHANGED <<closings, pc, job, rcur>> /\ rcur[r].task \in Task
          /\ dlq' = [dlq EXCEPT ![rcur[r].task] = @ + 1]
          /\ rpc[r] = "lost_dlq" /\ rpc'[r] = "loop"
          /\ \A q \in Reconciler \ {r} : rpc'[q] = rpc[q]
      BY <1>4 DEF LostDeadLetter, ReconcilerFrame, RGoto, TypeOK, InHand
    <2>2. /\ \A t \in Task : /\ OwedByWorkers(t)' \subseteq OwedByWorkers(t)
                            /\ OwedByReconcilers(t)' \subseteq OwedByReconcilers(t)
          /\ r \in OwedByReconcilers(rcur[r].task)
          /\ r \notin OwedByReconcilers(rcur[r].task)'
      BY <2>1 DEF OwedByWorkers, OwedByReconcilers
    <2>3. QED  BY <2>1, <2>2, PushKeeps
  <1>5. QED
    BY <1>1, <1>2, <1>3, <1>4, WorkerNoNewDebt, OthersNoNewDebt, NoNewDebtKeeps DEF Next

\* A dead letter always stands for a recorded failure of its task.
THEOREM DeadLetterHasVerdictHolds == Spec => []DeadLetterHasVerdict
  <1>1. Init => DeadLettersOwed
    <2> SUFFICES ASSUME Init, NEW t \in Task
                 PROVE  dlq[t] + Cardinality(OwedByWorkers(t))
                          + Cardinality(OwedByReconcilers(t)) <= closings[t]
      BY DEF DeadLettersOwed
    <2>1. OwedByWorkers(t) = {} /\ OwedByReconcilers(t) = {}
      BY DEF Init, OwedByWorkers, OwedByReconcilers
    <2>2. dlq[t] = 0 /\ closings[t] = 0
      BY DEF Init
    <2>3. QED  BY <2>1, <2>2, FS_EmptySet
  <1>2. TypeOK /\ TypeOK' /\ DeadLettersOwed /\ [Next]_vars => DeadLettersOwed'
    BY DeadLettersStep
  <1>3. TypeOK /\ DeadLettersOwed => DeadLetterHasVerdict
    <2> SUFFICES ASSUME TypeOK, DeadLettersOwed, NEW t \in Task
                 PROVE  dlq[t] <= closings[t]
      BY DEF DeadLetterHasVerdict
    <2>1. dlq[t] \in Nat /\ closings[t] \in Nat
      BY DEF TypeOK
    <2>2. QED  BY <2>1, OwedFinite DEF DeadLettersOwed
  <1>4. QED  BY <1>1, <1>2, <1>3, TypeCorrect, PTL DEF Spec

-----------------------------------------------------------------------------
(* The records implement the life cycle *)

\* Nobody but create_task knows the task yet.
Untouched(t) ==
  /\ queue[t] = 0 /\ t \notin outbox
  /\ task[t].status = "PENDING" /\ task[t].retry_count = 0
  /\ \A w \in Worker : pc[w] # "idle" => job[w] # t
  /\ \A b \in beats : b.task # t
  /\ \A r \in Reconciler :
       /\ t \notin rtodo[r]
       /\ rpc[r] \in {"requeue_write", "lost_write", "publish"} => rcur[r].task # t

\* A task is untouched until create_task publishes it.
Unpublished == \A t \in Task : api[t] = "enqueue" => Untouched(t)

\* The running set names RUNNING records only, except where the unconditional
\* write of mark_pending_failed may have closed one.
RunningIndexed == \A t \in Task : t \in running => task[t].status = "RUNNING" \/ Raised(t)

\* What a worker of the current generation may rely on.
InPhase(w) ==
  /\ pc[w] \in {"mark_running", "write_running"} => task[job[w]].status = "PENDING"
  /\ pc[w] = "write_running" => snap[w].retry_count = task[job[w]].retry_count
  /\ pc[w] \in Executing => task[job[w]].status = "RUNNING"

\* A worker of the current generation finds the record in the status its own
\* progress implies: nobody else moves it.
PhaseKnown ==
  \A w \in Worker :
    pc[w] \in Leased /\ token[w] = fence[job[w]] /\ ~Raised(job[w]) => InPhase(w)

\* Tokens start at 1, and a verdict of an execution names its generation, which
\* is the current one or the one recovery superseded.
VerdictNamed ==
  /\ \A w \in Worker : pc[w] \in Leased => token[w] > 0
  /\ \A b \in beats : b.token > 0
  /\ \A r \in Reconciler : rpc[r] = "lost_write" => rcur[r].token > 0
  /\ \A t \in Task :
       /\ task[t].status = "RUNNING" => task[t].lease_token > 0
       /\ task[t].status \in {"SUCCEEDED", "FAILED"} /\ ~Raised(t) =>
            0 < task[t].lease_token /\ task[t].lease_token <= fence[t]
       /\ task[t].status = "SUCCEEDED" /\ ~Raised(t) => task[t].lease_token = fence[t]

LifecycleInv == Unpublished /\ RunningIndexed /\ PhaseKnown /\ VerdictNamed

\* What a tick changes of the records, the copies and the beats.
LEMMA TickEffect ==
  ASSUME TypeOK, Tick
  PROVE  /\ \A t \in Task : /\ task'[t].status = task[t].status
                           /\ task'[t].lease_token = task[t].lease_token
                           /\ task'[t].retry_count = task[t].retry_count
         /\ \A w \in Worker : snap'[w].retry_count = snap[w].retry_count
         /\ \A c \in beats' : \E b \in beats : c.task = b.task /\ c.token = b.token
  <1>1. \A t \in Task : task'[t] = Older(task[t]) /\ task[t] \in Record
    BY DEF Tick, TypeOK
  <1>2. \A w \in Worker : snap'[w] = Older(snap[w]) /\ snap[w] \in Record
    BY DEF Tick, TypeOK
  <1>3. ASSUME NEW c \in beats'
        PROVE  \E b \in beats : c.task = b.task /\ c.token = b.token
    <2>1. PICK b \in beats : c = [b EXCEPT !.rec = Older(b.rec)]
      BY DEF Tick
    <2>2. b \in Beat
      BY DEF TypeOK
    <2>3. c.task = b.task /\ c.token = b.token
      BY <2>1, <2>2 DEF Beat
    <2>4. QED  BY <2>3
  <1>4. QED  BY <1>1, <1>2, <1>3, OlderKeeps

\* A step of mark_pending_failed: its task counts as closed before and after.
LEMMA ApiFailEffect ==
  ASSUME TypeOK, NEW t \in Task, ApiFailRead(t) \/ ApiFailWrite(t)
  PROVE  /\ Raised(t) /\ Raised(t)'
         /\ \A u \in Task \ {t} : /\ task'[u] = task[u] /\ api'[u] = api[u]
                                  /\ Raised(u)' <=> Raised(u)
         /\ task'[t] = task[t] \/ task'[t].status = "FAILED"
         /\ UNCHANGED <<running, fence, epoch, pc, job, token, snap, beats, rpc, rcur>>
  <1>1. /\ api[t] \in {"fail_read", "fail_write"}
        /\ api'[t] \in {"fail_lock", "raised"}
        /\ \A u \in Task \ {t} : api'[u] = api[u]
    BY DEF ApiFailRead, ApiFailWrite, TypeOK
  <1>2. \A u \in Task \ {t} : task'[u] = task[u]
    BY DEF ApiFailRead, ApiFailWrite, TypeOK
  <1>3. task'[t] = task[t] \/ task'[t].status = "FAILED"
    BY ApiWriteEffect
  <1>4. UNCHANGED <<running, fence, epoch, pc, job, token, snap, beats, rpc, rcur>>
    BY DEF ApiFailRead, ApiFailWrite, ApiFrame, leaseVars, localVars, beatVars, recVars
  <1>5. QED  BY <1>1, <1>2, <1>3, <1>4 DEF Raised

\* No step takes a task out of Raised, or back to be published.
LEMMA QuietRaised ==
  ASSUME TypeOK, Quiet, NEW t \in Task
  PROVE  /\ Raised(t) => Raised(t)'
         /\ Raised(t)' => Raised(t) \/ api[t] = "enqueue"
  BY DEF Quiet, ApiMoves, Raised

\* Every step keeps the running set and the verdicts in order.
LEMMA RunningIndexedStep ==
  ASSUME TypeOK, FencingInv, RunningIndexed, [Next]_vars
  PROVE  RunningIndexed'
  <1>1. CASE Quiet
    BY <1>1, QuietRaised DEF Quiet, RunningIndexed
  <1>2. CASE Tick
    <2>1. UNCHANGED <<running, api>>
      BY <1>2 DEF Tick, apiVars
    <2>2. QED  BY <1>2, <2>1, TickEffect DEF RunningIndexed, Raised
  <1>3. ASSUME NEW t \in Task, ApiFailRead(t) \/ ApiFailWrite(t)
        PROVE  RunningIndexed'
    BY <1>3, ApiFailEffect DEF RunningIndexed
  <1>4. ASSUME NEW w \in Worker, NEW t \in Task, Acquire(w, t)  PROVE RunningIndexed'
    BY <1>4 DEF Acquire, WorkerFrame, recordVars, apiVars, RunningIndexed, Raised
  <1>5. ASSUME NEW w \in Worker, NEW rec \in Record, ReadsForWrite(w, rec)
        PROVE  RunningIndexed'
    BY <1>5 DEF ReadsForWrite, RunningIndexed, Raised
  <1>6. ASSUME NEW w \in Worker, NEW b \in Beat, BeatsForWrite(w, b)
        PROVE  RunningIndexed'
    BY <1>6 DEF BeatsForWrite, RunningIndexed, Raised
  <1>7. ASSUME NEW t \in Task, NEW k \in Nat, NEW rec \in Record, LeasedWrite(t, k, rec)
        PROVE  RunningIndexed'
    <2>1. \A u \in Task : task'[u] = IF u = t THEN rec ELSE task[u]
      BY <1>7 DEF LeasedWrite, TypeOK
    <2>2. /\ UNCHANGED api
          /\ running' = IF rec.status = "RUNNING" THEN running \cup {t} ELSE running \ {t}
      BY <1>7 DEF LeasedWrite
    <2>3. QED  BY <2>1, <2>2 DEF RunningIndexed, Raised
  <1>8. ASSUME NEW r \in Reconciler, NEW s \in Scanned, RecoversForWrite(r, s)
        PROVE  RunningIndexed'
    BY <1>8 DEF RecoversForWrite, RunningIndexed, Raised
  <1>9. ASSUME NEW r \in Reconciler, RecoveryWrite(r)  PROVE RunningIndexed'
    <2>1. \A u \in Task : task'[u] = IF u = rcur[r].task THEN rcur[r].rec ELSE task[u]
      BY <1>9 DEF RecoveryWrite, TypeOK, InHand
    <2>2. /\ UNCHANGED api
          /\ running' = IF rcur[r].rec.status = "RUNNING" THEN running \cup {rcur[r].task}
                                                          ELSE running \ {rcur[r].task}
      BY <1>9 DEF RecoveryWrite
    <2>3. QED  BY <2>1, <2>2 DEF RunningIndexed, Raised
  <1>10. QED
    BY <1>1, <1>2, <1>3, <1>4, <1>5, <1>6, <1>7, <1>8, <1>9, StepKinds

LEMMA VerdictNamedStep ==
  ASSUME TypeOK, FencingInv, Unpublished, VerdictNamed, [Next]_vars
  PROVE  VerdictNamed'
  <1>1. CASE Quiet
    <2>1. /\ UNCHANGED <<task, fence>> /\ beats' \subseteq beats
          /\ \A w \in Worker : pc'[w] \in Leased => pc[w] \in Leased /\ token'[w] = token[w]
          /\ \A r \in Reconciler : rpc'[r] = "lost_write" =>
               rpc[r] = "lost_write" /\ rcur'[r] = rcur[r]
      BY <1>1 DEF Quiet
    <2>2. QED  BY <1>1, <2>1, QuietRaised DEF VerdictNamed
  <1>2. CASE Tick
    <2>1. UNCHANGED <<fence, api, pc, token, rpc, rcur>>
      BY <1>2 DEF Tick, apiVars, recVars
    <2>2. QED  BY <1>2, <2>1, TickEffect DEF VerdictNamed, Raised
  <1>3. ASSUME NEW t \in Task, ApiFailRead(t) \/ ApiFailWrite(t)
        PROVE  VerdictNamed'
    BY <1>3, ApiFailEffect DEF VerdictNamed
  <1>4. ASSUME NEW w \in Worker, NEW t \in Task, Acquire(w, t)  PROVE VerdictNamed'
    <2>1. /\ UNCHANGED <<task, api, beats, rpc, rcur>>
          /\ epoch[t] \in Nat /\ task[t].status = "PENDING"
          /\ \A u \in Task \ {t} : fence'[u] = fence[u]
          /\ token'[w] = epoch[t] + 1
          /\ \A v \in Worker \ {w} : pc'[v] = pc[v] /\ token'[v] = token[v]
      BY <1>4 DEF Acquire, CanAcquire, NextToken, WorkerFrame, Goto, recordVars, apiVars,
                  beatVars, recVars, TypeOK, FencingInv, PendingIndexExact
    <2>2. QED  BY <2>1 DEF VerdictNamed, Raised
  <1>5. ASSUME NEW w \in Worker, NEW rec \in Record, ReadsForWrite(w, rec)
        PROVE  VerdictNamed'
    <2>1. /\ UNCHANGED <<task, fence, token, api, beats, rpc, rcur>>
          /\ \A v \in Worker : pc'[v] \in Leased => pc[v] \in Leased
      BY <1>5 DEF ReadsForWrite, TypeOK
    <2>2. QED  BY <2>1 DEF VerdictNamed, Raised
  <1>6. ASSUME NEW w \in Worker, NEW b \in Beat, BeatsForWrite(w, b)
        PROVE  VerdictNamed'
    BY <1>6 DEF BeatsForWrite, OwnedBy, TypeOK, VerdictNamed, Raised
  <1>7. ASSUME NEW t \in Task, NEW k \in Nat, NEW rec \in Record, LeasedWrite(t, k, rec)
        PROVE  VerdictNamed'
    <2>1. \A u \in Task : task'[u] = IF u = t THEN rec ELSE task[u]
      BY <1>7 DEF LeasedWrite, TypeOK
    <2>2. /\ UNCHANGED <<fence, token, api, rpc, rcur>> /\ beats' \subseteq beats
          /\ \A v \in Worker : pc'[v] \in Leased => pc[v] \in Leased
      BY <1>7 DEF LeasedWrite, MovesOn, Leased
    <2>3. rec.lease_token = k /\ k > 0 /\ k = fence[t]
      BY <1>7 DEF LeasedWrite, LeaseHeld, WritePc, Leased, FencingInv, SnapshotsOwned,
                  OwnedBy, VerdictNamed
    <2>4. QED  BY <2>1, <2>2, <2>3 DEF VerdictNamed, Raised
  <1>8. ASSUME NEW r \in Reconciler, NEW s \in Scanned, RecoversForWrite(r, s)
        PROVE  VerdictNamed'
    <2>1. /\ UNCHANGED <<task, fence, pc, token, beats, api>>
          /\ \A q \in Reconciler \ {r} : rcur'[q] = rcur[q] /\ rpc'[q] = rpc[q]
          /\ rcur'[r].token = s.token /\ OwnedBy(task[s.task], s.token)
          /\ s.task \in Task
      BY <1>8 DEF RecoversForWrite, TypeOK, Scanned
    <2>2. QED  BY <2>1 DEF VerdictNamed, OwnedBy, Raised
  <1>9. ASSUME NEW r \in Reconciler, RecoveryWrite(r)  PROVE VerdictNamed'
    <2>1. /\ rcur[r].task \in Task /\ epoch[rcur[r].task] \in Nat
          /\ rcur[r].token \in Nat
          /\ \A u \in Task : task'[u] = IF u = rcur[r].task THEN rcur[r].rec ELSE task[u]
          /\ \A u \in Task : fence'[u] = IF u = rcur[r].task THEN epoch[u] + 1
                                                             ELSE fence[u]
      BY <1>9 DEF RecoveryWrite, AdvanceFence, NextToken, TypeOK, InHand
    <2>2. /\ UNCHANGED <<pc, token, beats, api, rcur>>
          /\ \A q \in Reconciler : rpc'[q] = "lost_write" => rpc[q] = "lost_write"
      BY <1>9 DEF RecoveryWrite, RecoverPc, TypeOK
    <2>3. \/ rcur[r].rec.status = "PENDING"
          \/ /\ rcur[r].rec.status = "FAILED" /\ rcur[r].rec.lease_token = rcur[r].token
             /\ rcur[r].token > 0 /\ rcur[r].token <= epoch[rcur[r].task]
      BY <1>9 DEF RecoveryWrite, RecoverPc, FencingInv, SnapshotsOwned, TokensIssued,
                  VerdictNamed
    <2>4. QED  BY <2>1, <2>2, <2>3 DEF VerdictNamed, Raised
  <1>10. QED
    BY <1>1, <1>2, <1>3, <1>4, <1>5, <1>6, <1>7, <1>8, <1>9, StepKinds

\* A write under the lease keeps the phases: its writer is the only worker of
\* the generation, and a heartbeat of it writes RUNNING over no PENDING record.
LEMMA WritePhase ==
  ASSUME TypeOK, FencingInv, PhaseKnown,
         NEW t \in Task, NEW k \in Nat, NEW rec \in Record, LeasedWrite(t, k, rec),
         NEW v \in Worker, pc'[v] \in Leased, token'[v] = fence'[job'[v]],
         ~Raised(job[v])
  PROVE  InPhase(v)'
  <1>1. \A u \in Task : task'[u] = IF u = t THEN rec ELSE task[u]
    BY DEF LeasedWrite, TypeOK
  <1>2. UNCHANGED <<fence, token, job>> /\ job[v] \in Task
    BY DEF LeasedWrite, TypeOK
  <1>3. \/ pc'[v] = pc[v] /\ snap'[v] = snap[v]
        \/ job[v] = t /\ token[v] = k /\ MovesOn(v)
    BY DEF LeasedWrite
  <1>4. /\ pc[v] \in Leased
        /\ pc[v] \in {"mark_running", "write_running"} =>
             task[job[v]].status = "PENDING"
        /\ pc[v] = "write_running" => snap[v].retry_count = task[job[v]].retry_count
        /\ pc[v] \in Executing => task[job[v]].status = "RUNNING"
    <2>1. pc[v] \in Leased
      BY <1>3 DEF MovesOn, Leased
    <2>2. QED  BY <1>2, <2>1 DEF PhaseKnown, InPhase
  <1>5. CASE job[v] # t
    BY <1>1, <1>2, <1>3, <1>4, <1>5 DEF InPhase
  <1>6. CASE job[v] = t
    <2>1. token[v] = k /\ fence[t] = k
      BY <1>2, <1>6 DEF LeasedWrite, LeaseHeld
    <2>2. CASE \E w \in Worker : /\ pc[w] \in WritePc /\ MovesOn(w)
                                /\ job[w] = t /\ token[w] = k /\ snap[w] = rec
      <3>1. MovesOn(v) /\ snap[v] = rec
        BY <1>4, <1>6, <2>1, <2>2 DEF FencingInv, TokensIssued, WritePc, Leased
      <3>2. pc'[v] \in Executing => rec.status = "RUNNING"
        BY <3>1 DEF MovesOn, Executing, FencingInv, SnapshotsOwned, OwnedBy
      <3>3. pc'[v] \notin {"mark_running", "write_running"}
        BY <3>1 DEF MovesOn
      <3>4. QED  BY <1>1, <1>2, <1>6, <3>2, <3>3 DEF InPhase
    <2>3. CASE \E b \in beats : b.task = t /\ b.token = k /\ b.rec = rec
      <3>1. rec.status = "RUNNING" /\ task[t].status # "PENDING"
        BY <2>1, <2>3 DEF FencingInv, SnapshotsOwned, OwnedBy, NoWayBack
      <3>2. pc[v] \notin {"mark_running", "write_running"}
        BY <1>4, <1>6, <3>1
      <3>3. pc'[v] \notin {"mark_running", "write_running"}
        BY <1>3, <3>2 DEF MovesOn
      <3>4. QED  BY <1>1, <1>2, <1>6, <3>1, <3>3 DEF InPhase
    <2>4. QED  BY <2>2, <2>3 DEF LeasedWrite
  <1>7. QED  BY <1>5, <1>6

\* Every step keeps the phases.
LEMMA PhaseStep ==
  ASSUME TypeOK, FencingInv, PhaseKnown, [Next]_vars
  PROVE  PhaseKnown'
  <1> SUFFICES ASSUME NEW v \in Worker, pc'[v] \in Leased,
                      token'[v] = fence'[job'[v]], ~Raised(job[v])'
               PROVE  InPhase(v)'
    BY DEF PhaseKnown
  <1> USE DEF InPhase
  <1>1. CASE Quiet
    <2>1. /\ UNCHANGED <<task, fence>> /\ pc[v] \in Leased
          /\ job'[v] = job[v] /\ token'[v] = token[v] /\ job[v] \in Task
          /\ pc'[v] \in Executing => pc[v] \in Executing
          /\ pc'[v] \in {"mark_running", "write_running"} =>
               pc'[v] = pc[v] /\ snap'[v] = snap[v]
      BY <1>1 DEF Quiet, TypeOK
    <2>2. ~Raised(job[v])
      BY <1>1, <2>1, QuietRaised DEF Raised
    <2>3. QED  BY <2>1, <2>2 DEF PhaseKnown
  <1>2. CASE Tick
    <2>1. UNCHANGED <<fence, api, pc, job, token>> /\ job[v] \in Task
      BY <1>2 DEF Tick, apiVars, TypeOK
    <2>2. QED  BY <1>2, <2>1, TickEffect DEF PhaseKnown, Raised
  <1>3. ASSUME NEW t \in Task, ApiFailRead(t) \/ ApiFailWrite(t)
        PROVE  InPhase(v)'
    <2>1. UNCHANGED <<fence, pc, job, token, snap>> /\ job[v] \in Task
      BY <1>3, ApiFailEffect DEF TypeOK
    <2>2. job[v] # t /\ ~Raised(job[v]) /\ task'[job[v]] = task[job[v]]
      BY <1>3, <2>1, ApiFailEffect DEF Raised
    <2>3. QED  BY <2>1, <2>2 DEF PhaseKnown
  <1>4. ASSUME NEW w \in Worker, NEW t \in Task, Acquire(w, t)  PROVE InPhase(v)'
    <2>1. /\ UNCHANGED <<task, api, snap>>
          /\ epoch[t] \in Nat /\ task[t].status = "PENDING"
          /\ \A u \in Task : fence'[u] = IF u = t THEN epoch[t] + 1 ELSE fence[u]
          /\ job'[w] = t /\ pc'[w] = "mark_running"
          /\ \A x \in Worker \ {w} : /\ pc'[x] = pc[x] /\ token'[x] = token[x]
                                     /\ job'[x] = job[x]
      BY <1>4 DEF Acquire, CanAcquire, NextToken, WorkerFrame, Goto, recordVars, apiVars,
                  TypeOK, FencingInv, PendingIndexExact
    <2>2. CASE v = w
      BY <2>1, <2>2 DEF Executing
    <2>3. CASE v # w
      <3>1. token[v] <= epoch[job[v]] /\ token[v] \in Nat /\ job[v] \in Task
        BY <2>1, <2>3 DEF FencingInv, TokensIssued, TypeOK
      <3>2. job[v] # t
        BY <2>1, <2>3, <3>1
      <3>3. QED  BY <2>1, <2>3, <3>1, <3>2 DEF PhaseKnown, Raised
    <2>4. QED  BY <2>2, <2>3
  <1>5. ASSUME NEW w \in Worker, NEW rec \in Record, ReadsForWrite(w, rec)
        PROVE  InPhase(v)'
    <2>1. /\ UNCHANGED <<task, fence, job, token, api>>
          /\ \A x \in Worker \ {w} : pc'[x] = pc[x] /\ snap'[x] = snap[x]
      BY <1>5 DEF ReadsForWrite, TypeOK
    <2>2. CASE v = w
      BY <1>5, <2>1, <2>2 DEF ReadsForWrite, WritePc, OwnedBy, Executing, TypeOK
    <2>3. CASE v # w
      BY <2>1, <2>3 DEF PhaseKnown, Raised
    <2>4. QED  BY <2>2, <2>3
  <1>6. ASSUME NEW w \in Worker, NEW b \in Beat, BeatsForWrite(w, b)
        PROVE  InPhase(v)'
    BY <1>6 DEF BeatsForWrite, PhaseKnown, Raised
  <1>7. ASSUME NEW t \in Task, NEW k \in Nat, NEW rec \in Record, LeasedWrite(t, k, rec)
        PROVE  InPhase(v)'
    <2>1. ~Raised(job[v])
      BY <1>7 DEF LeasedWrite, Raised
    <2>2. QED  BY <1>7, <2>1, WritePhase
  <1>8. ASSUME NEW r \in Reconciler, NEW s \in Scanned, RecoversForWrite(r, s)
        PROVE  InPhase(v)'
    BY <1>8 DEF RecoversForWrite, PhaseKnown, Raised
  <1>9. ASSUME NEW r \in Reconciler, RecoveryWrite(r)  PROVE InPhase(v)'
    <2>1. /\ UNCHANGED <<pc, job, token, snap, api>>
          /\ rcur[r].task \in Task /\ epoch[rcur[r].task] \in Nat
          /\ \A u \in Task : task'[u] = IF u = rcur[r].task THEN rcur[r].rec ELSE task[u]
          /\ \A u \in Task : fence'[u] = IF u = rcur[r].task THEN epoch[u] + 1
                                                             ELSE fence[u]
      BY <1>9 DEF RecoveryWrite, AdvanceFence, NextToken, TypeOK, InHand
    <2>2. token[v] <= epoch[job[v]] /\ token[v] \in Nat /\ job[v] \in Task
      BY <2>1 DEF FencingInv, TokensIssued, TypeOK
    <2>3. job[v] # rcur[r].task
      BY <2>1, <2>2
    <2>4. QED  BY <2>1, <2>2, <2>3 DEF PhaseKnown, Raised
  <1>10. QED
    BY <1>1, <1>2, <1>3, <1>4, <1>5, <1>6, <1>7, <1>8, <1>9, StepKinds

\* An untouched task stays so: no step of a worker, a heartbeat or a
\* reconciler reaches it before its message does.
LEMMA WorkerTouchesNot ==
  ASSUME TypeOK, NEW t \in Task, Untouched(t), NEW w \in Worker,
         WorkerNext(w) \/ BeatRead(w) \/ WorkerCrash(w)
  PROVE  Untouched(t)'
  <1> USE DEF Untouched, WorkerFrame, Goto, TypeOK, recordVars, beatVars, recVars
  <1>1. ASSUME NEW u \in Task, Acquire(w, u)  PROVE Untouched(t)'
    <2>1. u # t  BY <1>1 DEF Acquire
    <2>2. QED  BY <1>1, <2>1 DEF Acquire
  <1>2. ASSUME NEW u \in Task, AcquireRefused(w, u)  PROVE Untouched(t)'
    <2>1. u # t  BY <1>2 DEF AcquireRefused
    <2>2. QED  BY <1>2, <2>1 DEF AcquireRefused
  <1>3. CASE MarkRunningRead(w)  BY <1>3 DEF MarkRunningRead
  <1>4. CASE MarkRunningWrite(w)  BY <1>4 DEF MarkRunningWrite, WriteRecord
  <1>5. CASE Abandon(w)  BY <1>5 DEF Abandon, ReleaseLease, Return
  <1>6. CASE ProgressRead(w)  BY <1>6 DEF ProgressRead, AfterProgress
  <1>7. CASE ProgressWrite(w)  BY <1>7 DEF ProgressWrite, AfterProgress, WriteRecord
  <1>8. ASSUME NEW dead \in BOOLEAN, Raises(w, dead)  PROVE Untouched(t)'
    BY <1>8 DEF Raises
  <1>9. CASE CloseRead(w)  BY <1>9 DEF CloseRead
  <1>10. CASE CloseWrite(w)  BY <1>10 DEF CloseWrite, WriteRecord
  <1>11. CASE CloseRelease(w)  BY <1>11 DEF CloseRelease, ReleaseLease
  <1>12. CASE DeadLetter(w)  BY <1>12 DEF DeadLetter
  <1>13. CASE Finally(w)  BY <1>13 DEF Finally, ReleaseLease, Return
  <1>14. CASE WorkerCrash(w)  BY <1>14 DEF WorkerCrash, Return
  <1>15. CASE BeatRead(w)
    <2>1. /\ UNCHANGED <<queue, outbox, task, pc, job, rpc, rtodo, rcur>>
      BY <1>15 DEF BeatRead
    <2>2. CASE OwnedBy(task[job[w]], token[w])
      <3>1. job[w] # t  BY <2>2 DEF OwnedBy
      <3>2. \A b \in beats' : b \in beats \/ b.task = job[w]
        BY <1>15 DEF BeatRead
      <3>3. QED  BY <2>1, <3>1, <3>2
    <2>3. CASE ~OwnedBy(task[job[w]], token[w])
      BY <1>15, <2>1, <2>3 DEF BeatRead
    <2>4. QED  BY <2>2, <2>3
  <1>16. QED
    BY <1>1, <1>2, <1>3, <1>4, <1>5, <1>6, <1>7, <1>8, <1>9, <1>10, <1>11, <1>12,
       <1>13, <1>14, <1>15 DEF WorkerNext

LEMMA ReconcilerTouchesNot ==
  ASSUME TypeOK, NEW t \in Task, Untouched(t), NEW r \in Reconciler,
         ReconcilerNext(r) \/ ReconcilerCrash(r)
  PROVE  Untouched(t)'
  <1> USE DEF Untouched, ReconcilerFrame, RGoto, NextDispatch, TypeOK, recordVars,
              beatVars
  <1>1. CASE Scan(r)  BY <1>1 DEF Scan
  <1>2. ASSUME NEW s \in rstale[r], RecoverRead(r, s)  PROVE Untouched(t)'
    <2>1. OwnedBy(task[s.task], s.token) => s.task # t
      BY DEF OwnedBy
    <2>2. QED  BY <1>2, <2>1 DEF RecoverRead
  <1>3. CASE RequeueWrite(r)  BY <1>3 DEF RequeueWrite, WriteRecord
  <1>4. CASE LostWrite(r)  BY <1>4 DEF LostWrite, WriteRecord
  <1>5. CASE LostDeadLetter(r)  BY <1>5 DEF LostDeadLetter
  <1>6. CASE ListDispatches(r)  BY <1>6 DEF ListDispatches
  <1>7. ASSUME NEW u \in rtodo[r], DispatchRead(r, u)  PROVE Untouched(t)'
    BY <1>7 DEF DispatchRead
  <1>8. CASE Publish(r)  BY <1>8 DEF Publish, InHand
  <1>9. ASSUME NEW taken \in {0, 1}, PublishRaises(r, taken)  PROVE Untouched(t)'
    BY <1>9 DEF PublishRaises, InHand
  <1>10. CASE AckDispatch(r)  BY <1>10 DEF AckDispatch
  <1>11. CASE ReconcilerCrash(r)  BY <1>11 DEF ReconcilerCrash
  <1>12. QED
    BY <1>1, <1>2, <1>3, <1>4, <1>5, <1>6, <1>7, <1>8, <1>9, <1>10, <1>11
       DEF ReconcilerNext

\* Every step keeps the unpublished tasks untouched.
LEMMA UnpublishedStep ==
  ASSUME TypeOK, Unpublished, [Next]_vars
  PROVE  Unpublished'
  <1> SUFFICES ASSUME NEW t \in Task, api'[t] = "enqueue"  PROVE Untouched(t)'
    BY DEF Unpublished
  <1>1. ASSUME NEW u \in Task, ApiNext(u)  PROVE Untouched(t)'
    <2> DEFINE Effect ==
          /\ api'[u] # "enqueue"
          /\ \A x \in Task \ {u} : api'[x] = api[x] /\ queue'[x] = queue[x]
                                  /\ task'[x] = task[x]
          /\ UNCHANGED <<outbox, pc, job, beats, rpc, rtodo, rcur>>
    <2>1. Effect
      <3> USE DEF ApiFrame, beatVars, recVars, TypeOK
      <3>1. CASE ApiEnqueue(u)  BY <3>1 DEF ApiEnqueue
      <3>2. ASSUME NEW taken \in {0, 1}, ApiEnqueueRaises(u, taken)  PROVE Effect
        BY <3>2 DEF ApiEnqueueRaises
      <3>3. CASE ApiFailRead(u)  BY <3>3 DEF ApiFailRead
      <3>4. CASE ApiFailLock(u)  BY <3>4 DEF ApiFailLock
      <3>5. CASE ApiFailWrite(u)  BY <3>5 DEF ApiFailWrite
      <3>6. QED  BY <1>1, <3>1, <3>2, <3>3, <3>4, <3>5 DEF ApiNext
    <2>2. t # u /\ Untouched(t)
      BY <2>1 DEF Unpublished
    <2>3. QED  BY <2>1, <2>2 DEF Untouched
  <1>2. CASE Tick
    <2>1. UNCHANGED <<api, queue, outbox, pc, job, rpc, rtodo, rcur>>
      BY <1>2 DEF Tick, apiVars, recVars
    <2>2. Untouched(t)
      BY <2>1 DEF Unpublished
    <2>3. QED  BY <1>2, <2>1, <2>2, TickEffect DEF Untouched
  <1>3. ASSUME NEW w \in Worker, WorkerNext(w) \/ BeatRead(w) \/ WorkerCrash(w)
        PROVE  Untouched(t)'
    <2>1. UNCHANGED api
      BY <1>3 DEF WorkerNext, Acquire, AcquireRefused, MarkRunningRead, MarkRunningWrite,
                  Abandon, ProgressRead, ProgressWrite, Raises, CloseRead, CloseWrite,
                  CloseRelease, DeadLetter, Finally, BeatRead, WorkerCrash, WorkerFrame,
                  apiVars
    <2>2. QED  BY <1>3, <2>1, WorkerTouchesNot DEF Unpublished
  <1>4. ASSUME NEW b \in beats, BeatWrite(b)  PROVE Untouched(t)'
    <2>1. UNCHANGED api
      BY <1>4 DEF BeatWrite, WorkerFrame, apiVars
    <2>2. Untouched(t)
      BY <2>1 DEF Unpublished
    <2>3. b.task # t
      BY <2>2 DEF Untouched
    <2>4. QED
      BY <1>4, <2>2, <2>3 DEF BeatWrite, WriteRecord, WorkerFrame, Untouched, recordVars,
                              recVars, TypeOK
  <1>5. ASSUME NEW r \in Reconciler, ReconcilerNext(r) \/ ReconcilerCrash(r)
        PROVE  Untouched(t)'
    <2>1. UNCHANGED api
      BY <1>5 DEF ReconcilerNext, Scan, RecoverRead, RequeueWrite, LostWrite,
                  LostDeadLetter, ListDispatches, DispatchRead, Publish, PublishRaises,
                  AckDispatch, ReconcilerCrash, ReconcilerFrame, apiVars
    <2>2. QED  BY <1>5, <2>1, ReconcilerTouchesNot DEF Unpublished
  <1>6. CASE UNCHANGED vars
    BY <1>6 DEF vars, recordVars, apiVars, beatVars, recVars, Unpublished, Untouched
  <1>7. QED  BY <1>1, <1>2, <1>3, <1>4, <1>5, <1>6 DEF Next

\* The life cycle's invariant, kept by every step of the system.
LEMMA LifecycleInvariant == Spec => []LifecycleInv
  <1>1. Init => LifecycleInv
    BY DEF Init, LifecycleInv, Unpublished, Untouched, RunningIndexed, PhaseKnown,
           VerdictNamed, Admitted, Leased
  <1>2. TypeOK /\ FencingInv /\ LifecycleInv /\ [Next]_vars => LifecycleInv'
    BY UnpublishedStep, RunningIndexedStep, PhaseStep, VerdictNamedStep DEF LifecycleInv
  <1>3. QED  BY <1>1, <1>2, TypeCorrect, FencingHolds, PTL DEF Spec

-----------------------------------------------------------------------------

\* What readers see of the tasks.
ShownStatus == [t \in Task |-> IF Raised(t) THEN "FAILED" ELSE task[t].status]
ShownRetry  == [t \in Task |-> IF Raised(t) THEN 0 ELSE task[t].retry_count]

\* A step that changes neither the statuses, the counts nor who is Raised.
LEMMA NothingShown ==
  ASSUME \A t \in Task : /\ Raised(t)' <=> Raised(t)
                         /\ Raised(t) \/ /\ task'[t].status = task[t].status
                                         /\ task'[t].retry_count = task[t].retry_count
  PROVE  ShownStatus' = ShownStatus /\ ShownRetry' = ShownRetry
  BY DEF ShownStatus, ShownRetry

\* A step that writes one record of a task that is not Raised shows that.
LEMMA WriteShown ==
  ASSUME TypeOK, NEW t \in Task, NEW rec, task' = [task EXCEPT ![t] = rec],
         UNCHANGED api, ~Raised(t)
  PROVE  /\ ShownStatus' = [ShownStatus EXCEPT ![t] = rec.status]
         /\ ShownRetry' = [ShownRetry EXCEPT ![t] = rec.retry_count]
         /\ ShownStatus[t] = task[t].status /\ ShownRetry[t] = task[t].retry_count
  <1>1. \A u \in Task : Raised(u)' <=> Raised(u)
    BY DEF Raised
  <1>2. \A u \in Task : task'[u] = IF u = t THEN rec ELSE task[u]
    BY DEF TypeOK
  <1>3. /\ DOMAIN ShownStatus = Task /\ DOMAIN ShownRetry = Task
        /\ \A u \in Task \ {t} : /\ ShownStatus'[u] = ShownStatus[u]
                                 /\ ShownRetry'[u] = ShownRetry[u]
    BY <1>1, <1>2 DEF ShownStatus, ShownRetry
  <1>4. /\ ShownStatus'[t] = rec.status /\ ShownRetry'[t] = rec.retry_count
        /\ ShownStatus[t] = task[t].status /\ ShownRetry[t] = task[t].retry_count
    BY <1>1, <1>2 DEF ShownStatus, ShownRetry
  <1>5. ShownStatus' = [u \in Task |-> IF u = t THEN rec.status ELSE ShownStatus[u]]
    <2>1. ShownStatus' = [u \in Task |-> ShownStatus'[u]]  BY DEF ShownStatus
    <2>2. QED  BY <1>3, <1>4, <2>1
  <1>6. ShownRetry' = [u \in Task |-> IF u = t THEN rec.retry_count ELSE ShownRetry[u]]
    <2>1. ShownRetry' = [u \in Task |-> ShownRetry'[u]]  BY DEF ShownRetry
    <2>2. QED  BY <1>3, <1>4, <2>1
  <1>7. QED  BY <1>3, <1>4, <1>5, <1>6

\* The status readers see of t moves.
ShownMoves(t, from, to) == /\ ShownStatus[t] \in from
                           /\ ShownStatus' = [ShownStatus EXCEPT ![t] = to]

\* The moves of what is shown that are steps of the life cycle.
LEMMA ShownIsLifecycle ==
  ASSUME NEW t \in Task
  PROVE  /\ /\ \/ ShownMoves(t, {"PENDING"}, "RUNNING")
               \/ ShownMoves(t, {"SUCCEEDED", "FAILED"}, "RUNNING")
               \/ ShownMoves(t, {"RUNNING"}, "SUCCEEDED")
               \/ ShownMoves(t, {"PENDING", "RUNNING"}, "FAILED")
            /\ ShownRetry' = ShownRetry
            => Lifecycle!Next
         /\ /\ ShownMoves(t, {"RUNNING"}, "PENDING")
            /\ ShownRetry[t] < MaxRetries
            /\ ShownRetry' = [ShownRetry EXCEPT ![t] = @ + 1]
            => Lifecycle!Next
  BY DEF ShownMoves, ShownStatus, ShownRetry, Lifecycle!Next, Lifecycle!TaskStep,
         Lifecycle!Start, Lifecycle!Reopen, Lifecycle!Succeed, Lifecycle!Fail,
         Lifecycle!Requeue, Lifecycle!Move, Lifecycle!Verdict

\* Writes under the lease start a task, close it, or reopen it.
LEMMA WriteLifecycle ==
  ASSUME TypeOK, FencingInv, RetryKnown, LifecycleInv,
         NEW t \in Task, NEW k \in Nat, NEW rec \in Record, LeasedWrite(t, k, rec)
  PROVE  Lifecycle!Next \/ (ShownStatus' = ShownStatus /\ ShownRetry' = ShownRetry)
  <1>0. /\ task' = [task EXCEPT ![t] = rec] /\ UNCHANGED api /\ fence[t] = k
        /\ task[t] \in Record /\ fence[t] \in Nat
    BY DEF LeasedWrite, LeaseHeld, TypeOK
  <1>1. CASE Raised(t)
    <2>1. \A u \in Task : /\ Raised(u)' <=> Raised(u)
                          /\ u # t => task'[u] = task[u]
      BY <1>0 DEF Raised, TypeOK
    <2>2. QED  BY <1>1, <2>1, NothingShown
  <1>2. CASE ~Raised(t)
    <2>1. /\ ShownStatus' = [ShownStatus EXCEPT ![t] = rec.status]
          /\ ShownRetry' = [ShownRetry EXCEPT ![t] = rec.retry_count]
          /\ ShownStatus[t] = task[t].status /\ ShownRetry[t] = task[t].retry_count
      BY <1>0, <1>2, WriteShown
    <2>2. Seen(t, k, rec.retry_count) /\ rec.retry_count \in Nat
      BY DEF LeasedWrite, Seen, Record
    <2>3. task[t].status = "PENDING" =>
            rec.status = "RUNNING" /\ rec.retry_count = task[t].retry_count
      <3> SUFFICES ASSUME task[t].status = "PENDING"
                   PROVE  rec.status = "RUNNING" /\ rec.retry_count = task[t].retry_count
        OBVIOUS
      <3>1. ~\E b \in beats : b.task = t /\ b.token = k
        BY <1>0 DEF FencingInv, NoWayBack
      <3>2. PICK w \in Worker : /\ pc[w] \in WritePc
                               /\ job[w] = t /\ token[w] = k /\ snap[w] = rec
        BY <3>1 DEF LeasedWrite
      <3>3. pc[w] = "write_running"
        BY <1>0, <3>2 DEF FencingInv, NoWayBack, WritePc, Started, Leased
      <3>4. rec.status = "RUNNING"
        BY <3>2, <3>3 DEF FencingInv, SnapshotsOwned, OwnedBy
      <3>5. rec.retry_count = task[t].retry_count
        BY <1>0, <1>2, <3>2, <3>3 DEF LifecycleInv, PhaseKnown, InPhase, Leased
      <3>6. QED  BY <3>4, <3>5
    <2>4. task[t].status # "PENDING" => rec.retry_count = task[t].retry_count
      <3> SUFFICES ASSUME task[t].status # "PENDING"
                   PROVE  rec.retry_count = task[t].retry_count
        OBVIOUS
      <3>1. HeldBy(task[t], k)
        <4>1. CASE task[t].status = "RUNNING"
          BY <1>0, <4>1 DEF HeldBy, FencingInv, RunningOwnsFence
        <4>2. CASE task[t].status \in {"SUCCEEDED", "FAILED"}
          <5>1. 0 < task[t].lease_token /\ task[t].lease_token <= fence[t]
            BY <1>2, <4>2 DEF LifecycleInv, VerdictNamed
          <5>2. task[t].lease_token \in Nat
            BY <1>0 DEF Record
          <5>3. CASE task[t].status = "FAILED" /\ task[t].lease_token < fence[t]
            <6>1. /\ \A w \in Worker : pc[w] \in Leased /\ job[w] = t => token[w] # k
                  /\ \A b \in beats : b.task = t => b.token # k
              BY <1>0, <5>1, <5>3 DEF FencingInv, LostSealed
            <6>2. QED  BY <6>1 DEF LeasedWrite, WritePc, Leased
          <5>4. CASE task[t].lease_token = fence[t]
            BY <1>0, <5>1, <5>4 DEF HeldBy
          <5>5. CASE task[t].status = "SUCCEEDED"
            BY <1>2, <5>4, <5>5 DEF LifecycleInv, VerdictNamed
          <5>6. QED  BY <1>0, <4>2, <5>1, <5>2, <5>3, <5>4, <5>5
        <4>3. QED  BY <1>0, <4>1, <4>2 DEF Record, Status
      <3>2. Seen(t, k, task[t].retry_count) /\ task[t].retry_count \in Nat
        BY <1>0, <3>1 DEF Seen, Record
      <3>3. QED  BY <2>2, <3>2 DEF RetryKnown
    <2>5. CASE rec.status = "RUNNING"
      <3>1. CASE task[t].status = "RUNNING"
        <4>1. \A u \in Task : /\ Raised(u)' <=> Raised(u)
                              /\ task'[u] = IF u = t THEN rec ELSE task[u]
          BY <1>0 DEF Raised, TypeOK
        <4>2. QED  BY <2>4, <2>5, <3>1, <4>1, NothingShown
      <3>2. CASE task[t].status = "PENDING"
        <4>1. ShownRetry' = ShownRetry
          BY <2>1, <2>3, <3>2 DEF ShownRetry
        <4>2. ShownMoves(t, {"PENDING"}, "RUNNING")
          BY <2>1, <2>5, <3>2 DEF ShownMoves
        <4>3. QED  BY <4>1, <4>2, ShownIsLifecycle
      <3>3. CASE task[t].status \in {"SUCCEEDED", "FAILED"}
        <4>1. ShownRetry' = ShownRetry
          BY <2>1, <2>4, <3>3 DEF ShownRetry
        <4>2. ShownMoves(t, {"SUCCEEDED", "FAILED"}, "RUNNING")
          BY <2>1, <2>5, <3>3 DEF ShownMoves
        <4>3. QED  BY <4>1, <4>2, ShownIsLifecycle
      <3>4. QED  BY <1>0, <3>1, <3>2, <3>3 DEF Record, Status
    <2>6. CASE rec.status # "RUNNING"
      <3>1. ~\E b \in beats : b.task = t /\ b.token = k /\ b.rec = rec
        BY <2>6 DEF FencingInv, SnapshotsOwned, OwnedBy
      <3>2. PICK w \in Worker : /\ pc[w] \in WritePc
                               /\ job[w] = t /\ token[w] = k /\ snap[w] = rec
        BY <3>1 DEF LeasedWrite
      <3>3. pc[w] = "write_close" /\ rec.status \in {"SUCCEEDED", "FAILED"}
        BY <2>6, <3>2 DEF FencingInv, SnapshotsOwned, OwnedBy, WritePc
      <3>4. task[t].status = "RUNNING"
        BY <1>0, <1>2, <3>2, <3>3
           DEF LifecycleInv, PhaseKnown, InPhase, Leased, Executing
      <3>5. ShownRetry' = ShownRetry
        BY <2>1, <2>4, <3>4 DEF ShownRetry
      <3>6. \/ ShownMoves(t, {"RUNNING"}, "SUCCEEDED")
            \/ ShownMoves(t, {"PENDING", "RUNNING"}, "FAILED")
        BY <2>1, <3>3, <3>4 DEF ShownMoves
      <3>7. QED  BY <3>5, <3>6, ShownIsLifecycle
    <2>7. QED  BY <2>5, <2>6
  <1>3. QED  BY <1>1, <1>2

\* A recovery write finds the record RUNNING; it requeues the task and spends
\* one of the retries left, or closes it.
LEMMA RecoveryLifecycle ==
  ASSUME TypeOK, FencingInv, RetryKnown, RetryCapped, LifecycleInv,
         NEW r \in Reconciler, RecoveryWrite(r)
  PROVE  Lifecycle!Next \/ (ShownStatus' = ShownStatus /\ ShownRetry' = ShownRetry)
  <1> DEFINE t   == rcur[r].task
             rec == rcur[r].rec
  <1>0. /\ t \in Task /\ rec \in Record /\ task[t] \in Record
        /\ task' = [task EXCEPT ![t] = rec] /\ UNCHANGED api
        /\ fence[t] = rcur[r].token /\ t \in running
        /\ rpc[r] \in {"requeue_write", "lost_write"}
    BY DEF RecoveryWrite, CanRecover, RecoverPc, TypeOK, InHand
  <1>1. CASE Raised(t)
    <2>1. \A u \in Task : /\ Raised(u)' <=> Raised(u)
                          /\ u # t => task'[u] = task[u]
      BY <1>0 DEF Raised, TypeOK
    <2>2. QED  BY <1>0, <1>1, <2>1, NothingShown
  <1>2. CASE ~Raised(t)
    <2>1. /\ ShownStatus' = [ShownStatus EXCEPT ![t] = rec.status]
          /\ ShownRetry' = [ShownRetry EXCEPT ![t] = rec.retry_count]
          /\ ShownStatus[t] = task[t].status /\ ShownRetry[t] = task[t].retry_count
      BY <1>0, <1>2, WriteShown
    <2>2. task[t].status = "RUNNING" /\ task[t].lease_token = fence[t]
      BY <1>0, <1>2 DEF LifecycleInv, RunningIndexed, FencingInv, RunningOwnsFence
    <2>3. Seen(t, fence[t], task[t].retry_count) /\ task[t].retry_count \in Nat
          /\ rec.retry_count \in Nat
      BY <1>0, <1>2, <2>2 DEF Seen, HeldBy, LifecycleInv, VerdictNamed, Record
    <2>4. CASE rpc[r] = "requeue_write"
      <3>1. /\ rec.status = "PENDING"
            /\ rec.retry_count > 0 /\ rec.retry_count <= MaxRetries
        BY <2>4 DEF FencingInv, SnapshotsOwned, RetryCapped, RecoverPc
      <3>2. PICK n \in Nat : rec.retry_count = n + 1
        <4>1. rec.retry_count - 1 \in Nat /\ rec.retry_count = (rec.retry_count - 1) + 1
          BY <2>3, <3>1
        <4>2. QED  BY <4>1
      <3>3. Seen(t, fence[t], n)
        BY <1>0, <2>4, <3>2 DEF Seen
      <3>4. n = task[t].retry_count
        <4>1. fence[t] \in Nat  BY <1>0 DEF TypeOK
        <4>2. QED  BY <1>0, <2>3, <3>2, <3>3, <4>1 DEF RetryKnown
      <3>5. ShownMoves(t, {"RUNNING"}, "PENDING")
        BY <2>1, <2>2, <3>1 DEF ShownMoves
      <3>6. /\ ShownRetry[t] < MaxRetries
            /\ ShownRetry' = [ShownRetry EXCEPT ![t] = ShownRetry[t] + 1]
        BY <2>1, <2>3, <3>1, <3>2, <3>4
      <3>7. QED  BY <1>0, <3>5, <3>6, ShownIsLifecycle
    <2>5. CASE rpc[r] = "lost_write"
      <3>1. rec.status = "FAILED" /\ Seen(t, fence[t], rec.retry_count)
        BY <1>0, <2>5 DEF FencingInv, SnapshotsOwned, Seen
      <3>2. rec.retry_count = task[t].retry_count
        <4>1. fence[t] \in Nat  BY <1>0 DEF TypeOK
        <4>2. QED  BY <1>0, <2>3, <3>1, <4>1 DEF RetryKnown
      <3>3. ShownMoves(t, {"PENDING", "RUNNING"}, "FAILED")
        BY <2>1, <2>2, <3>1 DEF ShownMoves
      <3>4. ShownRetry' = ShownRetry
        BY <2>1, <3>2 DEF ShownRetry
      <3>5. QED  BY <1>0, <3>3, <3>4, ShownIsLifecycle
    <2>6. QED  BY <1>0, <2>4, <2>5
  <1>3. QED  BY <1>1, <1>2

\* A quiet step shows nothing, unless create_task fails to publish a task: that
\* closes it, and it was untouched.
LEMMA QuietLifecycle ==
  ASSUME TypeOK, LifecycleInv, Quiet
  PROVE  Lifecycle!Next \/ (ShownStatus' = ShownStatus /\ ShownRetry' = ShownRetry)
  <1>1. UNCHANGED task
    BY DEF Quiet
  <1>2. CASE \A t \in Task : Raised(t)' <=> Raised(t)
    BY <1>1, <1>2, NothingShown
  <1>3. ASSUME NEW t \in Task, Raised(t)', ~Raised(t)
        PROVE  Lifecycle!Next
    <2>1. api[t] = "enqueue"
      BY <1>3, QuietRaised
    <2>2. \A u \in Task \ {t} : Raised(u)' <=> Raised(u)
      <3>1. api'[t] # api[t]
        BY <1>3 DEF Raised
      <3>2. \A u \in Task \ {t} : api'[u] = api[u]
        BY <3>1 DEF Quiet, ApiMoves
      <3>3. QED  BY <3>2 DEF Raised
    <2>3. task[t].status = "PENDING" /\ task[t].retry_count = 0
      BY <2>1 DEF LifecycleInv, Unpublished, Untouched
    <2>4. \A u \in Task : /\ ShownStatus'[u] = IF u = t THEN "FAILED" ELSE ShownStatus[u]
                          /\ ShownRetry'[u] = ShownRetry[u]
      BY <1>1, <1>3, <2>2, <2>3 DEF ShownStatus, ShownRetry
    <2>5. ShownRetry' = ShownRetry
      <3>1. /\ ShownRetry' = [u \in Task |-> ShownRetry'[u]]
            /\ ShownRetry = [u \in Task |-> ShownRetry[u]]
        BY DEF ShownRetry
      <3>2. QED  BY <2>4, <3>1
    <2>6. ShownStatus' = [ShownStatus EXCEPT ![t] = "FAILED"]
      <3>1. /\ ShownStatus' = [u \in Task |-> ShownStatus'[u]]
            /\ ShownStatus = [u \in Task |-> ShownStatus[u]]
        BY DEF ShownStatus
      <3>2. QED  BY <2>4, <3>1
    <2>7. ShownStatus[t] = "PENDING"
      BY <1>3, <2>3 DEF ShownStatus
    <2>8. ShownMoves(t, {"PENDING", "RUNNING"}, "FAILED")
      BY <2>6, <2>7 DEF ShownMoves
    <2>9. QED  BY <2>5, <2>8, ShownIsLifecycle
  <1>4. QED  BY <1>2, <1>3, QuietRaised

\* Every step of the system is a step of the life cycle or shows nothing.
LEMMA LifecycleStep ==
  ASSUME TypeOK, FencingInv, RetryKnown, RetryCapped, LifecycleInv, [Next]_vars
  PROVE  Lifecycle!Next \/ (ShownStatus' = ShownStatus /\ ShownRetry' = ShownRetry)
  <1> DEFINE Goal == Lifecycle!Next \/ (ShownStatus' = ShownStatus
                                          /\ ShownRetry' = ShownRetry)
  <1>1. CASE UNCHANGED <<task, api>>
    BY <1>1, NothingShown DEF Raised
  <1>2. CASE Tick
    <2>1. UNCHANGED api
      BY <1>2 DEF Tick, apiVars
    <2>2. QED  BY <1>2, <2>1, TickEffect, NothingShown DEF Raised
  <1>3. CASE Quiet
    BY <1>3, QuietLifecycle
  <1>4. ASSUME NEW t \in Task, ApiFailRead(t) \/ ApiFailWrite(t)
        PROVE  Goal
    BY <1>4, ApiFailEffect, NothingShown
  <1>5. ASSUME NEW w \in Worker, NEW t \in Task, Acquire(w, t)
        PROVE  UNCHANGED <<task, api>>
    BY <1>5 DEF Acquire, WorkerFrame, recordVars, apiVars
  <1>6. ASSUME NEW w \in Worker, NEW rec \in Record, ReadsForWrite(w, rec)
        PROVE  UNCHANGED <<task, api>>
    BY <1>6 DEF ReadsForWrite
  <1>7. ASSUME NEW w \in Worker, NEW b \in Beat, BeatsForWrite(w, b)
        PROVE  UNCHANGED <<task, api>>
    BY <1>7 DEF BeatsForWrite
  <1>8. ASSUME NEW r \in Reconciler, NEW s \in Scanned, RecoversForWrite(r, s)
        PROVE  UNCHANGED <<task, api>>
    BY <1>8 DEF RecoversForWrite
  <1>9. ASSUME NEW t \in Task, NEW k \in Nat, NEW rec \in Record, LeasedWrite(t, k, rec)
        PROVE  Goal
    BY <1>9, WriteLifecycle
  <1>10. ASSUME NEW r \in Reconciler, RecoveryWrite(r)  PROVE Goal
    BY <1>10, RecoveryLifecycle
  <1>11. QED
    BY <1>1, <1>2, <1>3, <1>4, <1>5, <1>6, <1>7, <1>8, <1>9, <1>10, StepKinds

\* The execution of tasks implements the life cycle: whatever locks run out,
\* writes come late and processes are lost, GET /tasks/{id} shows a task
\* leaving PENDING by a worker's start, going back only from RUNNING at the
\* price of a retry, and reaching its verdicts in no other way.
THEOREM ImplementsLifecycleHolds == Spec => ImplementsLifecycle
  <1>1. Init => Lifecycle!Init
    BY DEF Init, Lifecycle!Init, Raised, Admitted
  <1>2. TypeOK /\ FencingInv /\ RetryKnown /\ RetryCapped /\ LifecycleInv /\ [Next]_vars
        => [Lifecycle!Next]_(Lifecycle!lifecycleVars)
    BY LifecycleStep DEF Lifecycle!lifecycleVars, ShownStatus, ShownRetry
  <1>3. QED
    BY <1>1, <1>2, TypeCorrect, FencingHolds, RetryInvariant, LifecycleInvariant, PTL
       DEF Spec, ImplementsLifecycle, Lifecycle!Spec
=============================================================================
