--------------------------- MODULE TaskLifecycle ---------------------------
(***************************************************************************)
(* What the task store promises its readers: the statuses of a task and    *)
(* the order in which GET /tasks/{id} can see them.  TaskLease implements  *)
(* the steps of an execution; Admit, Expire and Purge are those of         *)
(* TaskAdmission.  TaskDetail uses it as its server.                       *)
(***************************************************************************)
EXTENDS Naturals

CONSTANTS
  Task,
  MaxRetries  \* TASK_MAX_RETRIES

VARIABLES
  status,  \* status of each task's record; ABSENT before it is
           \* admitted, PURGED once it has been deleted
  retry    \* retry_count of each task

lifecycleVars == <<status, retry>>

Verdict == {"SUCCEEDED", "FAILED"}
Done    == Verdict \cup {"EXPIRED"}
Status  == {"PENDING", "RUNNING"} \cup Done

Move(t, from, to) ==
  /\ status[t] \in from
  /\ status' = [status EXCEPT ![t] = to]

\* create_task admits the record.
Admit(t) == Move(t, {"ABSENT"}, "PENDING") /\ UNCHANGED retry

\* A worker starts it.
Start(t) == Move(t, {"PENDING"}, "RUNNING") /\ UNCHANGED retry

\* A worker closes it; the API closes one it could not publish, and the
\* reconciler one that is out of retries.
Succeed(t) == Move(t, {"RUNNING"}, "SUCCEEDED") /\ UNCHANGED retry
Fail(t) == Move(t, {"PENDING", "RUNNING"}, "FAILED") /\ UNCHANGED retry

\* The reconciler recovers a lost execution, spending a retry.
Requeue(t) ==
  /\ Move(t, {"RUNNING"}, "PENDING")
  /\ retry[t] < MaxRetries
  /\ retry' = [retry EXCEPT ![t] = @ + 1]

\* A heartbeat or a progress write that read the record before the verdict
\* writes it back (see ResultPersisted in TaskLease).
Reopen(t) == Move(t, Verdict, "RUNNING") /\ UNCHANGED retry

\* Retention: the result expires, then the record goes; its id never returns.
Expire(t) == Move(t, Verdict, "EXPIRED") /\ UNCHANGED retry
Purge(t) == Move(t, {"EXPIRED"}, "PURGED") /\ UNCHANGED retry

TaskStep(t) ==
  \/ Admit(t) \/ Start(t) \/ Succeed(t) \/ Fail(t) \/ Requeue(t) \/ Reopen(t)
  \/ Expire(t) \/ Purge(t)

Init ==
  /\ status \in [Task -> {"ABSENT", "PENDING"}]
  /\ retry = [t \in Task |-> 0]

Next == \E t \in Task : TaskStep(t)

Spec == Init /\ [][Next]_lifecycleVars
=============================================================================
