----------------------------- MODULE TaskDetail -----------------------------
(***************************************************************************)
(* The task dialog of the console (app.js: openTaskDetail, openTaskResult, *)
(* the modal): every call of openTaskDetail leaves a closure with a body   *)
(* of its own, and all of them share one detailTimer.  Answers arrive in   *)
(* any order.  The server is TaskLifecycle.                                *)
(***************************************************************************)
EXTENDS TaskLifecycle, FiniteSets

CONSTANTS
  MaxDialogs,  \* bound: calls of openTaskDetail
  Slot,        \* bound: requests in flight
  MaxErrors    \* bound: requests that fail

DialogAssumption == Task # {} /\ MaxDialogs \in Nat \ {0} /\ MaxErrors \in Nat

VARIABLES
  opened,       \* calls of openTaskDetail so far; the closures are numbered
  taskOf,       \* the task each closure shows
  body,         \* what each closure's body shows
  detailTimer,  \* the closure whose interval detailTimer names, 0 when null
  intervals,    \* intervals of each closure that are alive in the browser
  top,          \* content of the modal: a closure, 0 or the result view
  shown,        \* the modal is visible
  flight,       \* requests in flight, with their answers
  errors

dialogVars == <<opened, taskOf, body, detailTimer, intervals, top, shown>>
vars == <<lifecycleVars, dialogVars, flight, errors>>

Dialog == 1 .. MaxDialogs
ResultView == MaxDialogs + 1

Idle == [kind |-> "idle", dialog |-> 0, answer |-> "none"]
Request == [kind: {"first", "poll", "result"}, dialog: Dialog,
            answer: {"none", "error"} \cup Status]

\* render's `done`; every other status gets the line that announces refreshing.
Refreshing(d) == body[d] \in Status \ Done

AnyTask == CHOOSE t \in Task : TRUE

-----------------------------------------------------------------------------
(* The server, and the network *)

Server ==
  /\ Next
  /\ UNCHANGED <<dialogVars, flight, errors>>

\* GET /tasks/{id} and GET /tasks/{id}/result: the status at this moment, an
\* error when there is no such record or no result.
Served(r) ==
  LET s == status[taskOf[r.dialog]] IN
  IF s = "PURGED" \/ (r.kind = "result" /\ s # "SUCCEEDED") THEN "error" ELSE s

Answer(f) ==
  /\ flight[f] # Idle /\ flight[f].answer = "none"
  /\ flight' = [flight EXCEPT ![f].answer = Served(flight[f])]
  /\ UNCHANGED <<lifecycleVars, dialogVars, errors>>

\* The request or its answer is lost: fetch rejects.
NetworkError(f) ==
  /\ flight[f] # Idle /\ flight[f].answer # "error"
  /\ errors < MaxErrors
  /\ errors' = errors + 1
  /\ flight' = [flight EXCEPT ![f].answer = "error"]
  /\ UNCHANGED <<lifecycleVars, dialogVars>>

Send(f, kind, d) ==
  /\ flight[f] = Idle
  /\ flight' = [flight EXCEPT ![f] = [kind |-> kind, dialog |-> d, answer |-> "none"]]

Arrived(f, kind) ==
  /\ flight[f].kind = kind /\ flight[f].answer # "none"
  /\ flight' = [flight EXCEPT ![f] = Idle]

-----------------------------------------------------------------------------
(* The dialog *)

\* if (detailTimer) { clearInterval(detailTimer); detailTimer = null; }
StopTimer ==
  /\ detailTimer' = 0
  /\ intervals' = [d \in Dialog |-> IF d = detailTimer THEN intervals[d] - 1
                                                       ELSE intervals[d]]

\* openTaskDetail: from a row of the task list, or from submitReviewAsync
\* whenever its answer comes.
OpenTaskDetail(f, t) ==
  LET d == opened + 1 IN
  /\ opened < MaxDialogs /\ status[t] # "ABSENT"
  /\ opened' = d
  /\ taskOf' = [taskOf EXCEPT ![d] = t]
  /\ body' = [body EXCEPT ![d] = "skeleton"]
  /\ StopTimer
  /\ top' = d /\ shown' = TRUE
  /\ Send(f, "first", d)
  /\ UNCHANGED <<lifecycleVars, errors>>

\* Mutants of Render: a final answer leaves the timer running; no answer
\* starts an interval.
RenderKeepsTimer(d, s) ==
  /\ body' = [body EXCEPT ![d] = s]
  /\ IF s \in Done \/ detailTimer # 0
       THEN UNCHANGED <<detailTimer, intervals>>
       ELSE /\ detailTimer' = d
            /\ intervals' = [intervals EXCEPT ![d] = @ + 1]
  /\ UNCHANGED <<opened, taskOf, top, shown>>
RenderNeverStarts(d, s) ==
  /\ body' = [body EXCEPT ![d] = s]
  /\ IF s \in Done THEN StopTimer ELSE UNCHANGED <<detailTimer, intervals>>
  /\ UNCHANGED <<opened, taskOf, top, shown>>

\* render: a final status stops the timer, whoever owns it; any other starts
\* an interval unless there is one, whoever owns it.
Render(d, s) ==
  /\ body' = [body EXCEPT ![d] = s]
  /\ IF s \in Done THEN StopTimer
     ELSE IF detailTimer # 0 THEN UNCHANGED <<detailTimer, intervals>>
     ELSE /\ detailTimer' = d
          /\ intervals' = [intervals EXCEPT ![d] = @ + 1]
  /\ UNCHANGED <<opened, taskOf, top, shown>>

\* The answer to the request openTaskDetail sent.
FirstAnswer(f) ==
  LET r == flight[f] IN
  /\ Arrived(f, "first")
  /\ \/ r.answer # "error" /\ Render(r.dialog, r.answer)
     \/ /\ r.answer = "error"
        /\ body' = [body EXCEPT ![r.dialog] = "error"]
        /\ UNCHANGED <<opened, taskOf, detailTimer, intervals, top, shown>>
  /\ UNCHANGED <<lifecycleVars, errors>>

\* An interval fires.
Poll(f, d) ==
  /\ intervals[d] > 0
  /\ Send(f, "poll", d)
  /\ UNCHANGED <<lifecycleVars, dialogVars, errors>>

\* Its answer; a failure stops the timer and leaves the body as it is.
PollAnswer(f) ==
  LET r == flight[f] IN
  /\ Arrived(f, "poll")
  /\ \/ r.answer # "error" /\ Render(r.dialog, r.answer)
     \/ /\ r.answer = "error"
        /\ StopTimer
        /\ UNCHANGED <<opened, taskOf, body, top, shown>>
  /\ UNCHANGED <<lifecycleVars, errors>>

\* closeModal only hides the modal.
CloseModal ==
  /\ shown
  /\ shown' = FALSE
  /\ UNCHANGED <<lifecycleVars, opened, taskOf, body, detailTimer, intervals,
                 top, flight, errors>>

\* openTaskResult: the button of a dialog that shows SUCCEEDED.
OpenTaskResult(f) ==
  /\ shown /\ top \in Dialog /\ body[top] = "SUCCEEDED"
  /\ Send(f, "result", top)
  /\ UNCHANGED <<lifecycleVars, dialogVars, errors>>

\* Its answer takes over the modal; a failure is a toast.
ResultAnswer(f) ==
  /\ Arrived(f, "result")
  /\ \/ /\ flight[f].answer # "error"
        /\ top' = ResultView /\ shown' = TRUE
     \/ /\ flight[f].answer = "error"
        /\ UNCHANGED <<top, shown>>
  /\ UNCHANGED <<lifecycleVars, opened, taskOf, body, detailTimer, intervals, errors>>

DetailInit ==
  /\ Init
  /\ opened = 0
  /\ taskOf = [d \in Dialog |-> AnyTask]
  /\ body = [d \in Dialog |-> "skeleton"]
  /\ detailTimer = 0 /\ intervals = [d \in Dialog |-> 0]
  /\ top = 0 /\ shown = FALSE
  /\ flight = [f \in Slot |-> Idle]
  /\ errors = 0

Network == \E f \in Slot : Answer(f) \/ NetworkError(f)

DetailNext ==
  \/ Server
  \/ Network
  \/ \E f \in Slot : \/ \E t \in Task : OpenTaskDetail(f, t)
                     \/ \E d \in Dialog : Poll(f, d)
                     \/ FirstAnswer(f) \/ PollAnswer(f)
                     \/ OpenTaskResult(f) \/ ResultAnswer(f)
  \/ CloseModal

DetailSpec == DetailInit /\ [][DetailNext]_vars

\* The server answers, the browser runs callbacks and intervals.
Fairness ==
  /\ \A f \in Slot : /\ WF_vars(Answer(f))
                     /\ WF_vars(FirstAnswer(f) \/ PollAnswer(f) \/ ResultAnswer(f))
  /\ \A d \in Dialog : SF_vars(\E f \in Slot : Poll(f, d))

FairSpec == DetailSpec /\ Fairness

-----------------------------------------------------------------------------
(* Properties *)

\* Every variable has its type.
TypeOK ==
  /\ status \in [Task -> Status \cup {"ABSENT", "PURGED"}] /\ retry \in [Task -> Nat]
  /\ opened \in 0 .. MaxDialogs /\ taskOf \in [Dialog -> Task]
  /\ body \in [Dialog -> {"skeleton", "error"} \cup Status]
  /\ detailTimer \in 0 .. MaxDialogs /\ intervals \in [Dialog -> Nat]
  /\ top \in 0 .. ResultView /\ shown \in BOOLEAN
  /\ flight \in [Slot -> Request \cup {Idle}]
  /\ errors \in 0 .. MaxErrors

\* No interval leaks: whatever late answers of several closures do with the
\* shared variable, the intervals alive are exactly the one detailTimer names.
NoIntervalLeaks ==
  \A d \in Dialog : intervals[d] = IF detailTimer = d THEN 1 ELSE 0

\* An interval only polls for a body that announces it: no closure is polled
\* after it has rendered a final status or an error.
PollsOnlyRefreshing ==
  detailTimer # 0 => Refreshing(detailTimer)

\* The three together: every interval alive is accounted for.
TimersAccounted == TypeOK /\ NoIntervalLeaks /\ PollsOnlyRefreshing

\* Polling ends: once every task has its final status for good, the last
\* interval is cleared, also when answers overtake each other and a stale one
\* restarts the polling.
PollingStops ==
  <>[](\A t \in Task : status[t] \in Done \cup {"ABSENT", "PURGED"})
    => <>[](\A d \in Dialog : intervals[d] = 0)

\* A dialog that says it refreshes itself does: when its task has a final
\* status for good, it does not show an earlier one for ever.
AutoRefreshLive ==
  \A d \in Dialog :
    <>[](opened >= d /\ status[taskOf[d]] \in Done)
      => ~<>[](top = d /\ shown /\ Refreshing(d))
=============================================================================
