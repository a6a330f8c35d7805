--------------------------- MODULE Console_proofs ---------------------------
(***************************************************************************)
(* Theorems about the console: the dialog of a task, the preview of a      *)
(* contract, the task list, the element form, the review and draft pages   *)
(* and the connection, each for any number of                              *)
(* requests in flight and any bounds.  Each theorem is about one part; a   *)
(* variable that several parts have stands for the one of that part.       *)
(***************************************************************************)
EXTENDS Integers, Sequences, FiniteSets, FiniteSetTheorems, WellFoundedInduction, TLAPS

CONSTANTS
  Patient, Slot, MaxClicks, MaxErrors,   \* several
  Task, MaxRetries, MaxDialogs,          \* TaskDetail
  Key,                                   \* ElementFields
  Comparing, MaxRuns,                    \* ReviewDesk
  File, Native, MaxOpens,                \* ContractPreview
  Filter, All, Total, Size, MaxViews,    \* TaskList
  Base, DefaultBase, Header, DefaultHeader, HeaderOf, Token, NoToken, Blank,
  MaxCalls, MaxEdits, MaxFails                     \* ConsoleSession

VARIABLES
  retry, opened, taskOf, body, detailTimer, intervals, top,
  files, url, urls, urlOf, kind, content, pane, modal, shown, opens, errors,
  page, status, view, views, select, table, pages,
  cat, catalog, form, over, drawn,
  runs, filesOf, rFiles, eFiles, result, pair, listed, wrap, dialog,
  base, token, baseInput, tokenInput, authHeaderName, line, calls, edits, fails,
  flight, clicks

Detail  == INSTANCE TaskDetail
Preview == INSTANCE ContractPreview
List    == INSTANCE TaskList
Fields  == INSTANCE ElementFields
Desk    == INSTANCE ReviewDesk
Session == INSTANCE ConsoleSession

-----------------------------------------------------------------------------
(* The dialog of a task *)

\* Requests belong to dialogs that were opened, whose tasks were admitted, and
\* so does the timer.
RequestsOpened ==
  /\ \A f \in Slot : flight[f] # Detail!Idle => flight[f].dialog <= opened
  /\ \A d \in Detail!Dialog : d <= opened => status[taskOf[d]] # "ABSENT"
  /\ detailTimer <= opened
  /\ top \in Detail!Dialog => top <= opened

\* While the first answer of a dialog is awaited, nothing else of it is under
\* way: neither an interval nor a poll.
FirstComesFirst ==
  \A f \in Slot : flight[f].kind = "first" =>
    /\ detailTimer # flight[f].dialog
    /\ \A g \in Slot \ {f} : flight[g].kind \in {"first", "poll"} =>
         flight[g].dialog # flight[f].dialog

DetailInv ==
  Detail!TypeOK /\ Detail!NoIntervalLeaks /\ Detail!PollsOnlyRefreshing /\ RequestsOpened
  /\ FirstComesFirst

Timers == Detail!NoIntervalLeaks /\ Detail!PollsOnlyRefreshing

-----------------------------------------------------------------------------
(* What the steps are made of *)

\* The server never takes an admitted task back.
LEMMA ServerKeeps ==
  ASSUME status \in [Task -> Detail!Status \cup {"ABSENT", "PURGED"}],
         retry \in [Task -> Nat], Detail!Next
  PROVE  /\ status' \in [Task -> Detail!Status \cup {"ABSENT", "PURGED"}]
         /\ retry' \in [Task -> Nat]
         /\ \A t \in Task : status[t] # "ABSENT" => status'[t] # "ABSENT"
  <1>1. PICK t \in Task : Detail!TaskStep(t)
    BY DEF Detail!Next
  <1>2. \E s \in (Detail!Status \cup {"PURGED"}) : status' = [status EXCEPT ![t] = s]
    BY <1>1 DEF Detail!TaskStep, Detail!Admit, Detail!Start, Detail!Succeed, Detail!Fail,
                Detail!Requeue, Detail!Reopen, Detail!Expire, Detail!Purge, Detail!Move,
                Detail!Status, Detail!Done, Detail!Verdict
  <1>3. retry' = retry \/ retry' = [retry EXCEPT ![t] = retry[t] + 1]
    BY <1>1 DEF Detail!TaskStep, Detail!Admit, Detail!Start, Detail!Succeed, Detail!Fail,
                Detail!Requeue, Detail!Reopen, Detail!Expire, Detail!Purge
  <1>4. "ABSENT" \notin Detail!Status \cup {"PURGED"}
    BY DEF Detail!Status, Detail!Done, Detail!Verdict
  <1>5. QED  BY <1>2, <1>3, <1>4

\* A request that has no answer yet gets one of a record that exists.
LEMMA ServedTyped ==
  ASSUME Detail!TypeOK, RequestsOpened, NEW f \in Slot, flight[f] # Detail!Idle
  PROVE  Detail!Served(flight[f]) \in {"error"} \cup Detail!Status
  <1>1. flight[f] \in Detail!Request /\ flight[f].dialog \in Detail!Dialog
        /\ flight[f].dialog <= opened
    BY DEF Detail!TypeOK, RequestsOpened, Detail!Request
  <1>2. /\ status[taskOf[flight[f].dialog]] \in Detail!Status \cup {"ABSENT", "PURGED"}
        /\ status[taskOf[flight[f].dialog]] # "ABSENT"
    BY <1>1 DEF Detail!TypeOK, RequestsOpened
  <1>3. QED  BY <1>2 DEF Detail!Served

\* Clearing the timer leaves no interval.
LEMMA StopKeeps ==
  ASSUME Detail!TypeOK, Detail!NoIntervalLeaks, Detail!StopTimer
  PROVE  /\ detailTimer' = 0 /\ intervals' \in [Detail!Dialog -> Nat]
         /\ Timers'
  <1>1. detailTimer' = 0 /\ intervals' \in [Detail!Dialog -> Nat]
    BY DEF Detail!StopTimer, Detail!TypeOK, Detail!NoIntervalLeaks
  <1>2. \A d \in Detail!Dialog : intervals'[d] = 0
    BY DEF Detail!StopTimer, Detail!TypeOK, Detail!NoIntervalLeaks
  <1>3. 0 \notin Detail!Dialog
    BY DEF Detail!Dialog
  <1>4. QED  BY <1>1, <1>2, <1>3 DEF Timers, Detail!NoIntervalLeaks, Detail!PollsOnlyRefreshing

\* render keeps the timers, whichever closure it is called for.
LEMMA RenderKeeps ==
  ASSUME Detail!DialogAssumption, Detail!TypeOK, Timers, NEW d \in Detail!Dialog,
         NEW s \in Detail!Status, Detail!Render(d, s)
  PROVE  /\ Timers' /\ detailTimer' \in {0, detailTimer, d}
         /\ intervals' \in [Detail!Dialog -> Nat]
         /\ body' \in [Detail!Dialog -> {"skeleton", "error"} \cup Detail!Status]
  <1>0. d # 0 /\ body \in [Detail!Dialog -> {"skeleton", "error"} \cup Detail!Status]
    BY DEF Detail!Dialog, Detail!TypeOK
  <1>1. body' = [body EXCEPT ![d] = s]
    BY DEF Detail!Render
  <1>2. body' \in [Detail!Dialog -> {"skeleton", "error"} \cup Detail!Status]
    BY <1>0, <1>1
  <1>3. CASE s \in Detail!Done
    BY <1>2, <1>3, StopKeeps DEF Detail!Render, Timers
  <1>4. CASE s \notin Detail!Done /\ detailTimer # 0
    <2>1. UNCHANGED <<detailTimer, intervals>>
      BY <1>4 DEF Detail!Render
    <2>2. body'[detailTimer] \in Detail!Status \ Detail!Done
      BY <1>0, <1>1, <1>4 DEF Timers, Detail!PollsOnlyRefreshing, Detail!Refreshing,
                              Detail!TypeOK, Detail!Dialog
    <2>3. QED
      BY <1>2, <2>1, <2>2 DEF Timers, Detail!NoIntervalLeaks, Detail!PollsOnlyRefreshing,
                              Detail!Refreshing, Detail!TypeOK
  <1>5. CASE s \notin Detail!Done /\ detailTimer = 0
    <2>1. detailTimer' = d /\ intervals' = [intervals EXCEPT ![d] = intervals[d] + 1]
      BY <1>5 DEF Detail!Render
    <2>2. \A e \in Detail!Dialog : intervals[e] = 0 /\ e # 0
      BY <1>5 DEF Timers, Detail!NoIntervalLeaks, Detail!Dialog
    <2>3. \A e \in Detail!Dialog : intervals'[e] = IF e = d THEN 1 ELSE 0
      BY <2>1, <2>2 DEF Detail!TypeOK
    <2>4. intervals' \in [Detail!Dialog -> Nat]
      BY <2>1, <2>2 DEF Detail!TypeOK
    <2>5. body'[d] = s
      BY <1>0, <1>1
    <2>6. QED
      BY <1>2, <1>5, <2>1, <2>3, <2>4, <2>5
         DEF Timers, Detail!NoIntervalLeaks, Detail!PollsOnlyRefreshing, Detail!Refreshing
  <1>6. QED  BY <1>3, <1>4, <1>5

-----------------------------------------------------------------------------
(* Every step keeps the invariant *)

LEMMA ServerStep ==
  ASSUME DetailInv, Detail!Server
  PROVE  DetailInv'
  <1>1. /\ UNCHANGED <<opened, taskOf, body, detailTimer, intervals, top, shown, flight,
           errors>>
    BY DEF Detail!Server, Detail!dialogVars
  <1>2. /\ status' \in [Task -> Detail!Status \cup {"ABSENT", "PURGED"}]
        /\ retry' \in [Task -> Nat]
        /\ \A t \in Task : status[t] # "ABSENT" => status'[t] # "ABSENT"
    BY ServerKeeps DEF Detail!Server, DetailInv, Detail!TypeOK
  <1>3. Detail!TypeOK'
    BY <1>1, <1>2 DEF DetailInv, Detail!TypeOK
  <1>4. RequestsOpened'
    BY <1>1, <1>2 DEF DetailInv, RequestsOpened, Detail!TypeOK
  <1>5. Detail!NoIntervalLeaks' /\ Detail!PollsOnlyRefreshing' /\ FirstComesFirst'
    BY <1>1 DEF DetailInv, Detail!NoIntervalLeaks, Detail!PollsOnlyRefreshing,
                Detail!Refreshing, FirstComesFirst
  <1>6. QED  BY <1>3, <1>4, <1>5 DEF DetailInv

\* An answer is filled in: kind and dialog of the request stay.
LEMMA NetworkStep ==
  ASSUME Detail!DialogAssumption, DetailInv, NEW f \in Slot,
         Detail!Answer(f) \/ Detail!NetworkError(f)
  PROVE  DetailInv'
  <1> USE DEF DetailInv
  <1>1. UNCHANGED <<Detail!lifecycleVars, Detail!dialogVars>> /\ flight[f] # Detail!Idle
    BY DEF Detail!Answer, Detail!NetworkError
  <1>2. flight[f] \in Detail!Request
    BY <1>1 DEF Detail!TypeOK
  <1>3. PICK a \in ({"error"} \cup Detail!Status) : flight' = [flight EXCEPT ![f].answer = a]
    BY <1>1, ServedTyped DEF Detail!Answer, Detail!NetworkError
  <1>4. /\ flight'[f] \in Detail!Request /\ flight'[f] # Detail!Idle
        /\ flight'[f].kind = flight[f].kind /\ flight'[f].dialog = flight[f].dialog
    <2>1. flight'[f] = [flight[f] EXCEPT !.answer = a]
      BY <1>3 DEF Detail!TypeOK
    <2>2. a \in {"none", "error"} \cup Detail!Status
      OBVIOUS
    <2>3. flight'[f] \in Detail!Request
      BY <1>2, <2>1, <2>2 DEF Detail!Request
    <2>4. flight'[f].kind = flight[f].kind /\ flight'[f].dialog = flight[f].dialog
      BY <1>2, <2>1 DEF Detail!Request
    <2>5. flight[f].kind # "idle"
      BY <1>2 DEF Detail!Request
    <2>6. QED  BY <2>3, <2>4, <2>5 DEF Detail!Idle
  <1>5. \A g \in Slot \ {f} : flight'[g] = flight[g]
    BY <1>3 DEF Detail!TypeOK
  <1>6. errors' \in 0 .. MaxErrors
    BY DEF Detail!Answer, Detail!NetworkError, Detail!TypeOK, Detail!DialogAssumption
  <1>7. Detail!TypeOK'
    <2>1. flight' \in [Slot -> Detail!Request \cup {Detail!Idle}]
      BY <1>3, <1>4, <1>5 DEF Detail!TypeOK
    <2>2. QED  BY <1>1, <1>6, <2>1 DEF Detail!TypeOK, Detail!lifecycleVars, Detail!dialogVars
  <1>8. RequestsOpened'
    BY <1>1, <1>4, <1>5 DEF RequestsOpened, Detail!lifecycleVars, Detail!dialogVars
  <1>9. FirstComesFirst'
    BY <1>1, <1>4, <1>5 DEF FirstComesFirst, Detail!dialogVars
  <1>10. Detail!NoIntervalLeaks' /\ Detail!PollsOnlyRefreshing'
    BY <1>1 DEF Detail!NoIntervalLeaks, Detail!PollsOnlyRefreshing, Detail!Refreshing,
                Detail!dialogVars
  <1>11. QED  BY <1>7, <1>8, <1>9, <1>10

\* A new dialog: nothing of it can be under way.
LEMMA OpenStep ==
  ASSUME Detail!DialogAssumption, DetailInv, NEW f \in Slot, NEW t \in Task,
         Detail!OpenTaskDetail(f, t)
  PROVE  DetailInv'
  <1> USE DEF DetailInv
  <1> DEFINE d == opened + 1
  <1>1. /\ opened < MaxDialogs /\ status[t] # "ABSENT" /\ opened' = d
        /\ taskOf' = [taskOf EXCEPT ![d] = t] /\ body' = [body EXCEPT ![d] = "skeleton"]
        /\ Detail!StopTimer /\ top' = d /\ shown' = TRUE /\ flight[f] = Detail!Idle
        /\ flight' = [flight EXCEPT ![f] = [kind |-> "first", dialog |-> d, answer |-> "none"]]
        /\ UNCHANGED <<status, retry, errors>>
    BY DEF Detail!OpenTaskDetail, Detail!Send, Detail!lifecycleVars
  <1>2. d \in Detail!Dialog /\ d \in 0 .. MaxDialogs /\ opened \in Nat
        /\ d \in 0 .. Detail!ResultView
    BY <1>1 DEF Detail!TypeOK, Detail!Dialog, Detail!ResultView, Detail!DialogAssumption
  <1>3. detailTimer' = 0 /\ intervals' \in [Detail!Dialog -> Nat] /\ Timers'
    BY <1>1, StopKeeps
  <1>4. [kind |-> "first", dialog |-> d, answer |-> "none"] \in Detail!Request
    BY <1>2 DEF Detail!Request
  <1>5. Detail!TypeOK'
    <2>1. /\ taskOf' \in [Detail!Dialog -> Task]
          /\ body' \in [Detail!Dialog -> {"skeleton", "error"} \cup Detail!Status]
          /\ flight' \in [Slot -> Detail!Request \cup {Detail!Idle}]
      BY <1>1, <1>2, <1>4 DEF Detail!TypeOK
    <2>2. detailTimer' \in 0 .. MaxDialogs
      BY <1>2, <1>3 DEF Detail!DialogAssumption
    <2>3. QED  BY <1>1, <1>2, <1>3, <2>1, <2>2 DEF Detail!TypeOK
  <1>6. /\ flight'[f].kind = "first" /\ flight'[f].dialog = d
        /\ \A g \in Slot \ {f} : flight'[g] = flight[g]
    BY <1>1 DEF Detail!TypeOK
  <1>7. RequestsOpened'
    <2>1. \A g \in Slot : flight'[g] # Detail!Idle => flight'[g].dialog <= opened'
      <3>1. \A g \in Slot \ {f} : flight[g] # Detail!Idle =>
              flight[g].dialog \in Nat /\ flight[g].dialog <= opened
        BY DEF RequestsOpened, Detail!TypeOK, Detail!Request, Detail!Dialog
      <3>2. QED  BY <1>1, <1>2, <1>6, <3>1
    <2>2. \A e \in Detail!Dialog : e <= opened' => status'[taskOf'[e]] # "ABSENT"
      BY <1>1, <1>2 DEF RequestsOpened, Detail!TypeOK, Detail!Dialog
    <2>3. detailTimer' <= opened' /\ top' <= opened'
      BY <1>1, <1>2, <1>3
    <2>4. QED  BY <2>1, <2>2, <2>3 DEF RequestsOpened
  <1>8. FirstComesFirst'
    <2>1. \A g \in Slot \ {f} : flight[g].kind \in {"first", "poll"} =>
            flight[g].dialog \in Detail!Dialog /\ flight[g].dialog <= opened
      BY DEF RequestsOpened, Detail!TypeOK, Detail!Request, Detail!Idle
    <2>2. \A g \in Slot \ {f} : flight[g].kind \in {"first", "poll"} => flight[g].dialog # d
      BY <1>2, <2>1 DEF Detail!Dialog
    <2>3. \A g \in Slot : flight'[g].kind = "first" => flight'[g].dialog # 0
      BY <1>2, <1>6, <2>1 DEF Detail!Dialog
    <2>4. QED  BY <1>3, <1>6, <2>2, <2>3 DEF FirstComesFirst
  <1>9. QED  BY <1>3, <1>5, <1>7, <1>8 DEF Timers

\* A poll or the request for the result is sent.
LEMMA SendStep ==
  ASSUME Detail!DialogAssumption, DetailInv, NEW f \in Slot,
         (\E d \in Detail!Dialog : Detail!Poll(f, d)) \/ Detail!OpenTaskResult(f)
  PROVE  DetailInv'
  <1> USE DEF DetailInv
  <1>0. UNCHANGED <<Detail!lifecycleVars, Detail!dialogVars, errors>> /\ flight[f] = Detail!Idle
    BY DEF Detail!Poll, Detail!OpenTaskResult, Detail!Send
  <1>1. PICK d \in Detail!Dialog, k \in {"poll", "result"} :
          /\ flight' = [flight EXCEPT ![f] = [kind |-> k, dialog |-> d, answer |-> "none"]]
          /\ d <= opened
          /\ k = "poll" => detailTimer = d
    <2>1. CASE \E d \in Detail!Dialog : Detail!Poll(f, d)
      <3>1. PICK d \in Detail!Dialog : Detail!Poll(f, d)
        BY <2>1
      <3>2. detailTimer = d /\ d <= opened
        BY <3>1 DEF Detail!Poll, Detail!NoIntervalLeaks, RequestsOpened
      <3>3. QED  BY <3>1, <3>2 DEF Detail!Poll, Detail!Send
    <2>2. CASE Detail!OpenTaskResult(f)
      <3>1. top \in Detail!Dialog /\ body[top] = "SUCCEEDED"
        BY <2>2 DEF Detail!OpenTaskResult
      <3>2. top <= opened
        BY <3>1 DEF RequestsOpened
      <3>3. QED  BY <2>2, <3>1, <3>2 DEF Detail!OpenTaskResult, Detail!Send
    <2>3. QED  BY <2>1, <2>2
  <1>2. [kind |-> k, dialog |-> d, answer |-> "none"] \in Detail!Request
    BY DEF Detail!Request
  <1>3. /\ flight'[f].kind = k /\ flight'[f].dialog = d
        /\ \A g \in Slot \ {f} : flight'[g] = flight[g]
    BY <1>1 DEF Detail!TypeOK
  <1>4. Detail!TypeOK'
    <2>1. flight' \in [Slot -> Detail!Request \cup {Detail!Idle}]
      BY <1>1, <1>2 DEF Detail!TypeOK
    <2>2. QED  BY <1>0, <2>1 DEF Detail!TypeOK, Detail!lifecycleVars, Detail!dialogVars
  <1>5. RequestsOpened'
    BY <1>0, <1>1, <1>3 DEF RequestsOpened, Detail!lifecycleVars, Detail!dialogVars
  <1>6. FirstComesFirst'
    BY <1>0, <1>1, <1>3 DEF FirstComesFirst, Detail!dialogVars
  <1>7. Detail!NoIntervalLeaks' /\ Detail!PollsOnlyRefreshing'
    BY <1>0 DEF Detail!NoIntervalLeaks, Detail!PollsOnlyRefreshing, Detail!Refreshing,
                Detail!dialogVars
  <1>8. QED  BY <1>4, <1>5, <1>6, <1>7

\* A request that is no more in flight.
LEMMA LandedStep ==
  ASSUME Detail!DialogAssumption, DetailInv, NEW f \in Slot,
         flight' = [flight EXCEPT ![f] = Detail!Idle],
         UNCHANGED <<Detail!lifecycleVars, opened, taskOf, errors>>,
         body' \in [Detail!Dialog -> {"skeleton", "error"} \cup Detail!Status],
         intervals' \in [Detail!Dialog -> Nat],
         detailTimer' \in 0 .. MaxDialogs, detailTimer' <= opened,
         top' = top \/ top' = Detail!ResultView, shown' \in BOOLEAN,
         Timers',
         \A g \in Slot \ {f} : flight[g].kind = "first" => detailTimer' # flight[g].dialog
  PROVE  DetailInv'
  <1> USE DEF DetailInv
  <1>1. flight'[f] = Detail!Idle /\ \A g \in Slot \ {f} : flight'[g] = flight[g]
    BY DEF Detail!TypeOK
  <1>2. flight' \in [Slot -> Detail!Request \cup {Detail!Idle}]
    BY DEF Detail!TypeOK
  <1>3. top' \in 0 .. Detail!ResultView /\ (top' \in Detail!Dialog => top' = top)
    <2>1. Detail!ResultView \notin Detail!Dialog
          /\ (top' = Detail!ResultView => top' \in 0 .. Detail!ResultView)
      BY DEF Detail!ResultView, Detail!Dialog, Detail!DialogAssumption
    <2>2. QED  BY <2>1 DEF Detail!TypeOK
  <1>4. Detail!TypeOK'
    BY <1>2, <1>3 DEF Detail!TypeOK, Detail!lifecycleVars
  <1>5. RequestsOpened'
    BY <1>1, <1>3 DEF RequestsOpened, Detail!lifecycleVars
  <1>6. FirstComesFirst'
    BY <1>1 DEF FirstComesFirst, Detail!Idle
  <1>7. QED  BY <1>4, <1>5, <1>6 DEF Timers

\* render for the closure whose request has landed: no other closure is at its
\* first answer.
LEMMA RenderStep ==
  ASSUME Detail!DialogAssumption, DetailInv, NEW f \in Slot,
         flight[f].kind \in {"first", "poll"}, flight[f].answer \notin {"none", "error"},
         Detail!Render(flight[f].dialog, flight[f].answer),
         flight' = [flight EXCEPT ![f] = Detail!Idle], UNCHANGED <<Detail!lifecycleVars,
         errors>>
  PROVE  DetailInv'
  <1> USE DEF DetailInv
  <1>1. flight[f] \in Detail!Request /\ flight[f] # Detail!Idle
    BY DEF Detail!TypeOK, Detail!Idle
  <1>2. /\ flight[f].dialog \in Detail!Dialog /\ flight[f].dialog <= opened
        /\ flight[f].answer \in Detail!Status
    BY <1>1 DEF Detail!Request, RequestsOpened
  <1>3. /\ Timers' /\ detailTimer' \in {0, detailTimer, flight[f].dialog}
        /\ intervals' \in [Detail!Dialog -> Nat]
        /\ body' \in [Detail!Dialog -> {"skeleton", "error"} \cup Detail!Status]
    BY <1>2, RenderKeeps DEF Timers
  <1>4. UNCHANGED <<opened, taskOf, top, shown>>
    BY DEF Detail!Render
  <1>5. detailTimer' \in 0 .. MaxDialogs /\ detailTimer' <= opened
    BY <1>2, <1>3 DEF Detail!TypeOK, RequestsOpened, Detail!Dialog, Detail!DialogAssumption
  <1>6. ASSUME NEW g \in Slot \ {f}, flight[g].kind = "first"
        PROVE  detailTimer' # flight[g].dialog
    <2>1. flight[g].dialog # flight[f].dialog /\ flight[g].dialog # detailTimer
      BY <1>6 DEF FirstComesFirst
    <2>2. flight[g].dialog # 0
      BY <1>6 DEF Detail!TypeOK, Detail!Request, Detail!Idle, Detail!Dialog
    <2>3. QED  BY <1>3, <2>1, <2>2
  <1>7. shown \in BOOLEAN
    BY DEF Detail!TypeOK
  <1>8. QED  BY <1>3, <1>4, <1>5, <1>6, <1>7, LandedStep

LEMMA AnswerStep ==
  ASSUME Detail!DialogAssumption, DetailInv, NEW f \in Slot,
         Detail!FirstAnswer(f) \/ Detail!PollAnswer(f) \/ Detail!ResultAnswer(f)
  PROVE  DetailInv'
  <1> USE DEF DetailInv
  <1>0. /\ flight' = [flight EXCEPT ![f] = Detail!Idle] /\ UNCHANGED <<Detail!lifecycleVars,
           errors>>
        /\ flight[f].answer # "none"
    BY DEF Detail!FirstAnswer, Detail!PollAnswer, Detail!ResultAnswer, Detail!Arrived
  <1>1. /\ body \in [Detail!Dialog -> {"skeleton", "error"} \cup Detail!Status]
        /\ intervals \in [Detail!Dialog -> Nat] /\ shown \in BOOLEAN
        /\ detailTimer \in 0 .. MaxDialogs /\ detailTimer <= opened
        /\ opened \in 0 .. MaxDialogs
        /\ \A g \in Slot : flight[g].kind = "first" =>
             detailTimer # flight[g].dialog /\ flight[g].dialog \in Detail!Dialog
    BY DEF Detail!TypeOK, RequestsOpened, FirstComesFirst, Detail!Request, Detail!Idle
  <1>2. CASE flight[f].answer # "error" /\ (Detail!FirstAnswer(f) \/ Detail!PollAnswer(f))
    BY <1>0, <1>2, RenderStep DEF Detail!FirstAnswer, Detail!PollAnswer, Detail!Arrived
  <1>3. CASE flight[f].answer = "error" /\ Detail!FirstAnswer(f)
    <2>1. /\ flight[f].kind = "first" /\ body' = [body EXCEPT ![flight[f].dialog] = "error"]
          /\ UNCHANGED <<opened, taskOf, detailTimer, intervals, top, shown>>
      BY <1>3 DEF Detail!FirstAnswer, Detail!Arrived
    <2>2. body' \in [Detail!Dialog -> {"skeleton", "error"} \cup Detail!Status]
      BY <1>1, <2>1
    <2>3. detailTimer # 0 => body'[detailTimer] = body[detailTimer]
      BY <1>1, <2>1 DEF Detail!Dialog
    <2>4. Timers'
      BY <2>1, <2>3 DEF Timers, Detail!NoIntervalLeaks, Detail!PollsOnlyRefreshing,
                        Detail!Refreshing
    <2>5. QED  BY <1>0, <1>1, <2>1, <2>2, <2>4, LandedStep
  <1>4. CASE flight[f].answer = "error" /\ Detail!PollAnswer(f)
    <2>1. Detail!StopTimer /\ UNCHANGED <<opened, taskOf, body, top, shown>>
      BY <1>4 DEF Detail!PollAnswer
    <2>2. detailTimer' = 0 /\ intervals' \in [Detail!Dialog -> Nat] /\ Timers'
      BY <2>1, StopKeeps
    <2>3. 0 \in 0 .. MaxDialogs /\ 0 <= opened /\ 0 \notin Detail!Dialog
      BY <1>1 DEF Detail!Dialog, Detail!DialogAssumption
    <2>4. QED  BY <1>0, <1>1, <2>1, <2>2, <2>3, LandedStep
  <1>5. CASE Detail!ResultAnswer(f)
    <2>1. /\ UNCHANGED <<opened, taskOf, body, detailTimer, intervals>>
          /\ top' = top \/ top' = Detail!ResultView
          /\ shown' = shown \/ shown' = TRUE
      BY <1>5 DEF Detail!ResultAnswer
    <2>2. Timers' /\ shown' \in BOOLEAN
      BY <1>1, <2>1 DEF Timers, Detail!NoIntervalLeaks, Detail!PollsOnlyRefreshing,
                        Detail!Refreshing
    <2>3. QED  BY <1>0, <1>1, <2>1, <2>2, LandedStep
  <1>6. QED  BY <1>2, <1>3, <1>4, <1>5

-----------------------------------------------------------------------------

\* openTaskDetail and its closures, for any number of them: whatever order the
\* answers come in, and whichever are lost, the intervals alive are exactly the one
\* detailTimer names, and it polls for a body that announces it.
THEOREM TimersAccountedHolds ==
  ASSUME Detail!DialogAssumption
  PROVE  Detail!DetailSpec => []Detail!TimersAccounted
  <1>1. Detail!DetailInit => DetailInv
    <2> SUFFICES ASSUME Detail!DetailInit  PROVE DetailInv
      OBVIOUS
    <2>0. Detail!AnyTask \in Task /\ MaxDialogs \in Nat /\ MaxErrors \in Nat
      BY DEF Detail!AnyTask, Detail!DialogAssumption
    <2>1. /\ status \in [Task -> Detail!Status \cup {"ABSENT",
             "PURGED"}] /\ retry \in [Task -> Nat]
      BY DEF Detail!DetailInit, Detail!Init, Detail!Status
    <2>2. Detail!TypeOK
      <3>1. 0 \in 0 .. MaxDialogs /\ 0 \in 0 .. Detail!ResultView /\ 0 \in 0 .. MaxErrors
        BY <2>0 DEF Detail!ResultView
      <3>2. /\ taskOf \in [Detail!Dialog -> Task] /\ intervals \in [Detail!Dialog -> Nat]
            /\ body \in [Detail!Dialog -> {"skeleton", "error"} \cup Detail!Status]
            /\ flight \in [Slot -> Detail!Request \cup {Detail!Idle}]
        BY <2>0 DEF Detail!DetailInit
      <3>3. QED  BY <2>1, <3>1, <3>2 DEF Detail!DetailInit, Detail!TypeOK
    <2>3. 0 \notin Detail!Dialog /\ \A d \in Detail!Dialog : ~(d <= 0)
      BY DEF Detail!Dialog
    <2>4. Detail!NoIntervalLeaks /\ Detail!PollsOnlyRefreshing /\ RequestsOpened
          /\ FirstComesFirst
      BY <2>3 DEF Detail!DetailInit, Detail!NoIntervalLeaks, Detail!PollsOnlyRefreshing,
                  RequestsOpened,
                  FirstComesFirst, Detail!Idle
    <2>5. QED  BY <2>2, <2>4 DEF DetailInv
  <1>2. DetailInv /\ [Detail!DetailNext]_Detail!vars => DetailInv'
    <2> SUFFICES ASSUME DetailInv, [Detail!DetailNext]_Detail!vars  PROVE DetailInv'
      OBVIOUS
    <2>1. CASE Detail!CloseModal
      BY <2>1 DEF Detail!CloseModal, DetailInv, Detail!TypeOK, Detail!NoIntervalLeaks,
                  Detail!PollsOnlyRefreshing,
                  Detail!Refreshing, RequestsOpened, FirstComesFirst, Detail!lifecycleVars
    <2>2. CASE UNCHANGED Detail!vars
      BY <2>2 DEF Detail!vars, DetailInv, Detail!TypeOK, Detail!NoIntervalLeaks,
                  Detail!PollsOnlyRefreshing,
                  Detail!Refreshing, RequestsOpened, FirstComesFirst, Detail!lifecycleVars,
                  Detail!dialogVars
    <2>3. QED
      BY <2>1, <2>2, ServerStep, NetworkStep, OpenStep, SendStep, AnswerStep
         DEF Detail!DetailNext, Detail!Network
  <1>3. DetailInv => Detail!TimersAccounted
    BY DEF DetailInv, Detail!TimersAccounted
  <1>4. QED  BY <1>1, <1>2, <1>3, PTL DEF Detail!DetailSpec

-----------------------------------------------------------------------------
(* The preview of a contract *)

\* Types, as far as the argument needs them; the object URLs made so far are
\* 1 .. opens.
PreviewTypeOK ==
  /\ files \in [first: SUBSET File, rest: SUBSET File]
  /\ opens \in 0 .. MaxOpens /\ url \in 0 .. opens
  /\ urlOf \in [1 .. MaxOpens -> SUBSET File]
  /\ content \in SUBSET File
  /\ flight \in [Slot -> [of: SUBSET File, answer: {"none", "text", "error"}]]

\* The current object URL is of the first file: setElementFiles drops it.
UrlOfFirst == url # 0 => urlOf[url] = files.first

\* For a user who waits: uploads and their texts are of the first file.
TextsOfFirst ==
  Patient => /\ content \in {{}, files.first}
             /\ \A f \in Slot : flight[f] # Preview!Idle => flight[f].of = files.first

PreviewInv ==
  /\ PreviewTypeOK /\ UrlOfFirst /\ TextsOfFirst
  /\ Preview!UrlsAccounted
  /\ Patient => Preview!PaneShowsNamedFile

LEMMA PreviewStarts ==
  ASSUME Preview!PreviewAssumption, Preview!Init
  PROVE  PreviewInv
<1>1. PreviewTypeOK
  <2>1. opens \in 0 .. MaxOpens /\ url \in 0 .. opens /\ content \in SUBSET File
    <3>1. MaxOpens \in Nat
      BY DEF Preview!PreviewAssumption
    <3>2. opens = 0 /\ url = 0 /\ content = {}
      BY DEF Preview!Init, Preview!Nobody
    <3> QED
      BY <3>1, <3>2
  <2>2. files \in [first: SUBSET File, rest: SUBSET File]
    BY DEF Preview!Init, Preview!Nobody
  <2>3. urlOf \in [1 .. MaxOpens -> SUBSET File]
    BY DEF Preview!Init, Preview!Nobody
  <2>4. flight \in [Slot -> [of: SUBSET File, answer: {"none", "text", "error"}]]
    BY DEF Preview!Init, Preview!Nobody, Preview!Idle
  <2> QED
    BY <2>1, <2>2, <2>3, <2>4 DEF PreviewTypeOK
<1>2. UrlOfFirst /\ TextsOfFirst
  BY DEF Preview!Init, UrlOfFirst, TextsOfFirst, Preview!Nobody
<1>3. Preview!UrlsAccounted /\ Preview!PaneShowsNamedFile
  BY DEF Preview!Init, Preview!UrlsAccounted, Preview!PaneShowsNamedFile
<1> QED
  BY <1>1, <1>2, <1>3 DEF PreviewInv

\* What a pane drawn from the current state shows.
LEMMA PaneDrawn ==
  ASSUME NEW u \in Nat, NEW k, NEW c, u # 0 => urlOf'[u] = files.first
  PROVE  LET p == Preview!PreviewPane(u, k, c) IN
         /\ p.viewer = "url" => p.url = u /\ u # 0 /\ p.of = p.name
         /\ p.viewer = "text" => p.of = c /\ c # {} /\ p.name = files.first
<1> DEFINE first == files.first
           k1 == IF k # "" THEN k
                 ELSE IF first # {} /\ first \subseteq Native THEN "native" ELSE ""
           framed == u # 0 /\ k1 = "native"
           viewer == IF framed THEN "url" ELSE IF c # {} THEN "text"
                     ELSE IF first # {} /\ k1 = "" THEN "opening" ELSE "message"
           p == Preview!PreviewPane(u, k, c)
<1>1. p = [name |-> first, viewer |-> viewer,
           url |-> IF framed THEN u ELSE 0, of |-> IF framed THEN urlOf'[u] ELSE c]
  BY DEF Preview!PreviewPane, Preview!First, Preview!Nobody
<1>2. /\ viewer = "url" => framed
      /\ viewer = "text" => ~framed /\ c # {}
  OBVIOUS
<1>3. framed => u # 0
  OBVIOUS
<1>4. /\ p.viewer = "url" => p.url = u /\ u # 0 /\ p.of = p.name
      /\ p.viewer = "text" => p.of = c /\ c # {} /\ p.name = files.first
  <2> HIDE DEF k1, framed, viewer, p
  <2> QED
    BY <1>1, <1>2, <1>3
<1> QED
  BY <1>4

LEMMA SetElementFilesKeeps ==
  ASSUME Preview!PreviewAssumption, PreviewInv, NEW first \in SUBSET File, NEW rest \in SUBSET File,
         Preview!SetElementFiles(first, rest)
  PROVE  PreviewInv'
<1> USE DEF Preview!SetElementFiles, Preview!RevokeElementPreview, Preview!ResetElementPreview,
            Preview!Nobody
<1>1. PreviewTypeOK'
  <2>1. files' \in [first: SUBSET File, rest: SUBSET File] /\ content' \in SUBSET File
    OBVIOUS
  <2>2. opens' \in 0 .. MaxOpens /\ url' \in 0 .. opens'
    <3>1. opens \in 0 .. MaxOpens /\ opens' = opens /\ url' = 0
      BY DEF PreviewInv, PreviewTypeOK
    <3>2. MaxOpens \in Nat
      BY DEF Preview!PreviewAssumption
    <3> HIDE DEF Preview!SetElementFiles
    <3> QED
      BY <3>1, <3>2
  <2>3. urlOf' \in [1 .. MaxOpens -> SUBSET File]
    BY DEF PreviewInv, PreviewTypeOK
  <2>4. flight' \in [Slot -> [of: SUBSET File, answer: {"none", "text", "error"}]]
    BY DEF PreviewInv, PreviewTypeOK
  <2> QED
    BY <2>1, <2>2, <2>3, <2>4 DEF PreviewTypeOK
<1>2. UrlOfFirst'
  BY DEF UrlOfFirst
<1>3. TextsOfFirst'
  BY DEF TextsOfFirst, Preview!Still
<1>4. Preview!UrlsAccounted' /\ Preview!PaneShowsNamedFile'
  BY DEF PreviewInv, Preview!UrlsAccounted, Preview!PaneShowsNamedFile
<1> QED
  BY <1>1, <1>2, <1>3, <1>4 DEF PreviewInv

LEMMA FilesChange ==
  ASSUME Preview!PreviewAssumption, PreviewInv,
         \/ \E x \in File : Preview!AddFile(x) \/ Preview!RemoveOther(x)
         \/ Preview!RemoveFirst
  PROVE  PreviewInv'
<1>1. files.first \in SUBSET File /\ files.rest \in SUBSET File
  BY DEF PreviewInv, PreviewTypeOK
<1>2. {} \in SUBSET File
  OBVIOUS
<1>3. ASSUME NEW x \in File, Preview!AddFile(x) PROVE PreviewInv'
  <2>1. {x} \in SUBSET File /\ files.rest \cup ({x} \ files.first) \in SUBSET File
    BY <1>1
  <2>2. CASE Preview!SetElementFiles({x}, {})
    BY <1>2, <2>1, <2>2, SetElementFilesKeeps
  <2>3. CASE Preview!SetElementFiles(files.first, files.rest \cup ({x} \ files.first))
    BY <1>1, <2>1, <2>3, SetElementFilesKeeps
  <2> QED
    BY <1>3, <2>2, <2>3 DEF Preview!AddFile, Preview!First
<1>4. ASSUME NEW x \in File, Preview!RemoveOther(x) PROVE PreviewInv'
  <2>1. files.rest \ {x} \in SUBSET File
    BY <1>1
  <2> QED
    BY <1>1, <1>4, <2>1, SetElementFilesKeeps DEF Preview!RemoveOther, Preview!First
<1>5. CASE Preview!RemoveFirst
  <2>1. CASE Preview!SetElementFiles({}, {})
    BY <1>2, <2>1, SetElementFilesKeeps
  <2>2. ASSUME NEW x \in files.rest, Preview!SetElementFiles({x}, files.rest \ {x})
        PROVE  PreviewInv'
    <3>1. {x} \in SUBSET File /\ files.rest \ {x} \in SUBSET File
      BY <1>1
    <3> QED
      BY <2>2, <3>1, SetElementFilesKeeps
  <2> QED
    BY <1>5, <2>1, <2>2 DEF Preview!RemoveFirst, Preview!Nobody
<1> QED
  BY <1>3, <1>4, <1>5

\* An upload is answered or fails.
LEMMA PreviewServeKeeps ==
  ASSUME PreviewInv, NEW f \in Slot, Preview!Serve(f)
  PROVE  PreviewInv'
<1>1. /\ flight' \in [Slot -> [of: SUBSET File, answer: {"none", "text", "error"}]]
      /\ \A g \in Slot : flight'[g].of = flight[g].of
      /\ \A g \in Slot : g # f => flight'[g] = flight[g]
      /\ flight[f] # Preview!Idle
  BY DEF PreviewInv, PreviewTypeOK, Preview!Serve
<1>2. UNCHANGED <<files, url, urls, urlOf, kind, content, pane, modal, shown, opens>>
  BY DEF Preview!Serve, Preview!previewVars
<1>3. PreviewTypeOK' /\ UrlOfFirst'
  BY <1>1, <1>2 DEF PreviewInv, PreviewTypeOK, UrlOfFirst
<1>4. TextsOfFirst'
  BY <1>1, <1>2 DEF PreviewInv, TextsOfFirst, Preview!Idle
<1>5. Preview!UrlsAccounted' /\ (Preview!PaneShowsNamedFile <=> Preview!PaneShowsNamedFile')
  BY <1>2 DEF PreviewInv, Preview!UrlsAccounted, Preview!PaneShowsNamedFile
<1> QED
  BY <1>3, <1>4, <1>5 DEF PreviewInv

\* The dialog goes or gives way to another.
LEMMA DialogGone ==
  ASSUME PreviewInv, Preview!OpenOther \/ Preview!CloseModal
  PROVE  PreviewInv'
<1>1. UNCHANGED <<files, url, urls, urlOf, kind, content, pane, opens, flight>>
  BY DEF Preview!OpenOther, Preview!CloseModal, Preview!previewVars
<1>2. ~(shown' /\ modal' = "extract")
  BY DEF Preview!OpenOther, Preview!CloseModal
<1>3. PreviewTypeOK' /\ UrlOfFirst' /\ TextsOfFirst'
  BY <1>1 DEF PreviewInv, PreviewTypeOK, UrlOfFirst, TextsOfFirst
<1>4. Preview!UrlsAccounted' /\ Preview!PaneShowsNamedFile'
  BY <1>1, <1>2 DEF PreviewInv, Preview!UrlsAccounted, Preview!PaneShowsNamedFile
<1> QED
  BY <1>3, <1>4 DEF PreviewInv

LEMMA LoadExtractPreviewKeeps ==
  ASSUME Preview!PreviewAssumption, PreviewInv, NEW f \in Slot, Preview!LoadExtractPreview(f)
  PROVE  PreviewInv'
<1> DEFINE u == opens + 1
           k == IF files.first \subseteq Native THEN "native" ELSE ""
<1>1. /\ opens < MaxOpens /\ opens' = u /\ url' = u /\ urls' = (urls \ {url}) \cup {u}
      /\ urlOf' = [urlOf EXCEPT ![u] = files.first] /\ content' = {} /\ files' = files
      /\ pane' = Preview!PreviewPane(u, k, {})
  BY DEF Preview!LoadExtractPreview, Preview!SetElementPreview, Preview!ResetElementPreview,
         Preview!RenderExtractPreview, Preview!First, Preview!Nobody
<1>2. opens \in 0 .. MaxOpens /\ url \in 0 .. opens /\ MaxOpens \in Nat
  BY DEF PreviewInv, PreviewTypeOK, Preview!PreviewAssumption
<1>3. u \in 1 .. MaxOpens
  <2>1. opens < MaxOpens
    BY <1>1
  <2> QED
    BY <1>2, <2>1
<1>4. u \in Nat /\ u # 0 /\ u \in 0 .. u /\ u \in 0 .. MaxOpens
  BY <1>2, <1>3
<1> HIDE DEF u, k
<1>5. urlOf'[u] = files.first
  BY <1>1, <1>3 DEF PreviewInv, PreviewTypeOK
<1>6. PreviewTypeOK'
  <2>1. urlOf' \in [1 .. MaxOpens -> SUBSET File]
    <3>1. urlOf \in [1 .. MaxOpens -> SUBSET File] /\ files.first \in SUBSET File
      BY DEF PreviewInv, PreviewTypeOK
    <3> QED
      BY <1>1, <3>1
  <2>2. flight' \in [Slot -> [of: SUBSET File, answer: {"none", "text", "error"}]]
    <3>1. flight \in [Slot -> [of: SUBSET File, answer: {"none", "text", "error"}]]
          /\ files.first \in SUBSET File
      BY DEF PreviewInv, PreviewTypeOK
    <3>2. [of |-> files.first, answer |-> "none"] \in
             [of: SUBSET File, answer: {"none", "text", "error"}]
      BY <3>1
    <3>3. flight' = flight \/ flight' = [flight EXCEPT ![f] = [of |-> files.first, answer |-> "none"]]
      BY DEF Preview!LoadExtractPreview, Preview!First
    <3> QED
      BY <3>1, <3>2, <3>3
  <2>3. opens' \in 0 .. MaxOpens /\ url' \in 0 .. opens' /\ content' \in SUBSET File
    BY <1>1, <1>4
  <2> QED
    BY <1>1, <2>1, <2>2, <2>3 DEF PreviewInv, PreviewTypeOK
<1>7. UrlOfFirst'
  BY <1>1, <1>5 DEF UrlOfFirst
<1>8. TextsOfFirst'
  <2>1. ASSUME Patient, NEW g \in Slot, flight'[g] # Preview!Idle
        PROVE  flight'[g].of = files.first
    <3>1. flight[g] = Preview!Idle
      BY <2>1 DEF Preview!LoadExtractPreview, Preview!Still
    <3>2. flight' = flight \/ flight' = [flight EXCEPT ![f] = [of |-> files.first, answer |-> "none"]]
      BY DEF Preview!LoadExtractPreview, Preview!First
    <3>3. flight \in [Slot -> [of: SUBSET File, answer: {"none", "text", "error"}]]
      BY DEF PreviewInv, PreviewTypeOK
    <3> QED
      BY <2>1, <3>1, <3>2, <3>3
  <2> QED
    BY <1>1, <2>1 DEF TextsOfFirst
<1>9. /\ pane'.viewer = "url" => pane'.url = u /\ pane'.of = pane'.name
      /\ pane'.viewer # "text"
  BY <1>1, <1>4, <1>5, PaneDrawn
<1>10. urls' = {u}
  BY <1>1, <1>4 DEF PreviewInv, Preview!UrlsAccounted
<1>11. Preview!UrlsAccounted' /\ Preview!PaneShowsNamedFile'
  BY <1>1, <1>4, <1>9, <1>10 DEF Preview!UrlsAccounted, Preview!PaneShowsNamedFile
<1> QED
  BY <1>6, <1>7, <1>8, <1>11 DEF PreviewInv

LEMMA PreviewArrivesKeeps ==
  ASSUME PreviewInv, NEW f \in Slot, Preview!PreviewArrives(f)
  PROVE  PreviewInv'
<1> DEFINE k == flight[f].answer
           c == IF k = "error" THEN content ELSE flight[f].of
<1>1. /\ flight[f] # Preview!Idle /\ content' = c
      /\ UNCHANGED <<files, url, urls, urlOf, modal, shown, opens>>
      /\ flight' = [flight EXCEPT ![f] = Preview!Idle]
      /\ modal = "extract" => pane' = Preview!PreviewPane(url, k, c)
      /\ modal # "extract" => pane' = pane
  BY DEF Preview!PreviewArrives, Preview!AnswerKind, Preview!RenderExtractPreview
<1>2. flight \in [Slot -> [of: SUBSET File, answer: {"none", "text", "error"}]]
      /\ content \in SUBSET File
  BY DEF PreviewInv, PreviewTypeOK
<1>3. Patient => c \in {{}, files.first}
  BY <1>1 DEF PreviewInv, TextsOfFirst
<1>4. c \in SUBSET File
  BY <1>2
<1> HIDE DEF k, c
<1>5. PreviewTypeOK'
  <2>1. Preview!Idle \in [of: SUBSET File, answer: {"none", "text", "error"}]
    BY DEF Preview!Idle, Preview!Nobody
  <2>2. flight' \in [Slot -> [of: SUBSET File, answer: {"none", "text", "error"}]]
    BY <1>1, <1>2, <2>1
  <2> QED
    BY <1>1, <1>4, <2>2 DEF PreviewInv, PreviewTypeOK
<1>6. UrlOfFirst' /\ TextsOfFirst'
  BY <1>1, <1>2, <1>3 DEF PreviewInv, UrlOfFirst, TextsOfFirst
<1>7. modal = "extract" => /\ pane'.viewer = "url" => pane'.url = url /\ url # 0 /\ pane'.of = pane'.name
                           /\ pane'.viewer = "text" => pane'.of = c /\ c # {} /\ pane'.name = files.first
  <2>1. url \in Nat /\ (url # 0 => urlOf'[url] = files.first)
    BY <1>1 DEF PreviewInv, PreviewTypeOK, UrlOfFirst
  <2> QED
    BY <1>1, <2>1, PaneDrawn
<1>8. Preview!UrlsAccounted'
  BY <1>1, <1>7 DEF PreviewInv, Preview!UrlsAccounted
<1>9. Patient => Preview!PaneShowsNamedFile'
  BY <1>1, <1>3, <1>7 DEF Preview!PaneShowsNamedFile
<1> QED
  BY <1>5, <1>6, <1>8, <1>9 DEF PreviewInv

\* The inductive invariant of the preview, for any files, uploads and failures.
THEOREM PreviewHolds ==
  ASSUME Preview!PreviewAssumption
  PROVE  Preview!Spec => []PreviewInv
<1>1. Preview!Init => PreviewInv
  BY PreviewStarts
<1>2. PreviewInv /\ [Preview!Next]_(Preview!vars) => PreviewInv'
  <2> SUFFICES ASSUME PreviewInv, [Preview!Next]_(Preview!vars)
               PROVE  PreviewInv'
    OBVIOUS
  <2>1. CASE \/ \E x \in File : Preview!AddFile(x) \/ Preview!RemoveOther(x)
             \/ Preview!RemoveFirst
    BY <2>1, FilesChange
  <2>2. CASE Preview!OpenOther \/ Preview!CloseModal
    BY <2>2, DialogGone
  <2>3. ASSUME NEW f \in Slot, Preview!LoadExtractPreview(f) PROVE PreviewInv'
    BY <2>3, LoadExtractPreviewKeeps
  <2>4. ASSUME NEW f \in Slot, Preview!Answers(f) PROVE PreviewInv'
    BY <2>4, PreviewServeKeeps, PreviewArrivesKeeps DEF Preview!Answers
  <2>5. CASE UNCHANGED Preview!vars
    BY <2>5 DEF Preview!vars, Preview!previewVars, PreviewInv, PreviewTypeOK, UrlOfFirst,
                TextsOfFirst, Preview!UrlsAccounted, Preview!PaneShowsNamedFile
  <2> QED
    BY <2>1, <2>2, <2>3, <2>4, <2>5 DEF Preview!Next
<1> QED
  BY <1>1, <1>2, PTL DEF Preview!Spec

\* Object URLs are neither leaked nor used after they are revoked
\* (revokeElementPreview), however impatient the user is.
THEOREM UrlsAccountedHolds ==
  ASSUME Preview!PreviewAssumption
  PROVE  Preview!Spec => []Preview!UrlsAccounted
<1>1. PreviewInv => Preview!UrlsAccounted
  BY DEF PreviewInv
<1> QED
  BY <1>1, PreviewHolds, PTL

\* For a user who waits for each preview, the contract in the pane is the one
\* named above it (buildContractPreviewPane), for any files in any order.
THEOREM PaneShowsNamedFileHolds ==
  ASSUME Preview!PreviewAssumption, Patient
  PROVE  Preview!Spec => []Preview!PaneShowsNamedFile
<1>1. PreviewInv => Preview!PaneShowsNamedFile
  BY DEF PreviewInv
<1> QED
  BY <1>1, PreviewHolds, PTL

-----------------------------------------------------------------------------
(* The task list *)

Query == [page: Int, status: Filter]

ListTypeOK ==
  /\ status \in Filter
  /\ views \in Nat /\ view \in 0 .. views
  /\ pages \in Nat
  /\ flight \in [Slot -> [view: Nat, query: Query]]

\* A request names a page that was rendered, and asks for what tasksState has
\* as long as that page is shown: a user who waits does not change it meanwhile.
RequestsCurrent ==
  \A f \in Slot : flight[f] # List!Idle =>
    /\ flight[f].view \in 1 .. views
    /\ flight[f].view = view => flight[f].query = List!Current

\* The buttons of a pager that is shown were built for the filter in force.
PagerCurrent == view # 0 /\ pages # 0 => pages = List!Pages(Total[status], Size)

ListInv ==
  /\ ListTypeOK /\ RequestsCurrent /\ PagerCurrent
  /\ List!TableCurrent /\ List!PageExists

\* Math.max(1, Math.ceil(total / size)) is at least 1.
LEMMA PagesPositive ==
  ASSUME NEW total \in Nat, NEW size \in Nat \ {0}
  PROVE  List!Pages(total, size) \in Nat /\ List!Pages(total, size) >= 1
<1> DEFINE d == (total + size - 1) \div size
<1>1. d \in Int
  OBVIOUS
<1> HIDE DEF d
<1>2. List!Pages(total, size) = IF 1 > d THEN 1 ELSE d
  BY DEF List!Pages, List!Larger, d
<1> QED
  BY <1>1, <1>2

LEMMA ListStarts ==
  ASSUME List!FilterAssumption, List!SizeAssumption, List!Init
  PROVE  ListInv
<1>1. ListTypeOK
  <2>1. /\ status = All /\ views = 0 /\ view = 0 /\ pages = 0
        /\ flight = [f \in Slot |-> List!Idle] /\ All \in Filter
    BY DEF List!Init, List!FilterAssumption
  <2>2. List!Idle \in [view: Nat, query: Query]
    BY <2>1 DEF List!Idle, List!Loading, Query
  <2> QED
    BY <2>1, <2>2 DEF ListTypeOK
<1>2. RequestsCurrent /\ PagerCurrent /\ List!TableCurrent
  BY DEF List!Init, RequestsCurrent, PagerCurrent, List!TableCurrent
<1>3. List!PageExists
  <2>1. page = 1 /\ Total[status] \in Nat /\ Size \in Nat \ {0}
    BY DEF List!Init, List!FilterAssumption, List!SizeAssumption
  <2> QED
    BY <2>1, PagesPositive DEF List!PageExists
<1> QED
  BY <1>1, <1>2, <1>3 DEF ListInv

\* loadTasks with the state it leaves behind, on a new page or on one without
\* a request under way.
LEMMA LoadTasksKeeps ==
  ASSUME List!FilterAssumption, ListInv, NEW f \in Slot,
         \/ view' = views + 1 /\ views' = views + 1
         \/ UNCHANGED <<view, views>> /\ view # 0 /\ List!Pending(view) = {},
         status' \in Filter, page' \in Int, List!PageExists',
         List!LoadTasks(f, view', [page |-> page', status |-> status'])
  PROVE  ListInv'
<1> DEFINE q == [page |-> page', status |-> status']
           r == [view |-> view', query |-> q]
<1>1. flight[f] = List!Idle /\ flight' = [flight EXCEPT ![f] = r] /\ pages' = 0
  BY DEF List!LoadTasks, List!Send
<1>2. views \in Nat /\ view \in 0 .. views /\ flight \in [Slot -> [view: Nat, query: Query]]
  BY DEF ListInv, ListTypeOK
<1>3. views' \in Nat /\ view' \in 1 .. views' /\ views' >= views
  BY <1>2
<1>4. q \in Query
  BY DEF Query
<1>5. List!Current' = q
  BY DEF List!Current
<1> HIDE DEF q
<1>6. r \in [view: Nat, query: Query]
  BY <1>3, <1>4
<1>7. flight' \in [Slot -> [view: Nat, query: Query]]
  BY <1>1, <1>2, <1>6
<1>8. ListTypeOK'
  BY <1>1, <1>3, <1>7 DEF ListTypeOK
<1>9. RequestsCurrent'
  <2> SUFFICES ASSUME NEW g \in Slot, flight'[g] # List!Idle
               PROVE  /\ flight'[g].view \in 1 .. views'
                      /\ flight'[g].view = view' => flight'[g].query = q
    BY <1>5 DEF RequestsCurrent, List!Idle, List!Loading
  <2>1. CASE g = f
    BY <1>1, <1>2, <1>3, <2>1
  <2>2. CASE g # f
    <3>1. flight'[g] = flight[g] /\ flight[g] # List!Idle
      BY <1>1, <1>2, <2>2
    <3>2. flight[g].view \in 1 .. views /\ flight[g].view \in Nat
      BY <1>2, <3>1 DEF ListInv, RequestsCurrent
    <3>3. flight[g].view # view'
      <4>1. CASE view' = views + 1
        BY <1>2, <3>2, <4>1
      <4>2. CASE view' = view /\ view # 0 /\ List!Pending(view) = {}
        BY <4>2 DEF List!Pending
      <4> QED
        BY <4>1, <4>2
    <3> QED
      BY <1>2, <1>3, <3>1, <3>2, <3>3
  <2> QED
    BY <2>1, <2>2
<1>10. PagerCurrent'
  BY <1>1 DEF PagerCurrent
<1>11. List!TableCurrent'
  <2>1. flight'[f].view = view' /\ view' # 0
    BY <1>1, <1>2, <1>3
  <2> QED
    BY <2>1 DEF List!TableCurrent, List!Pending
<1> QED
  BY <1>8, <1>9, <1>10, <1>11 DEF ListInv

\* The page number after a page turn, or on the first page of a filter.
LEMMA FirstPageExists ==
  ASSUME List!FilterAssumption, List!SizeAssumption, NEW s \in Filter
  PROVE  1 \in 1 .. List!Pages(Total[s], Size)
<1>1. Total[s] \in Nat /\ Size \in Nat \ {0}
  BY DEF List!FilterAssumption, List!SizeAssumption
<1> QED
  BY <1>1, PagesPositive

LEMMA ListUserKeeps ==
  ASSUME List!FilterAssumption, List!SizeAssumption, Patient, ListInv, NEW f \in Slot,
         \/ List!RenderTasksPage(f) \/ List!Refresh(f)
         \/ \E s \in Filter : List!ChangeFilter(f, s)
         \/ \E by \in {-1, 1} : List!Turn(f, by)
  PROVE  ListInv'
<1>1. page \in 1 .. List!Pages(Total[status], Size) /\ status \in Filter
  BY DEF ListInv, ListTypeOK, List!PageExists
<1>2. List!Pages(Total[status], Size) \in Nat
  <2>1. Total[status] \in Nat /\ Size \in Nat \ {0}
    BY <1>1 DEF List!FilterAssumption, List!SizeAssumption
  <2> QED
    BY <2>1, PagesPositive
<1>3. page \in Int
  BY <1>1, <1>2
<1>4. CASE List!RenderTasksPage(f)
  <2>1. /\ view' = views + 1 /\ views' = views + 1 /\ UNCHANGED <<page, status>>
        /\ List!LoadTasks(f, view', [page |-> page', status |-> status'])
    BY <1>4 DEF List!RenderTasksPage, List!Current
  <2>2. List!PageExists'
    BY <1>1, <2>1 DEF List!PageExists
  <2> QED
    BY <1>1, <1>3, <2>1, <2>2, LoadTasksKeeps
<1>5. CASE List!Refresh(f)
  <2>1. /\ UNCHANGED <<page, status, view, views>> /\ view # 0 /\ List!Pending(view) = {}
        /\ List!LoadTasks(f, view', [page |-> page', status |-> status'])
    BY <1>5 DEF List!Refresh, List!CanUse, List!Current
  <2>2. List!PageExists'
    BY <1>1, <2>1 DEF List!PageExists
  <2> QED
    BY <1>1, <1>3, <2>1, <2>2, LoadTasksKeeps
<1>6. ASSUME NEW s \in Filter, List!ChangeFilter(f, s) PROVE ListInv'
  <2>1. /\ UNCHANGED <<view, views>> /\ view # 0 /\ List!Pending(view) = {}
        /\ page' = 1 /\ status' = s
        /\ List!LoadTasks(f, view', [page |-> page', status |-> status'])
    BY <1>6 DEF List!ChangeFilter, List!CanUse
  <2>2. List!PageExists'
    BY <2>1, FirstPageExists DEF List!PageExists
  <2>3. page' \in Int
    BY <2>1
  <2> QED
    BY <2>1, <2>2, <2>3, LoadTasksKeeps
<1>7. ASSUME NEW by \in {-1, 1}, List!Turn(f, by) PROVE ListInv'
  <2>1. /\ UNCHANGED <<status, view, views>> /\ view # 0 /\ List!Pending(view) = {} /\ pages # 0
        /\ page' = page + by
        /\ List!LoadTasks(f, view', [page |-> page', status |-> status'])
    BY <1>7 DEF List!Turn, List!CanUse
  <2>2. (by = -1 /\ page > 1) \/ (by = 1 /\ page < pages)
    BY <1>7 DEF List!Turn
  <2>3. pages = List!Pages(Total[status], Size)
    BY <2>1 DEF ListInv, PagerCurrent
  <2>4. page' \in 1 .. List!Pages(Total[status], Size)
    <3>1. page' = page + by
      BY <2>1
    <3> QED
      BY <1>1, <1>2, <2>2, <2>3, <3>1
  <2>5. List!PageExists' /\ page' \in Int
    BY <1>2, <2>1, <2>4 DEF List!PageExists
  <2> QED
    BY <1>1, <2>1, <2>5, LoadTasksKeeps
<1> QED
  BY <1>4, <1>5, <1>6, <1>7

LEMMA ListArrivalKeeps ==
  ASSUME List!FilterAssumption, List!SizeAssumption, ListInv, NEW f \in Slot, List!Arrival(f)
  PROVE  ListInv'
<1> DEFINE r == flight[f]
<1>1. /\ r # List!Idle /\ flight' = [flight EXCEPT ![f] = List!Idle]
      /\ UNCHANGED <<page, status, view, views>>
      /\ \/ r.view = view /\ table' = r.query /\ pages' = List!Pages(Total[r.query.status], Size)
         \/ r.view # view /\ UNCHANGED <<table, pages>>
         \/ r.view = view /\ table' = List!Failed /\ pages' = pages
  BY DEF List!Arrival, List!Answered, List!RequestFails
<1>2. /\ views \in Nat /\ view \in 0 .. views /\ flight \in [Slot -> [view: Nat, query: Query]]
      /\ status \in Filter /\ pages \in Nat
  BY DEF ListInv, ListTypeOK
<1>3. /\ r.view \in 1 .. views
      /\ r.view = view => r.query = List!Current
  BY <1>1 DEF ListInv, RequestsCurrent
<1>4. All \in Filter /\ Size \in Nat \ {0} /\ Total \in [Filter -> Nat]
  BY DEF List!FilterAssumption, List!SizeAssumption
<1>5. List!Idle \in [view: Nat, query: Query] /\ List!Idle.view = 0
  BY <1>4 DEF List!Idle, List!Loading, Query
<1>6. flight' \in [Slot -> [view: Nat, query: Query]]
  BY <1>1, <1>2, <1>5
<1>7. \A g \in Slot : flight'[g] = IF g = f THEN List!Idle ELSE flight[g]
  BY <1>1, <1>2
<1>8. r.view = view => r.query.status = status
  BY <1>3 DEF List!Current
<1>9. List!Pages(Total[status], Size) \in Nat
  BY <1>2, <1>4, PagesPositive
<1> HIDE DEF r
<1>10. ListTypeOK'
  BY <1>1, <1>2, <1>6, <1>8, <1>9 DEF ListTypeOK
<1>11. RequestsCurrent'
  BY <1>1, <1>7 DEF ListInv, RequestsCurrent, List!Current, List!Idle, List!Loading
<1>12. PagerCurrent'
  BY <1>1, <1>8 DEF ListInv, PagerCurrent
<1>13. List!TableCurrent'
  <2>1. CASE r.view = view
    BY <1>1, <1>3, <2>1 DEF List!TableCurrent, List!Current
  <2>2. CASE r.view # view
    <3>1. List!Pending(view)' = List!Pending(view)
      BY <1>1, <1>5, <1>7, <2>2 DEF List!Pending, r
    <3> QED
      BY <1>1, <2>2, <3>1 DEF ListInv, List!TableCurrent, List!Current, List!Pending
  <2> QED
    BY <2>1, <2>2
<1>14. List!PageExists'
  BY <1>1 DEF ListInv, List!PageExists
<1> QED
  BY <1>10, <1>11, <1>12, <1>13, <1>14 DEF ListInv

\* The inductive invariant of the task list, for a user who waits.
THEOREM ListHolds ==
  ASSUME List!FilterAssumption, List!SizeAssumption, Patient
  PROVE  List!Spec => []ListInv
<1>1. List!Init => ListInv
  BY ListStarts
<1>2. ListInv /\ [List!Next]_(List!vars) => ListInv'
  <2> SUFFICES ASSUME ListInv, [List!Next]_(List!vars)
               PROVE  ListInv'
    OBVIOUS
  <2>1. ASSUME NEW f \in Slot,
               \/ List!RenderTasksPage(f) \/ List!Refresh(f)
               \/ \E s \in Filter : List!ChangeFilter(f, s)
               \/ \E by \in {-1, 1} : List!Turn(f, by)
        PROVE  ListInv'
    BY <2>1, ListUserKeeps
  <2>2. ASSUME NEW f \in Slot, List!Arrival(f) PROVE ListInv'
    BY <2>2, ListArrivalKeeps
  <2>3. CASE List!Leave
    <3>1. UNCHANGED <<page, status, views, pages, flight>> /\ view' = 0
      BY <2>3 DEF List!Leave
    <3>2. ListTypeOK'
      BY <3>1 DEF ListInv, ListTypeOK
    <3>3. RequestsCurrent'
      BY <3>1 DEF ListInv, RequestsCurrent, ListTypeOK, List!Current, List!Idle, List!Loading
    <3>4. PagerCurrent' /\ List!TableCurrent' /\ List!PageExists'
      BY <3>1 DEF ListInv, PagerCurrent, List!TableCurrent, List!PageExists
    <3> QED
      BY <3>2, <3>3, <3>4 DEF ListInv
  <2>4. CASE UNCHANGED List!vars
    BY <2>4 DEF List!vars, ListInv, ListTypeOK, RequestsCurrent, PagerCurrent, List!TableCurrent,
                List!PageExists, List!Pending, List!Current, List!Idle, List!Loading
  <2> QED
    BY <2>1, <2>2, <2>3, <2>4 DEF List!Next
<1> QED
  BY <1>1, <1>2, PTL DEF List!Spec

\* For a user who waits for each answer, the rows in the table are of the page
\* and the filter in tasksState, and that page exists (loadTasks, the pager and
\* the filters), for any filters, totals and page size.
THEOREM TableCurrentHolds ==
  ASSUME List!FilterAssumption, List!SizeAssumption, Patient
  PROVE  List!Spec => [](List!TableCurrent /\ List!PageExists)
<1>1. ListInv => List!TableCurrent /\ List!PageExists
  BY DEF ListInv
<1> QED
  BY <1>1, ListHolds, PTL

-----------------------------------------------------------------------------
(* The element form and its catalogue *)

Drawing == [is: {"placeholder", "inputs"}, keys: SUBSET Key, values: [Key -> Fields!Value]]

FormTypeOK ==
  /\ form \in SUBSET Key /\ over \in [Key -> Fields!Value] /\ drawn \in Drawing

\* On the draft page the inputs hold the overrides.
FormInv == FormTypeOK /\ (page => drawn.values = over)

LEMMA InputsDrawn ==
  ASSUME NEW c, NEW fm \in SUBSET Key, NEW ov \in [Key -> Fields!Value]
  PROVE  LET d == Fields!Inputs(Fields!ElementFormItems(c, fm), ov) IN
         d \in Drawing /\ d.values = ov
<1>1. Fields!ElementFormItems(c, fm) \in SUBSET Key
  BY DEF Fields!ElementFormItems, Fields!Enabled
<1> QED
  BY <1>1 DEF Fields!Inputs, Drawing

\* A step that draws the form again, from the overrides it leaves, or not at
\* all, and then neither the overrides nor the page change.
LEMMA FormDrawn ==
  ASSUME FormInv, form' \in SUBSET Key, over' \in [Key -> Fields!Value],
         \/ \E c : Fields!RenderElementForm(c, form', over') /\ (page' \/ (page' = page))
         \/ UNCHANGED <<page, over, drawn>>
  PROVE  FormInv'
<1>1. CASE UNCHANGED <<page, over, drawn>>
  BY <1>1 DEF FormInv, FormTypeOK
<1>2. ASSUME NEW c, Fields!RenderElementForm(c, form', over'), page' \/ (page' = page)
      PROVE  FormInv'
  <2>1. CASE page'
    BY <1>2, <2>1, InputsDrawn DEF Fields!RenderElementForm, FormInv, FormTypeOK
  <2>2. CASE ~page'
    BY <1>2, <2>2 DEF Fields!RenderElementForm, FormInv, FormTypeOK
  <2> QED
    BY <2>1, <2>2
<1> QED
  BY <1>1, <1>2

\* The steps that leave the form of the page alone.
FormUntouched ==
  \/ \E f \in Slot :
       \/ Fields!Serve(f) \/ Fields!RequestFails(f) \/ Fields!OpenExtractDialog(f)
       \/ Fields!SchemaFails(f) \/ Fields!EditArrives(f)
       \/ \E k \in Key : \/ Fields!ToggleElementField(f, k) \/ Fields!DeleteElementField(f, k)
                         \/ \E to \in Fields!Field \ {"absent"} : Fields!SaveElementField(f, k, to)
  \/ \E k \in Key : Fields!OpenElementFieldForm({k})
  \/ Fields!OpenElementFieldForm({}) \/ Fields!CloseModal

LEMMA UntouchedForm ==
  ASSUME FormUntouched
  PROVE  UNCHANGED <<form, over, page, drawn>>
<1>1. ASSUME NEW f \in Slot, Fields!Serve(f) \/ Fields!RequestFails(f) \/ Fields!OpenExtractDialog(f)
                             \/ Fields!SchemaFails(f) \/ Fields!EditArrives(f)
      PROVE  UNCHANGED <<form, over, page, drawn>>
  BY <1>1 DEF Fields!Serve, Fields!RequestFails, Fields!OpenExtractDialog, Fields!SchemaFails,
              Fields!EditArrives, Fields!clientVars
<1>2. ASSUME NEW f \in Slot, NEW k \in Key,
             Fields!ToggleElementField(f, k) \/ Fields!DeleteElementField(f, k)
      PROVE  UNCHANGED <<form, over, page, drawn>>
  BY <1>2 DEF Fields!ToggleElementField, Fields!DeleteElementField, Fields!clientVars
<1>3. ASSUME NEW f \in Slot, NEW k \in Key, NEW to \in Fields!Field \ {"absent"},
             Fields!SaveElementField(f, k, to)
      PROVE  UNCHANGED <<form, over, page, drawn>>
  BY <1>3 DEF Fields!SaveElementField, Fields!clientVars
<1>4. ASSUME NEW key, Fields!OpenElementFieldForm(key)
      PROVE  UNCHANGED <<form, over, page, drawn>>
  BY <1>4 DEF Fields!OpenElementFieldForm
<1>5. CASE Fields!CloseModal
  BY <1>5 DEF Fields!CloseModal
<1> QED
  BY <1>1, <1>2, <1>3, <1>4, <1>5 DEF FormUntouched

LEMMA FormKept ==
  ASSUME FormInv, Fields!Next
  PROVE  FormInv'
<1>0. form \in SUBSET Key /\ over \in [Key -> Fields!Value] /\ drawn \in Drawing
  BY DEF FormInv, FormTypeOK
<1>1. CASE FormUntouched
  BY <1>0, <1>1, UntouchedForm, FormDrawn
<1>2. ASSUME NEW f \in Slot, Fields!RenderDraftPage(f) PROVE FormInv'
  <2>1. UNCHANGED <<form, over>> /\ page' /\ Fields!RenderElementForm(catalog, form', over')
    BY <1>2 DEF Fields!RenderDraftPage, Fields!RenderElementForm
  <2> QED
    BY <1>0, <2>1, FormDrawn
<1>3. ASSUME NEW f \in Slot, Fields!EnsureElementCatalog(f) PROVE FormInv'
  <2>1. /\ UNCHANGED <<form, over, page>>
        /\ Fields!RenderElementForm(flight[f].answer, form', over') \/ UNCHANGED drawn
    BY <1>3 DEF Fields!EnsureElementCatalog, Fields!RenderElementForm
  <2> QED
    BY <1>0, <2>1, FormDrawn
<1>4. ASSUME NEW f \in Slot, Fields!SchemaArrives(f) PROVE FormInv'
  <2>1. UNCHANGED <<form, over, page>> /\ Fields!RenderElementForm(flight[f].answer, form', over')
    BY <1>4 DEF Fields!SchemaArrives, Fields!RenderElementForm
  <2> QED
    BY <1>0, <2>1, FormDrawn
<1>5. CASE Fields!ExtractionEnds
  <2>1. /\ form' = Fields!Enabled(cat) /\ over' = Fields!NoValues /\ page'
        /\ Fields!RenderElementForm(catalog, form', over')
    BY <1>5 DEF Fields!ExtractionEnds
  <2>2. form' \in SUBSET Key /\ over' \in [Key -> Fields!Value]
    BY <2>1 DEF Fields!Enabled, Fields!NoValues, Fields!Value
  <2> QED
    BY <2>1, <2>2, FormDrawn
<1>6. CASE Fields!LeavePage
  <2>1. UNCHANGED <<form, over>> /\ ~page' /\ drawn' = Fields!Placeholder
    BY <1>6 DEF Fields!LeavePage
  <2>2. drawn' \in Drawing
    BY <2>1 DEF Fields!Placeholder, Fields!NoValues, Drawing, Fields!Value
  <2> QED
    BY <1>0, <2>1, <2>2 DEF FormInv, FormTypeOK
<1>7. ASSUME NEW k \in Key, NEW v \in Fields!Value, Fields!PickValue(k, v) PROVE FormInv'
  <2>1. /\ UNCHANGED <<form, page>> /\ page
        /\ drawn' = [drawn EXCEPT !.values[k] = v] /\ over' = [over EXCEPT ![k] = v]
    BY <1>7 DEF Fields!PickValue, Fields!CanFill
  <2>2. drawn.values = over
    BY <2>1 DEF FormInv
  <2>3. drawn' \in Drawing /\ over' \in [Key -> Fields!Value] /\ drawn'.values = over'
    BY <1>0, <2>1, <2>2 DEF Drawing
  <2> QED
    BY <1>0, <2>1, <2>3 DEF FormInv, FormTypeOK
<1>8. CASE Fields!FillAllExtracted
  <2> DEFINE fill(w) == [k \in Key |-> IF k \in form THEN "extracted" ELSE w[k]]
  <2>1. /\ UNCHANGED <<form, page>> /\ page
        /\ over' = fill(over) /\ drawn' = [drawn EXCEPT !.values = fill(drawn.values)]
    BY <1>8 DEF Fields!FillAllExtracted
  <2>2. drawn.values = over
    BY <2>1 DEF FormInv
  <2>3. fill(over) \in [Key -> Fields!Value]
    BY <1>0 DEF Fields!Value
  <2> HIDE DEF fill
  <2>4. drawn' \in Drawing /\ drawn'.values = over'
    BY <1>0, <2>1, <2>2, <2>3 DEF Drawing
  <2> QED
    BY <1>0, <2>1, <2>3, <2>4 DEF FormInv, FormTypeOK
<1> QED
  BY <1>1, <1>2, <1>3, <1>4, <1>5, <1>6, <1>7, <1>8 DEF Fields!Next, FormUntouched

\* collectElementValues returns what the user filled in last, through any
\* renderings of the form and any number of late answers.
THEOREM CollectsWhatWasFilledHolds ==
  Fields!Spec => []Fields!CollectsWhatWasFilled
<1>1. Fields!Init => FormInv
  <2> SUFFICES ASSUME Fields!Init PROVE FormInv
    OBVIOUS
  <2>1. form = {} /\ over = Fields!NoValues /\ ~page /\ drawn = Fields!Placeholder
    BY DEF Fields!Init
  <2>2. Fields!NoValues \in [Key -> Fields!Value]
    BY DEF Fields!NoValues, Fields!Value
  <2>3. drawn \in Drawing
    BY <2>1, <2>2 DEF Fields!Placeholder, Drawing
  <2> QED
    BY <2>1, <2>2, <2>3 DEF FormInv, FormTypeOK
<1>2. FormInv /\ [Fields!Next]_(Fields!vars) => FormInv'
  <2>1. FormInv /\ UNCHANGED Fields!vars => FormInv'
    BY DEF Fields!vars, Fields!clientVars, FormInv, FormTypeOK
  <2> QED
    BY <2>1, FormKept
<1>3. FormInv => Fields!CollectsWhatWasFilled
  BY DEF FormInv, Fields!CollectsWhatWasFilled, Fields!CollectElementValues
<1> QED
  BY <1>1, <1>2, <1>3, PTL DEF Fields!Spec

\* Types of the catalogue, of the requests about it and of the dialog.
MaybeCatalogue == Fields!Catalogue \cup {Fields!Unknown}
FieldRequest ==
  [kind: {"idle", "schema", "ensure", "create", "update", "toggle", "delete"}, at: Nat,
   key: SUBSET Key, to: Fields!Field, answer: MaybeCatalogue, ok: {"none", "yes", "no"}]
FieldDialog ==
  [kind: {"none", "extract", "field"}, at: Nat, key: SUBSET Key, table: MaybeCatalogue]

CatalogueTypeOK ==
  /\ cat \in Fields!Catalogue /\ modal \in FieldDialog /\ flight \in [Slot -> FieldRequest]

\* A user who waits has one request under way.
OneRequest ==
  \A f, g \in Slot : flight[f] # Fields!Idle /\ flight[g] # Fields!Idle => f = g

\* A reading that has arrived is the catalogue as it is.
ReadsCurrent ==
  \A f \in Slot : flight[f].kind \in {"schema", "ensure"} /\ flight[f].ok = "yes"
    => flight[f].answer = cat

\* The dialogs lie over the draft page, which has its catalogue by then.
DialogOverPage ==
  /\ shown => page
  /\ \A f \in Slot : flight[f].kind = "ensure" => ~shown

\* An edit the server has made and the client has not heard of.
Unheard(f) == flight[f].kind \notin {"schema", "ensure"} /\ flight[f].ok = "yes"

\* Apart from such an edit, a table that is shown is the catalogue, and so is
\* the form below it while there is no extraction.
TableFollows ==
  /\ shown /\ modal.kind = "extract" /\ modal.table # Fields!Unknown
  /\ \A f \in Slot : ~Unheard(f)
  => modal.table = cat /\ (form = {} => drawn.keys = Fields!Enabled(cat))

DialogInv ==
  CatalogueTypeOK /\ OneRequest /\ ReadsCurrent /\ DialogOverPage /\ TableFollows

LEMMA IdleRequest ==
  /\ Fields!Idle \in FieldRequest
  /\ Fields!Idle.kind = "idle" /\ Fields!Idle.ok = "none"
BY DEF Fields!Idle, FieldRequest, MaybeCatalogue, Fields!Field

\* What apply_element_field_write makes of a catalogue is a catalogue.
LEMMA WrittenCatalogue ==
  ASSUME NEW c \in Fields!Catalogue, NEW e, NEW k, NEW to \in Fields!Field
  PROVE  Fields!Written(c, e, k, to) \subseteq Fields!Catalogue
<1>1. [c EXCEPT ![k] = to] \in Fields!Catalogue /\ [c EXCEPT ![k] = "absent"] \in Fields!Catalogue
  BY DEF Fields!Catalogue, Fields!Field
<1> QED
  BY <1>1 DEF Fields!Written

LEMMA FieldsServeKeeps ==
  ASSUME DialogInv, NEW f \in Slot, Fields!Serve(f)
  PROVE  DialogInv'
<1>1. /\ flight \in [Slot -> FieldRequest] /\ cat \in Fields!Catalogue
      /\ flight[f] # Fields!Idle /\ flight[f].ok = "none"
      /\ UNCHANGED <<form, page, drawn, modal, shown>>
  BY DEF DialogInv, CatalogueTypeOK, Fields!Serve, Fields!clientVars
<1>2. \A g \in Slot : g # f => flight'[g] = flight[g] /\ flight[g] = Fields!Idle
  BY <1>1 DEF DialogInv, OneRequest, Fields!Serve
<1>3. CASE /\ flight[f].kind \in {"schema", "ensure"} /\ UNCHANGED cat
           /\ flight' = [flight EXCEPT ![f].ok = "yes", ![f].answer = cat]
  <2>1. /\ flight' \in [Slot -> FieldRequest]
        /\ flight'[f].kind = flight[f].kind /\ flight'[f].answer = cat
    <3> DEFINE r == [flight[f] EXCEPT !.ok = "yes", !.answer = cat]
    <3>1. cat \in MaybeCatalogue /\ flight[f] \in FieldRequest
      BY <1>1 DEF MaybeCatalogue
    <3>2. r \in FieldRequest /\ r.kind = flight[f].kind /\ r.answer = cat
      BY <3>1 DEF FieldRequest
    <3>3. flight' = [flight EXCEPT ![f] = r]
      BY <1>1, <1>3
    <3> HIDE DEF r
    <3> QED
      BY <1>1, <3>2, <3>3
  <2>2. CatalogueTypeOK' /\ OneRequest' /\ DialogOverPage'
    BY <1>1, <1>2, <1>3, <2>1 DEF DialogInv, CatalogueTypeOK, OneRequest, DialogOverPage, Fields!Idle
  <2>3. ReadsCurrent'
    BY <1>2, <1>3, <2>1, IdleRequest DEF ReadsCurrent
  <2>4. TableFollows'
    BY <1>1, <1>2, <1>3, <2>1 DEF DialogInv, TableFollows, Unheard, Fields!Unknown, Fields!Enabled
  <2> QED
    BY <2>2, <2>3, <2>4 DEF DialogInv
<1>4. CASE flight[f].kind \notin {"schema", "ensure"}
           /\ flight' = [flight EXCEPT ![f].ok = "no"] /\ UNCHANGED cat
  <2>1. /\ flight' \in [Slot -> FieldRequest]
        /\ flight'[f].kind = flight[f].kind /\ flight'[f].ok = "no"
    BY <1>1, <1>4 DEF FieldRequest
  <2>2. CatalogueTypeOK' /\ OneRequest' /\ DialogOverPage'
    BY <1>1, <1>2, <1>4, <2>1 DEF DialogInv, CatalogueTypeOK, OneRequest, DialogOverPage, Fields!Idle
  <2>3. ReadsCurrent'
    BY <1>2, <1>4, <2>1, IdleRequest DEF ReadsCurrent
  <2>4. TableFollows'
    BY <1>1, <1>2, <1>4, <2>1 DEF DialogInv, TableFollows, Unheard, Fields!Unknown, Fields!Enabled
  <2> QED
    BY <2>2, <2>3, <2>4 DEF DialogInv
<1>5. CASE flight[f].kind \notin {"schema", "ensure"}
           /\ flight' = [flight EXCEPT ![f].ok = "yes"] /\ cat' \in Fields!Catalogue
  <2>1. /\ flight' \in [Slot -> FieldRequest]
        /\ flight'[f].kind = flight[f].kind /\ flight'[f].ok = "yes"
    BY <1>1, <1>5 DEF FieldRequest
  <2>2. CatalogueTypeOK' /\ OneRequest' /\ DialogOverPage'
    BY <1>1, <1>2, <1>5, <2>1 DEF DialogInv, CatalogueTypeOK, OneRequest, DialogOverPage, Fields!Idle
  <2>3. ReadsCurrent'
    BY <1>2, <1>5, <2>1, IdleRequest DEF ReadsCurrent
  <2>4. TableFollows'
    BY <1>5, <2>1 DEF TableFollows, Unheard
  <2> QED
    BY <2>2, <2>3, <2>4 DEF DialogInv
<1> DEFINE k == CHOOSE x \in flight[f].key : TRUE
           made == Fields!Written(cat, flight[f].kind, k, flight[f].to)
<1>6. made \subseteq Fields!Catalogue
  <2>1. flight[f].to \in Fields!Field
    BY <1>1 DEF FieldRequest
  <2> QED
    BY <1>1, <2>1, WrittenCatalogue
<1>7. \/ /\ flight[f].kind \in {"schema", "ensure"} /\ UNCHANGED cat
         /\ flight' = [flight EXCEPT ![f].ok = "yes", ![f].answer = cat]
      \/ /\ flight[f].kind \notin {"schema", "ensure"}
         /\ flight' = [flight EXCEPT ![f].ok = "no"] /\ UNCHANGED cat
      \/ /\ flight[f].kind \notin {"schema", "ensure"}
         /\ flight' = [flight EXCEPT ![f].ok = "yes"] /\ cat' \in made
  BY DEF Fields!Serve
<1> QED
  BY <1>3, <1>4, <1>5, <1>6, <1>7

\* A request that fails, a reading that failed, an edit that was refused: the
\* slot is the only thing that changes, and no edit the client has not heard
\* of is forgotten.
LEMMA FieldsRefusedKeeps ==
  ASSUME DialogInv, NEW f \in Slot, ~Unheard(f),
         UNCHANGED <<cat, form, page, drawn, modal>>, shown' => shown,
         NEW r \in FieldRequest, r = Fields!Idle \/ r.ok = "no", flight[f] # Fields!Idle,
         r = Fields!Idle \/ r.kind = flight[f].kind,
         flight' = [flight EXCEPT ![f] = r]
  PROVE  DialogInv'
<1>1. flight \in [Slot -> FieldRequest] /\ flight' \in [Slot -> FieldRequest]
  BY DEF DialogInv, CatalogueTypeOK
<1>2. flight'[f] = r /\ \A g \in Slot : g # f => flight'[g] = flight[g]
  BY <1>1
<1>3. CatalogueTypeOK'
  BY <1>1 DEF DialogInv, CatalogueTypeOK, Fields!Catalogue
<1>4. OneRequest'
  BY <1>2 DEF DialogInv, OneRequest, Fields!Idle
<1>5. ReadsCurrent'
  BY <1>2, IdleRequest DEF DialogInv, ReadsCurrent
<1>6. DialogOverPage'
  BY <1>2, IdleRequest DEF DialogInv, DialogOverPage
<1>7. TableFollows'
  <2>1. ASSUME \A g \in Slot : ~Unheard(g)' PROVE \A g \in Slot : ~Unheard(g)
    BY <1>2, <2>1 DEF Unheard
  <2> QED
    BY <2>1 DEF DialogInv, TableFollows, Fields!Unknown, Fields!Enabled
<1> QED
  BY <1>3, <1>4, <1>5, <1>6, <1>7 DEF DialogInv

\* A request of a user who waits: the only one, not yet answered, and nothing
\* is shown that it could contradict.
LEMMA FieldsSendKeeps ==
  ASSUME DialogInv, NEW f \in Slot, NEW r \in FieldRequest, r.ok = "none",
         flight' = [flight EXCEPT ![f] = r], \A g \in Slot : g # f => flight[g] = Fields!Idle,
         UNCHANGED cat, modal' \in FieldDialog, shown' => page',
         r.kind = "ensure" => ~shown',
         shown' /\ modal'.kind = "extract" => \/ modal'.table = Fields!Unknown
                                              \/ UNCHANGED <<form, drawn, modal, shown>> /\ ~Unheard(f)
  PROVE  DialogInv'
<1>1. flight \in [Slot -> FieldRequest] /\ flight' \in [Slot -> FieldRequest]
  BY DEF DialogInv, CatalogueTypeOK
<1>2. flight'[f] = r /\ \A g \in Slot : g # f => flight'[g] = flight[g] /\ flight[g] = Fields!Idle
  BY <1>1
<1>3. CatalogueTypeOK'
  BY <1>1 DEF DialogInv, CatalogueTypeOK, Fields!Catalogue
<1>4. OneRequest'
  BY <1>2 DEF OneRequest, Fields!Idle
<1>5. ReadsCurrent'
  BY <1>2, IdleRequest DEF ReadsCurrent
<1>6. DialogOverPage'
  BY <1>2, IdleRequest DEF DialogOverPage
<1>7. TableFollows'
  <2>1. ~Unheard(f) => \A g \in Slot : ~Unheard(g)
    BY <1>2, IdleRequest DEF Unheard
  <2> QED
    BY <2>1 DEF DialogInv, TableFollows, Fields!Unknown, Fields!Enabled
<1> QED
  BY <1>3, <1>4, <1>5, <1>6, <1>7 DEF DialogInv

\* A step without a request that leaves no dialog with a table.
LEMMA FieldsHiddenKeeps ==
  ASSUME DialogInv, UNCHANGED <<cat, flight>>, modal' \in FieldDialog, shown' => shown,
         shown => page', ~(shown' /\ modal'.kind = "extract")
  PROVE  DialogInv'
BY DEF DialogInv, CatalogueTypeOK, OneRequest, ReadsCurrent, DialogOverPage, TableFollows,
       Fields!Catalogue, Fields!Idle

LEMMA SchemaArrivesKeeps ==
  ASSUME DialogInv, FormInv, NEW f \in Slot, Fields!SchemaArrives(f)
  PROVE  DialogInv'
<1>1. /\ flight \in [Slot -> FieldRequest] /\ modal \in FieldDialog /\ flight[f] \in FieldRequest
      /\ cat \in MaybeCatalogue
  BY DEF DialogInv, CatalogueTypeOK, MaybeCatalogue
<1>2. /\ flight[f].kind = "schema" /\ flight[f].answer = cat
      /\ UNCHANGED <<cat, form, page, shown>>
      /\ flight' = [flight EXCEPT ![f] = Fields!Idle]
  BY DEF DialogInv, ReadsCurrent, Fields!SchemaArrives, Fields!Done
<1>3. modal' = [modal EXCEPT !.table = cat] \/ modal' = modal
  BY <1>2 DEF Fields!SchemaArrives
<1>4. modal' \in FieldDialog
  BY <1>1, <1>3 DEF FieldDialog
<1>5. \A g \in Slot : flight'[g] = Fields!Idle
  BY <1>1, <1>2, IdleRequest DEF DialogInv, OneRequest
<1>6. CatalogueTypeOK' /\ OneRequest' /\ ReadsCurrent' /\ DialogOverPage'
  <2>1. flight' \in [Slot -> FieldRequest]
    BY <1>1, <1>2, IdleRequest
  <2>2. CatalogueTypeOK'
    BY <1>2, <1>4, <2>1 DEF DialogInv, CatalogueTypeOK, Fields!Catalogue
  <2>3. OneRequest' /\ ReadsCurrent'
    BY <1>5, IdleRequest DEF OneRequest, ReadsCurrent, Fields!Idle
  <2>4. DialogOverPage'
    BY <1>2, <1>5, IdleRequest DEF DialogInv, DialogOverPage
  <2> QED
    BY <2>2, <2>3, <2>4
<1>7. TableFollows'
  <2> SUFFICES ASSUME shown, modal'.kind = "extract", modal'.table # Fields!Unknown
               PROVE  modal'.table = cat /\ (form = {} => drawn'.keys = Fields!Enabled(cat))
    BY <1>2 DEF TableFollows, Fields!Unknown, Fields!Enabled
  <2>1. modal'.table = cat
    <3>1. CASE modal' = [modal EXCEPT !.table = cat]
      BY <1>1, <3>1 DEF FieldDialog
    <3>2. CASE modal' = modal
      <4>1. \A g \in Slot : ~Unheard(g)
        BY <1>2, IdleRequest DEF Unheard, DialogInv, OneRequest
      <4> QED
        BY <3>2, <4>1 DEF DialogInv, TableFollows
    <3> QED
      BY <1>3, <3>1, <3>2
  <2>2. drawn' = Fields!Inputs(Fields!ElementFormItems(cat, form), over)
    BY <1>2 DEF Fields!SchemaArrives, Fields!RenderElementForm, DialogInv, DialogOverPage
  <2>3. form = {} => drawn'.keys = Fields!Enabled(cat)
    BY <2>2 DEF Fields!Inputs, Fields!ElementFormItems
  <2> QED
    BY <2>1, <2>3
<1> QED
  BY <1>6, <1>7 DEF DialogInv

\* Something a user who waits does: no request is under way.
LEMMA FieldsWaited ==
  ASSUME Patient, Fields!Click
  PROVE  \A f \in Slot : flight[f] = Fields!Idle
BY DEF Fields!Click

LEMMA FieldsAnswerKeeps ==
  ASSUME DialogInv, FormInv, NEW f \in Slot,
         \/ Fields!RequestFails(f) \/ Fields!EnsureElementCatalog(f) \/ Fields!SchemaFails(f)
         \/ Fields!EditArrives(f)
  PROVE  DialogInv'
<1>1. flight \in [Slot -> FieldRequest] /\ flight[f] \in FieldRequest /\ modal \in FieldDialog
  BY DEF DialogInv, CatalogueTypeOK
<1>2. flight[f] # Fields!Idle
  BY IdleRequest DEF Fields!RequestFails, Fields!EnsureElementCatalog, Fields!SchemaFails,
                     Fields!EditArrives
<1>3. \A g \in Slot : g # f => flight[g] = Fields!Idle
  BY <1>2 DEF DialogInv, OneRequest
<1>4. CASE Fields!RequestFails(f)
  <2> DEFINE r == [flight[f] EXCEPT !.ok = "no"]
  <2>1. r \in FieldRequest /\ r.kind = flight[f].kind /\ r.ok = "no"
    BY <1>1 DEF FieldRequest
  <2>2. flight' = [flight EXCEPT ![f] = r] /\ UNCHANGED <<cat, form, page, drawn, modal, shown>>
    BY <1>1, <1>4 DEF Fields!RequestFails, Fields!clientVars
  <2>3. ~Unheard(f)
    BY <1>4 DEF Fields!RequestFails, Unheard
  <2> HIDE DEF r
  <2> QED
    BY <1>2, <2>1, <2>2, <2>3, FieldsRefusedKeeps
<1>5. CASE Fields!EnsureElementCatalog(f)
  <2>1. /\ flight' = [flight EXCEPT ![f] = Fields!Idle] /\ UNCHANGED <<cat, modal, shown, page>>
        /\ flight[f].kind = "ensure"
    BY <1>5 DEF Fields!EnsureElementCatalog, Fields!Done
  <2>2. ~shown
    BY <2>1 DEF DialogInv, DialogOverPage
  <2> QED
    BY <1>1, <1>3, <2>1, <2>2, IdleRequest, FieldsSendKeeps
<1>6. CASE Fields!SchemaFails(f)
  <2>1. /\ flight' = [flight EXCEPT ![f] = Fields!Idle] /\ ~Unheard(f)
        /\ UNCHANGED <<cat, form, page, drawn, modal, shown>>
    BY <1>6 DEF Fields!SchemaFails, Fields!Done, Fields!clientVars, Unheard
  <2> QED
    BY <1>2, <2>1, IdleRequest, FieldsRefusedKeeps
<1>7. CASE Fields!EditArrives(f) /\ flight[f].ok # "yes"
  <2>1. /\ flight' = [flight EXCEPT ![f] = Fields!Idle] /\ ~Unheard(f)
        /\ UNCHANGED <<cat, form, page, drawn, modal>> /\ (shown' => shown)
    BY <1>7 DEF Fields!EditArrives, Fields!Done, Unheard
  <2> QED
    BY <1>2, <2>1, IdleRequest, FieldsRefusedKeeps
<1>8. CASE Fields!EditArrives(f) /\ flight[f].ok = "yes"
  <2>1. UNCHANGED <<cat, form, page, drawn>> /\ (shown' => shown) /\ Fields!LoadElementSchema(f, modal)
    BY <1>8 DEF Fields!EditArrives
  <2>2. shown' => page'
    BY <2>1 DEF DialogInv, DialogOverPage
  <2>3. CASE modal.kind # "extract"
    <3>1. flight' = [flight EXCEPT ![f] = Fields!Idle] /\ modal' = modal
      BY <2>1, <2>3 DEF Fields!LoadElementSchema, Fields!Done
    <3> QED
      BY <1>1, <1>3, <2>1, <2>2, <2>3, <3>1, IdleRequest, FieldsSendKeeps
  <2>4. CASE modal.kind = "extract"
    <3> DEFINE r == [Fields!Idle EXCEPT !.kind = "schema", !.at = modal.at]
    <3>1. flight' = [flight EXCEPT ![f] = r] /\ modal' = [modal EXCEPT !.table = Fields!Unknown]
      BY <2>1, <2>4 DEF Fields!LoadElementSchema
    <3>2. r \in FieldRequest /\ r.kind = "schema" /\ r.ok = "none"
      BY <1>1, IdleRequest DEF FieldRequest, FieldDialog
    <3>3. modal' \in FieldDialog /\ modal'.table = Fields!Unknown
      BY <1>1, <3>1 DEF FieldDialog, MaybeCatalogue
    <3> HIDE DEF r
    <3> QED
      BY <1>3, <2>1, <2>2, <3>1, <3>2, <3>3, FieldsSendKeeps
  <2> QED
    BY <2>3, <2>4
<1> QED
  BY <1>4, <1>5, <1>6, <1>7, <1>8

LEMMA FieldsUserKeeps ==
  ASSUME Patient, DialogInv, FormInv, NEW f \in Slot,
         \/ Fields!RenderDraftPage(f) \/ Fields!OpenExtractDialog(f)
         \/ \E k \in Key : \/ Fields!ToggleElementField(f, k) \/ Fields!DeleteElementField(f, k)
                           \/ \E to \in Fields!Field \ {"absent"} : Fields!SaveElementField(f, k, to)
  PROVE  DialogInv'
<1>1. flight \in [Slot -> FieldRequest] /\ modal \in FieldDialog
  BY DEF DialogInv, CatalogueTypeOK
<1>2. \A g \in Slot : flight[g] = Fields!Idle
  BY FieldsWaited DEF Fields!RenderDraftPage, Fields!OpenExtractDialog, Fields!ToggleElementField,
                      Fields!DeleteElementField, Fields!SaveElementField, Fields!HasRow
<1>3. ~Unheard(f)
  BY <1>2, IdleRequest DEF Unheard
<1>4. CASE Fields!RenderDraftPage(f)
  <2>1. UNCHANGED <<cat, modal, shown>> /\ ~shown
    BY <1>4 DEF Fields!RenderDraftPage
  <2>2. \/ flight' = [flight EXCEPT ![f] = Fields!Idle]
        \/ flight' = [flight EXCEPT ![f] = [Fields!Idle EXCEPT !.kind = "ensure", !.at = 0,
                                                               !.key = {}, !.to = "absent"]]
    BY <1>1, <1>2, <1>4 DEF Fields!RenderDraftPage, Fields!Send
  <2>3. CASE flight' = [flight EXCEPT ![f] = Fields!Idle]
    BY <1>1, <1>2, <2>1, <2>3, IdleRequest, FieldsSendKeeps
  <2>4. CASE flight' # [flight EXCEPT ![f] = Fields!Idle]
    <3> DEFINE r == [Fields!Idle EXCEPT !.kind = "ensure", !.at = 0, !.key = {}, !.to = "absent"]
    <3>1. r \in FieldRequest /\ r.ok = "none"
      BY IdleRequest DEF FieldRequest, Fields!Field
    <3>2. flight' = [flight EXCEPT ![f] = r]
      BY <2>2, <2>4
    <3> HIDE DEF r
    <3> QED
      BY <1>1, <1>2, <2>1, <3>1, <3>2, FieldsSendKeeps
  <2> QED
    BY <2>3, <2>4
<1>5. CASE Fields!OpenExtractDialog(f)
  <2> DEFINE m == [kind |-> "extract", at |-> modal.at + 1, key |-> {}, table |-> Fields!Unknown]
             r == [Fields!Idle EXCEPT !.kind = "schema", !.at = m.at]
  <2>1. m \in FieldDialog /\ m.kind = "extract" /\ m.table = Fields!Unknown /\ m.at \in Nat
    BY <1>1 DEF FieldDialog, MaybeCatalogue
  <2>2. /\ flight' = [flight EXCEPT ![f] = r] /\ modal' = [m EXCEPT !.table = Fields!Unknown]
        /\ UNCHANGED <<cat, page>> /\ page
    BY <1>5 DEF Fields!OpenExtractDialog, Fields!LoadElementSchema
  <2> HIDE DEF m
  <2>3. r \in FieldRequest /\ r.kind = "schema" /\ r.ok = "none"
    BY <2>1, IdleRequest DEF FieldRequest
  <2>4. modal' \in FieldDialog /\ modal'.table = Fields!Unknown
    BY <2>1, <2>2 DEF FieldDialog, MaybeCatalogue
  <2> HIDE DEF r
  <2> QED
    BY <1>2, <2>2, <2>3, <2>4, FieldsSendKeeps
<1>6. ASSUME NEW e \in {"create", "update", "toggle", "delete"}, NEW k \in Key, NEW to \in Fields!Field,
             Fields!Send(f, e, modal.at, {k}, to), UNCHANGED <<cat, Fields!clientVars>>
      PROVE  DialogInv'
  <2> DEFINE r == [Fields!Idle EXCEPT !.kind = e, !.at = modal.at, !.key = {k}, !.to = to]
  <2>1. r \in FieldRequest /\ r.kind = e /\ r.ok = "none"
    BY <1>1, IdleRequest DEF FieldRequest, FieldDialog
  <2>2. flight' = [flight EXCEPT ![f] = r] /\ UNCHANGED <<cat, form, page, drawn, modal, shown>>
    BY <1>6 DEF Fields!Send, Fields!clientVars
  <2>3. shown' => page'
    BY <2>2 DEF DialogInv, DialogOverPage
  <2> HIDE DEF r
  <2> QED
    BY <1>1, <1>2, <1>3, <2>1, <2>2, <2>3, FieldsSendKeeps
<1>7. ASSUME NEW k \in Key, Fields!ToggleElementField(f, k) \/ Fields!DeleteElementField(f, k)
      PROVE  DialogInv'
  BY <1>6, <1>7 DEF Fields!ToggleElementField, Fields!DeleteElementField, Fields!Field
<1>8. ASSUME NEW k \in Key, NEW to \in Fields!Field \ {"absent"}, Fields!SaveElementField(f, k, to)
      PROVE  DialogInv'
  BY <1>6, <1>8 DEF Fields!SaveElementField
<1> QED
  BY <1>4, <1>5, <1>7, <1>8

\* The steps of the user without a request.
FieldsLocal ==
  \/ \E k \in Key : Fields!OpenElementFieldForm({k}) \/ \E v \in Fields!Value : Fields!PickValue(k, v)
  \/ Fields!OpenElementFieldForm({})
  \/ Fields!LeavePage \/ Fields!FillAllExtracted \/ Fields!ExtractionEnds \/ Fields!CloseModal

LEMMA FieldsLocalKeeps ==
  ASSUME DialogInv, FieldsLocal
  PROVE  DialogInv'
<1>1. modal \in FieldDialog /\ (shown => page)
  BY DEF DialogInv, CatalogueTypeOK, DialogOverPage
<1>2. ASSUME NEW key \in SUBSET Key, Fields!OpenElementFieldForm(key) PROVE DialogInv'
  <2>1. modal' \in FieldDialog /\ modal'.kind = "field"
    BY <1>1, <1>2 DEF Fields!OpenElementFieldForm, FieldDialog, MaybeCatalogue
  <2>2. UNCHANGED <<cat, flight, shown, page>>
    BY <1>2 DEF Fields!OpenElementFieldForm
  <2> QED
    BY <1>1, <2>1, <2>2, FieldsHiddenKeeps
<1>3. ASSUME NEW k \in Key, NEW v \in Fields!Value, Fields!PickValue(k, v) PROVE DialogInv'
  BY <1>1, <1>3, FieldsHiddenKeeps DEF Fields!PickValue, Fields!CanFill
<1>4. CASE Fields!LeavePage
  BY <1>1, <1>4, FieldsHiddenKeeps DEF Fields!LeavePage
<1>5. CASE Fields!FillAllExtracted
  BY <1>1, <1>5, FieldsHiddenKeeps DEF Fields!FillAllExtracted
<1>6. CASE Fields!ExtractionEnds
  BY <1>1, <1>6, FieldsHiddenKeeps DEF Fields!ExtractionEnds
<1>7. CASE Fields!CloseModal
  BY <1>1, <1>7, FieldsHiddenKeeps DEF Fields!CloseModal
<1> QED
  BY <1>2, <1>3, <1>4, <1>5, <1>6, <1>7 DEF FieldsLocal

\* For a user who waits, the table of the extraction dialog is the catalogue
\* on the server, and so is the form below it while there is no extraction
\* (loadElementSchema after every edit), for any keys, edits and failures.
THEOREM DialogCurrentHolds ==
  ASSUME Patient
  PROVE  Fields!Spec => []Fields!DialogCurrent
<1> DEFINE Inv == FormInv /\ DialogInv
<1>1. Fields!Init => Inv
  <2> SUFFICES ASSUME Fields!Init PROVE Inv
    OBVIOUS
  <2>1. /\ form = {} /\ over = Fields!NoValues /\ ~page /\ drawn = Fields!Placeholder /\ ~shown
        /\ cat \in Fields!Catalogue /\ flight = [f \in Slot |-> Fields!Idle]
        /\ modal = [kind |-> "none", at |-> 0, key |-> {}, table |-> Fields!Unknown]
    BY DEF Fields!Init
  <2>2. Fields!NoValues \in [Key -> Fields!Value]
    BY DEF Fields!NoValues, Fields!Value
  <2>3. FormInv
    BY <2>1, <2>2 DEF Fields!Placeholder, Drawing, FormInv, FormTypeOK
  <2>4. CatalogueTypeOK
    BY <2>1, IdleRequest DEF CatalogueTypeOK, FieldDialog, MaybeCatalogue
  <2>5. OneRequest /\ ReadsCurrent /\ DialogOverPage /\ TableFollows
    BY <2>1, IdleRequest DEF OneRequest, ReadsCurrent, DialogOverPage, TableFollows
  <2> QED
    BY <2>3, <2>4, <2>5 DEF DialogInv
<1>2. Inv /\ [Fields!Next]_(Fields!vars) => Inv'
  <2> SUFFICES ASSUME Inv, [Fields!Next]_(Fields!vars) PROVE Inv'
    OBVIOUS
  <2>1. CASE UNCHANGED Fields!vars
    <3>1. UNCHANGED <<cat, form, over, page, drawn, modal, shown, flight>>
      BY <2>1 DEF Fields!vars, Fields!clientVars
    <3>2. FormInv'
      BY <3>1 DEF FormInv, FormTypeOK
    <3>3. CatalogueTypeOK' /\ OneRequest' /\ ReadsCurrent' /\ DialogOverPage' /\ TableFollows'
      BY <3>1 DEF DialogInv, CatalogueTypeOK, OneRequest, ReadsCurrent, DialogOverPage, TableFollows,
                  Unheard, Fields!Idle, Fields!Unknown, Fields!Enabled, Fields!Catalogue
    <3> QED
      BY <3>2, <3>3 DEF DialogInv
  <2>2. CASE Fields!Next
    <3>1. FormInv'
      BY <2>2, FormKept
    <3>2. ASSUME NEW f \in Slot,
                 \/ Fields!RenderDraftPage(f) \/ Fields!OpenExtractDialog(f)
                 \/ \E k \in Key : \/ Fields!ToggleElementField(f, k) \/ Fields!DeleteElementField(f, k)
                                   \/ \E to \in Fields!Field \ {"absent"} : Fields!SaveElementField(f, k, to)
          PROVE  DialogInv'
      BY <3>2, FieldsUserKeeps
    <3>3. ASSUME NEW f \in Slot,
                 \/ Fields!RequestFails(f) \/ Fields!EnsureElementCatalog(f) \/ Fields!SchemaFails(f)
                 \/ Fields!EditArrives(f)
          PROVE  DialogInv'
      BY <3>3, FieldsAnswerKeeps
    <3>4. ASSUME NEW f \in Slot, Fields!Serve(f) \/ Fields!SchemaArrives(f) PROVE DialogInv'
      BY <3>4, FieldsServeKeeps, SchemaArrivesKeeps
    <3>5. ASSUME FieldsLocal PROVE DialogInv'
      BY <3>5, FieldsLocalKeeps
    <3>6. DialogInv'
      BY <2>2, <3>2, <3>3, <3>4, <3>5 DEF Fields!Next, FieldsLocal
    <3> QED
      BY <3>1, <3>6
  <2> QED
    BY <2>1, <2>2
<1>3. Inv => Fields!DialogCurrent
  <2>1. Fields!Quiet => \A f \in Slot : ~Unheard(f)
    BY IdleRequest DEF Fields!Quiet, Unheard
  <2> QED
    BY <2>1 DEF DialogInv, TableFollows, Fields!DialogCurrent
<1> QED
  BY <1>1, <1>2, <1>3, PTL DEF Fields!Spec

-----------------------------------------------------------------------------
(* The review page and the draft page: the form drawn is the form kept *)

\* The form that is drawn, and the values typed into it, are of elementsState.form.
FormOfDraft == Desk!DrawnIsForm /\ Desk!OverridesOfForm

\* A step that leaves the form and the page that shows it alone.
LEMMA DraftUntouched ==
  ASSUME FormOfDraft, UNCHANGED <<page, drawn, form, over>>
  PROVE  FormOfDraft'
BY DEF FormOfDraft, Desk!DrawnIsForm, Desk!OverridesOfForm

\* A step that makes a new form, on the page it leaves the user on.
LEMMA DraftNewForm ==
  ASSUME NEW r, NEW p, Desk!NewForm(p, r), page' = p
  PROVE  FormOfDraft'
BY DEF FormOfDraft, Desk!DrawnIsForm, Desk!OverridesOfForm, Desk!NewForm, Desk!RenderElementForm,
       Desk!Shows, Desk!Blank

LEMMA DraftUserKeeps ==
  ASSUME FormOfDraft, Desk!User
  PROVE  FormOfDraft'
<1>1. ASSUME NEW p \in {"review", "draft", "tasks"}, Desk!Navigate(p) PROVE FormOfDraft'
  <2>1. page' = p /\ UNCHANGED <<form, over>> /\ (p = "draft" => drawn' = Desk!Shows("form", form))
    BY <1>1 DEF Desk!Navigate, Desk!Render, Desk!RenderDraftPage, Desk!RenderElementForm, Desk!stateVars
  <2> QED
    BY <2>1 DEF FormOfDraft, Desk!DrawnIsForm, Desk!OverridesOfForm, Desk!Shows, Desk!Blank
<1>2. CASE Desk!TypeValue
  <2>1. /\ UNCHANGED <<page, drawn, form>> /\ page = "draft" /\ drawn.is = "form"
        /\ over' = over \cup {drawn.run}
    BY <1>2 DEF Desk!TypeValue, Desk!OnPage, Desk!pageVars
  <2> QED
    BY <2>1 DEF FormOfDraft, Desk!DrawnIsForm, Desk!OverridesOfForm
<1>3. ASSUME NEW f \in Slot, Desk!LoadElementForm(f) PROVE FormOfDraft'
  <2>1. UNCHANGED <<form, over>> /\ drawn' = Desk!Spin
    BY <1>3 DEF Desk!LoadElementForm, Desk!stateVars
  <2> QED
    BY <2>1 DEF FormOfDraft, Desk!DrawnIsForm, Desk!OverridesOfForm, Desk!Spin, Desk!Blank
<1>4. ASSUME NEW x \in File, \/ Desk!RemoveReviewFile(x) \/ Desk!AddReviewFile(x)
                             \/ Desk!AddElementFile(x) \/ Desk!RemoveElementFile(x)
      PROVE  UNCHANGED <<page, drawn, form, over>>
  BY <1>4 DEF Desk!RemoveReviewFile, Desk!AddReviewFile, Desk!SetReviewFiles, Desk!AddElementFile,
              Desk!RemoveElementFile, Desk!SetElementFiles, Desk!pageVars
<1>5. ASSUME NEW x \in File, NEW e \in {"base", "compare"}, Desk!PickCompareFile(e, x)
      PROVE  UNCHANGED <<page, drawn, form, over>>
  BY <1>5 DEF Desk!PickCompareFile, Desk!pageVars
<1>6. ASSUME Desk!ClearReviewFiles \/ Desk!OpenTaskResult \/ Desk!OpenFillReviewDialog
               \/ Desk!OpenExtractDialog \/ Desk!OpenCompareDialog \/ Desk!CloseModal
      PROVE  UNCHANGED <<page, drawn, form, over>>
  BY <1>6 DEF Desk!ClearReviewFiles, Desk!SetReviewFiles, Desk!OpenTaskResult, Desk!OpenFillReviewDialog,
              Desk!OpenExtractDialog, Desk!OpenCompareDialog, Desk!CloseModal, Desk!pageVars, Desk!stateVars
<1>7. ASSUME NEW f \in Slot, \/ Desk!ReviewSync(f) \/ Desk!RerunActiveReview(f) \/ Desk!SubmitFillReview(f)
                             \/ Desk!SubmitElementsSync(f) \/ Desk!OpenCreditRiskDialog(f)
                             \/ Desk!SubmitCompare(f)
      PROVE  UNCHANGED <<page, drawn, form, over>>
  BY <1>7 DEF Desk!ReviewSync, Desk!RerunActiveReview, Desk!SubmitFillReview, Desk!SubmitElementsSync,
              Desk!OpenCreditRiskDialog, Desk!SubmitCompare, Desk!pageVars, Desk!stateVars
<1> QED
  BY <1>1, <1>2, <1>3, <1>4, <1>5, <1>6, <1>7, DraftUntouched DEF Desk!User

LEMMA DraftAnswerKeeps ==
  ASSUME FormOfDraft, NEW f \in Slot, Desk!Answer(f) \/ Desk!RequestFails(f)
  PROVE  FormOfDraft'
<1>1. ASSUME \/ Desk!Serve(f) \/ Desk!SyncDone(f) \/ Desk!SyncFailed(f) \/ Desk!DraftReviewed(f)
             \/ Desk!CreditDone(f) \/ Desk!CompareDone(f) \/ Desk!CompareFailed(f) \/ Desk!RequestFails(f)
      PROVE  UNCHANGED <<page, drawn, form, over>>
  BY <1>1 DEF Desk!Serve, Desk!SyncDone, Desk!SyncFailed, Desk!DraftReviewed, Desk!CreditDone,
              Desk!CompareDone, Desk!CompareFailed, Desk!RequestFails, Desk!pageVars, Desk!stateVars
<1>2. CASE Desk!DraftFailed(f)
  <2>1. UNCHANGED <<page, form, over>> /\ (drawn' = Desk!Shows("failed", 0) \/ drawn' = drawn)
    BY <1>2 DEF Desk!DraftFailed, Desk!stateVars
  <2> QED
    BY <2>1 DEF FormOfDraft, Desk!DrawnIsForm, Desk!OverridesOfForm, Desk!Shows, Desk!Blank
<1>3. CASE Desk!FillDone(f) \/ Desk!CreditReviewed(f) \/ Desk!ProjectDone(f)
  <2>1. Desk!NewForm(page, flight[f].run) /\ page' = page
    BY <1>3 DEF Desk!FillDone, Desk!CreditReviewed, Desk!ProjectDone
  <2> QED
    BY <2>1, DraftNewForm
<1>4. CASE Desk!ExtractDone(f)
  <2>1. Desk!NewForm("draft", flight[f].run) /\ page' = "draft"
    BY <1>4 DEF Desk!ExtractDone
  <2> QED
    BY <2>1, DraftNewForm
<1> QED
  BY <1>1, <1>2, <1>3, <1>4, DraftUntouched DEF Desk!Answer

\* The draft page shows the form whose values it collects, and no value typed
\* into one form is collected for another (renderElementForm, runDraftReview),
\* whatever reviews, extractions and credit checks end in whatever order.
THEOREM DraftFormHolds ==
  Desk!Spec => [](Desk!DrawnIsForm /\ Desk!OverridesOfForm)
<1>1. Desk!Init => FormOfDraft
  BY DEF Desk!Init, FormOfDraft, Desk!DrawnIsForm, Desk!OverridesOfForm
<1>2. FormOfDraft /\ [Desk!Next]_(Desk!vars) => FormOfDraft'
  <2>1. FormOfDraft /\ UNCHANGED Desk!vars => FormOfDraft'
    BY DraftUntouched DEF Desk!vars, Desk!stateVars, Desk!pageVars
  <2>2. FormOfDraft /\ Desk!Next => FormOfDraft'
    BY DraftUserKeeps, DraftAnswerKeeps DEF Desk!Next
  <2> QED
    BY <2>1, <2>2
<1> QED
  BY <1>1, <1>2, PTL DEF Desk!Spec, FormOfDraft

-----------------------------------------------------------------------------
(* The requests of the two pages *)

RequestFields == {"kind", "for", "at", "files", "run", "answer"}

\* Requests are records; comparisons are sent by the compare dialog, and the
\* page sends reviews only.
RequestsFormed ==
  /\ flight = [f \in Slot |-> flight[f]]
  /\ \A f \in Slot :
       /\ DOMAIN flight[f] = RequestFields
       /\ flight[f].kind = "compare" => flight[f].for = "compare"
       /\ flight[f].for = "page" => flight[f].kind = "review"

OthersKept(f) == \A g \in Slot : g # f => flight'[g] = flight[g]

LEMMA DeskIdle ==
  /\ DOMAIN Desk!Idle = RequestFields
  /\ Desk!Idle.kind = "idle" /\ Desk!Idle.for = "none" /\ Desk!Idle.answer = "none"
BY DEF Desk!Idle, RequestFields

LEMMA DeskSends ==
  ASSUME RequestsFormed, NEW f \in Slot, NEW k, NEW w, NEW n, NEW fs, NEW r,
         Desk!Send(f, k, w, n, fs, r), k = "compare" => w = "compare", w = "page" => k = "review"
  PROVE  /\ RequestsFormed' /\ OthersKept(f) /\ flight[f] = Desk!Idle
         /\ flight'[f] = [kind |-> k, for |-> w, at |-> n, files |-> fs, run |-> r, answer |-> "none"]
<1> DEFINE q == [kind |-> k, for |-> w, at |-> n, files |-> fs, run |-> r, answer |-> "none"]
<1>1. DOMAIN q = RequestFields /\ q.kind = k /\ q.for = w
  BY DEF RequestFields
<1>2. flight' = [flight EXCEPT ![f] = q] /\ flight[f] = Desk!Idle
  BY DEF Desk!Send
<1> HIDE DEF q
<1>3. flight' = [g \in Slot |-> flight'[g]] /\ flight'[f] = q /\ OthersKept(f)
  BY <1>2 DEF RequestsFormed, OthersKept
<1>4. RequestsFormed'
  BY <1>1, <1>3 DEF RequestsFormed, OthersKept
<1> QED
  BY <1>2, <1>3, <1>4 DEF q

LEMMA DeskEnds ==
  ASSUME RequestsFormed, NEW f \in Slot, Desk!Done(f)
  PROVE  RequestsFormed' /\ OthersKept(f) /\ flight'[f] = Desk!Idle
<1>1. flight' = [g \in Slot |-> flight'[g]] /\ flight'[f] = Desk!Idle /\ OthersKept(f)
  BY DEF Desk!Done, RequestsFormed, OthersKept
<1> QED
  BY <1>1, DeskIdle DEF RequestsFormed, OthersKept

LEMMA DeskContinues ==
  ASSUME RequestsFormed, NEW f \in Slot, NEW k \in {"form", "credit"}, NEW r,
         Desk!Continue(f, k, r), flight[f].for # "page"
  PROVE  /\ RequestsFormed' /\ OthersKept(f)
         /\ flight'[f].for = flight[f].for /\ flight'[f].at = flight[f].at /\ flight'[f].kind = k
<1>1. /\ flight' = [g \in Slot |-> flight'[g]] /\ OthersKept(f)
      /\ DOMAIN flight'[f] = RequestFields /\ flight'[f].kind = k
      /\ flight'[f].for = flight[f].for /\ flight'[f].at = flight[f].at
  BY DEF Desk!Continue, RequestsFormed, OthersKept, RequestFields
<1> QED
  BY <1>1 DEF RequestsFormed, OthersKept

LEMMA DeskServed ==
  ASSUME RequestsFormed, NEW f \in Slot, Desk!Serve(f) \/ Desk!RequestFails(f)
  PROVE  /\ RequestsFormed' /\ OthersKept(f)
         /\ flight'[f].for = flight[f].for /\ flight'[f].at = flight[f].at
         /\ flight'[f].kind = flight[f].kind /\ flight'[f].files = flight[f].files
         /\ flight[f].kind # "review" => flight'[f].run = flight[f].run
<1> DEFINE ans == IF flight[f].run = 0 \/ flight[f].files \subseteq filesOf[flight[f].run]
                    THEN "ok" ELSE "error"
<1>1. \/ flight' = [flight EXCEPT ![f].answer = "ok", ![f].run = runs + 1] /\ flight[f].kind = "review"
      \/ \E a \in {"ok", "error"} : flight' = [flight EXCEPT ![f].answer = a]
  <2>1. ans \in {"ok", "error"}
    OBVIOUS
  <2> QED
    BY <2>1 DEF Desk!Serve, Desk!RequestFails
<1>2. /\ flight' = [g \in Slot |-> flight'[g]] /\ OthersKept(f)
      /\ DOMAIN flight'[f] = RequestFields /\ flight'[f].kind = flight[f].kind
      /\ flight'[f].for = flight[f].for /\ flight'[f].at = flight[f].at
      /\ flight'[f].files = flight[f].files
      /\ flight[f].kind # "review" => flight'[f].run = flight[f].run
  <2>1. CASE flight' = [flight EXCEPT ![f].answer = "ok", ![f].run = runs + 1] /\ flight[f].kind = "review"
    BY <2>1 DEF RequestsFormed, OthersKept, RequestFields
  <2>2. ASSUME NEW a \in {"ok", "error"}, flight' = [flight EXCEPT ![f].answer = a] PROVE <1>2
    BY <2>2 DEF RequestsFormed, OthersKept, RequestFields
  <2> QED
    BY <1>1, <2>1, <2>2
<1>3. RequestsFormed'
  BY <1>2 DEF RequestsFormed, OthersKept
<1> QED
  BY <1>2, <1>3

-----------------------------------------------------------------------------
(* Progress cards belong to requests that run *)

HostFields == {"spin", "is", "run"}
DialogFormed == DOMAIN dialog = {"kind", "at", "body"} /\ DOMAIN dialog.body = HostFields

PageSpins ==
  page = "review" /\ wrap.spin => \E f \in Slot : flight[f].for = "page" /\ flight[f].at = view

DialogSpins ==
  dialog.kind \in {"credit", "compare"} /\ dialog.body.spin
    => \E f \in Slot : flight[f].for = dialog.kind /\ flight[f].at = dialog.at

SpinnersOwned == RequestsFormed /\ DialogFormed /\ PageSpins /\ DialogSpins

\* The requests a progress card may belong to go on.
RequestKept(g) == flight'[g].for = flight[g].for /\ flight'[g].at = flight[g].at

LEMMA HostContents ==
  /\ DOMAIN Desk!Blank = HostFields /\ ~Desk!Blank.spin /\ Desk!Blank.is = "blank"
  /\ DOMAIN Desk!Spin = HostFields
  /\ \A e, r : DOMAIN Desk!Shows(e, r) = HostFields /\ ~Desk!Shows(e, r).spin
BY DEF Desk!Blank, Desk!Spin, Desk!Shows, HostFields

LEMMA PageSpinsOn ==
  ASSUME PageSpins, UNCHANGED <<page, wrap, view>>,
         \A g \in Slot : flight[g].for = "page" /\ flight[g].at = view => RequestKept(g)
  PROVE  PageSpins'
BY DEF PageSpins, RequestKept

LEMMA DialogSpinsOn ==
  ASSUME DialogSpins, dialog'.kind = dialog.kind, dialog'.at = dialog.at,
         dialog'.body.spin => dialog.body.spin,
         \A g \in Slot : /\ flight[g].for = dialog.kind /\ flight[g].at = dialog.at
                         /\ dialog.kind \in {"credit", "compare"}
                         => RequestKept(g)
  PROVE  DialogSpins'
BY DEF DialogSpins, RequestKept

\* Content in the host of a dialog.
LEMMA ShownIn ==
  ASSUME DialogFormed, NEW n, NEW c, DOMAIN c = HostFields, Desk!ShowIn(n, c)
  PROVE  /\ DialogFormed' /\ dialog'.kind = dialog.kind /\ dialog'.at = dialog.at
         /\ dialog.at = n => dialog'.body = c
         /\ dialog.at # n => dialog' = dialog
BY DEF DialogFormed, Desk!ShowIn

\* A dialog in place of the one there was.
LEMMA ModalOpened ==
  ASSUME NEW e, NEW c, DOMAIN c = HostFields, Desk!OpenModal(e, c)
  PROVE  DialogFormed' /\ dialog'.kind = e /\ dialog'.at = dialog.at + 1 /\ dialog'.body = c
BY DEF DialogFormed, Desk!OpenModal

\* The user's steps without a request.
LEMMA SpinLocalKeeps ==
  ASSUME SpinnersOwned,
         \/ \E p \in {"review", "draft", "tasks"} : Desk!Navigate(p)
         \/ \E x \in File : \/ Desk!RemoveReviewFile(x) \/ Desk!AddReviewFile(x)
                            \/ Desk!AddElementFile(x) \/ Desk!RemoveElementFile(x)
                            \/ \E e \in {"base", "compare"} : Desk!PickCompareFile(e, x)
         \/ Desk!ClearReviewFiles \/ Desk!TypeValue \/ Desk!OpenTaskResult
         \/ Desk!OpenFillReviewDialog \/ Desk!OpenExtractDialog \/ Desk!OpenCompareDialog \/ Desk!CloseModal
  PROVE  SpinnersOwned'
<1>1. ASSUME UNCHANGED <<dialog, flight>>,
             \/ UNCHANGED <<page, wrap, view>> \/ wrap' = Desk!Blank \/ page' # "review"
      PROVE  SpinnersOwned'
  <2>1. RequestsFormed' /\ DialogFormed' /\ DialogSpins'
    BY <1>1 DEF SpinnersOwned, RequestsFormed, DialogFormed, DialogSpins
  <2>2. PageSpins'
    BY <1>1, HostContents DEF SpinnersOwned, PageSpins
  <2> QED
    BY <2>1, <2>2 DEF SpinnersOwned
<1>2. ASSUME NEW e, NEW c, Desk!OpenModal(e, c), DOMAIN c = HostFields,
             e \in {"credit", "compare"} => ~c.spin, UNCHANGED <<page, wrap, view, flight>>
      PROVE  SpinnersOwned'
  <2>1. RequestsFormed' /\ PageSpins'
    BY <1>2 DEF SpinnersOwned, RequestsFormed, PageSpins
  <2>2. DialogFormed' /\ DialogSpins'
    BY <1>2, ModalOpened DEF DialogSpins
  <2> QED
    BY <2>1, <2>2 DEF SpinnersOwned
<1>3. ASSUME NEW p \in {"review", "draft", "tasks"}, Desk!Navigate(p) PROVE SpinnersOwned'
  <2>1. UNCHANGED <<dialog, flight>> /\ page' = p /\ (p = "review" => wrap' = Desk!Blank)
    BY <1>3 DEF Desk!Navigate, Desk!Render, Desk!RenderReviewPage, Desk!modalVars
  <2> QED
    BY <1>1, <2>1
<1>4. ASSUME NEW inc, Desk!SetReviewFiles(inc) PROVE SpinnersOwned'
  BY <1>1, <1>4 DEF Desk!SetReviewFiles, Desk!modalVars
<1>5. ASSUME NEW x \in File, \/ Desk!AddElementFile(x) \/ Desk!RemoveElementFile(x)
      PROVE  SpinnersOwned'
  BY <1>1, <1>5 DEF Desk!AddElementFile, Desk!RemoveElementFile, Desk!SetElementFiles,
                    Desk!pageVars, Desk!modalVars
<1>6. ASSUME NEW x \in File, NEW e \in {"base", "compare"}, Desk!PickCompareFile(e, x)
      PROVE  SpinnersOwned'
  BY <1>1, <1>6 DEF Desk!PickCompareFile, Desk!pageVars, Desk!modalVars
<1>7. CASE Desk!TypeValue \/ Desk!CloseModal
  BY <1>1, <1>7 DEF Desk!TypeValue, Desk!CloseModal, Desk!pageVars, Desk!modalVars
<1>8. CASE Desk!OpenTaskResult
  <2>1. Desk!OpenModal("task", Desk!Shows("result", runs + 1)) /\ UNCHANGED <<page, wrap, view, flight>>
    BY <1>8 DEF Desk!OpenTaskResult, Desk!pageVars
  <2> QED
    BY <1>2, <2>1, HostContents
<1>9. CASE Desk!OpenFillReviewDialog
  <2>1. /\ \/ Desk!OpenModal("fill", Desk!Shows("result", result))
           \/ Desk!OpenModal("fill", Desk!Shows("start", 0))
        /\ UNCHANGED <<page, wrap, view, flight>>
    BY <1>9 DEF Desk!OpenFillReviewDialog, Desk!pageVars
  <2> QED
    BY <1>2, <2>1, HostContents
<1>10. CASE Desk!OpenExtractDialog \/ Desk!OpenCompareDialog
  <2>1. /\ Desk!OpenModal("extract", Desk!Blank) \/ Desk!OpenModal("compare", Desk!Blank)
        /\ UNCHANGED <<page, wrap, view, flight>>
    BY <1>10 DEF Desk!OpenExtractDialog, Desk!OpenCompareDialog, Desk!pageVars
  <2> QED
    BY <1>2, <2>1, HostContents
<1> QED
  BY <1>3, <1>4, <1>5, <1>6, <1>7, <1>8, <1>9, <1>10
     DEF Desk!RemoveReviewFile, Desk!AddReviewFile, Desk!ClearReviewFiles

\* The user's requests.
LEMMA SpinRequestKeeps ==
  ASSUME SpinnersOwned, NEW f \in Slot,
         \/ Desk!ReviewSync(f) \/ Desk!RerunActiveReview(f) \/ Desk!SubmitFillReview(f)
         \/ Desk!SubmitElementsSync(f) \/ Desk!OpenCreditRiskDialog(f)
         \/ Desk!LoadElementForm(f) \/ Desk!SubmitCompare(f)
  PROVE  SpinnersOwned'
<1>0. RequestsFormed /\ DialogFormed /\ PageSpins /\ DialogSpins
  BY DEF SpinnersOwned
<1>1. ASSUME NEW k, NEW w, NEW n, NEW fs, NEW r, Desk!Send(f, k, w, n, fs, r),
             k = "compare" => w = "compare", w = "page" => k = "review"
      PROVE  /\ RequestsFormed' /\ flight'[f].for = w /\ flight'[f].at = n
             /\ \A g \in Slot : flight[g].for # "none" => RequestKept(g)
  <2>1. /\ RequestsFormed' /\ OthersKept(f) /\ flight[f] = Desk!Idle
        /\ flight'[f] = [kind |-> k, for |-> w, at |-> n, files |-> fs, run |-> r, answer |-> "none"]
    BY <1>0, <1>1, DeskSends
  <2>2. flight'[f].for = w /\ flight'[f].at = n
    BY <2>1
  <2> QED
    BY <2>1, <2>2, DeskIdle DEF OthersKept, RequestKept
<1>2. CASE Desk!ReviewSync(f) \/ Desk!RerunActiveReview(f)
  <2>1. Desk!Send(f, "review", "page", view, rFiles, 0) /\ UNCHANGED <<page, view, dialog>>
    BY <1>2 DEF Desk!ReviewSync, Desk!RerunActiveReview, Desk!SubmitReviewSync, Desk!SendReview,
                Desk!modalVars
  <2>2. /\ RequestsFormed' /\ flight'[f].for = "page" /\ flight'[f].at = view
        /\ \A g \in Slot : flight[g].for # "none" => RequestKept(g)
    BY <1>1, <2>1
  <2>3. PageSpins'
    BY <2>1, <2>2 DEF PageSpins
  <2>4. DialogFormed' /\ DialogSpins'
    BY <1>0, <2>1, <2>2 DEF DialogFormed, DialogSpins, RequestKept
  <2> QED
    BY <2>2, <2>3, <2>4 DEF SpinnersOwned
<1>3. CASE Desk!SubmitFillReview(f)
  <2>1. /\ Desk!Send(f, "review", "fill", dialog.at, eFiles, 0) /\ UNCHANGED <<page, wrap, view>>
        /\ dialog.kind = "fill" /\ Desk!ShowIn(dialog.at, Desk!Spin)
    BY <1>3 DEF Desk!SubmitFillReview, Desk!SendReview, Desk!InDialog, Desk!pageVars
  <2>2. RequestsFormed' /\ \A g \in Slot : flight[g].for # "none" => RequestKept(g)
    BY <1>1, <2>1
  <2>3. PageSpins'
    BY <1>0, <2>1, <2>2, PageSpinsOn
  <2>4. DialogFormed' /\ DialogSpins'
    BY <1>0, <2>1, ShownIn, HostContents DEF DialogSpins
  <2> QED
    BY <2>2, <2>3, <2>4 DEF SpinnersOwned
<1>4. CASE Desk!SubmitElementsSync(f)
  <2>1. Desk!Send(f, "review", "extract", dialog.at, eFiles, 0) /\ UNCHANGED <<page, wrap, view, dialog>>
    BY <1>4 DEF Desk!SubmitElementsSync, Desk!SendReview, Desk!pageVars, Desk!modalVars
  <2>2. RequestsFormed' /\ \A g \in Slot : flight[g].for # "none" => RequestKept(g)
    BY <1>1, <2>1
  <2>3. PageSpins'
    BY <1>0, <2>1, <2>2, PageSpinsOn
  <2>4. DialogFormed' /\ DialogSpins'
    BY <1>0, <2>1, <2>2 DEF DialogFormed, DialogSpins, RequestKept
  <2> QED
    BY <2>2, <2>3, <2>4 DEF SpinnersOwned
<1>5. CASE Desk!OpenCreditRiskDialog(f)
  <2>1. /\ \/ Desk!Send(f, "credit", "credit", dialog.at + 1, {}, result)
           \/ Desk!Send(f, "review", "credit", dialog.at + 1, eFiles, 0)
        /\ UNCHANGED <<page, wrap, view>> /\ Desk!OpenModal("credit", Desk!Spin)
    BY <1>5 DEF Desk!OpenCreditRiskDialog, Desk!SendReview, Desk!pageVars
  <2>2. /\ RequestsFormed' /\ flight'[f].for = "credit" /\ flight'[f].at = dialog.at + 1
        /\ \A g \in Slot : flight[g].for # "none" => RequestKept(g)
    BY <1>1, <2>1
  <2>3. PageSpins'
    BY <1>0, <2>1, <2>2, PageSpinsOn
  <2>4. DialogFormed' /\ dialog'.kind = "credit" /\ dialog'.at = dialog.at + 1
    BY <2>1, ModalOpened, HostContents
  <2>5. DialogSpins'
    BY <2>2, <2>4 DEF DialogSpins
  <2> QED
    BY <2>2, <2>3, <2>4, <2>5 DEF SpinnersOwned
<1>6. CASE Desk!LoadElementForm(f)
  <2>1. /\ \E r : Desk!Send(f, "form", "project", view + 1, {}, r)
        /\ page' = "draft" /\ UNCHANGED dialog
    BY <1>6 DEF Desk!LoadElementForm
  <2>2. RequestsFormed' /\ \A g \in Slot : flight[g].for # "none" => RequestKept(g)
    BY <1>1, <2>1
  <2>3. PageSpins'
    BY <2>1 DEF PageSpins
  <2>4. DialogFormed' /\ DialogSpins'
    BY <1>0, <2>1, <2>2 DEF DialogFormed, DialogSpins, RequestKept
  <2> QED
    BY <2>2, <2>3, <2>4 DEF SpinnersOwned
<1>7. CASE Desk!SubmitCompare(f)
  <2>1. /\ Desk!Send(f, "compare", "compare", dialog.at, pair.base, Desk!ReviewResultPayload)
        /\ UNCHANGED <<page, wrap, view>> /\ dialog.kind = "compare" /\ Desk!ShowIn(dialog.at, Desk!Spin)
    BY <1>7 DEF Desk!SubmitCompare, Desk!InDialog, Desk!pageVars
  <2>2. /\ RequestsFormed' /\ flight'[f].for = "compare" /\ flight'[f].at = dialog.at
        /\ \A g \in Slot : flight[g].for # "none" => RequestKept(g)
    BY <1>1, <2>1
  <2>3. PageSpins'
    BY <1>0, <2>1, <2>2, PageSpinsOn
  <2>4. DialogFormed' /\ dialog'.kind = dialog.kind /\ dialog'.at = dialog.at
    BY <1>0, <2>1, ShownIn, HostContents
  <2>5. DialogSpins'
    BY <2>1, <2>2, <2>4 DEF DialogSpins
  <2> QED
    BY <2>2, <2>3, <2>4, <2>5 DEF SpinnersOwned
<1> QED
  BY <1>2, <1>3, <1>4, <1>5, <1>6, <1>7

\* A request ends whose progress card, if it has one, is not shown any more.
LEMMA SpinEnds ==
  ASSUME SpinnersOwned, NEW f \in Slot, Desk!Done(f), DialogFormed',
         \/ UNCHANGED <<page, wrap, view>> /\ ~(flight[f].for = "page" /\ flight[f].at = view /\ page = "review")
         \/ ~(page' = "review" /\ wrap'.spin),
         \/ /\ dialog'.kind = dialog.kind /\ dialog'.at = dialog.at
            /\ dialog'.body.spin => dialog.body.spin
            /\ ~(flight[f].for = dialog.kind /\ flight[f].at = dialog.at /\ dialog.kind \in {"credit", "compare"})
         \/ ~dialog'.body.spin
  PROVE  SpinnersOwned'
<1>1. RequestsFormed /\ PageSpins /\ DialogSpins
  BY DEF SpinnersOwned
<1>2. RequestsFormed' /\ \A g \in Slot : g # f => RequestKept(g)
  BY <1>1, DeskEnds DEF OthersKept, RequestKept
<1>3. PageSpins'
  <2>1. CASE ~(page' = "review" /\ wrap'.spin)
    BY <2>1 DEF PageSpins
  <2>2. CASE UNCHANGED <<page, wrap, view>> /\ ~(flight[f].for = "page" /\ flight[f].at = view /\ page = "review")
    BY <1>1, <1>2, <2>2 DEF PageSpins, RequestKept
  <2> QED
    BY <2>1, <2>2
<1>4. DialogSpins'
  <2>1. CASE ~dialog'.body.spin
    BY <2>1 DEF DialogSpins
  <2>2. CASE dialog'.body.spin
    BY <1>1, <1>2, <2>2, DialogSpinsOn
  <2> QED
    BY <2>1, <2>2
<1> QED
  BY <1>2, <1>3, <1>4 DEF SpinnersOwned

LEMMA SpinAnswerKeeps ==
  ASSUME SpinnersOwned, NEW f \in Slot, Desk!Answer(f) \/ Desk!RequestFails(f)
  PROVE  SpinnersOwned'
<1>0. RequestsFormed /\ DialogFormed /\ PageSpins /\ DialogSpins
  BY DEF SpinnersOwned
<1>1. ASSUME RequestsFormed', \A g \in Slot : RequestKept(g), UNCHANGED <<page, wrap, view, dialog>>
      PROVE  SpinnersOwned'
  BY <1>0, <1>1 DEF SpinnersOwned, DialogFormed, PageSpins, DialogSpins, RequestKept
<1>2. CASE Desk!Serve(f) \/ Desk!RequestFails(f)
  <2>1. RequestsFormed' /\ \A g \in Slot : RequestKept(g)
    BY <1>0, <1>2, DeskServed DEF OthersKept, RequestKept
  <2>2. UNCHANGED <<page, wrap, view, dialog>>
    BY <1>2 DEF Desk!Serve, Desk!RequestFails, Desk!pageVars, Desk!modalVars
  <2> QED
    BY <1>1, <2>1, <2>2
<1>3. CASE Desk!SyncDone(f)
  <2>1. /\ Desk!Done(f) /\ flight[f].for = "page" /\ UNCHANGED page
        /\ page = "review" => wrap' = Desk!Shows("result", flight[f].run)
        /\ \/ dialog' = dialog
           \/ dialog' = [dialog EXCEPT !.body = Desk!Shows("result", flight[f].run)]
    BY <1>3 DEF Desk!SyncDone
  <2>2. ~(page' = "review" /\ wrap'.spin)
    BY <2>1, HostContents
  <2>3. /\ DialogFormed' /\ dialog'.kind = dialog.kind /\ dialog'.at = dialog.at
        /\ dialog'.body.spin => dialog.body.spin
    BY <1>0, <2>1, HostContents DEF DialogFormed
  <2>4. ~(flight[f].for = dialog.kind /\ dialog.kind \in {"credit", "compare"})
    BY <2>1
  <2> QED
    BY <2>1, <2>2, <2>3, <2>4, SpinEnds
<1>4. CASE Desk!SyncFailed(f)
  <2>1. /\ Desk!Done(f) /\ flight[f].for = "page" /\ UNCHANGED <<page, view, dialog>>
        /\ \/ page = "review" /\ view = flight[f].at /\ wrap' = Desk!Blank
           \/ ~(page = "review" /\ view = flight[f].at) /\ wrap' = wrap
    BY <1>4 DEF Desk!SyncFailed, Desk!modalVars
  <2>2. \/ UNCHANGED <<page, wrap, view>> /\ ~(flight[f].for = "page" /\ flight[f].at = view /\ page = "review")
        \/ ~(page' = "review" /\ wrap'.spin)
    BY <2>1, HostContents
  <2>3. DialogFormed' /\ ~(flight[f].for = dialog.kind /\ dialog.kind \in {"credit", "compare"})
    BY <1>0, <2>1 DEF DialogFormed
  <2> QED
    BY <2>1, <2>2, <2>3, SpinEnds
<1>5. CASE Desk!DraftReviewed(f)
  <2>1. /\ Desk!Continue(f, "form", flight[f].run) /\ flight[f].for # "page"
        /\ UNCHANGED <<page, wrap, view, dialog>>
    BY <1>5 DEF Desk!DraftReviewed, Desk!pageVars, Desk!modalVars
  <2>2. RequestsFormed' /\ \A g \in Slot : RequestKept(g)
    BY <1>0, <2>1, DeskContinues DEF OthersKept, RequestKept
  <2> QED
    BY <1>1, <2>1, <2>2
<1>6. CASE Desk!DraftFailed(f)
  <2>1. /\ Desk!Done(f) /\ flight[f].for \in {"fill", "extract", "credit", "project"}
        /\ UNCHANGED <<page, wrap, view>>
        /\ \/ Desk!ShowIn(flight[f].at, Desk!Shows("failed", 0))
           \/ flight[f].for \in {"extract", "project"} /\ dialog' = dialog
    BY <1>6 DEF Desk!DraftFailed
  <2>2. CASE Desk!ShowIn(flight[f].at, Desk!Shows("failed", 0))
    <3>1. /\ DialogFormed' /\ dialog'.kind = dialog.kind /\ dialog'.at = dialog.at
          /\ dialog.at = flight[f].at => ~dialog'.body.spin
          /\ dialog.at # flight[f].at => dialog' = dialog
      BY <1>0, <2>2, ShownIn, HostContents
    <3> QED
      BY <2>1, <3>1, SpinEnds
  <2>3. CASE flight[f].for \in {"extract", "project"} /\ dialog' = dialog
    <3>1. DialogFormed' /\ ~(flight[f].for = dialog.kind /\ dialog.kind \in {"credit", "compare"})
      BY <1>0, <2>3 DEF DialogFormed
    <3> QED
      BY <2>1, <2>3, <3>1, SpinEnds
  <2> QED
    BY <2>1, <2>2, <2>3
<1>7. CASE Desk!FillDone(f)
  <2> DEFINE c == [dialog.body EXCEPT !.is = "result", !.run = flight[f].run]
  <2>1. /\ Desk!Done(f) /\ flight[f].for = "fill" /\ UNCHANGED <<page, wrap, view>>
        /\ Desk!ShowIn(flight[f].at, c)
    BY <1>7 DEF Desk!FillDone
  <2>2. DOMAIN c = HostFields /\ c.spin = dialog.body.spin
    BY <1>0 DEF DialogFormed, HostFields
  <2> HIDE DEF c
  <2>3. /\ DialogFormed' /\ dialog'.kind = dialog.kind /\ dialog'.at = dialog.at
        /\ dialog'.body.spin => dialog.body.spin
    BY <1>0, <2>1, <2>2, ShownIn
  <2>4. ~(flight[f].for = dialog.kind /\ dialog.kind \in {"credit", "compare"}) /\ flight[f].for # "page"
    BY <2>1
  <2> QED
    BY <2>1, <2>3, <2>4, SpinEnds
<1>8. CASE Desk!ExtractDone(f)
  <2>1. /\ Desk!Done(f) /\ flight[f].for = "extract" /\ page' = "draft" /\ dialog' = dialog
    BY <1>8 DEF Desk!ExtractDone
  <2>2. DialogFormed' /\ ~(flight[f].for = dialog.kind /\ dialog.kind \in {"credit", "compare"})
    BY <1>0, <2>1 DEF DialogFormed
  <2> QED
    BY <2>1, <2>2, SpinEnds
<1>9. CASE Desk!CreditReviewed(f)
  <2>1. /\ flight[f].for = "credit" /\ UNCHANGED <<page, wrap, view>>
        /\ \/ Desk!Continue(f, "credit", result) /\ dialog' = dialog
           \/ Desk!Done(f) /\ Desk!ShowIn(flight[f].at, Desk!Shows("failed", 0))
    BY <1>9 DEF Desk!CreditReviewed
  <2>2. CASE Desk!Continue(f, "credit", result) /\ dialog' = dialog
    <3>1. RequestsFormed' /\ \A g \in Slot : RequestKept(g)
      BY <1>0, <2>1, <2>2, DeskContinues DEF OthersKept, RequestKept
    <3> QED
      BY <1>1, <2>1, <2>2, <3>1
  <2>3. CASE Desk!Done(f) /\ Desk!ShowIn(flight[f].at, Desk!Shows("failed", 0))
    <3>1. /\ DialogFormed' /\ dialog'.kind = dialog.kind /\ dialog'.at = dialog.at
          /\ dialog.at = flight[f].at => ~dialog'.body.spin
          /\ dialog.at # flight[f].at => dialog' = dialog
      BY <1>0, <2>3, ShownIn, HostContents
    <3> QED
      BY <2>1, <2>3, <3>1, SpinEnds
  <2> QED
    BY <2>1, <2>2, <2>3
<1>10. CASE Desk!CreditDone(f) \/ Desk!CompareFailed(f)
  <2>1. /\ Desk!Done(f) /\ flight[f].kind # "review" /\ UNCHANGED <<page, wrap, view>>
        /\ \/ Desk!ShowIn(flight[f].at, Desk!Shows("result", flight[f].run))
           \/ Desk!ShowIn(flight[f].at, Desk!Blank)
    BY <1>10 DEF Desk!CreditDone, Desk!CompareFailed, Desk!Arrived, Desk!pageVars
  <2>2. flight[f].for # "page"
    BY <1>0, <2>1 DEF RequestsFormed
  <2>3. /\ DialogFormed' /\ dialog'.kind = dialog.kind /\ dialog'.at = dialog.at
        /\ dialog.at = flight[f].at => ~dialog'.body.spin
        /\ dialog.at # flight[f].at => dialog' = dialog
    BY <1>0, <2>1, ShownIn, HostContents
  <2> QED
    BY <2>1, <2>2, <2>3, SpinEnds
<1>11. CASE Desk!ProjectDone(f)
  <2>1. /\ Desk!Done(f) /\ flight[f].for = "project" /\ UNCHANGED <<page, wrap, view, dialog>>
    BY <1>11 DEF Desk!ProjectDone, Desk!modalVars
  <2>2. DialogFormed' /\ ~(flight[f].for = dialog.kind /\ dialog.kind \in {"credit", "compare"})
    BY <1>0, <2>1 DEF DialogFormed
  <2> QED
    BY <2>1, <2>2, SpinEnds
<1>12. CASE Desk!CompareDone(f)
  <2>1. /\ Desk!Done(f) /\ flight[f].kind = "compare" /\ UNCHANGED <<page, wrap, view>>
        /\ \/ dialog' = [dialog EXCEPT !.body = Desk!Shows("result", flight[f].run)]
           \/ dialog' = dialog /\ dialog.kind # "compare"
    BY <1>12 DEF Desk!CompareDone, Desk!Arrived, Desk!pageVars
  <2>2. flight[f].for = "compare"
    BY <1>0, <2>1 DEF RequestsFormed
  <2>3. /\ DialogFormed'
        /\ \/ ~dialog'.body.spin
           \/ dialog' = dialog /\ dialog.kind # "compare"
    BY <1>0, <2>1, HostContents DEF DialogFormed
  <2> QED
    BY <2>1, <2>2, <2>3, SpinEnds
<1> QED
  BY <1>2, <1>3, <1>4, <1>5, <1>6, <1>7, <1>8, <1>9, <1>10, <1>11, <1>12 DEF Desk!Answer

\* A progress card of the review page, of the credit or of the compare dialog
\* belongs to a request that still runs (submitReviewSync, openCreditRiskDialog,
\* submitCompare), whatever pages and dialogs the user goes through meanwhile.
THEOREM NoOrphanSpinnerHolds ==
  Desk!Spec => []Desk!NoOrphanSpinner
<1>1. Desk!Init => SpinnersOwned
  <2> SUFFICES ASSUME Desk!Init PROVE SpinnersOwned
    OBVIOUS
  <2>1. /\ flight = [f \in Slot |-> Desk!Idle] /\ wrap = Desk!Blank
        /\ dialog = [kind |-> "none", at |-> 0, body |-> Desk!Blank]
    BY DEF Desk!Init
  <2>2. RequestsFormed
    BY <2>1, DeskIdle DEF RequestsFormed
  <2>3. DialogFormed /\ PageSpins /\ DialogSpins
    BY <2>1, HostContents DEF DialogFormed, PageSpins, DialogSpins
  <2> QED
    BY <2>2, <2>3 DEF SpinnersOwned
<1>2. SpinnersOwned /\ [Desk!Next]_(Desk!vars) => SpinnersOwned'
  <2>1. SpinnersOwned /\ UNCHANGED Desk!vars => SpinnersOwned'
    BY DEF Desk!vars, Desk!stateVars, Desk!pageVars, Desk!modalVars, SpinnersOwned, RequestsFormed,
           DialogFormed, PageSpins, DialogSpins
  <2>2. SpinnersOwned /\ Desk!User => SpinnersOwned'
    BY SpinLocalKeeps, SpinRequestKeeps DEF Desk!User
  <2>3. SpinnersOwned /\ Desk!Next => SpinnersOwned'
    BY <2>2, SpinAnswerKeeps DEF Desk!Next
  <2> QED
    BY <2>1, <2>3
<1>3. SpinnersOwned => Desk!NoOrphanSpinner
  BY DEF SpinnersOwned, PageSpins, DialogSpins, RequestsFormed, Desk!NoOrphanSpinner, Desk!Pending
<1> QED
  BY <1>1, <1>2, <1>3, PTL DEF Desk!Spec

-----------------------------------------------------------------------------
(* The review page of a user who waits *)

OneAtATime == \A f, g \in Slot : flight[f] # Desk!Idle /\ flight[g] # Desk!Idle => f = g

RunsKnown == runs \in 0 .. MaxRuns /\ filesOf = [r \in Desk!Run |-> filesOf[r]]

\* The page's request is about the page's files, and so is its answer.
ReviewOfPage ==
  \A f \in Slot : flight[f].for = "page" =>
    /\ flight[f].files = rFiles
    /\ flight[f].answer = "ok" => flight[f].run \in 1 .. runs /\ filesOf[flight[f].run] = rFiles

WrapOfFiles ==
  wrap.is = "result" => /\ wrap.run \in 1 .. runs
                        /\ page = "review" => filesOf[wrap.run] = rFiles

\* A comparison was sent with the result that still is the current one.
CompareOfResult == \A f \in Slot : flight[f].kind = "compare" => flight[f].run = result

PageInv ==
  RequestsFormed /\ OneAtATime /\ RunsKnown /\ ReviewOfPage /\ WrapOfFiles /\ CompareOfResult

\* What the reviews there were are of does not change.
ReviewsKept == RunsKnown' /\ \A r \in 1 .. runs : r \in 1 .. runs' /\ filesOf'[r] = filesOf[r]

\* The result on the page is left alone with its files, is blank, or the page is left.
WrapStep ==
  \/ wrap' = wrap /\ ((rFiles' = rFiles /\ page' = page) \/ page' # "review")
  \/ wrap'.is # "result"

LEMMA WrapKept ==
  ASSUME WrapOfFiles, ReviewsKept, WrapStep
  PROVE  WrapOfFiles'
BY DEF WrapOfFiles, ReviewsKept, WrapStep

LEMMA ServerUntouched ==
  ASSUME RunsKnown, UNCHANGED <<runs, filesOf>>
  PROVE  ReviewsKept
BY DEF RunsKnown, ReviewsKept, Desk!Run

\* A step between requests.
LEMMA PageLocalStep ==
  ASSUME PageInv, \A f \in Slot : flight[f] = Desk!Idle, UNCHANGED flight, ReviewsKept, WrapStep
  PROVE  PageInv'
<1>1. RequestsFormed' /\ OneAtATime'
  BY DEF PageInv, RequestsFormed, OneAtATime, Desk!Idle
<1>2. ReviewOfPage' /\ CompareOfResult'
  BY DeskIdle DEF ReviewOfPage, CompareOfResult
<1>3. RunsKnown' /\ WrapOfFiles'
  BY WrapKept DEF PageInv, ReviewsKept
<1> QED
  BY <1>1, <1>2, <1>3 DEF PageInv

\* A step of the only request there is.
LEMMA PageRequestStep ==
  ASSUME NEW f \in Slot, RequestsFormed', OthersKept(f), \A g \in Slot : g # f => flight[g] = Desk!Idle,
         flight'[f].for = "page" =>
           /\ flight'[f].files = rFiles'
           /\ flight'[f].answer = "ok" => flight'[f].run \in 1 .. runs' /\ filesOf'[flight'[f].run] = rFiles',
         flight'[f].kind = "compare" => flight'[f].run = result',
         RunsKnown', WrapOfFiles'
  PROVE  PageInv'
<1>1. \A g \in Slot : g # f => flight'[g] = Desk!Idle
  BY DEF OthersKept
<1>2. OneAtATime'
  BY <1>1 DEF OneAtATime, Desk!Idle
<1>3. ReviewOfPage' /\ CompareOfResult'
  BY <1>1, DeskIdle DEF ReviewOfPage, CompareOfResult
<1> QED
  BY <1>2, <1>3 DEF PageInv

LEMMA DeskWaited ==
  ASSUME Patient, Desk!Click
  PROVE  \A f \in Slot : flight[f] = Desk!Idle
BY DEF Desk!Click

LEMMA PageLocalKeeps ==
  ASSUME Desk!DeskAssumption, Patient, PageInv,
         \/ \E p \in {"review", "draft", "tasks"} : Desk!Navigate(p)
         \/ \E x \in File : \/ Desk!RemoveReviewFile(x) \/ Desk!AddReviewFile(x)
                            \/ Desk!AddElementFile(x) \/ Desk!RemoveElementFile(x)
                            \/ \E e \in {"base", "compare"} : Desk!PickCompareFile(e, x)
         \/ Desk!ClearReviewFiles \/ Desk!TypeValue \/ Desk!OpenTaskResult
         \/ Desk!OpenFillReviewDialog \/ Desk!OpenExtractDialog \/ Desk!OpenCompareDialog \/ Desk!CloseModal
  PROVE  PageInv'
<1>0. RunsKnown
  BY DEF PageInv
<1>1. ASSUME Desk!Click, UNCHANGED <<runs, filesOf, flight>>, WrapStep PROVE PageInv'
  BY <1>0, <1>1, DeskWaited, ServerUntouched, PageLocalStep
<1>2. ASSUME NEW p \in {"review", "draft", "tasks"}, Desk!Navigate(p) PROVE PageInv'
  <2>1. /\ Desk!Click /\ UNCHANGED <<runs, filesOf, flight, rFiles>> /\ page' = p
        /\ p = "review" => wrap' = Desk!Blank
        /\ p # "review" => wrap' = wrap
    BY <1>2 DEF Desk!Navigate, Desk!Render, Desk!RenderReviewPage, Desk!RenderDraftPage,
                Desk!serverVars, Desk!stateVars
  <2>2. WrapStep
    BY <2>1, HostContents DEF WrapStep
  <2> QED
    BY <1>1, <2>1, <2>2
<1>3. ASSUME NEW inc, Desk!OnPage("review"), Desk!SetReviewFiles(inc) PROVE PageInv'
  <2>1. Desk!Click /\ UNCHANGED <<runs, filesOf, flight>> /\ wrap' = Desk!Blank
    BY <1>3 DEF Desk!OnPage, Desk!SetReviewFiles, Desk!serverVars
  <2>2. WrapStep
    BY <2>1, HostContents DEF WrapStep
  <2> QED
    BY <1>1, <2>1, <2>2
<1>4. ASSUME Desk!Click, UNCHANGED <<runs, filesOf, flight, rFiles, page, wrap>> PROVE PageInv'
  BY <1>1, <1>4 DEF WrapStep
<1>5. ASSUME NEW x \in File, \/ Desk!AddElementFile(x) \/ Desk!RemoveElementFile(x)
      PROVE  PageInv'
  BY <1>4, <1>5 DEF Desk!AddElementFile, Desk!RemoveElementFile, Desk!SetElementFiles, Desk!OnPage,
                    Desk!serverVars, Desk!pageVars
<1>6. ASSUME NEW x \in File, NEW e \in {"base", "compare"}, Desk!PickCompareFile(e, x)
      PROVE  PageInv'
  BY <1>4, <1>6 DEF Desk!PickCompareFile, Desk!InDialog, Desk!serverVars, Desk!pageVars
<1>7. CASE Desk!TypeValue \/ Desk!CloseModal \/ Desk!OpenCompareDialog
  BY <1>4, <1>7 DEF Desk!TypeValue, Desk!CloseModal, Desk!OpenCompareDialog, Desk!OnPage,
                    Desk!serverVars, Desk!stateVars, Desk!pageVars
<1>8. CASE Desk!OpenFillReviewDialog \/ Desk!OpenExtractDialog
  BY <1>4, <1>8 DEF Desk!OpenFillReviewDialog, Desk!OpenExtractDialog, Desk!OnPage,
                    Desk!serverVars, Desk!stateVars, Desk!pageVars
<1>9. CASE Desk!OpenTaskResult
  <2>1. /\ Desk!Click /\ runs < MaxRuns /\ runs' = runs + 1
        /\ UNCHANGED <<filesOf, flight, rFiles, page, wrap>>
    BY <1>9 DEF Desk!OpenTaskResult, Desk!pageVars
  <2>2. ReviewsKept
    <3>1. MaxRuns \in Nat
      BY DEF Desk!DeskAssumption
    <3>2. runs < MaxRuns /\ runs' = runs + 1 /\ filesOf' = filesOf
      BY <2>1
    <3> QED
      BY <1>0, <3>1, <3>2 DEF RunsKnown, ReviewsKept, Desk!Run
  <2>3. WrapStep
    BY <2>1 DEF WrapStep
  <2> QED
    BY <2>1, <2>2, <2>3, DeskWaited, PageLocalStep
<1> QED
  BY <1>2, <1>3, <1>5, <1>6, <1>7, <1>8, <1>9
     DEF Desk!RemoveReviewFile, Desk!AddReviewFile, Desk!ClearReviewFiles

LEMMA PageSendKeeps ==
  ASSUME Patient, PageInv, NEW f \in Slot,
         \/ Desk!ReviewSync(f) \/ Desk!RerunActiveReview(f) \/ Desk!SubmitFillReview(f)
         \/ Desk!SubmitElementsSync(f) \/ Desk!OpenCreditRiskDialog(f)
         \/ Desk!LoadElementForm(f) \/ Desk!SubmitCompare(f)
  PROVE  PageInv'
<1>0. RequestsFormed /\ RunsKnown /\ WrapOfFiles
  BY DEF PageInv
<1>1. Desk!Click /\ UNCHANGED <<runs, filesOf, rFiles, result>>
  BY DEF Desk!ReviewSync, Desk!RerunActiveReview, Desk!SubmitFillReview, Desk!SubmitElementsSync,
         Desk!OpenCreditRiskDialog, Desk!LoadElementForm, Desk!SubmitCompare, Desk!OnPage, Desk!InDialog,
         Desk!serverVars, Desk!stateVars
<1>2. \A g \in Slot : flight[g] = Desk!Idle
  BY <1>1, DeskWaited
<1>3. WrapStep
  <2>1. CASE Desk!ReviewSync(f) \/ Desk!RerunActiveReview(f)
    BY <2>1 DEF Desk!ReviewSync, Desk!RerunActiveReview, Desk!SubmitReviewSync, Desk!Spin, Desk!Blank,
                WrapStep
  <2>2. CASE \/ Desk!SubmitFillReview(f) \/ Desk!SubmitElementsSync(f) \/ Desk!OpenCreditRiskDialog(f)
             \/ Desk!SubmitCompare(f)
    BY <1>1, <2>2 DEF Desk!SubmitFillReview, Desk!SubmitElementsSync, Desk!OpenCreditRiskDialog,
                      Desk!SubmitCompare, Desk!pageVars, WrapStep
  <2>3. CASE Desk!LoadElementForm(f)
    BY <2>3 DEF Desk!LoadElementForm, WrapStep
  <2> QED
    BY <2>1, <2>2, <2>3
<1>4. ReviewsKept /\ RunsKnown' /\ WrapOfFiles'
  BY <1>0, <1>1, <1>3, ServerUntouched, WrapKept DEF ReviewsKept
<1>5. ASSUME NEW k, NEW w, NEW n, NEW fs, NEW r, Desk!Send(f, k, w, n, fs, r),
             k = "compare" => w = "compare" /\ r = result, w = "page" => k = "review" /\ fs = rFiles
      PROVE  PageInv'
  <2>1. /\ RequestsFormed' /\ OthersKept(f)
        /\ flight'[f] = [kind |-> k, for |-> w, at |-> n, files |-> fs, run |-> r, answer |-> "none"]
    BY <1>0, <1>5, DeskSends
  <2>2. /\ flight'[f].kind = k /\ flight'[f].for = w /\ flight'[f].files = fs /\ flight'[f].run = r
        /\ flight'[f].answer = "none"
    BY <2>1
  <2> QED
    BY <1>1, <1>2, <1>4, <1>5, <2>1, <2>2, PageRequestStep
<1>6. \/ Desk!Send(f, "review", "page", view, rFiles, 0)
      \/ Desk!Send(f, "review", "fill", dialog.at, eFiles, 0)
      \/ Desk!Send(f, "review", "extract", dialog.at, eFiles, 0)
      \/ Desk!Send(f, "credit", "credit", dialog.at + 1, {}, result)
      \/ Desk!Send(f, "review", "credit", dialog.at + 1, eFiles, 0)
      \/ \E r : Desk!Send(f, "form", "project", view + 1, {}, r)
      \/ Desk!Send(f, "compare", "compare", dialog.at, pair.base, result)
  BY DEF Desk!ReviewSync, Desk!RerunActiveReview, Desk!SubmitReviewSync, Desk!SubmitFillReview,
         Desk!SubmitElementsSync, Desk!OpenCreditRiskDialog, Desk!LoadElementForm, Desk!SubmitCompare,
         Desk!SendReview, Desk!ReviewResultPayload
<1> QED
  BY <1>5, <1>6

\* A request that fails, is answered or is over.
LEMMA PageAnswerKeeps ==
  ASSUME Desk!DeskAssumption, PageInv, NEW f \in Slot, Desk!Answer(f) \/ Desk!RequestFails(f)
  PROVE  PageInv'
<1>0. RequestsFormed /\ RunsKnown /\ WrapOfFiles /\ ReviewOfPage /\ CompareOfResult /\ OneAtATime
  BY DEF PageInv
<1>1. flight[f] # Desk!Idle
  BY DeskIdle DEF Desk!Answer, Desk!Serve, Desk!SyncDone, Desk!SyncFailed, Desk!DraftReviewed,
     Desk!DraftFailed, Desk!FillDone, Desk!ExtractDone, Desk!CreditReviewed, Desk!CreditDone,
     Desk!ProjectDone, Desk!CompareDone, Desk!CompareFailed, Desk!RequestFails, Desk!Arrived
<1>2. \A g \in Slot : g # f => flight[g] = Desk!Idle
  BY <1>0, <1>1 DEF OneAtATime
<1>3. ASSUME Desk!Done(f), RunsKnown', WrapOfFiles' PROVE PageInv'
  <2>1. RequestsFormed' /\ OthersKept(f) /\ flight'[f] = Desk!Idle
    BY <1>0, <1>3, DeskEnds
  <2> QED
    BY <1>2, <1>3, <2>1, DeskIdle, PageRequestStep
<1>4. ASSUME Desk!Done(f), UNCHANGED <<runs, filesOf>>, WrapStep PROVE PageInv'
  BY <1>0, <1>3, <1>4, ServerUntouched, WrapKept DEF ReviewsKept
<1>5. CASE Desk!Serve(f) \/ Desk!RequestFails(f)
  <2>1. /\ RequestsFormed' /\ OthersKept(f)
        /\ flight'[f].for = flight[f].for /\ flight'[f].kind = flight[f].kind
        /\ flight'[f].files = flight[f].files
        /\ flight[f].kind # "review" => flight'[f].run = flight[f].run
    BY <1>0, <1>5, DeskServed
  <2>2. UNCHANGED <<rFiles, result, page, wrap>>
    BY <1>5 DEF Desk!Serve, Desk!RequestFails, Desk!stateVars, Desk!pageVars
  <2>3. CASE flight[f].kind = "review" /\ Desk!Serve(f)
    <3>1. /\ runs < MaxRuns /\ runs' = runs + 1
          /\ filesOf' = [filesOf EXCEPT ![runs + 1] = flight[f].files]
          /\ flight' = [flight EXCEPT ![f].answer = "ok", ![f].run = runs + 1]
      BY <2>3 DEF Desk!Serve
    <3>2. MaxRuns \in Nat
      BY DEF Desk!DeskAssumption
    <3>3. ReviewsKept /\ runs + 1 \in 1 .. runs' /\ filesOf'[runs + 1] = flight[f].files
      <4>1. runs + 1 \in Desk!Run /\ runs + 1 \notin 1 .. runs /\ \A r \in 1 .. runs : r \in 1 .. runs'
        BY <1>0, <3>1, <3>2 DEF RunsKnown, Desk!Run
      <4>2. runs' \in 0 .. MaxRuns /\ runs + 1 \in 1 .. runs'
        BY <1>0, <3>1, <3>2 DEF RunsKnown
      <4>3. filesOf' = [r \in Desk!Run |-> filesOf'[r]] /\ filesOf'[runs + 1] = flight[f].files
        BY <1>0, <3>1, <4>1 DEF RunsKnown
      <4>4. \A r \in 1 .. runs : r \in Desk!Run
        BY <1>0, <3>2 DEF RunsKnown, Desk!Run
      <4>5. \A r \in 1 .. runs : filesOf'[r] = filesOf[r]
        BY <1>0, <3>1, <4>1, <4>4 DEF RunsKnown
      <4> QED
        BY <4>1, <4>2, <4>3, <4>5 DEF ReviewsKept, RunsKnown
    <3>4. flight'[f].run = runs + 1
      BY <1>0, <3>1 DEF RequestsFormed, RequestFields
    <3>5. WrapOfFiles'
      BY <1>0, <2>2, <3>3, WrapKept DEF WrapStep
    <3>6. flight'[f].for = "page" => flight'[f].files = rFiles' /\ filesOf'[flight'[f].run] = rFiles'
      BY <1>0, <2>1, <2>2, <3>3, <3>4 DEF ReviewOfPage
    <3> QED
      BY <1>2, <2>1, <2>3, <3>3, <3>4, <3>5, <3>6, PageRequestStep DEF ReviewsKept
  <2>4. CASE ~(flight[f].kind = "review" /\ Desk!Serve(f))
    <3>1. UNCHANGED <<runs, filesOf>> /\ (flight'[f].answer = "ok" => flight[f].for # "page")
      <4>1. CASE Desk!RequestFails(f)
        BY <1>0, <4>1 DEF Desk!RequestFails, Desk!serverVars, RequestsFormed, RequestFields
      <4>2. CASE Desk!Serve(f)
        BY <1>0, <2>4, <4>2 DEF Desk!Serve, Desk!serverVars, RequestsFormed
      <4> QED
        BY <1>5, <4>1, <4>2
    <3>2. RunsKnown' /\ WrapOfFiles'
      BY <1>0, <2>2, <3>1, ServerUntouched, WrapKept DEF ReviewsKept, WrapStep
    <3>3. flight'[f].for = "page" => flight'[f].files = rFiles' /\ flight'[f].answer # "ok"
      BY <1>0, <2>1, <2>2, <3>1 DEF ReviewOfPage
    <3>4. flight'[f].kind = "compare" => flight'[f].run = result'
      BY <1>0, <2>1, <2>2 DEF CompareOfResult
    <3> QED
      BY <1>2, <2>1, <3>2, <3>3, <3>4, PageRequestStep
  <2> QED
    BY <2>3, <2>4
<1>6. CASE Desk!SyncDone(f)
  <2>1. /\ Desk!Done(f) /\ UNCHANGED <<runs, filesOf, rFiles, page>>
        /\ page = "review" => wrap' = Desk!Shows("result", flight[f].run)
        /\ page # "review" => wrap' = wrap
        /\ flight[f].answer = "ok" /\ flight[f].for = "page"
    BY <1>6 DEF Desk!SyncDone, Desk!Arrived, Desk!serverVars
  <2>2. flight[f].run \in 1 .. runs /\ filesOf[flight[f].run] = rFiles
    BY <1>0, <2>1 DEF ReviewOfPage
  <2>3. CASE page = "review"
    <3>1. wrap'.run = flight[f].run
      BY <2>1, <2>3 DEF Desk!Shows, Desk!Blank
    <3>2. RunsKnown' /\ WrapOfFiles'
      BY <1>0, <2>1, <2>2, <3>1, ServerUntouched DEF ReviewsKept, WrapOfFiles
    <3> QED
      BY <1>3, <2>1, <3>2
  <2>4. CASE page # "review"
    BY <1>4, <2>1, <2>4 DEF WrapStep
  <2> QED
    BY <2>3, <2>4
<1>7. CASE Desk!SyncFailed(f)
  <2>1. /\ Desk!Done(f) /\ UNCHANGED <<runs, filesOf, rFiles, page>>
        /\ wrap' = Desk!Blank \/ wrap' = wrap
    BY <1>7 DEF Desk!SyncFailed, Desk!serverVars, Desk!stateVars
  <2> QED
    BY <1>4, <2>1, HostContents DEF WrapStep
<1>8. ASSUME NEW k \in {"form", "credit"}, NEW r, Desk!Continue(f, k, r), flight[f].for # "page",
             UNCHANGED <<runs, filesOf, rFiles, page, wrap>>
      PROVE  PageInv'
  <2>1. /\ RequestsFormed' /\ OthersKept(f)
        /\ flight'[f].for = flight[f].for /\ flight'[f].kind = k
    BY <1>0, <1>8, DeskContinues
  <2>2. RunsKnown' /\ WrapOfFiles'
    BY <1>0, <1>8, ServerUntouched, WrapKept DEF ReviewsKept, WrapStep
  <2>3. flight'[f].for # "page" /\ flight'[f].kind # "compare"
    BY <1>8, <2>1
  <2> QED
    BY <1>2, <2>1, <2>2, <2>3, PageRequestStep
<1>9. CASE Desk!DraftReviewed(f)
  BY <1>8, <1>9 DEF Desk!DraftReviewed, Desk!serverVars, Desk!pageVars
<1>10. CASE Desk!CreditReviewed(f)
  <2>1. UNCHANGED <<runs, filesOf, rFiles, page, wrap>> /\ flight[f].for # "page"
    BY <1>10 DEF Desk!CreditReviewed, Desk!serverVars
  <2>2. Desk!Continue(f, "credit", result) \/ Desk!Done(f)
    BY <1>10 DEF Desk!CreditReviewed
  <2> QED
    BY <1>4, <1>8, <2>1, <2>2 DEF WrapStep
<1>11. CASE Desk!ExtractDone(f)
  BY <1>4, <1>11 DEF Desk!ExtractDone, Desk!serverVars, WrapStep
<1>12. ASSUME Desk!Done(f), UNCHANGED <<runs, filesOf, rFiles, page, wrap>> PROVE PageInv'
  BY <1>4, <1>12 DEF WrapStep
<1>13. CASE \/ Desk!DraftFailed(f) \/ Desk!FillDone(f) \/ Desk!ProjectDone(f)
  BY <1>12, <1>13 DEF Desk!DraftFailed, Desk!FillDone, Desk!ProjectDone, Desk!serverVars, Desk!stateVars
<1>14. CASE \/ Desk!CreditDone(f) \/ Desk!CompareDone(f) \/ Desk!CompareFailed(f)
  BY <1>12, <1>14 DEF Desk!CreditDone, Desk!CompareDone, Desk!CompareFailed, Desk!serverVars,
                      Desk!stateVars, Desk!pageVars
<1> QED
  BY <1>5, <1>6, <1>7, <1>9, <1>10, <1>11, <1>13, <1>14 DEF Desk!Answer

LEMMA PageInvHolds ==
  ASSUME Desk!DeskAssumption, Patient
  PROVE  Desk!Spec => []PageInv
<1>1. Desk!Init => PageInv
  <2> SUFFICES ASSUME Desk!Init PROVE PageInv
    OBVIOUS
  <2>1. /\ flight = [f \in Slot |-> Desk!Idle] /\ wrap = Desk!Blank
        /\ runs = 0 /\ filesOf = [r \in Desk!Run |-> {}]
    BY DEF Desk!Init
  <2>2. RequestsFormed /\ OneAtATime /\ ReviewOfPage /\ CompareOfResult
    BY <2>1, DeskIdle DEF RequestsFormed, OneAtATime, ReviewOfPage, CompareOfResult
  <2>3. WrapOfFiles
    BY <2>1, HostContents DEF WrapOfFiles
  <2>4. RunsKnown
    BY <2>1 DEF RunsKnown, Desk!DeskAssumption
  <2> QED
    BY <2>2, <2>3, <2>4 DEF PageInv
<1>2. PageInv /\ [Desk!Next]_(Desk!vars) => PageInv'
  <2>1. PageInv /\ UNCHANGED Desk!vars => PageInv'
    <3> SUFFICES ASSUME PageInv, UNCHANGED Desk!vars PROVE PageInv'
      OBVIOUS
    <3>1. UNCHANGED <<runs, filesOf, flight, rFiles, result, page, wrap>>
      BY DEF Desk!vars, Desk!serverVars, Desk!stateVars, Desk!pageVars
    <3>2. RequestsFormed' /\ OneAtATime' /\ RunsKnown'
      BY <3>1 DEF PageInv, RequestsFormed, OneAtATime, RunsKnown
    <3>3. ReviewOfPage' /\ WrapOfFiles' /\ CompareOfResult'
      BY <3>1 DEF PageInv, ReviewOfPage, WrapOfFiles, CompareOfResult
    <3> QED
      BY <3>2, <3>3 DEF PageInv
  <2>2. PageInv /\ Desk!User => PageInv'
    BY PageLocalKeeps, PageSendKeeps DEF Desk!User
  <2>3. PageInv /\ Desk!Next => PageInv'
    BY <2>2, PageAnswerKeeps DEF Desk!Next
  <2> QED
    BY <2>1, <2>3
<1> QED
  BY <1>1, <1>2, PTL DEF Desk!Spec

\* The result on the review page is of the files the page lists, whatever
\* results the dialogs opened meanwhile and whatever failed, for a user who
\* waits for every answer (setReviewFiles, submitReviewSync).
THEOREM PageShowsItsFilesHolds ==
  ASSUME Desk!DeskAssumption, Patient
  PROVE  Desk!Spec => []Desk!PageShowsItsFiles
<1>1. PageInv => Desk!PageShowsItsFiles
  BY DEF PageInv, WrapOfFiles, Desk!PageShowsItsFiles
<1> QED
  BY <1>1, PageInvHolds, PTL

-----------------------------------------------------------------------------
(* The connection *)

\* An address in use is one of a service, so that a reload shows it as itself.
SessionInv ==
  /\ base \in Base /\ baseInput \in Session!Address
  /\ Session!AddressApplied

\* The address of the next request is the one the field shows, through every
\* edit, save and reload (applyConfig, loadConfigUI, saveConfig).
THEOREM AddressAppliedHolds ==
  ASSUME Session!SessionAssumption
  PROVE  Session!Spec => []Session!AddressApplied
<1>1. Session!Init => SessionInv
  BY DEF Session!Init, SessionInv, Session!AddressApplied, Session!Normalise,
         Session!Address, Session!SessionAssumption
<1>2. SessionInv /\ [Session!Next]_Session!vars => SessionInv'
  <2> SUFFICES ASSUME SessionInv, [Session!Next]_Session!vars PROVE SessionInv'
    OBVIOUS
  <2>1. ASSUME NEW input \in Session!Address, Session!TypeBase(input) PROVE SessionInv'
    <3>1. Session!Normalise(input) \in Base
      BY DEF Session!Normalise, Session!Address, Session!SessionAssumption
    <3> QED
      BY <2>1, <3>1 DEF Session!TypeBase, Session!ApplyConfig, SessionInv, Session!AddressApplied,
                        Session!Normalise
  <2>2. CASE Session!SaveConfig
    <3>1. base' = base /\ baseInput' = baseInput
      BY <2>2 DEF Session!SaveConfig, Session!ApplyConfig, SessionInv, Session!AddressApplied
    <3> QED
      BY <3>1 DEF SessionInv, Session!AddressApplied, Session!Normalise
  <2>3. ASSUME NEW tok, Session!Reload(tok) PROVE SessionInv'
    <3>1. /\ base' = base /\ base # Blank
          /\ baseInput' = [text |-> IF base = DefaultBase THEN Blank ELSE base, slash |-> FALSE]
      BY <2>3 DEF Session!Reload, Session!LoadConfigUI, SessionInv, Session!SessionAssumption
    <3> QED
      BY <3>1 DEF SessionInv, Session!AddressApplied, Session!Normalise, Session!Address
  <2>4. CASE base' = base /\ baseInput' = baseInput
    BY <2>4 DEF SessionInv, Session!AddressApplied, Session!Normalise
  <2> QED
    BY <2>1, <2>2, <2>3, <2>4
       DEF Session!Next, Session!vars, Session!TypeToken, Session!HealthTick,
           Session!HealthAnswers, Session!HealthFails
<1>3. SessionInv => Session!AddressApplied
  BY DEF SessionInv
<1> QED
  BY <1>1, <1>2, <1>3, PTL DEF Session!Spec
=============================================================================
