----------------------------- MODULE MCProgress -----------------------------
(***************************************************************************)
(* The parts that have to come to an end, in one run of TLC: the dialog of *)
(* a task, the task list, the connection and the preview of the console,   *)
(* and the model transport.  Init picks a part, which then runs by itself: *)
(* a variable that several parts have stands for the one of the part       *)
(* picked, and the variables of the others are Unused.                     *)
(***************************************************************************)
EXTENDS Naturals

VARIABLES
  part,
  retry, opened, taskOf, body, detailTimer, intervals, top,           \* TaskDetail
  page, view, views, select, table, pages,                            \* TaskList
  base, token, baseInput, tokenInput, authHeaderName, line, calls,    \* ConsoleSession
  edits, fails,
  files, url, urls, urlOf, kind, content, pane, modal, opens,         \* ContractPreview
  state, failures, probe, generation, cooled, limit, free, active,    \* ModelTransport
  waiting, pc, permit, attempt, answer,
  status, shown, flight, errors                                       \* several

Unused == 0

\* Requests in flight, calls under way, threads.
Lane == 1 .. 2

\* One dialog, and a task that may be tried again.
Detail == INSTANCE TaskDetail WITH
  Task <- {"t1"}, Slot <- Lane, MaxRetries <- 1, MaxDialogs <- 1, MaxErrors <- 0

\* A long list, and a filter under which one page is left.
List == INSTANCE TaskList WITH
  Filter <- {"", "RUNNING"}, All <- "", Total <- [f \in {"", "RUNNING"} |-> IF f = "" THEN 5 ELSE 1],
  Size <- 2, Patient <- TRUE, Slot <- Lane, MaxViews <- 3

\* Two services that ask for the token in different headers.
HeaderOf == [local |-> "X-API-Token", remote |-> "X-Review-Token"]
Session == INSTANCE ConsoleSession WITH
  Base <- {"local", "remote"}, DefaultBase <- "local",
  Header <- {"X-API-Token", "X-Review-Token"}, DefaultHeader <- "X-API-Token",
  Token <- {"t1"}, NoToken <- "none", Blank <- "",
  MaxCalls <- 2, MaxEdits <- 4, MaxFails <- 2

\* A file that is uploaded and one that the browser shows itself.
Preview == INSTANCE ContractPreview WITH
  File <- {"x", "p"}, Native <- {"p"}, Patient <- FALSE, Slot <- Lane,
  MaxOpens <- 3, MaxErrors <- 1

\* One slot and a breaker that opens at once, while the queue timeout changes.
Transport == INSTANCE ModelTransport WITH
  Thread <- Lane, Threshold <- 1, MaxAttempts <- 2, Limits <- {1}, TimeoutChanges <- TRUE,
  MaxGeneration <- 3

ASSUME Detail!DialogAssumption
ASSUME List!FilterAssumption /\ List!SizeAssumption
ASSUME Session!SessionAssumption
ASSUME Preview!PreviewAssumption
ASSUME Transport!TransportAssumption

-----------------------------------------------------------------------------

detailVars    == <<retry, opened, taskOf, body, detailTimer, intervals, top>>
listVars      == <<page, view, views, select, table, pages>>
sessionVars   == <<base, token, baseInput, tokenInput, authHeaderName, line, calls, edits, fails>>
previewVars   == <<files, url, urls, urlOf, kind, content, pane, modal, opens>>
transportVars == <<state, failures, probe, generation, cooled, limit, free, active, waiting,
                   pc, permit, attempt, answer>>

vars == <<part, detailVars, listVars, sessionVars, previewVars, transportVars,
          status, shown, flight, errors>>

NoDetail ==
  /\ retry = Unused /\ opened = Unused /\ taskOf = Unused /\ body = Unused
  /\ detailTimer = Unused /\ intervals = Unused /\ top = Unused
NoList ==
  /\ page = Unused /\ view = Unused /\ views = Unused
  /\ select = Unused /\ table = Unused /\ pages = Unused
NoSession ==
  /\ base = Unused /\ token = Unused /\ baseInput = Unused /\ tokenInput = Unused
  /\ authHeaderName = Unused /\ line = Unused /\ calls = Unused
  /\ edits = Unused /\ fails = Unused
NoPreview ==
  /\ files = Unused /\ url = Unused /\ urls = Unused /\ urlOf = Unused /\ kind = Unused
  /\ content = Unused /\ pane = Unused /\ modal = Unused /\ opens = Unused
NoTransport ==
  /\ state = Unused /\ failures = Unused /\ probe = Unused /\ generation = Unused
  /\ cooled = Unused /\ limit = Unused /\ free = Unused /\ active = Unused
  /\ waiting = Unused /\ pc = Unused /\ permit = Unused /\ attempt = Unused
  /\ answer = Unused

Init ==
  \/ /\ part = "detail" /\ Detail!DetailInit
     /\ NoList /\ NoSession /\ NoPreview /\ NoTransport
  \/ /\ part = "list" /\ List!Init
     /\ NoDetail /\ NoSession /\ NoPreview /\ NoTransport
     /\ shown = Unused /\ errors = Unused
  \/ /\ part = "session" /\ Session!Init
     /\ NoDetail /\ NoList /\ NoPreview /\ NoTransport
     /\ status = Unused /\ shown = Unused /\ flight = Unused /\ errors = Unused
  \/ /\ part = "preview" /\ Preview!Init
     /\ NoDetail /\ NoList /\ NoSession /\ NoTransport
     /\ status = Unused
  \/ /\ part = "transport" /\ Transport!Init
     /\ NoDetail /\ NoList /\ NoSession /\ NoPreview
     /\ status = Unused /\ shown = Unused /\ flight = Unused /\ errors = Unused

\* A step of one part leaves the variables of the others alone.
InDetail(A) ==
  /\ part = "detail" /\ A
  /\ UNCHANGED <<part, listVars, sessionVars, previewVars, transportVars>>
InList(A) ==
  /\ part = "list" /\ A
  /\ UNCHANGED <<part, detailVars, sessionVars, previewVars, transportVars, shown, errors>>
InSession(A) ==
  /\ part = "session" /\ A
  /\ UNCHANGED <<part, detailVars, listVars, previewVars, transportVars,
                 status, shown, flight, errors>>
InPreview(A) ==
  /\ part = "preview" /\ A
  /\ UNCHANGED <<part, detailVars, listVars, sessionVars, transportVars, status>>
InTransport(A) ==
  /\ part = "transport" /\ A
  /\ UNCHANGED <<part, detailVars, listVars, sessionVars, previewVars,
                 status, shown, flight, errors>>

Next ==
  \/ InDetail(Detail!DetailNext)
  \/ InList(List!Next)
  \/ InSession(Session!Next)
  \/ InPreview(Preview!Next)
  \/ InTransport(Transport!Next)

\* The fairness of the parts.  Only one of them runs, so a conjunct of one and a
\* conjunct of another are one conjunct: what answers, and what goes on by itself.
Answered(n) ==
  \/ InDetail(Detail!Answer(n))
  \/ InList(List!Arrival(n))
  \/ InSession(Session!HealthAnswers(n) \/ Session!HealthFails(n))
  \/ InPreview(Preview!Answers(n))
  \/ InTransport(Transport!Step(n))
Continued(n) ==
  \/ InDetail(Detail!FirstAnswer(n) \/ Detail!PollAnswer(n) \/ Detail!ResultAnswer(n))
  \/ InSession(n = 1 /\ Session!HealthTick)
Polled == InDetail(\E f \in Lane : Detail!Poll(f, 1))

Fairness ==
  /\ \A n \in Lane : WF_vars(Answered(n)) /\ WF_vars(Continued(n))
  /\ SF_vars(Polled)

Spec == Init /\ [][Next]_vars /\ Fairness

-----------------------------------------------------------------------------
(* The properties of the parts; see their modules *)

\* Connection: in whatever order the answers of two services come, header name and
\* health line end up being those of the address in use.
HealthFollowsBase == <>[](part = "session" => authHeaderName = HeaderOf[base] /\ line = base)

\* Task dialog: once the task has its final status for good, the last interval is
\* cleared, and the dialog does not show an earlier status for ever.
RefreshSettles ==
  /\ <>[](part = "detail" => status["t1"] \in Detail!Done \cup {"ABSENT", "PURGED"})
       => <>[](part = "detail" => intervals[1] = 0)
  /\ <>[](part = "detail" => opened = 1 /\ status["t1"] \in Detail!Done)
       => ~<>[](part = "detail" /\ top = 1 /\ shown /\ Detail!Refreshing(1))

\* What was begun ends: the skeleton rows of the task list, the opening of a
\* contract in a dialog that stays open, and the probe of the breaker, whether it
\* is answered, times out in the queue or fails.
WaitsEnd ==
  /\ (part = "list" /\ view # 0 /\ table = List!Loading)
       ~> (part = "list" => view = 0 \/ table # List!Loading)
  /\ (part = "preview" /\ pane.viewer = "opening")
       ~> (part = "preview" => pane.viewer # "opening" \/ modal # "extract")
  /\ (part = "transport" /\ probe) ~> (part = "transport" => ~probe)
=============================================================================
