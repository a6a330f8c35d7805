----------------------------- MODULE MCConsole -----------------------------
(***************************************************************************)
(* The pages and dialogs of the console in one run of TLC.  Init picks a   *)
(* part, which then runs by itself: a variable that several parts have     *)
(* stands for the one of the part picked, and the variables of the others  *)
(* are Unused.  A part occurs twice when its user waits for answers in one *)
(* instance and not in the other.  The instances are of Console_proofs,    *)
(* which instantiates the modules of the parts, so that its theorems can   *)
(* be cited for the parts checked here.                                    *)
(***************************************************************************)
EXTENDS Naturals, TLC

CONSTANTS
  File, Key,  \* contract files, element keys
  Task,       \* tasks
  Slot,       \* requests in flight
  LoneSlot    \* the request in flight of a user who waits

VARIABLES
  part,
  runs, filesOf, rFiles, eFiles, result, pair, listed, wrap, dialog,   \* ReviewDesk
  cat, catalog,                                                        \* ElementFields
  retry, opened, taskOf, body, detailTimer, intervals, top,            \* TaskDetail
  views, select, table, pages,                                         \* TaskList
  files, url, urls, urlOf, kind, content, pane, opens,                 \* ContractPreview
  base, token, baseInput, tokenInput, authHeaderName, line, calls,     \* ConsoleSession
  edits, fails,
  form, over, drawn, clicks, page, view, status, modal, shown, flight, errors  \* several

Unused == 0

-----------------------------------------------------------------------------
(* The constants of the parts *)

\* Comparisons are made; every request may fail once.
Comparing == TRUE
MaxErrors == 1

\* Two dialogs.
MaxRetries == 0
MaxDialogs == 2

\* A long task list, and a filter under which one page is left.
Filter   == {"", "RUNNING"}
All      == ""
Total    == [f \in Filter |-> IF f = All THEN 5 ELSE 1]
Size     == 2
MaxViews == 3

\* Two services that ask for the token in different headers.
Base          == {"local", "remote"}
DefaultBase   == "local"
Header        == {"X-API-Token", "X-Review-Token"}
DefaultHeader == "X-API-Token"
HeaderOf      == [local |-> "X-API-Token", remote |-> "X-Review-Token"]
Token         == {"t1"}
NoToken       == "none"
Blank         == ""
MaxCalls      == 2
MaxEdits      == 4
MaxFails      == 2

\* Contract files that the browser shows itself.
Native == {"p"}

\* A user who waits for the answer to every click: on the review page and in the
\* element form, and in the task list and a preview over three files.
Waiting == INSTANCE Console_proofs WITH
  Patient <- TRUE, Slot <- LoneSlot, MaxRuns <- 2, MaxClicks <- 8, MaxOpens <- 0
Browsing == INSTANCE Console_proofs WITH
  Patient <- TRUE, File <- {"x", "y", "p"}, MaxRuns <- 0, MaxClicks <- 0, MaxOpens <- 4

\* A user who does not wait: on the draft page, in the element form, and in the
\* dialogs and the fields of the header bar.
Drafting == INSTANCE Console_proofs WITH
  Patient <- FALSE, MaxRuns <- 3, MaxClicks <- 7, MaxOpens <- 0
Filling == INSTANCE Console_proofs WITH
  Patient <- FALSE, MaxRuns <- 0, MaxClicks <- 6, MaxOpens <- 0
Opening == INSTANCE Console_proofs WITH
  Patient <- FALSE, File <- {"x", "p"}, MaxRuns <- 0, MaxClicks <- 0, MaxOpens <- 3

ASSUME DeskAssumption == Drafting!Desk!DeskAssumption /\ Waiting!Desk!DeskAssumption
ASSUME FieldsAssumption == Filling!Fields!FieldsAssumption /\ Waiting!Fields!FieldsAssumption
ASSUME DialogAssumption == Opening!Detail!DialogAssumption
ASSUME ListAssumption == Browsing!List!FilterAssumption /\ Browsing!List!SizeAssumption
ASSUME PreviewAssumption ==
  Opening!Preview!PreviewAssumption /\ Browsing!Preview!PreviewAssumption
ASSUME SessionAssumption == Opening!Session!SessionAssumption

\* The task of a dialog that was not opened is not looked at.
Symmetry ==
  Permutations(File) \cup Permutations(Key) \cup Permutations(Task) \cup Permutations(Slot)

-----------------------------------------------------------------------------

deskVars    == <<runs, filesOf, rFiles, eFiles, result, pair, listed, wrap, dialog>>
fieldVars   == <<cat, catalog>>
dialogVars  == <<retry, opened, taskOf, body, detailTimer, intervals, top>>
tableVars   == <<views, select, table, pages>>
previewVars == <<files, url, urls, urlOf, kind, content, pane, opens>>
sessionVars == <<base, token, baseInput, tokenInput, authHeaderName, line, calls, edits, fails>>
formVars    == <<form, over, drawn, clicks>>
requestVars == <<shown, errors>>

vars == <<part, deskVars, fieldVars, dialogVars, tableVars, previewVars, sessionVars, formVars,
          requestVars, page, view, status, modal, flight>>

DeskPart    == {"desk", "patient_desk"}
FieldsPart  == {"fields", "patient_fields"}
PreviewPart == {"preview", "patient_preview"}

\* The parts that have a variable of several parts.
FormPart    == DeskPart \cup FieldsPart
PagePart    == FormPart \cup {"list"}
ViewPart    == DeskPart \cup {"list"}
StatusPart  == {"detail", "list"}
ModalPart   == FieldsPart \cup PreviewPart
RequestPart == FormPart \cup PreviewPart \cup {"detail"}
FlightPart  == RequestPart \cup {"list"}

\* The variables of the parts that were not picked.
Idle ==
  /\ part \notin DeskPart =>
       /\ runs = Unused /\ filesOf = Unused /\ rFiles = Unused /\ eFiles = Unused
       /\ result = Unused /\ pair = Unused /\ listed = Unused /\ wrap = Unused
       /\ dialog = Unused
  /\ part \notin FieldsPart => cat = Unused /\ catalog = Unused
  /\ part # "detail" =>
       /\ retry = Unused /\ opened = Unused /\ taskOf = Unused /\ body = Unused
       /\ detailTimer = Unused /\ intervals = Unused /\ top = Unused
  /\ part # "list" => views = Unused /\ select = Unused /\ table = Unused /\ pages = Unused
  /\ part \notin PreviewPart =>
       /\ files = Unused /\ url = Unused /\ urls = Unused /\ urlOf = Unused
       /\ kind = Unused /\ content = Unused /\ pane = Unused /\ opens = Unused
  /\ part # "session" =>
       /\ base = Unused /\ token = Unused /\ baseInput = Unused /\ tokenInput = Unused
       /\ authHeaderName = Unused /\ line = Unused /\ calls = Unused
       /\ edits = Unused /\ fails = Unused
  /\ part \notin FormPart =>
       form = Unused /\ over = Unused /\ drawn = Unused /\ clicks = Unused
  /\ part \notin PagePart => page = Unused
  /\ part \notin ViewPart => view = Unused
  /\ part \notin StatusPart => status = Unused
  /\ part \notin ModalPart => modal = Unused
  /\ part \notin RequestPart => shown = Unused /\ errors = Unused
  /\ part \notin FlightPart => flight = Unused

Parts == FormPart \cup PreviewPart \cup {"detail", "list", "session"}

Init ==
  /\ part \in Parts
  /\ Idle
  /\ \/ part = "desk" /\ Drafting!Desk!Init
     \/ part = "patient_desk" /\ Waiting!Desk!Init
     \/ part = "fields" /\ Filling!Fields!Init
     \/ part = "patient_fields" /\ Waiting!Fields!Init
     \/ part = "detail" /\ Opening!Detail!DetailInit
     \/ part = "list" /\ Browsing!List!Init
     \/ part = "preview" /\ Opening!Preview!Init
     \/ part = "patient_preview" /\ Browsing!Preview!Init
     \/ part = "session" /\ Opening!Session!Init

\* A step of one part leaves the variables of the others alone.
Rest ==
  /\ part \notin DeskPart => UNCHANGED deskVars
  /\ part \notin FieldsPart => UNCHANGED fieldVars
  /\ part # "detail" => UNCHANGED dialogVars
  /\ part # "list" => UNCHANGED tableVars
  /\ part \notin PreviewPart => UNCHANGED previewVars
  /\ part # "session" => UNCHANGED sessionVars
  /\ part \notin FormPart => UNCHANGED formVars
  /\ part \notin PagePart => UNCHANGED page
  /\ part \notin ViewPart => UNCHANGED view
  /\ part \notin StatusPart => UNCHANGED status
  /\ part \notin ModalPart => UNCHANGED modal
  /\ part \notin RequestPart => UNCHANGED requestVars
  /\ part \notin FlightPart => UNCHANGED flight

In(p, A) == part = p /\ A /\ UNCHANGED part /\ Rest

Next ==
  \/ In("desk", Drafting!Desk!Next)
  \/ In("patient_desk", Waiting!Desk!Next)
  \/ In("fields", Filling!Fields!Next)
  \/ In("patient_fields", Waiting!Fields!Next)
  \/ In("detail", Opening!Detail!DetailNext)
  \/ In("list", Browsing!List!Next)
  \/ In("preview", Opening!Preview!Next)
  \/ In("patient_preview", Browsing!Preview!Next)
  \/ In("session", Opening!Session!Next)

Spec == Init /\ [][Next]_vars

-----------------------------------------------------------------------------
(* The properties of the parts; see their modules *)

\* Task dialogs, their closures sharing detailTimer: the intervals alive are
\* exactly the one detailTimer names, and it polls only for a body that says so.
TimersAccounted == part = "detail" => Opening!Detail!TimersAccounted

\* Review page: for a user who waits, the result shown is of the files chosen.
PageShowsItsFiles == part = "patient_desk" => Waiting!Desk!PageShowsItsFiles

\* Draft page: whatever reviews, extractions and credit checks end in whatever
\* order, the form drawn is the one whose values are collected, the values typed
\* are of that form, and a progress card belongs to a request that still runs.
DraftInStep ==
  part = "desk" =>
    /\ Drafting!Desk!DrawnIsForm /\ Drafting!Desk!OverridesOfForm
    /\ Drafting!Desk!NoOrphanSpinner

\* Element form: what is collected is what was filled in last, through any number
\* of renderings; for a user who waits, dialog and form follow the catalogue.
FieldsInStep ==
  /\ part = "fields" => Filling!Fields!CollectsWhatWasFilled
  /\ part = "patient_fields" => Waiting!Fields!DialogCurrent

\* Task list and connection: for a user who waits, the rows are of the page and the
\* filter in tasksState, and that page exists; the address in use is the one the
\* field of the header bar shows.
StateShown ==
  /\ part = "list" => Browsing!List!TableCurrent /\ Browsing!List!PageExists
  /\ part = "session" => Opening!Session!AddressApplied

\* Preview: object URLs are neither leaked nor used after they are revoked; for a
\* user who waits, the contract shown is the one named above it.
PreviewExact ==
  /\ part = "preview" => Opening!Preview!UrlsAccounted
  /\ part = "patient_preview" => Browsing!Preview!PaneShowsNamedFile
=============================================================================
