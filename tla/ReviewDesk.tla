----------------------------- MODULE ReviewDesk -----------------------------
(***************************************************************************)
(* The review page and the draft page of the console (app.js:              *)
(* setReviewFiles, submitReviewSync, openFillReviewDialog, runDraftReview, *)
(* openCreditRiskDialog, openCompareDialog, submitElementsSync,            *)
(* loadElementForm).  Both pages and all dialogs share one review result;  *)
(* every answer continues a function whose hosts were captured before.     *)
(* A result is the number of the review that produced it.  Package ids and *)
(* the review context travel with the files and are not told apart.        *)
(***************************************************************************)
EXTENDS Naturals, FiniteSets

CONSTANTS
  File,       \* contract files, identified by fileKey
  Patient,    \* the user waits for every answer
  Comparing,  \* the user compares documents
  Slot,       \* bound: requests in flight
  MaxRuns,    \* bound: reviews
  MaxClicks,  \* bound: things the user does
  MaxErrors   \* bound: requests that fail

DeskAssumption ==
  /\ Patient \in BOOLEAN /\ Comparing \in BOOLEAN
  /\ MaxRuns \in Nat /\ MaxClicks \in Nat /\ MaxErrors \in Nat

VARIABLES
  runs, filesOf,   \* the server: reviews done, and the files of each
  rFiles, eFiles,  \* reviewState.files, elementsState.files
  result,          \* reviewState.result
  form,            \* elementsState.form: the result it was projected from
  over,            \* elementsState.overrides: the forms they were typed in
  pair,            \* compareState.baseFile and compareFile, as sets
  page, view,      \* currentPage, and its number among all pages rendered
  listed, wrap,    \* #review-files and #review-result of the review page
  drawn,           \* #contract-fill-form of the draft page
  dialog, shown,   \* the dialog in the modal; the modal is visible
  flight,          \* requests in flight
  clicks, errors

serverVars == <<runs, filesOf>>
stateVars  == <<rFiles, eFiles, result, form, over, pair>>
pageVars   == <<page, view, listed, wrap, drawn>>
modalVars  == <<dialog, shown>>
vars == <<serverVars, stateVars, pageVars, modalVars, flight, clicks, errors>>

Run == 1 .. MaxRuns

\* What a host shows.  A dialog may show a progress card above its content.
Blank == [spin |-> FALSE, is |-> "blank", run |-> 0]
Spin  == [Blank EXCEPT !.spin = TRUE]
Shows(kind, r) == [Blank EXCEPT !.is = kind, !.run = r]

Idle == [kind |-> "idle", for |-> "none", at |-> 0, files |-> {}, run |-> 0, answer |-> "none"]
Pending(kind) == {f \in Slot : flight[f].kind = kind}

\* Something the user does, outside the modal unless it is the dialog's own.
Click ==
  /\ clicks < MaxClicks
  /\ clicks' = clicks + 1
  /\ Patient => \A f \in Slot : flight[f] = Idle
OnPage(p) == Click /\ page = p /\ ~shown
InDialog(d) == Click /\ shown /\ dialog.kind = d

-----------------------------------------------------------------------------
(* Requests *)

Send(f, kind, for, at, files, r) ==
  /\ flight[f] = Idle
  /\ flight' = [flight EXCEPT ![f] = [kind |-> kind, for |-> for, at |-> at,
                                      files |-> files, run |-> r, answer |-> "none"]]

\* The first half of a review: a slot and the files, sent by `for`.
SendReview(f, for, at, files) == files # {} /\ Send(f, "review", for, at, files, 0)

\* A second request of the same function.
Continue(f, kind, r) ==
  flight' = [flight EXCEPT ![f].kind = kind, ![f].run = r, ![f].answer = "none"]

Done(f) == flight' = [flight EXCEPT ![f] = Idle]

Arrived(f, kind, answer) == flight[f].kind = kind /\ flight[f].answer = answer

\* The server reviews the files, projects a form, looks up credit risks, or
\* compares: with a result it attaches the comparison to it and refuses a
\* base document that result does not have.
Serve(f) ==
  LET r == flight[f] IN
  /\ r # Idle /\ r.answer = "none"
  /\ \/ /\ r.kind = "review" /\ runs < MaxRuns
        /\ runs' = runs + 1
        /\ filesOf' = [filesOf EXCEPT ![runs + 1] = r.files]
        /\ flight' = [flight EXCEPT ![f].answer = "ok", ![f].run = runs + 1]
     \/ /\ r.kind \in {"form", "credit"}
        /\ flight' = [flight EXCEPT ![f].answer = "ok"]
        /\ UNCHANGED serverVars
     \/ /\ r.kind = "compare"
        /\ flight' = [flight EXCEPT ![f].answer =
             IF r.run = 0 \/ r.files \subseteq filesOf[r.run] THEN "ok" ELSE "error"]
        /\ UNCHANGED serverVars
  /\ UNCHANGED <<stateVars, pageVars, modalVars, clicks, errors>>

\* The server or the network fails.
RequestFails(f) ==
  /\ flight[f] # Idle /\ flight[f].answer = "none"
  /\ errors < MaxErrors
  /\ errors' = errors + 1
  /\ flight' = [flight EXCEPT ![f].answer = "error"]
  /\ UNCHANGED <<serverVars, stateVars, pageVars, modalVars, clicks>>

-----------------------------------------------------------------------------
(* Pages and dialogs *)

\* renderReviewPage: the file list and the result start empty, whatever files
\* and result the state still has.
RenderReviewPage == listed' = {} /\ wrap' = Blank /\ UNCHANGED drawn

\* renderElementForm, where the draft page is the one shown.
RenderElementForm(p, fm) ==
  drawn' = IF p = "draft" THEN Shows("form", fm) ELSE drawn

RenderDraftPage(fm) == RenderElementForm("draft", fm) /\ UNCHANGED <<listed, wrap>>

Render(p, fm) ==
  /\ page' = p /\ view' = view + 1
  /\ CASE p = "review" -> RenderReviewPage
       [] p = "draft"  -> RenderDraftPage(fm)
       [] OTHER        -> UNCHANGED <<listed, wrap, drawn>>

Navigate(p) ==
  /\ Click /\ ~shown
  /\ Render(p, form)
  /\ UNCHANGED <<serverVars, stateVars, modalVars, flight, errors>>

OpenModal(kind, body) ==
  /\ dialog' = [kind |-> kind, at |-> dialog.at + 1, body |-> body]
  /\ shown' = TRUE

CloseModal ==
  /\ Click /\ shown
  /\ shown' = FALSE
  /\ UNCHANGED <<serverVars, stateVars, pageVars, dialog, flight, errors>>

\* Content for a host captured in dialog number `at`: lost once it is gone.
ShowIn(at, content) ==
  dialog' = IF dialog.at = at THEN [dialog EXCEPT !.body = content] ELSE dialog

-----------------------------------------------------------------------------
(* The review page *)

\* Mutant: the old result stays on the page.
SetReviewFilesKeepsResult(inc) ==
  LET append == inc # {} /\ rFiles # {} IN
  /\ rFiles' = IF append THEN rFiles \cup inc ELSE inc
  /\ listed' = rFiles' /\ result' = 0
  /\ UNCHANGED <<serverVars, eFiles, form, over, pair, page, view, wrap, drawn,
                 modalVars, flight, errors>>

\* setReviewFiles: with files in the state everything but an empty list is
\* appended (mergeFiles: by fileKey); the option `replace` is not looked at.
SetReviewFiles(inc) ==
  LET append == inc # {} /\ rFiles # {} IN
  /\ rFiles' = IF append THEN rFiles \cup inc ELSE inc
  /\ listed' = rFiles' /\ result' = 0 /\ wrap' = Blank
  /\ UNCHANGED <<serverVars, eFiles, form, over, pair, page, view, drawn,
                 modalVars, flight, errors>>

\* The dropzone, and renderReviewFiles' buttons.
AddReviewFile(x) == OnPage("review") /\ SetReviewFiles({x})
RemoveReviewFile(x) == OnPage("review") /\ x \in listed /\ SetReviewFiles(rFiles \ {x})
ClearReviewFiles == OnPage("review") /\ listed # {} /\ SetReviewFiles({})

\* submitReviewSync up to its await.
SubmitReviewSync(f) ==
  /\ SendReview(f, "page", view, rFiles)
  /\ wrap' = Spin

\* The button of the page, enabled again when its request is over.
ReviewSync(f) ==
  /\ OnPage("review")
  /\ ~\E g \in Slot : flight[g].for = "page" /\ flight[g].at = view
  /\ SubmitReviewSync(f)
  /\ UNCHANGED <<serverVars, stateVars, page, view, listed, drawn, modalVars, errors>>

\* Its answer: renderReviewResult looks up #review-result again, on the page
\* or else in the dialog of the draft page.
SyncDone(f) ==
  LET r == flight[f].run IN
  /\ Arrived(f, "review", "ok") /\ flight[f].for = "page"
  /\ result' = r
  /\ wrap' = IF page = "review" THEN Shows("result", r) ELSE wrap
  /\ dialog' = IF page # "review" /\ dialog.kind = "fill"
                 THEN [dialog EXCEPT !.body = Shows("result", r)] ELSE dialog
  /\ Done(f)
  /\ UNCHANGED <<serverVars, rFiles, eFiles, form, over, pair, page, view, listed, drawn,
                 shown, clicks, errors>>

SyncFailed(f) ==
  /\ Arrived(f, "review", "error") /\ flight[f].for = "page"
  /\ wrap' = IF page = "review" /\ view = flight[f].at THEN Blank ELSE wrap
  /\ Done(f)
  /\ UNCHANGED <<serverVars, stateVars, page, view, listed, drawn, modalVars, clicks, errors>>

\* openTaskResult: the result of a task, of files of another session.
OpenTaskResult ==
  /\ Click /\ ~shown /\ page \in {"review", "tasks"} /\ runs < MaxRuns
  /\ runs' = runs + 1
  /\ result' = runs + 1
  /\ OpenModal("task", Shows("result", runs + 1))
  /\ UNCHANGED <<filesOf, rFiles, eFiles, form, over, pair, pageVars, flight, errors>>

-----------------------------------------------------------------------------
(* The draft page *)

\* setElementFiles: the review result and the form are left alone.
SetElementFiles(inc, replace) ==
  LET append == ~replace /\ inc # {} /\ eFiles # {} IN
  /\ OnPage("draft")
  /\ eFiles' = IF append THEN eFiles \cup inc ELSE inc
  /\ UNCHANGED <<serverVars, rFiles, result, form, over, pair, pageVars,
                 modalVars, flight, errors>>

AddElementFile(x) == SetElementFiles({x}, FALSE)
RemoveElementFile(x) == x \in eFiles /\ SetElementFiles(eFiles \ {x}, TRUE)

\* The user types a value into the form.
TypeValue ==
  /\ OnPage("draft") /\ drawn.is = "form"
  /\ over' = over \cup {drawn.run}
  /\ UNCHANGED <<serverVars, rFiles, eFiles, result, form, pair, pageVars,
                 modalVars, flight, errors>>

\* openFillReviewDialog: a result there is gets shown, whatever files it is of.
OpenFillReviewDialog ==
  /\ OnPage("draft") /\ eFiles # {}
  /\ OpenModal("fill", IF result # 0 THEN Shows("result", result) ELSE Shows("start", 0))
  /\ UNCHANGED <<serverVars, stateVars, pageVars, flight, errors>>

\* submitFillReview from the start form or as "review again".
SubmitFillReview(f) ==
  /\ InDialog("fill") /\ page = "draft"
  /\ dialog.body.is \in {"start", "result"}
  /\ SendReview(f, "fill", dialog.at, eFiles)
  /\ ShowIn(dialog.at, Spin)
  /\ UNCHANGED <<serverVars, stateVars, pageVars, shown, errors>>

OpenExtractDialog ==
  /\ OnPage("draft") /\ eFiles # {}
  /\ OpenModal("extract", Blank)
  /\ UNCHANGED <<serverVars, stateVars, pageVars, flight, errors>>

SubmitElementsSync(f) ==
  /\ InDialog("extract")
  /\ ~\E g \in Slot : flight[g].for = "extract" /\ flight[g].at = dialog.at
  /\ SendReview(f, "extract", dialog.at, eFiles)
  /\ UNCHANGED <<serverVars, stateVars, pageVars, modalVars, errors>>

\* rerunActiveReview in a dialog outside the draft page: the page's files.
RerunActiveReview(f) ==
  /\ InDialog("task") /\ page = "review"
  /\ SubmitReviewSync(f)
  /\ UNCHANGED <<serverVars, stateVars, page, view, listed, drawn, modalVars, errors>>

\* openCreditRiskDialog: reviews first when there is no result.
OpenCreditRiskDialog(f) ==
  /\ Click /\ ~shown /\ page \in {"review", "draft"}
  /\ OpenModal("credit", Spin)
  /\ IF result # 0 THEN Send(f, "credit", "credit", dialog.at + 1, {}, result)
     ELSE page = "draft" /\ SendReview(f, "credit", dialog.at + 1, eFiles)
  /\ UNCHANGED <<serverVars, stateVars, pageVars, errors>>

\* runDraftReview: the answer to the review.
DraftReviewed(f) ==
  LET r == flight[f] IN
  /\ Arrived(f, "review", "ok") /\ r.for # "page"
  /\ result' = r.run
  /\ Continue(f, "form", r.run)
  /\ UNCHANGED <<serverVars, rFiles, eFiles, form, over, pair, pageVars,
                 modalVars, clicks, errors>>

\* What fails in either half of runDraftReview, in loadElementForm or in the
\* credit dialog is shown in the host of the function that was running.
DraftFailed(f) ==
  LET r == flight[f] IN
  /\ r.answer = "error" /\ r.for \in {"fill", "extract", "credit", "project"}
  /\ IF r.for \in {"fill", "credit"} THEN ShowIn(r.at, Shows("failed", 0))
                                     ELSE UNCHANGED dialog
  /\ drawn' = IF r.for = "project" /\ page = "draft" /\ view = r.at
                THEN Shows("failed", 0) ELSE drawn
  /\ Done(f)
  /\ UNCHANGED <<serverVars, stateVars, page, view, listed, wrap, shown, clicks, errors>>

\* Mutant: values typed into the old form stay.
NewFormKeepsValues(p, r) ==
  /\ form' = r /\ UNCHANGED over
  /\ RenderElementForm(p, r)

\* elementsState.form = ..., overrides = {}, renderElementForm()
NewForm(p, r) ==
  /\ form' = r /\ over' = {}
  /\ RenderElementForm(p, r)

\* runDraftReview returns to submitFillReview: the result is appended below
\* the progress card, and is the current one again.
FillDone(f) ==
  LET r == flight[f] IN
  /\ Arrived(f, "form", "ok") /\ r.for = "fill"
  /\ NewForm(page, r.run)
  /\ result' = r.run
  /\ ShowIn(r.at, [dialog.body EXCEPT !.is = "result", !.run = r.run])
  /\ Done(f)
  /\ UNCHANGED <<serverVars, rFiles, eFiles, pair, page, view, listed, wrap, shown, clicks, errors>>

\* ... to submitElementsSync: closeModal and navigate("draft"), from anywhere.
ExtractDone(f) ==
  LET r == flight[f] IN
  /\ Arrived(f, "form", "ok") /\ r.for = "extract"
  /\ NewForm("draft", r.run)
  /\ page' = "draft" /\ view' = view + 1
  /\ shown' = FALSE
  /\ Done(f)
  /\ UNCHANGED <<serverVars, rFiles, eFiles, result, pair, listed, wrap, dialog, clicks, errors>>

\* ... to openCreditRiskDialog, which reads the current result again.
CreditReviewed(f) ==
  LET r == flight[f] IN
  /\ Arrived(f, "form", "ok") /\ r.for = "credit"
  /\ NewForm(page, r.run)
  /\ IF result # 0 THEN Continue(f, "credit", result) /\ UNCHANGED dialog
                   ELSE Done(f) /\ ShowIn(r.at, Shows("failed", 0))
  /\ UNCHANGED <<serverVars, rFiles, eFiles, result, pair, page, view, listed, wrap, shown,
                 clicks, errors>>

\* renderCreditRiskView
CreditDone(f) ==
  LET r == flight[f] IN
  /\ Arrived(f, "credit", "ok")
  /\ ShowIn(r.at, Shows("result", r.run))
  /\ Done(f)
  /\ UNCHANGED <<serverVars, stateVars, pageVars, shown, clicks, errors>>

\* The button below a result: closeModal, navigate("draft"), loadElementForm.
LoadElementForm(f) ==
  LET here == IF shown THEN dialog.body ELSE wrap IN
  /\ Click
  /\ IF shown THEN dialog.kind \in {"fill", "task"} ELSE page = "review"
  /\ here.is = "result"
  /\ page' = "draft" /\ view' = view + 1
  /\ drawn' = Spin
  /\ shown' = FALSE
  /\ Send(f, "form", "project", view + 1, {}, here.run)
  /\ UNCHANGED <<serverVars, stateVars, listed, wrap, dialog, errors>>

ProjectDone(f) ==
  LET r == flight[f] IN
  /\ Arrived(f, "form", "ok") /\ r.for = "project"
  /\ NewForm(page, r.run)
  /\ Done(f)
  /\ UNCHANGED <<serverVars, rFiles, eFiles, result, pair, page, view, listed, wrap,
                 modalVars, clicks, errors>>

-----------------------------------------------------------------------------
(* Comparing documents *)

CurrentFilePool == IF page = "draft" THEN eFiles ELSE rFiles

\* openCompareDialog: the base stays what it was, else a file of the pool.
OpenCompareDialog ==
  /\ Comparing
  /\ Click /\ ~shown /\ page \in {"review", "draft"}
  /\ IF pair.base = {} /\ CurrentFilePool # {}
       THEN \E x \in CurrentFilePool : pair' = [pair EXCEPT !.base = {x}]
       ELSE UNCHANGED pair
  /\ OpenModal("compare", Blank)
  /\ UNCHANGED <<serverVars, rFiles, eFiles, result, form, over, pageVars, flight, errors>>

PickCompareFile(kind, x) ==
  /\ InDialog("compare")
  /\ pair' = [pair EXCEPT ![kind] = {x}]
  /\ UNCHANGED <<serverVars, rFiles, eFiles, result, form, over, pageVars,
                 modalVars, flight, errors>>

\* The result submitCompare sends along, if any.
ReviewResultPayload == result

SubmitCompare(f) ==
  /\ InDialog("compare")
  /\ pair.base # {} /\ pair.compare # {}
  /\ ~\E g \in Pending("compare") : flight[g].at = dialog.at
  /\ Send(f, "compare", "compare", dialog.at, pair.base, ReviewResultPayload)
  /\ ShowIn(dialog.at, Spin)
  /\ UNCHANGED <<serverVars, stateVars, pageVars, shown, errors>>

\* An answer with a result replaces the current one, which may be newer than the one
\* sent; renderCompareResult writes into the compare dialog there is now.
CompareDone(f) ==
  LET r == flight[f] IN
  /\ Arrived(f, "compare", "ok")
  /\ result' = IF r.run # 0 THEN r.run ELSE result
  /\ dialog' = IF dialog.kind = "compare"
                 THEN [dialog EXCEPT !.body = Shows("result", r.run)] ELSE dialog
  /\ Done(f)
  /\ UNCHANGED <<serverVars, rFiles, eFiles, form, over, pair, pageVars, shown,
                 clicks, errors>>

CompareFailed(f) ==
  /\ Arrived(f, "compare", "error")
  /\ ShowIn(flight[f].at, Blank)
  /\ Done(f)
  /\ UNCHANGED <<serverVars, stateVars, pageVars, shown, clicks, errors>>

-----------------------------------------------------------------------------

Init ==
  /\ runs = 0 /\ filesOf = [r \in Run |-> {}]
  /\ rFiles = {} /\ eFiles = {} /\ result = 0 /\ form = 0 /\ over = {}
  /\ pair = [base |-> {}, compare |-> {}]
  /\ page = "review" /\ view = 0 /\ listed = {} /\ wrap = Blank /\ drawn = Blank
  /\ dialog = [kind |-> "none", at |-> 0, body |-> Blank] /\ shown = FALSE
  /\ flight = [f \in Slot |-> Idle]
  /\ clicks = 0 /\ errors = 0

User ==
  \/ \E p \in {"review", "draft", "tasks"} : Navigate(p)
  \/ \E x \in File : \/ RemoveReviewFile(x) \/ AddReviewFile(x)
                     \/ AddElementFile(x) \/ RemoveElementFile(x)
                     \/ \E kind \in {"base", "compare"} : PickCompareFile(kind, x)
  \/ ClearReviewFiles \/ TypeValue \/ OpenTaskResult
  \/ OpenFillReviewDialog \/ OpenExtractDialog \/ OpenCompareDialog \/ CloseModal
  \/ \E f \in Slot : \/ ReviewSync(f) \/ RerunActiveReview(f) \/ SubmitFillReview(f)
                     \/ SubmitElementsSync(f) \/ OpenCreditRiskDialog(f)
                     \/ LoadElementForm(f) \/ SubmitCompare(f)

Answer(f) ==
  \/ Serve(f) \/ SyncDone(f) \/ SyncFailed(f) \/ DraftReviewed(f) \/ DraftFailed(f)
  \/ FillDone(f) \/ ExtractDone(f) \/ CreditReviewed(f) \/ CreditDone(f)
  \/ ProjectDone(f) \/ CompareDone(f) \/ CompareFailed(f)

Next == User \/ \E f \in Slot : Answer(f) \/ RequestFails(f)

Spec == Init /\ [][Next]_vars

-----------------------------------------------------------------------------
(* Properties *)

\* The result the review page shows is of the files the page lists.
PageShowsItsFiles ==
  page = "review" /\ wrap.is = "result" => filesOf[wrap.run] = rFiles

\* The draft page shows the form whose values it collects, after any mix of
\* reviews, extractions, projections and credit checks that end on any page.
DrawnIsForm ==
  page = "draft" /\ drawn.is = "form" => drawn.run = form

\* Values typed into one contract's form are never collected for another's.
OverridesOfForm == over \subseteq {form}

\* A progress card of the page, the credit or the compare dialog belongs to a
\* request that is still running.
NoOrphanSpinner ==
  /\ page = "review" /\ wrap.spin
       => \E f \in Pending("review") : flight[f].for = "page" /\ flight[f].at = view
  /\ dialog.kind \in {"credit", "compare"} /\ dialog.body.spin
       => \E f \in Slot : flight[f].for = dialog.kind /\ flight[f].at = dialog.at
=============================================================================
