----------------------------- MODULE RulesDesk -----------------------------
(***************************************************************************)
(* The rules page of the console (app.js: renderRulesPage, loadAiRules,    *)
(* openRuleForm, saveRuleForm, toggleRuleEnabled, confirmCandidate,        *)
(* deleteRule) on top of the rule library.  An edit is one step of the     *)
(* server (see RuleOverlay for the threads behind it); the client lists    *)
(* the rules again after every edit that was accepted.                     *)
(***************************************************************************)
EXTENDS RuleEdits

CONSTANTS
  Patient,   \* the user waits for each edit and for the list
  Slot,      \* bound: requests in flight
  MaxViews,  \* bound: times the page is rendered
  MaxEdits,  \* bound: edits
  MaxErrors  \* bound: list requests that fail

DeskAssumption ==
  /\ Patient \in BOOLEAN
  /\ MaxViews \in Nat \ {0} /\ MaxEdits \in Nat /\ MaxErrors \in Nat

VARIABLES
  file,    \* the overlay on the server
  view, views,  \* the rendered page (0: elsewhere), pages rendered so far
  list,    \* what #ai-rules-list shows
  form,    \* the form in the modal
  shown,   \* the modal is visible
  flight,  \* requests in flight
  edits, errors

vars == <<file, view, views, list, form, shown, flight, edits, errors>>

Content == {"loading", "failed", "rules"}
Loading == [is |-> "loading", of |-> EmptyOverlay]
Failed  == [is |-> "failed", of |-> EmptyOverlay]
Rules(o) == [is |-> "rules", of |-> o]

AnyId == CHOOSE i \in Id : TRUE
SomeEdit == [kind |-> "enable", id |-> AnyId, rule |-> BaseRule]
Idle == [kind |-> "idle", view |-> 0, edit |-> SomeEdit, answer |-> Loading]
NoForm == [editing |-> FALSE, id |-> AnyId, level |-> "WARN"]

Editing == \E f \in Slot : flight[f].kind = "edit"
Busy == Editing \/ \E f \in Slot : flight[f].kind = "get" /\ flight[f].view = view
CanUse == view # 0 /\ (Patient => ~Busy)

\* A row of the list can be used; the modal's mask covers the page.
HasRow(i) ==
  /\ CanUse /\ ~shown /\ list.is = "rules"
  /\ i \in Listed(list.of) \/ IsCandidate(list.of, i)
IsDraft(i) == IsCandidate(list.of, i)

-----------------------------------------------------------------------------
(* Requests *)

SendEdit(f, kind, i, r) ==
  /\ flight[f] = Idle /\ edits < MaxEdits
  /\ edits' = edits + 1
  /\ flight' = [flight EXCEPT ![f] =
       [Idle EXCEPT !.kind = "edit", !.edit = [kind |-> kind, id |-> i, rule |-> r]]]

\* The server: an edit is applied or refused, a GET sees the library.
Serve(f) ==
  LET r == flight[f] IN
  /\ r # Idle /\ r.answer = Loading
  /\ IF r.kind = "edit"
       THEN IF Accepts(file, r.edit)
              THEN /\ file' = Apply(file, r.edit)
                   /\ flight' = [flight EXCEPT ![f].answer = Rules(EmptyOverlay)]
              ELSE /\ flight' = [flight EXCEPT ![f].answer = Failed]
                   /\ UNCHANGED file
       ELSE /\ flight' = [flight EXCEPT ![f].answer = Rules(file)]
            /\ UNCHANGED file
  /\ UNCHANGED <<view, views, list, form, shown, edits, errors>>

\* A list request fails.
GetFails(f) ==
  /\ flight[f].kind = "get" /\ flight[f].answer # Failed
  /\ errors < MaxErrors
  /\ errors' = errors + 1
  /\ flight' = [flight EXCEPT ![f].answer = Failed]
  /\ UNCHANGED <<file, view, views, list, form, shown, edits>>

\* A review on the server proposes a candidate.
ReviewProposes(i) ==
  /\ CanPropose(file, i)
  /\ file' = Propose(file, i, BaseRule)
  /\ UNCHANGED <<view, views, list, form, shown, flight, edits, errors>>

-----------------------------------------------------------------------------
(* The page *)

\* loadAiRules up to its await, on a request slot that is free or has just
\* been answered; without a list element it returns at once.
LoadAiRules(f, v) ==
  IF v = 0 THEN flight' = [flight EXCEPT ![f] = Idle] /\ UNCHANGED list
  ELSE /\ flight' = [flight EXCEPT ![f] = [Idle EXCEPT !.kind = "get", !.view = v]]
       /\ list' = Loading

RenderRulesPage(f) ==
  /\ flight[f] = Idle /\ ~shown /\ views < MaxViews
  /\ Patient => ~Editing
  /\ views' = views + 1 /\ view' = views + 1
  /\ LoadAiRules(f, views + 1)
  /\ UNCHANGED <<file, form, shown, edits, errors>>

Leave ==
  /\ view # 0 /\ ~shown
  /\ view' = 0
  /\ UNCHANGED <<file, views, list, form, shown, flight, edits, errors>>

Refresh(f) ==
  /\ CanUse /\ ~shown /\ list.is = "rules"
  /\ flight[f] = Idle
  /\ LoadAiRules(f, view)
  /\ UNCHANGED <<file, view, views, form, shown, edits, errors>>

\* The answer to a GET, for the list element it was sent from.
ListArrives(f) ==
  LET r == flight[f] IN
  /\ r.kind = "get" /\ r.answer # Loading
  /\ list' = IF r.view = view THEN r.answer ELSE list
  /\ flight' = [flight EXCEPT ![f] = Idle]
  /\ UNCHANGED <<file, view, views, form, shown, edits, errors>>

\* Mutant: the list is not read again.
EditArrivesOnly(f) ==
  LET r == flight[f] IN
  /\ r.kind = "edit" /\ r.answer # Loading
  /\ shown' = (shown /\ r.edit.kind \notin {"create", "update"})
  /\ flight' = [flight EXCEPT ![f] = Idle]
  /\ UNCHANGED <<file, view, views, list, form, edits, errors>>

\* The answer to an edit: a save closes the modal, whatever it shows by now,
\* and every accepted edit lists the rules again.
EditArrives(f) ==
  LET r == flight[f]  ok == r.answer # Failed IN
  /\ r.kind = "edit" /\ r.answer # Loading
  /\ shown' = (shown /\ ~(ok /\ r.edit.kind \in {"create", "update"}))
  /\ IF ok THEN LoadAiRules(f, view)
           ELSE flight' = [flight EXCEPT ![f] = Idle] /\ UNCHANGED list
  /\ UNCHANGED <<file, view, views, form, edits, errors>>

-----------------------------------------------------------------------------
(* Buttons and forms *)

\* toggleRuleEnabled and confirmCandidate: the button of a row.
ToggleRuleEnabled(f, i) ==
  /\ HasRow(i)
  /\ SendEdit(f, IF IsDraft(i) THEN "confirm"
                 ELSE IF i \in list.of.disabled THEN "enable" ELSE "disable", i, BaseRule)
  /\ UNCHANGED <<file, view, views, list, form, shown, errors>>

\* deleteRule, confirmed by the user.
DeleteRule(f, i) ==
  /\ HasRow(i)
  /\ SendEdit(f, "remove", i, BaseRule)
  /\ UNCHANGED <<file, view, views, list, form, shown, errors>>

\* The level the form preselects: the first option unless one of its own
\* names is the rule's level (the library's names are low, medium, high).
FormLevel(level) == IF level \in {"WARN", "BLOCK", "INFO"} THEN level ELSE "WARN"

RULE_LEVEL_TO_V2 == [WARN |-> "medium", BLOCK |-> "high", INFO |-> "low"]

\* openRuleForm
OpenRuleForm(editing, i) ==
  /\ CanUse /\ ~shown /\ list.is = "rules"
  /\ editing => HasRow(i)
  /\ shown' = TRUE
  /\ form' = [editing |-> editing, id |-> i,
              level |-> IF editing THEN FormLevel(Effective(list.of, i).level) ELSE "WARN"]
  /\ UNCHANGED <<file, view, views, list, flight, edits, errors>>

PickLevel(level) ==
  /\ shown
  /\ form' = [form EXCEPT !.level = level]
  /\ UNCHANGED <<file, view, views, list, shown, flight, edits, errors>>

CloseModal ==
  /\ shown
  /\ shown' = FALSE
  /\ UNCHANGED <<file, view, views, list, form, flight, edits, errors>>

\* saveRuleForm: the check method is always sent as keyword.
SaveRuleForm(f) ==
  /\ shown /\ (Patient => ~Busy)
  /\ SendEdit(f, IF form.editing THEN "update" ELSE "create", form.id,
              [level |-> RULE_LEVEL_TO_V2[form.level], method |-> "keyword"])
  /\ UNCHANGED <<file, view, views, list, form, shown, errors>>

Init ==
  /\ file = EmptyOverlay
  /\ view = 0 /\ views = 0 /\ list = Loading
  /\ form = NoForm /\ shown = FALSE
  /\ flight = [f \in Slot |-> Idle]
  /\ edits = 0 /\ errors = 0

Next ==
  \/ \E f \in Slot : \/ Serve(f) \/ GetFails(f)
                     \/ RenderRulesPage(f) \/ Refresh(f)
                     \/ ListArrives(f) \/ EditArrives(f) \/ SaveRuleForm(f)
                     \/ \E i \in Id : ToggleRuleEnabled(f, i) \/ DeleteRule(f, i)
  \/ \E i \in Id : ReviewProposes(i) \/ \E b \in BOOLEAN : OpenRuleForm(b, i)
  \/ \E l \in DOMAIN RULE_LEVEL_TO_V2 : PickLevel(l)
  \/ CloseModal \/ Leave

Spec == Init /\ [][Next]_vars

-----------------------------------------------------------------------------
(* Properties *)

\* What a user sees of the library: rules, switches and contents.
View(o) == [i \in Listed(o) |-> <<i \in Enabled(o), Effective(o, i)>>]

\* For a user who waits, the list shows the library as it is: edits, failed
\* reloads, and pages left and entered again never leave an older one.
ListCurrent ==
  view # 0 /\ ~Busy /\ list.is = "rules" => View(list.of) = View(file)

\* For a user who waits, the server never refuses an edit: what the rows and
\* the forms offer is always possible (RuleEditError is not met).
NoEditRefused ==
  \A f \in Slot : flight[f].kind = "edit" => flight[f].answer # Failed
=============================================================================
