----------------------------- MODULE RuleEdits -----------------------------
(***************************************************************************)
(* The edits of the rule library (rule_edits.py) as operators on the       *)
(* overlay: rules that were added or edited, candidates the model          *)
(* proposed, and the ids switched off or deleted.  Of a rule only the risk *)
(* level and the check method are told apart; the order of the lists is    *)
(* left out.                                                               *)
(***************************************************************************)
EXTENDS Naturals, FiniteSets

CONSTANTS
  BaseId,  \* ids of the base and extension rules
  NewId    \* ids of rules made at run time

IdAssumption == BaseId \cap NewId = {} /\ BaseId # {}

Id     == BaseId \cup NewId
Level  == {"low", "medium", "high"}
Method == {"keyword", "semantic"}
Rule   == [level: Level, method: Method]
NoRule == [level |-> "none", method |-> "none"]

\* The base rules of this model: all high and semantic, so that what an edit
\* does to them can be seen.
BaseRule == [level |-> "high", method |-> "semantic"]

Overlay == [custom: [Id -> Rule \cup {NoRule}], candidates: [Id -> Rule \cup {NoRule}],
            disabled: SUBSET Id, removed: SUBSET Id]
EmptyOverlay == [custom |-> [i \in Id |-> NoRule], candidates |-> [i \in Id |-> NoRule],
                 disabled |-> {}, removed |-> {}]

IsCustom(o, i)    == o.custom[i] # NoRule
IsCandidate(o, i) == o.candidates[i] # NoRule

\* library_rules: the ids it lists, those that are switched on, the content.
Listed(o)  == (BaseId \ o.removed) \cup {i \in Id : IsCustom(o, i)}
Enabled(o) == Listed(o) \ o.disabled
Effective(o, i) == IF IsCustom(o, i) THEN o.custom[i]
                   ELSE IF IsCandidate(o, i) THEN o.candidates[i] ELSE BaseRule

\* upsert_rule: adds the rule, or covers the base rule, the custom rule or
\* the candidate with this id.  It does not touch the switch.
Upsert(o, i, r) ==
  [o EXCEPT !.custom[i] = r, !.candidates[i] = NoRule, !.removed = @ \ {i}]

\* Mutant: an edited base rule is only marked as deleted.
RemoveMarksOnly(o, i) ==
  IF i \in BaseId
    THEN [o EXCEPT !.removed = @ \cup {i}, !.disabled = @ \ {i}]
    ELSE [o EXCEPT !.custom[i] = NoRule, !.candidates[i] = NoRule,
                   !.disabled = @ \ {i}]

\* remove_rule
CanRemove(o, i) == i \in BaseId \/ IsCustom(o, i) \/ IsCandidate(o, i)
Remove(o, i) ==
  IF i \in BaseId
    THEN [o EXCEPT !.custom[i] = NoRule, !.removed = @ \cup {i},
                   !.disabled = @ \ {i}]
    ELSE [o EXCEPT !.custom[i] = NoRule, !.candidates[i] = NoRule,
                   !.disabled = @ \ {i}]

\* set_rule_enabled: any base rule is known, also a deleted one.
CanSwitch(o, i) == i \in BaseId \/ IsCustom(o, i)
Enable(o, i)  == [o EXCEPT !.disabled = @ \ {i}]
Disable(o, i) == [o EXCEPT !.disabled = @ \cup {i}]

\* add_ai_candidates with one new title; its id is generated.
CanPropose(o, i) == i \in NewId /\ ~IsCustom(o, i) /\ ~IsCandidate(o, i)
Propose(o, i, r) == [o EXCEPT !.candidates[i] = r]

\* confirm_candidate
CanConfirm(o, i) == IsCandidate(o, i)
Confirm(o, i) ==
  [o EXCEPT !.candidates[i] = NoRule, !.custom[i] = o.candidates[i],
            !.disabled = @ \ {i}, !.removed = @ \ {i}]

\* An edit as a value, and its effect; a refused edit raises RuleEditError
\* before it writes anything.
Kind == {"create", "update", "remove", "enable", "disable", "propose", "confirm"}
Edit == [kind: Kind, id: Id, rule: Rule]

Accepts(o, e) ==
  CASE e.kind \in {"create", "update"}  -> TRUE
    [] e.kind = "remove"                -> CanRemove(o, e.id)
    [] e.kind \in {"enable", "disable"} -> CanSwitch(o, e.id)
    [] e.kind = "propose"               -> CanPropose(o, e.id)
    [] e.kind = "confirm"               -> CanConfirm(o, e.id)

Apply(o, e) ==
  CASE e.kind \in {"create", "update"} -> Upsert(o, e.id, e.rule)
    [] e.kind = "remove"  -> Remove(o, e.id)
    [] e.kind = "enable"  -> Enable(o, e.id)
    [] e.kind = "disable" -> Disable(o, e.id)
    [] e.kind = "propose" -> Propose(o, e.id, e.rule)
    [] e.kind = "confirm" -> Confirm(o, e.id)
=============================================================================
