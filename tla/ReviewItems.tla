----------------------------- MODULE ReviewItems -----------------------------
(***************************************************************************)
(* The one list a review result is shown as (app.js: reviewItems,          *)
(* projectReviewFinding, itemVerdict, sortBySeverity): the findings of all *)
(* rules, each overlaid with a judgement of the model for the same rule,   *)
(* and the judgements that belong to no rule.  Texts are reduced to a      *)
(* title; a rule has one title and several rules may share it.             *)
(***************************************************************************)
EXTENDS Ranks

CONSTANTS
  Rule,     \* rules of the bundle
  NoRule,   \* rule_id of an item of the model that names none
  Title,    \* titles
  TitleOf,  \* the title of each rule
  Level     \* levels that occur in this instance

ItemsAssumption ==
  /\ NoRule \notin Rule
  /\ TitleOf \in [Rule -> Title]
  /\ Level \subseteq {"BLOCK", "WARN", "INFO", "UNKNOWN", "PASS", "NOT_APPLICABLE"}

Finding == [rule: Rule, level: Level]
AiItem == [rule: Rule \cup {NoRule}, title: Title, level: Level]

\* itemVerdict, of a level.
Verdict(level) ==
  CASE level \in {"PASS", "NOT_APPLICABLE"} -> "met"
    [] level \in {"BLOCK", "WARN"} -> "unmet"
    [] OTHER -> "open"

VERDICT_ORDER == <<"unmet", "open", "met">>

\* findingSeverity
Severity(level) ==
  CASE level = "BLOCK" -> 5 [] level = "WARN" -> 4 [] level = "INFO" -> 3
    [] level = "UNKNOWN" -> 2 [] level \in {"PASS", "NOT_APPLICABLE"} -> 1
    [] OTHER -> 0

\* projectReviewFinding
Project(findings, i) ==
  [from |-> i, ai |-> 0, title |-> TitleOf[findings[i].rule],
   level |-> findings[i].level, verdict |-> Verdict(findings[i].level)]

\* matchKey: the rule an item names; else the first rule with its title.
MatchKey(findings, item) ==
  LET same == {i \in DOMAIN findings : TitleOf[findings[i].rule] = item.title} IN
  IF item.rule # NoRule THEN <<"id", item.rule>>
  ELSE IF same # {} THEN <<"id", findings[CHOOSE i \in same : \A j \in same : i <= j].rule>>
  ELSE <<"title", item.title>>

\* pending: the items of the model with a key, in their order.
Hits(findings, ai, key) ==
  Ranked({j \in DOMAIN ai : MatchKey(findings, ai[j]) = key}, <)

\* hits.shift(): the n-th finding of a rule takes the n-th item for it.
Taken(findings, ai, i) ==
  LET nth == Cardinality({h \in 1 .. i : findings[h].rule = findings[i].rule})
      hits == Hits(findings, ai, <<"id", findings[i].rule>>) IN
  IF nth <= Len(hits) THEN hits[nth] ELSE 0

\* The model's level (every item has one) and the verdict of that level, the
\* rule's identity.
Overlay(base, ai, j) ==
  IF j = 0 THEN base
  ELSE [base EXCEPT !.ai = j, !.level = ai[j].level, !.verdict = Verdict(ai[j].level)]

\* What is left in pending: by the first item with the same key.
Extras(findings, ai) ==
  LET left == DOMAIN ai \ {Taken(findings, ai, i) : i \in DOMAIN findings}
      head(j) == Hits(findings, ai, MatchKey(findings, ai[j]))[1] IN
  Ranked(left, LAMBDA j, k : head(j) < head(k) \/ (head(j) = head(k) /\ j < k))

Extra(ai, j) ==
  [from |-> 0, ai |-> j, title |-> ai[j].title,
   level |-> ai[j].level, verdict |-> Verdict(ai[j].level)]

\* Mutant: the order of the rules is kept.
SortByNothing(items) == items

\* sortBySeverity is stable.
SortBySeverity(items) ==
  LET order == Ranked(DOMAIN items, LAMBDA a, b :
        \/ Severity(items[a].level) > Severity(items[b].level)
        \/ Severity(items[a].level) = Severity(items[b].level) /\ a < b) IN
  [n \in DOMAIN items |-> items[order[n]]]

ReviewItems(findings, ai) ==
  LET merged == [i \in DOMAIN findings |->
                   Overlay(Project(findings, i), ai, Taken(findings, ai, i))]
      left == Extras(findings, ai) IN
  SortBySeverity(merged \o [n \in DOMAIN left |-> Extra(ai, left[n])])
=============================================================================
