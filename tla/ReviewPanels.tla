---------------------------- MODULE ReviewPanels ----------------------------
(***************************************************************************)
(* The panels of a review result (app.js: renderReviewViews,               *)
(* buildReviewPanels, buildControlPanel, buildReasonablenessPanel,         *)
(* riskPointEntries, extraRiskItems).  The chosen verdict outlives the     *)
(* result it was chosen in.                                                *)
(***************************************************************************)
EXTENDS ReviewItems, SequencesExt

CONSTANTS
  MaxFindings, MaxAi,  \* bounds: findings of a result, items of the model
  TypeTitle,           \* titles that are judgements of the contract type
  KeyOf,               \* metricKey of each title
  RiskPointKey, CreditKey,  \* the fixed metrics of two panels
  Hot                  \* titles whose text extraRiskItems looks for

PanelsAssumption ==
  /\ MaxFindings \in Nat /\ MaxAi \in Nat
  /\ TypeTitle \subseteq Title /\ Hot \subseteq Title
  /\ DOMAIN KeyOf = Title /\ RiskPointKey \cap CreditKey = {}

VARIABLES
  findings, ai, items,  \* the result shown, and its list of items
  panel,           \* the panel shown
  controlVerdict,  \* reviewWorkspace.controlVerdict
  rows, opened, open  \* the rows of the control list; the row a click opened,
                      \* 0 for none, and the rows that look open

vars == <<findings, ai, items, panel, controlVerdict, rows, opened, open>>

Panel == {"control", "reason", "risk", "credit"}

\* The chips of #review-result name the panels; controlItems leaves out the
\* judgements of the contract type.
ControlItems(its) == Picked(its, {n \in DOMAIN its : its[n].title \notin TypeTitle})
Group(its, v) ==
  LET control == ControlItems(its) IN
  Picked(control, {n \in DOMAIN control : control[n].verdict = v})

-----------------------------------------------------------------------------
(* The control panel *)

\* renderVerdict and buildControlRuleList: the first row looks open.
RenderVerdictOf(its, v) ==
  /\ controlVerdict' = v
  /\ rows' = Group(its, v)
  /\ opened' = 0
  /\ open' = IF rows' = <<>> THEN {} ELSE {1}

\* Mutant: the verdict chosen last, whether or not it has rows.
FirstVerdictLast(its) == controlVerdict

\* The verdict chosen last when it has rows, else the first that has.
FirstVerdict(its) ==
  IF Group(its, controlVerdict) # <<>> THEN controlVerdict
  ELSE LET n == CHOOSE n \in 1 .. 3 :
                  /\ Group(its, VERDICT_ORDER[n]) # <<>>
                  /\ \A m \in 1 .. n - 1 : Group(its, VERDICT_ORDER[m]) = <<>>
       IN VERDICT_ORDER[n]

BuildControlPanel(its) ==
  IF ControlItems(its) = <<>>
    THEN rows' = <<>> /\ opened' = 0 /\ open' = {} /\ UNCHANGED controlVerdict
    ELSE RenderVerdictOf(its, FirstVerdict(its))

\* renderReviewViews: a result, in the control panel.
RenderReviewViews(fs, as) ==
  /\ findings' = fs /\ ai' = as /\ items' = ReviewItems(fs, as)
  /\ panel' = "control"
  /\ BuildControlPanel(items')

RenderPanel(name) ==
  /\ panel # "none"
  /\ panel' = name
  /\ IF name = "control" THEN BuildControlPanel(items)
     ELSE UNCHANGED <<controlVerdict, rows, opened, open>>
  /\ UNCHANGED <<findings, ai, items>>

RenderVerdict(v) ==
  /\ panel = "control" /\ ControlItems(items) # <<>>
  /\ RenderVerdictOf(items, v)
  /\ UNCHANGED <<findings, ai, items, panel>>

\* The head of a row: opens it and closes the others, or closes it.
ClickRow(n) ==
  /\ panel = "control" /\ n \in DOMAIN rows
  /\ opened' = IF opened = n THEN 0 ELSE n
  /\ open' = {opened'} \ {0}
  /\ UNCHANGED <<findings, ai, items, panel, controlVerdict, rows>>

-----------------------------------------------------------------------------
(* The panels of metrics *)

MetricKey(it) == KeyOf[it.title]

\* Whether extraRiskItems takes an item, apart from the keys it has seen.
IsExtra(it) ==
  /\ it.level # "UNKNOWN" /\ it.title \notin TypeTitle
  /\ MetricKey(it) \notin RiskPointKey \cup CreditKey
  /\ it.title \in Hot \/ it.level = "BLOCK"

\* extraRiskItems: the first item of each key.
ExtraRiskItems(its) ==
  {n \in DOMAIN its :
     IsExtra(its[n]) /\ \A m \in 1 .. n - 1 :
       IsExtra(its[m]) => MetricKey(its[m]) # MetricKey(its[n])}

\* pickMetric: the first item of a metric, 0 if there is none.
PickMetric(its, key) ==
  LET of == {n \in DOMAIN its : MetricKey(its[n]) = key} IN
  IF of = {} THEN 0 ELSE CHOOSE n \in of : \A m \in of : n <= m

\* riskPointEntries: a card for each fixed metric and each extra item.
RiskPointEntries(its) ==
  {PickMetric(its, key) : key \in RiskPointKey} \cup ExtraRiskItems(its)

\* The keys of those cards.
RiskPointKeys(its) == RiskPointKey \cup {MetricKey(its[n]) : n \in ExtraRiskItems(its)}

IsRiskPointItem(it) == MetricKey(it) \in RiskPointKey \/ ExtraRiskItems(<<it>>) # {}

ReasonablenessBucket(it) ==
  IF IsRiskPointItem(it) THEN "risk" ELSE IF it.level = "WARN" THEN "attention" ELSE "clarify"

\* buildReasonablenessPanel: the items it puts into its own columns.
ReasonItems(its) ==
  {n \in DOMAIN its : /\ its[n].level # "UNKNOWN"
                        /\ its[n].title \notin TypeTitle
                        /\ MetricKey(its[n]) \notin RiskPointKeys(its)}

-----------------------------------------------------------------------------

Init ==
  /\ findings = <<>> /\ ai = <<>> /\ items = <<>> /\ panel = "none"
  /\ controlVerdict = "unmet" /\ rows = <<>> /\ opened = 0 /\ open = {}

Next ==
  \/ \E fs \in BoundedSeq(Finding, MaxFindings), as \in BoundedSeq(AiItem, MaxAi) :
       panel = "none" /\ RenderReviewViews(fs, as)
  \/ \E fs \in BoundedSeq(Finding, 1) : panel # "none" /\ RenderReviewViews(fs, <<>>)
  \/ \E name \in Panel : RenderPanel(name)
  \/ \E n \in 1 .. 3 : RenderVerdict(VERDICT_ORDER[n])
  \/ \E n \in DOMAIN rows : ClickRow(n)

Spec == Init /\ [][Next]_vars

-----------------------------------------------------------------------------
(* Properties *)

Count(P(_)) == Cardinality({n \in DOMAIN items : P(items[n])})

\* reviewItems: every finding and every judgement of the model is shown, once:
\* "a row is not lost when the model leaves rules out", nor when it judges a
\* rule twice, a rule that is not there, or none.
NothingLost ==
  /\ \A i \in DOMAIN findings : Count(LAMBDA it : it.from = i) = 1
  /\ \A j \in DOMAIN ai : Count(LAMBDA it : it.ai = j) = 1

\* The verdict a row is filed under is that of the level it shows, whether the
\* level is the rule's or the model's.
VerdictOfLevel == \A n \in DOMAIN items : items[n].verdict = Verdict(items[n].level)

\* A result, or a return to the control panel, opens on rows if there are any,
\* whatever verdict was chosen in a result before.
OpensOnRows ==
  [][(panel' = "control" /\ (panel # "control" \/ items' # items))
       => (ControlItems(items') # <<>> => rows' # <<>>)]_vars

\* buildReasonablenessPanel draws the third column from riskPointEntries, not
\* from the items grouped into it: none is ever grouped there.
NoHiddenBucket ==
  \A n \in ReasonItems(items) : ReasonablenessBucket(items[n]) # "risk"

\* riskPointEntries has one card per metric: it is that of the worst item of a
\* fixed metric, and no blocking item of another metric is hidden by the card
\* of a lesser one.
CardsShowWorst ==
  \A n \in DOMAIN items :
    LET key == MetricKey(items[n])
        cards == {c \in RiskPointEntries(items) \ {0} : MetricKey(items[c]) = key} IN
    (\/ key \in RiskPointKey
     \/ /\ items[n].level = "BLOCK"
        /\ items[n].title \notin TypeTitle /\ key \notin CreditKey)
      => \E c \in cards : Severity(items[c].level) >= Severity(items[n].level)
=============================================================================
