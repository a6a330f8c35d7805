------------------------------ MODULE RulePack ------------------------------
(***************************************************************************)
(* One rule pack of the rules page (app.js: buildRulePack and              *)
(* buildScoreMatrixCard): the rule list and the score matrix are two       *)
(* paged views of the same rules.  Their pagers live in aiRulesState and   *)
(* survive a reload, after which the pack may be shorter.                  *)
(***************************************************************************)
EXTENDS Pager, Ranks, SequencesExt

CONSTANTS
  Topics,    \* aiRulesState.topics, in order
  Other,     \* a topic that is not listed
  Sizes,     \* RULE_PAGE_SIZES; the pager starts with the least
  MaxRules   \* bound: rules of the pack

SizesAssumption == Sizes # {} /\ Sizes \subseteq Nat \ {0}
MaxRulesAssumption == MaxRules \in Nat
\* RULE_TOPICS, and what build_rules_engine_view appends, name no topic twice.
TopicsAssumption ==
  /\ Topics \in Seq(ToSet(Topics)) /\ Other \notin ToSet(Topics)
  /\ \A m, n \in DOMAIN Topics : Topics[m] = Topics[n] => m = n

VARIABLES
  rules,   \* the pack's rules: their topics, in the order of the answer
  pager    \* page and size of the two tables

vars == <<rules, pager>>

Table == {"list", "matrix"}
Topic == ToSet(Topics) \cup {Other}

-----------------------------------------------------------------------------
(* The score matrix *)

\* Names of the groups: the listed topics that occur, then the others.
TopicNames(rs) ==
  LET listed == Picked(Topics, {n \in DOMAIN Topics : Topics[n] \in ToSet(rs)})
  IN IF ToSet(rs) \subseteq ToSet(Topics) THEN listed ELSE Append(listed, Other)

\* groupRulesByTopic: the rules of a group, as positions in the pack.
Bucket(rs, name) == Ranked({i \in DOMAIN rs : rs[i] = name}, <)
GroupRulesByTopic(rs) ==
  LET names == TopicNames(rs) IN
  [g \in DOMAIN names |-> [name |-> names[g], rules |-> Bucket(rs, names[g])]]

\* flattenScoreRows: group by group, and rule by rule in a group.
Cells(groups) == UNION {{g} \X DOMAIN groups[g].rules : g \in DOMAIN groups}
Earlier(a, b) == a[1] < b[1] \/ (a[1] = b[1] /\ a[2] < b[2])
FlattenScoreRows(groups) ==
  LET cells == Ranked(Cells(groups), Earlier) IN
  [k \in DOMAIN cells |->
     LET cell == cells[k]  group == groups[cell[1]] IN
     [group |-> group.name, rule |-> group.rules[cell[2]]]]

\* Mutant: a row joins the first group of the page.
RegroupFirst(rows) ==
  IF rows = << >> THEN << >>
  ELSE <<[name |-> rows[1].group, rules |-> [i \in DOMAIN rows |-> rows[i].rule]]>>

\* regroupScoreRows: a cell from each row whose group is not that of the row before.
Heads(rows) ==
  Ranked({k \in DOMAIN rows : k = 1 \/ rows[k - 1].group # rows[k].group}, <)
RegroupScoreRows(rows) ==
  LET heads == Heads(rows)
      next(c) == IF c < Len(heads) THEN heads[c + 1] ELSE Len(rows) + 1
  IN [c \in DOMAIN heads |->
        [name |-> rows[heads[c]].group,
         rules |-> [i \in 1 .. next(c) - heads[c] |-> rows[heads[c] + i - 1].rule]]]

-----------------------------------------------------------------------------
(* The tables *)

\* The rows a table pages through: both show the whole pack.
Rows(t, rs) ==
  IF t = "list" THEN [i \in DOMAIN rs |-> [group |-> rs[i], rule |-> i]]
                ELSE FlattenScoreRows(GroupRulesByTopic(rs))

\* renderList, renderMatrix: pagedSlice clamps the page it is asked for.
Rendered(t, page, size, rs) ==
  [page |-> Clamp(page, Len(Rows(t, rs)), size), size |-> size]

PagesOf(t) == Pages(Len(Rows(t, rules)), pager[t].size)

Shown(t) ==
  LET rows == Rows(t, rules) IN
  SubSeq(rows, FirstRow(pager[t].page, pager[t].size),
         Smaller(pager[t].page * pager[t].size, Len(rows)))

\* loadAiRules has another answer, with a rule more or with rules less: the
\* pack is built again.
Changed == {Append(rules, t) : t \in Topic} \cup {SubSeq(rules, 1, n) : n \in 0 .. Len(rules)}
Load(rs) ==
  /\ Len(rs) <= MaxRules
  /\ rules' = rs
  /\ pager' = [t \in Table |-> Rendered(t, pager[t].page, pager[t].size, rs)]

Show(t, page, size) ==
  /\ rules # << >>    \* an empty pack has no pager
  /\ pager' = [pager EXCEPT ![t] = Rendered(t, page, size, rules)]
  /\ UNCHANGED rules

PrevPage(t) == pager[t].page > 1 /\ Show(t, pager[t].page - 1, pager[t].size)
NextPage(t) == pager[t].page < PagesOf(t) /\ Show(t, pager[t].page + 1, pager[t].size)
PickPage(t, n) ==
  /\ n \in Window(pager[t].page, PagesOf(t))
  /\ Show(t, n, pager[t].size)
Resize(t, size) == Show(t, 1, size)

Init ==
  /\ rules = << >>
  /\ pager = [t \in Table |-> [page |-> 1, size |-> CHOOSE s \in Sizes : \A r \in Sizes : s <= r]]

Next ==
  \/ \E rs \in Changed : Load(rs)
  \/ \E t \in Table : \/ PrevPage(t) \/ NextPage(t)
                      \/ \E n \in 1 .. MaxRules : PickPage(t, n)
                      \/ \E s \in Sizes : Resize(t, s)

Spec == Init /\ [][Next]_vars

-----------------------------------------------------------------------------
(* Properties *)

\* However the pack shrinks between two loads, no table stays on a page
\* behind its end: a pack with rules never shows an empty table.
TableInRange(t) ==
  /\ pager[t].page \in 1 .. PagesOf(t)
  /\ rules # << >> => Shown(t) # << >>
PageInRange == \A t \in Table : TableInRange(t)

\* The numbered buttons include the current page, and there are five of them
\* whenever there are five pages (buildTablePager's window).
TableOffersPage(t) ==
  LET w == Window(pager[t].page, PagesOf(t)) IN
  /\ pager[t].page \in w /\ w \subseteq 1 .. PagesOf(t)
  /\ Cardinality(w) = Smaller(5, PagesOf(t))
WindowOffersPage == \A t \in Table : TableOffersPage(t)

\* Turning the pages shows every rule of the pack exactly once, in the list
\* and in the matrix, whatever topics the rules have.
TableShowsEveryRule(t) ==
  LET rows == Rows(t, rules) IN
  \A i \in DOMAIN rules :
    Cardinality({p \in 1 .. PagesOf(t) :
      \E k \in PageRows(p, Len(rows), pager[t].size) : rows[k].rule = i}) = 1
EveryRuleOnOnePage == \A t \in Table : TableShowsEveryRule(t)

\* The cells of a matrix page span exactly its rows: a group that a page
\* break cuts is labelled again on the next page, and no row is put under
\* another group's label.
MatrixCellsExact ==
  LET rows == Shown("matrix") IN
  /\ FlattenScoreRows(RegroupScoreRows(rows)) = rows
  /\ \A i \in DOMAIN rows : rules[rows[i].rule] = rows[i].group
=============================================================================
