----------------------------- MODULE MCLibrary -----------------------------
(***************************************************************************)
(* The rule library and the review results, in one run of TLC: the overlay *)
(* of the library, the page that edits it and the tables that show it, the *)
(* panels of a result and its revisions, and the model transport.  Init    *)
(* picks a part, which then runs by itself: a variable that several parts  *)
(* have stands for the one of the part picked, the variables of the others *)
(* are Unused.  The instances are of proof modules, each of which extends  *)
(* or instantiates the modules of its parts, so that its theorems can be   *)
(* cited for the parts checked here.                                       *)
(***************************************************************************)
EXTENDS Naturals, TLC

CONSTANTS
  BaseId,              \* a rule of the base pack
  NewId, LoneNewId,    \* ids the base pack does not have
  ApiThread,           \* two threads of the API process
  LoneThread,          \* the only one beside those of a worker
  WorkerThread, NoOne,
  Cut, Torn,           \* contents of an overlay file that cannot be read
  Request,             \* requests on a review result
  Slot                 \* requests in flight of the rules page

VARIABLES
  part,
  tmp, edit, snap, ideal,                                        \* RuleOverlay
  view, views, list, form, shown, flight, errors,                \* RulesDesk
  rules, pager,                                                  \* RulePack
  findings, ai, items, panel, controlVerdict, rows, opened, open,  \* ReviewPanels
  revisions, seen, made,                                         \* ReviewStore
  state, failures, probe, generation, cooled, limit, free, active,  \* ModelTransport
  waiting, permit, attempt, answer,
  file, lock, pc, edits                                          \* several

Unused == 0

-----------------------------------------------------------------------------
(* The constants of the parts *)

\* The user of the rules page waits.
Patient   == TRUE
MaxViews  == 2
MaxErrors == 1

\* A listed topic and one that is not.
Topics   == <<"amount">>
Other    == "other"
Sizes    == {1, 4}
MaxRules == 6

\* A plain rule, one that extraRiskItems looks for, and one of a fixed metric.
RuleId      == {"r1", "r3", "r4"}
NoRuleId    == "none"
Title       == {"plain", "term", "profit", "type"}
TitleOf     == [r1 |-> "plain", r3 |-> "term", r4 |-> "profit"]
KeyOf       == [plain |-> "plain", term |-> "term", profit |-> "profit", type |-> "plain"]
ItemLevel   == {"BLOCK", "WARN", "UNKNOWN"}
MaxFindings == 3
MaxAi       == 0
Hot         == {"term"}

\* Titles and keys that the panels know.
TypeTitle    == {"type"}
RiskPointKey == {"profit"}
CreditKey    == {"capital"}

\* The API and a worker process; the threads of the API process, which share its
\* lock; the rules page, with the tables and panels.
Overlay == INSTANCE Library_proofs WITH
  ApiThread <- LoneThread, NoThread <- NoOne, MaxEdits <- 4
Locked == INSTANCE Library_proofs WITH
  WorkerThread <- {}, NoThread <- NoOne, MaxEdits <- 4
Page == INSTANCE Library_proofs WITH
  NewId <- LoneNewId, NoThread <- NoOne, MaxEdits <- 2

\* Two rules share a title, and the model judges them.
Merge == INSTANCE Library_proofs WITH
  NoThread <- NoOne, MaxEdits <- 0,
  RuleId <- {"r1", "r2"}, Title <- {"plain"},
  TitleOf <- [r1 |-> "plain", r2 |-> "plain"], KeyOf <- [plain |-> "plain"],
  ItemLevel <- {"BLOCK", "PASS"}, MaxFindings <- 2, MaxAi <- 2, Hot <- {}, TypeTitle <- {}

Store == INSTANCE ReviewStore_proofs WITH Finding <- {"f1"}, MaxClock <- 2

\* The breaker through two open periods while the policy changes; three threads
\* and two slots, with the policy left alone.
Transport == INSTANCE ModelTransport_proofs WITH
  Thread <- 1 .. 2, Threshold <- 2, MaxAttempts <- 2, Limits <- {1, 2}, TimeoutChanges <- TRUE,
  MaxGeneration <- 3
Gate == INSTANCE ModelTransport_proofs WITH
  Thread <- 1 .. 3, Threshold <- 2, MaxAttempts <- 2, Limits <- {2}, TimeoutChanges <- FALSE,
  MaxGeneration <- 1

ASSUME OverlayAssumption ==
  /\ Overlay!IdAssumption /\ Overlay!ThreadAssumption /\ Overlay!ContentAssumption
  /\ Locked!IdAssumption /\ Locked!ThreadAssumption /\ Locked!ContentAssumption
ASSUME PageAssumption == Page!Lib!IdAssumption /\ Page!Lib!DeskAssumption
ASSUME PackAssumption ==
  Page!Pack!SizesAssumption /\ Page!Pack!MaxRulesAssumption /\ Page!Pack!TopicsAssumption
ASSUME PanelsAssumption ==
  /\ Merge!Panels!ItemsAssumption /\ Merge!Panels!PanelsAssumption
  /\ Page!Panels!ItemsAssumption /\ Page!Panels!PanelsAssumption
ASSUME StoreAssumption == Store!StoreAssumption
ASSUME TransportAssumption == Transport!TransportAssumption /\ Gate!TransportAssumption

Symmetry == Permutations(NewId) \cup Permutations(ApiThread)

-----------------------------------------------------------------------------

overlayVars   == <<tmp, edit, snap, ideal>>
pageVars      == <<view, views, list, form, shown, flight, errors>>
packVars      == <<rules, pager>>
panelVars     == <<findings, ai, items, panel, controlVerdict, rows, opened, open>>
storeVars     == <<revisions, seen, made>>
transportVars == <<state, failures, probe, generation, cooled, limit, free, active, waiting,
                   permit, attempt, answer>>

vars == <<part, overlayVars, pageVars, packVars, panelVars, storeVars, transportVars,
          file, lock, pc, edits>>

OverlayPart   == {"overlay", "locked"}
PanelsPart    == {"merge", "metrics"}
TransportPart == {"transport", "gate"}
Parts == OverlayPart \cup PanelsPart \cup TransportPart \cup {"page", "pack", "store"}

\* The parts that have a variable of several parts.
FilePart == OverlayPart \cup {"page"}
LockPart == OverlayPart \cup {"store"}
PcPart   == OverlayPart \cup TransportPart \cup {"store"}

\* The variables of the parts that were not picked.
Idle ==
  /\ part \notin OverlayPart => tmp = Unused /\ edit = Unused /\ snap = Unused /\ ideal = Unused
  /\ part # "page" =>
       /\ view = Unused /\ views = Unused /\ list = Unused /\ form = Unused
       /\ shown = Unused /\ flight = Unused /\ errors = Unused
  /\ part # "pack" => rules = Unused /\ pager = Unused
  /\ part \notin PanelsPart =>
       /\ findings = Unused /\ ai = Unused /\ items = Unused /\ panel = Unused
       /\ controlVerdict = Unused /\ rows = Unused /\ opened = Unused /\ open = Unused
  /\ part # "store" => revisions = Unused /\ seen = Unused /\ made = Unused
  /\ part \notin TransportPart =>
       /\ state = Unused /\ failures = Unused /\ probe = Unused /\ generation = Unused
       /\ cooled = Unused /\ limit = Unused /\ free = Unused /\ active = Unused
       /\ waiting = Unused /\ permit = Unused /\ attempt = Unused /\ answer = Unused
  /\ part \notin FilePart => file = Unused /\ edits = Unused
  /\ part \notin LockPart => lock = Unused
  /\ part \notin PcPart => pc = Unused

Init ==
  /\ part \in Parts
  /\ Idle
  /\ \/ part = "overlay" /\ Overlay!Init
     \/ part = "locked" /\ Locked!Init
     \/ part = "page" /\ Page!Lib!Init
     \/ part = "pack" /\ Page!Pack!Init
     \/ part = "merge" /\ Merge!Panels!Init
     \/ part = "metrics" /\ Page!Panels!Init
     \/ part = "store" /\ Store!Init
     \/ part = "transport" /\ Transport!Init
     \/ part = "gate" /\ Gate!Init

\* A step of one part leaves the variables of the others alone.
Rest ==
  /\ part \notin OverlayPart => UNCHANGED overlayVars
  /\ part # "page" => UNCHANGED pageVars
  /\ part # "pack" => UNCHANGED packVars
  /\ part \notin PanelsPart => UNCHANGED panelVars
  /\ part # "store" => UNCHANGED storeVars
  /\ part \notin TransportPart => UNCHANGED transportVars
  /\ part \notin FilePart => UNCHANGED <<file, edits>>
  /\ part \notin LockPart => UNCHANGED lock
  /\ part \notin PcPart => UNCHANGED pc

In(p, A) == part = p /\ A /\ UNCHANGED part /\ Rest

Next ==
  \/ In("overlay", Overlay!Next)
  \/ In("locked", Locked!Next)
  \/ In("page", Page!Lib!Next)
  \/ In("pack", Page!Pack!Next)
  \/ In("merge", Merge!Panels!Next)
  \/ In("metrics", Page!Panels!Next)
  \/ In("store", Store!Next)
  \/ In("transport", Transport!Next)
  \/ In("gate", Gate!Next)

Spec == Init /\ [][Next]_vars

-----------------------------------------------------------------------------
(* The properties of the parts; see their modules *)

\* Overlay, in any order of the edits of two processes: in a file that can be read, a
\* deleted rule is neither listed nor reviewed with, and no id is a candidate and a
\* rule at the same time.
OverlayExact == part = "overlay" => Overlay!OverlayExact

\* Overlay: the threads of one process lose no edit of each other.
EditsKept == part = "locked" => Locked!EditsKept

\* Rules page: for a user who waits, the list is the library as it is, and what its
\* rows and forms offer, the server never refuses.
ListCurrent == part = "page" => Page!Lib!ListCurrent /\ Page!Lib!NoEditRefused

\* Rule tables: a pack that shrinks leaves no table behind its end, every rule is on
\* exactly one page, and the cells of a matrix page span exactly its rows.
PagesExact ==
  part = "pack" => /\ Page!Pack!PageInRange /\ Page!Pack!WindowOffersPage
                   /\ Page!Pack!EveryRuleOnOnePage /\ Page!Pack!MatrixCellsExact

\* Result panels: every finding and every judgement of the model is a row, once
\* and under the verdict of its level, and no card or column hides a worse one.
NothingHidden ==
  /\ part = "merge" => Merge!Panels!NothingLost /\ Merge!Panels!VerdictOfLevel
  /\ part = "metrics" => Page!Panels!NoHiddenBucket /\ Page!Panels!CardsShowWorst

\* Control panel: a result opens on rows if there are any, whatever verdict was
\* chosen in a result before.
OpensOnRows == [][part = "merge" /\ panel' = "control" /\ (panel # "control" \/ items' # items)
  => (Merge!Panels!ControlItems(items') # <<>> => rows' # <<>>)]_vars

\* Review result: what the server confirmed stays, what it refused is not there.
ConfirmedIsKept == part = "store" => Store!ConfirmedIsKept

\* Review result: after the final result, the decisions are what they were.
FinalIsFrozen == part = "store" => Store!FinalIsFrozen

\* Model transport: in half-open the mark of the probe is set exactly while one
\* running call holds a permit to probe; with the policy left alone, the free slots
\* and the calls in a slot are the limit, through every retry and error.
PermitsAccounted ==
  /\ part = "transport" => Transport!PermitsAccounted
  /\ part = "gate" => Gate!PermitsAccounted
=============================================================================
