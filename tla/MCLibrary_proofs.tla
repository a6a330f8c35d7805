-------------------------- MODULE MCLibrary_proofs --------------------------
(***************************************************************************)
(* The safety properties that the run of MCLibrary checks, as theorems for *)
(* any sets of rules, threads and requests.  A part runs by itself: a      *)
(* behaviour of the whole that picks it is a behaviour of the module it is *)
(* an instance of, whose theorems are in Library_proofs, ReviewStore_proofs *)
(* and ModelTransport_proofs.                                              *)
(***************************************************************************)
EXTENDS MCLibrary, TLAPS

-----------------------------------------------------------------------------
(* The parts *)

\* The part stays the one that was picked.
LEMMA PartStays == [Next]_vars => part' = part
  BY DEF Next, In, vars

LEMMA OverlayRuns ==
  Spec => /\ part = "overlay" => [](part = "overlay") /\ Overlay!Spec
          /\ ~(part = "overlay") => []~(part = "overlay")
  <1>1. Init /\ part = "overlay" => Overlay!Init
    BY DEF Init
  <1>2. [Next]_vars /\ part = "overlay" => [Overlay!Next]_(Overlay!vars)
    BY DEF Next, In, vars, overlayVars, Overlay!vars
  <1>3. /\ [Next]_vars /\ part = "overlay" => (part = "overlay")'
        /\ [Next]_vars /\ ~(part = "overlay") => ~(part = "overlay")'
    BY PartStays
  <1>4. QED  BY <1>1, <1>2, <1>3, PTL DEF Spec, Overlay!Spec

LEMMA LockedRuns ==
  Spec => /\ part = "locked" => [](part = "locked") /\ Locked!Spec
          /\ ~(part = "locked") => []~(part = "locked")
  <1>1. Init /\ part = "locked" => Locked!Init
    BY DEF Init
  <1>2. [Next]_vars /\ part = "locked" => [Locked!Next]_(Locked!vars)
    BY DEF Next, In, vars, overlayVars, Locked!vars
  <1>3. /\ [Next]_vars /\ part = "locked" => (part = "locked")'
        /\ [Next]_vars /\ ~(part = "locked") => ~(part = "locked")'
    BY PartStays
  <1>4. QED  BY <1>1, <1>2, <1>3, PTL DEF Spec, Locked!Spec

LEMMA PageRuns ==
  Spec => /\ part = "page" => [](part = "page") /\ Page!Lib!Spec
          /\ ~(part = "page") => []~(part = "page")
  <1>1. Init /\ part = "page" => Page!Lib!Init
    BY DEF Init
  <1>2. [Next]_vars /\ part = "page" => [Page!Lib!Next]_(Page!Lib!vars)
    BY DEF Next, In, vars, pageVars, Page!Lib!vars
  <1>3. /\ [Next]_vars /\ part = "page" => (part = "page")'
        /\ [Next]_vars /\ ~(part = "page") => ~(part = "page")'
    BY PartStays
  <1>4. QED  BY <1>1, <1>2, <1>3, PTL DEF Spec, Page!Lib!Spec

LEMMA PackRuns ==
  Spec => /\ part = "pack" => [](part = "pack") /\ Page!Pack!Spec
          /\ ~(part = "pack") => []~(part = "pack")
  <1>1. Init /\ part = "pack" => Page!Pack!Init
    BY DEF Init
  <1>2. [Next]_vars /\ part = "pack" => [Page!Pack!Next]_(Page!Pack!vars)
    BY DEF Next, In, vars, packVars, Page!Pack!vars
  <1>3. /\ [Next]_vars /\ part = "pack" => (part = "pack")'
        /\ [Next]_vars /\ ~(part = "pack") => ~(part = "pack")'
    BY PartStays
  <1>4. QED  BY <1>1, <1>2, <1>3, PTL DEF Spec, Page!Pack!Spec

LEMMA MergeRuns ==
  Spec => /\ part = "merge" => [](part = "merge") /\ Merge!Panels!Spec
          /\ ~(part = "merge") => []~(part = "merge")
  <1>1. Init /\ part = "merge" => Merge!Panels!Init
    BY DEF Init
  <1>2. [Next]_vars /\ part = "merge" => [Merge!Panels!Next]_(Merge!Panels!vars)
    BY DEF Next, In, vars, panelVars, Merge!Panels!vars
  <1>3. /\ [Next]_vars /\ part = "merge" => (part = "merge")'
        /\ [Next]_vars /\ ~(part = "merge") => ~(part = "merge")'
    BY PartStays
  <1>4. QED  BY <1>1, <1>2, <1>3, PTL DEF Spec, Merge!Panels!Spec

LEMMA MetricsRuns ==
  Spec => /\ part = "metrics" => [](part = "metrics") /\ Page!Panels!Spec
          /\ ~(part = "metrics") => []~(part = "metrics")
  <1>1. Init /\ part = "metrics" => Page!Panels!Init
    BY DEF Init
  <1>2. [Next]_vars /\ part = "metrics" => [Page!Panels!Next]_(Page!Panels!vars)
    BY DEF Next, In, vars, panelVars, Page!Panels!vars
  <1>3. /\ [Next]_vars /\ part = "metrics" => (part = "metrics")'
        /\ [Next]_vars /\ ~(part = "metrics") => ~(part = "metrics")'
    BY PartStays
  <1>4. QED  BY <1>1, <1>2, <1>3, PTL DEF Spec, Page!Panels!Spec

LEMMA StoreRuns ==
  Spec => /\ part = "store" => [](part = "store") /\ Store!Spec
          /\ ~(part = "store") => []~(part = "store")
  <1>1. Init /\ part = "store" => Store!Init
    BY DEF Init
  <1>2. [Next]_vars /\ part = "store" => [Store!Next]_(Store!vars)
    BY DEF Next, In, vars, storeVars, Store!vars
  <1>3. /\ [Next]_vars /\ part = "store" => (part = "store")'
        /\ [Next]_vars /\ ~(part = "store") => ~(part = "store")'
    BY PartStays
  <1>4. QED  BY <1>1, <1>2, <1>3, PTL DEF Spec, Store!Spec

LEMMA TransportRuns ==
  Spec => /\ part = "transport" => [](part = "transport") /\ Transport!Spec
          /\ ~(part = "transport") => []~(part = "transport")
  <1>1. Init /\ part = "transport" => Transport!Init
    BY DEF Init
  <1>2. [Next]_vars /\ part = "transport" => [Transport!Next]_(Transport!vars)
    BY DEF Next, In, vars, transportVars, Transport!vars, Transport!breaker, Transport!gate
  <1>3. /\ [Next]_vars /\ part = "transport" => (part = "transport")'
        /\ [Next]_vars /\ ~(part = "transport") => ~(part = "transport")'
    BY PartStays
  <1>4. QED  BY <1>1, <1>2, <1>3, PTL DEF Spec, Transport!Spec

LEMMA GateRuns ==
  Spec => /\ part = "gate" => [](part = "gate") /\ Gate!Spec
          /\ ~(part = "gate") => []~(part = "gate")
  <1>1. Init /\ part = "gate" => Gate!Init
    BY DEF Init
  <1>2. [Next]_vars /\ part = "gate" => [Gate!Next]_(Gate!vars)
    BY DEF Next, In, vars, transportVars, Gate!vars, Gate!breaker, Gate!gate
  <1>3. /\ [Next]_vars /\ part = "gate" => (part = "gate")'
        /\ [Next]_vars /\ ~(part = "gate") => ~(part = "gate")'
    BY PartStays
  <1>4. QED  BY <1>1, <1>2, <1>3, PTL DEF Spec, Gate!Spec

-----------------------------------------------------------------------------
(* What the run checks *)

\* rule_edits.py: however the edits of the API and of a worker interleave, a deleted
\* rule is neither listed nor reviewed with, and no candidate is a rule.
THEOREM OverlayExactHolds == Spec => []OverlayExact
  <1>1. Overlay!Spec => []Overlay!OverlayExact
    BY OverlayAssumption, Overlay!OverlayExactHolds, PTL DEF Overlay!OverlayExactHolds
  <1>2. QED  BY <1>1, OverlayRuns, PTL DEF OverlayExact

\* The lock of rule_edits.py: the threads of one process lose no edit.
THEOREM EditsKeptHolds == Spec => []EditsKept
  <1>1. Locked!Spec => []Locked!EditsKept
    <2>1. {} = {}
      OBVIOUS
    <2>2. QED
      BY <2>1, OverlayAssumption, Locked!EditsKeptHolds, PTL DEF Locked!EditsKeptHolds
  <1>2. QED  BY <1>1, LockedRuns, PTL DEF EditsKept

\* loadAiRules after every edit: the list of a user who waits is the library, and the
\* server refuses nothing that its rows and forms offer.
THEOREM ListCurrentHolds == Spec => []ListCurrent
  <1>1. Page!Lib!Spec => []Page!Lib!ListCurrent
    BY PageAssumption, Page!ListCurrentHolds, PTL DEF Patient, Page!ListCurrentHolds
  <1>2. Page!Lib!Spec => []Page!Lib!NoEditRefused
    BY PageAssumption, Page!NoEditRefusedHolds, PTL DEF Patient, Page!NoEditRefusedHolds
  <1>3. QED  BY <1>1, <1>2, PageRuns, PTL DEF ListCurrent

\* pagedSlice, buildTablePager and regroupScoreRows: no table of a pack stays behind
\* its end, both show every rule on one page, and the cells of the matrix span its rows.
THEOREM PagesExactHolds == Spec => []PagesExact
  <1>1. Page!Pack!Spec => [](/\ Page!Pack!PageInRange /\ Page!Pack!WindowOffersPage
                             /\ Page!Pack!EveryRuleOnOnePage /\ Page!Pack!MatrixCellsExact)
    BY PackAssumption, Page!TablesExactHolds, PTL DEF Page!TablesExactHolds
  <1>2. QED  BY <1>1, PackRuns, PTL DEF PagesExact

\* reviewItems and the panels: every finding and every judgement of the model is a
\* row under the verdict of its level, and no card or column hides a worse one.
THEOREM NothingHiddenHolds == Spec => []NothingHidden
  <1>1. Merge!Panels!Spec => [](Merge!Panels!NothingLost /\ Merge!Panels!VerdictOfLevel)
    BY Merge!NothingLostHolds, PTL DEF Merge!NothingLostHolds
  <1>2. Page!Panels!Spec => []Page!Panels!NoHiddenBucket
    BY Page!NoHiddenBucketHolds, PTL DEF Page!NoHiddenBucketHolds
  <1>3. Page!Panels!Spec => []Page!Panels!CardsShowWorst
    BY Page!CardsShowWorstHolds, PTL DEF Page!CardsShowWorstHolds
  <1>4. QED  BY <1>1, <1>2, <1>3, MergeRuns, MetricsRuns, PTL DEF NothingHidden

\* renderReviewViews and the chip of the control panel: it opens on rows if it has
\* any, whatever verdict was chosen in a result before.
THEOREM OpensOnRowsHolds == Spec => OpensOnRows
  <1>1. Merge!Panels!Spec => Merge!Panels!OpensOnRows
    BY Merge!OpensOnRowsHolds, PTL DEF Merge!OpensOnRowsHolds
  <1> DEFINE Opens == panel' = "control" /\ (panel # "control" \/ items' # items)
                        => (Merge!Panels!ControlItems(items') # <<>> => rows' # <<>>)
             Checked == part = "merge" /\ panel' = "control" /\ (panel # "control" \/ items' # items)
                          => (Merge!Panels!ControlItems(items') # <<>> => rows' # <<>>)
  <1>2. [Opens]_(Merge!Panels!vars) => [Checked]_vars
    BY DEF Merge!Panels!vars
  <1>3. ~(part = "merge") => [Checked]_vars
    OBVIOUS
  <1> HIDE DEF Opens, Checked
  <1>4. [][Opens]_(Merge!Panels!vars) => [][Checked]_vars
    BY <1>2, PTL
  <1>5. []~(part = "merge") => [][Checked]_vars
    BY <1>3, PTL
  <1>6. Spec => [][Checked]_vars
    BY <1>1, <1>4, <1>5, MergeRuns, PTL DEF Merge!Panels!OpensOnRows, Opens
  <1>7. QED  BY <1>6, PTL DEF OpensOnRows, Checked

\* The file of a review result: what a request was told is done stays done in every
\* later revision, and what it was refused is in none.
THEOREM ConfirmedIsKeptHolds == Spec => []ConfirmedIsKept
  <1>1. Store!Spec => []Store!ConfirmedIsKept
    BY StoreAssumption, Store!ConfirmedIsKeptHolds, PTL DEF Store!ConfirmedIsKeptHolds
  <1>2. QED  BY <1>1, StoreRuns, PTL DEF ConfirmedIsKept

\* ADR-004: from the finalised result on, the decisions are what they were, complete
\* and none deferred.
THEOREM FinalIsFrozenHolds == Spec => []FinalIsFrozen
  <1>1. Store!Spec => []Store!FinalIsFrozen
    BY StoreAssumption, Store!FinalIsFrozenHolds, PTL DEF Store!FinalIsFrozenHolds
  <1>2. QED  BY <1>1, StoreRuns, PTL DEF FinalIsFrozen

\* ExternalModelCircuitBreaker and ExternalModelConcurrencyGate: the mark of the probe
\* belongs to one running call, and no slot is lost or made.
THEOREM PermitsAccountedHolds == Spec => []PermitsAccounted
  <1>1. Transport!Spec => []Transport!PermitsAccounted
    BY TransportAssumption, Transport!PermitsAccountedHolds, PTL
       DEF Transport!PermitsAccountedHolds
  <1>2. Gate!Spec => []Gate!PermitsAccounted
    BY TransportAssumption, Gate!PermitsAccountedHolds, PTL DEF Gate!PermitsAccountedHolds
  <1>3. QED  BY <1>1, <1>2, TransportRuns, GateRuns, PTL DEF PermitsAccounted
=============================================================================
