-------------------------- MODULE MCConsole_proofs --------------------------
(***************************************************************************)
(* The safety properties that the run of MCConsole checks, as theorems for *)
(* any sets of files, keys, tasks and requests.  A part runs by itself: a  *)
(* behaviour of the whole that picks it is a behaviour of the module it is *)
(* an instance of, whose theorems are in Console_proofs.                   *)
(***************************************************************************)
EXTENDS MCConsole, TLAPS

-----------------------------------------------------------------------------
(* The parts *)

\* The part stays the one that was picked.
LEMMA PartStays == [Next]_vars => part' = part
  BY DEF Next, In, vars

LEMMA DeskRuns ==
  Spec => /\ part = "desk" => [](part = "desk") /\ Drafting!Desk!Spec
          /\ ~(part = "desk") => []~(part = "desk")
  <1>1. Init /\ part = "desk" => Drafting!Desk!Init
    BY DEF Init
  <1>2. [Next]_vars /\ part = "desk" => [Drafting!Desk!Next]_(Drafting!Desk!vars)
    BY DEF Next, In, vars, deskVars, formVars, requestVars, Drafting!Desk!vars,
           Drafting!Desk!serverVars, Drafting!Desk!stateVars, Drafting!Desk!pageVars,
           Drafting!Desk!modalVars
  <1>3. /\ [Next]_vars /\ part = "desk" => (part = "desk")'
        /\ [Next]_vars /\ ~(part = "desk") => ~(part = "desk")'
    BY PartStays
  <1>4. QED  BY <1>1, <1>2, <1>3, PTL DEF Spec, Drafting!Desk!Spec

LEMMA PatientDeskRuns ==
  Spec => /\ part = "patient_desk" => [](part = "patient_desk") /\ Waiting!Desk!Spec
          /\ ~(part = "patient_desk") => []~(part = "patient_desk")
  <1>1. Init /\ part = "patient_desk" => Waiting!Desk!Init
    BY DEF Init
  <1>2. [Next]_vars /\ part = "patient_desk" => [Waiting!Desk!Next]_(Waiting!Desk!vars)
    BY DEF Next, In, vars, deskVars, formVars, requestVars, Waiting!Desk!vars,
           Waiting!Desk!serverVars, Waiting!Desk!stateVars, Waiting!Desk!pageVars,
           Waiting!Desk!modalVars
  <1>3. /\ [Next]_vars /\ part = "patient_desk" => (part = "patient_desk")'
        /\ [Next]_vars /\ ~(part = "patient_desk") => ~(part = "patient_desk")'
    BY PartStays
  <1>4. QED  BY <1>1, <1>2, <1>3, PTL DEF Spec, Waiting!Desk!Spec

LEMMA FieldsRuns ==
  Spec => /\ part = "fields" => [](part = "fields") /\ Filling!Fields!Spec
          /\ ~(part = "fields") => []~(part = "fields")
  <1>1. Init /\ part = "fields" => Filling!Fields!Init
    BY DEF Init
  <1>2. [Next]_vars /\ part = "fields" => [Filling!Fields!Next]_(Filling!Fields!vars)
    BY DEF Next, In, vars, fieldVars, formVars, requestVars, Filling!Fields!vars,
           Filling!Fields!clientVars
  <1>3. /\ [Next]_vars /\ part = "fields" => (part = "fields")'
        /\ [Next]_vars /\ ~(part = "fields") => ~(part = "fields")'
    BY PartStays
  <1>4. QED  BY <1>1, <1>2, <1>3, PTL DEF Spec, Filling!Fields!Spec

LEMMA PatientFieldsRuns ==
  Spec => /\ part = "patient_fields" => [](part = "patient_fields") /\ Waiting!Fields!Spec
          /\ ~(part = "patient_fields") => []~(part = "patient_fields")
  <1>1. Init /\ part = "patient_fields" => Waiting!Fields!Init
    BY DEF Init
  <1>2. [Next]_vars /\ part = "patient_fields" => [Waiting!Fields!Next]_(Waiting!Fields!vars)
    BY DEF Next, In, vars, fieldVars, formVars, requestVars, Waiting!Fields!vars,
           Waiting!Fields!clientVars
  <1>3. /\ [Next]_vars /\ part = "patient_fields" => (part = "patient_fields")'
        /\ [Next]_vars /\ ~(part = "patient_fields") => ~(part = "patient_fields")'
    BY PartStays
  <1>4. QED  BY <1>1, <1>2, <1>3, PTL DEF Spec, Waiting!Fields!Spec

LEMMA DetailRuns ==
  Spec => /\ part = "detail" => [](part = "detail") /\ Opening!Detail!DetailSpec
          /\ ~(part = "detail") => []~(part = "detail")
  <1>1. Init /\ part = "detail" => Opening!Detail!DetailInit
    BY DEF Init
  <1>2. [Next]_vars /\ part = "detail" => [Opening!Detail!DetailNext]_(Opening!Detail!vars)
    BY DEF Next, In, vars, dialogVars, requestVars, Opening!Detail!vars,
           Opening!Detail!lifecycleVars, Opening!Detail!dialogVars
  <1>3. /\ [Next]_vars /\ part = "detail" => (part = "detail")'
        /\ [Next]_vars /\ ~(part = "detail") => ~(part = "detail")'
    BY PartStays
  <1>4. QED  BY <1>1, <1>2, <1>3, PTL DEF Spec, Opening!Detail!DetailSpec

LEMMA ListRuns ==
  Spec => /\ part = "list" => [](part = "list") /\ Browsing!List!Spec
          /\ ~(part = "list") => []~(part = "list")
  <1>1. Init /\ part = "list" => Browsing!List!Init
    BY DEF Init
  <1>2. [Next]_vars /\ part = "list" => [Browsing!List!Next]_(Browsing!List!vars)
    BY DEF Next, In, vars, tableVars, Browsing!List!vars
  <1>3. /\ [Next]_vars /\ part = "list" => (part = "list")'
        /\ [Next]_vars /\ ~(part = "list") => ~(part = "list")'
    BY PartStays
  <1>4. QED  BY <1>1, <1>2, <1>3, PTL DEF Spec, Browsing!List!Spec

LEMMA PreviewRuns ==
  Spec => /\ part = "preview" => [](part = "preview") /\ Opening!Preview!Spec
          /\ ~(part = "preview") => []~(part = "preview")
  <1>1. Init /\ part = "preview" => Opening!Preview!Init
    BY DEF Init
  <1>2. [Next]_vars /\ part = "preview" => [Opening!Preview!Next]_(Opening!Preview!vars)
    BY DEF Next, In, vars, previewVars, requestVars, Opening!Preview!vars,
           Opening!Preview!previewVars
  <1>3. /\ [Next]_vars /\ part = "preview" => (part = "preview")'
        /\ [Next]_vars /\ ~(part = "preview") => ~(part = "preview")'
    BY PartStays
  <1>4. QED  BY <1>1, <1>2, <1>3, PTL DEF Spec, Opening!Preview!Spec

LEMMA PatientPreviewRuns ==
  Spec => /\ part = "patient_preview" => [](part = "patient_preview") /\ Browsing!Preview!Spec
          /\ ~(part = "patient_preview") => []~(part = "patient_preview")
  <1>1. Init /\ part = "patient_preview" => Browsing!Preview!Init
    BY DEF Init
  <1>2. [Next]_vars /\ part = "patient_preview" => [Browsing!Preview!Next]_(Browsing!Preview!vars)
    BY DEF Next, In, vars, previewVars, requestVars, Browsing!Preview!vars,
           Browsing!Preview!previewVars
  <1>3. /\ [Next]_vars /\ part = "patient_preview" => (part = "patient_preview")'
        /\ [Next]_vars /\ ~(part = "patient_preview") => ~(part = "patient_preview")'
    BY PartStays
  <1>4. QED  BY <1>1, <1>2, <1>3, PTL DEF Spec, Browsing!Preview!Spec

LEMMA SessionRuns ==
  Spec => /\ part = "session" => [](part = "session") /\ Opening!Session!Spec
          /\ ~(part = "session") => []~(part = "session")
  <1>1. Init /\ part = "session" => Opening!Session!Init
    BY DEF Init
  <1>2. [Next]_vars /\ part = "session" => [Opening!Session!Next]_(Opening!Session!vars)
    BY DEF Next, In, vars, sessionVars, Opening!Session!vars
  <1>3. /\ [Next]_vars /\ part = "session" => (part = "session")'
        /\ [Next]_vars /\ ~(part = "session") => ~(part = "session")'
    BY PartStays
  <1>4. QED  BY <1>1, <1>2, <1>3, PTL DEF Spec, Opening!Session!Spec

-----------------------------------------------------------------------------
(* What the run checks *)

\* openTaskDetail: whatever order the answers come in, and whichever are lost, the
\* intervals alive are exactly the one detailTimer names, and it polls for a body
\* that announces it.
THEOREM TimersAccountedHolds == Spec => []TimersAccounted
  <1>1. Opening!Detail!DetailSpec => []Opening!Detail!TimersAccounted
    BY DialogAssumption, Opening!TimersAccountedHolds, PTL DEF Opening!TimersAccountedHolds
  <1>2. QED  BY <1>1, DetailRuns, PTL DEF TimersAccounted

\* setReviewFiles and the answers of reviews: a user who waits sees no result of
\* files other than those chosen.
THEOREM PageShowsItsFilesHolds == Spec => []PageShowsItsFiles
  <1>1. Waiting!Desk!Spec => []Waiting!Desk!PageShowsItsFiles
    BY DeskAssumption, Waiting!PageShowsItsFilesHolds, PTL DEF Waiting!PageShowsItsFilesHolds
  <1>2. QED  BY <1>1, PatientDeskRuns, PTL DEF PageShowsItsFiles

\* loadElementForm, elementsState and the progress cards of the draft page, under
\* any overlap of reviews, extractions and credit checks.
THEOREM DraftInStepHolds == Spec => []DraftInStep
  <1>1. Drafting!Desk!Spec => [](Drafting!Desk!DrawnIsForm /\ Drafting!Desk!OverridesOfForm)
    BY Drafting!DraftFormHolds, PTL DEF Drafting!DraftFormHolds
  <1>2. Drafting!Desk!Spec => []Drafting!Desk!NoOrphanSpinner
    BY Drafting!NoOrphanSpinnerHolds, PTL DEF Drafting!NoOrphanSpinnerHolds
  <1>3. QED  BY <1>1, <1>2, DeskRuns, PTL DEF DraftInStep

\* collectFilledElements reads what was filled in last, through any number of
\* renderings; the dialog and the form of a user who waits follow the catalogue.
THEOREM FieldsInStepHolds == Spec => []FieldsInStep
  <1>1. Filling!Fields!Spec => []Filling!Fields!CollectsWhatWasFilled
    BY Filling!CollectsWhatWasFilledHolds, PTL DEF Filling!CollectsWhatWasFilledHolds
  <1>2. Waiting!Fields!Spec => []Waiting!Fields!DialogCurrent
    BY Waiting!DialogCurrentHolds, PTL DEF Waiting!DialogCurrentHolds
  <1>3. QED  BY <1>1, <1>2, FieldsRuns, PatientFieldsRuns, PTL DEF FieldsInStep

\* loadTasks fills the table that is on the page for the page and filter of
\* tasksState; applyConfig and saveConfig keep the address and its field in step.
THEOREM StateShownHolds == Spec => []StateShown
  <1>1. Browsing!List!Spec => [](Browsing!List!TableCurrent /\ Browsing!List!PageExists)
    BY ListAssumption, Browsing!TableCurrentHolds, PTL DEF Browsing!TableCurrentHolds
  <1>2. Opening!Session!Spec => []Opening!Session!AddressApplied
    BY SessionAssumption, Opening!AddressAppliedHolds, PTL DEF Opening!AddressAppliedHolds
  <1>3. QED  BY <1>1, <1>2, ListRuns, SessionRuns, PTL DEF StateShown

\* revokeElementPreview and loadExtractPreview: one object URL is alive, and it is
\* of the file whose name stands above the pane.
THEOREM PreviewExactHolds == Spec => []PreviewExact
  <1>1. Opening!Preview!Spec => []Opening!Preview!UrlsAccounted
    BY PreviewAssumption, Opening!UrlsAccountedHolds, PTL DEF Opening!UrlsAccountedHolds
  <1>2. Browsing!Preview!Spec => []Browsing!Preview!PaneShowsNamedFile
    BY PreviewAssumption, Browsing!PaneShowsNamedFileHolds, PTL
       DEF Browsing!PaneShowsNamedFileHolds
  <1>3. QED  BY <1>1, <1>2, PreviewRuns, PatientPreviewRuns, PTL DEF PreviewExact
=============================================================================
