--------------------------- MODULE ElementFields ---------------------------
(***************************************************************************)
(* The element catalogue and the form drawn from it (app.js:               *)
(* renderElementForm, elementFormItems, ensureElementCatalog,              *)
(* loadElementSchema, openElementFieldForm, saveElementField,              *)
(* toggleElementField, deleteElementField, fillAllExtracted; elements.py:  *)
(* apply_element_field_write and the gate behind it).  Edits of the        *)
(* catalogue are serialised by the server; the table in the extraction     *)
(* dialog and the form of the page below it follow by reading it again.    *)
(***************************************************************************)
EXTENDS Naturals, FiniteSets

CONSTANTS
  Key,        \* field keys
  Patient,    \* the user waits for every answer
  Slot,       \* bound: requests in flight
  MaxClicks,  \* bound: things the user does
  MaxErrors   \* bound: requests that fail

FieldsAssumption ==
  /\ Key # {} /\ Patient \in BOOLEAN /\ MaxClicks \in Nat /\ MaxErrors \in Nat

VARIABLES
  cat,            \* the catalogue on the server: a state for every key
  catalog,        \* elementsState.catalog, or Unknown
  form,           \* the keys of elementsState.form, {} when there is none
  over,           \* elementsState.overrides
  page,           \* the draft page is shown
  drawn,          \* the inputs of #contract-fill-form, or its placeholder
  modal, shown,   \* the dialog in the modal; the modal is visible
  flight, clicks, errors

clientVars == <<catalog, form, over, page, drawn, modal, shown>>
vars == <<cat, clientVars, flight, clicks, errors>>

Field == {"absent", "off", "on", "required"}
Catalogue == [Key -> Field]
Unknown == [k \in Key |-> "unknown"]
Enabled(c) == {k \in Key : c[k] \in {"on", "required"}}

\* A value of an input: nothing, what the user typed or what was extracted.
Value == {"", "typed", "extracted"}
NoValues == [k \in Key |-> ""]

Placeholder == [is |-> "placeholder", keys |-> {}, values |-> NoValues]
Inputs(keys, ov) == [is |-> "inputs", keys |-> keys, values |-> ov]

Idle == [kind |-> "idle", at |-> 0, key |-> {}, to |-> "absent", answer |-> Unknown, ok |-> "none"]

Click ==
  /\ clicks < MaxClicks
  /\ clicks' = clicks + 1
  /\ Patient => \A f \in Slot : flight[f] = Idle

-----------------------------------------------------------------------------
(* The server *)

\* catalog_from_payload: there are fields and one of them is enabled.  (A
\* required field is enabled in every state of Field; see Written.)
Servable(c) == Enabled(c) # {}

\* apply_element_field_write.  Switching a required field off does not pass
\* the gate, so there is no catalogue it leads to.
Written(c, kind, k, to) ==
  CASE kind = "create" /\ c[k] = "absent" -> {[c EXCEPT ![k] = to]}
    [] kind = "update" /\ c[k] # "absent" -> {[c EXCEPT ![k] = to]}
    [] kind = "delete" /\ c[k] # "absent" -> {[c EXCEPT ![k] = "absent"]}
    [] kind = "toggle" /\ c[k] \in {"on", "off"} -> {[c EXCEPT ![k] = to]}
    [] kind = "toggle" /\ c[k] = "required" /\ to = "on" -> {c}
    [] OTHER -> {}

Serve(f) ==
  LET r == flight[f]
      k == CHOOSE x \in r.key : TRUE
      new == {c \in Written(cat, r.kind, k, r.to) : Servable(c)} IN
  /\ r # Idle /\ r.ok = "none"
  /\ IF r.kind \in {"schema", "ensure"}
       THEN /\ flight' = [flight EXCEPT ![f].ok = "yes", ![f].answer = cat]
            /\ UNCHANGED cat
       ELSE IF new = {} THEN flight' = [flight EXCEPT ![f].ok = "no"] /\ UNCHANGED cat
       ELSE flight' = [flight EXCEPT ![f].ok = "yes"] /\ cat' \in new
  /\ UNCHANGED <<clientVars, clicks, errors>>

RequestFails(f) ==
  /\ flight[f] # Idle /\ flight[f].ok = "none"
  /\ errors < MaxErrors
  /\ errors' = errors + 1
  /\ flight' = [flight EXCEPT ![f].ok = "no"]
  /\ UNCHANGED <<cat, clientVars, clicks>>

Send(f, kind, at, key, to) ==
  /\ flight[f] = Idle
  /\ flight' = [flight EXCEPT ![f] = [Idle EXCEPT !.kind = kind, !.at = at, !.key = key, !.to = to]]

Done(f) == flight' = [flight EXCEPT ![f] = Idle]

-----------------------------------------------------------------------------
(* The form *)

\* elementFormItems: the fields of the extraction, else the enabled fields of
\* the catalogue.
ElementFormItems(c, fm) == IF fm # {} THEN fm ELSE Enabled(c)

\* renderElementForm: every input starts with its override.
RenderElementForm(c, fm, ov) ==
  drawn' = IF page' THEN Inputs(ElementFormItems(c, fm), ov) ELSE drawn

\* renderDraftPage: the placeholder is replaced at once by renderElementForm;
\* then ensureElementCatalog.
RenderDraftPage(f) ==
  /\ Click /\ ~shown /\ ~page
  /\ page' = TRUE
  /\ RenderElementForm(catalog, form, over)
  /\ IF catalog = Unknown THEN Send(f, "ensure", 0, {}, "absent") ELSE UNCHANGED flight
  /\ UNCHANGED <<cat, catalog, form, over, modal, shown, errors>>

LeavePage ==
  /\ Click /\ ~shown /\ page
  /\ page' = FALSE /\ drawn' = Placeholder
  /\ UNCHANGED <<cat, catalog, form, over, modal, shown, flight, errors>>

\* ensureElementCatalog's answer.
EnsureElementCatalog(f) ==
  LET r == flight[f] IN
  /\ r.kind = "ensure" /\ r.ok # "none"
  /\ UNCHANGED page
  /\ IF r.ok = "yes"
       THEN /\ catalog' = r.answer
            /\ IF form = {} THEN RenderElementForm(r.answer, form, over) ELSE UNCHANGED drawn
       ELSE UNCHANGED <<catalog, drawn>>
  /\ Done(f)
  /\ UNCHANGED <<cat, form, over, modal, shown, clicks, errors>>

CanFill(k) == Click /\ page /\ ~shown /\ k \in drawn.keys

\* buildInlineFillField: the user types, or picks one of the suggestions.
PickValue(k, v) ==
  /\ CanFill(k) /\ (v = "extracted" => k \in form)
  /\ drawn' = [drawn EXCEPT !.values[k] = v]
  /\ over' = [over EXCEPT ![k] = v]
  /\ UNCHANGED <<cat, catalog, form, page, modal, shown, flight, errors>>

\* fillAllExtracted: also over what the user typed.
FillAllExtracted ==
  LET fill(values) == [k \in Key |-> IF k \in form THEN "extracted" ELSE values[k]] IN
  /\ Click /\ page /\ ~shown /\ form # {}
  /\ over' = fill(over)
  /\ drawn' = [drawn EXCEPT !.values = fill(drawn.values)]
  /\ UNCHANGED <<cat, catalog, form, page, modal, shown, flight, errors>>

\* collectElementValues reads the inputs.
CollectElementValues == [k \in drawn.keys |-> drawn.values[k]]

\* An extraction ends (ReviewDesk): a form with the enabled fields, on the
\* draft page, the modal closed and the overrides dropped.
ExtractionEnds ==
  /\ Click /\ shown /\ modal.kind = "extract"
  /\ form' = Enabled(cat) /\ over' = NoValues
  /\ page' = TRUE /\ RenderElementForm(catalog, form', over')
  /\ shown' = FALSE
  /\ UNCHANGED <<cat, catalog, modal, flight, errors>>

-----------------------------------------------------------------------------
(* The table of the extraction dialog *)

\* loadElementSchema up to its await; without #element-schema it returns.
LoadElementSchema(f, m) ==
  IF m.kind # "extract" THEN Done(f) /\ modal' = m
  ELSE /\ flight' = [flight EXCEPT ![f] = [Idle EXCEPT !.kind = "schema", !.at = m.at]]
       /\ modal' = [m EXCEPT !.table = Unknown]

OpenExtractDialog(f) ==
  /\ Click /\ page /\ ~shown /\ flight[f] = Idle
  /\ shown' = TRUE
  /\ LoadElementSchema(f, [kind |-> "extract", at |-> modal.at + 1, key |-> {}, table |-> Unknown])
  /\ UNCHANGED <<cat, catalog, form, over, page, drawn, errors>>

CloseModal ==
  /\ Click /\ shown
  /\ shown' = FALSE
  /\ UNCHANGED <<cat, catalog, form, over, page, drawn, modal, flight, errors>>

\* Mutant: the form below the dialog is not drawn again.
SchemaArrivesOnly(f) ==
  LET r == flight[f] IN
  /\ r.kind = "schema" /\ r.ok = "yes"
  /\ catalog' = r.answer
  /\ modal' = IF modal.at = r.at THEN [modal EXCEPT !.table = r.answer] ELSE modal
  /\ Done(f)
  /\ UNCHANGED <<cat, form, over, page, drawn, shown, clicks, errors>>

\* ... and after it: the table, and the form of the page.
SchemaArrives(f) ==
  LET r == flight[f] IN
  /\ r.kind = "schema" /\ r.ok = "yes"
  /\ catalog' = r.answer
  /\ modal' = IF modal.at = r.at THEN [modal EXCEPT !.table = r.answer] ELSE modal
  /\ UNCHANGED page
  /\ RenderElementForm(r.answer, form, over)
  /\ Done(f)
  /\ UNCHANGED <<cat, form, over, shown, clicks, errors>>

SchemaFails(f) ==
  /\ flight[f].kind = "schema" /\ flight[f].ok = "no"
  /\ Done(f)
  /\ UNCHANGED <<cat, clientVars, clicks, errors>>

\* A row of the table.
HasRow(k) ==
  /\ Click /\ shown /\ modal.kind = "extract"
  /\ modal.table # Unknown /\ modal.table[k] # "absent"

ToggleElementField(f, k) ==
  /\ HasRow(k)
  /\ Send(f, "toggle", modal.at, {k}, IF k \in Enabled(modal.table) THEN "off" ELSE "on")
  /\ UNCHANGED <<cat, clientVars, errors>>

DeleteElementField(f, k) ==
  /\ HasRow(k)
  /\ Send(f, "delete", modal.at, {k}, "absent")
  /\ UNCHANGED <<cat, clientVars, errors>>

\* openElementFieldForm: the form takes the place of the dialog in the modal.
OpenElementFieldForm(key) ==
  /\ Click /\ shown /\ modal.kind = "extract" /\ modal.table # Unknown
  /\ \A k \in key : modal.table[k] # "absent"
  /\ modal' = [kind |-> "field", at |-> modal.at + 1, key |-> key, table |-> Unknown]
  /\ UNCHANGED <<cat, catalog, form, over, page, drawn, shown, flight, errors>>

\* saveElementField; the user chooses the key of a new field and the boxes.
SaveElementField(f, k, to) ==
  /\ Click /\ shown /\ modal.kind = "field"
  /\ modal.key \in {{}, {k}}
  /\ Send(f, IF modal.key = {} THEN "create" ELSE "update", modal.at, {k}, to)
  /\ UNCHANGED <<cat, clientVars, errors>>

\* The answer to an edit: a save closes the modal first.
EditArrives(f) ==
  LET r == flight[f]  save == r.kind \in {"create", "update"} IN
  /\ r.kind \in {"create", "update", "toggle", "delete"} /\ r.ok # "none"
  /\ shown' = (shown /\ ~(save /\ r.ok = "yes"))
  /\ IF r.ok = "yes" THEN LoadElementSchema(f, modal) ELSE Done(f) /\ UNCHANGED modal
  /\ UNCHANGED <<cat, catalog, form, over, page, drawn, clicks, errors>>

-----------------------------------------------------------------------------

Init ==
  /\ cat \in {c \in Catalogue : Servable(c)}
  /\ catalog = Unknown /\ form = {} /\ over = NoValues
  /\ page = FALSE /\ drawn = Placeholder
  /\ modal = [kind |-> "none", at |-> 0, key |-> {}, table |-> Unknown] /\ shown = FALSE
  /\ flight = [f \in Slot |-> Idle]
  /\ clicks = 0 /\ errors = 0

Next ==
  \/ \E f \in Slot :
       \/ Serve(f) \/ RequestFails(f)
       \/ RenderDraftPage(f) \/ EnsureElementCatalog(f) \/ OpenExtractDialog(f)
       \/ SchemaArrives(f) \/ SchemaFails(f) \/ EditArrives(f)
       \/ \E k \in Key : \/ ToggleElementField(f, k) \/ DeleteElementField(f, k)
                         \/ \E to \in Field \ {"absent"} : SaveElementField(f, k, to)
  \/ \E k \in Key : OpenElementFieldForm({k}) \/ \E v \in Value : PickValue(k, v)
  \/ OpenElementFieldForm({})
  \/ LeavePage \/ FillAllExtracted \/ ExtractionEnds \/ CloseModal

Spec == Init /\ [][Next]_vars

-----------------------------------------------------------------------------
(* Properties *)

Quiet == \A f \in Slot : flight[f] = Idle

\* With the table loaded and the user waiting, the table is the catalogue,
\* and so is the form of the page below it while there is no extraction.
DialogCurrent ==
  Quiet /\ shown /\ modal.kind = "extract" /\ modal.table # Unknown
    => modal.table = cat /\ (form = {} => drawn.keys = Enabled(cat))

\* What is collected is what the user filled in last, through any number of
\* renderings of the form: late catalogues, edits of fields, pages left.
CollectsWhatWasFilled ==
  page => \A k \in drawn.keys : CollectElementValues[k] = over[k]
=============================================================================
