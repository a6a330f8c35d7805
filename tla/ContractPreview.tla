-------------------------- MODULE ContractPreview --------------------------
(***************************************************************************)
(* The preview of the first attachment in the extraction dialog (app.js:   *)
(* setElementFiles, setElementPreview, loadExtractPreview,                 *)
(* renderExtractPreview, buildContractPreviewPane).  A PDF or an image is  *)
(* shown through an object URL; any other file is uploaded and the answer  *)
(* is written into the one preview state there is, whenever it comes.      *)
(***************************************************************************)
EXTENDS Naturals, FiniteSets

CONSTANTS
  File,      \* attachments
  Native,    \* those nativePreviewKind knows
  Patient,   \* the user waits for the preview
  Slot,      \* bound: uploads in flight
  MaxOpens,  \* bound: times the dialog is opened
  MaxErrors  \* bound: uploads that fail

PreviewAssumption ==
  /\ Native \subseteq File /\ Patient \in BOOLEAN
  /\ MaxOpens \in Nat /\ MaxErrors \in Nat

VARIABLES
  files,    \* elementsState.files: the first one, and the others
  url,      \* previewUrl: the number of an object URL, 0 when null
  urls,     \* object URLs created and not revoked
  urlOf,    \* the file of each object URL
  kind,     \* previewKind
  content,  \* previewHtml and previewText: the file they are of
  pane,     \* what #extract-preview shows
  modal, shown,  \* the modal holds the extraction dialog; it is visible
  opens, flight, errors

previewVars == <<url, urls, urlOf, kind, content>>
vars == <<files, previewVars, pane, modal, shown, opens, flight, errors>>

Nobody == {}
Idle == [of |-> Nobody, answer |-> "none"]
First == files.first

Still == Patient => \A f \in Slot : flight[f] = Idle

-----------------------------------------------------------------------------
(* The preview state *)

\* Mutant: the object URL is forgotten, not revoked.
RevokeForgets == url' = 0 /\ UNCHANGED urls

RevokeElementPreview == url' = 0 /\ urls' = urls \ {url}

\* resetElementPreview: the texts (the URL and the kind are set by its callers
\* in the same step).
ResetElementPreview == content' = Nobody

\* setElementFiles: appended behind the first, or replaced; then
\* resetElementPreview.  The first file is removed through `replace` too.
SetElementFiles(first, rest) ==
  /\ ~shown /\ Still
  /\ files' = [first |-> first, rest |-> rest]
  /\ RevokeElementPreview
  /\ ResetElementPreview /\ kind' = ""
  /\ UNCHANGED <<urlOf, pane, modal, shown, opens, flight, errors>>

AddFile(x) ==
  IF First = Nobody THEN SetElementFiles({x}, {})
  ELSE SetElementFiles(First, files.rest \cup ({x} \ First))

RemoveOther(x) == x \in files.rest /\ SetElementFiles(First, files.rest \ {x})

RemoveFirst ==
  /\ First # Nobody
  /\ \/ files.rest = {} /\ SetElementFiles(Nobody, {})
     \/ \E x \in files.rest : SetElementFiles({x}, files.rest \ {x})

\* buildContractPreviewPane: the name of the first file above a viewer.
PreviewPane(u, k, c) ==
  LET first == First
      k1 == IF k # "" THEN k ELSE IF first # Nobody /\ first \subseteq Native THEN "native" ELSE ""
      framed == u # 0 /\ k1 = "native" IN
  [name |-> first,
   viewer |-> IF framed THEN "url"
              ELSE IF c # Nobody THEN "text"
              ELSE IF first # Nobody /\ k1 = "" THEN "opening" ELSE "message",
   url |-> IF framed THEN u ELSE 0,
   of |-> IF framed THEN urlOf'[u] ELSE c]

\* renderExtractPreview: only while the dialog is in the modal.
RenderExtractPreview(m, u, k, c) ==
  pane' = IF m = "extract" THEN PreviewPane(u, k, c) ELSE pane

-----------------------------------------------------------------------------
(* The dialog *)

\* setElementPreview: the URL before it is revoked.
SetElementPreview(u) ==
  /\ opens' = u /\ urlOf' = [urlOf EXCEPT ![u] = First]
  /\ url' = u /\ urls' = (urls \ {url}) \cup {u}
  /\ ResetElementPreview

\* openExtractDialog and loadExtractPreview: a new object URL for the first
\* file; an upload unless the browser can show the file itself.
LoadExtractPreview(f) ==
  LET native == First \subseteq Native  u == opens + 1  k == IF native THEN "native" ELSE "" IN
  /\ ~shown /\ Still /\ First # Nobody /\ opens < MaxOpens
  /\ shown' = TRUE /\ modal' = "extract"
  /\ SetElementPreview(u)
  /\ kind' = k
  /\ RenderExtractPreview("extract", u, k, content')
  /\ IF native THEN UNCHANGED flight
     ELSE flight[f] = Idle /\ flight' = [flight EXCEPT ![f] = [of |-> First, answer |-> "none"]]
  /\ UNCHANGED <<files, errors>>

\* POST /contract-preview answers with a text, or fails.
Serve(f) ==
  /\ flight[f] # Idle /\ flight[f].answer = "none"
  /\ \/ flight' = [flight EXCEPT ![f].answer = "text"] /\ UNCHANGED errors
     \/ /\ errors < MaxErrors
        /\ errors' = errors + 1
        /\ flight' = [flight EXCEPT ![f].answer = "error"]
  /\ UNCHANGED <<files, previewVars, pane, modal, shown, opens>>

\* The kind an answer sets.
AnswerKind(answer) == answer

\* The answer is written into the state and drawn, whatever file is there now;
\* an error leaves the text there was.
PreviewArrives(f) ==
  LET r == flight[f]
      k == AnswerKind(r.answer)
      c == IF r.answer = "error" THEN content ELSE r.of IN
  /\ r # Idle /\ r.answer # "none"
  /\ kind' = k /\ content' = c
  /\ UNCHANGED <<url, urls, urlOf>>
  /\ RenderExtractPreview(modal, url, k, c)
  /\ flight' = [flight EXCEPT ![f] = Idle]
  /\ UNCHANGED <<files, modal, shown, opens, errors>>

\* Another dialog, or the form of a field, takes the place of this one.
OpenOther ==
  /\ modal' = "other" /\ shown' = TRUE
  /\ modal # "other"
  /\ UNCHANGED <<files, previewVars, pane, opens, flight, errors>>

CloseModal ==
  /\ shown
  /\ shown' = FALSE
  /\ UNCHANGED <<files, previewVars, pane, modal, opens, flight, errors>>

-----------------------------------------------------------------------------

Init ==
  /\ files = [first |-> Nobody, rest |-> {}]
  /\ url = 0 /\ urls = {} /\ urlOf = [u \in 1 .. MaxOpens |-> Nobody]
  /\ kind = "" /\ content = Nobody
  /\ pane = [name |-> Nobody, viewer |-> "message", url |-> 0, of |-> Nobody]
  /\ modal = "none" /\ shown = FALSE
  /\ opens = 0 /\ flight = [f \in Slot |-> Idle] /\ errors = 0

Answers(f) == Serve(f) \/ PreviewArrives(f)

Next ==
  \/ \E x \in File : AddFile(x) \/ RemoveOther(x)
  \/ RemoveFirst \/ OpenOther \/ CloseModal
  \/ \E f \in Slot : LoadExtractPreview(f) \/ Answers(f)

Spec == Init /\ [][Next]_vars

\* Every upload gets an answer or fails, and its function then continues.
FairSpec == Spec /\ \A f \in Slot : WF_vars(Answers(f))

-----------------------------------------------------------------------------
(* Properties *)

\* Object URLs are neither leaked nor used after they are revoked: the only
\* one alive is the current one, and a visible viewer uses that one.
UrlsAccounted ==
  /\ urls = {url} \ {0}
  /\ shown /\ modal = "extract" /\ pane.viewer = "url" => pane.url \in urls

\* "The contract is opened here": the contract in the pane is the one whose
\* name stands above it.
PaneShowsNamedFile ==
  shown /\ modal = "extract" /\ pane.viewer \in {"url", "text"} => pane.of = pane.name

\* "Opening the contract" does not stay in a dialog that stays open.
OpeningEnds ==
  pane.viewer = "opening" ~> (pane.viewer # "opening" \/ modal # "extract")
=============================================================================
