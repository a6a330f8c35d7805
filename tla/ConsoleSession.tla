--------------------------- MODULE ConsoleSession ---------------------------
(***************************************************************************)
(* The connection of the console (app.js: api, applyConfig, loadConfigUI,  *)
(* saveConfig, refreshHealth, init): the address of the service, kept by   *)
(* the browser, the token, kept by the tab, and the name of the header the *)
(* token travels in, which the console learns from the health of the       *)
(* service and sends with every request.  refreshHealth runs at load,      *)
(* after a save and every 30 seconds, and does not wait for the call       *)
(* before it: the answers of two services may come in any order.           *)
(***************************************************************************)
EXTENDS Naturals

CONSTANTS
  Base, DefaultBase,      \* addresses of services, and DEFAULT_API_BASE
  Header, DefaultHeader,  \* header names, and DEFAULT_AUTH_HEADER_NAME
  HeaderOf,               \* auth_header_name of each service
  Token, NoToken,         \* tokens, and none
  Blank,                  \* an address field without text
  MaxCalls,               \* bound: health calls under way
  MaxEdits, MaxFails      \* bounds: edits of the fields and reloads; failed calls

SessionAssumption ==
  /\ DefaultBase \in Base /\ Blank \notin Base
  /\ DefaultHeader \in Header /\ HeaderOf \in [Base -> Header]
  /\ NoToken \notin Token
  /\ MaxCalls \in Nat \ {0} /\ MaxEdits \in Nat /\ MaxFails \in Nat

VARIABLES
  base, token,            \* localStorage and sessionStorage
  baseInput, tokenInput,  \* the two fields of the header bar
  authHeaderName,         \* api.authHeaderName
  line,                   \* the service the health line is about, or "checking"/"down"
  calls,                  \* the service each health call under way was sent to
  edits, fails            \* counters of the bounds

vars == <<base, token, baseInput, tokenInput, authHeaderName, line, calls, edits, fails>>

NoCall == "none"

\* What may stand in the address field: an address or nothing, and a slash.
Address == [text: Base \cup {Blank}, slash: BOOLEAN]

\* trim().replace(/\/+$/, "") and the default for an empty address.
Normalise(input) == IF input.text = Blank THEN DefaultBase ELSE input.text

\* Mutant: the call goes to the address of the console itself.
RefreshHealthDefault(at) ==
  \E c \in DOMAIN calls : calls[c] = NoCall /\ calls' = [calls EXCEPT ![c] = DefaultBase]

\* refreshHealth up to its await: the call goes to the address of the moment.
RefreshHealth(at) ==
  \E c \in DOMAIN calls : calls[c] = NoCall /\ calls' = [calls EXCEPT ![c] = at]

\* applyConfig
ApplyConfig(input, tok) == base' = Normalise(input) /\ token' = tok

\* loadConfigUI: the default address is shown as an empty field.
LoadConfigUI(tok) ==
  /\ baseInput' = [text |-> IF base = DefaultBase THEN Blank ELSE base, slash |-> FALSE]
  /\ tokenInput' = tok

\* Every input event of the address field applies both fields, at once.
TypeBase(input) ==
  /\ edits < MaxEdits /\ edits' = edits + 1
  /\ baseInput' = input
  /\ ApplyConfig(input, tokenInput)
  /\ UNCHANGED <<tokenInput, authHeaderName, line, calls, fails>>

\* The token is applied with the next save, or the next edit of the address.
TypeToken(tok) ==
  /\ edits < MaxEdits /\ edits' = edits + 1
  /\ tokenInput' = tok
  /\ UNCHANGED <<base, token, baseInput, authHeaderName, line, calls, fails>>

\* saveConfig; the number of saves is bounded with the edits.
SaveConfig ==
  /\ edits < MaxEdits /\ edits' = edits + 1
  /\ ApplyConfig(baseInput, tokenInput)
  /\ RefreshHealth(base')
  /\ UNCHANGED <<baseInput, tokenInput, authHeaderName, line, fails>>

\* init after a reload, or in a new tab, which has no token.  The calls of the
\* page before are gone.
Reload(tok) ==
  /\ edits < MaxEdits /\ edits' = edits + 1
  /\ tok \in {token, NoToken} /\ token' = tok
  /\ LoadConfigUI(tok)
  /\ authHeaderName' = DefaultHeader /\ line' = "checking"
  /\ calls' = [c \in DOMAIN calls |-> IF c = 1 THEN base ELSE NoCall]
  /\ UNCHANGED <<base, fails>>

\* setInterval(refreshHealth, 30000)
HealthTick ==
  /\ RefreshHealth(base)
  /\ UNCHANGED <<base, token, baseInput, tokenInput, authHeaderName, line, edits, fails>>

HealthAnswers(c) ==
  /\ calls[c] # NoCall
  /\ authHeaderName' = HeaderOf[calls[c]]
  /\ line' = calls[c]
  /\ calls' = [calls EXCEPT ![c] = NoCall]
  /\ UNCHANGED <<base, token, baseInput, tokenInput, edits, fails>>

\* The header name learnt last stays.
HealthFails(c) ==
  /\ fails < MaxFails /\ fails' = fails + 1
  /\ calls[c] # NoCall
  /\ line' = "down"
  /\ calls' = [calls EXCEPT ![c] = NoCall]
  /\ UNCHANGED <<base, token, baseInput, tokenInput, authHeaderName, edits>>

Init ==
  /\ base = DefaultBase /\ token = NoToken
  /\ baseInput = [text |-> Blank, slash |-> FALSE] /\ tokenInput = NoToken
  /\ authHeaderName = DefaultHeader /\ line = "checking"
  /\ calls = [c \in 1 .. MaxCalls |-> IF c = 1 THEN DefaultBase ELSE NoCall]
  /\ edits = 0 /\ fails = 0

Next ==
  \/ \E input \in Address : TypeBase(input)
  \/ \E tok \in Token \cup {NoToken} : TypeToken(tok) \/ Reload(tok)
  \/ SaveConfig
  \/ HealthTick
  \/ \E c \in 1 .. MaxCalls : HealthAnswers(c) \/ HealthFails(c)

Spec == Init /\ [][Next]_vars

\* The interval goes on, and every call ends.
Fairness ==
  /\ WF_vars(HealthTick)
  /\ \A c \in 1 .. MaxCalls : WF_vars(HealthAnswers(c) \/ HealthFails(c))

FairSpec == Spec /\ Fairness

-----------------------------------------------------------------------------
(* Properties *)

\* The address the next request goes to is the one the field shows, after every
\* edit, save and reload: "" stands for the default.
AddressApplied == Normalise(baseInput) = base

\* An answer of the service left behind may arrive after the answer of the new
\* one and put its header name under every request; the next call of the
\* interval undoes it.  Once the address is left alone, the console sends the
\* token in the header its service asks for and the health line is about it.
HealthFollowsBase == <>[](authHeaderName = HeaderOf[base] /\ line = base)
=============================================================================
