-------------------------- MODULE Library_proofs --------------------------
(***************************************************************************)
(* Theorems about the rule library, for any rules, threads and bounds: the  *)
(* overlay file stays a sound library however the edits of two processes    *)
(* interleave, the threads of one process lose no edit, the rules page of a *)
(* user who waits offers what the server accepts, and its tables show every *)
(* rule once; and about the panels of a review result.                      *)
(***************************************************************************)
EXTENDS Integers, Sequences, RuleOverlay, FiniteSetTheorems, WellFoundedInduction, TLAPS

CONSTANTS
  Patient, Slot, MaxViews, MaxErrors,     \* RulesDesk
  Topics, Other, Sizes, MaxRules,         \* RulePack
  RuleId, NoRuleId, Title, TitleOf, ItemLevel, MaxFindings, MaxAi, TypeTitle, KeyOf,
  RiskPointKey, CreditKey, Hot            \* ReviewPanels

VARIABLES
  view, views, list, form, shown, flight, errors,
  rules, pager,
  findings, ai, items, panel, controlVerdict, rows, opened, open

Lib    == INSTANCE RulesDesk
Pack   == INSTANCE RulePack
Panels == INSTANCE ReviewPanels WITH Rule <- RuleId, NoRule <- NoRuleId, Level <- ItemLevel

Pc == {"idle", "write", "tmp", "file", "lost", "replace"}

\* A library one can review with: what is deleted is a base rule and has no edited
\* form, a candidate is no rule of the library.
Sound(o) ==
  /\ o \in Overlay
  /\ \A i \in o.removed : i \in BaseId /\ ~IsCustom(o, i)
  /\ \A i \in Id : IsCandidate(o, i) => i \in NewId /\ ~IsCustom(o, i)

\* What a file holds is sound if it can be read.
Good(c) == c \in Broken \/ Sound(c)

\* What is, or may become, the file is good: a thread holds an edit that the overlay
\* it loaded accepts.
OverlayInv ==
  /\ Good(file) /\ Sound(ideal) /\ \A c \in tmp : Good(c)
  /\ lock \in [Process -> Thread \cup {NoThread}]
  /\ pc \in [Thread -> Pc]
  /\ edit \in [Thread -> Edit] /\ snap \in [Thread -> Overlay]
  /\ edits \in 0 .. MaxEdits
  /\ \A t \in Thread : pc[t] # "idle" => Sound(snap[t]) /\ Accepts(snap[t], edit[t])

-----------------------------------------------------------------------------
(* Edits *)

\* upsert_rule, remove_rule, set_rule_enabled, add_ai_candidates, confirm_candidate.
LEMMA UpsertSound ==
  ASSUME NEW o, Sound(o), NEW i \in Id, NEW r \in Rule
  PROVE  Sound(Upsert(o, i, r))
  <1> DEFINE n == Upsert(o, i, r)
  <1>1. /\ n \in Overlay
        /\ n.custom = [o.custom EXCEPT ![i] = r]
        /\ n.candidates = [o.candidates EXCEPT ![i] = NoRule]
        /\ n.removed = o.removed \ {i}
    BY DEF Sound, Overlay, Upsert
  <1>2. o \in Overlay
    BY DEF Sound
  <1> HIDE DEF n
  <1>3. \A j \in n.removed : j \in BaseId /\ ~IsCustom(n, j)
    BY <1>1, <1>2 DEF Sound, IsCustom, Overlay
  <1>4. \A j \in Id : IsCandidate(n, j) => j \in NewId /\ ~IsCustom(n, j)
    BY <1>1, <1>2 DEF Sound, IsCustom, IsCandidate, Overlay
  <1>5. QED  BY <1>1, <1>3, <1>4 DEF Sound, n

LEMMA RemoveSound ==
  ASSUME IdAssumption, NEW o, Sound(o), NEW i \in Id
  PROVE  Sound(Remove(o, i))
  <1> DEFINE n == Remove(o, i)
  <1>0. o \in Overlay
    BY DEF Sound
  <1>1. CASE i \in BaseId
    <2>1. /\ n \in Overlay
          /\ n.custom = [o.custom EXCEPT ![i] = NoRule] /\ n.candidates = o.candidates
          /\ n.removed = o.removed \cup {i}
      BY <1>0, <1>1 DEF Overlay, Remove
    <2> HIDE DEF n
    <2>2. \A j \in n.removed : j \in BaseId /\ ~IsCustom(n, j)
      BY <1>0, <1>1, <2>1 DEF Sound, IsCustom, Overlay
    <2>3. \A j \in Id : IsCandidate(n, j) => j \in NewId /\ ~IsCustom(n, j)
      BY <1>0, <2>1 DEF Sound, IsCustom, IsCandidate, Overlay
    <2>4. QED  BY <2>1, <2>2, <2>3 DEF Sound, n
  <1>2. CASE i \notin BaseId
    <2>1. /\ n \in Overlay
          /\ n.custom = [o.custom EXCEPT ![i] = NoRule]
          /\ n.candidates = [o.candidates EXCEPT ![i] = NoRule]
          /\ n.removed = o.removed
      BY <1>0, <1>2 DEF Overlay, Remove
    <2> HIDE DEF n
    <2>2. \A j \in n.removed : j \in BaseId /\ ~IsCustom(n, j)
      BY <1>0, <2>1 DEF Sound, IsCustom, Overlay
    <2>3. \A j \in Id : IsCandidate(n, j) => j \in NewId /\ ~IsCustom(n, j)
      BY <1>0, <2>1 DEF Sound, IsCustom, IsCandidate, Overlay
    <2>4. QED  BY <2>1, <2>2, <2>3 DEF Sound, n
  <1>3. QED  BY <1>1, <1>2

LEMMA SwitchSound ==
  ASSUME NEW o, Sound(o), NEW i \in Id
  PROVE  Sound(Enable(o, i)) /\ Sound(Disable(o, i))
  <1>0. o \in Overlay
    BY DEF Sound
  <1>1. ASSUME NEW n \in Overlay, n.custom = o.custom, n.candidates = o.candidates,
               n.removed = o.removed
        PROVE  Sound(n)
    BY <1>1 DEF Sound, IsCustom, IsCandidate
  <1>2. /\ Enable(o, i) \in Overlay /\ Enable(o, i).custom = o.custom
        /\ Enable(o, i).candidates = o.candidates /\ Enable(o, i).removed = o.removed
    BY <1>0 DEF Overlay, Enable
  <1>3. /\ Disable(o, i) \in Overlay /\ Disable(o, i).custom = o.custom
        /\ Disable(o, i).candidates = o.candidates /\ Disable(o, i).removed = o.removed
    BY <1>0 DEF Overlay, Disable
  <1>4. QED  BY <1>1, <1>2, <1>3

LEMMA ProposeSound ==
  ASSUME NEW o, Sound(o), NEW i \in Id, NEW r \in Rule, CanPropose(o, i)
  PROVE  Sound(Propose(o, i, r))
  <1> DEFINE n == Propose(o, i, r)
  <1>0. o \in Overlay
    BY DEF Sound
  <1>1. /\ n \in Overlay
        /\ n.custom = o.custom /\ n.removed = o.removed
        /\ n.candidates = [o.candidates EXCEPT ![i] = r]
    BY <1>0 DEF Overlay, Propose
  <1> HIDE DEF n
  <1>2. \A j \in n.removed : j \in BaseId /\ ~IsCustom(n, j)
    BY <1>1 DEF Sound, IsCustom
  <1>3. \A j \in Id : IsCandidate(n, j) => j \in NewId /\ ~IsCustom(n, j)
    BY <1>0, <1>1 DEF Sound, IsCustom, IsCandidate, CanPropose, Overlay
  <1>4. QED  BY <1>1, <1>2, <1>3 DEF Sound, n

LEMMA ConfirmSound ==
  ASSUME NEW o, Sound(o), NEW i \in Id, CanConfirm(o, i)
  PROVE  Sound(Confirm(o, i))
  <1> DEFINE n == Confirm(o, i)
  <1>0. o \in Overlay
    BY DEF Sound
  <1>1. /\ n \in Overlay
        /\ n.custom = [o.custom EXCEPT ![i] = o.candidates[i]]
        /\ n.candidates = [o.candidates EXCEPT ![i] = NoRule]
        /\ n.removed = o.removed \ {i}
    BY <1>0 DEF Overlay, Confirm
  <1> HIDE DEF n
  <1>2. \A j \in n.removed : j \in BaseId /\ ~IsCustom(n, j)
    BY <1>0, <1>1 DEF Sound, IsCustom, Overlay
  <1>3. \A j \in Id : IsCandidate(n, j) => j \in NewId /\ ~IsCustom(n, j)
    BY <1>0, <1>1 DEF Sound, IsCustom, IsCandidate, Overlay
  <1>4. QED  BY <1>1, <1>2, <1>3 DEF Sound, n

\* Every edit that is not refused keeps the library sound.
LEMMA ApplySound ==
  ASSUME IdAssumption, NEW o, Sound(o), NEW e \in Edit, Accepts(o, e)
  PROVE  Sound(Apply(o, e))
  <1>0. e.id \in Id /\ e.rule \in Rule /\ e.kind \in Kind
    BY DEF Edit
  <1>1. CASE e.kind \in {"create", "update"}
    BY <1>0, <1>1, UpsertSound DEF Apply
  <1>2. CASE e.kind = "remove"
    BY <1>0, <1>2, RemoveSound DEF Apply
  <1>3. CASE e.kind = "enable"
    BY <1>0, <1>3, SwitchSound DEF Apply
  <1>4. CASE e.kind = "disable"
    BY <1>0, <1>4, SwitchSound DEF Apply
  <1>5. CASE e.kind = "propose"
    <2>1. CanPropose(o, e.id)
      BY <1>5 DEF Accepts
    <2>2. QED  BY <1>0, <1>5, <2>1, ProposeSound DEF Apply
  <1>6. CASE e.kind = "confirm"
    <2>1. CanConfirm(o, e.id)
      BY <1>6 DEF Accepts
    <2>2. QED  BY <1>0, <1>6, <2>1, ConfirmSound DEF Apply
  <1>7. QED  BY <1>0, <1>1, <1>2, <1>3, <1>4, <1>5, <1>6 DEF Kind

LEMMA NothingIsSound ==
  ASSUME IdAssumption
  PROVE  Sound(EmptyOverlay) /\ NoEdit \in Edit
  <1>1. EmptyOverlay \in Overlay
    BY DEF EmptyOverlay, Overlay
  <1>2. Sound(EmptyOverlay)
    BY <1>1 DEF Sound, EmptyOverlay, IsCandidate
  <1>3. (CHOOSE i \in BaseId : TRUE) \in Id
    BY DEF IdAssumption, Id
  <1>4. BaseRule \in Rule
    BY DEF BaseRule, Rule, Level, Method
  <1>5. NoEdit \in Edit
    BY <1>3, <1>4 DEF NoEdit, Edit, Kind
  <1>6. QED  BY <1>2, <1>5

-----------------------------------------------------------------------------
(* The file *)

LEMMA OverlayStep ==
  ASSUME IdAssumption, ThreadAssumption, OverlayInv, [Next]_vars
  PROVE  OverlayInv'
  <1> USE DEF OverlayInv
  <1>0. \A t \in Thread : ProcessOf(t) \in Process
    BY DEF ProcessOf, Process
  <1>1. ASSUME NEW t \in Thread, NEW e \in Offered(t), Load(t, e)  PROVE OverlayInv'
    <2>1. /\ Sound(file) /\ Accepts(file, e) /\ e \in Edit /\ edits < MaxEdits
          /\ lock' = [lock EXCEPT ![ProcessOf(t)] = t] /\ snap' = [snap EXCEPT ![t] = file]
          /\ edit' = [edit EXCEPT ![t] = e] /\ pc' = [pc EXCEPT ![t] = "write"]
          /\ edits' = edits + 1 /\ UNCHANGED <<file, tmp, ideal>>
      BY <1>1 DEF Load, Offered, Good
    <2>2. /\ lock' \in [Process -> Thread \cup {NoThread}] /\ pc' \in [Thread -> Pc]
          /\ edit' \in [Thread -> Edit]
      BY <1>0, <2>1 DEF Pc
    <2>3. snap' \in [Thread -> Overlay]
      BY <2>1 DEF Sound
    <2>4. edits' \in 0 .. MaxEdits
      BY <2>1 DEF ThreadAssumption
    <2>5. ASSUME NEW u \in Thread, pc'[u] # "idle"
          PROVE  Sound(snap'[u]) /\ Accepts(snap'[u], edit'[u])
      <3>1. CASE u = t
        BY <2>1, <3>1
      <3>2. CASE u # t
        <4>1. pc'[u] = pc[u] /\ snap'[u] = snap[u] /\ edit'[u] = edit[u]
          BY <2>1, <3>2
        <4>2. QED  BY <2>5, <4>1
      <3>3. QED  BY <3>1, <3>2
    <2>6. Good(file') /\ Sound(ideal') /\ \A c \in tmp' : Good(c)
      BY <2>1
    <2>7. QED  BY <2>2, <2>3, <2>4, <2>5, <2>6
  <1>2. ASSUME NEW t \in Thread, OpenTmp(t)  PROVE OverlayInv'
    <2>1. /\ pc[t] = "write" /\ tmp' = {Cut} /\ pc' = [pc EXCEPT ![t] = "tmp"]
          /\ UNCHANGED <<file, lock, edit, snap, ideal, edits>>
      BY <1>2 DEF OpenTmp
    <2>2. Good(Cut)
      BY DEF Good, Broken
    <2>3. pc' \in [Thread -> Pc] /\ \A u \in Thread : pc'[u] # "idle" => pc[u] # "idle"
      BY <2>1 DEF Pc
    <2>4. QED  BY <2>1, <2>2, <2>3
  <1>3. ASSUME NEW t \in Thread, NEW c, Good(c), Put(t, c), pc' \in [Thread -> Pc],
               \A u \in Thread : pc'[u] # "idle" => pc[u] # "idle"
        PROVE  OverlayInv'
    <2>1. /\ file' \in {file, c} /\ tmp' \in {tmp, {c}}
          /\ UNCHANGED <<lock, edit, snap, ideal, edits>>
      BY <1>3 DEF Put
    <2>2. Good(file') /\ \A d \in tmp' : Good(d)
      BY <1>3, <2>1
    <2>3. QED  BY <1>3, <2>1, <2>2
  <1>4. ASSUME NEW t \in Thread, WritePart(t)  PROVE OverlayInv'
    <2>1. Good(Torn) /\ Put(t, Torn) /\ pc' = pc
      BY <1>4 DEF WritePart, Good, Broken
    <2>2. QED  BY <1>3, <2>1
  <1>5. ASSUME NEW t \in Thread, WriteText(t)  PROVE OverlayInv'
    <2>1. PICK c \in {Apply(snap[t], edit[t]), Torn} : Put(t, c)
      BY <1>5 DEF WriteText
    <2>2. pc[t] # "idle" /\ pc' = [pc EXCEPT ![t] = "replace"]
      BY <1>5 DEF WriteText
    <2>3. Sound(Apply(snap[t], edit[t]))
      BY <2>2, ApplySound
    <2>4. Good(c)
      BY <2>1, <2>3 DEF Good, Broken
    <2>5. pc' \in [Thread -> Pc] /\ \A u \in Thread : pc'[u] # "idle" => pc[u] # "idle"
      BY <2>2 DEF Pc
    <2>6. QED  BY <1>3, <2>1, <2>4, <2>5
  <1>6. ASSUME NEW t \in Thread, Leave(t), Good(file'), Sound(ideal'),
               \A c \in tmp' : Good(c), pc' \in [Thread -> Pc], pc'[t] = "idle",
               \A u \in Thread : pc'[u] # "idle" => pc[u] # "idle"
        PROVE  OverlayInv'
    <2>1. /\ edit' = [edit EXCEPT ![t] = NoEdit] /\ snap' = [snap EXCEPT ![t] = EmptyOverlay]
          /\ lock' = [lock EXCEPT ![ProcessOf(t)] = NoThread] /\ UNCHANGED edits
      BY <1>6 DEF Leave
    <2>2. NoEdit \in Edit /\ EmptyOverlay \in Overlay
      BY NothingIsSound DEF Sound
    <2>3. /\ lock' \in [Process -> Thread \cup {NoThread}]
          /\ edit' \in [Thread -> Edit] /\ snap' \in [Thread -> Overlay]
      BY <1>0, <2>1, <2>2
    <2>4. ASSUME NEW u \in Thread, pc'[u] # "idle"
          PROVE  Sound(snap'[u]) /\ Accepts(snap'[u], edit'[u])
      <3>1. pc[u] # "idle" /\ snap'[u] = snap[u] /\ edit'[u] = edit[u]
        BY <1>6, <2>1, <2>4
      <3>2. QED  BY <3>1
    <2>5. QED  BY <1>6, <2>1, <2>3, <2>4
  <1>7. ASSUME NEW t \in Thread, Replace(t)  PROVE OverlayInv'
    <2>1. /\ pc[t] = "replace" /\ file' \in tmp /\ tmp' = {} /\ pc' = Renamed(t) /\ Leave(t)
          /\ ideal' = IF Accepts(ideal, edit[t]) THEN Apply(ideal, edit[t]) ELSE ideal
      BY <1>7 DEF Replace
    <2>2. Good(file')
      BY <2>1
    <2>3. Sound(ideal')
      BY <2>1, ApplySound
    <2>4. \A u \in Thread : pc'[u] \in Pc /\ (pc'[u] # "idle" => pc[u] # "idle")
      BY <2>1 DEF Renamed, Pc
    <2>5. pc' \in [Thread -> Pc] /\ pc'[t] = "idle"
      BY <2>1, <2>4 DEF Renamed
    <2>6. QED  BY <1>6, <2>1, <2>2, <2>3, <2>4, <2>5
  <1>8. ASSUME NEW t \in Thread, ReplaceFails(t)  PROVE OverlayInv'
    <2>1. /\ pc' = [pc EXCEPT ![t] = "idle"] /\ Leave(t) /\ UNCHANGED <<file, tmp, ideal>>
      BY <1>8 DEF ReplaceFails
    <2>2. /\ pc' \in [Thread -> Pc] /\ pc'[t] = "idle"
          /\ \A u \in Thread : pc'[u] # "idle" => pc[u] # "idle"
      BY <2>1 DEF Pc
    <2>3. QED  BY <1>6, <2>1, <2>2
  <1>9. CASE UNCHANGED vars
    BY <1>9 DEF vars
  <1>10. QED  BY <1>1, <1>2, <1>4, <1>5, <1>7, <1>8, <1>9 DEF Next

\* Soundness is what the properties of the overlay say.
LEMMA SoundIsExact ==
  ASSUME IdAssumption, OverlayInv
  PROVE  OverlayExact
  <1>0. Good(file) /\ Sound(ideal) /\ \A c \in tmp : Good(c)
    BY DEF OverlayInv
  <1>1. TypeOK
    BY <1>0 DEF OverlayInv, TypeOK, Good, Sound, Pc
  <1>2. ASSUME file \notin Broken  PROVE RemovedIsGone
    BY <1>0, <1>2 DEF Good, Sound, RemovedIsGone, Listed
  <1>3. ASSUME file \notin Broken  PROVE CandidateNotListed
    BY <1>0, <1>3 DEF Good, Sound, CandidateNotListed, Listed, IdAssumption
  <1>4. QED  BY <1>1, <1>2, <1>3 DEF OverlayExact

LEMMA OverlayInvariant ==
  ASSUME IdAssumption, ThreadAssumption
  PROVE  Spec => []OverlayInv
  <1>1. Init => OverlayInv
    <2> SUFFICES ASSUME Init  PROVE OverlayInv
      OBVIOUS
    <2>1. Sound(EmptyOverlay) /\ NoEdit \in Edit /\ EmptyOverlay \in Overlay
      BY NothingIsSound DEF Sound
    <2>2. edits \in 0 .. MaxEdits
      BY DEF Init, ThreadAssumption
    <2>3. QED  BY <2>1, <2>2 DEF Init, OverlayInv, Good, Pc
  <1>2. OverlayInv /\ [Next]_vars => OverlayInv'
    BY OverlayStep
  <1>3. QED  BY <1>1, <1>2, PTL DEF Spec

\* rule_edits, for any rules and any threads of two processes that do not share a
\* lock: whichever edit is lost, a file that can be read never holds a deleted rule in
\* the library and never a candidate that reviews already use.
THEOREM OverlayExactHolds ==
  ASSUME IdAssumption, ThreadAssumption
  PROVE  Spec => []OverlayExact
  <1>1. OverlayInv => OverlayExact
    BY SoundIsExact
  <1>2. QED  BY <1>1, OverlayInvariant, PTL

-----------------------------------------------------------------------------
(* The edits of one process *)

\* A thread that has loaded the file holds the lock of its process, nobody has
\* written the file since, and the temporary file is its own.
LockedInv ==
  /\ EditsKept
  /\ \A t \in Thread : pc[t] # "idle" =>
       /\ pc[t] \notin {"file", "lost"}
       /\ lock["api"] = t /\ snap[t] = file /\ Accepts(file, edit[t])
       /\ pc[t] = "tmp" => tmp = {Cut}
       /\ pc[t] = "replace" => tmp = {Apply(file, edit[t])}

LEMMA LockedStep ==
  ASSUME WorkerThread = {}, ThreadAssumption, OverlayInv, LockedInv, [Next]_vars
  PROVE  LockedInv'
  <1>0. /\ \A t \in Thread : ProcessOf(t) = "api" /\ t # NoThread
        /\ lock \in [Process -> Thread \cup {NoThread}] /\ "api" \in Process
        /\ pc \in [Thread -> Pc] /\ edit \in [Thread -> Edit] /\ snap \in [Thread -> Overlay]
    BY DEF OverlayInv, ProcessOf, Thread, ThreadAssumption, Process
  <1>1. ASSUME NEW t \in Thread, pc[t] # "idle"
        PROVE  /\ \A u \in Thread \ {t} : pc[u] = "idle"
               /\ pc[t] \notin {"file", "lost"}
               /\ lock["api"] = t /\ snap[t] = file /\ Accepts(file, edit[t])
    BY <1>1 DEF LockedInv
  <1>2. ASSUME NEW t \in Thread, NEW e \in Offered(t), Load(t, e)  PROVE LockedInv'
    <2>1. /\ lock["api"] = NoThread /\ Accepts(file, e)
          /\ lock' = [lock EXCEPT !["api"] = t] /\ snap' = [snap EXCEPT ![t] = file]
          /\ edit' = [edit EXCEPT ![t] = e] /\ pc' = [pc EXCEPT ![t] = "write"]
          /\ UNCHANGED <<file, tmp, ideal>>
      BY <1>0, <1>2 DEF Load, CanEnter
    <2>2. \A u \in Thread \ {t} : pc'[u] = "idle"
      BY <1>0, <1>1, <2>1
    <2>3. /\ lock'["api"] = t /\ snap'[t] = file /\ edit'[t] = e /\ pc'[t] = "write"
      BY <1>0, <2>1
    <2>4. QED  BY <2>1, <2>2, <2>3 DEF LockedInv, EditsKept
  <1>3. ASSUME NEW t \in Thread, OpenTmp(t)  PROVE LockedInv'
    <2>1. /\ pc[t] = "write" /\ tmp' = {Cut} /\ pc' = [pc EXCEPT ![t] = "tmp"]
          /\ UNCHANGED <<file, lock, edit, snap, ideal>>
      BY <1>3 DEF OpenTmp
    <2>2. \A u \in Thread \ {t} : pc'[u] = "idle"
      BY <1>0, <1>1, <2>1
    <2>3. QED  BY <1>0, <1>1, <2>1, <2>2 DEF LockedInv, EditsKept
  <1>4. ASSUME NEW t \in Thread, WritePart(t)  PROVE FALSE
    <2>1. pc[t] \in {"tmp", "file"} /\ Content(t) # {Cut}
      BY <1>4 DEF WritePart
    <2>2. pc[t] = "tmp" /\ tmp = {Cut}
      BY <2>1 DEF LockedInv
    <2>3. QED  BY <2>1, <2>2 DEF Content
  <1>5. ASSUME NEW t \in Thread, WriteText(t)  PROVE LockedInv'
    <2>1. pc[t] \in {"tmp", "file", "lost"} /\ pc' = [pc EXCEPT ![t] = "replace"]
      BY <1>5 DEF WriteText
    <2>2. pc[t] = "tmp" /\ tmp = {Cut}
      BY <2>1 DEF LockedInv
    <2>3. Alone(t)
      BY <1>1, <2>2 DEF Alone, Content
    <2>4. Put(t, Apply(snap[t], edit[t]))
      BY <1>5, <2>3 DEF WriteText
    <2>5. tmp' = {Apply(snap[t], edit[t])} /\ UNCHANGED <<file, lock, edit, snap, ideal>>
      BY <2>2, <2>4 DEF Put
    <2>6. \A u \in Thread \ {t} : pc'[u] = "idle"
      BY <1>0, <1>1, <2>1, <2>2
    <2>7. QED  BY <1>0, <1>1, <2>1, <2>2, <2>5, <2>6 DEF LockedInv, EditsKept
  <1>6. ASSUME NEW t \in Thread, Replace(t)  PROVE LockedInv'
    <2>1. /\ pc[t] = "replace" /\ file' \in tmp /\ pc' = Renamed(t)
          /\ ideal' = IF Accepts(ideal, edit[t]) THEN Apply(ideal, edit[t]) ELSE ideal
      BY <1>6 DEF Replace
    <2>2. tmp = {Apply(file, edit[t])} /\ Accepts(file, edit[t]) /\ file = ideal
      BY <2>1 DEF LockedInv, EditsKept
    <2>3. \A u \in Thread : pc'[u] = "idle"
      BY <1>1, <2>1 DEF Renamed
    <2>4. file' = ideal'
      BY <2>1, <2>2
    <2>5. QED  BY <2>3, <2>4 DEF LockedInv, EditsKept
  <1>7. ASSUME NEW t \in Thread, ReplaceFails(t)  PROVE FALSE
    BY <1>7 DEF ReplaceFails, LockedInv
  <1>8. CASE UNCHANGED vars
    BY <1>8 DEF vars, LockedInv, EditsKept
  <1>9. QED  BY <1>2, <1>3, <1>4, <1>5, <1>6, <1>7, <1>8 DEF Next

\* _WRITE_LOCK, for any number of threads of one process: the file is what the edits
\* that returned make one by one, so that none is lost and none raises.
THEOREM EditsKeptHolds ==
  ASSUME IdAssumption, ThreadAssumption, WorkerThread = {}
  PROVE  Spec => []EditsKept
  <1>1. Init => LockedInv
    BY DEF Init, LockedInv, EditsKept
  <1>2. OverlayInv /\ LockedInv /\ [Next]_vars => LockedInv'
    BY LockedStep
  <1>3. LockedInv => EditsKept
    BY DEF LockedInv
  <1>4. QED  BY <1>1, <1>2, <1>3, OverlayInvariant, PTL DEF Spec

-----------------------------------------------------------------------------
(* The rules page of a user who waits *)

\* The other requests stay as they are.
OthersKept(f) == \A g \in Slot : g # f => flight'[g] = flight[g]

\* The library n is what the overlay o was, but for candidates that reviews
\* have proposed since.
OnlyProposed(o, n) ==
  /\ n.custom = o.custom /\ n.disabled = o.disabled /\ n.removed = o.removed
  /\ \A i \in BaseId : n.candidates[i] = o.candidates[i]
  /\ \A i \in Lib!Id : Lib!IsCandidate(o, i) => Lib!IsCandidate(n, i)

LibraryFormed ==
  /\ DOMAIN file = {"custom", "candidates", "disabled", "removed"}
  /\ file.candidates = [i \in Lib!Id |-> file.candidates[i]]

EditFields == {"kind", "view", "edit", "answer"}
PageEdit == {"create", "update", "remove", "enable", "disable", "confirm"}

\* Pages are numbered; a list request is of a page rendered so far.
EditsFormed ==
  /\ views \in Nat /\ view \in 0 .. views
  /\ flight = [f \in Slot |-> flight[f]]
  /\ \A f \in Slot : /\ DOMAIN flight[f] = EditFields
                     /\ flight[f].kind = "get" => flight[f].view \in 1 .. views
                     /\ flight[f].kind = "edit" => flight[f].edit.kind \in PageEdit /\ flight[f].edit.id \in Lib!Id

GetsPage(f) == flight[f].kind = "get" /\ flight[f].view = view

\* The user waits: an edit is alone, and the page reads its list once.
EditAlone ==
  \A f, g \in Slot : flight[f].kind = "edit" => ~GetsPage(g) /\ (flight[g].kind = "edit" => f = g)
OneGet == \A f, g \in Slot : GetsPage(f) /\ GetsPage(g) => f = g

\* The edit the server has yet to see is one it accepts.
EditsAccepted ==
  \A f \in Slot : flight[f].kind = "edit" =>
    /\ flight[f].answer # Lib!Failed
    /\ flight[f].answer = Lib!Loading => Lib!Accepts(file, flight[f].edit)

\* What the page shows, or is about to show, is the library but for proposals.
ListKnown == view # 0 /\ ~Lib!Busy /\ list.is = "rules" => OnlyProposed(list.of, file)
AnswerKnown ==
  \A f \in Slot : GetsPage(f) /\ flight[f].answer.is = "rules" => OnlyProposed(flight[f].answer.of, file)

\* The form of the modal is of a rule.
FormFormed == DOMAIN form = {"editing", "id", "level"} /\ form.id \in Lib!Id

RulesInv ==
  /\ LibraryFormed /\ EditsFormed /\ FormFormed
  /\ EditAlone /\ OneGet /\ EditsAccepted /\ ListKnown /\ AnswerKnown

LEMMA Contents ==
  /\ Lib!Loading # Lib!Failed
  /\ \A o : /\ Lib!Rules(o) # Lib!Failed /\ Lib!Rules(o) # Lib!Loading
            /\ Lib!Rules(o).is = "rules" /\ Lib!Rules(o).of = o
  /\ Lib!Loading.is = "loading" /\ Lib!Failed.is = "failed"
<1>1. \A o : Lib!Rules(o).is = "rules" /\ Lib!Rules(o).of = o
  BY DEF Lib!Rules
<1>2. Lib!Loading.is = "loading" /\ Lib!Failed.is = "failed"
  BY DEF Lib!Loading, Lib!Failed
<1> QED
  BY <1>1, <1>2

LEMMA IdleEdit ==
  DOMAIN Lib!Idle = EditFields /\ Lib!Idle.kind = "idle"
BY DEF Lib!Idle, EditFields

\* An edit leaves a library.
LEMMA ApplyFormed ==
  ASSUME LibraryFormed, NEW e, e.kind \in PageEdit,
         file' = Lib!Apply(file, e)
  PROVE  LibraryFormed'
<1>1. CASE e.kind \in {"create", "update"}
  BY <1>1 DEF LibraryFormed, Lib!Apply, Lib!Upsert
<1>2. CASE e.kind = "remove"
  BY <1>2 DEF LibraryFormed, Lib!Apply, Lib!Remove
<1>3. CASE e.kind \in {"enable", "disable"}
  BY <1>3 DEF LibraryFormed, Lib!Apply, Lib!Enable, Lib!Disable
<1>4. CASE e.kind = "confirm"
  BY <1>4 DEF LibraryFormed, Lib!Apply, Lib!Confirm
<1> QED
  BY <1>1, <1>2, <1>3, <1>4 DEF PageEdit

\* add_ai_candidates only adds candidates, with new ids.
LEMMA ProposalKnown ==
  ASSUME Lib!IdAssumption, LibraryFormed, NEW i \in Lib!Id, Lib!ReviewProposes(i)
  PROVE  LibraryFormed' /\ OnlyProposed(file, file')
<1>1. /\ i \in NewId /\ i \notin BaseId
      /\ file' = [file EXCEPT !.candidates[i] = Lib!BaseRule]
  BY DEF Lib!IdAssumption, Lib!ReviewProposes, Lib!CanPropose, Lib!Propose
<1>2. Lib!BaseRule # Lib!NoRule
  <2>1. Lib!BaseRule.level = "high" /\ Lib!NoRule.level = "none"
    BY DEF Lib!BaseRule, Lib!NoRule
  <2> QED
    BY <2>1
<1>3. /\ DOMAIN file' = DOMAIN file
      /\ file'.custom = file.custom /\ file'.disabled = file.disabled /\ file'.removed = file.removed
      /\ file'.candidates = [file.candidates EXCEPT ![i] = Lib!BaseRule]
  BY <1>1 DEF LibraryFormed
<1>4. /\ file'.candidates = [j \in Lib!Id |-> file'.candidates[j]]
      /\ file'.candidates[i] = Lib!BaseRule
      /\ \A j \in Lib!Id : j # i => file'.candidates[j] = file.candidates[j]
  BY <1>3 DEF LibraryFormed
<1>5. \A j \in BaseId : j \in Lib!Id /\ j # i
  BY <1>1 DEF Lib!Id
<1> QED
  BY <1>2, <1>3, <1>4, <1>5 DEF LibraryFormed, OnlyProposed, Lib!IsCandidate

LEMMA OnlyProposedTwice ==
  ASSUME NEW o, NEW n, NEW m, OnlyProposed(o, n), OnlyProposed(n, m)
  PROVE  OnlyProposed(o, m)
BY DEF OnlyProposed

LEMMA SameProposed ==
  ASSUME NEW o
  PROVE  OnlyProposed(o, o)
BY DEF OnlyProposed

LEMMA AcceptsMore ==
  ASSUME NEW o, NEW n, OnlyProposed(o, n), NEW e,
         e.kind \in PageEdit, e.id \in Lib!Id,
         Lib!Accepts(o, e)
  PROVE  Lib!Accepts(n, e)
<1>1. CASE e.kind \in {"create", "update"}
  BY <1>1 DEF Lib!Accepts
<1>2. CASE e.kind = "remove"
  BY <1>2 DEF Lib!Accepts, Lib!CanRemove, Lib!IsCustom, OnlyProposed
<1>3. CASE e.kind \in {"enable", "disable"}
  BY <1>3 DEF Lib!Accepts, Lib!CanSwitch, Lib!IsCustom, OnlyProposed
<1>4. CASE e.kind = "confirm"
  BY <1>4 DEF Lib!Accepts, Lib!CanConfirm, OnlyProposed
<1> QED
  BY <1>1, <1>2, <1>3, <1>4 DEF PageEdit

LEMMA BusyMeans ==
  Lib!Busy <=> \E f \in Slot : flight[f].kind = "edit" \/ GetsPage(f)
BY DEF Lib!Busy, Lib!Editing, GetsPage

LEMMA SlotSet ==
  ASSUME EditsFormed, NEW f \in Slot, NEW q, flight' = [flight EXCEPT ![f] = q]
  PROVE  flight' = [g \in Slot |-> flight'[g]] /\ flight'[f] = q /\ OthersKept(f)
BY DEF EditsFormed, OthersKept

LEMMA SlotAnswered ==
  ASSUME EditsFormed, NEW f \in Slot, NEW a, flight' = [flight EXCEPT ![f].answer = a]
  PROVE  /\ flight' = [g \in Slot |-> flight'[g]] /\ OthersKept(f)
         /\ DOMAIN flight'[f] = EditFields /\ flight'[f].answer = a
         /\ flight'[f].kind = flight[f].kind /\ flight'[f].view = flight[f].view
         /\ flight'[f].edit = flight[f].edit
BY DEF EditsFormed, OthersKept, EditFields

\* loadAiRules on a slot of the page's own, where nothing else is under way.
LEMMA LoadKeeps ==
  ASSUME RulesInv, NEW f \in Slot, NEW v, v = view', view' \in 0 .. views', views' \in Nat, views <= views',
         Lib!LoadAiRules(f, v), UNCHANGED <<file, form>>,
         \A g \in Slot : g # f => flight[g].kind # "edit",
         \A g \in Slot : g # f /\ flight[g].kind = "get" => flight[g].view # view'
  PROVE  RulesInv'
<1>0. LibraryFormed /\ EditsFormed /\ FormFormed
  BY DEF RulesInv
<1>1. LibraryFormed' /\ FormFormed'
  BY <1>0 DEF LibraryFormed, FormFormed
<1>2. CASE v = 0
  <2>1. flight' = [g \in Slot |-> flight'[g]] /\ flight'[f] = Lib!Idle /\ OthersKept(f)
    BY <1>0, <1>2, SlotSet DEF Lib!LoadAiRules
  <2>2. \A g \in Slot : flight'[g].kind # "edit" /\ (flight'[g].kind = "get" => flight'[g] = flight[g])
    BY <2>1, IdleEdit DEF OthersKept
  <2>3. \A g \in Slot : /\ DOMAIN flight'[g] = EditFields
                        /\ flight'[g].kind = "get" => flight'[g].view \in 1 .. views'
    <3>1. \A g \in Slot : DOMAIN flight'[g] = EditFields
      BY <1>0, <2>1, IdleEdit DEF OthersKept, EditsFormed
    <3>2. \A g \in Slot : flight'[g].kind = "get" => flight'[g].view \in 1 .. views
      BY <1>0, <2>2 DEF EditsFormed
    <3>3. \A n \in 1 .. views : n \in 1 .. views'
      BY <1>0 DEF EditsFormed
    <3> QED
      BY <3>1, <3>2, <3>3
  <2>4. EditsFormed'
    BY <2>1, <2>2, <2>3 DEF EditsFormed
  <2>5. \A g \in Slot : ~(GetsPage(g)')
    BY <1>2, <2>3 DEF GetsPage
  <2>6. EditAlone' /\ OneGet' /\ EditsAccepted' /\ AnswerKnown'
    BY <2>2, <2>5 DEF EditAlone, OneGet, EditsAccepted, AnswerKnown
  <2>7. ListKnown'
    BY <1>2 DEF ListKnown
  <2> QED
    BY <1>1, <2>4, <2>6, <2>7 DEF RulesInv
<1>3. CASE v # 0
  <2> DEFINE q == [Lib!Idle EXCEPT !.kind = "get", !.view = v]
  <2>1. DOMAIN q = EditFields /\ q.kind = "get" /\ q.view = v /\ q.answer = Lib!Loading
    BY DEF Lib!Idle, EditFields
  <2>2. flight' = [flight EXCEPT ![f] = q] /\ list' = Lib!Loading
    BY <1>3 DEF Lib!LoadAiRules
  <2> HIDE DEF q
  <2>3. flight' = [g \in Slot |-> flight'[g]] /\ flight'[f] = q /\ OthersKept(f)
    BY <1>0, <2>2, SlotSet
  <2>4. \A g \in Slot : flight'[g].kind # "edit"
    BY <2>1, <2>3 DEF OthersKept
  <2>5. \A g \in Slot : GetsPage(g)' => g = f
    BY <2>3 DEF GetsPage, OthersKept
  <2>6. \A g \in Slot : DOMAIN flight'[g] = EditFields
    BY <1>0, <2>1, <2>3 DEF OthersKept, EditsFormed
  <2>7. \A g \in Slot : flight'[g].kind = "get" => flight'[g].view \in 1 .. views'
    <3>1. v \in 1 .. views'
      BY <1>3
    <3>2. \A n \in 1 .. views : n \in 1 .. views'
      BY <1>0 DEF EditsFormed
    <3> QED
      BY <1>0, <2>1, <2>3, <3>1, <3>2 DEF OthersKept, EditsFormed
  <2>8. EditsFormed'
    BY <2>3, <2>4, <2>6, <2>7 DEF EditsFormed
  <2>9. EditAlone' /\ OneGet' /\ EditsAccepted'
    BY <2>4, <2>5 DEF EditAlone, OneGet, EditsAccepted
  <2>10. AnswerKnown' /\ ListKnown'
    BY <2>1, <2>2, <2>3, <2>5, Contents DEF AnswerKnown, ListKnown
  <2> QED
    BY <1>1, <2>8, <2>9, <2>10 DEF RulesInv
<1> QED
  BY <1>2, <1>3

\* An edit the library accepts, of a user who waits.
LEMMA SendEditKeeps ==
  ASSUME RulesInv, NEW f \in Slot, NEW k \in PageEdit, NEW i \in Lib!Id, NEW r, Lib!SendEdit(f, k, i, r),
         ~Lib!Busy, UNCHANGED <<file, view, views, list, form>>,
         \A e : e.kind = k /\ e.id = i => Lib!Accepts(file, e)
  PROVE  RulesInv'
<1>0. LibraryFormed /\ EditsFormed /\ FormFormed
  BY DEF RulesInv
<1> DEFINE e == [kind |-> k, id |-> i, rule |-> r]
           q == [Lib!Idle EXCEPT !.kind = "edit", !.edit = e]
<1>1. e.kind = k /\ e.id = i
  OBVIOUS
<1>2. Lib!Accepts(file, e)
  BY <1>1
<1> HIDE DEF e
<1>3. DOMAIN q = EditFields /\ q.kind = "edit" /\ q.edit = e /\ q.answer = Lib!Loading
  BY DEF Lib!Idle, EditFields
<1>4. flight' = [flight EXCEPT ![f] = q]
  BY DEF Lib!SendEdit, e
<1> HIDE DEF q
<1>5. flight' = [g \in Slot |-> flight'[g]] /\ flight'[f] = q /\ OthersKept(f)
  BY <1>0, <1>4, SlotSet
<1>6. \A g \in Slot : g # f => flight'[g].kind # "edit" /\ ~(GetsPage(g)')
  BY <1>5, BusyMeans DEF OthersKept, GetsPage
<1>7. ~(GetsPage(f)')
  BY <1>3, <1>5 DEF GetsPage
<1>8. \A g \in Slot : DOMAIN flight'[g] = EditFields
  BY <1>0, <1>3, <1>5 DEF OthersKept, EditsFormed
<1>9. \A g \in Slot : /\ flight'[g].kind = "get" => flight'[g].view \in 1 .. views'
                      /\ flight'[g].kind = "edit" => flight'[g].edit.kind \in PageEdit /\ flight'[g].edit.id \in Lib!Id
  BY <1>0, <1>1, <1>3, <1>5 DEF OthersKept, EditsFormed
<1>10. EditsFormed' /\ LibraryFormed' /\ FormFormed'
  BY <1>0, <1>5, <1>8, <1>9 DEF EditsFormed, LibraryFormed, FormFormed
<1>11. EditAlone' /\ OneGet' /\ AnswerKnown'
  BY <1>6, <1>7 DEF EditAlone, OneGet, AnswerKnown
<1>12. EditsAccepted'
  BY <1>2, <1>3, <1>5, <1>6, Contents DEF EditsAccepted
<1>13. ListKnown'
  BY <1>3, <1>5 DEF ListKnown, Lib!Busy, Lib!Editing
<1> QED
  BY <1>10, <1>11, <1>12, <1>13 DEF RulesInv

\* Opening, filling in and closing a form.
LEMMA RulesQuiet ==
  ASSUME RulesInv, UNCHANGED <<file, view, views, list, flight>>, FormFormed'
  PROVE  RulesInv'
<1>0. LibraryFormed' /\ EditsFormed'
  BY DEF RulesInv, LibraryFormed, EditsFormed
<1>1. EditAlone' /\ OneGet' /\ EditsAccepted' /\ AnswerKnown'
  BY DEF RulesInv, EditAlone, OneGet, EditsAccepted, AnswerKnown, GetsPage
<1>2. ListKnown'
  BY DEF RulesInv, ListKnown, Lib!Busy, Lib!Editing
<1> QED
  BY <1>0, <1>1, <1>2 DEF RulesInv

\* The server sees an edit, or a list request; a list request fails.
LEMMA LibServeKeeps ==
  ASSUME RulesInv, NEW f \in Slot, Lib!Serve(f) \/ Lib!GetFails(f)
  PROVE  RulesInv'
<1>0. /\ LibraryFormed /\ EditsFormed /\ FormFormed /\ EditAlone /\ OneGet /\ EditsAccepted
      /\ ListKnown /\ AnswerKnown
  BY DEF RulesInv
<1>1. UNCHANGED <<view, views, list, form>>
  BY DEF Lib!Serve, Lib!GetFails
<1>2. \E a : /\ flight' = [flight EXCEPT ![f].answer = a]
             /\ \/ /\ flight[f].kind = "edit" /\ a = Lib!Rules(Lib!EmptyOverlay)
                   /\ file' = Lib!Apply(file, flight[f].edit)
                \/ /\ flight[f].kind # "edit" /\ a \in {Lib!Rules(file), Lib!Failed}
                   /\ file' = file
  <2>1. CASE Lib!GetFails(f)
    BY <2>1 DEF Lib!GetFails
  <2>2. CASE Lib!Serve(f) /\ flight[f].kind # "edit"
    BY <2>2 DEF Lib!Serve
  <2>3. CASE Lib!Serve(f) /\ flight[f].kind = "edit"
    <3>1. Lib!Accepts(file, flight[f].edit)
      BY <1>0, <2>3 DEF EditsAccepted, Lib!Serve
    <3> QED
      BY <2>3, <3>1 DEF Lib!Serve
  <2> QED
    BY <2>1, <2>2, <2>3
<1>3. PICK a : /\ flight' = [flight EXCEPT ![f].answer = a]
               /\ \/ /\ flight[f].kind = "edit" /\ a = Lib!Rules(Lib!EmptyOverlay)
                     /\ file' = Lib!Apply(file, flight[f].edit)
                  \/ /\ flight[f].kind # "edit" /\ a \in {Lib!Rules(file), Lib!Failed}
                     /\ file' = file
  BY <1>2
<1>4. /\ flight' = [g \in Slot |-> flight'[g]] /\ OthersKept(f)
      /\ DOMAIN flight'[f] = EditFields /\ flight'[f].answer = a
      /\ flight'[f].kind = flight[f].kind /\ flight'[f].view = flight[f].view
      /\ flight'[f].edit = flight[f].edit
  BY <1>0, <1>3, SlotAnswered
<1>5. \A g \in Slot : /\ DOMAIN flight'[g] = EditFields /\ flight'[g].kind = flight[g].kind
                      /\ flight'[g].view = flight[g].view /\ flight'[g].edit = flight[g].edit
  BY <1>0, <1>4 DEF OthersKept, EditsFormed
<1>6. \A g \in Slot : GetsPage(g)' <=> GetsPage(g)
  BY <1>1, <1>5 DEF GetsPage
<1>7. EditsFormed' /\ FormFormed'
  BY <1>0, <1>1, <1>4, <1>5 DEF EditsFormed, FormFormed
<1>8. EditAlone' /\ OneGet'
  BY <1>0, <1>5, <1>6 DEF EditAlone, OneGet
<1>9. Lib!Busy' <=> Lib!Busy
  BY <1>1, <1>5 DEF Lib!Busy, Lib!Editing
<1>10. CASE flight[f].kind = "edit"
  <2>1. LibraryFormed'
    BY <1>0, <1>3, <1>10, ApplyFormed DEF EditsFormed
  <2>2. Lib!Busy' /\ \A g \in Slot : ~(GetsPage(g)')
    BY <1>0, <1>6, <1>9, <1>10, BusyMeans DEF EditAlone
  <2>3. ListKnown' /\ AnswerKnown'
    BY <2>2 DEF ListKnown, AnswerKnown
  <2>4. \A g \in Slot : flight'[g].kind = "edit" => g = f
    BY <1>0, <1>5, <1>10 DEF EditAlone
  <2>5. EditsAccepted'
    BY <1>3, <1>4, <1>10, <2>4, Contents DEF EditsAccepted
  <2> QED
    BY <1>7, <1>8, <2>1, <2>3, <2>5 DEF RulesInv
<1>11. CASE flight[f].kind # "edit"
  <2>1. LibraryFormed' /\ file' = file
    BY <1>0, <1>3, <1>11 DEF LibraryFormed
  <2>2. ListKnown'
    BY <1>0, <1>1, <1>9, <2>1 DEF ListKnown
  <2>3. EditsAccepted'
    BY <1>0, <1>4, <1>5, <1>11, <2>1 DEF EditsAccepted, OthersKept
  <2>4. a.is = "rules" => OnlyProposed(a.of, file)
    BY <1>3, <1>11, Contents, SameProposed
  <2>5. AnswerKnown'
    BY <1>0, <1>4, <1>6, <2>1, <2>4 DEF AnswerKnown, OthersKept
  <2> QED
    BY <1>7, <1>8, <2>1, <2>2, <2>3, <2>5 DEF RulesInv
<1> QED
  BY <1>10, <1>11

LEMMA LibAnswerKeeps ==
  ASSUME RulesInv, NEW f \in Slot, Lib!ListArrives(f) \/ Lib!EditArrives(f)
  PROVE  RulesInv'
<1>0. /\ LibraryFormed /\ EditsFormed /\ FormFormed /\ EditAlone /\ OneGet /\ EditsAccepted
      /\ ListKnown /\ AnswerKnown
  BY DEF RulesInv
<1>1. CASE Lib!EditArrives(f)
  <2>1. /\ flight[f].kind = "edit" /\ flight[f].answer # Lib!Failed
        /\ UNCHANGED <<file, view, views, form>>
    BY <1>0, <1>1 DEF Lib!EditArrives, EditsAccepted
  <2>2. Lib!LoadAiRules(f, view)
    BY <1>1, <2>1 DEF Lib!EditArrives
  <2>3. \A g \in Slot : /\ g # f => flight[g].kind # "edit"
                        /\ g # f /\ flight[g].kind = "get" => flight[g].view # view'
    BY <1>0, <2>1 DEF EditAlone, GetsPage
  <2>4. view' \in 0 .. views' /\ views' \in Nat /\ views <= views'
    BY <1>0, <2>1 DEF EditsFormed
  <2> QED
    BY <2>1, <2>2, <2>3, <2>4, LoadKeeps
<1>2. CASE Lib!ListArrives(f)
  <2>1. /\ flight[f].kind = "get" /\ flight' = [flight EXCEPT ![f] = Lib!Idle]
        /\ UNCHANGED <<file, view, views, form>>
        /\ list' = IF flight[f].view = view THEN flight[f].answer ELSE list
    BY <1>2 DEF Lib!ListArrives
  <2>2. flight' = [g \in Slot |-> flight'[g]] /\ flight'[f] = Lib!Idle /\ OthersKept(f)
    BY <1>0, <2>1, SlotSet
  <2>3. \A g \in Slot : flight'[g] = flight[g] \/ (g = f /\ flight'[g].kind = "idle")
    BY <2>2, IdleEdit DEF OthersKept
  <2>4. EditsFormed'
    BY <1>0, <2>1, <2>2, <2>3, IdleEdit DEF EditsFormed
  <2>5. LibraryFormed' /\ FormFormed'
    BY <1>0, <2>1 DEF LibraryFormed, FormFormed
  <2>6. \A g \in Slot : /\ flight'[g].kind = "edit" => flight'[g] = flight[g]
                        /\ GetsPage(g)' => GetsPage(g) /\ flight'[g] = flight[g]
    BY <2>1, <2>3 DEF GetsPage
  <2>7. EditAlone' /\ OneGet' /\ EditsAccepted' /\ AnswerKnown'
    BY <1>0, <2>1, <2>6 DEF EditAlone, OneGet, EditsAccepted, AnswerKnown
  <2>8. ListKnown'
    <3>1. CASE flight[f].view = view
      BY <1>0, <2>1, <3>1 DEF ListKnown, AnswerKnown, GetsPage
    <3>2. CASE flight[f].view # view
      <4>1. Lib!Busy => Lib!Busy'
        BY <2>1, <2>2, <3>2 DEF Lib!Busy, Lib!Editing, OthersKept
      <4> QED
        BY <1>0, <2>1, <3>2, <4>1 DEF ListKnown
    <3> QED
      BY <3>1, <3>2
  <2> QED
    BY <2>4, <2>5, <2>7, <2>8 DEF RulesInv
<1> QED
  BY <1>1, <1>2

\* A review proposes a candidate while the page is open.
LEMMA LibProposeKeeps ==
  ASSUME Lib!IdAssumption, RulesInv, NEW i \in Lib!Id, Lib!ReviewProposes(i)
  PROVE  RulesInv'
<1>0. /\ LibraryFormed /\ EditsFormed /\ FormFormed /\ EditAlone /\ OneGet /\ EditsAccepted
      /\ ListKnown /\ AnswerKnown
  BY DEF RulesInv
<1>1. LibraryFormed' /\ OnlyProposed(file, file')
  BY <1>0, ProposalKnown
<1>2. UNCHANGED <<view, views, list, form, flight>>
  BY DEF Lib!ReviewProposes
<1>3. EditsFormed' /\ FormFormed' /\ EditAlone' /\ OneGet'
  BY <1>0, <1>2 DEF EditsFormed, FormFormed, EditAlone, OneGet, GetsPage
<1>4. EditsAccepted'
  BY <1>0, <1>1, <1>2, AcceptsMore DEF EditsAccepted, EditsFormed
<1>5. ListKnown'
  BY <1>0, <1>1, <1>2, OnlyProposedTwice DEF ListKnown, Lib!Busy, Lib!Editing
<1>6. AnswerKnown'
  BY <1>0, <1>1, <1>2, OnlyProposedTwice DEF AnswerKnown, GetsPage
<1> QED
  BY <1>1, <1>3, <1>4, <1>5, <1>6 DEF RulesInv

\* The rows offer what the library accepts: toggleRuleEnabled, confirmCandidate
\* and deleteRule.
LEMMA RowEditKeeps ==
  ASSUME Patient, RulesInv, NEW f \in Slot, NEW i \in Lib!Id,
         Lib!ToggleRuleEnabled(f, i) \/ Lib!DeleteRule(f, i)
  PROVE  RulesInv'
<1>1. /\ view # 0 /\ ~Lib!Busy /\ list.is = "rules"
      /\ i \in Lib!Listed(list.of) \/ Lib!IsCandidate(list.of, i)
      /\ UNCHANGED <<file, view, views, list, form>>
  BY DEF Lib!ToggleRuleEnabled, Lib!DeleteRule, Lib!HasRow, Lib!CanUse
<1>2. OnlyProposed(list.of, file)
  BY <1>1 DEF RulesInv, ListKnown
<1>3. i \in Lib!Listed(list.of) => i \in BaseId \/ Lib!IsCustom(file, i)
  BY <1>2 DEF Lib!Listed, Lib!IsCustom, OnlyProposed
<1>4. Lib!IsCandidate(list.of, i) => Lib!IsCandidate(file, i)
  BY <1>2 DEF OnlyProposed
<1>5. ASSUME NEW k, k = "remove" \/ (k = "confirm" /\ Lib!IsCandidate(list.of, i))
               \/ (k \in {"enable", "disable"} /\ ~Lib!IsCandidate(list.of, i)),
             Lib!SendEdit(f, k, i, Lib!BaseRule)
      PROVE  RulesInv'
  <2>1. ASSUME NEW e, e.kind = k, e.id = i PROVE Lib!Accepts(file, e)
    <3>1. CASE k = "remove"
      BY <1>1, <1>3, <1>4, <2>1, <3>1 DEF Lib!Accepts, Lib!CanRemove
    <3>2. CASE k = "confirm"
      BY <1>4, <1>5, <2>1, <3>2 DEF Lib!Accepts, Lib!CanConfirm
    <3>3. CASE k \in {"enable", "disable"}
      BY <1>1, <1>3, <1>5, <2>1, <3>3 DEF Lib!Accepts, Lib!CanSwitch
    <3> QED
      BY <1>5, <3>1, <3>2, <3>3
  <2>2. k \in PageEdit
    BY <1>5 DEF PageEdit
  <2> QED
    BY <1>1, <1>5, <2>1, <2>2, SendEditKeeps
<1>6. CASE Lib!DeleteRule(f, i)
  BY <1>5, <1>6 DEF Lib!DeleteRule
<1>7. CASE Lib!ToggleRuleEnabled(f, i)
  BY <1>5, <1>7 DEF Lib!ToggleRuleEnabled, Lib!IsDraft
<1> QED
  BY <1>6, <1>7

\* saveRuleForm: a new rule, or one over whatever has its id.
LEMMA SaveKeeps ==
  ASSUME Patient, RulesInv, NEW f \in Slot, Lib!SaveRuleForm(f)
  PROVE  RulesInv'
<1> DEFINE k == IF form.editing THEN "update" ELSE "create"
<1>1. k \in {"create", "update"}
  OBVIOUS
<1>2. /\ Lib!SendEdit(f, k, form.id, [level |-> Lib!RULE_LEVEL_TO_V2[form.level], method |-> "keyword"])
      /\ ~Lib!Busy /\ UNCHANGED <<file, view, views, list, form>>
  BY DEF Lib!SaveRuleForm
<1> HIDE DEF k
<1>3. \A e : e.kind = k /\ e.id = form.id => Lib!Accepts(file, e)
  BY <1>1 DEF Lib!Accepts
<1>4. form.id \in Lib!Id /\ k \in PageEdit
  BY <1>1 DEF RulesInv, FormFormed, PageEdit
<1> QED
  BY <1>2, <1>3, <1>4, SendEditKeeps

\* The page is rendered, left, or asked to read its list again.
LEMMA LibPageKeeps ==
  ASSUME Patient, RulesInv,
         \/ \E f \in Slot : Lib!RenderRulesPage(f) \/ Lib!Refresh(f)
         \/ Lib!Leave
  PROVE  RulesInv'
<1>0. /\ LibraryFormed /\ EditsFormed /\ FormFormed /\ EditAlone /\ OneGet /\ EditsAccepted
      /\ ListKnown /\ AnswerKnown
  BY DEF RulesInv
<1>1. ASSUME NEW f \in Slot, Lib!RenderRulesPage(f) PROVE RulesInv'
  <2>1. /\ views' = views + 1 /\ view' = views + 1 /\ Lib!LoadAiRules(f, view')
        /\ UNCHANGED <<file, form>> /\ ~Lib!Editing
    BY <1>1 DEF Lib!RenderRulesPage
  <2>2. view' \in 0 .. views' /\ views' \in Nat /\ views <= views' /\ view' \notin 1 .. views
    BY <1>0, <2>1 DEF EditsFormed
  <2>3. \A g \in Slot : flight[g].kind # "edit" /\ (flight[g].kind = "get" => flight[g].view # view')
    BY <1>0, <2>1, <2>2 DEF Lib!Editing, EditsFormed
  <2> QED
    BY <2>1, <2>2, <2>3, LoadKeeps
<1>2. ASSUME NEW f \in Slot, Lib!Refresh(f) PROVE RulesInv'
  <2>1. Lib!LoadAiRules(f, view) /\ UNCHANGED <<file, view, views, form>> /\ ~Lib!Busy
    BY <1>2 DEF Lib!Refresh, Lib!CanUse
  <2>2. view' \in 0 .. views' /\ views' \in Nat /\ views <= views'
    BY <1>0, <2>1 DEF EditsFormed
  <2>3. \A g \in Slot : flight[g].kind # "edit" /\ (flight[g].kind = "get" => flight[g].view # view')
    BY <2>1, BusyMeans DEF GetsPage
  <2> QED
    BY <2>1, <2>2, <2>3, LoadKeeps
<1>3. CASE Lib!Leave
  <2>1. view' = 0 /\ UNCHANGED <<file, views, list, form, flight>>
    BY <1>3 DEF Lib!Leave
  <2>2. EditsFormed' /\ LibraryFormed' /\ FormFormed'
    BY <1>0, <2>1 DEF EditsFormed, LibraryFormed, FormFormed
  <2>3. \A g \in Slot : ~(GetsPage(g)')
    BY <2>1, <2>2 DEF EditsFormed, GetsPage
  <2>4. EditAlone' /\ OneGet' /\ AnswerKnown'
    BY <1>0, <2>1, <2>3 DEF EditAlone, OneGet, AnswerKnown
  <2>5. EditsAccepted' /\ ListKnown'
    BY <1>0, <2>1 DEF EditsAccepted, ListKnown
  <2> QED
    BY <2>2, <2>4, <2>5 DEF RulesInv
<1> QED
  BY <1>1, <1>2, <1>3

LEMMA LibFormKeeps ==
  ASSUME RulesInv,
         \/ \E i \in Lib!Id, b \in BOOLEAN : Lib!OpenRuleForm(b, i)
         \/ \E l \in DOMAIN Lib!RULE_LEVEL_TO_V2 : Lib!PickLevel(l)
         \/ Lib!CloseModal
  PROVE  RulesInv'
<1>0. FormFormed
  BY DEF RulesInv
<1>1. ASSUME NEW i \in Lib!Id, NEW b \in BOOLEAN, Lib!OpenRuleForm(b, i) PROVE RulesInv'
  BY <1>1, RulesQuiet DEF Lib!OpenRuleForm, FormFormed
<1>2. ASSUME NEW l, Lib!PickLevel(l) PROVE RulesInv'
  BY <1>0, <1>2, RulesQuiet DEF Lib!PickLevel, FormFormed
<1>3. CASE Lib!CloseModal
  BY <1>0, <1>3, RulesQuiet DEF Lib!CloseModal, FormFormed
<1> QED
  BY <1>1, <1>2, <1>3

LEMMA RulesInvHolds ==
  ASSUME Lib!IdAssumption, Patient
  PROVE  Lib!Spec => []RulesInv
<1>1. Lib!Init => RulesInv
  <2> SUFFICES ASSUME Lib!Init PROVE RulesInv
    OBVIOUS
  <2>1. /\ file = Lib!EmptyOverlay /\ view = 0 /\ views = 0 /\ form = Lib!NoForm
        /\ flight = [f \in Slot |-> Lib!Idle]
    BY DEF Lib!Init
  <2>2. LibraryFormed
    BY <2>1 DEF LibraryFormed, Lib!EmptyOverlay
  <2>3. EditsFormed
    BY <2>1, IdleEdit DEF EditsFormed
  <2>4. Lib!AnyId \in Lib!Id
    BY DEF Lib!AnyId, Lib!Id, Lib!IdAssumption
  <2>5. FormFormed
    BY <2>1, <2>4 DEF FormFormed, Lib!NoForm
  <2>6. EditAlone /\ OneGet /\ EditsAccepted /\ ListKnown /\ AnswerKnown
    BY <2>1, IdleEdit DEF EditAlone, OneGet, EditsAccepted, ListKnown, AnswerKnown, GetsPage
  <2> QED
    BY <2>2, <2>3, <2>5, <2>6 DEF RulesInv
<1>2. RulesInv /\ [Lib!Next]_(Lib!vars) => RulesInv'
  <2>1. RulesInv /\ UNCHANGED Lib!vars => RulesInv'
    BY RulesQuiet DEF Lib!vars, RulesInv, FormFormed
  <2>2. RulesInv /\ Lib!Next => RulesInv'
    BY LibServeKeeps, LibAnswerKeeps, LibProposeKeeps, RowEditKeeps, SaveKeeps, LibPageKeeps,
       LibFormKeeps DEF Lib!Next
  <2> QED
    BY <2>1, <2>2
<1> QED
  BY <1>1, <1>2, PTL DEF Lib!Spec

\* For a user who waits, the rules page shows the library as it is, after any
\* edits, reloads that fail, pages left and entered again, and candidates that
\* reviews propose meanwhile (loadAiRules, saveRuleForm, toggleRuleEnabled).
THEOREM ListCurrentHolds ==
  ASSUME Lib!IdAssumption, Patient
  PROVE  Lib!Spec => []Lib!ListCurrent
<1>1. RulesInv => Lib!ListCurrent
  <2> SUFFICES ASSUME RulesInv, view # 0, ~Lib!Busy, list.is = "rules"
               PROVE  Lib!View(list.of) = Lib!View(file)
    BY DEF Lib!ListCurrent
  <2>1. OnlyProposed(list.of, file)
    BY DEF RulesInv, ListKnown
  <2>2. Lib!Listed(list.of) = Lib!Listed(file) /\ Lib!Enabled(list.of) = Lib!Enabled(file)
    BY <2>1 DEF OnlyProposed, Lib!Listed, Lib!Enabled, Lib!IsCustom
  <2>3. \A i \in Lib!Listed(file) : Lib!Effective(list.of, i) = Lib!Effective(file, i)
    BY <2>1 DEF OnlyProposed, Lib!Listed, Lib!Effective, Lib!IsCustom, Lib!IsCandidate
  <2> QED
    BY <2>2, <2>3 DEF Lib!View
<1> QED
  BY <1>1, RulesInvHolds, PTL

\* For a user who waits, the server refuses no edit: the buttons of the rows
\* and the forms offer only what the library accepts (RuleEditError).
THEOREM NoEditRefusedHolds ==
  ASSUME Lib!IdAssumption, Patient
  PROVE  Lib!Spec => []Lib!NoEditRefused
<1>1. RulesInv => Lib!NoEditRefused
  BY DEF RulesInv, EditsAccepted, Lib!NoEditRefused
<1> QED
  BY <1>1, RulesInvHolds, PTL

-----------------------------------------------------------------------------
(* Numbers *)

\* The least of a set of numbers.
LEMMA LeastNumber ==
  ASSUME NEW T, T \subseteq Nat, T # {}
  PROVE  \E x \in T : \A y \in T : x <= y
<1> DEFINE Before == {ss \in Nat \X Nat : ss[1] < ss[2]}
<1>1. IsWellFoundedOn(Before, Nat)
  BY NatLessThanWellFounded DEF OpToRel
<1> HIDE DEF Before
<1>2. PICK x \in T : \A y \in T : ~(<<y, x>> \in Before)
  BY <1>1, WFMin
<1>3. ASSUME NEW y \in T PROVE x <= y
  <2>1. x \in Nat /\ y \in Nat
    OBVIOUS
  <2>2. ~(<<y, x>> \in Before)
    BY <1>2, <1>3
  <2>3. y < x => <<y, x>> \in Before
    BY <2>1 DEF Before
  <2> QED
    BY <2>1, <2>2, <2>3
<1> QED
  BY <1>3

-----------------------------------------------------------------------------
(* The pages of a table: pagedSlice and buildTablePager *)

\* Math.ceil and the pages before a row.
LEMMA DivBounds ==
  ASSUME NEW a \in Nat, NEW s \in Nat \ {0}
  PROVE  a \div s \in Nat /\ (a \div s) * s <= a /\ a < (a \div s) * s + s
OBVIOUS

LEMMA TimesMonotone ==
  ASSUME NEW a \in Int, NEW b \in Int, NEW s \in Nat \ {0}, a <= b
  PROVE  a * s <= b * s
OBVIOUS

LEMMA TimesStep ==
  ASSUME NEW a \in Int, NEW s \in Nat
  PROVE  (a - 1) * s = a * s - s /\ a * s \in Int
OBVIOUS

\* The pages hold all rows, and all but the last are full.
LEMMA PagesCover ==
  ASSUME NEW total \in Nat, NEW size \in Nat \ {0}
  PROVE  /\ Pack!Pages(total, size) \in Nat \ {0}
         /\ total <= Pack!Pages(total, size) * size
         /\ total > 0 => (Pack!Pages(total, size) - 1) * size < total
<1> DEFINE q == (total + size - 1) \div size
<1>1. q \in Nat /\ q * size <= total + size - 1 /\ total + size - 1 < q * size + size
  <2>1. total + size - 1 \in Nat
    OBVIOUS
  <2> QED
    BY <2>1, DivBounds
<1>2. Pack!Pages(total, size) = IF 1 > q THEN 1 ELSE q
  BY DEF Pack!Pages, Pack!Larger
<1> HIDE DEF q
<1>3. q = 0 => total <= 0
  BY <1>1
<1>4. q * size \in Int /\ (q - 1) * size = q * size - size
  BY <1>1, TimesStep
<1>5. CASE q = 0
  BY <1>2, <1>3, <1>5
<1>6. CASE q # 0
  <2>1. Pack!Pages(total, size) = q
    BY <1>1, <1>2, <1>6
  <2> QED
    BY <1>1, <1>4, <1>6, <2>1
<1> QED
  BY <1>5, <1>6

\* A row is on exactly one page.
LEMMA RowOnItsPage ==
  ASSUME NEW total \in Nat, NEW size \in Nat \ {0}, NEW k \in 1 .. total,
         NEW p \in Int, p = ((k - 1) \div size) + 1
  PROVE  k \in Pack!PageRows(p, total, size)
<1> DEFINE d == (k - 1) \div size
<1>1. d \in Nat /\ d * size <= k - 1 /\ k - 1 < d * size + size
  BY k - 1 \in Nat, DivBounds
<1>2. p = d + 1
  OBVIOUS
<1> HIDE DEF d
<1>3. (p - 1) * size = d * size /\ p * size = d * size + size /\ d * size \in Int
  BY <1>1, <1>2
<1> QED
  BY <1>1, <1>3 DEF Pack!PageRows, Pack!FirstRow, Pack!Smaller

LEMMA RowOnNoOther ==
  ASSUME NEW total \in Nat, NEW size \in Nat \ {0}, NEW k \in 1 .. total,
         NEW p \in Int, k \in Pack!PageRows(p, total, size)
  PROVE  p = ((k - 1) \div size) + 1
<1> DEFINE d == (k - 1) \div size
<1>1. d \in Nat /\ d * size <= k - 1 /\ k - 1 < d * size + size
  BY k - 1 \in Nat, DivBounds
<1> HIDE DEF d
<1>2. (p - 1) * size = p * size - size /\ p * size \in Int /\ d * size \in Int
  BY <1>1, TimesStep
<1>3. p * size - size + 1 <= k /\ k <= p * size
  BY <1>2 DEF Pack!PageRows, Pack!FirstRow, Pack!Smaller
<1>4. (d + 1) * size = d * size + size
  BY <1>1
<1>5. ASSUME p <= d PROVE FALSE
  <2>1. p * size <= d * size
    BY <1>1, <1>5, TimesMonotone
  <2> QED
    BY <1>1, <1>2, <1>3, <2>1
<1>6. ASSUME p >= d + 2 PROVE FALSE
  <2>1. (d + 1) * size <= (p - 1) * size
    BY <1>1, <1>6, TimesMonotone
  <2> QED
    BY <1>1, <1>2, <1>3, <1>4, <2>1
<1> QED
  BY <1>1, <1>5, <1>6 DEF d

LEMMA PageOfRow ==
  ASSUME NEW total \in Nat, NEW size \in Nat \ {0}, NEW k \in 1 .. total
  PROVE  ((k - 1) \div size) + 1 \in 1 .. Pack!Pages(total, size)
<1> DEFINE d == (k - 1) \div size
           n == Pack!Pages(total, size)
<1>1. d \in Nat /\ d * size <= k - 1 /\ k - 1 < d * size + size
  BY k - 1 \in Nat, DivBounds
<1>2. n \in Nat \ {0} /\ total <= n * size
  BY PagesCover
<1> HIDE DEF d, n
<1>3. n * size \in Int /\ d * size \in Int
  BY <1>1, <1>2
<1>4. ~(n <= d)
  <2> SUFFICES ASSUME n <= d PROVE FALSE
    OBVIOUS
  <2>1. n * size <= d * size
    BY <1>1, <1>2, TimesMonotone
  <2> QED
    BY <1>1, <1>2, <1>3, <2>1
<1> QED
  BY <1>1, <1>2, <1>4 DEF d, n

\* No page of a table with rows is empty.
LEMMA PageHasRows ==
  ASSUME NEW total \in Nat, NEW size \in Nat \ {0}, total > 0, NEW p \in 1 .. Pack!Pages(total, size)
  PROVE  /\ Pack!FirstRow(p, size) \in 1 .. total
         /\ Pack!FirstRow(p, size) <= Pack!Smaller(p * size, total)
         /\ Pack!Smaller(p * size, total) \in 1 .. total
<1> DEFINE n == Pack!Pages(total, size)
<1>1. n \in Nat \ {0} /\ (n - 1) * size < total
  BY PagesCover
<1>2. (p - 1) * size <= (n - 1) * size /\ 0 <= (p - 1) * size
  <2>1. p - 1 <= n - 1 /\ 0 <= p - 1
    BY <1>1
  <2> QED
    BY <1>1, <2>1, TimesMonotone
<1>3. (p - 1) * size = p * size - size /\ p * size \in Int /\ (n - 1) * size \in Int
  BY <1>1, TimesStep
<1> QED
  BY <1>1, <1>2, <1>3 DEF Pack!FirstRow, Pack!Smaller

\* pagedSlice shows a page there is, whatever page it is asked for.
LEMMA Clamped ==
  ASSUME NEW total \in Nat, NEW size \in Nat \ {0}, NEW p \in Int
  PROVE  Pack!Clamp(p, total, size) \in 1 .. Pack!Pages(total, size)
BY PagesCover DEF Pack!Clamp, Pack!Larger, Pack!Smaller

\* Five numbered buttons, or as many as there are pages, around the page shown.
LEMMA WindowAround ==
  ASSUME NEW count \in Nat \ {0}, NEW p \in 1 .. count
  PROVE  /\ p \in Pack!Window(p, count) /\ Pack!Window(p, count) \subseteq 1 .. count
         /\ Cardinality(Pack!Window(p, count)) = Pack!Smaller(5, count)
<1>1. /\ Pack!WindowStart(p, count) \in 1 .. p /\ Pack!WindowEnd(p, count) \in p .. count
      /\ Pack!WindowEnd(p, count) - Pack!WindowStart(p, count) + 1 = Pack!Smaller(5, count)
  BY DEF Pack!WindowStart, Pack!WindowEnd, Pack!Larger, Pack!Smaller
<1>2. Cardinality(Pack!WindowStart(p, count) .. Pack!WindowEnd(p, count))
        = Pack!WindowEnd(p, count) - Pack!WindowStart(p, count) + 1
  BY <1>1, FS_Interval
<1> QED
  BY <1>1, <1>2 DEF Pack!Window

-----------------------------------------------------------------------------
(* Ranks: the order Ranked puts a finite set in *)

\* The members of S before a, in the order B of pairs.
Before(S, B, a) == {b \in S : <<b, a>> \in B}

\* B orders S totally.
TotalOn(S, B) ==
  /\ \A a \in S : <<a, a>> \notin B
  /\ \A a, b, c \in S : <<a, b>> \in B /\ <<b, c>> \in B => <<a, c>> \in B
  /\ \A a, b \in S : a # b => <<a, b>> \in B \/ <<b, a>> \in B

\* The rank of a member is the number of members before it: it grows with the
\* order, stays below the number of members, and no two members share it.
LEMMA RankGrows ==
  ASSUME NEW S, IsFiniteSet(S), NEW B, TotalOn(S, B), NEW a \in S, NEW c \in S, <<a, c>> \in B
  PROVE  Cardinality(Before(S, B, a)) < Cardinality(Before(S, B, c))
<1>1. /\ Before(S, B, a) \subseteq Before(S, B, c) /\ Before(S, B, c) \subseteq S
      /\ a \in Before(S, B, c) /\ a \notin Before(S, B, a)
  BY DEF Before, TotalOn
<1>2. IsFiniteSet(Before(S, B, c))
  BY <1>1, FS_Subset
<1>3. /\ Cardinality(Before(S, B, a)) <= Cardinality(Before(S, B, c))
      /\ Cardinality(Before(S, B, c)) # Cardinality(Before(S, B, a))
      /\ IsFiniteSet(Before(S, B, a))
  BY <1>1, <1>2, FS_Subset
<1>4. Cardinality(Before(S, B, a)) \in Nat /\ Cardinality(Before(S, B, c)) \in Nat
  BY <1>2, <1>3, FS_CardinalityType
<1> QED
  BY <1>3, <1>4

LEMMA RankBelow ==
  ASSUME NEW S, IsFiniteSet(S), NEW B, TotalOn(S, B), NEW a \in S
  PROVE  Cardinality(Before(S, B, a)) \in 0 .. Cardinality(S) - 1
<1>1. Before(S, B, a) \subseteq S /\ a \notin Before(S, B, a)
  BY DEF Before, TotalOn
<1>2. /\ IsFiniteSet(Before(S, B, a)) /\ Cardinality(Before(S, B, a)) <= Cardinality(S)
      /\ Cardinality(S) # Cardinality(Before(S, B, a))
  BY <1>1, FS_Subset
<1>3. Cardinality(Before(S, B, a)) \in Nat /\ Cardinality(S) \in Nat
  BY <1>2, FS_CardinalityType
<1> QED
  BY <1>2, <1>3

LEMMA RankUnique ==
  ASSUME NEW S, IsFiniteSet(S), NEW B, TotalOn(S, B), NEW a \in S, NEW c \in S,
         Cardinality(Before(S, B, a)) = Cardinality(Before(S, B, c))
  PROVE  a = c
<1>1. Cardinality(Before(S, B, a)) \in Int
  BY RankBelow
<1>2. ~(<<a, c>> \in B) /\ ~(<<c, a>> \in B)
  BY <1>1, RankGrows
<1> QED
  BY <1>2 DEF TotalOn

\* Every rank is that of a member.
LEMMA RankOnto ==
  ASSUME NEW S, IsFiniteSet(S), NEW B, TotalOn(S, B), NEW n \in 1 .. Cardinality(S)
  PROVE  \E a \in S : Cardinality(Before(S, B, a)) = n - 1
<1> DEFINE k == Cardinality(S)
           f == [a \in S |-> Cardinality(Before(S, B, a))]
<1>1. k \in Nat
  BY FS_CardinalityType
<1>2. f \in Injection(S, 0 .. k - 1)
  <2>1. \A a \in S : f[a] \in 0 .. k - 1
    BY RankBelow
  <2>2. \A a, c \in S : f[a] = f[c] => a = c
    BY RankUnique
  <2> QED
    BY <2>1, <2>2 DEF Injection, IsInjective
<1>3. IsFiniteSet(0 .. k - 1) /\ Cardinality(0 .. k - 1) = k
  <2>1. 0 \in Int /\ k - 1 \in Int
    BY <1>1
  <2>2. /\ IsFiniteSet(0 .. k - 1)
        /\ Cardinality(0 .. k - 1) = IF 0 > k - 1 THEN 0 ELSE (k - 1) - 0 + 1
    BY <2>1, FS_Interval
  <2> QED
    BY <1>1, <2>2
<1>4. f \in Surjection(S, 0 .. k - 1)
  BY <1>2, <1>3, FS_Injection
<1>5. n - 1 \in 0 .. k - 1
  BY <1>1
<1>6. \E a \in S : f[a] = n - 1
  BY <1>4, <1>5 DEF Surjection
<1> QED
  BY <1>6

\* A sequence that has at each place the member of that rank.
RanksOf(S, B, r) ==
  \A n \in 1 .. Cardinality(S) : r[n] \in S /\ Cardinality(Before(S, B, r[n])) = n - 1

\* It has every member once, in the order of B.
Lists(S, B, r) ==
  /\ \A a \in S : \E n \in 1 .. Cardinality(S) : r[n] = a
  /\ \A m, n \in 1 .. Cardinality(S) : r[m] = r[n] => m = n
  /\ \A m, n \in 1 .. Cardinality(S) : m < n => <<r[m], r[n]>> \in B

LEMMA RanksList ==
  ASSUME NEW S, IsFiniteSet(S), NEW B, TotalOn(S, B), NEW r, RanksOf(S, B, r)
  PROVE  Lists(S, B, r)
<1>0. Cardinality(S) \in Nat
  BY FS_CardinalityType
<1>1. ASSUME NEW a \in S PROVE \E n \in 1 .. Cardinality(S) : r[n] = a
  <2> DEFINE n == Cardinality(Before(S, B, a)) + 1
  <2>1. Cardinality(Before(S, B, a)) \in 0 .. Cardinality(S) - 1
    BY RankBelow
  <2>2. n \in 1 .. Cardinality(S) /\ n - 1 = Cardinality(Before(S, B, a))
    BY <1>0, <2>1
  <2> HIDE DEF n
  <2>3. r[n] \in S /\ Cardinality(Before(S, B, r[n])) = Cardinality(Before(S, B, a))
    BY <2>2 DEF RanksOf
  <2> QED
    BY <2>2, <2>3, RankUnique
<1>2. ASSUME NEW m \in 1 .. Cardinality(S), NEW n \in 1 .. Cardinality(S), r[m] = r[n] PROVE m = n
  <2>1. m - 1 = n - 1
    BY <1>2 DEF RanksOf
  <2> QED
    BY <1>0, <2>1
<1>3. ASSUME NEW m \in 1 .. Cardinality(S), NEW n \in 1 .. Cardinality(S), m < n
      PROVE  <<r[m], r[n]>> \in B
  <2>1. /\ r[m] \in S /\ r[n] \in S
        /\ Cardinality(Before(S, B, r[m])) = m - 1 /\ Cardinality(Before(S, B, r[n])) = n - 1
    BY DEF RanksOf
  <2>2. ~(<<r[n], r[m]>> \in B)
    <3> SUFFICES ASSUME <<r[n], r[m]>> \in B PROVE FALSE
      OBVIOUS
    <3>1. Cardinality(Before(S, B, r[n])) < Cardinality(Before(S, B, r[m]))
      BY <2>1, RankGrows
    <3> QED
      BY <1>0, <1>3, <2>1, <3>1
  <2>3. r[m] # r[n]
    BY <1>2, <1>3
  <2> QED
    BY <2>1, <2>2, <2>3 DEF TotalOn
<1> QED
  BY <1>1, <1>2, <1>3 DEF Lists

-----------------------------------------------------------------------------
(* Sequences of the tables *)

LEMMA SameCardinality ==
  \A S : Pack!Cardinality(S) = Cardinality(S)
BY DEF Pack!Cardinality, Cardinality

\* A sequence of n members.
Long(s, n) == n \in Nat /\ s = [i \in 1 .. n |-> s[i]]

LEMMA LongDomain ==
  ASSUME NEW s, NEW n, Long(s, n)
  PROVE  DOMAIN s = 1 .. n /\ Len(s) = n /\ IsFiniteSet(DOMAIN s) /\ Cardinality(DOMAIN s) = n
<1>1. n \in Nat /\ s = [i \in 1 .. n |-> s[i]]
  BY DEF Long
<1>2. DOMAIN s = 1 .. n /\ Len(s) = n
  BY <1>1
<1>3. IsFiniteSet(1 .. n) /\ Cardinality(1 .. n) = IF 1 > n THEN 0 ELSE n - 1 + 1
  BY <1>1, 1 \in Int, n \in Int, FS_Interval
<1> QED
  BY <1>1, <1>2, <1>3

-----------------------------------------------------------------------------
(* Ranked over numbers and over the cells of groups *)

\* r has every member of S once, the lesser first.
Climbs(S, r) ==
  /\ Long(r, Cardinality(S))
  /\ \A n \in DOMAIN r : r[n] \in S
  /\ \A a \in S : \E n \in DOMAIN r : r[n] = a
  /\ \A m, n \in DOMAIN r : r[m] = r[n] => m = n
  /\ \A m, n \in DOMAIN r : m < n => r[m] < r[n]

\* Ranked puts numbers in their order.
LEMMA NumbersClimb ==
  ASSUME NEW S, IsFiniteSet(S), S \subseteq Nat
  PROVE  Climbs(S, Pack!Ranked(S, <))
<1> DEFINE c == Cardinality(S)
           h == Pack!Ranked(S, <)
           B == {q \in S \X S : q[1] < q[2]}
<1>1. h = [n \in 1 .. Pack!Cardinality(S) |->
             CHOOSE a \in S : Pack!Cardinality({b \in S : b < a}) = n - 1]
  BY DEF Pack!Ranked
<1>2. c \in Nat /\ Pack!Cardinality(S) = c
  BY FS_CardinalityType, SameCardinality
<1>3. \A a, b \in S : <<a, b>> \in B <=> a < b
  OBVIOUS
<1> HIDE DEF B, h, c
<1>4. TotalOn(S, B)
  BY <1>3 DEF TotalOn
<1>5. \A a \in S : {b \in S : b < a} = Before(S, B, a)
  BY <1>3 DEF Before
<1>6. Long(h, c)
  <2> DEFINE g(n) == CHOOSE a \in S : Pack!Cardinality({b \in S : b < a}) = n - 1
  <2>1. h = [n \in 1 .. c |-> g(n)]
    BY <1>1, <1>2
  <2> HIDE DEF g
  <2> QED
    BY <1>2, <2>1 DEF Long
<1>7. ASSUME NEW n \in 1 .. c
      PROVE  h[n] \in S /\ Cardinality(Before(S, B, h[n])) = n - 1
  <2>1. \E a \in S : Cardinality(Before(S, B, a)) = n - 1
    BY <1>2, <1>4, RankOnto DEF c
  <2>2. \E a \in S : Pack!Cardinality({b \in S : b < a}) = n - 1
    BY <1>5, <2>1, SameCardinality
  <2>3. h[n] = CHOOSE a \in S : Pack!Cardinality({b \in S : b < a}) = n - 1
    BY <1>1, <1>2
  <2>4. h[n] \in S /\ Pack!Cardinality({b \in S : b < h[n]}) = n - 1
    BY <2>2, <2>3
  <2> QED
    BY <1>5, <2>4, SameCardinality
<1>8. RanksOf(S, B, h)
  BY <1>7 DEF RanksOf, c
<1>9. Lists(S, B, h)
  BY <1>2, <1>4, <1>8, RanksList
<1>10. DOMAIN h = 1 .. c
  BY <1>6, LongDomain
<1>11. \A m, n \in DOMAIN h : m < n => h[m] < h[n]
  BY <1>3, <1>7, <1>9, <1>10 DEF Lists, c
<1>12. Climbs(S, h)
  BY <1>6, <1>7, <1>9, <1>10, <1>11 DEF Climbs, Lists, c
<1> QED
  BY <1>12, Zenon DEF h

\* A cell is a group and a place in its rules.
LEMMA CellOf ==
  ASSUME NEW groups, NEW x
  PROVE  x \in Pack!Cells(groups) <=>
           \E g \in DOMAIN groups : \E i \in DOMAIN groups[g].rules : x = <<g, i>>
BY DEF Pack!Cells

\* r has every cell once, group by group.
Walks(cells, n, r) ==
  /\ Long(r, n)
  /\ \A k \in 1 .. n : r[k] \in cells
  /\ \A a \in cells : \E k \in 1 .. n : r[k] = a
  /\ \A j, k \in 1 .. n : r[j] = r[k] => j = k
  /\ \A j, k \in 1 .. n : j < k => Pack!Earlier(r[j], r[k])

\* at is the place of a cell among n.
Places(cells, n, at) ==
  /\ at \in [cells -> 1 .. n]
  /\ \A a, b \in cells : at[a] = at[b] => a = b
  /\ \A k \in 1 .. n : \E a \in cells : at[a] = k

\* Ranked walks through cells that can be numbered.
LEMMA CellsWalked ==
  ASSUME NEW groups, NEW n \in Nat, NEW at, Places(Pack!Cells(groups), n, at),
         Pack!Cells(groups) \subseteq Nat \X Nat
  PROVE  Walks(Pack!Cells(groups), n, Pack!Ranked(Pack!Cells(groups), Pack!Earlier))
<1> DEFINE S == Pack!Cells(groups)
           h == Pack!Ranked(S, Pack!Earlier)
           B == {q \in S \X S : Pack!Earlier(q[1], q[2])}
<1>1. h = [m \in 1 .. Pack!Cardinality(S) |->
             CHOOSE a \in S : Pack!Cardinality({b \in S : Pack!Earlier(b, a)}) = m - 1]
  BY DEF Pack!Ranked
<1>2. \A a, b \in S : <<a, b>> \in B <=> Pack!Earlier(a, b)
  OBVIOUS
<1>3. S \subseteq Nat \X Nat /\ Places(S, n, at)
  OBVIOUS
<1> HIDE DEF B, h, S
<1>4. IsFiniteSet(S) /\ Cardinality(S) = n /\ Pack!Cardinality(S) = n
  <2>1. IsFiniteSet(1 .. n) /\ Cardinality(1 .. n) = n
    <3>1. 1 \in Int /\ n \in Int
      OBVIOUS
    <3>2. IsFiniteSet(1 .. n) /\ Cardinality(1 .. n) = IF 1 > n THEN 0 ELSE n - 1 + 1
      BY <3>1, FS_Interval
    <3> QED
      BY <3>2
  <2>2. at \in Injection(S, 1 .. n) /\ at \in Surjection(S, 1 .. n)
    BY <1>3 DEF Places, Injection, Surjection, IsInjective
  <2>3. IsFiniteSet(S) /\ Cardinality(S) = Cardinality(1 .. n)
    BY <2>1, <2>2, FS_Injection
  <2> QED
    BY <2>1, <2>3, SameCardinality
<1>5. TotalOn(S, B)
  <2>1. \A a, b \in S : a # b => a[1] # b[1] \/ a[2] # b[2]
    BY <1>3
  <2>2. \A a \in S : a[1] \in Nat /\ a[2] \in Nat
    BY <1>3
  <2>3. \A a, b \in S : Pack!Earlier(a, b) <=> a[1] < b[1] \/ (a[1] = b[1] /\ a[2] < b[2])
    BY DEF Pack!Earlier
  <2>4. \A a \in S : ~Pack!Earlier(a, a)
    BY <2>2, <2>3
  <2>5. \A a, b, c \in S : Pack!Earlier(a, b) /\ Pack!Earlier(b, c) => Pack!Earlier(a, c)
    BY <2>2, <2>3
  <2>6. \A a, b \in S : a # b => Pack!Earlier(a, b) \/ Pack!Earlier(b, a)
    BY <2>1, <2>2, <2>3
  <2> QED
    BY <1>2, <2>4, <2>5, <2>6 DEF TotalOn
<1>6. \A a \in S : {b \in S : Pack!Earlier(b, a)} = Before(S, B, a)
  BY <1>2 DEF Before
<1>7. Long(h, n)
  <2> DEFINE g(m) == CHOOSE a \in S : Pack!Cardinality({b \in S : Pack!Earlier(b, a)}) = m - 1
  <2>1. h = [m \in 1 .. n |-> g(m)]
    BY <1>1, <1>4
  <2> HIDE DEF g
  <2> QED
    BY <2>1 DEF Long
<1>8. ASSUME NEW m \in 1 .. n
      PROVE  h[m] \in S /\ Cardinality(Before(S, B, h[m])) = m - 1
  <2>1. \E a \in S : Cardinality(Before(S, B, a)) = m - 1
    BY <1>4, <1>5, RankOnto
  <2>2. \E a \in S : Pack!Cardinality({b \in S : Pack!Earlier(b, a)}) = m - 1
    BY <1>6, <2>1, SameCardinality
  <2>3. h[m] = CHOOSE a \in S : Pack!Cardinality({b \in S : Pack!Earlier(b, a)}) = m - 1
    BY <1>1, <1>4
  <2>4. h[m] \in S /\ Pack!Cardinality({b \in S : Pack!Earlier(b, h[m])}) = m - 1
    BY <2>2, <2>3
  <2> QED
    BY <1>6, <2>4, SameCardinality
<1>9. RanksOf(S, B, h)
  BY <1>4, <1>8 DEF RanksOf
<1>10. Lists(S, B, h)
  BY <1>4, <1>5, <1>9, RanksList
<1>11. \A j, k \in 1 .. n : j < k => Pack!Earlier(h[j], h[k])
  BY <1>2, <1>4, <1>8, <1>10 DEF Lists
<1>12. Walks(S, n, h)
  BY <1>4, <1>7, <1>8, <1>10, <1>11 DEF Walks, Lists
<1> QED
  BY <1>12 DEF h, S

\* Numbers that climb through all of 1 .. n are 1, 2, ..., n.
LEMMA ClimbIsIdentity ==
  ASSUME NEW n \in Nat, NEW q, \A k \in 1 .. n : q[k] \in 1 .. n,
         \A m \in 1 .. n : \E k \in 1 .. n : q[k] = m,
         \A j, k \in 1 .. n : j < k => q[j] < q[k]
  PROVE  \A k \in 1 .. n : q[k] = k
<1> DEFINE T == {k \in 1 .. n : q[k] # k}
<1> SUFFICES ASSUME T # {} PROVE FALSE
  OBVIOUS
<1>1. PICK x \in T : \A y \in T : x <= y
  <2>1. T \subseteq Nat
    OBVIOUS
  <2> QED
    BY <2>1, LeastNumber
<1>2. x \in 1 .. n /\ q[x] \in 1 .. n /\ q[x] # x
  OBVIOUS
<1>3. \A y \in 1 .. n : y < x => q[y] = y
  BY <1>1
<1>4. ~(q[x] < x)
  <2> SUFFICES ASSUME q[x] < x PROVE FALSE
    OBVIOUS
  <2>1. q[q[x]] = q[x] /\ q[q[x]] < q[x]
    BY <1>2, <1>3
  <2> QED
    BY <1>2, <2>1
<1>5. PICK z \in 1 .. n : q[z] = x
  BY <1>2
<1>6. ~(z < x)
  BY <1>2, <1>3, <1>5
<1>7. ~(x < z)
  <2> SUFFICES ASSUME x < z PROVE FALSE
    OBVIOUS
  <2>1. q[x] < q[z]
    BY <1>2
  <2> QED
    BY <1>2, <1>4, <1>5, <2>1
<1>8. z # x /\ z \in Int /\ x \in Int
  BY <1>2, <1>5
<1> QED
  BY <1>6, <1>7, <1>8

-----------------------------------------------------------------------------
(* The rows and the cells of the score matrix *)

\* flattenScoreRows of groups whose cells have the places at.
FlatTo(groups, n, at, q) ==
  /\ Long(q, n)
  /\ \E r : /\ Walks(Pack!Cells(groups), n, r)
            /\ \A k \in 1 .. n :
                 q[k] = [group |-> groups[r[k][1]].name, rule |-> groups[r[k][1]].rules[r[k][2]]]

\* Each row is read off its cell.
LEMMA FlatRows ==
  ASSUME NEW groups, NEW n \in Nat, NEW at, Places(Pack!Cells(groups), n, at),
         Pack!Cells(groups) \subseteq Nat \X Nat
  PROVE  FlatTo(groups, n, at, Pack!FlattenScoreRows(groups))
<1> DEFINE r == Pack!Ranked(Pack!Cells(groups), Pack!Earlier)
           row(c) == [group |-> groups[c[1]].name, rule |-> groups[c[1]].rules[c[2]]]
           q == Pack!FlattenScoreRows(groups)
<1>1. Walks(Pack!Cells(groups), n, r)
  BY CellsWalked
<1>2. q = [k \in DOMAIN r |-> row(r[k])]
  BY DEF Pack!FlattenScoreRows
<1> HIDE DEF r, row, q
<1>3. DOMAIN r = 1 .. n
  BY <1>1, LongDomain DEF Walks
<1>4. Long(q, n) /\ \A k \in 1 .. n : q[k] = row(r[k])
  BY <1>2, <1>3 DEF Long
<1> QED
  BY <1>1, <1>4 DEF FlatTo, row, q

\* A run of rows from one head to the next, the end being n + 1.
NextHead(heads, c, n, j) == IF j < c THEN heads[j + 1] ELSE n + 1

\* Where the rows with a group other than the one before are.
HeadSet(rs) == {k \in DOMAIN rs : k = 1 \/ rs[k - 1].group # rs[k].group}

\* The heads cut 1 .. n into runs.
LEMMA RunsCover ==
  ASSUME NEW n \in Nat, NEW c \in Nat, NEW h,
         \A j \in 1 .. c : h[j] \in 1 .. n,
         \A j, k \in 1 .. c : j < k => h[j] < h[k],
         n > 0 => \E j \in 1 .. c : h[j] = 1
  PROVE  /\ \A j \in 1 .. c : NextHead(h, c, n, j) \in h[j] + 1 .. n + 1
         /\ \A j, k \in 1 .. c : j < k => NextHead(h, c, n, j) <= h[k]
         /\ \A k \in 1 .. n : \E j \in 1 .. c : h[j] <= k /\ k < NextHead(h, c, n, j)
<1>1. ASSUME NEW j \in 1 .. c
      PROVE  NextHead(h, c, n, j) \in h[j] + 1 .. n + 1
  <2>1. CASE j < c
    <3>1. j + 1 \in 1 .. c /\ j < j + 1
      BY <2>1
    <3>2. h[j] < h[j + 1] /\ h[j] \in 1 .. n /\ h[j + 1] \in 1 .. n
      BY <3>1
    <3> QED
      BY <2>1, <3>2 DEF NextHead
  <2>2. CASE ~(j < c)
    BY <2>2 DEF NextHead
  <2> QED
    BY <2>1, <2>2
<1>2. ASSUME NEW j \in 1 .. c, NEW k \in 1 .. c, j < k
      PROVE  NextHead(h, c, n, j) <= h[k]
  <2>1. j < c /\ j + 1 \in 1 .. c
    BY <1>2
  <2>2. NextHead(h, c, n, j) = h[j + 1]
    BY <2>1 DEF NextHead
  <2>3. j + 1 = k \/ j + 1 < k
    BY <1>2
  <2>4. h[j + 1] \in 1 .. n /\ h[k] \in 1 .. n
    BY <2>1
  <2> QED
    BY <2>1, <2>2, <2>3, <2>4
<1>3. ASSUME NEW k \in 1 .. n
      PROVE  \E j \in 1 .. c : h[j] <= k /\ k < NextHead(h, c, n, j)
  <2> DEFINE T == {c - j : j \in {i \in 1 .. c : h[i] <= k}}
  <2>1. T \subseteq Nat /\ T # {}
    <3>1. PICK i \in 1 .. c : h[i] = 1
      OBVIOUS
    <3>2. c - i \in T
      BY <3>1
    <3> QED
      BY <3>2
  <2>2. PICK x \in T : \A y \in T : x <= y
    BY <2>1, LeastNumber
  <2>3. PICK j \in 1 .. c : h[j] <= k /\ x = c - j
    BY <2>2
  <2>4. ASSUME j < c PROVE k < h[j + 1]
    <3> SUFFICES ASSUME ~(k < h[j + 1]) PROVE FALSE
      OBVIOUS
    <3>1. j + 1 \in 1 .. c /\ h[j + 1] \in 1 .. n
      BY <2>4
    <3>2. c - (j + 1) \in T
      BY <3>1
    <3>3. x <= c - (j + 1)
      BY <2>2, <3>2
    <3> QED
      BY <2>3, <3>1, <3>3
  <2> QED
    BY <2>3, <2>4 DEF NextHead
<1> QED
  BY <1>1, <1>2, <1>3

\* regroupScoreRows: one group for each head, with the rows of its run.
RegroupedTo(rs, n, c, h, groups) ==
  /\ Climbs(HeadSet(rs), h) /\ c = Cardinality(HeadSet(rs)) /\ c \in Nat
  /\ Long(groups, c)
  /\ \A j \in 1 .. c : groups[j] =
       [name |-> rs[h[j]].group,
        rules |-> [i \in 1 .. NextHead(h, c, n, j) - h[j] |-> rs[h[j] + i - 1].rule]]

\* What regroupScoreRows returns for any rows.
LEMMA Regrouped ==
  ASSUME NEW rs, NEW n, Long(rs, n)
  PROVE  RegroupedTo(rs, n, Cardinality(HeadSet(rs)), Pack!Heads(rs), Pack!RegroupScoreRows(rs))
<1> DEFINE h == Pack!Heads(rs)
           c == Cardinality(HeadSet(rs))
           groups == Pack!RegroupScoreRows(rs)
<1>1. DOMAIN rs = 1 .. n /\ Len(rs) = n /\ IsFiniteSet(DOMAIN rs) /\ n \in Nat
  BY LongDomain DEF Long
<1>2. HeadSet(rs) \subseteq DOMAIN rs /\ HeadSet(rs) \subseteq Nat
  BY <1>1 DEF HeadSet
<1>3. IsFiniteSet(HeadSet(rs)) /\ c \in Nat
  BY <1>1, <1>2, FS_Subset, FS_CardinalityType
<1>4. h = Pack!Ranked(HeadSet(rs), <)
  BY Zenon DEF Pack!Heads, HeadSet
<1>5. Climbs(HeadSet(rs), h)
  BY <1>2, <1>3, <1>4, NumbersClimb, Zenon
<1> HIDE DEF h, c, groups
<1>6. DOMAIN h = 1 .. c /\ Len(h) = c
  BY <1>5, LongDomain DEF Climbs, c
<1> DEFINE group(j) ==
      [name |-> rs[h[j]].group,
       rules |-> [i \in 1 .. NextHead(h, c, n, j) - h[j] |-> rs[h[j] + i - 1].rule]]
<1>7. groups = [j \in 1 .. c |-> group(j)]
  <2>1. groups = [j \in DOMAIN h |->
          [name |-> rs[h[j]].group,
           rules |-> [i \in 1 .. (IF j < Len(h) THEN h[j + 1] ELSE Len(rs) + 1) - h[j] |->
                        rs[h[j] + i - 1].rule]]]
    BY DEF groups, h, Pack!RegroupScoreRows
  <2> QED
    BY <1>1, <1>6, <2>1 DEF NextHead
<1> HIDE DEF group
<1>8. Long(groups, c) /\ \A j \in 1 .. c : groups[j] = group(j)
  BY <1>3, <1>7 DEF Long
<1>9. RegroupedTo(rs, n, c, h, groups)
  BY <1>3, <1>5, <1>8 DEF RegroupedTo, group, c
<1> QED
  BY <1>9 DEF h, c, groups

\* The heads are rows, and every head is one of them.
LEMMA HeadsOf ==
  ASSUME NEW rs, NEW n, Long(rs, n), NEW c, NEW h, NEW groups, RegroupedTo(rs, n, c, h, groups)
  PROVE  /\ n \in Nat /\ DOMAIN rs = 1 .. n /\ DOMAIN h = 1 .. c /\ c \in Nat /\ DOMAIN groups = 1 .. c
         /\ \A m \in 1 .. c : h[m] \in HeadSet(rs) /\ h[m] \in 1 .. n
         /\ \A a \in HeadSet(rs) : \E m \in 1 .. c : h[m] = a
         /\ \A l, m \in 1 .. c : l < m => h[l] < h[m]
<1>1. n \in Nat /\ DOMAIN rs = 1 .. n
  BY LongDomain DEF Long
<1>2. Climbs(HeadSet(rs), h) /\ c = Cardinality(HeadSet(rs)) /\ c \in Nat /\ Long(groups, c)
  BY DEF RegroupedTo
<1>3. Long(h, c)
  BY <1>2 DEF Climbs
<1>4. DOMAIN h = 1 .. c /\ DOMAIN groups = 1 .. c
  BY <1>2, <1>3, LongDomain
<1>5. HeadSet(rs) \subseteq DOMAIN rs
  BY DEF HeadSet
<1> QED
  BY <1>1, <1>2, <1>4, <1>5 DEF Climbs

\* The rows of a run have the group of its head.
LEMMA RunHasGroup ==
  ASSUME NEW rs, NEW n, Long(rs, n), NEW c, NEW h, NEW groups, RegroupedTo(rs, n, c, h, groups),
         NEW j \in 1 .. c, NEW k \in 1 .. n, h[j] <= k, k < NextHead(h, c, n, j)
  PROVE  rs[k].group = rs[h[j]].group
<1>1. /\ n \in Nat /\ DOMAIN rs = 1 .. n /\ DOMAIN h = 1 .. c /\ c \in Nat
      /\ \A m \in 1 .. c : h[m] \in HeadSet(rs) /\ h[m] \in 1 .. n
      /\ \A a \in HeadSet(rs) : \E m \in 1 .. c : h[m] = a
      /\ \A l, m \in 1 .. c : l < m => h[l] < h[m]
  BY HeadsOf
<1> DEFINE T == {x \in 1 .. n : /\ h[j] <= x /\ x < NextHead(h, c, n, j)
                                /\ rs[x].group # rs[h[j]].group}
<1> SUFFICES ASSUME T # {} PROVE FALSE
  OBVIOUS
<1>2. PICK x \in T : \A y \in T : x <= y
  <2>1. T \subseteq Nat
    OBVIOUS
  <2> QED
    BY <2>1, LeastNumber
<1>3. x \in 1 .. n /\ h[j] < x /\ x < NextHead(h, c, n, j) /\ x - 1 \in 1 .. n /\ x - 1 >= h[j]
  BY <1>1, <1>2
<1>4. rs[x - 1].group = rs[h[j]].group
  <2>1. x - 1 \notin T
    BY <1>2, <1>3
  <2>2. x - 1 < NextHead(h, c, n, j)
    <3>1. NextHead(h, c, n, j) \in Int
      <4>1. j < c => j + 1 \in 1 .. c
        BY <1>1
      <4> QED
        BY <1>1, <4>1 DEF NextHead
    <3> QED
      BY <1>3, <3>1
  <2> QED
    BY <1>3, <2>1, <2>2
<1>5. x \in HeadSet(rs)
  BY <1>1, <1>2, <1>4, <1>3 DEF HeadSet
<1>6. PICK m \in 1 .. c : h[m] = x
  BY <1>1, <1>5
<1>7. j < m
  <2> SUFFICES ASSUME m <= j PROVE FALSE
    BY <1>1
  <2>1. m = j \/ m < j
    BY <1>1
  <2>2. h[m] <= h[j]
    BY <1>1, <2>1
  <2> QED
    BY <1>1, <1>3, <1>6, <2>2
<1>8. NextHead(h, c, n, j) = h[j + 1] /\ j + 1 \in 1 .. c /\ (j + 1 = m \/ j + 1 < m)
  BY <1>1, <1>7 DEF NextHead
<1>9. h[j + 1] <= h[m]
  BY <1>1, <1>8
<1> QED
  BY <1>1, <1>3, <1>6, <1>8, <1>9

\* Flattening the groups of any rows of the matrix gives these rows back.
LEMMA RegroupExact ==
  ASSUME NEW rs, NEW n, Long(rs, n),
         \A k \in 1 .. n : rs[k] = [group |-> rs[k].group, rule |-> rs[k].rule]
  PROVE  Pack!FlattenScoreRows(Pack!RegroupScoreRows(rs)) = rs
<1> DEFINE c == Cardinality(HeadSet(rs))
           h == Pack!Heads(rs)
           groups == Pack!RegroupScoreRows(rs)
           cells == Pack!Cells(groups)
           at == [x \in cells |-> h[x[1]] + x[2] - 1]
           next(j) == NextHead(h, c, n, j)
<1>1. RegroupedTo(rs, n, c, h, groups)
  BY Regrouped
<1>2. at = [x \in cells |-> h[x[1]] + x[2] - 1] /\ cells = Pack!Cells(groups)
  OBVIOUS
<1> HIDE DEF c, h, groups, cells, at
<1>3. /\ n \in Nat /\ DOMAIN rs = 1 .. n /\ DOMAIN h = 1 .. c /\ c \in Nat /\ DOMAIN groups = 1 .. c
      /\ \A m \in 1 .. c : h[m] \in HeadSet(rs) /\ h[m] \in 1 .. n
      /\ \A a \in HeadSet(rs) : \E m \in 1 .. c : h[m] = a
      /\ \A l, m \in 1 .. c : l < m => h[l] < h[m]
  BY <1>1, HeadsOf
<1>4. /\ \A j \in 1 .. c : next(j) \in h[j] + 1 .. n + 1
      /\ \A j, k \in 1 .. c : j < k => next(j) <= h[k]
      /\ \A k \in 1 .. n : \E j \in 1 .. c : h[j] <= k /\ k < next(j)
  <2>1. n > 0 => 1 \in HeadSet(rs)
    BY <1>3 DEF HeadSet
  <2>2. n > 0 => \E j \in 1 .. c : h[j] = 1
    BY <1>3, <2>1
  <2> QED
    BY <1>3, <2>2, RunsCover
<1>5. \A x : x \in cells <=> \E j \in 1 .. c : \E i \in 1 .. next(j) - h[j] : x = <<j, i>>
  <2>1. \A j \in 1 .. c : groups[j] =
          [name |-> rs[h[j]].group,
           rules |-> [i \in 1 .. next(j) - h[j] |-> rs[h[j] + i - 1].rule]]
    BY <1>1 DEF RegroupedTo
  <2> HIDE DEF next
  <2>2. ASSUME NEW j \in 1 .. c PROVE DOMAIN groups[j].rules = 1 .. next(j) - h[j]
    <3> DEFINE m == next(j) - h[j]
               f == [i \in 1 .. m |-> rs[h[j] + i - 1].rule]
    <3>1. groups[j] = [name |-> rs[h[j]].group, rules |-> f]
      BY <2>1, Zenon
    <3>2. DOMAIN f = 1 .. m
      OBVIOUS
    <3> HIDE DEF f, m
    <3>3. groups[j].rules = f
      BY <3>1
    <3> QED
      BY <3>2, <3>3 DEF m
  <2>3. \A x : x \in Pack!Cells(groups) <=>
          \E j \in DOMAIN groups : \E i \in DOMAIN groups[j].rules : x = <<j, i>>
    BY CellOf, Zenon
  <2>4. cells = Pack!Cells(groups)
    BY <1>2
  <2> QED
    BY <1>3, <2>2, <2>3, <2>4
<1> HIDE DEF next
<1>6. \A x \in cells : /\ x = <<x[1], x[2]>> /\ x[1] \in 1 .. c /\ x[2] \in 1 .. next(x[1]) - h[x[1]]
                       /\ h[x[1]] \in 1 .. n /\ next(x[1]) \in 1 .. n + 1
  <2> SUFFICES ASSUME NEW x \in cells
               PROVE  /\ x = <<x[1], x[2]>> /\ x[1] \in 1 .. c /\ x[2] \in 1 .. next(x[1]) - h[x[1]]
                      /\ h[x[1]] \in 1 .. n /\ next(x[1]) \in 1 .. n + 1
    OBVIOUS
  <2>0. PICK j \in 1 .. c : \E i \in 1 .. next(j) - h[j] : x = <<j, i>>
    BY <1>5
  <2>1. PICK i \in 1 .. next(j) - h[j] : x = <<j, i>>
    BY <2>0
  <2>2. h[j] \in 1 .. n /\ next(j) \in h[j] + 1 .. n + 1
    BY <1>3, <1>4
  <2>3. x[1] = j /\ x[2] = i
    BY <2>1
  <2>4. next(j) \in 1 .. n + 1
    BY <1>3, <2>2
  <2> QED
    BY <2>1, <2>2, <2>3, <2>4
<1>7. ASSUME NEW x \in cells
      PROVE  at[x] \in 1 .. n /\ h[x[1]] <= at[x] /\ at[x] < next(x[1])
  BY <1>2, <1>3, <1>6
<1>8. ASSUME NEW x \in cells, NEW y \in cells, Pack!Earlier(x, y)
      PROVE  at[x] < at[y]
  <2>1. /\ x[1] \in Int /\ y[1] \in Int /\ x[2] \in Int /\ y[2] \in Int
        /\ at[x] \in Int /\ at[y] \in Int
    BY <1>3, <1>6, <1>7
  <2>2. CASE x[1] < y[1]
    <3>1. next(x[1]) <= h[y[1]]
      BY <1>4, <1>6, <2>2
    <3> QED
      BY <1>6, <1>7, <2>1, <3>1
  <2>3. CASE x[1] = y[1] /\ x[2] < y[2]
    BY <1>2, <1>6, <2>1, <2>3
  <2> QED
    BY <1>8, <2>2, <2>3 DEF Pack!Earlier
<1>9. ASSUME NEW x \in cells, NEW y \in cells, at[x] = at[y]
      PROVE  x = y
  <2>1. /\ x[1] \in Int /\ y[1] \in Int /\ x[2] \in Int /\ y[2] \in Int
        /\ at[x] \in Int /\ at[y] \in Int
    BY <1>3, <1>6, <1>7
  <2>2. ~Pack!Earlier(x, y) /\ ~Pack!Earlier(y, x)
    BY <1>8, <1>9, <2>1
  <2>3. x[1] = y[1] /\ x[2] = y[2]
    BY <2>1, <2>2 DEF Pack!Earlier
  <2> QED
    BY <1>6, <2>3
<1>10. ASSUME NEW k \in 1 .. n
       PROVE  \E x \in cells : at[x] = k
  <2>1. PICK j \in 1 .. c : h[j] <= k /\ k < next(j)
    BY <1>4
  <2>2. h[j] \in Int /\ next(j) \in Int
    BY <1>3, <1>4
  <2>3. k - h[j] + 1 \in 1 .. next(j) - h[j]
    BY <2>1, <2>2
  <2>4. <<j, k - h[j] + 1>> \in cells
    BY <1>5, <2>3
  <2>5. at[<<j, k - h[j] + 1>>] = h[j] + (k - h[j] + 1) - 1
    BY <1>2, <2>4
  <2> QED
    BY <2>2, <2>4, <2>5
<1>11. Places(cells, n, at) /\ cells \subseteq Nat \X Nat
  <2>1. at \in [cells -> 1 .. n]
    BY <1>2, <1>7
  <2>2. cells \subseteq Nat \X Nat
    BY <1>3, <1>6
  <2> QED
    BY <1>9, <1>10, <2>1, <2>2 DEF Places
<1> DEFINE q == Pack!FlattenScoreRows(groups)
<1>12. FlatTo(groups, n, at, q)
  BY <1>2, <1>3, <1>11, FlatRows
<1> HIDE DEF q
<1>13. PICK r : /\ Walks(cells, n, r)
                /\ \A k \in 1 .. n :
                     q[k] = [group |-> groups[r[k][1]].name, rule |-> groups[r[k][1]].rules[r[k][2]]]
  BY <1>2, <1>12 DEF FlatTo
<1>14. \A k \in 1 .. n : r[k] \in cells /\ at[r[k]] = k
  <2> DEFINE p == [k \in 1 .. n |-> at[r[k]]]
  <2>1. \A k \in 1 .. n : p[k] \in 1 .. n
    BY <1>7, <1>13 DEF Walks
  <2>2. \A m \in 1 .. n : \E k \in 1 .. n : p[k] = m
    BY <1>10, <1>13 DEF Walks
  <2>3. \A j, k \in 1 .. n : j < k => p[j] < p[k]
    BY <1>8, <1>13 DEF Walks
  <2>4. \A k \in 1 .. n : p[k] = at[r[k]]
    OBVIOUS
  <2> HIDE DEF p
  <2>5. \A k \in 1 .. n : p[k] = k
    BY <1>3, <2>1, <2>2, <2>3, ClimbIsIdentity
  <2> QED
    BY <1>13, <2>4, <2>5 DEF Walks
<1>15. ASSUME NEW k \in 1 .. n
       PROVE  q[k] = rs[k]
  <2> DEFINE j == r[k][1]
             i == r[k][2]
  <2>1. /\ r[k] \in cells /\ j \in 1 .. c /\ i \in 1 .. next(j) - h[j]
        /\ h[j] + i - 1 = k /\ h[j] <= k /\ k < next(j)
    BY <1>2, <1>6, <1>7, <1>14
  <2>2. q[k] = [group |-> groups[j].name, rule |-> groups[j].rules[i]]
    BY <1>13
  <2> HIDE DEF j, i
  <2>3. groups[j] = [name |-> rs[h[j]].group,
                     rules |-> [l \in 1 .. next(j) - h[j] |-> rs[h[j] + l - 1].rule]]
    BY <1>1, <2>1 DEF RegroupedTo, next
  <2>4. groups[j].name = rs[h[j]].group /\ groups[j].rules[i] = rs[k].rule
    BY <2>1, <2>3
  <2>5. rs[k].group = rs[h[j]].group
    BY <1>1, <2>1, RunHasGroup DEF next
  <2> QED
    BY <2>2, <2>4, <2>5
<1>16. Long(q, n)
  BY <1>12 DEF FlatTo
<1>17. q = rs
  BY <1>15, <1>16 DEF Long
<1> QED
  BY <1>17 DEF q, groups

-----------------------------------------------------------------------------
(* The groups of the score matrix *)

\* The sequence of the n members of s and x.
Appends(s, x, n, q) ==
  /\ Long(q, n + 1)
  /\ \A i \in 1 .. n : q[i] = s[i]
  /\ q[n + 1] = x

LEMMA LongAppend ==
  ASSUME NEW s, NEW n, Long(s, n), NEW x
  PROVE  Appends(s, x, n, Append(s, x))
<1> DEFINE V == {s[i] : i \in 1 .. n} \cup {x}
<1>1. n \in Nat /\ s = [i \in 1 .. n |-> s[i]]
  BY DEF Long
<1>2. s \in [1 .. n -> V]
  BY <1>1
<1>3. x \in V
  OBVIOUS
<1> HIDE DEF V
<1>4. s \in Seq(V) /\ Len(s) = n
  BY <1>1, <1>2
<1>5. Append(s, x) \in Seq(V) /\ Len(Append(s, x)) = n + 1
  BY <1>3, <1>4
<1> DEFINE q == Append(s, x)
<1>6. q = [i \in 1 .. Len(q) |-> q[i]]
  <2>1. ASSUME NEW p \in Seq(V) PROVE p = [i \in 1 .. Len(p) |-> p[i]]
    OBVIOUS
  <2>2. q \in Seq(V)
    BY <1>5
  <2> HIDE DEF q
  <2> QED
    BY <2>1, <2>2
<1>7. (\A i \in 1 .. n : q[i] = s[i]) /\ q[n + 1] = x
  BY <1>1, <1>3, <1>4
<1>8. Len(q) = n + 1
  BY <1>5
<1> HIDE DEF q
<1>9. Long(q, n + 1)
  BY <1>1, <1>6, <1>8 DEF Long
<1> QED
  BY <1>7, <1>9 DEF Appends, q

\* The names are told apart, and every rule has one.
Names(rs, names) ==
  /\ \E m : Long(names, m)
  /\ \A f, g \in DOMAIN names : names[f] = names[g] => f = g
  /\ \A i \in DOMAIN rs : \E g \in DOMAIN names : names[g] = rs[i]

\* groupRulesByTopic names each topic that occurs once.
LEMMA NamesOfTopics ==
  ASSUME Pack!TopicsAssumption, NEW rs \in Seq(Pack!Topic)
  PROVE  Names(rs, Pack!TopicNames(rs))
<1> DEFINE S == {n \in DOMAIN Topics : Topics[n] \in Pack!ToSet(rs)}
           listed == Pack!Picked(Topics, S)
           h == Pack!Ranked(S, <)
           m == Cardinality(S)
<1>1. /\ DOMAIN Topics = 1 .. Len(Topics) /\ Len(Topics) \in Nat
      /\ \A k, l \in DOMAIN Topics : Topics[k] = Topics[l] => k = l
      /\ \A k \in DOMAIN Topics : Topics[k] # Other
      /\ \A i \in DOMAIN rs : rs[i] # Other => \E k \in DOMAIN Topics : Topics[k] = rs[i]
      /\ \A i \in DOMAIN rs : rs[i] \in Pack!ToSet(rs)
  BY DEF Pack!TopicsAssumption, Pack!ToSet, Pack!Topic
<1>2. IsFiniteSet(S) /\ S \subseteq Nat /\ m \in Nat /\ S \subseteq DOMAIN Topics
  <2>1. 1 \in Int /\ Len(Topics) \in Int
    BY <1>1
  <2>2. IsFiniteSet(DOMAIN Topics)
    BY <1>1, <2>1, FS_Interval
  <2>3. S \subseteq DOMAIN Topics
    OBVIOUS
  <2> QED
    BY <1>1, <2>2, <2>3, FS_Subset, FS_CardinalityType
<1>3. Climbs(S, h)
  BY <1>2, NumbersClimb, Zenon
<1>4. listed = [n \in DOMAIN h |-> Topics[h[n]]]
  BY Zenon DEF Pack!Picked
<1>5. \A k : k \in S <=> k \in DOMAIN Topics /\ Topics[k] \in Pack!ToSet(rs)
  OBVIOUS
<1>6. Pack!TopicNames(rs) = IF Pack!ToSet(rs) \subseteq Pack!ToSet(Topics) THEN listed ELSE Append(listed, Other)
  BY Zenon DEF Pack!TopicNames
<1> HIDE DEF S, listed, h, m
<1>7. DOMAIN h = 1 .. m
  BY <1>3, LongDomain DEF Climbs, m
<1>8. Long(listed, m)
  BY <1>2, <1>4, <1>7 DEF Long
<1>9. DOMAIN listed = 1 .. m /\ \A n \in 1 .. m : listed[n] = Topics[h[n]] /\ h[n] \in DOMAIN Topics
  BY <1>2, <1>3, <1>4, <1>7 DEF Climbs
<1>10. /\ \A f, g \in 1 .. m : listed[f] = listed[g] => f = g
       /\ \A g \in 1 .. m : listed[g] # Other
  BY <1>1, <1>3, <1>7, <1>9 DEF Climbs
<1>11. ASSUME NEW i \in DOMAIN rs, rs[i] # Other
       PROVE  \E g \in 1 .. m : listed[g] = rs[i]
  <2>1. PICK k \in DOMAIN Topics : Topics[k] = rs[i]
    BY <1>1, <1>11
  <2>2. k \in S
    BY <1>1, <1>5, <2>1
  <2>3. PICK g \in 1 .. m : h[g] = k
    BY <1>3, <1>7, <2>2 DEF Climbs
  <2> QED
    BY <1>9, <2>1, <2>3
<1>12. CASE Pack!ToSet(rs) \subseteq Pack!ToSet(Topics)
  <2>1. \A i \in DOMAIN rs : rs[i] # Other
    BY <1>1, <1>12 DEF Pack!TopicsAssumption
  <2>2. Names(rs, listed)
    BY <1>8, <1>9, <1>10, <1>11, <2>1 DEF Names
  <2> QED
    BY <1>6, <1>12, <2>2
<1>13. CASE ~(Pack!ToSet(rs) \subseteq Pack!ToSet(Topics))
  <2> DEFINE q == Append(listed, Other)
  <2>1. /\ Long(q, m + 1) /\ q[m + 1] = Other
        /\ \A g \in 1 .. m : q[g] = listed[g]
    <3>1. Appends(listed, Other, m, q)
      BY <1>8, LongAppend
    <3> HIDE DEF q
    <3> QED
      BY <3>1 DEF Appends
  <2>2. Pack!TopicNames(rs) = q
    BY <1>6, <1>13
  <2> HIDE DEF q
  <2>3. DOMAIN q = 1 .. m + 1
    BY <2>1, LongDomain
  <2>4. \A f, g \in 1 .. m + 1 : q[f] = q[g] => f = g
    <3>1. \A g \in 1 .. m + 1 : g \in 1 .. m \/ g = m + 1
      BY <1>2
    <3> QED
      BY <1>10, <2>1, <3>1
  <2>5. \A i \in DOMAIN rs : \E g \in 1 .. m + 1 : q[g] = rs[i]
    <3>1. \A g \in 1 .. m : g \in 1 .. m + 1
      BY <1>2
    <3>2. m + 1 \in 1 .. m + 1
      BY <1>2
    <3> QED
      BY <1>11, <2>1, <3>1, <3>2
  <2>6. Names(rs, q)
    BY <2>1, <2>3, <2>4, <2>5 DEF Names
  <2> QED
    BY <2>2, <2>6
<1> QED
  BY <1>12, <1>13

\* The lines of a table: every rule on one of them, under its own topic.
Permutes(rs, lines) ==
  /\ Long(lines, Len(rs))
  /\ \A k \in 1 .. Len(rs) : /\ lines[k].rule \in 1 .. Len(rs)
                             /\ lines[k] = [group |-> rs[lines[k].rule], rule |-> lines[k].rule]
  /\ \A i \in 1 .. Len(rs) : \E k \in 1 .. Len(rs) : lines[k].rule = i
  /\ \A j, k \in 1 .. Len(rs) : lines[j].rule = lines[k].rule => j = k

\* The rules of a group are those with its topic, in the order of the pack.
LEMMA BucketClimbs ==
  ASSUME NEW rs, NEW V, rs \in Seq(V), NEW name
  PROVE  /\ Climbs({i \in DOMAIN rs : rs[i] = name}, Pack!Bucket(rs, name))
<1> DEFINE S == {i \in DOMAIN rs : rs[i] = name}
<1>1. S \subseteq DOMAIN rs /\ S \subseteq Nat /\ DOMAIN rs = 1 .. Len(rs) /\ Len(rs) \in Nat
  OBVIOUS
<1>2. IsFiniteSet(DOMAIN rs)
  BY <1>1, 1 \in Int, Len(rs) \in Int, FS_Interval
<1>3. IsFiniteSet(S)
  BY <1>1, <1>2, FS_Subset
<1>4. Pack!Bucket(rs, name) = Pack!Ranked(S, <)
  BY Zenon DEF Pack!Bucket
<1> HIDE DEF S
<1>5. Climbs(S, Pack!Ranked(S, <))
  BY <1>1, <1>3, NumbersClimb, Zenon
<1> QED
  BY <1>4, <1>5, Zenon DEF S

\* The matrix has every rule on one row, under its topic.
LEMMA MatrixPermutes ==
  ASSUME Pack!TopicsAssumption, NEW rs \in Seq(Pack!Topic)
  PROVE  Permutes(rs, Pack!FlattenScoreRows(Pack!GroupRulesByTopic(rs)))
<1> DEFINE n == Len(rs)
           names == Pack!TopicNames(rs)
           groups == Pack!GroupRulesByTopic(rs)
           cells == Pack!Cells(groups)
           at == [x \in cells |-> groups[x[1]].rules[x[2]]]
           q == Pack!FlattenScoreRows(groups)
<1>1. Names(rs, names)
  BY NamesOfTopics
<1>2. groups = [g \in DOMAIN names |-> [name |-> names[g], rules |-> Pack!Bucket(rs, names[g])]]
  BY DEF Pack!GroupRulesByTopic
<1>3. cells = Pack!Cells(groups) /\ at = [x \in cells |-> groups[x[1]].rules[x[2]]]
  OBVIOUS
<1>4. n \in Nat /\ DOMAIN rs = 1 .. n
  OBVIOUS
<1> HIDE DEF n, names, groups, cells, at, q
<1>5. PICK m : Long(names, m)
  BY <1>1 DEF Names
<1>6. DOMAIN names = 1 .. m /\ m \in Nat
  BY <1>5, LongDomain DEF Long
<1>7. DOMAIN groups = 1 .. m
  BY <1>2, <1>6
<1>8. ASSUME NEW g \in 1 .. m
      PROVE  /\ groups[g].name = names[g]
             /\ Climbs({i \in DOMAIN rs : rs[i] = names[g]}, groups[g].rules)
             /\ DOMAIN groups[g].rules \subseteq Nat
  <2>1. groups[g].name = names[g] /\ groups[g].rules = Pack!Bucket(rs, names[g])
    BY <1>2, <1>6
  <2>2. Climbs({i \in DOMAIN rs : rs[i] = names[g]}, groups[g].rules)
    BY <2>1, BucketClimbs
  <2>3. DOMAIN groups[g].rules = 1 .. Cardinality({i \in DOMAIN rs : rs[i] = names[g]})
    BY <2>2, LongDomain DEF Climbs
  <2> QED
    BY <2>1, <2>2, <2>3
<1>9. \A x : x \in cells <=>
        \E g \in DOMAIN groups : \E i \in DOMAIN groups[g].rules : x = <<g, i>>
  <2>1. \A x : x \in Pack!Cells(groups) <=>
          \E g \in DOMAIN groups : \E i \in DOMAIN groups[g].rules : x = <<g, i>>
    BY CellOf, Zenon
  <2> QED
    BY <1>3, <2>1
<1>10. ASSUME NEW x \in cells
       PROVE  /\ x = <<x[1], x[2]>> /\ x[1] \in 1 .. m /\ x[2] \in DOMAIN groups[x[1]].rules
              /\ x[1] \in Nat /\ x[2] \in Nat
  <2>1. PICK g \in 1 .. m : \E i \in DOMAIN groups[g].rules : x = <<g, i>>
    BY <1>7, <1>9
  <2>2. PICK i \in DOMAIN groups[g].rules : x = <<g, i>>
    BY <2>1
  <2>3. i \in Nat
    BY <1>8, <2>2
  <2> QED
    BY <2>2, <2>3
<1>11. ASSUME NEW x \in cells
       PROVE  at[x] \in 1 .. n /\ rs[at[x]] = names[x[1]]
  <2>1. at[x] = groups[x[1]].rules[x[2]]
    BY <1>3
  <2>2. groups[x[1]].rules[x[2]] \in {i \in DOMAIN rs : rs[i] = names[x[1]]}
    BY <1>8, <1>10 DEF Climbs
  <2> QED
    BY <1>4, <2>1, <2>2
<1>12. ASSUME NEW x \in cells, NEW y \in cells, at[x] = at[y]
       PROVE  x = y
  <2>1. x[1] = y[1]
    BY <1>1, <1>6, <1>10, <1>11, <1>12 DEF Names
  <2>2. at[x] = groups[x[1]].rules[x[2]] /\ at[y] = groups[x[1]].rules[y[2]]
    BY <1>3, <2>1
  <2>3. x[2] = y[2]
    <3>1. \A k, l \in DOMAIN groups[x[1]].rules :
            groups[x[1]].rules[k] = groups[x[1]].rules[l] => k = l
      BY <1>8, <1>10 DEF Climbs
    <3>2. x[2] \in DOMAIN groups[x[1]].rules /\ y[2] \in DOMAIN groups[x[1]].rules
      BY <1>10, <2>1
    <3> QED
      BY <1>12, <2>2, <3>1, <3>2
  <2> QED
    BY <1>10, <2>1, <2>3
<1>13. ASSUME NEW i \in 1 .. n
       PROVE  \E x \in cells : at[x] = i
  <2>1. PICK g \in 1 .. m : names[g] = rs[i]
    BY <1>1, <1>4, <1>6 DEF Names
  <2>2. i \in {k \in DOMAIN rs : rs[k] = names[g]}
    BY <1>4, <2>1
  <2>3. PICK l \in DOMAIN groups[g].rules : groups[g].rules[l] = i
    BY <1>8, <2>2 DEF Climbs
  <2>4. <<g, l>> \in cells
    BY <1>7, <1>9, <2>3
  <2>5. at[<<g, l>>] = i
    BY <1>3, <2>3, <2>4
  <2> QED
    BY <2>4, <2>5
<1>14. Places(cells, n, at) /\ cells \subseteq Nat \X Nat
  <2>1. at \in [cells -> 1 .. n]
    BY <1>3, <1>11
  <2>2. cells \subseteq Nat \X Nat
    BY <1>10
  <2> QED
    BY <1>12, <1>13, <2>1, <2>2 DEF Places
<1>15. FlatTo(groups, n, at, q)
  <2>1. Places(Pack!Cells(groups), n, at) /\ Pack!Cells(groups) \subseteq Nat \X Nat
    BY <1>3, <1>14
  <2> QED
    BY <1>4, <2>1, FlatRows DEF q
<1>16. PICK r : /\ Walks(cells, n, r)
                /\ \A k \in 1 .. n :
                     q[k] = [group |-> groups[r[k][1]].name, rule |-> groups[r[k][1]].rules[r[k][2]]]
  BY <1>3, <1>15 DEF FlatTo
<1>17. ASSUME NEW k \in 1 .. n
       PROVE  /\ r[k] \in cells /\ q[k].rule = at[r[k]] /\ q[k].rule \in 1 .. n
              /\ q[k] = [group |-> rs[q[k].rule], rule |-> q[k].rule]
  <2>1. r[k] \in cells
    BY <1>16 DEF Walks
  <2>2. q[k] = [group |-> names[r[k][1]], rule |-> at[r[k]]]
    <3>1. groups[r[k][1]].name = names[r[k][1]]
      BY <1>8, <1>10, <2>1
    <3>2. at[r[k]] = groups[r[k][1]].rules[r[k][2]]
      BY <1>3, <2>1
    <3> QED
      BY <1>16, <3>1, <3>2
  <2>3. at[r[k]] \in 1 .. n /\ rs[at[r[k]]] = names[r[k][1]]
    BY <1>11, <2>1
  <2> QED
    BY <2>1, <2>2, <2>3
<1>18. ASSUME NEW i \in 1 .. n
       PROVE  \E k \in 1 .. n : q[k].rule = i
  <2>1. PICK x \in cells : at[x] = i
    BY <1>13
  <2>2. PICK k \in 1 .. n : r[k] = x
    BY <1>16 DEF Walks
  <2>3. q[k].rule = at[r[k]]
    BY <1>17
  <2> QED
    BY <2>1, <2>2, <2>3
<1>19. ASSUME NEW j \in 1 .. n, NEW k \in 1 .. n, q[j].rule = q[k].rule
       PROVE  j = k
  <2>1. r[j] \in cells /\ r[k] \in cells /\ q[j].rule = at[r[j]] /\ q[k].rule = at[r[k]]
    BY <1>17
  <2>2. r[j] = r[k]
    BY <1>12, <1>19, <2>1
  <2> QED
    BY <1>16, <2>2 DEF Walks
<1>20. Long(q, n)
  BY <1>15 DEF FlatTo
<1> QED
  BY <1>17, <1>18, <1>19, <1>20 DEF Permutes, n, q, groups

\* Both tables show the whole pack.
LEMMA RowsPermute ==
  ASSUME Pack!TopicsAssumption, NEW rs \in Seq(Pack!Topic), NEW t \in Pack!Table
  PROVE  Permutes(rs, Pack!Rows(t, rs)) /\ Len(Pack!Rows(t, rs)) = Len(rs)
<1>1. CASE t = "list"
  <2> DEFINE q == Pack!Rows(t, rs)
  <2>1. q = [i \in 1 .. Len(rs) |-> [group |-> rs[i], rule |-> i]]
    BY <1>1 DEF Pack!Rows
  <2> HIDE DEF q
  <2>2. Len(rs) \in Nat
    OBVIOUS
  <2>3. \A i \in 1 .. Len(rs) : q[i] = [group |-> rs[i], rule |-> i]
    BY <2>1
  <2>4. Long(q, Len(rs))
    BY <2>1, <2>2 DEF Long
  <2>5. ASSUME NEW i \in 1 .. Len(rs) PROVE q[i].rule = i
    <3> DEFINE topic == rs[i]
    <3>1. q[i] = [group |-> topic, rule |-> i]
      BY <2>3
    <3> HIDE DEF topic
    <3> QED
      BY <3>1
  <2>6. Permutes(rs, q)
    BY <2>3, <2>4, <2>5 DEF Permutes
  <2> QED
    BY <2>6, LongDomain DEF q, Permutes
<1>2. CASE t # "list"
  <2>1. Pack!Rows(t, rs) = Pack!FlattenScoreRows(Pack!GroupRulesByTopic(rs))
    BY <1>2 DEF Pack!Rows
  <2>2. Permutes(rs, Pack!Rows(t, rs))
    BY <2>1, MatrixPermutes
  <2> QED
    BY <2>2, LongDomain DEF Permutes
<1> QED
  BY <1>1, <1>2

-----------------------------------------------------------------------------
(* The tables of a rule pack *)

\* The pages set are pages there are.
PackInv ==
  /\ rules \in Seq(Pack!Topic)
  /\ pager = [t \in Pack!Table |-> pager[t]]
  /\ \A t \in Pack!Table : /\ pager[t].size \in Sizes
                           /\ pager[t].page \in 1 .. Pack!Pages(Len(rules), pager[t].size)

LEMMA RenderedInRange ==
  ASSUME Pack!SizesAssumption, Pack!TopicsAssumption,
         NEW rs \in Seq(Pack!Topic), NEW t \in Pack!Table, NEW p \in Int, NEW s \in Sizes
  PROVE  LET d == Pack!Rendered(t, p, s, rs) IN
         d.size = s /\ d.page \in 1 .. Pack!Pages(Len(rs), s)
<1>1. s \in Nat \ {0} /\ Len(rs) \in Nat
  BY DEF Pack!SizesAssumption
<1>2. Pack!Clamp(p, Len(rs), s) \in 1 .. Pack!Pages(Len(rs), s)
  BY <1>1, Clamped
<1>3. Len(Pack!Rows(t, rs)) = Len(rs)
  BY RowsPermute
<1> QED
  BY <1>2, <1>3 DEF Pack!Rendered

LEMMA PackStarts ==
  ASSUME Pack!SizesAssumption, Pack!Init
  PROVE  PackInv
<1> DEFINE least == CHOOSE s \in Sizes : \A r \in Sizes : s <= r
<1>1. least \in Sizes
  <2>1. \E s \in Sizes : \A r \in Sizes : s <= r
    BY LeastNumber DEF Pack!SizesAssumption
  <2> QED
    BY <2>1
<1> HIDE DEF least
<1>2. rules = << >> /\ pager = [t \in Pack!Table |-> [page |-> 1, size |-> least]]
  BY DEF Pack!Init, least
<1>3. least \in Nat \ {0} /\ rules \in Seq(Pack!Topic) /\ Len(rules) = 0
  BY <1>1, <1>2 DEF Pack!SizesAssumption
<1>4. 1 \in 1 .. Pack!Pages(Len(rules), least)
  BY <1>3, PagesCover
<1>5. pager = [t \in Pack!Table |-> pager[t]]
  BY <1>2
<1>6. \A t \in Pack!Table : pager[t].size = least /\ pager[t].page = 1
  BY <1>2
<1> QED
  BY <1>1, <1>3, <1>4, <1>5, <1>6 DEF PackInv

LEMMA ShowKeeps ==
  ASSUME Pack!SizesAssumption, Pack!TopicsAssumption, PackInv,
         NEW t \in Pack!Table, NEW p \in Int, NEW s \in Sizes, Pack!Show(t, p, s)
  PROVE  PackInv'
<1> DEFINE d == Pack!Rendered(t, p, s, rules)
<1>1. pager' = [pager EXCEPT ![t] = d] /\ rules' = rules
  BY DEF Pack!Show
<1>2. d.size = s /\ d.page \in 1 .. Pack!Pages(Len(rules), s)
  BY RenderedInRange DEF PackInv
<1> HIDE DEF d
<1>3. pager' = [x \in Pack!Table |-> pager'[x]]
  BY <1>1 DEF PackInv
<1>4. pager'[t] = d /\ \A x \in Pack!Table : x # t => pager'[x] = pager[x]
  BY <1>1 DEF PackInv
<1> QED
  BY <1>1, <1>2, <1>3, <1>4 DEF PackInv

LEMMA PackLoadKeeps ==
  ASSUME Pack!SizesAssumption, Pack!TopicsAssumption, PackInv, NEW rs \in Pack!Changed, Pack!Load(rs)
  PROVE  PackInv'
<1>1. /\ rules \in Seq(Pack!Topic)
      /\ \A t \in Pack!Table : pager[t].size \in Sizes /\ pager[t].page \in Int
  BY DEF PackInv
<1>2. rs \in Seq(Pack!Topic)
  <2>1. CASE \E x \in Pack!Topic : rs = Append(rules, x)
    BY <1>1, <2>1
  <2>2. ASSUME NEW n \in 0 .. Len(rules), rs = SubSeq(rules, 1, n) PROVE rs \in Seq(Pack!Topic)
    BY <1>1, <2>2
  <2> QED
    BY <2>1, <2>2 DEF Pack!Changed
<1> DEFINE d(t) == Pack!Rendered(t, pager[t].page, pager[t].size, rs)
<1>3. rules' = rs /\ pager' = [t \in Pack!Table |-> d(t)]
  BY DEF Pack!Load
<1>4. \A t \in Pack!Table : /\ d(t).size = pager[t].size
                            /\ d(t).page \in 1 .. Pack!Pages(Len(rs), d(t).size)
  BY <1>1, <1>2, RenderedInRange
<1> HIDE DEF d
<1>5. pager' = [t \in Pack!Table |-> pager'[t]] /\ \A t \in Pack!Table : pager'[t] = d(t)
  BY <1>3
<1> QED
  BY <1>1, <1>2, <1>3, <1>4, <1>5 DEF PackInv

LEMMA PackInvHolds ==
  ASSUME Pack!SizesAssumption, Pack!MaxRulesAssumption, Pack!TopicsAssumption
  PROVE  Pack!Spec => []PackInv
<1>1. PackInv /\ UNCHANGED Pack!vars => PackInv'
  BY DEF Pack!vars, PackInv
<1>2. ASSUME PackInv, NEW t \in Pack!Table,
             \/ Pack!PrevPage(t) \/ Pack!NextPage(t)
             \/ \E n \in 1 .. MaxRules : Pack!PickPage(t, n)
             \/ \E s \in Sizes : Pack!Resize(t, s)
      PROVE  PackInv'
  <2>1. pager[t].size \in Sizes /\ pager[t].page \in Int
    BY <1>2 DEF PackInv
  <2>2. CASE Pack!PrevPage(t)
    BY <1>2, <2>1, <2>2, ShowKeeps DEF Pack!PrevPage
  <2>3. CASE Pack!NextPage(t)
    BY <1>2, <2>1, <2>3, ShowKeeps DEF Pack!NextPage
  <2>4. ASSUME NEW n \in 1 .. MaxRules, Pack!PickPage(t, n) PROVE PackInv'
    BY <1>2, <2>1, <2>4, ShowKeeps DEF Pack!PickPage
  <2>5. ASSUME NEW s \in Sizes, Pack!Resize(t, s) PROVE PackInv'
    BY <1>2, <2>5, ShowKeeps DEF Pack!Resize
  <2> QED
    BY <1>2, <2>2, <2>3, <2>4, <2>5
<1>3. PackInv /\ Pack!Next => PackInv'
  BY <1>2, PackLoadKeeps DEF Pack!Next
<1> QED
  BY <1>1, <1>3, PackStarts, PTL DEF Pack!Spec

\* A stretch of a sequence.
Stretch(s, a, n, q) ==
  /\ Long(q, n)
  /\ \A i \in 1 .. n : q[i] = s[a + i - 1]

LEMMA LongSub ==
  ASSUME NEW s, NEW n, Long(s, n), NEW a \in Nat \ {0}, NEW b \in 0 .. n, b = 0 \/ a <= b
  PROVE  \E l : Stretch(s, a, l, SubSeq(s, a, b)) /\ (l > 0 => a + l - 1 = b) /\ (b > 0 => l > 0)
<1> DEFINE V == {s[i] : i \in 1 .. n}
           q == SubSeq(s, a, b)
<1>1. n \in Nat /\ s = [i \in 1 .. n |-> s[i]]
  BY DEF Long
<1>2. s \in [1 .. n -> V]
  BY <1>1
<1> HIDE DEF V
<1>3. s \in Seq(V) /\ Len(s) = n
  BY <1>1, <1>2
<1>4. CASE b = 0
  <2>1. q = << >>
    BY <1>3, <1>4
  <2>2. Long(q, 0)
    BY <2>1 DEF Long
  <2> QED
    BY <1>4, <2>2 DEF Stretch
<1>5. CASE b # 0
  <2> DEFINE l == b - a + 1
  <2>1. l \in Nat /\ l > 0 /\ a + l - 1 = b /\ a \in 1 .. n /\ b \in 1 .. n
    BY <1>1, <1>5
  <2>2. q = [i \in 1 .. l |-> s[a + i - 1]]
    BY <1>3, <2>1
  <2> HIDE DEF q, l
  <2>3. Long(q, l) /\ \A i \in 1 .. l : q[i] = s[a + i - 1]
    BY <2>1, <2>2 DEF Long
  <2> QED
    BY <2>1, <2>3 DEF Stretch, q
<1> QED
  BY <1>4, <1>5

\* What a table shows, as a stretch of its lines.
LEMMA ShownStretch ==
  ASSUME Pack!SizesAssumption, Pack!TopicsAssumption, PackInv, NEW t \in Pack!Table
  PROVE  \E l \in Nat : /\ Stretch(Pack!Rows(t, rules), Pack!FirstRow(pager[t].page, pager[t].size), l, Pack!Shown(t))
                        /\ l > 0 => /\ Pack!FirstRow(pager[t].page, pager[t].size) \in 1 .. Len(rules)
                                    /\ Pack!FirstRow(pager[t].page, pager[t].size) + l - 1 <= Len(rules)
                        /\ Len(rules) > 0 => l > 0
<1> DEFINE size == pager[t].size
           p == pager[t].page
           n == Len(rules)
           lines == Pack!Rows(t, rules)
           a == Pack!FirstRow(p, size)
           b == Pack!Smaller(p * size, n)
<1>1. /\ size \in Nat \ {0} /\ n \in Nat /\ p \in 1 .. Pack!Pages(n, size)
      /\ rules \in Seq(Pack!Topic)
  BY DEF PackInv, Pack!SizesAssumption
<1>2. Permutes(rules, lines) /\ Len(lines) = n
  BY <1>1, RowsPermute
<1>3. Long(lines, n)
  BY <1>2 DEF Permutes
<1>4. Pack!Shown(t) = SubSeq(lines, a, b)
  BY <1>2 DEF Pack!Shown
<1> HIDE DEF lines, size, p, n
<1>5. a \in Nat \ {0} /\ b \in 0 .. n /\ (b = 0 \/ a <= b) /\ (n > 0 => b > 0 /\ a \in 1 .. n) /\ (n = 0 => b = 0)
  <2>1. CASE n > 0
    BY <1>1, <2>1, PageHasRows
  <2>2. CASE n = 0
    <3>1. p \in Nat \ {0}
      BY <1>1
    <3>2. p * size >= 0 /\ (p - 1) * size >= 0 /\ p * size \in Int /\ (p - 1) * size \in Int
      BY <1>1, <3>1, TimesMonotone
    <3> QED
      BY <2>2, <3>2 DEF Pack!FirstRow, Pack!Smaller
  <2> QED
    BY <1>1, <2>1, <2>2
<1> HIDE DEF a, b
<1>6. PICK l : Stretch(lines, a, l, SubSeq(lines, a, b)) /\ (l > 0 => a + l - 1 = b) /\ (b > 0 => l > 0)
  BY <1>3, <1>5, LongSub
<1>7. l \in Nat
  BY <1>6 DEF Stretch, Long
<1>8. l > 0 => a + l - 1 <= n /\ n > 0
  BY <1>1, <1>5, <1>6, <1>7
<1> QED
  BY <1>4, <1>5, <1>6, <1>7, <1>8 DEF lines, size, p, n, a

LEMMA TableExact ==
  ASSUME Pack!SizesAssumption, Pack!TopicsAssumption, PackInv, NEW t \in Pack!Table
  PROVE  Pack!TableInRange(t) /\ Pack!TableOffersPage(t) /\ Pack!TableShowsEveryRule(t)
<1> DEFINE size == pager[t].size
           p == pager[t].page
           n == Len(rules)
           lines == Pack!Rows(t, rules)
<1>1. /\ size \in Nat \ {0} /\ n \in Nat /\ p \in 1 .. Pack!Pages(n, size)
      /\ rules \in Seq(Pack!Topic) /\ DOMAIN rules = 1 .. n
  BY DEF PackInv, Pack!SizesAssumption
<1>2. Permutes(rules, lines) /\ Len(lines) = n
  BY <1>1, RowsPermute
<1>3. Pack!PagesOf(t) = Pack!Pages(n, size)
  BY <1>2 DEF Pack!PagesOf
<1>4. rules # << >> => n > 0
  BY <1>1
<1>5. rules # << >> => Pack!Shown(t) # << >>
  <2>1. PICK l \in Nat : Long(Pack!Shown(t), l) /\ (n > 0 => l > 0)
    BY ShownStretch DEF Stretch
  <2>2. Len(Pack!Shown(t)) = l
    BY <2>1, LongDomain
  <2> QED
    BY <1>4, <2>1, <2>2
<1>6. Pack!TableInRange(t)
  BY <1>1, <1>3, <1>5 DEF Pack!TableInRange
<1> HIDE DEF size, p, n, lines
<1>7. Pack!TableOffersPage(t)
  <2>1. Pack!Pages(n, size) \in Nat \ {0}
    BY <1>1, PagesCover
  <2>2. LET w == Pack!Window(p, Pack!Pages(n, size)) IN
        /\ p \in w /\ w \subseteq 1 .. Pack!Pages(n, size)
        /\ Cardinality(w) = Pack!Smaller(5, Pack!Pages(n, size))
    BY <1>1, <2>1, WindowAround
  <2>3. LET w == Pack!Window(p, Pack!PagesOf(t)) IN
        /\ p \in w /\ w \subseteq 1 .. Pack!PagesOf(t)
        /\ Pack!Cardinality(w) = Pack!Smaller(5, Pack!PagesOf(t))
    BY <1>3, <2>2, SameCardinality
  <2> QED
    BY <2>3 DEF Pack!TableOffersPage, p
<1>8. ASSUME NEW i \in DOMAIN rules
      PROVE  Pack!Cardinality({m \in 1 .. Pack!PagesOf(t) :
               \E k \in Pack!PageRows(m, Len(lines), size) : lines[k].rule = i}) = 1
  <2>1. PICK at \in 1 .. n : lines[at].rule = i
    BY <1>1, <1>2 DEF Permutes, n
  <2>2. \A k \in 1 .. n : lines[k].rule = i => k = at
    BY <1>2, <2>1 DEF Permutes, n
  <2> DEFINE on == ((at - 1) \div size) + 1
  <2>3. on \in 1 .. Pack!Pages(n, size)
    BY <1>1, PageOfRow
  <2>4. ASSUME NEW m \in 1 .. Pack!Pages(n, size)
        PROVE  (\E k \in Pack!PageRows(m, n, size) : lines[k].rule = i) <=> m = on
    <3>1. m \in Int
      OBVIOUS
    <3>2. at \in Pack!PageRows(m, n, size) <=> m = on
      <4>1. ASSUME m = on PROVE at \in Pack!PageRows(m, n, size)
        BY <1>1, <3>1, <4>1, RowOnItsPage
      <4>2. ASSUME at \in Pack!PageRows(m, n, size) PROVE m = on
        BY <1>1, <3>1, <4>2, RowOnNoOther
      <4> QED
        BY <4>1, <4>2
    <3>3. \A k \in Pack!PageRows(m, n, size) : k \in 1 .. n
      <4>1. m - 1 >= 0 /\ m \in Int
        OBVIOUS
      <4>2. (m - 1) * size >= 0 /\ (m - 1) * size \in Int /\ m * size \in Int
        BY <1>1, <4>1, TimesMonotone, TimesStep
      <4> QED
        BY <1>1, <4>2 DEF Pack!PageRows, Pack!FirstRow, Pack!Smaller
    <3> QED
      BY <2>1, <2>2, <3>2, <3>3
  <2> HIDE DEF on
  <2>5. {m \in 1 .. Pack!PagesOf(t) :
           \E k \in Pack!PageRows(m, Len(lines), size) : lines[k].rule = i} = {on}
    BY <1>2, <1>3, <2>3, <2>4
  <2> QED
    BY <2>5, FS_Singleton, SameCardinality
<1>9. Pack!TableShowsEveryRule(t)
  BY <1>8 DEF Pack!TableShowsEveryRule, lines, size
<1> QED
  BY <1>6, <1>7, <1>9

LEMMA CellsExact ==
  ASSUME Pack!SizesAssumption, Pack!TopicsAssumption, PackInv
  PROVE  Pack!MatrixCellsExact
<1> DEFINE n == Len(rules)
           lines == Pack!Rows("matrix", rules)
           a == Pack!FirstRow(pager["matrix"].page, pager["matrix"].size)
           q == Pack!Shown("matrix")
<1>1. "matrix" \in Pack!Table
  BY DEF Pack!Table
<1>2. Permutes(rules, lines)
  BY <1>1, RowsPermute DEF PackInv
<1>3. PICK l \in Nat : Stretch(lines, a, l, q) /\ (l > 0 => a \in 1 .. n /\ a + l - 1 <= n)
  BY <1>1, ShownStretch
<1>4. n \in Nat
  BY DEF PackInv
<1> HIDE DEF n, lines, a, q
<1>5. ASSUME NEW i \in 1 .. l
      PROVE  q[i] = [group |-> rules[q[i].rule], rule |-> q[i].rule]
  <2>1. q[i] = lines[a + i - 1] /\ a + i - 1 \in 1 .. n
    BY <1>3, <1>4 DEF Stretch
  <2> QED
    BY <1>2, <2>1 DEF Permutes, n
<1>6. ASSUME NEW i \in 1 .. l
      PROVE  q[i] = [group |-> q[i].group, rule |-> q[i].rule] /\ rules[q[i].rule] = q[i].group
  <2> DEFINE r == q[i].rule
             topic == rules[r]
  <2>1. q[i] = [group |-> topic, rule |-> r]
    BY <1>5
  <2> HIDE DEF topic, r
  <2>2. q[i].group = topic /\ q[i].rule = r
    BY <2>1
  <2> QED
    BY <2>1, <2>2 DEF topic
<1>7. Long(q, l) /\ DOMAIN q = 1 .. l
  BY <1>3, LongDomain DEF Stretch
<1>8. Pack!FlattenScoreRows(Pack!RegroupScoreRows(q)) = q
  BY <1>6, <1>7, RegroupExact
<1> QED
  BY <1>6, <1>7, <1>8 DEF Pack!MatrixCellsExact, q

\* Rule list and score matrix stay on a page there is and that has rows, offer
\* that page among their numbered buttons and show every rule on exactly one
\* page, and the cells of a matrix page span exactly its rows, for any page
\* sizes, topics and packs (pagedSlice, buildTablePager, regroupScoreRows).
THEOREM TablesExactHolds ==
  ASSUME Pack!SizesAssumption, Pack!MaxRulesAssumption, Pack!TopicsAssumption
  PROVE  Pack!Spec => [](/\ Pack!PageInRange /\ Pack!WindowOffersPage
                         /\ Pack!EveryRuleOnOnePage /\ Pack!MatrixCellsExact)
<1>1. PackInv => /\ Pack!PageInRange /\ Pack!WindowOffersPage
                 /\ Pack!EveryRuleOnOnePage /\ Pack!MatrixCellsExact
  BY TableExact, CellsExact DEF Pack!PageInRange, Pack!WindowOffersPage, Pack!EveryRuleOnOnePage
<1> QED
  BY <1>1, PackInvHolds, PTL

-----------------------------------------------------------------------------
(* The list of items *)

LEMMA SameCount ==
  \A S : Panels!Cardinality(S) = Cardinality(S)
BY DEF Panels!Cardinality, Cardinality

\* The sequence of the m members of s and the n members of t.
Joins(s, t, m, n, q) ==
  /\ Long(q, m + n)
  /\ \A i \in 1 .. m : q[i] = s[i]
  /\ \A i \in 1 .. n : q[m + i] = t[i]

LEMMA LongConcat ==
  ASSUME NEW s, NEW t, NEW m, NEW n, Long(s, m), Long(t, n)
  PROVE  Joins(s, t, m, n, s \o t)
<1>1. m \in Nat /\ n \in Nat
  BY DEF Long
<1> DEFINE V == {s[i] : i \in 1 .. m} \cup {t[i] : i \in 1 .. n}
<1>2. s \in Seq(V) /\ t \in Seq(V) /\ Len(s) = m /\ Len(t) = n
  <2>1. s = [i \in 1 .. m |-> s[i]] /\ t = [i \in 1 .. n |-> t[i]]
    BY DEF Long
  <2>2. s \in [1 .. m -> V] /\ t \in [1 .. n -> V]
    BY <2>1
  <2>3. \A q, k : k \in Nat /\ q \in [1 .. k -> V] => q \in Seq(V) /\ Len(q) = k
    <3> HIDE DEF V
    <3> QED
      OBVIOUS
  <2> QED
    BY <1>1, <2>2, <2>3
<1> HIDE DEF V
<1>3. s \o t \in Seq(V) /\ Len(s \o t) = m + n
  BY <1>2
<1>4. \A i \in 1 .. m : (s \o t)[i] = s[i]
  BY <1>1, <1>2
<1>5. \A i \in 1 .. n : (s \o t)[m + i] = t[i]
  BY <1>1, <1>2
<1>6. m + n \in Nat /\ s \o t = [i \in 1 .. m + n |-> (s \o t)[i]]
  <2>1. ASSUME NEW q \in Seq(V) PROVE q = [i \in 1 .. Len(q) |-> q[i]]
    OBVIOUS
  <2> DEFINE q == s \o t
  <2>2. q = [i \in 1 .. Len(q) |-> q[i]] /\ Len(q) = m + n
    BY <1>3, <2>1
  <2> HIDE DEF q
  <2>3. q = [i \in 1 .. m + n |-> q[i]]
    BY <2>2
  <2> QED
    BY <1>1, <2>3 DEF q
<1> QED
  BY <1>4, <1>5, <1>6 DEF Long, Joins

\* sortBySeverity: a permutation, the worst first.
SortsTo(x, n, y) ==
  /\ Long(y, n)
  /\ \E r : /\ \A k \in 1 .. n : r[k] \in 1 .. n /\ y[k] = x[r[k]]
            /\ \A k \in 1 .. n : \E j \in 1 .. n : r[j] = k
            /\ \A j, k \in 1 .. n : r[j] = r[k] => j = k
            /\ \A j, k \in 1 .. n : j < k =>
                 Panels!Severity(y[j].level) >= Panels!Severity(y[k].level)

LEMMA SeverityNumber ==
  \A l : Panels!Severity(l) \in Nat
BY DEF Panels!Severity

LEMMA Sorts ==
  ASSUME NEW x, NEW n, Long(x, n)
  PROVE  SortsTo(x, n, Panels!SortBySeverity(x))
<1>0. n \in Nat /\ DOMAIN x = 1 .. n /\ IsFiniteSet(1 .. n) /\ Cardinality(1 .. n) = n
  BY LongDomain DEF Long
<1> DEFINE D == DOMAIN x
           sev(k) == Panels!Severity(x[k].level)
           first(a, b) == \/ Panels!Severity(x[a].level) > Panels!Severity(x[b].level)
                          \/ Panels!Severity(x[a].level) = Panels!Severity(x[b].level) /\ a < b
           r == [k \in 1 .. Panels!Cardinality(D) |->
                   CHOOSE a \in D : Panels!Cardinality({b \in D : first(b, a)}) = k - 1]
           y == Panels!SortBySeverity(x)
<1>1. y = [k \in D |-> x[r[k]]]
  BY DEF Panels!SortBySeverity, Panels!Ranked
<1>2. D = 1 .. n /\ IsFiniteSet(D) /\ Cardinality(D) = n /\ Panels!Cardinality(D) = n
  BY <1>0, SameCount
<1> DEFINE B == {p \in D \X D : first(p[1], p[2])}
<1>3. \A a, b \in D : <<a, b>> \in B <=> first(a, b)
  OBVIOUS
<1>4. TotalOn(D, B)
  <2>1. \A k : sev(k) \in Nat
    BY SeverityNumber
  <2>2. /\ \A a \in D : ~first(a, a)
        /\ \A a, b, c \in D : first(a, b) /\ first(b, c) => first(a, c)
        /\ \A a, b \in D : a # b => first(a, b) \/ first(b, a)
    <3>1. \A a, b : first(a, b) <=> (sev(a) > sev(b) \/ (sev(a) = sev(b) /\ a < b))
      OBVIOUS
    <3> HIDE DEF first, sev
    <3> QED
      BY <1>0, <1>2, <2>1, <3>1
  <2> HIDE DEF first, B
  <2> QED
    BY <1>3, <2>2 DEF TotalOn
<1>5. \A a \in D : {b \in D : first(b, a)} = Before(D, B, a)
  BY <1>3 DEF Before
<1>6. \A k \in 1 .. n : /\ r[k] \in D
                        /\ Cardinality(Before(D, B, r[k])) = k - 1
  <2> SUFFICES ASSUME NEW k \in 1 .. n
               PROVE  r[k] \in D /\ Cardinality(Before(D, B, r[k])) = k - 1
    OBVIOUS
  <2>1. \E a \in D : Cardinality(Before(D, B, a)) = k - 1
    BY <1>2, <1>4, RankOnto
  <2>2. \E a \in D : Panels!Cardinality({b \in D : first(b, a)}) = k - 1
    BY <1>5, <2>1, SameCount
  <2>3. r[k] \in D /\ Panels!Cardinality({b \in D : first(b, r[k])}) = k - 1
    <3>1. r[k] = CHOOSE a \in D : Panels!Cardinality({b \in D : first(b, a)}) = k - 1
      BY <1>2
    <3> HIDE DEF r, first
    <3> QED
      BY <2>2, <3>1
  <2> QED
    BY <1>5, <2>3, SameCount
<1> HIDE DEF r, first, B, D, y
<1>8. RanksOf(D, B, r)
  BY <1>2, <1>6 DEF RanksOf
<1>9. /\ \A a \in D : \E k \in 1 .. n : r[k] = a
      /\ \A j, k \in 1 .. n : r[j] = r[k] => j = k
      /\ \A j, k \in 1 .. n : j < k => <<r[j], r[k]>> \in B
  <2>1. Lists(D, B, r)
    BY <1>2, <1>4, <1>8, RanksList
  <2> QED
    BY <1>2, <2>1 DEF Lists
<1>10. Long(y, n) /\ \A k \in 1 .. n : y[k] = x[r[k]]
  BY <1>0, <1>1, <1>2 DEF Long
<1>11. ASSUME NEW j \in 1 .. n, NEW k \in 1 .. n, j < k
       PROVE  Panels!Severity(y[j].level) >= Panels!Severity(y[k].level)
  <2>1. first(r[j], r[k])
    BY <1>3, <1>6, <1>9, <1>11
  <2>2. Panels!Severity(x[r[j]].level) >= Panels!Severity(x[r[k]].level)
    BY <2>1, SeverityNumber DEF first
  <2> QED
    BY <1>10, <2>2
<1> QED
  BY <1>2, <1>6, <1>9, <1>10, <1>11 DEF SortsTo, y

-----------------------------------------------------------------------------
(* Who takes what *)

\* The judgements with a key, and a list of them in their order.
Keyed(fs, as, key) == {j \in DOMAIN as : Panels!MatchKey(fs, as[j]) = key}

HitsOf(fs, as, key, h) ==
  /\ IsFiniteSet(Keyed(fs, as, key))
  /\ Long(h, Cardinality(Keyed(fs, as, key)))
  /\ \A n \in DOMAIN h : h[n] \in Keyed(fs, as, key)
  /\ \A m, n \in DOMAIN h : h[m] = h[n] => m = n

LEMMA HitsList ==
  ASSUME NEW fs, NEW as, NEW k, Long(as, k), NEW key
  PROVE  HitsOf(fs, as, key, Panels!Hits(fs, as, key))
<1> DEFINE S == {j \in DOMAIN as : Panels!MatchKey(fs, as[j]) = key}
           h == Panels!Hits(fs, as, key)
           c == Cardinality(S)
<1>1. /\ k \in Nat /\ DOMAIN as = 1 .. k /\ IsFiniteSet(DOMAIN as) /\ S \subseteq DOMAIN as
  BY LongDomain DEF Long
<1>2. IsFiniteSet(S) /\ c \in Nat /\ Panels!Cardinality(S) = c
  BY <1>1, FS_Subset, FS_CardinalityType, SameCount
<1>3. h = [n \in 1 .. Panels!Cardinality(S) |->
             CHOOSE a \in S : Panels!Cardinality({b \in S : b < a}) = n - 1]
  BY DEF Panels!Hits, Panels!Ranked
<1> DEFINE B == {p \in S \X S : p[1] < p[2]}
<1>4. \A a, b \in S : <<a, b>> \in B <=> a < b
  OBVIOUS
<1>5. \A a \in S : a \in Nat
  BY <1>1
<1> HIDE DEF S, B, h, c
<1>6. TotalOn(S, B)
  BY <1>4, <1>5 DEF TotalOn
<1>7. \A a \in S : {b \in S : b < a} = Before(S, B, a)
  BY <1>4 DEF Before
<1>8. Long(h, c)
  <2> DEFINE g(n) == CHOOSE a \in S : Panels!Cardinality({b \in S : b < a}) = n - 1
  <2>1. h = [n \in 1 .. c |-> g(n)]
    BY <1>2, <1>3
  <2> HIDE DEF g
  <2> QED
    BY <1>2, <2>1 DEF Long
<1>9. ASSUME NEW n \in 1 .. c
      PROVE  h[n] \in S /\ Cardinality(Before(S, B, h[n])) = n - 1
  <2>1. \E a \in S : Cardinality(Before(S, B, a)) = n - 1
    BY <1>2, <1>6, RankOnto DEF c
  <2>2. \E a \in S : Panels!Cardinality({b \in S : b < a}) = n - 1
    BY <1>7, <2>1, SameCount
  <2>3. h[n] = CHOOSE a \in S : Panels!Cardinality({b \in S : b < a}) = n - 1
    BY <1>2, <1>3
  <2>4. h[n] \in S /\ Panels!Cardinality({b \in S : b < h[n]}) = n - 1
    BY <2>2, <2>3
  <2> QED
    BY <1>7, <2>4, SameCount
<1>10. RanksOf(S, B, h)
  BY <1>9 DEF RanksOf, c
<1>11. Lists(S, B, h)
  BY <1>2, <1>6, <1>10, RanksList
<1>12. DOMAIN h = 1 .. c
  BY <1>8, LongDomain
<1>13. S = Keyed(fs, as, key)
  BY DEF S, Keyed
<1> QED
  BY <1>2, <1>8, <1>9, <1>11, <1>12, <1>13 DEF HitsOf, Lists, h, c

\* The findings of the same rule, up to one.
UpTo(fs, i) == {h \in 1 .. i : fs[h].rule = fs[i].rule}

LEMMA UpToGrows ==
  ASSUME NEW fs, NEW m \in Nat, NEW i \in 1 .. m, NEW j \in 1 .. m,
         fs[i].rule = fs[j].rule, Cardinality(UpTo(fs, i)) = Cardinality(UpTo(fs, j))
  PROVE  i = j
<1>1. \A a \in 1 .. m : IsFiniteSet(UpTo(fs, a)) /\ a \in UpTo(fs, a)
  <2> SUFFICES ASSUME NEW a \in 1 .. m
               PROVE  IsFiniteSet(UpTo(fs, a)) /\ a \in UpTo(fs, a)
    OBVIOUS
  <2>1. IsFiniteSet(1 .. a)
    BY 1 \in Int, a \in Int, FS_Interval
  <2>2. UpTo(fs, a) \subseteq 1 .. a /\ a \in UpTo(fs, a)
    BY DEF UpTo
  <2> QED
    BY <2>1, <2>2, FS_Subset
<1>2. ASSUME NEW a \in 1 .. m, NEW b \in 1 .. m, fs[a].rule = fs[b].rule, a < b
      PROVE  Cardinality(UpTo(fs, a)) # Cardinality(UpTo(fs, b))
  <2>1. UpTo(fs, a) \subseteq UpTo(fs, b) /\ b \notin UpTo(fs, a)
    BY <1>2 DEF UpTo
  <2>2. b \in UpTo(fs, b) /\ IsFiniteSet(UpTo(fs, b))
    BY <1>1
  <2> QED
    BY <2>1, <2>2, FS_Subset
<1>3. ~(i < j) /\ ~(j < i)
  BY <1>2
<1> QED
  BY <1>3

\* Taken: what a finding takes is a judgement of its rule, or nothing.
LEMMA TakenOf ==
  ASSUME NEW fs, NEW as, NEW m, NEW k, Long(fs, m), Long(as, k), NEW i \in 1 .. m
  PROVE  \/ Panels!Taken(fs, as, i) = 0
         \/ /\ Panels!Taken(fs, as, i) \in Keyed(fs, as, <<"id", fs[i].rule>>)
            /\ Cardinality(UpTo(fs, i)) \in DOMAIN Panels!Hits(fs, as, <<"id", fs[i].rule>>)
            /\ Panels!Taken(fs, as, i)
                 = Panels!Hits(fs, as, <<"id", fs[i].rule>>)[Cardinality(UpTo(fs, i))]
<1> DEFINE key == <<"id", fs[i].rule>>
           h == Panels!Hits(fs, as, key)
           n == Cardinality(UpTo(fs, i))
           c == Cardinality(Keyed(fs, as, key))
<1>1. HitsOf(fs, as, key, h)
  BY HitsList
<1>2. Panels!Taken(fs, as, i) = IF n <= Len(h) THEN h[n] ELSE 0
  BY SameCount DEF Panels!Taken, UpTo
<1>3. n \in Nat /\ n # 0
  <2>1. m \in Nat /\ IsFiniteSet(1 .. i)
    BY 1 \in Int, i \in Int, FS_Interval DEF Long
  <2>2. UpTo(fs, i) \subseteq 1 .. i /\ i \in UpTo(fs, i)
    BY <2>1 DEF UpTo
  <2>3. IsFiniteSet(UpTo(fs, i)) /\ UpTo(fs, i) # {}
    BY <2>1, <2>2, FS_Subset
  <2> QED
    BY <2>3, FS_CardinalityType, FS_EmptySet
<1> HIDE DEF key, h, n, c
<1>4. DOMAIN h = 1 .. c /\ Len(h) = c /\ c \in Nat
  BY <1>1, LongDomain DEF HitsOf, Long, c
<1>5. n <= Len(h) => n \in DOMAIN h
  BY <1>3, <1>4
<1>6. n <= Len(h) => h[n] \in Keyed(fs, as, key)
  BY <1>1, <1>5 DEF HitsOf
<1>7. /\ n <= Len(h) => Panels!Taken(fs, as, i) = h[n]
      /\ ~(n <= Len(h)) => Panels!Taken(fs, as, i) = 0
  BY <1>2
<1> QED
  BY <1>5, <1>6, <1>7 DEF key, h, n

\* hits.shift(): no judgement is taken twice.
LEMMA TakenOnce ==
  ASSUME NEW fs, NEW as, NEW m, NEW k, Long(fs, m), Long(as, k),
         NEW i \in 1 .. m, NEW j \in 1 .. m,
         Panels!Taken(fs, as, i) = Panels!Taken(fs, as, j), Panels!Taken(fs, as, i) # 0
  PROVE  i = j
<1> DEFINE a == Panels!Taken(fs, as, i)
<1>1. /\ a \in Keyed(fs, as, <<"id", fs[i].rule>>)
      /\ Cardinality(UpTo(fs, i)) \in DOMAIN Panels!Hits(fs, as, <<"id", fs[i].rule>>)
      /\ a = Panels!Hits(fs, as, <<"id", fs[i].rule>>)[Cardinality(UpTo(fs, i))]
  BY TakenOf
<1>2. /\ a \in Keyed(fs, as, <<"id", fs[j].rule>>)
      /\ Cardinality(UpTo(fs, j)) \in DOMAIN Panels!Hits(fs, as, <<"id", fs[j].rule>>)
      /\ a = Panels!Hits(fs, as, <<"id", fs[j].rule>>)[Cardinality(UpTo(fs, j))]
  BY TakenOf
<1>3. fs[i].rule = fs[j].rule
  <2>1. <<"id", fs[i].rule>> = <<"id", fs[j].rule>>
    BY <1>1, <1>2 DEF Keyed
  <2> QED
    BY <2>1
<1> DEFINE h == Panels!Hits(fs, as, <<"id", fs[i].rule>>)
<1>4. HitsOf(fs, as, <<"id", fs[i].rule>>, h)
  BY HitsList
<1> HIDE DEF h, a
<1>5. Cardinality(UpTo(fs, i)) = Cardinality(UpTo(fs, j))
  BY <1>1, <1>2, <1>3, <1>4 DEF HitsOf, h
<1>6. m \in Nat
  BY DEF Long
<1> QED
  BY <1>3, <1>5, <1>6, UpToGrows

\* Extras: the judgements nobody took, each once.
Untaken(fs, as, m) == DOMAIN as \ {Panels!Taken(fs, as, i) : i \in 1 .. m}

LeftOver(fs, as, m, e) ==
  /\ Long(e, Len(e))
  /\ \A n \in 1 .. Len(e) : e[n] \in Untaken(fs, as, m)
  /\ \A n, q \in 1 .. Len(e) : e[n] = e[q] => n = q
  /\ \A j \in Untaken(fs, as, m) : \E n \in 1 .. Len(e) : e[n] = j

LEMMA ExtrasLeft ==
  ASSUME NEW fs, NEW as, NEW m, NEW k, Long(fs, m), Long(as, k)
  PROVE  LeftOver(fs, as, m, Panels!Extras(fs, as))
<1> DEFINE S == DOMAIN as \ {Panels!Taken(fs, as, i) : i \in DOMAIN fs}
           head(j) == Panels!Hits(fs, as, Panels!MatchKey(fs, as[j]))[1]
           first(a, b) == head(a) < head(b) \/ (head(a) = head(b) /\ a < b)
           e == Panels!Extras(fs, as)
           c == Cardinality(S)
<1>1. /\ k \in Nat /\ DOMAIN as = 1 .. k /\ IsFiniteSet(DOMAIN as)
      /\ DOMAIN fs = 1 .. m /\ S \subseteq DOMAIN as
  BY LongDomain DEF Long
<1>2. IsFiniteSet(S) /\ c \in Nat /\ Panels!Cardinality(S) = c
  BY <1>1, FS_Subset, FS_CardinalityType, SameCount
<1>3. S = Untaken(fs, as, m)
  BY <1>1 DEF Untaken
<1>4. e = [n \in 1 .. Panels!Cardinality(S) |->
             CHOOSE a \in S : Panels!Cardinality({b \in S : first(b, a)}) = n - 1]
  BY DEF Panels!Extras, Panels!Ranked
<1>5. \A j \in S : j \in Nat /\ head(j) \in Nat
  <2> SUFFICES ASSUME NEW j \in S PROVE j \in Nat /\ head(j) \in Nat
    OBVIOUS
  <2> DEFINE key == Panels!MatchKey(fs, as[j])
             h == Panels!Hits(fs, as, key)
             d == Cardinality(Keyed(fs, as, key))
  <2>1. HitsOf(fs, as, key, h) /\ j \in Keyed(fs, as, key) /\ j \in 1 .. k
    BY <1>1, HitsList DEF Keyed
  <2>2. Keyed(fs, as, key) \subseteq 1 .. k
    BY <1>1 DEF Keyed
  <2> HIDE DEF key, h, d
  <2>3. d \in Nat /\ d # 0
    BY <2>1, FS_CardinalityType, FS_EmptySet DEF HitsOf, d
  <2>4. DOMAIN h = 1 .. d
    BY <2>1, LongDomain DEF HitsOf, d
  <2>5. h[1] \in 1 .. k
    <3>1. 1 \in DOMAIN h
      BY <2>3, <2>4
    <3>2. h[1] \in Keyed(fs, as, key)
      BY <2>1, <3>1 DEF HitsOf
    <3> QED
      BY <2>2, <3>2
  <2>6. head(j) = h[1]
    BY DEF h, key
  <2> HIDE DEF head
  <2> QED
    BY <1>1, <2>1, <2>5, <2>6
<1> DEFINE B == {p \in S \X S : first(p[1], p[2])}
<1>6. \A a, b \in S : <<a, b>> \in B <=> first(a, b)
  <2> HIDE DEF S, first
  <2> QED
    OBVIOUS
<1>7. TotalOn(S, B)
  <2>1. /\ \A a \in S : ~first(a, a)
        /\ \A a, b, d \in S : first(a, b) /\ first(b, d) => first(a, d)
        /\ \A a, b \in S : a # b => first(a, b) \/ first(b, a)
    <3>1. \A a, b : first(a, b) <=> (head(a) < head(b) \/ (head(a) = head(b) /\ a < b))
      OBVIOUS
    <3> HIDE DEF first, head, S
    <3> QED
      BY <1>5, <3>1
  <2> HIDE DEF first, B, S
  <2> QED
    BY <1>6, <2>1 DEF TotalOn
<1> HIDE DEF first, B, S, e, c
<1>8. \A a \in S : {b \in S : first(b, a)} = Before(S, B, a)
  BY <1>6 DEF Before
<1>9. Long(e, c)
  <2> DEFINE g(n) == CHOOSE a \in S : Panels!Cardinality({b \in S : first(b, a)}) = n - 1
  <2>1. e = [n \in 1 .. c |-> g(n)]
    BY <1>2, <1>4
  <2> HIDE DEF g
  <2> QED
    BY <1>2, <2>1 DEF Long
<1>10. ASSUME NEW n \in 1 .. c
       PROVE  e[n] \in S /\ Cardinality(Before(S, B, e[n])) = n - 1
  <2>1. \E a \in S : Cardinality(Before(S, B, a)) = n - 1
    BY <1>2, <1>7, RankOnto DEF c
  <2>2. \E a \in S : Panels!Cardinality({b \in S : first(b, a)}) = n - 1
    BY <1>8, <2>1, SameCount
  <2>3. e[n] = CHOOSE a \in S : Panels!Cardinality({b \in S : first(b, a)}) = n - 1
    BY <1>2, <1>4
  <2>4. e[n] \in S /\ Panels!Cardinality({b \in S : first(b, e[n])}) = n - 1
    BY <2>2, <2>3
  <2> QED
    BY <1>8, <2>4, SameCount
<1>11. RanksOf(S, B, e)
  BY <1>10 DEF RanksOf, c
<1>12. Lists(S, B, e)
  BY <1>2, <1>7, <1>11, RanksList
<1>13. Len(e) = c
  BY <1>9, LongDomain
<1>14. /\ \A a \in S : \E n \in 1 .. c : e[n] = a
       /\ \A n, q \in 1 .. c : e[n] = e[q] => n = q
  BY <1>12 DEF Lists, c
<1> QED
  BY <1>3, <1>9, <1>10, <1>13, <1>14 DEF LeftOver, e

-----------------------------------------------------------------------------
(* The merged list *)

\* Exactly one place of a list has a property of its origin.
FromOnce(its, i) == \E n \in DOMAIN its : /\ its[n].from = i
                                          /\ \A q \in DOMAIN its : its[q].from = i => q = n
AiOnce(its, j) == \E n \in DOMAIN its : /\ its[n].ai = j
                                        /\ \A q \in DOMAIN its : its[q].ai = j => q = n

Complete(fs, as, its) ==
  /\ \A i \in DOMAIN fs : FromOnce(its, i)
  /\ \A j \in DOMAIN as : AiOnce(its, j)

Judged(its) == \A n \in DOMAIN its : its[n].verdict = Panels!Verdict(its[n].level)

WorstFirst(its) ==
  \A m, n \in DOMAIN its : m < n => Panels!Severity(its[m].level) >= Panels!Severity(its[n].level)

\* What a merged list is made of, before it is sorted.
Unsorted(fs, as) ==
  [i \in DOMAIN fs |-> Panels!Overlay(Panels!Project(fs, i), as, Panels!Taken(fs, as, i))]
    \o [n \in DOMAIN Panels!Extras(fs, as) |-> Panels!Extra(as, Panels!Extras(fs, as)[n])]

\* The rows of an unsorted list of m findings and the judgements e left over.
RowsOf(fs, as, m, e, x) ==
  /\ \A i \in 1 .. m : /\ x[i].from = i /\ x[i].ai = Panels!Taken(fs, as, i)
                       /\ x[i].verdict = Panels!Verdict(x[i].level)
  /\ \A n \in 1 .. Len(e) : /\ x[m + n].from = 0 /\ x[m + n].ai = e[n]
                            /\ x[m + n].verdict = Panels!Verdict(x[m + n].level)

LEMMA UnsortedRows ==
  ASSUME NEW fs, NEW as, NEW m, NEW k, Long(fs, m), Long(as, k)
  PROVE  /\ Long(Unsorted(fs, as), m + Len(Panels!Extras(fs, as)))
         /\ RowsOf(fs, as, m, Panels!Extras(fs, as), Unsorted(fs, as))
<1> DEFINE e == Panels!Extras(fs, as)
           row(i) == Panels!Overlay(Panels!Project(fs, i), as, Panels!Taken(fs, as, i))
           u == [i \in DOMAIN fs |-> row(i)]
           v == [n \in DOMAIN e |-> Panels!Extra(as, e[n])]
           x == Unsorted(fs, as)
<1>1. x = u \o v
  BY DEF Unsorted
<1>2. m \in Nat /\ DOMAIN fs = 1 .. m /\ DOMAIN e = 1 .. Len(e) /\ Len(e) \in Nat
  <2>1. Long(e, Len(e))
    BY ExtrasLeft DEF LeftOver
  <2> QED
    BY <2>1, LongDomain DEF Long
<1>3. \A i : /\ row(i).from = i /\ row(i).ai = Panels!Taken(fs, as, i)
             /\ row(i).verdict = Panels!Verdict(row(i).level)
  <2> SUFFICES ASSUME NEW i
               PROVE  /\ row(i).from = i /\ row(i).ai = Panels!Taken(fs, as, i)
                      /\ row(i).verdict = Panels!Verdict(row(i).level)
    OBVIOUS
  <2> DEFINE b == Panels!Project(fs, i)
             a == Panels!Taken(fs, as, i)
  <2>1. /\ b.from = i /\ b.ai = 0 /\ b.verdict = Panels!Verdict(b.level)
        /\ DOMAIN b = {"from", "ai", "title", "level", "verdict"}
    BY DEF Panels!Project
  <2>2. row(i) = IF a = 0 THEN b
                 ELSE [b EXCEPT !.ai = a, !.level = as[a].level,
                                !.verdict = Panels!Verdict(as[a].level)]
    BY DEF Panels!Overlay
  <2> HIDE DEF b, a, row
  <2>3. CASE a = 0
    BY <2>1, <2>2, <2>3 DEF a
  <2>4. CASE a # 0
    <3>1. row(i) = [b EXCEPT !.ai = a, !.level = as[a].level,
                             !.verdict = Panels!Verdict(as[a].level)]
      BY <2>2, <2>4
    <3>2. /\ row(i).from = i /\ row(i).ai = a
          /\ row(i).level = as[a].level /\ row(i).verdict = Panels!Verdict(as[a].level)
      BY <2>1, <3>1
    <3> QED
      BY <3>2 DEF a
  <2> QED
    BY <2>3, <2>4
<1>4. \A j : /\ Panels!Extra(as, j).from = 0 /\ Panels!Extra(as, j).ai = j
             /\ Panels!Extra(as, j).verdict = Panels!Verdict(Panels!Extra(as, j).level)
  BY DEF Panels!Extra
<1> HIDE DEF row, e
<1>5. Long(u, m) /\ \A i \in 1 .. m : u[i] = row(i)
  BY <1>2 DEF Long
<1>6. Long(v, Len(e)) /\ \A n \in 1 .. Len(e) : v[n] = Panels!Extra(as, e[n])
  <2> DEFINE g(n) == Panels!Extra(as, e[n])
  <2>1. v = [n \in 1 .. Len(e) |-> g(n)]
    BY <1>2
  <2> HIDE DEF g
  <2>2. Long(v, Len(e)) /\ \A n \in 1 .. Len(e) : v[n] = g(n)
    BY <1>2, <2>1 DEF Long
  <2> QED
    BY <2>2 DEF g
<1> HIDE DEF u, v, x
<1>7. /\ Long(x, m + Len(e))
      /\ \A i \in 1 .. m : x[i] = u[i]
      /\ \A n \in 1 .. Len(e) : x[m + n] = v[n]
  <2>1. Long(u, m) /\ Long(v, Len(e))
    BY <1>5, <1>6
  <2>2. Joins(u, v, m, Len(e), x)
    BY <1>1, <2>1, LongConcat
  <2> QED
    BY <2>2 DEF Joins
<1>8. \A i \in 1 .. m : x[i] = row(i)
  BY <1>5, <1>7
<1>9. \A n \in 1 .. Len(e) : x[m + n] = Panels!Extra(as, e[n])
  BY <1>6, <1>7
<1>10. RowsOf(fs, as, m, e, x)
  <2>1. ASSUME NEW i \in 1 .. m
        PROVE  /\ x[i].from = i /\ x[i].ai = Panels!Taken(fs, as, i)
               /\ x[i].verdict = Panels!Verdict(x[i].level)
    <3>1. x[i] = row(i)
      BY <1>8
    <3> QED
      BY <1>3, <3>1
  <2>2. ASSUME NEW n \in 1 .. Len(e)
        PROVE  /\ x[m + n].from = 0 /\ x[m + n].ai = e[n]
               /\ x[m + n].verdict = Panels!Verdict(x[m + n].level)
    <3>1. x[m + n] = Panels!Extra(as, e[n])
      BY <1>9
    <3> QED
      BY <1>4, <3>1
  <2> QED
    BY <2>1, <2>2 DEF RowsOf
<1> QED
  BY <1>7, <1>10 DEF e, x

\* Sorting keeps what the rows are.
LEMMA SortedComplete ==
  ASSUME NEW fs, NEW as, NEW x, NEW y, NEW n, Long(x, n), SortsTo(x, n, y),
         Complete(fs, as, x), Judged(x)
  PROVE  Complete(fs, as, y) /\ Judged(y) /\ WorstFirst(y)
<1>1. DOMAIN x = 1 .. n /\ DOMAIN y = 1 .. n
  BY LongDomain DEF SortsTo
<1>2. PICK r : /\ \A k \in 1 .. n : r[k] \in 1 .. n /\ y[k] = x[r[k]]
               /\ \A k \in 1 .. n : \E j \in 1 .. n : r[j] = k
               /\ \A j, k \in 1 .. n : r[j] = r[k] => j = k
               /\ \A j, k \in 1 .. n : j < k =>
                    Panels!Severity(y[j].level) >= Panels!Severity(y[k].level)
  BY DEF SortsTo
<1>3. ASSUME NEW i, FromOnce(x, i) PROVE FromOnce(y, i)
  <2>1. PICK p \in 1 .. n : x[p].from = i /\ \A q \in 1 .. n : x[q].from = i => q = p
    BY <1>1, <1>3 DEF FromOnce
  <2>2. PICK k \in 1 .. n : r[k] = p
    BY <1>2
  <2>3. y[k].from = i
    BY <1>2, <2>1, <2>2
  <2>4. ASSUME NEW q \in 1 .. n, y[q].from = i PROVE q = k
    <3>1. r[q] = p
      BY <1>2, <2>1, <2>4
    <3> QED
      BY <1>2, <2>2, <3>1
  <2> QED
    BY <1>1, <2>3, <2>4 DEF FromOnce
<1>4. ASSUME NEW i, AiOnce(x, i) PROVE AiOnce(y, i)
  <2>1. PICK p \in 1 .. n : x[p].ai = i /\ \A q \in 1 .. n : x[q].ai = i => q = p
    BY <1>1, <1>4 DEF AiOnce
  <2>2. PICK k \in 1 .. n : r[k] = p
    BY <1>2
  <2>3. y[k].ai = i
    BY <1>2, <2>1, <2>2
  <2>4. ASSUME NEW q \in 1 .. n, y[q].ai = i PROVE q = k
    <3>1. r[q] = p
      BY <1>2, <2>1, <2>4
    <3> QED
      BY <1>2, <2>2, <3>1
  <2> QED
    BY <1>1, <2>3, <2>4 DEF AiOnce
<1>5. Judged(y)
  BY <1>1, <1>2 DEF Judged
<1>6. WorstFirst(y)
  BY <1>1, <1>2 DEF WorstFirst
<1> QED
  BY <1>3, <1>4, <1>5, <1>6 DEF Complete

\* reviewItems: what its list is, for any findings and judgements.
Merged(fs, as, its) == /\ \E n : Long(its, n)
                       /\ Complete(fs, as, its) /\ Judged(its) /\ WorstFirst(its)

LEMMA ItemsMerged ==
  ASSUME NEW fs, NEW as, NEW m, NEW k, Long(fs, m), Long(as, k)
  PROVE  Merged(fs, as, Panels!ReviewItems(fs, as))
<1> DEFINE e == Panels!Extras(fs, as)
           x == Unsorted(fs, as)
           l == Len(e)
           n == m + l
<1>1. LeftOver(fs, as, m, e) /\ Long(x, n) /\ RowsOf(fs, as, m, e, x)
  BY ExtrasLeft, UnsortedRows
<1>2. Panels!ReviewItems(fs, as) = Panels!SortBySeverity(x)
  BY DEF Panels!ReviewItems, Unsorted
<1> HIDE DEF e, x, n
<1>3. m \in Nat /\ l \in Nat /\ DOMAIN fs = 1 .. m /\ DOMAIN as = 1 .. k /\ k \in Nat
  BY <1>1, LongDomain DEF LeftOver, Long
<1> HIDE DEF l
<1>4. DOMAIN x = 1 .. n /\ n = m + l
  BY <1>1, LongDomain DEF n
<1>5. \A q \in 1 .. n : q \in 1 .. m \/ \E p \in 1 .. l : q = m + p
  <2> SUFFICES ASSUME NEW q \in 1 .. n, q \notin 1 .. m PROVE \E p \in 1 .. l : q = m + p
    OBVIOUS
  <2>1. q - m \in 1 .. l /\ q = m + (q - m)
    BY <1>3, <1>4
  <2> QED
    BY <2>1
<1>6. \A i \in 1 .. m : i \in 1 .. n
  BY <1>3, <1>4
<1>7. \A p \in 1 .. l : m + p \in 1 .. n
  BY <1>3, <1>4
<1>8. /\ \A i \in 1 .. m : /\ x[i].from = i /\ x[i].ai = Panels!Taken(fs, as, i)
                           /\ x[i].verdict = Panels!Verdict(x[i].level)
      /\ \A p \in 1 .. l : /\ x[m + p].from = 0 /\ x[m + p].ai = e[p]
                           /\ x[m + p].verdict = Panels!Verdict(x[m + p].level)
  BY <1>1 DEF RowsOf, l
<1>9. ASSUME NEW i \in 1 .. m PROVE FromOnce(x, i)
  <2>1. \A q \in 1 .. n : x[q].from = i => q = i
    <3> SUFFICES ASSUME NEW q \in 1 .. n, x[q].from = i PROVE q = i
      OBVIOUS
    <3>1. CASE q \in 1 .. m
      BY <1>8, <3>1
    <3>2. ASSUME NEW p \in 1 .. l, q = m + p PROVE FALSE
      <4>1. x[q].from = 0
        BY <1>8, <3>2
      <4> QED
        BY <1>3, <4>1
    <3> QED
      BY <1>5, <3>1, <3>2
  <2> QED
    BY <1>4, <1>6, <1>8, <2>1 DEF FromOnce
<1>10. ASSUME NEW j \in 1 .. k, j \in Untaken(fs, as, m) PROVE AiOnce(x, j)
  <2>1. PICK p \in 1 .. l : e[p] = j
    BY <1>1, <1>10 DEF LeftOver, l
  <2>2. ASSUME NEW q \in 1 .. n, x[q].ai = j PROVE q = m + p
    <3>1. q \notin 1 .. m
      BY <1>8, <1>10, <2>2 DEF Untaken
    <3>2. PICK s \in 1 .. l : q = m + s
      BY <1>5, <3>1
    <3>3. e[s] = e[p]
      BY <1>8, <2>1, <2>2, <3>2
    <3>4. s = p
      BY <1>1, <3>3 DEF LeftOver, l
    <3> QED
      BY <3>2, <3>4
  <2> QED
    BY <1>4, <1>7, <1>8, <2>1, <2>2 DEF AiOnce
<1>11. ASSUME NEW j \in 1 .. k, j \notin Untaken(fs, as, m) PROVE AiOnce(x, j)
  <2>1. PICK i \in 1 .. m : Panels!Taken(fs, as, i) = j
    BY <1>3, <1>11 DEF Untaken
  <2>2. ASSUME NEW q \in 1 .. n, x[q].ai = j PROVE q = i
    <3>1. ASSUME NEW s \in 1 .. l, q = m + s PROVE FALSE
      <4>1. e[s] = j /\ e[s] \in Untaken(fs, as, m)
        BY <1>1, <1>8, <2>2, <3>1 DEF LeftOver, l
      <4> QED
        BY <1>11, <4>1
    <3>2. q \in 1 .. m
      BY <1>5, <3>1
    <3>3. Panels!Taken(fs, as, q) = j /\ j # 0
      <4>1. x[q].ai = Panels!Taken(fs, as, q)
        BY <1>8, <3>2
      <4>2. j # 0
        BY <1>3, j \in 1 .. k
      <4> QED
        BY <2>2, <4>1, <4>2
    <3> QED
      BY <2>1, <3>2, <3>3, TakenOnce
  <2> QED
    BY <1>4, <1>6, <1>8, <2>1, <2>2 DEF AiOnce
<1>12. Complete(fs, as, x)
  BY <1>3, <1>9, <1>10, <1>11 DEF Complete
<1>13. Judged(x)
  <2> SUFFICES ASSUME NEW q \in 1 .. n PROVE x[q].verdict = Panels!Verdict(x[q].level)
    BY <1>4 DEF Judged
  <2>1. CASE q \in 1 .. m
    BY <1>8, <2>1
  <2>2. ASSUME NEW p \in 1 .. l, q = m + p
        PROVE  x[q].verdict = Panels!Verdict(x[q].level)
    BY <1>8, <2>2
  <2> QED
    BY <1>5, <2>1, <2>2
<1> DEFINE y == Panels!SortBySeverity(x)
<1>14. SortsTo(x, n, y)
  BY <1>1, Sorts
<1> HIDE DEF y
<1>15. Complete(fs, as, y) /\ Judged(y) /\ WorstFirst(y)
  BY <1>1, <1>12, <1>13, <1>14, SortedComplete
<1>16. Long(y, n)
  BY <1>14 DEF SortsTo
<1> QED
  BY <1>2, <1>15, <1>16 DEF Merged, y

-----------------------------------------------------------------------------
(* The cards *)

\* Some places of a list have a first one.
LEMMA FirstOf ==
  ASSUME NEW its, NEW n, Long(its, n), NEW S, S \subseteq DOMAIN its, S # {}
  PROVE  \E c \in S : \A d \in S : c <= d
<1>1. S \subseteq Nat
  BY LongDomain DEF Long
<1> QED
  BY <1>1, LeastNumber

\* extraRiskItems: an extra item has a card of its metric, not after it.
LEMMA ExtraHasCard ==
  ASSUME NEW its, NEW n, Long(its, n), NEW q \in DOMAIN its, Panels!IsExtra(its[q])
  PROVE  \E c \in Panels!ExtraRiskItems(its) :
           c \in DOMAIN its /\ c <= q /\ Panels!MetricKey(its[c]) = Panels!MetricKey(its[q])
<1> DEFINE key == Panels!MetricKey(its[q])
           S == {d \in DOMAIN its : Panels!IsExtra(its[d]) /\ Panels!MetricKey(its[d]) = key}
<1>1. S \subseteq DOMAIN its /\ q \in S
  OBVIOUS
<1>2. PICK c \in S : \A d \in S : c <= d
  BY <1>1, FirstOf
<1>3. n \in Nat /\ DOMAIN its = 1 .. n
  BY LongDomain DEF Long
<1>4. c \in 1 .. n /\ Panels!IsExtra(its[c]) /\ Panels!MetricKey(its[c]) = key /\ c <= q
  BY <1>1, <1>2, <1>3
<1>5. ASSUME NEW d \in 1 .. c - 1, Panels!IsExtra(its[d]) PROVE Panels!MetricKey(its[d]) # key
  <2>1. d \in DOMAIN its /\ ~(c <= d)
    BY <1>3, <1>4
  <2> QED
    BY <1>2, <1>5, <2>1
<1>6. c \in Panels!ExtraRiskItems(its)
  BY <1>3, <1>4, <1>5 DEF Panels!ExtraRiskItems
<1> QED
  BY <1>3, <1>4, <1>6

\* pickMetric: an item has a card of its metric, not after it.
LEMMA MetricHasCard ==
  ASSUME NEW its, NEW n, Long(its, n), NEW q \in DOMAIN its
  PROVE  LET c == Panels!PickMetric(its, Panels!MetricKey(its[q])) IN
           c \in DOMAIN its /\ c <= q /\ Panels!MetricKey(its[c]) = Panels!MetricKey(its[q])
<1> DEFINE key == Panels!MetricKey(its[q])
           S == {d \in DOMAIN its : Panels!MetricKey(its[d]) = key}
           c == Panels!PickMetric(its, key)
<1>1. S \subseteq DOMAIN its /\ q \in S
  OBVIOUS
<1>2. \E d \in S : \A e \in S : d <= e
  BY <1>1, FirstOf
<1>3. c = CHOOSE d \in S : \A e \in S : d <= e
  BY <1>1 DEF Panels!PickMetric
<1>4. c \in S /\ \A e \in S : c <= e
  <2> HIDE DEF S, c
  <2> QED
    BY <1>2, <1>3
<1> QED
  BY <1>1, <1>4

-----------------------------------------------------------------------------
(* The panels *)

\* The invariant: the items are the merged list of the result shown.
PanelsInv == Merged(findings, ai, items)

\* A bounded sequence is one.
LEMMA BoundedLong ==
  ASSUME NEW S, NEW b, NEW s \in Panels!BoundedSeq(S, b)
  PROVE  \E n : Long(s, n)
<1>1. PICK n \in 0 .. b : s \in [1 .. n -> S]
  BY DEF Panels!BoundedSeq, Panels!SeqOf
<1>2. Long(s, n)
  BY <1>1 DEF Long
<1> QED
  BY <1>2

\* The step that shows a result.
LEMMA ShownIsMerged ==
  ASSUME NEW fs, NEW as, \E m : Long(fs, m), \E k : Long(as, k), Panels!RenderReviewViews(fs, as)
  PROVE  PanelsInv'
<1>1. findings' = fs /\ ai' = as /\ items' = Panels!ReviewItems(fs, as)
  BY DEF Panels!RenderReviewViews
<1>2. Merged(fs, as, Panels!ReviewItems(fs, as))
  BY ItemsMerged
<1> QED
  BY <1>1, <1>2 DEF PanelsInv

\* reviewItems, for any findings, judgements and number of results shown: the
\* items on the page are a complete list, judged by level, the worst first.
THEOREM PanelsHold ==
  Panels!Spec => []PanelsInv
<1>1. Panels!Init => PanelsInv
  <2> SUFFICES ASSUME Panels!Init PROVE PanelsInv
    OBVIOUS
  <2>1. findings = <<>> /\ ai = <<>> /\ items = <<>>
    BY DEF Panels!Init
  <2>2. Long(<<>>, 0)
    BY DEF Long
  <2> QED
    BY <2>1, <2>2 DEF PanelsInv, Merged, Complete, Judged, WorstFirst
<1>2. PanelsInv /\ [Panels!Next]_Panels!vars => PanelsInv'
  <2> SUFFICES ASSUME PanelsInv, [Panels!Next]_Panels!vars PROVE PanelsInv'
    OBVIOUS
  <2>1. ASSUME NEW fs \in Panels!BoundedSeq(Panels!Finding, MaxFindings),
               NEW as \in Panels!BoundedSeq(Panels!AiItem, MaxAi),
               Panels!RenderReviewViews(fs, as)
        PROVE  PanelsInv'
    BY <2>1, BoundedLong, ShownIsMerged
  <2>2. ASSUME NEW fs \in Panels!BoundedSeq(Panels!Finding, 1),
               Panels!RenderReviewViews(fs, <<>>)
        PROVE  PanelsInv'
    <3>1. Long(<<>>, 0)
      BY DEF Long
    <3> QED
      BY <2>2, <3>1, BoundedLong, ShownIsMerged
  <2>3. CASE UNCHANGED <<findings, ai, items>>
    BY <2>3 DEF PanelsInv
  <2> QED
    BY <2>1, <2>2, <2>3
       DEF Panels!Next, Panels!vars, Panels!RenderPanel, Panels!RenderVerdict, Panels!ClickRow
<1> QED
  BY <1>1, <1>2, PTL DEF Panels!Spec

\* Whatever the model leaves out, judges twice or judges without naming a rule,
\* every finding and every judgement is one row, under the verdict of its level.
THEOREM NothingLostHolds ==
  Panels!Spec => [](Panels!NothingLost /\ Panels!VerdictOfLevel)
<1>1. PanelsInv => Panels!NothingLost /\ Panels!VerdictOfLevel
  <2> SUFFICES ASSUME PanelsInv PROVE Panels!NothingLost /\ Panels!VerdictOfLevel
    OBVIOUS
  <2>1. ASSUME NEW i \in DOMAIN findings
        PROVE  Panels!Cardinality({n \in DOMAIN items : items[n].from = i}) = 1
    <3>1. PICK n \in DOMAIN items : {q \in DOMAIN items : items[q].from = i} = {n}
      BY DEF PanelsInv, Merged, Complete, FromOnce
    <3> QED
      BY <3>1, FS_Singleton, SameCount
  <2>2. ASSUME NEW j \in DOMAIN ai
        PROVE  Panels!Cardinality({n \in DOMAIN items : items[n].ai = j}) = 1
    <3>1. PICK n \in DOMAIN items : {q \in DOMAIN items : items[q].ai = j} = {n}
      BY DEF PanelsInv, Merged, Complete, AiOnce
    <3> QED
      BY <3>1, FS_Singleton, SameCount
  <2>3. Panels!NothingLost
    BY <2>1, <2>2 DEF Panels!NothingLost, Panels!Count
  <2>4. Panels!VerdictOfLevel
    BY DEF PanelsInv, Merged, Judged, Panels!VerdictOfLevel
  <2> QED
    BY <2>3, <2>4
<1> QED
  BY <1>1, PanelsHold, PTL

\* buildReasonablenessPanel groups no item into the column it does not draw.
THEOREM NoHiddenBucketHolds ==
  Panels!Spec => []Panels!NoHiddenBucket
<1>1. PanelsInv => Panels!NoHiddenBucket
  <2> SUFFICES ASSUME PanelsInv, NEW q \in Panels!ReasonItems(items)
               PROVE  ~Panels!IsRiskPointItem(items[q])
    BY DEF Panels!NoHiddenBucket, Panels!ReasonablenessBucket
  <2>1. PICK n : Long(items, n)
    BY DEF PanelsInv, Merged
  <2>2. /\ q \in DOMAIN items /\ Panels!MetricKey(items[q]) \notin RiskPointKey
        /\ \A c \in Panels!ExtraRiskItems(items) :
             Panels!MetricKey(items[c]) # Panels!MetricKey(items[q])
    BY DEF Panels!ReasonItems, Panels!RiskPointKeys
  <2>3. ~Panels!IsExtra(items[q])
    BY <2>1, <2>2, ExtraHasCard
  <2>4. Panels!ExtraRiskItems(<<items[q]>>) = {}
    <3> DEFINE it == items[q]
    <3>1. \A d \in DOMAIN <<it>> : <<it>>[d] = it
      <4> HIDE DEF it
      <4> QED
        OBVIOUS
    <3> HIDE DEF it
    <3>2. \A d \in DOMAIN <<it>> : ~Panels!IsExtra(<<it>>[d])
      BY <2>3, <3>1 DEF it
    <3>3. Panels!ExtraRiskItems(<<it>>) = {}
      BY <3>2 DEF Panels!ExtraRiskItems
    <3> QED
      BY <3>3 DEF it
  <2> QED
    BY <2>2, <2>4 DEF Panels!IsRiskPointItem
<1> QED
  BY <1>1, PanelsHold, PTL

\* riskPointEntries: the card of a metric is never that of a lesser item than one
\* it stands for, blocking items of other metrics included.
THEOREM CardsShowWorstHolds ==
  Panels!Spec => []Panels!CardsShowWorst
<1>1. PanelsInv => Panels!CardsShowWorst
  <2> SUFFICES ASSUME PanelsInv, NEW q \in DOMAIN items,
                      \/ Panels!MetricKey(items[q]) \in RiskPointKey
                      \/ /\ items[q].level = "BLOCK" /\ items[q].title \notin TypeTitle
                         /\ Panels!MetricKey(items[q]) \notin CreditKey
               PROVE  \E c \in Panels!RiskPointEntries(items) \ {0} :
                        /\ Panels!MetricKey(items[c]) = Panels!MetricKey(items[q])
                        /\ Panels!Severity(items[c].level) >= Panels!Severity(items[q].level)
    BY DEF Panels!CardsShowWorst
  <2>1. PICK n : Long(items, n)
    BY DEF PanelsInv, Merged
  <2>2. n \in Nat /\ DOMAIN items = 1 .. n
    BY <2>1, LongDomain DEF Long
  <2>3. ASSUME NEW c \in DOMAIN items, c <= q
        PROVE  Panels!Severity(items[c].level) >= Panels!Severity(items[q].level)
    <3>1. CASE c = q
      BY <3>1, SeverityNumber
    <3>2. CASE c < q
      BY <3>2 DEF PanelsInv, Merged, WorstFirst
    <3> QED
      BY <2>2, <2>3, <3>1, <3>2
  <2>4. CASE Panels!MetricKey(items[q]) \in RiskPointKey
    <3> DEFINE c == Panels!PickMetric(items, Panels!MetricKey(items[q]))
    <3>1. c \in DOMAIN items /\ c <= q /\ Panels!MetricKey(items[c]) = Panels!MetricKey(items[q])
      BY <2>1, MetricHasCard
    <3>2. c \in Panels!RiskPointEntries(items)
      BY <2>4 DEF Panels!RiskPointEntries
    <3> HIDE DEF c
    <3>3. c \in Panels!RiskPointEntries(items) \ {0}
      BY <2>2, <3>1, <3>2
    <3> QED
      BY <2>3, <3>1, <3>3
  <2>5. CASE Panels!MetricKey(items[q]) \notin RiskPointKey
    <3>1. Panels!IsExtra(items[q])
      BY <2>5 DEF Panels!IsExtra
    <3>2. PICK c \in Panels!ExtraRiskItems(items) :
            c \in DOMAIN items /\ c <= q
            /\ Panels!MetricKey(items[c]) = Panels!MetricKey(items[q])
      BY <2>1, <3>1, ExtraHasCard
    <3>3. c \in Panels!RiskPointEntries(items) \ {0}
      BY <2>2, <3>2 DEF Panels!RiskPointEntries
    <3> QED
      BY <2>3, <3>2, <3>3
  <2> QED
    BY <2>4, <2>5
<1> QED
  BY <1>1, PanelsHold, PTL

-----------------------------------------------------------------------------
(* The control panel opens on rows *)

\* A sequence as long as the places picked, of the items at them.
PicksFrom(its, S, p) ==
  /\ Long(p, Cardinality(S))
  /\ \A n \in DOMAIN p : \E a \in S : p[n] = its[a]

LEMMA PickedOf ==
  ASSUME NEW its, NEW S, IsFiniteSet(S), S \subseteq Nat
  PROVE  PicksFrom(its, S, Panels!Picked(its, S))
<1> DEFINE c == Cardinality(S)
           h == [n \in 1 .. Panels!Cardinality(S) |->
                   CHOOSE a \in S : Panels!Cardinality({b \in S : b < a}) = n - 1]
           p == Panels!Picked(its, S)
<1>1. p = [n \in DOMAIN h |-> its[h[n]]]
  BY DEF Panels!Picked, Panels!Ranked
<1>2. c \in Nat /\ Panels!Cardinality(S) = c
  BY FS_CardinalityType, SameCount
<1> DEFINE B == {q \in S \X S : q[1] < q[2]}
<1>3. \A a, b \in S : <<a, b>> \in B <=> a < b
  OBVIOUS
<1> HIDE DEF B, p, c
<1>4. TotalOn(S, B)
  BY <1>3 DEF TotalOn
<1>5. \A a \in S : {b \in S : b < a} = Before(S, B, a)
  BY <1>3 DEF Before
<1>6. DOMAIN h = 1 .. c
  BY <1>2
<1>7. ASSUME NEW n \in 1 .. c PROVE h[n] \in S
  <2>1. \E a \in S : Cardinality(Before(S, B, a)) = n - 1
    BY <1>4, RankOnto DEF c
  <2>2. \E a \in S : Panels!Cardinality({b \in S : b < a}) = n - 1
    BY <1>5, <2>1, SameCount
  <2>3. h[n] = CHOOSE a \in S : Panels!Cardinality({b \in S : b < a}) = n - 1
    BY <1>2
  <2> HIDE DEF h
  <2> QED
    BY <2>2, <2>3
<1> HIDE DEF h
<1>8. p = [n \in 1 .. c |-> its[h[n]]]
  BY <1>1, <1>6
<1>9. Long(p, c) /\ DOMAIN p = 1 .. c
  BY <1>2, <1>8 DEF Long
<1>10. \A n \in DOMAIN p : \E a \in S : p[n] = its[a]
  BY <1>7, <1>8, <1>9
<1> QED
  BY <1>9, <1>10 DEF PicksFrom, p, c

\* Nothing is picked only where there is nothing to pick.
LEMMA PickedSome ==
  ASSUME NEW its, NEW S, IsFiniteSet(S), S \subseteq Nat
  PROVE  Panels!Picked(its, S) = <<>> <=> S = {}
<1>1. Long(Panels!Picked(its, S), Cardinality(S))
  BY PickedOf DEF PicksFrom
<1>2. Len(Panels!Picked(its, S)) = Cardinality(S) /\ DOMAIN Panels!Picked(its, S) = 1 .. Cardinality(S)
  BY <1>1, LongDomain
<1>3. Cardinality(S) = 0 <=> S = {}
  BY FS_EmptySet
<1>4. Panels!Picked(its, S) = <<>> => Cardinality(S) = 0
  BY <1>2
<1>5. Cardinality(S) = 0 => Panels!Picked(its, S) = <<>>
  BY <1>1 DEF Long
<1> QED
  BY <1>3, <1>4, <1>5

\* buildControlPanel: with control items there is a verdict that has rows.
LEMMA OpensOnSome ==
  ASSUME NEW its, NEW n, Long(its, n), Judged(its), Panels!ControlItems(its) # <<>>
  PROVE  Panels!Group(its, Panels!FirstVerdict(its)) # <<>>
<1> DEFINE S == {k \in DOMAIN its : its[k].title \notin TypeTitle}
           c == Panels!ControlItems(its)
           l == Cardinality(S)
<1>1. c = Panels!Picked(its, S)
  BY DEF Panels!ControlItems
<1>2. IsFiniteSet(S) /\ S \subseteq Nat
  <2>1. DOMAIN its = 1 .. n /\ n \in Nat /\ IsFiniteSet(DOMAIN its) /\ S \subseteq DOMAIN its
    BY LongDomain DEF Long
  <2> QED
    BY <2>1, FS_Subset
<1>3. S \subseteq DOMAIN its
  OBVIOUS
<1> HIDE DEF S, c, l
<1>4. Long(c, l) /\ \A k \in DOMAIN c : \E a \in S : c[k] = its[a]
  <2>1. PicksFrom(its, S, c)
    BY <1>1, <1>2, PickedOf
  <2> QED
    BY <2>1 DEF PicksFrom, l
<1>5. DOMAIN c = 1 .. l /\ l \in Nat /\ IsFiniteSet(DOMAIN c) /\ l # 0
  <2>1. S # {}
    BY <1>1, <1>2, PickedSome DEF c
  <2> QED
    BY <1>2, <1>4, <2>1, LongDomain, FS_EmptySet DEF Long, l
<1>6. \A v : Panels!Group(its, v) = Panels!Picked(c, {k \in DOMAIN c : c[k].verdict = v})
  BY DEF Panels!Group, c
<1>7. ASSUME NEW v, NEW k \in DOMAIN c, c[k].verdict = v PROVE Panels!Group(its, v) # <<>>
  <2> DEFINE T == {q \in DOMAIN c : c[q].verdict = v}
  <2>1. IsFiniteSet(T) /\ T \subseteq Nat /\ T # {}
    <3>1. T \subseteq DOMAIN c /\ k \in T
      BY <1>7
    <3> QED
      BY <1>5, <3>1, FS_Subset
  <2>2. Panels!Picked(c, T) # <<>>
    BY <2>1, PickedSome
  <2> QED
    BY <1>6, <2>2
<1>8. c[1].verdict \in {"unmet", "open", "met"}
  <2>1. PICK a \in S : c[1] = its[a]
    BY <1>4, <1>5
  <2>2. c[1].verdict = Panels!Verdict(its[a].level)
    BY <1>3, <2>1 DEF Judged
  <2>3. \A lv : Panels!Verdict(lv) \in {"unmet", "open", "met"}
    BY DEF Panels!Verdict
  <2> QED
    BY <2>2, <2>3
<1> DEFINE N == {k \in 1 .. 3 : Panels!Group(its, Panels!VERDICT_ORDER[k]) # <<>>}
<1>9. N # {}
  <2>1. 1 \in DOMAIN c
    BY <1>5
  <2>2. Panels!Group(its, c[1].verdict) # <<>>
    BY <1>7, <2>1
  <2>3. PICK k \in 1 .. 3 : Panels!VERDICT_ORDER[k] = c[1].verdict
    <3>1. /\ Panels!VERDICT_ORDER[1] = "unmet" /\ Panels!VERDICT_ORDER[2] = "open"
          /\ Panels!VERDICT_ORDER[3] = "met"
      BY DEF Panels!VERDICT_ORDER
    <3> QED
      BY <1>8, <3>1
  <2> QED
    BY <2>2, <2>3
<1>10. PICK k \in N : \A j \in N : k <= j
  <2>1. N \subseteq Nat
    OBVIOUS
  <2> HIDE DEF N
  <2> QED
    BY <1>9, <2>1, LeastNumber
<1> DEFINE good(j) == /\ Panels!Group(its, Panels!VERDICT_ORDER[j]) # <<>>
                      /\ \A m \in 1 .. j - 1 : Panels!Group(its, Panels!VERDICT_ORDER[m]) = <<>>
<1>11. \E j \in 1 .. 3 : good(j)
  <2>1. k \in 1 .. 3 /\ Panels!Group(its, Panels!VERDICT_ORDER[k]) # <<>>
    BY <1>10
  <2>2. ASSUME NEW m \in 1 .. k - 1 PROVE Panels!Group(its, Panels!VERDICT_ORDER[m]) = <<>>
    <3>1. m \in 1 .. 3 /\ ~(k <= m)
      BY <2>1
    <3> QED
      BY <1>10, <3>1
  <2> QED
    BY <2>1, <2>2
<1>12. Panels!FirstVerdict(its) =
         IF Panels!Group(its, controlVerdict) # <<>> THEN controlVerdict
         ELSE Panels!VERDICT_ORDER[CHOOSE j \in 1 .. 3 : good(j)]
  BY DEF Panels!FirstVerdict
<1>13. good(CHOOSE j \in 1 .. 3 : good(j))
  <2> HIDE DEF good
  <2> QED
    BY <1>11
<1> DEFINE o == CHOOSE j \in 1 .. 3 : good(j)
<1>14. Panels!Group(its, Panels!VERDICT_ORDER[o]) # <<>>
  BY <1>13
<1> HIDE DEF o
<1>15. Panels!FirstVerdict(its) = IF Panels!Group(its, controlVerdict) # <<>> THEN controlVerdict
                                  ELSE Panels!VERDICT_ORDER[o]
  BY <1>12 DEF o
<1> QED
  BY <1>14, <1>15

\* What buildControlPanel shows.
LEMMA ControlPanelOpens ==
  ASSUME NEW its, \E n : Long(its, n), Judged(its), Panels!BuildControlPanel(its),
         Panels!ControlItems(its) # <<>>
  PROVE  rows' # <<>>
<1>1. rows' = Panels!Group(its, Panels!FirstVerdict(its))
  BY DEF Panels!BuildControlPanel, Panels!RenderVerdictOf
<1>2. Panels!Group(its, Panels!FirstVerdict(its)) # <<>>
  BY OpensOnSome
<1> QED
  BY <1>1, <1>2

\* renderReviewViews and the chip of the control panel, whatever verdict was chosen
\* before: the control panel opens on rows if it has any.
THEOREM OpensOnRowsHolds ==
  Panels!Spec => Panels!OpensOnRows
<1> DEFINE A == (panel' = "control" /\ (panel # "control" \/ items' # items))
                   => (Panels!ControlItems(items') # <<>> => rows' # <<>>)
<1>1. PanelsInv /\ PanelsInv' /\ [Panels!Next]_Panels!vars => [A]_Panels!vars
  <2> SUFFICES ASSUME PanelsInv, PanelsInv', Panels!Next, panel' = "control",
                      panel # "control" \/ items' # items,
                      Panels!ControlItems(items') # <<>>
               PROVE  rows' # <<>>
    OBVIOUS
  <2>1. /\ \E n : Long(items', n)
        /\ Judged(items')
    BY DEF PanelsInv, Merged
  <2>2. ASSUME NEW fs, NEW as, Panels!RenderReviewViews(fs, as) PROVE rows' # <<>>
    <3>1. Panels!BuildControlPanel(items')
      BY <2>2 DEF Panels!RenderReviewViews
    <3> QED
      BY <2>1, <3>1, ControlPanelOpens
  <2>3. ASSUME NEW name, Panels!RenderPanel(name) PROVE rows' # <<>>
    <3>1. name = "control" /\ items' = items /\ Panels!BuildControlPanel(items)
      BY <2>3 DEF Panels!RenderPanel
    <3> QED
      BY <2>1, <3>1, ControlPanelOpens
  <2>4. ASSUME NEW v, Panels!RenderVerdict(v) PROVE FALSE
    BY <2>4 DEF Panels!RenderVerdict
  <2>5. ASSUME NEW n, Panels!ClickRow(n) PROVE FALSE
    BY <2>5 DEF Panels!ClickRow
  <2> QED
    BY <2>2, <2>3, <2>4, <2>5 DEF Panels!Next
<1> QED
  BY <1>1, PanelsHold, PTL DEF Panels!Spec, Panels!OpensOnRows
=============================================================================
