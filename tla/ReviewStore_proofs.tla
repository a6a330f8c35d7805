------------------------ MODULE ReviewStore_proofs ------------------------
(***************************************************************************)
(* Theorems about ReviewStore: for any number of requests, findings and     *)
(* clock readings, the revisions of a review run lose no confirmed action,  *)
(* take in no refused one, and a final result is not reviewed again.        *)
(***************************************************************************)
EXTENDS ReviewStore, TLAPS

Pc == {"idle", "loaded", "append", "compare", "write", "done", "conflict", "stopped"}

\* The types, as far as they are used; the newest revision exists.
StoreTypeOK ==
  /\ DOMAIN revisions \subseteq Nat
  /\ DOMAIN revisions # {} =>
       \E n \in DOMAIN revisions : \A m \in DOMAIN revisions : m <= n
  /\ \A t \in DOMAIN revisions : revisions[t] \in Result
  /\ lock \in Request \cup {NoOne} /\ pc \in [Request -> Pc]
  /\ seen \in [Request -> Result] /\ made \in [Request -> Result]

\* A final result has a decision on every finding, and none deferred.
Complete(result) ==
  ~Human(result) => result.deferred = {} /\ \A f \in Finding : result.decided[f] # NoOne

\* What the action of r makes of a result: it is added, the actions of others are
\* as they were, and a final result keeps its decisions.
Follows(result, old, r) ==
  /\ Holds(result, r)
  /\ \A q \in Request \ {r} : Holds(result, q) <=> Holds(old, q)
  /\ ~Human(old) => result.final = old.final /\ result.decided = old.decided
  /\ Complete(old) => Complete(result)

\* The lock of the run is held from the comparison to the commit, so that what was
\* compared is still the newest revision when the next one is added.
ComparedIsCurrent ==
  \A r \in Request :
    /\ pc[r] \in {"compare", "write"} => lock = r
    /\ pc[r] = "write" => Current = seen[r]

\* What a request appends follows from what it loaded.
MadeFollows ==
  \A r \in Request : /\ Complete(seen[r])
                     /\ pc[r] \in {"append", "compare", "write"} =>
                          Follows(made[r], seen[r], r)

\* The current result holds the actions of the requests that are done, and no other.
HoldsTheDone == \A r \in Request : Holds(Current, r) <=> pc[r] = "done"

StoreInv ==
  StoreTypeOK /\ ComparedIsCurrent /\ MadeFollows /\ HoldsTheDone /\ FinalIsFrozen

-----------------------------------------------------------------------------
(* Results *)

LEMMA FreshResult ==
  ASSUME StoreAssumption
  PROVE  /\ Fresh \in Result /\ Complete(Fresh) /\ Human(Fresh)
         /\ \A r \in Request : ~Holds(Fresh, r)
  <1>1. Fresh \in Result
    BY DEF Fresh, Result
  <1>2. Human(Fresh)
    BY DEF Human, Fresh
  <1>3. \A r \in Request : ~Holds(Fresh, r)
    BY DEF StoreAssumption, Holds, Fresh
  <1>4. QED  BY <1>1, <1>2, <1>3 DEF Complete

\* POST decision
LEMMA DecisionFollows ==
  ASSUME StoreAssumption, NEW old \in Result, NEW r \in Request, NEW f \in Finding,
         NEW defer \in BOOLEAN, Human(old), old.decided[f] = NoOne
  PROVE  /\ Decide(old, r, f, defer) \in Result
         /\ Follows(Decide(old, r, f, defer), old, r)
  <1> DEFINE new == Decide(old, r, f, defer)
  <1>1. /\ old.decided \in [Finding -> Request \cup {NoOne}] /\ old.deferred \in SUBSET Finding
        /\ old.final = NoOne /\ old.attached \in SUBSET Request
    BY DEF Result, Human
  <1>2. /\ new.decided = [old.decided EXCEPT ![f] = r] /\ new.final = old.final
        /\ new.attached = old.attached
    BY DEF Decide, Result
  <1>3. new \in Result
    BY <1>1 DEF Decide, Result
  <1> HIDE DEF new
  <1>4. Holds(new, r)
    BY <1>1, <1>2 DEF Holds
  <1>5. ASSUME NEW q \in Request \ {r}
        PROVE  Holds(new, q) <=> Holds(old, q)
    <2>1. \A g \in Finding : new.decided[g] = q <=> old.decided[g] = q
      BY <1>1, <1>2 DEF StoreAssumption
    <2>2. QED  BY <1>2, <2>1 DEF Holds
  <1>6. Human(new) /\ Human(old)
    BY <1>1, <1>2 DEF Human
  <1>7. QED  BY <1>3, <1>4, <1>5, <1>6 DEF Follows, Complete, new

\* POST finalize
LEMMA FinalFollows ==
  ASSUME StoreAssumption, NEW old \in Result, NEW r \in Request, Human(old),
         \A f \in Finding : old.decided[f] # NoOne, old.deferred = {}
  PROVE  /\ [old EXCEPT !.final = r] \in Result
         /\ Follows([old EXCEPT !.final = r], old, r)
  <1> DEFINE new == [old EXCEPT !.final = r]
  <1>1. /\ new.final = r /\ new.decided = old.decided /\ new.deferred = old.deferred
        /\ new.attached = old.attached /\ old.final = NoOne
    BY DEF Result, Human
  <1>2. new \in Result
    BY DEF Result
  <1> HIDE DEF new
  <1>3. QED  BY <1>1, <1>2 DEF Follows, Holds, Complete, Human, StoreAssumption, new

\* POST revision-set
LEMMA AttachmentFollows ==
  ASSUME NEW old \in Result, NEW r \in Request
  PROVE  /\ [old EXCEPT !.attached = old.attached \cup {r}] \in Result
         /\ Follows([old EXCEPT !.attached = old.attached \cup {r}], old, r)
  <1> DEFINE new == [old EXCEPT !.attached = old.attached \cup {r}]
  <1>1. /\ new.attached = old.attached \cup {r} /\ new.decided = old.decided
        /\ new.deferred = old.deferred /\ new.final = old.final
    BY DEF Result
  <1>2. new \in Result
    BY DEF Result
  <1> HIDE DEF new
  <1>3. QED  BY <1>1, <1>2 DEF Follows, Holds, Complete, Human, new

-----------------------------------------------------------------------------
(* Revisions *)

\* The newest revision is where Latest looks.
LEMMA LatestIs ==
  ASSUME NEW S, S \subseteq Nat, NEW n \in S, \A m \in S : m <= n
  PROVE  Latest(S) = n
  <1>1. \A k \in S : (\A m \in S : m <= k) => k = n
    <2> SUFFICES ASSUME NEW k \in S, \A m \in S : m <= k  PROVE k = n
      OBVIOUS
    <2>1. k <= n /\ n <= k /\ k \in Nat /\ n \in Nat
      OBVIOUS
    <2>2. QED  BY <2>1
  <1>2. QED  BY <1>1 DEF Latest

LEMMA CurrentTyped ==
  ASSUME StoreAssumption, StoreTypeOK
  PROVE  Current \in Result
  <1>1. CASE DOMAIN revisions = {}
    BY <1>1, FreshResult DEF Current
  <1>2. CASE DOMAIN revisions # {}
    <2>1. PICK n \in DOMAIN revisions : \A m \in DOMAIN revisions : m <= n
      BY <1>2 DEF StoreTypeOK
    <2>2. Latest(DOMAIN revisions) = n
      BY <2>1, LatestIs DEF StoreTypeOK
    <2>3. QED  BY <1>2, <2>2 DEF Current, StoreTypeOK
  <1>3. QED  BY <1>1, <1>2

\* A commit adds a revision that is newer than all others, whatever the clock says.
LEMMA CommitAppends ==
  ASSUME StoreAssumption, StoreTypeOK, NEW r \in Request, NEW now \in 1 .. MaxClock,
         Commit(r, now)
  PROVE  \E at \in Nat :
           /\ \A t \in DOMAIN revisions : t < at
           /\ DOMAIN revisions' = DOMAIN revisions \cup {at}
           /\ revisions'[at] = made[r]
           /\ \A t \in DOMAIN revisions : revisions'[t] = revisions[t]
           /\ Current' = made[r]
  <1> DEFINE at == RevisionTime(now)
  <1>1. at \in Nat /\ \A t \in DOMAIN revisions : t < at
    <2>1. CASE DOMAIN revisions = {}
      BY <2>1 DEF RevisionTime
    <2>2. CASE DOMAIN revisions # {}
      <3>1. PICK n \in DOMAIN revisions : \A m \in DOMAIN revisions : m <= n
        BY <2>2 DEF StoreTypeOK
      <3>2. Latest(DOMAIN revisions) = n /\ n \in Nat
        BY <3>1, LatestIs DEF StoreTypeOK
      <3>3. at \in Nat /\ n < at
        BY <2>2, <3>2 DEF RevisionTime
      <3>4. \A t \in DOMAIN revisions : t \in Nat /\ t <= n
        BY <3>1 DEF StoreTypeOK
      <3>5. QED  BY <3>2, <3>3, <3>4
    <2>3. QED  BY <2>1, <2>2
  <1>2. revisions' = [t \in DOMAIN revisions \cup {at} |->
                        IF t = at THEN made[r] ELSE revisions[t]]
    BY DEF Commit
  <1> HIDE DEF at
  <1>3. /\ DOMAIN revisions' = DOMAIN revisions \cup {at} /\ revisions'[at] = made[r]
        /\ \A t \in DOMAIN revisions : revisions'[t] = revisions[t]
    <2>1. \A t \in DOMAIN revisions : t # at
      BY <1>1 DEF StoreTypeOK
    <2>2. QED  BY <1>2, <2>1
  <1>4. Latest(DOMAIN revisions') = at
    <2>1. \A t \in DOMAIN revisions' : t <= at /\ t \in Nat
      BY <1>1, <1>3 DEF StoreTypeOK
    <2>2. QED  BY <1>3, <2>1, LatestIs
  <1>5. Current' = made[r]
    BY <1>3, <1>4 DEF Current
  <1>6. QED  BY <1>1, <1>3, <1>5

-----------------------------------------------------------------------------
(* Every step keeps the invariant *)

\* A step that appends nothing.
LEMMA NoCommit ==
  ASSUME StoreAssumption, StoreInv, NEW r \in Request, UNCHANGED revisions,
         \A q \in Request \ {r} : /\ pc'[q] = pc[q] /\ seen'[q] = seen[q]
                                  /\ made'[q] = made[q]
                                  /\ lock = q => lock' = q,
         pc' \in [Request -> Pc], lock' \in Request \cup {NoOne},
         seen' \in [Request -> Result], made' \in [Request -> Result],
         pc[r] = "done" <=> pc'[r] = "done",
         Complete(seen'[r]),
         pc'[r] \in {"compare", "write"} => lock' = r,
         pc'[r] = "write" => Current = seen'[r],
         pc'[r] \in {"append", "compare", "write"} => Follows(made'[r], seen'[r], r)
  PROVE  StoreInv'
  <1> USE DEF StoreInv
  <1>1. Current' = Current
    BY DEF Current
  <1>2. StoreTypeOK'
    BY DEF StoreTypeOK
  <1>3. ComparedIsCurrent'
    BY <1>1 DEF ComparedIsCurrent
  <1>4. MadeFollows'
    BY DEF MadeFollows
  <1>5. HoldsTheDone'
    BY <1>1 DEF HoldsTheDone
  <1>6. FinalIsFrozen'
    BY <1>1 DEF FinalIsFrozen
  <1>7. QED  BY <1>2, <1>3, <1>4, <1>5, <1>6

LEMMA CurrentComplete ==
  ASSUME StoreInv
  PROVE  Complete(Current)
  BY DEF StoreInv, FinalIsFrozen, Complete

LEMMA OthersStep ==
  ASSUME StoreAssumption, StoreInv, NEW r \in Request,
         \/ Load(r) \/ LoadRefused(r) \/ TakeLock(r) \/ Compare(r) \/ Stop(r)
         \/ \E f \in Finding, defer \in BOOLEAN : MakeDecision(r, f, defer)
         \/ MakeFinal(r) \/ MakeAttachment(r)
  PROVE  StoreInv'
  <1> USE DEF StoreInv
  <1>0. /\ pc \in [Request -> Pc] /\ lock \in Request \cup {NoOne}
        /\ seen \in [Request -> Result] /\ made \in [Request -> Result]
        /\ Complete(seen[r]) /\ NoOne \notin Request
    BY DEF StoreTypeOK, MadeFollows, StoreAssumption
  <1>1. CASE Load(r)
    <2>1. /\ pc[r] = "idle" /\ pc' = [pc EXCEPT ![r] = "loaded"]
          /\ seen' = [seen EXCEPT ![r] = Current] /\ UNCHANGED <<revisions, lock, made>>
      BY <1>1 DEF Load
    <2>2. Current \in Result /\ Complete(Current)
      BY CurrentTyped, CurrentComplete
    <2>3. pc' \in [Request -> Pc] /\ seen' \in [Request -> Result]
      BY <1>0, <2>1, <2>2 DEF Pc
    <2>4. QED  BY <1>0, <2>1, <2>2, <2>3, NoCommit
  <1>2. CASE LoadRefused(r)
    <2>1. /\ pc[r] = "idle" /\ pc' = [pc EXCEPT ![r] = "conflict"]
          /\ UNCHANGED <<revisions, lock, seen, made>>
      BY <1>2 DEF LoadRefused
    <2>2. pc' \in [Request -> Pc]
      BY <1>0, <2>1 DEF Pc
    <2>3. QED  BY <1>0, <2>1, <2>2, NoCommit
  <1>3. CASE TakeLock(r)
    <2>1. /\ pc[r] = "append" /\ pc' = [pc EXCEPT ![r] = "compare"] /\ lock = NoOne
          /\ lock' = r /\ UNCHANGED <<revisions, seen, made>>
      BY <1>3 DEF TakeLock, AppendLock
    <2>2. pc' \in [Request -> Pc]
      BY <1>0, <2>1 DEF Pc
    <2>3. Follows(made[r], seen[r], r)
      BY <2>1 DEF MadeFollows
    <2>4. QED  BY <1>0, <2>1, <2>2, <2>3, NoCommit
  <1>4. CASE Compare(r)
    <2>1. /\ pc[r] = "compare" /\ lock = r /\ UNCHANGED <<revisions, seen, made>>
          /\ Follows(made[r], seen[r], r)
      BY <1>4 DEF Compare, ComparedIsCurrent, MadeFollows
    <2>2. \/ Current = seen[r] /\ pc' = [pc EXCEPT ![r] = "write"] /\ lock' = r
          \/ pc' = [pc EXCEPT ![r] = "conflict"] /\ lock' = NoOne
      BY <1>4, <2>1 DEF Compare
    <2>3. pc' \in [Request -> Pc]
      BY <1>0, <2>2 DEF Pc
    <2>4. QED  BY <1>0, <2>1, <2>2, <2>3, NoCommit
  <1>5. CASE Stop(r)
    <2>1. /\ pc[r] # "done" /\ pc' = [pc EXCEPT ![r] = "stopped"]
          /\ lock' = (IF lock = r THEN NoOne ELSE lock) /\ UNCHANGED <<revisions, seen, made>>
      BY <1>5 DEF Stop
    <2>2. pc' \in [Request -> Pc] /\ lock' \in Request \cup {NoOne}
      BY <1>0, <2>1 DEF Pc
    <2>3. QED  BY <1>0, <2>1, <2>2, NoCommit
  <1>6. ASSUME pc[r] = "loaded", pc' = [pc EXCEPT ![r] = "append"],
               UNCHANGED <<revisions, lock, seen>>,
               NEW new \in Result, made' = [made EXCEPT ![r] = new],
               Follows(new, seen[r], r)
        PROVE  StoreInv'
    <2>1. pc' \in [Request -> Pc] /\ made' \in [Request -> Result]
      BY <1>0, <1>6 DEF Pc
    <2>2. QED  BY <1>0, <1>6, <2>1, NoCommit
  <1>7. ASSUME NEW f \in Finding, NEW defer \in BOOLEAN, MakeDecision(r, f, defer)
        PROVE  StoreInv'
    <2>1. /\ Decide(seen[r], r, f, defer) \in Result
          /\ Follows(Decide(seen[r], r, f, defer), seen[r], r)
      BY <1>0, <1>7, DecisionFollows DEF MakeDecision
    <2>2. QED  BY <1>6, <1>7, <2>1 DEF MakeDecision
  <1>8. CASE MakeFinal(r)
    <2>1. /\ [seen[r] EXCEPT !.final = r] \in Result
          /\ Follows([seen[r] EXCEPT !.final = r], seen[r], r)
      BY <1>0, <1>8, FinalFollows DEF MakeFinal
    <2>2. QED  BY <1>6, <1>8, <2>1 DEF MakeFinal
  <1>9. CASE MakeAttachment(r)
    <2>1. /\ [seen[r] EXCEPT !.attached = seen[r].attached \cup {r}] \in Result
          /\ Follows([seen[r] EXCEPT !.attached = seen[r].attached \cup {r}], seen[r], r)
      BY <1>0, AttachmentFollows
    <2>2. QED  BY <1>6, <1>9, <2>1 DEF MakeAttachment
  <1>10. QED
    BY <1>1, <1>2, <1>3, <1>4, <1>5, <1>7, <1>8, <1>9

\* The commit itself: what was compared is the newest revision, and no other
\* request is between its comparison and its commit.
LEMMA CommitStep ==
  ASSUME StoreAssumption, StoreInv, NEW r \in Request, NEW now \in 1 .. MaxClock,
         Commit(r, now)
  PROVE  StoreInv'
  <1> USE DEF StoreInv
  <1>1. /\ pc[r] = "write" /\ pc' = [pc EXCEPT ![r] = "done"] /\ lock' = NoOne
        /\ UNCHANGED <<seen, made>> /\ lock = r /\ Current = seen[r]
        /\ Follows(made[r], Current, r)
    BY DEF Commit, ComparedIsCurrent, MadeFollows
  <1>2. PICK at \in Nat :
          /\ \A t \in DOMAIN revisions : t < at
          /\ DOMAIN revisions' = DOMAIN revisions \cup {at}
          /\ revisions'[at] = made[r]
          /\ \A t \in DOMAIN revisions : revisions'[t] = revisions[t]
          /\ Current' = made[r]
    BY CommitAppends
  <1>3. /\ pc'[r] = "done" /\ \A q \in Request \ {r} : pc'[q] = pc[q]
        /\ pc' \in [Request -> Pc] /\ made[r] \in Result
    BY <1>1 DEF StoreTypeOK, Pc
  <1>4. \A q \in Request : pc'[q] \notin {"compare", "write"}
    BY <1>1, <1>3 DEF ComparedIsCurrent
  <1>5. StoreTypeOK'
    <2>1. DOMAIN revisions' \subseteq Nat /\ \A t \in DOMAIN revisions' : t <= at
      BY <1>2 DEF StoreTypeOK
    <2>2. \A t \in DOMAIN revisions' : revisions'[t] \in Result
      BY <1>2, <1>3 DEF StoreTypeOK
    <2>3. at \in DOMAIN revisions'
      BY <1>2
    <2>4. QED  BY <1>1, <1>3, <2>1, <2>2, <2>3 DEF StoreTypeOK
  <1>6. ComparedIsCurrent'
    BY <1>4 DEF ComparedIsCurrent
  <1>7. MadeFollows'
    BY <1>1, <1>3 DEF MadeFollows
  <1>8. HoldsTheDone'
    BY <1>1, <1>2, <1>3 DEF HoldsTheDone, Follows
  <1>9. FinalIsFrozen'
    <2>1. Complete(Current')
      BY <1>1, <1>2, CurrentComplete DEF Follows
    <2>2. ASSUME NEW t \in DOMAIN revisions', NEW u \in DOMAIN revisions',
                 t <= u, ~Human(revisions'[t])
          PROVE  /\ revisions'[u].final = revisions'[t].final
                 /\ revisions'[u].decided = revisions'[t].decided
      <3>1. CASE u # at
        <4>1. u \in DOMAIN revisions /\ u < at /\ u \in Nat /\ t \in Nat
          BY <1>2, <3>1 DEF StoreTypeOK
        <4>2. t # at
          BY <2>2, <4>1
        <4>3. t \in DOMAIN revisions
          BY <1>2, <4>2
        <4>4. QED  BY <1>2, <2>2, <4>1, <4>3 DEF FinalIsFrozen
      <3>2. CASE u = at /\ t = at
        BY <3>2
      <3>3. CASE u = at /\ t # at
        <4>1. t \in DOMAIN revisions
          BY <1>2, <3>3
        <4>2. PICK n \in DOMAIN revisions : \A m \in DOMAIN revisions : m <= n
          BY <4>1 DEF StoreTypeOK
        <4>3. Current = revisions[n]
          <5>1. Latest(DOMAIN revisions) = n
            BY <4>2, LatestIs DEF StoreTypeOK
          <5>2. QED  BY <4>1, <5>1 DEF Current
        <4>4. /\ Current.final = revisions[t].final
              /\ Current.decided = revisions[t].decided
          BY <1>2, <2>2, <4>1, <4>2, <4>3 DEF FinalIsFrozen
        <4>5. ~Human(Current)
          BY <1>2, <2>2, <4>1, <4>4 DEF Human
        <4>6. made[r].final = Current.final /\ made[r].decided = Current.decided
          BY <1>1, <4>5 DEF Follows
        <4>7. QED  BY <1>2, <3>3, <4>1, <4>4, <4>6
      <3>4. QED  BY <3>1, <3>2, <3>3
    <2>3. QED  BY <2>1, <2>2 DEF FinalIsFrozen, Complete
  <1>10. QED  BY <1>5, <1>6, <1>7, <1>8, <1>9

\* The invariant, for every step.
LEMMA StoreInvariant ==
  ASSUME StoreAssumption
  PROVE  Spec => []StoreInv
  <1>1. Init => StoreInv
    <2> SUFFICES ASSUME Init  PROVE StoreInv
      OBVIOUS
    <2>1. DOMAIN revisions = {} /\ Current = Fresh
      BY DEF Init, Current
    <2>2. StoreTypeOK
      BY <2>1, FreshResult DEF Init, StoreTypeOK, Pc
    <2>3. ComparedIsCurrent
      BY DEF Init, ComparedIsCurrent
    <2>4. MadeFollows /\ HoldsTheDone
      BY <2>1, FreshResult DEF Init, MadeFollows, HoldsTheDone
    <2>5. FinalIsFrozen
      BY <2>1, FreshResult DEF FinalIsFrozen
    <2>6. QED  BY <2>2, <2>3, <2>4, <2>5 DEF StoreInv
  <1>2. StoreInv /\ [Next]_vars => StoreInv'
    <2> SUFFICES ASSUME StoreInv, [Next]_vars  PROVE StoreInv'
      OBVIOUS
    <2>1. CASE UNCHANGED vars
      BY <2>1 DEF vars, StoreInv, StoreTypeOK, ComparedIsCurrent, MadeFollows, HoldsTheDone,
                  FinalIsFrozen, Current
    <2>2. QED  BY <2>1, OthersStep, CommitStep DEF Next
  <1>3. QED  BY <1>1, <1>2, PTL DEF Spec

-----------------------------------------------------------------------------

\* append_revision, for any number of reviewers and processes: an action the server
\* confirmed is in every later result, one it refused or that stopped half-way in
\* none, however clocks stand and wherever a process stops.
THEOREM ConfirmedIsKeptHolds ==
  ASSUME StoreAssumption
  PROVE  Spec => []ConfirmedIsKept
  <1>1. StoreInv => ConfirmedIsKept
    BY DEF StoreInv, HoldsTheDone, ConfirmedIsKept
  <1>2. QED  BY <1>1, StoreInvariant, PTL

\* ADR-004, for any number of findings: nothing gets round HUMAN_REVIEW.
THEOREM FinalIsFrozenHolds ==
  ASSUME StoreAssumption
  PROVE  Spec => []FinalIsFrozen
  <1>1. StoreInv => FinalIsFrozen
    BY DEF StoreInv
  <1>2. QED  BY <1>1, StoreInvariant, PTL
=============================================================================
