---------------------------- MODULE ReviewStore ----------------------------
(***************************************************************************)
(* The authoritative result of one review run (contract_review/store.py:   *)
(* JsonAuditStore; services/review_result_store.py; the decision, finalize *)
(* and revision-set endpoints of api/review_routes.py; record_review_      *)
(* decision and finalize_review of contract_review/pipeline.py).           *)
(* Requests of several API processes load the newest revision, compute a   *)
(* new result and append it, if the newest revision is still the one they  *)
(* loaded.  A revision is a directory named after a time; the newest name  *)
(* is the current result.  A process may stop between any two steps.       *)
(***************************************************************************)
EXTENDS Naturals, FiniteSets

CONSTANTS
  Request,     \* requests, of any process
  Finding,     \* findings that need a decision
  NoOne,       \* no request
  MaxClock     \* bound: times the clocks of the processes show

StoreAssumption == NoOne \notin Request /\ MaxClock \in Nat

VARIABLES
  revisions,  \* the revisions directory: the result under each time
  lock,       \* holder of .append.lock: thread lock and file lock
  pc,         \* where each request is
  seen,       \* what it loaded: expected_result_fingerprint
  made        \* the result it wants to append

vars == <<revisions, lock, pc, seen, made>>

\* A result: who decided a finding, whether with DEFER, who finalised the run,
\* who attached a revision set.  Two results differ as their fingerprints do.
Result == [decided: [Finding -> Request \cup {NoOne}], deferred: SUBSET Finding,
           final: Request \cup {NoOne}, attached: SUBSET Request]

Fresh == [decided |-> [f \in Finding |-> NoOne], deferred |-> {},
          final |-> NoOne, attached |-> {}]

Latest(S) == CHOOSE n \in S : \A m \in S : m <= n

\* _latest_artifact_source: the newest revision, or the base artifact.
Current == IF DOMAIN revisions = {} THEN Fresh ELSE revisions[Latest(DOMAIN revisions)]

Human(result) == result.final = NoOne

\* record_review_decision
Decide(result, r, f, defer) ==
  [result EXCEPT !.decided[f] = r,
                 !.deferred = IF defer THEN @ \cup {f} ELSE @]

\* Mutant: the time of the process's clock.
RevisionTimeClock(now) == now

\* max(time.time_ns(), newest + 1): the clock may stand still or go back.
RevisionTime(now) ==
  IF DOMAIN revisions = {} \/ now > Latest(DOMAIN revisions) THEN now
  ELSE Latest(DOMAIN revisions) + 1

-----------------------------------------------------------------------------

\* load_for_action: the client's version must be the current one.
Load(r) ==
  /\ pc[r] = "idle"
  /\ pc' = [pc EXCEPT ![r] = "loaded"]
  /\ seen' = [seen EXCEPT ![r] = Current]
  /\ UNCHANGED <<revisions, lock, made>>

\* 409: the client's version is an older one.
LoadRefused(r) ==
  /\ pc[r] = "idle" /\ Current # Fresh
  /\ pc' = [pc EXCEPT ![r] = "conflict"]
  /\ UNCHANGED <<revisions, lock, seen, made>>

\* The endpoints, on what they loaded: POST decision,
MakeDecision(r, f, defer) ==
  /\ pc[r] = "loaded" /\ Human(seen[r]) /\ seen[r].decided[f] = NoOne
  /\ made' = [made EXCEPT ![r] = Decide(seen[r], r, f, defer)]
  /\ pc' = [pc EXCEPT ![r] = "append"]
  /\ UNCHANGED <<revisions, lock, seen>>

\* POST finalize, with a decision on every finding and none deferred,
MakeFinal(r) ==
  /\ pc[r] = "loaded" /\ Human(seen[r])
  /\ \A f \in Finding : seen[r].decided[f] # NoOne
  /\ seen[r].deferred = {}
  /\ made' = [made EXCEPT ![r] = [seen[r] EXCEPT !.final = r]]
  /\ pc' = [pc EXCEPT ![r] = "append"]
  /\ UNCHANGED <<revisions, lock, seen>>

\* POST revision-set, which has no condition on the state of the run.
MakeAttachment(r) ==
  /\ pc[r] = "loaded"
  /\ made' = [made EXCEPT ![r] = [seen[r] EXCEPT !.attached = @ \cup {r}]]
  /\ pc' = [pc EXCEPT ![r] = "append"]
  /\ UNCHANGED <<revisions, lock, seen>>

\* Mutant: the comparison comes before the lock.
AppendLockLate(r) ==
  pc[r] = "append" /\ Current = seen[r] /\ pc' = [pc EXCEPT ![r] = "write"] /\ UNCHANGED lock

\* append_revision takes the lock of the run,
AppendLock(r) ==
  /\ pc[r] = "append" /\ lock = NoOne
  /\ lock' = r /\ pc' = [pc EXCEPT ![r] = "compare"]

TakeLock(r) == AppendLock(r) /\ UNCHANGED <<revisions, seen, made>>

\* compares under it: AuditStoreConflictError, 409, or on to the write,
Compare(r) ==
  /\ pc[r] = "compare"
  /\ IF Current = seen[r]
       THEN pc' = [pc EXCEPT ![r] = "write"] /\ UNCHANGED lock
       ELSE pc' = [pc EXCEPT ![r] = "conflict"] /\ lock' = NoOne
  /\ UNCHANGED <<revisions, seen, made>>

\* and commits a finished directory with one rename.
Commit(r, now) ==
  /\ pc[r] = "write"
  /\ LET at == RevisionTime(now) IN
     revisions' = [t \in DOMAIN revisions \cup {at} |->
                     IF t = at THEN made[r] ELSE revisions[t]]
  /\ lock' = NoOne /\ pc' = [pc EXCEPT ![r] = "done"]
  /\ UNCHANGED <<seen, made>>

\* The commit fails, or the process stops: a temporary directory is left, which
\* nobody reads, and the operating system lets go of the lock.
Stop(r) ==
  /\ pc[r] \in {"loaded", "append", "compare", "write"}
  /\ pc' = [pc EXCEPT ![r] = "stopped"]
  /\ lock' = IF lock = r THEN NoOne ELSE lock
  /\ UNCHANGED <<revisions, seen, made>>

-----------------------------------------------------------------------------

Init ==
  /\ revisions = [t \in {} |-> Fresh] /\ lock = NoOne
  /\ pc = [r \in Request |-> "idle"]
  /\ seen = [r \in Request |-> Fresh] /\ made = [r \in Request |-> Fresh]

Next == \E r \in Request :
  \/ Load(r) \/ LoadRefused(r) \/ TakeLock(r) \/ Compare(r) \/ Stop(r)
  \/ \E f \in Finding, defer \in BOOLEAN : MakeDecision(r, f, defer)
  \/ MakeFinal(r) \/ MakeAttachment(r)
  \/ \E now \in 1 .. MaxClock : Commit(r, now)

Spec == Init /\ [][Next]_vars

-----------------------------------------------------------------------------
(* Properties *)

\* The action of a request is part of a result.
Holds(result, r) ==
  \/ r \in result.attached \/ result.final = r
  \/ \E f \in Finding : result.decided[f] = r

\* An action the server has confirmed is part of the current result for ever,
\* whatever other reviewers append meanwhile, however the clocks stand and
\* wherever a process stops; one it refused never is.
ConfirmedIsKept ==
  \A r \in Request : pc[r] \in {"done", "conflict", "stopped"} =>
    (Holds(Current, r) <=> pc[r] = "done")

\* ADR-004: nothing gets round HUMAN_REVIEW.  From the finalised result on, the
\* decisions are what they were, complete and none deferred.
FinalIsFrozen ==
  /\ ~Human(Current) => Current.deferred = {} /\ \A f \in Finding : Current.decided[f] # NoOne
  /\ \A t, u \in DOMAIN revisions :
       t <= u /\ ~Human(revisions[t]) =>
         revisions[u].final = revisions[t].final /\ revisions[u].decided = revisions[t].decided
=============================================================================
