---------------------------- MODULE RuleOverlay ----------------------------
(***************************************************************************)
(* The overlay file and the threads that edit it: the threads of the API   *)
(* process and, when tasks run asynchronously, those of the Celery worker, *)
(* which adds candidates after a review.  An edit holds _WRITE_LOCK, which *)
(* is a lock of one process, from its load to its write.  A write opens    *)
(* one temporary file, whose name all processes share, fills and renames   *)
(* it: another process may rename it meanwhile, and what is written after  *)
(* that goes into the overlay file itself.                                 *)
(***************************************************************************)
EXTENDS RuleEdits

CONSTANTS
  ApiThread,     \* threads of the API process
  WorkerThread,  \* threads of a worker process
  NoThread,
  Cut,           \* content of a file: nothing yet, or the beginning of one text
  Torn,          \* content of a file: pieces of two texts
  MaxEdits       \* bound: edits

ThreadAssumption ==
  /\ ApiThread \cap WorkerThread = {} /\ NoThread \notin ApiThread \cup WorkerThread
  /\ MaxEdits \in Nat
ContentAssumption == {Cut, Torn} \cap Overlay = {}

VARIABLES
  file,    \* content of custom_rules.json
  tmp,     \* {content of the temporary file}, {} when there is none
  lock,    \* holder of _WRITE_LOCK in each process
  pc,      \* threads: control; in "tmp", "file" and "lost" it writes into a file
           \* that has the temporary name, the final one or none any more
  edit, snap,  \* threads: edit in hand, overlay loaded
  ideal,   \* the overlay if the edits that returned had run one by one
  edits

vars == <<file, tmp, lock, pc, edit, snap, ideal, edits>>

Thread  == ApiThread \cup WorkerThread
Process == {"api", "worker"}
ProcessOf(t) == IF t \in ApiThread THEN "api" ELSE "worker"

NoEdit == [kind |-> "enable", id |-> CHOOSE i \in BaseId : TRUE,
           rule |-> BaseRule]

\* Edits of a thread: the routes of the API, and add_ai_candidates in both.
Offered(t) ==
  {e \in Edit : /\ t \in WorkerThread => e.kind = "propose"
                /\ e.rule = BaseRule}

\* Mutant: the edit does not wait for the lock.
CanEnterUnlocked(t) == TRUE

\* with _WRITE_LOCK
CanEnter(t) == lock[ProcessOf(t)] = NoThread

\* load_overlay raises on a file that json.loads refuses.
Broken == {Cut, Torn}

\* The lock is taken and the overlay loaded.
Load(t, e) ==
  /\ pc[t] = "idle" /\ edits < MaxEdits
  /\ CanEnter(t)
  /\ file \notin Broken /\ Accepts(file, e)
  /\ lock' = [lock EXCEPT ![ProcessOf(t)] = t]
  /\ snap' = [snap EXCEPT ![t] = file]
  /\ edit' = [edit EXCEPT ![t] = e]
  /\ pc' = [pc EXCEPT ![t] = "write"]
  /\ edits' = edits + 1
  /\ UNCHANGED <<file, tmp, ideal>>

\* _write_overlay: write_text opens the temporary file, which empties it, ...
OpenTmp(t) ==
  /\ pc[t] = "write"
  /\ tmp' = {Cut}
  /\ pc' = [pc EXCEPT ![t] = "tmp"]
  /\ UNCHANGED <<file, lock, edit, snap, ideal, edits>>

\* The file t writes into: its contents, none when it has no name any more.
Content(t) == CASE pc[t] = "tmp" -> tmp [] pc[t] = "file" -> {file} [] OTHER -> {}

\* It holds c from now on.
Put(t, c) ==
  /\ tmp' = IF pc[t] = "tmp" THEN {c} ELSE tmp
  /\ file' = IF pc[t] = "file" THEN c ELSE file
  /\ UNCHANGED <<lock, edit, snap, ideal, edits>>

\* Nobody else has written into it since t emptied it, or has it open.
Alone(t) == Content(t) = {Cut} /\ \A u \in Thread \ {t} : pc[u] # pc[t]

\* ... writes a part over what another process has written ...
WritePart(t) ==
  /\ pc[t] \in {"tmp", "file"} /\ Content(t) # {Cut}
  /\ Put(t, Torn)
  /\ UNCHANGED pc

\* ... and the rest, and closes it.  Where another process writes too, one text may
\* outlast the other or start behind a gap.
WriteText(t) ==
  /\ pc[t] \in {"tmp", "file", "lost"}
  /\ \E c \in {Apply(snap[t], edit[t])} \cup (IF Alone(t) THEN {} ELSE {Torn}) : Put(t, c)
  /\ pc' = [pc EXCEPT ![t] = "replace"]

Leave(t) ==
  /\ edit' = [edit EXCEPT ![t] = NoEdit]
  /\ snap' = [snap EXCEPT ![t] = EmptyOverlay]
  /\ lock' = [lock EXCEPT ![ProcessOf(t)] = NoThread]
  /\ UNCHANGED edits

\* os.replace: a file that other threads are writing into has its new name.
Renamed(t) ==
  [u \in Thread |-> CASE u = t -> "idle"
                      [] u # t /\ pc[u] = "tmp"  -> "file"
                      [] u # t /\ pc[u] = "file" -> "lost"
                      [] OTHER -> pc[u]]

\* The temporary file, whoever filled it, is the overlay; the edit returns.
Replace(t) ==
  /\ pc[t] = "replace" /\ tmp # {}
  /\ file' \in tmp /\ tmp' = {} /\ pc' = Renamed(t)
  /\ ideal' = IF Accepts(ideal, edit[t]) THEN Apply(ideal, edit[t]) ELSE ideal
  /\ Leave(t)

\* Another process has renamed the temporary file: the edit raises.
ReplaceFails(t) ==
  /\ pc[t] = "replace" /\ tmp = {}
  /\ pc' = [pc EXCEPT ![t] = "idle"]
  /\ Leave(t)
  /\ UNCHANGED <<file, tmp, ideal>>

Init ==
  /\ file = EmptyOverlay /\ tmp = {}
  /\ lock = [p \in Process |-> NoThread]
  /\ pc = [t \in Thread |-> "idle"]
  /\ edit = [t \in Thread |-> NoEdit] /\ snap = [t \in Thread |-> EmptyOverlay]
  /\ ideal = EmptyOverlay
  /\ edits = 0

Next == \E t \in Thread : \/ \E e \in Offered(t) : Load(t, e)
                          \/ OpenTmp(t) \/ WritePart(t) \/ WriteText(t)
                          \/ Replace(t) \/ ReplaceFails(t)

Spec == Init /\ [][Next]_vars

-----------------------------------------------------------------------------
(* Properties *)

\* Every variable has its type, and only base rules are marked as deleted.
TypeOK ==
  /\ file \in Overlay \cup Broken /\ ideal \in Overlay
  /\ tmp \subseteq Overlay \cup Broken
  /\ lock \in [Process -> Thread \cup {NoThread}]
  /\ pc \in [Thread -> {"idle", "write", "tmp", "file", "lost", "replace"}]
  /\ edit \in [Thread -> Edit] /\ snap \in [Thread -> Overlay]
  /\ edits \in 0 .. MaxEdits
  /\ file \notin Broken => file.removed \subseteq BaseId

\* The module promises that every edit takes effect once it is written: the
\* file is what the edits that returned would make one by one.
EditsKept == file = ideal

\* A deleted rule is gone: neither the base rule nor its edited form is in the
\* list or takes part in a review, until it is created again.
RemovedIsGone == file.removed \cap Listed(file) = {}

\* A candidate does not take part in reviews before it is confirmed: no id is
\* in the candidate pool and in the library at the same time.
CandidateNotListed ==
  \A i \in Id : IsCandidate(file, i) => i \notin Listed(file)

\* Whoever edits it in whatever order: a file that can be read is a library one can
\* review with.  That it can be read is another matter: rule_edits.py:11 promises that
\* every change lands whole, and with two processes it does not (see README.md).
OverlayExact == TypeOK /\ (file \notin Broken => RemovedIsGone /\ CandidateNotListed)
=============================================================================
