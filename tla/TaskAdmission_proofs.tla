------------------------ MODULE TaskAdmission_proofs ------------------------
(***************************************************************************)
(* Theorems about TaskAdmission for every set of requests, keys and        *)
(* cleanup rounds, every limit and TTL, and every combination of faults.   *)
(***************************************************************************)
EXTENDS TaskAdmission, FiniteSetTheorems, TLAPS

-----------------------------------------------------------------------------
(* The forms records and entries take *)

\* The records the store methods write.
LEMMA RecordForms ==
  /\ Absent \in Record /\ Reserved \in Record
  /\ \A q \in Record : /\ [q EXCEPT !.bound = TRUE] \in Record
                       /\ \A s \in Status : [q EXCEPT !.status = s] \in Record
BY DEF Absent, Reserved, Record, Status, Closed

LEMMA RequeuedForm ==
  ASSUME NEW q \in Record
  PROVE  [q EXCEPT !.status = "PENDING", !.retry = @ + 1] \in Record
<1>1. q = [status |-> q.status, bound |-> q.bound, retry |-> q.retry]
  BY DEF Record
<1>2. q.retry + 1 \in Nat /\ q.bound \in BOOLEAN
  BY DEF Record
<1> QED BY <1>1, <1>2 DEF Record, Status

\* A fault is counted.
LEMMA FaultForm ==
  ASSUME faults \in Nat, NEW kind, Fault(kind)
  PROVE  faults' \in Nat
BY DEF Fault

\* The remaining times the scripts and methods write.
LEMMA EntryForms ==
  /\ None \in Entry(SuccessTtl) \cup Entry(FailedTtl)
  /\ SuccessTtl \in Entry(SuccessTtl) \cup Entry(FailedTtl)
  /\ FailedTtl \in Entry(SuccessTtl) \cup Entry(FailedTtl)
  /\ None \in Entry(Retention) /\ Retention \in Entry(Retention)
  /\ None \in Entry(OrphanAge) /\ 0 \in Entry(OrphanAge)
  /\ 0 \in 0 .. IdemTtl /\ IdemTtl \in 0 .. IdemTtl
BY TtlAssumption DEF Entry, None, OrphanAge

\* An age below its limit grows.
LEMMA OlderGrows ==
  ASSUME NEW n \in Nat, NEW limit \in Nat, n < limit
  PROVE  Older(n, limit) = n + 1
BY DEF Older, None

-----------------------------------------------------------------------------
(* Types *)

\* Types of the steps of create_task.
LEMMA ApiTypes ==
  ASSUME TypeOK, NEW r \in Request, ApiNext(r)
  PROVE  TypeOK'
<1> USE RecordForms, EntryForms
    DEF TypeOK, StoreTypeOK, WorkTypeOK, ApiTypeOK, CleanTypeOK,
        ApiFrame, ApiGoto, Forget, ApiPc, Fault, storeVars, keyVars, dueVars,
        workVars, apiVars, cleanVars
<1>1. ASSUME NEW k \in Key \cup {NoKey}, Submit(r, k)
      PROVE  TypeOK'
  <2>1. StoreTypeOK'
    BY <1>1 DEF Submit
  <2>2. WorkTypeOK'
    BY <1>1 DEF Submit
  <2>3. ApiTypeOK'
    BY <1>1 DEF Submit
  <2>4. CleanTypeOK'
    BY <1>1 DEF Submit
  <2> QED BY <2>1, <2>2, <2>3, <2>4
<1>2. CASE Reject(r)
  <2>1. StoreTypeOK'
    BY <1>2 DEF Reject
  <2>2. WorkTypeOK'
    BY <1>2 DEF Reject
  <2>3. ApiTypeOK'
    BY <1>2 DEF Reject
  <2>4. CleanTypeOK'
    BY <1>2 DEF Reject
  <2> QED BY <2>1, <2>2, <2>3, <2>4
<1>3. CASE Find(r)
  <2>1. StoreTypeOK'
    BY <1>3 DEF Find
  <2>2. WorkTypeOK'
    BY <1>3 DEF Find
  <2>3. ApiTypeOK'
    BY <1>3 DEF Find
  <2>4. CleanTypeOK'
    BY <1>3 DEF Find
  <2> QED BY <2>1, <2>2, <2>3, <2>4
<1>4. CASE FindGet(r)
  <2>1. StoreTypeOK'
    BY <1>4 DEF FindGet
  <2>2. WorkTypeOK'
    BY <1>4 DEF FindGet
  <2>3. ApiTypeOK'
    BY <1>4 DEF FindGet
  <2>4. CleanTypeOK'
    BY <1>4 DEF FindGet
  <2> QED BY <2>1, <2>2, <2>3, <2>4
<1>5. CASE Count(r)
  <2>1. StoreTypeOK'
    BY <1>5 DEF Count
  <2>2. WorkTypeOK'
    BY <1>5 DEF Count
  <2>3. ApiTypeOK'
    BY <1>5 DEF Count
  <2>4. CleanTypeOK'
    BY <1>5 DEF Count
  <2> QED BY <2>1, <2>2, <2>3, <2>4
<1>6. CASE AdmitReplays(r)
  <2>1. StoreTypeOK'
    BY <1>6 DEF AdmitReplays, Replayable
  <2>2. WorkTypeOK'
    BY <1>6 DEF AdmitReplays, Replayable
  <2>3. ApiTypeOK'
    BY <1>6 DEF AdmitReplays, Replayable
  <2>4. CleanTypeOK'
    BY <1>6 DEF AdmitReplays, Replayable
  <2> QED BY <2>1, <2>2, <2>3, <2>4
<1>7. CASE AdmitFull(r)
  <2>1. StoreTypeOK'
    BY <1>7 DEF AdmitFull
  <2>2. WorkTypeOK'
    BY <1>7 DEF AdmitFull
  <2>3. ApiTypeOK'
    BY <1>7 DEF AdmitFull
  <2>4. CleanTypeOK'
    BY <1>7 DEF AdmitFull
  <2> QED BY <2>1, <2>2, <2>3, <2>4
<1>8. ASSUME NEW b \in BOOLEAN, AdmitCreates(r, b)
      PROVE  TypeOK'
  <2>1. idem' \in [Key -> Request \cup {NoTask}] /\ idemTtl' \in [Key -> 0 .. IdemTtl]
    <3>1. /\ key[r] \in Key \cup {NoKey} /\ IdemTtl \in 0 .. IdemTtl
          /\ idem \in [Key -> Request \cup {NoTask}] /\ idemTtl \in [Key -> 0 .. IdemTtl]
      OBVIOUS
    <3>2. \/ UNCHANGED <<idem, idemTtl>>
          \/ /\ key[r] # NoKey
             /\ idem' = [idem EXCEPT ![key[r]] = r]
             /\ idemTtl' = [idemTtl EXCEPT ![key[r]] = IdemTtl]
      BY <1>8 DEF AdmitCreates, Admit
    <3>3. CASE UNCHANGED <<idem, idemTtl>>
      BY <3>1, <3>3
    <3>4. CASE /\ key[r] # NoKey
               /\ idem' = [idem EXCEPT ![key[r]] = r]
               /\ idemTtl' = [idemTtl EXCEPT ![key[r]] = IdemTtl]
      <4>1. key[r] \in Key
        BY <3>1, <3>4
      <4>2. idem' \in [Key -> Request \cup {NoTask}]
        BY <3>1, <3>4, <4>1
      <4>3. idemTtl' \in [Key -> 0 .. IdemTtl]
        BY <3>1, <3>4, <4>1
      <4> QED BY <4>2, <4>3
    <3> QED BY <3>2, <3>3, <3>4
  <2>2. /\ rec' \in [Request -> Record] /\ age' \in [Request -> 0 .. IdemTtl]
        /\ index' \subseteq Request /\ pending' \subseteq Request
    <3>1. /\ rec' = [rec EXCEPT ![r] = Reserved]
          /\ index' = index \cup {r}
          /\ pending' = pending \cup {r}
          /\ age' = [age EXCEPT ![r] = 0]
      BY <1>8 DEF AdmitCreates, Admit
    <3>2. rec' \in [Request -> Record]
      BY <3>1
    <3>3. age' \in [Request -> 0 .. IdemTtl]
      BY <3>1
    <3>4. index' \subseteq Request /\ pending' \subseteq Request
      BY <3>1
    <3> QED BY <3>2, <3>3, <3>4
  <2> QED BY <1>8, <2>1, <2>2 DEF AdmitCreates
<1>9. CASE ReplayGet(r)
  <2>1. StoreTypeOK'
    BY <1>9 DEF ReplayGet
  <2>2. WorkTypeOK'
    BY <1>9 DEF ReplayGet
  <2>3. ApiTypeOK'
    BY <1>9 DEF ReplayGet
  <2>4. CleanTypeOK'
    BY <1>9 DEF ReplayGet
  <2> QED BY <2>1, <2>2, <2>3, <2>4
<1>10. CASE Persist(r)
  <2>1. StoreTypeOK'
    BY <1>10 DEF Persist
  <2>2. WorkTypeOK'
    BY <1>10 DEF Persist
  <2>3. ApiTypeOK'
    BY <1>10 DEF Persist
  <2>4. CleanTypeOK'
    BY <1>10 DEF Persist
  <2> QED BY <2>1, <2>2, <2>3, <2>4
<1>11. ASSUME NEW b \in BOOLEAN, PersistRaises(r, b)
      PROVE  TypeOK'
  <2>1. StoreTypeOK'
    BY <1>11 DEF PersistRaises
  <2>2. WorkTypeOK'
    BY <1>11 DEF PersistRaises
  <2>3. ApiTypeOK'
    BY <1>11 DEF PersistRaises
  <2>4. CleanTypeOK'
    BY <1>11 DEF PersistRaises
  <2> QED BY <2>1, <2>2, <2>3, <2>4
<1>12. CASE AttachGet(r)
  <2>1. StoreTypeOK'
    BY <1>12 DEF AttachGet
  <2>2. WorkTypeOK'
    BY <1>12 DEF AttachGet
  <2>3. ApiTypeOK'
    BY <1>12 DEF AttachGet
  <2>4. CleanTypeOK'
    BY <1>12 DEF AttachGet
  <2> QED BY <2>1, <2>2, <2>3, <2>4
<1>13. ASSUME NEW b \in BOOLEAN, AttachWrite(r, b)
      PROVE  TypeOK'
  <2>1. StoreTypeOK'
    BY <1>13 DEF AttachWrite
  <2>2. WorkTypeOK'
    BY <1>13 DEF AttachWrite
  <2>3. ApiTypeOK'
    BY <1>13 DEF AttachWrite
  <2>4. CleanTypeOK'
    BY <1>13 DEF AttachWrite
  <2> QED BY <2>1, <2>2, <2>3, <2>4
<1>14. CASE Enqueue(r)
  <2>1. StoreTypeOK'
    BY <1>14 DEF Enqueue
  <2>2. WorkTypeOK'
    BY <1>14 DEF Enqueue
  <2>3. ApiTypeOK'
    BY <1>14 DEF Enqueue
  <2>4. CleanTypeOK'
    BY <1>14 DEF Enqueue
  <2> QED BY <2>1, <2>2, <2>3, <2>4
<1>15. CASE EnqueueRaises(r)
  <2>1. StoreTypeOK'
    BY <1>15 DEF EnqueueRaises
  <2>2. WorkTypeOK'
    BY <1>15 DEF EnqueueRaises
  <2>3. ApiTypeOK'
    BY <1>15 DEF EnqueueRaises
  <2>4. CleanTypeOK'
    BY <1>15 DEF EnqueueRaises
  <2> QED BY <2>1, <2>2, <2>3, <2>4
<1>16. CASE CleanupInput(r)
  <2>1. StoreTypeOK'
    BY <1>16 DEF CleanupInput, RemoveInput
  <2>2. WorkTypeOK'
    BY <1>16 DEF CleanupInput, RemoveInput
  <2>3. ApiTypeOK'
    BY <1>16 DEF CleanupInput, RemoveInput
  <2>4. CleanTypeOK'
    BY <1>16 DEF CleanupInput, RemoveInput
  <2> QED BY <2>1, <2>2, <2>3, <2>4
<1>17. CASE FailGet(r)
  <2>1. StoreTypeOK'
    BY <1>17 DEF FailGet
  <2>2. WorkTypeOK'
    BY <1>17 DEF FailGet
  <2>3. ApiTypeOK'
    BY <1>17 DEF FailGet
  <2>4. CleanTypeOK'
    BY <1>17 DEF FailGet
  <2> QED BY <2>1, <2>2, <2>3, <2>4
<1>18. CASE FailWrite(r)
  <2>1. [snap[r] EXCEPT !.status = "FAILED"] \in Record
    BY DEF Status, Closed
  <2> QED BY <1>18, <2>1 DEF FailWrite
<1>19. CASE FailSchedule(r)
  <2>1. StoreTypeOK'
    BY <1>19 DEF FailSchedule
  <2>2. WorkTypeOK'
    BY <1>19 DEF FailSchedule
  <2>3. ApiTypeOK'
    BY <1>19 DEF FailSchedule
  <2>4. CleanTypeOK'
    BY <1>19 DEF FailSchedule
  <2> QED BY <2>1, <2>2, <2>3, <2>4
<1>20. CASE ApiCrash(r)
  <2>1. StoreTypeOK'
    BY <1>20 DEF ApiCrash
  <2>2. WorkTypeOK'
    BY <1>20 DEF ApiCrash
  <2>3. ApiTypeOK'
    BY <1>20 DEF ApiCrash
  <2>4. CleanTypeOK'
    BY <1>20 DEF ApiCrash
  <2> QED BY <2>1, <2>2, <2>3, <2>4
<1> QED BY <1>1, <1>2, <1>3, <1>4, <1>5, <1>6, <1>7, <1>8, <1>9, <1>10, <1>11,
       <1>12, <1>13, <1>14, <1>15, <1>16, <1>17, <1>18, <1>19, <1>20 DEF
       ApiNext, ApiStep

\* Types of the steps of execution.
LEMMA WorkTypes ==
  ASSUME TypeOK, NEW t \in Request, WorkNext(t)
  PROVE  TypeOK'
<1> USE RecordForms, EntryForms
    DEF TypeOK, StoreTypeOK, WorkTypeOK, ApiTypeOK, CleanTypeOK,
        WorkFrame, Status, Closed, Fault, storeVars,
        keyVars, dueVars, workVars, apiVars, cleanVars
<1>1. CASE Start(t)
  <2>1. StoreTypeOK'
    BY <1>1 DEF Start
  <2>2. WorkTypeOK'
    BY <1>1 DEF Start
  <2>3. ApiTypeOK'
    BY <1>1 DEF Start
  <2>4. CleanTypeOK'
    BY <1>1 DEF Start
  <2> QED BY <2>1, <2>2, <2>3, <2>4
<1>2. CASE Drop(t)
  <2>1. StoreTypeOK'
    BY <1>2 DEF Drop
  <2>2. WorkTypeOK'
    BY <1>2 DEF Drop
  <2>3. ApiTypeOK'
    BY <1>2 DEF Drop
  <2>4. CleanTypeOK'
    BY <1>2 DEF Drop
  <2> QED BY <2>1, <2>2, <2>3, <2>4
<1>3. ASSUME NEW s \in Closed, Close(t, s)
      PROVE  TypeOK'
  <2>1. [rec[t] EXCEPT !.status = s] \in Record
    OBVIOUS
  <2>2. rec' = [rec EXCEPT ![t] = [rec[t] EXCEPT !.status = s]]
    BY <1>3 DEF Close
  <2>3. rec' \in [Request -> Record]
    BY <2>1, <2>2
  <2> QED BY <1>3, <2>3 DEF Close
<1>4. CASE ScheduleExpiry(t)
  <2>1. StoreTypeOK'
    BY <1>4 DEF ScheduleExpiry, ResultTtl
  <2>2. WorkTypeOK'
    BY <1>4 DEF ScheduleExpiry, ResultTtl
  <2>3. ApiTypeOK'
    BY <1>4 DEF ScheduleExpiry, ResultTtl
  <2>4. CleanTypeOK'
    BY <1>4 DEF ScheduleExpiry, ResultTtl
  <2> QED BY <2>1, <2>2, <2>3, <2>4
<1>5. ASSUME NEW b \in BOOLEAN, WorkerCrash(t, b)
      PROVE  TypeOK'
  <2>1. closing' \in [Request -> Closed \cup {"none"}]
    BY <1>5 DEF WorkerCrash
  <2>2. faults' \in Nat
    <3>1. Fault("worker")
      BY <1>5 DEF WorkerCrash
    <3> QED BY <3>1, FaultForm
  <2> QED BY <1>5, <2>1, <2>2 DEF WorkerCrash
<1>6. CASE Requeue(t)
  <2>1. [rec[t] EXCEPT !.status = "PENDING", !.retry = @ + 1] \in Record
    BY RequeuedForm
  <2>2. rec' = [rec EXCEPT ![t] = [rec[t] EXCEPT !.status = "PENDING", !.retry = @ + 1]]
    BY <1>6 DEF Requeue
  <2>3. rec' \in [Request -> Record]
    BY <2>1, <2>2
  <2> QED BY <1>6, <2>3 DEF Requeue
<1>7. CASE ClearLifecycle(t)
  <2>1. StoreTypeOK'
    BY <1>7 DEF ClearLifecycle
  <2>2. WorkTypeOK'
    BY <1>7 DEF ClearLifecycle
  <2>3. ApiTypeOK'
    BY <1>7 DEF ClearLifecycle
  <2>4. CleanTypeOK'
    BY <1>7 DEF ClearLifecycle
  <2> QED BY <2>1, <2>2, <2>3, <2>4
<1>8. CASE Dispatch(t)
  <2>1. StoreTypeOK'
    BY <1>8 DEF Dispatch
  <2>2. WorkTypeOK'
    BY <1>8 DEF Dispatch
  <2>3. ApiTypeOK'
    BY <1>8 DEF Dispatch
  <2>4. CleanTypeOK'
    BY <1>8 DEF Dispatch
  <2> QED BY <2>1, <2>2, <2>3, <2>4
<1> QED BY <1>1, <1>2, <1>3, <1>4, <1>5, <1>6, <1>7, <1>8 DEF WorkNext

\* The list of a phase is a set of tasks, and entering a phase keeps the types.
LEMMA EnterTypes ==
  ASSUME TypeOK, NEW c \in Cleaner, NEW ps \in Seq(Phase \ {"idle"}),
         NEW stamp \in SUBSET Request, Enter(c, ps, stamp)
  PROVE  /\ phase' \in [Cleaner -> Phase]
         /\ todo' \in [Cleaner -> SUBSET Request]
         /\ due' \in [Cleaner -> SUBSET Request]
<1>1. \A p \in Phase \ {"idle"} : PhaseList(p, stamp) \in SUBSET Request
  BY DEF Phase, PhaseList, DueExpiring, DuePurge, StaleInputs, StaleMetadata
<1>2. PICK i \in 1 .. Len(ps) + 1 :
        IF i <= Len(ps)
          THEN /\ phase' = [phase EXCEPT ![c] = ps[i]]
               /\ todo' = [todo EXCEPT ![c] = PhaseList(ps[i], stamp)]
               /\ due' = [due EXCEPT ![c] = IF ps[i] = "expire" THEN stamp ELSE {}]
          ELSE /\ phase' = [phase EXCEPT ![c] = "idle"]
               /\ todo' = [todo EXCEPT ![c] = {}]
               /\ due' = [due EXCEPT ![c] = {}]
  BY DEF Enter
<1>3. i <= Len(ps) => ps[i] \in Phase \ {"idle"}
  OBVIOUS
<1>4. "idle" \in Phase
  BY DEF Phase
<1>5. CASE i <= Len(ps)
  BY <1>1, <1>2, <1>3, <1>5 DEF TypeOK, CleanTypeOK
<1>6. CASE ~(i <= Len(ps))
  BY <1>2, <1>4, <1>6 DEF TypeOK, CleanTypeOK
<1> QED BY <1>5, <1>6

\* Types of the steps of a cleanup round; the task in hand is a task.
LEMMA CleanTypes ==
  ASSUME TypeOK, CleanupSettled, NEW c \in Cleaner, CleanNext(c)
  PROVE  TypeOK'
<1> USE RecordForms, EntryForms
    DEF TypeOK, StoreTypeOK, WorkTypeOK, ApiTypeOK, CleanTypeOK,
        CleanFrame, CGoto, CNext, CleanerPc, Phase, RemoveInput, Fault,
        storeVars, keyVars, dueVars,
        workVars, apiVars, cleanVars
<1>1. ASSUME NEW t \in Request, ExpireGet(c, t)
      PROVE  TypeOK'
  <2>1. StoreTypeOK'
    BY <1>1 DEF ExpireGet, ExpireAction
  <2>2. WorkTypeOK'
    BY <1>1 DEF ExpireGet, ExpireAction
  <2>3. ApiTypeOK'
    BY <1>1 DEF ExpireGet, ExpireAction
  <2>4. CleanTypeOK'
    BY <1>1 DEF ExpireGet, ExpireAction
  <2> QED BY <2>1, <2>2, <2>3, <2>4
<1>2. ASSUME NEW t \in Request, PurgeFiles(c, t)
      PROVE  TypeOK'
  <2>1. StoreTypeOK'
    BY <1>2 DEF PurgeFiles
  <2>2. WorkTypeOK'
    BY <1>2 DEF PurgeFiles
  <2>3. ApiTypeOK'
    BY <1>2 DEF PurgeFiles
  <2>4. CleanTypeOK'
    BY <1>2 DEF PurgeFiles
  <2> QED BY <2>1, <2>2, <2>3, <2>4
<1>3. ASSUME NEW t \in Request, OrphanGet(c, t)
      PROVE  TypeOK'
  <2>1. StoreTypeOK'
    BY <1>3 DEF OrphanGet
  <2>2. WorkTypeOK'
    BY <1>3 DEF OrphanGet
  <2>3. ApiTypeOK'
    BY <1>3 DEF OrphanGet
  <2>4. CleanTypeOK'
    BY <1>3 DEF OrphanGet
  <2> QED BY <2>1, <2>2, <2>3, <2>4
<1>4. CASE ExpireFiles(c)
  <2>1. StoreTypeOK'
    BY <1>4 DEF ExpireFiles
  <2>2. WorkTypeOK'
    BY <1>4 DEF ExpireFiles
  <2>3. ApiTypeOK'
    BY <1>4 DEF ExpireFiles
  <2>4. CleanTypeOK'
    BY <1>4 DEF ExpireFiles
  <2> QED BY <2>1, <2>2, <2>3, <2>4
<1>5. CASE MarkGet(c)
  <2>1. rec[cur[c]] \in Record
    BY <1>5 DEF MarkGet, CleanupSettled
  <2>2. CleanTypeOK'
    <3>1. CASE Exists(cur[c])
      <4>1. /\ csnap' = [csnap EXCEPT ![c] = rec[cur[c]]] /\ UNCHANGED <<todo, cur, phase, due>>
            /\ CGoto(c, "mark_write")
        BY <1>5, <3>1 DEF MarkGet
      <4> QED BY <2>1, <4>1
    <3>2. CASE ~Exists(cur[c])
      <4>1. CNext(c) /\ UNCHANGED <<phase, due>>
        BY <1>5, <3>2 DEF MarkGet
      <4> QED BY <4>1
    <3> QED BY <3>1, <3>2
  <2> QED BY <1>5, <2>2 DEF MarkGet
<1>6. CASE MarkWrite(c)
  <2>1. [csnap[c] EXCEPT !.status = "EXPIRED"] \in Record
    BY DEF Status
  <2> QED BY <1>6, <2>1 DEF MarkWrite
<1>7. CASE MarkZrem(c)
  <2>1. StoreTypeOK'
    BY <1>7 DEF MarkZrem
  <2>2. WorkTypeOK'
    BY <1>7 DEF MarkZrem
  <2>3. ApiTypeOK'
    BY <1>7 DEF MarkZrem
  <2>4. CleanTypeOK'
    BY <1>7 DEF MarkZrem
  <2> QED BY <2>1, <2>2, <2>3, <2>4
<1>8. CASE SchedulePurge(c)
  <2>1. StoreTypeOK'
    BY <1>8 DEF SchedulePurge
  <2>2. WorkTypeOK'
    BY <1>8 DEF SchedulePurge
  <2>3. ApiTypeOK'
    BY <1>8 DEF SchedulePurge
  <2>4. CleanTypeOK'
    BY <1>8 DEF SchedulePurge
  <2> QED BY <2>1, <2>2, <2>3, <2>4
<1>9. CASE DeleteGet(c)
  <2>1. StoreTypeOK'
    BY <1>9 DEF DeleteGet, CleanupSettled
  <2>2. WorkTypeOK'
    BY <1>9 DEF DeleteGet, CleanupSettled
  <2>3. ApiTypeOK'
    BY <1>9 DEF DeleteGet, CleanupSettled
  <2>4. CleanTypeOK'
    BY <1>9 DEF DeleteGet, CleanupSettled
  <2> QED BY <2>1, <2>2, <2>3, <2>4
<1>10. CASE DeleteWrite(c)
  <2>1. cur[c] \in Request
    BY <1>10 DEF DeleteWrite, CleanupSettled
  <2>2. DeletedKey(c) \in Key \cup {NoKey}
    BY <2>1 DEF DeletedKey
  <2>3. StoreTypeOK'
    <3>1. /\ rec' \in [Request -> Record]
          /\ index' \subseteq Request /\ pending' \subseteq Request
          /\ age' = age /\ dirAge' = dirAge
      BY <1>10, <2>1 DEF DeleteWrite
    <3>2. /\ expiry' \in [Request -> Entry(SuccessTtl) \cup Entry(FailedTtl)]
          /\ purge' \in [Request -> Entry(Retention)]
      BY <1>10, <2>1 DEF DeleteWrite
    <3>3. /\ idem' \in [Key -> Request \cup {NoTask}]
          /\ idemTtl' \in [Key -> 0 .. IdemTtl]
          /\ dropped' \subseteq Key
      <4> DEFINE k == DeletedKey(c)
      <4>1. /\ k = NoKey => UNCHANGED keyVars
            /\ k # NoKey =>
                 /\ idem' = [idem EXCEPT ![k] = NoTask] /\ idemTtl' = [idemTtl EXCEPT ![k] = 0]
                 /\ dropped' \subseteq dropped \cup {k}
        BY <1>10 DEF DeleteWrite
      <4>2. k \in Key \cup {NoKey}
        BY <2>2
      <4> HIDE DEF k
      <4>3. CASE k = NoKey
        BY <4>1, <4>3
      <4>4. CASE k # NoKey
        <5>1. k \in Key
          BY <4>2, <4>4
        <5>2. idem' \in [Key -> Request \cup {NoTask}]
          BY <4>1, <4>4, <5>1
        <5>3. idemTtl' \in [Key -> 0 .. IdemTtl]
          BY <4>1, <4>4, <5>1
        <5>4. dropped' \subseteq Key
          BY <4>1, <4>4, <5>1
        <5> QED BY <5>2, <5>3, <5>4
      <4> QED BY <4>3, <4>4
    <3> QED BY <3>1, <3>2, <3>3
  <2>4. WorkTypeOK' /\ ApiTypeOK' /\ CleanTypeOK'
    BY <1>10 DEF DeleteWrite
  <2> QED BY <2>3, <2>4
<1>11. CASE OrphanDelete(c)
  <2>1. StoreTypeOK'
    BY <1>11 DEF OrphanDelete
  <2>2. WorkTypeOK'
    BY <1>11 DEF OrphanDelete
  <2>3. ApiTypeOK'
    BY <1>11 DEF OrphanDelete
  <2>4. CleanTypeOK'
    BY <1>11 DEF OrphanDelete
  <2> QED BY <2>1, <2>2, <2>3, <2>4
<1>12. CASE PruneWrite(c)
  <2>1. StoreTypeOK'
    BY <1>12 DEF PruneWrite
  <2>2. WorkTypeOK'
    BY <1>12 DEF PruneWrite
  <2>3. ApiTypeOK'
    BY <1>12 DEF PruneWrite
  <2>4. CleanTypeOK'
    BY <1>12 DEF PruneWrite
  <2> QED BY <2>1, <2>2, <2>3, <2>4
<1>13. CASE BeginRound(c)
  <2>1. DuePurge \in SUBSET Request
    BY DEF DuePurge
  <2>2. Enter(c, <<"expire", "purge", "orphan", "prune">>, DuePurge)
    BY <1>13 DEF BeginRound
  <2>3. UNCHANGED <<storeVars, keyVars, dueVars, dirAge, cpc, cur, csnap, faults>>
        /\ CleanFrame
    BY <1>13 DEF BeginRound
  <2>4. <<"expire", "purge", "orphan", "prune">> \in Seq(Phase \ {"idle"})
    OBVIOUS
  <2> QED BY <2>1, <2>2, <2>3, <2>4, EnterTypes
<1>14. CASE NextPhase(c)
  <2>1. \/ Enter(c, <<"purge", "orphan", "prune">>, due[c])
        \/ Enter(c, <<"orphan", "prune">>, {})
        \/ Enter(c, <<"prune">>, {})
    BY <1>14 DEF NextPhase
  <2>2. UNCHANGED <<storeVars, keyVars, dueVars, dirAge, cpc, cur, csnap, faults>>
        /\ CleanFrame
    BY <1>14 DEF NextPhase
  <2>3. due[c] \in SUBSET Request
    OBVIOUS
  <2>4. /\ <<"purge", "orphan", "prune">> \in Seq(Phase \ {"idle"})
        /\ <<"orphan", "prune">> \in Seq(Phase \ {"idle"})
        /\ <<"prune">> \in Seq(Phase \ {"idle"})
    OBVIOUS
  <2>5. /\ phase' \in [Cleaner -> Phase]
        /\ todo' \in [Cleaner -> SUBSET Request]
        /\ due' \in [Cleaner -> SUBSET Request]
    <3> HIDE DEF Phase, TypeOK
    <3>1. {} \in SUBSET Request
      OBVIOUS
    <3>2. CASE Enter(c, <<"purge", "orphan", "prune">>, due[c])
      BY <2>3, <2>4, <3>2, EnterTypes
    <3>3. CASE Enter(c, <<"orphan", "prune">>, {})
      BY <2>4, <3>1, <3>3, EnterTypes
    <3>4. CASE Enter(c, <<"prune">>, {})
      BY <2>4, <3>1, <3>4, EnterTypes
    <3> QED BY <2>1, <3>2, <3>3, <3>4
  <2> QED BY <2>2, <2>5
<1> QED BY <1>1, <1>2, <1>3, <1>4, <1>5, <1>6, <1>7, <1>8, <1>9, <1>10, <1>11,
       <1>12, <1>13, <1>14 DEF CleanNext

\* Types after a tick.
LEMMA TickTypes ==
  ASSUME TypeOK, Tick
  PROVE  TypeOK'
BY TtlAssumption DEF TypeOK, StoreTypeOK, WorkTypeOK, ApiTypeOK, CleanTypeOK,
        Tick, CountDown, Older, Entry, None, OrphanAge, storeVars,
   workVars, apiVars, cleanVars

-----------------------------------------------------------------------------
(* The invariant, one lemma per group of steps *)

\* The empty store.
LEMMA InitOK == Init => TypeOK /\ AdmissionInv
<1> SUFFICES ASSUME Init PROVE TypeOK /\ AdmissionInv
  OBVIOUS
<1> USE DEF Init, Absent, None, Settled, PreAdmit, Holding, Exists, Live
<1>1. TypeOK
  BY TtlAssumption DEF TypeOK, StoreTypeOK, WorkTypeOK, ApiTypeOK, CleanTypeOK,
        Record, Status, Closed, Entry, OrphanAge, ApiPc,
     CleanerPc, Phase
<1>2. UnknownBlank
  BY NoTaskAssumption DEF UnknownBlank
<1>3. ReservedOwned /\ PendingExact /\ LiveHasInput
  BY DEF ReservedOwned, PendingExact, LiveHasInput
<1>4. EntriesSettled /\ CleanupSettled
  BY DEF EntriesSettled, CleanupSettled
<1>5. KeyOwned /\ KeyNamesTask
  BY DEF KeyOwned, KeyNamesTask
<1> QED BY <1>1, <1>2, <1>3, <1>4, <1>5 DEF AdmissionInv

\* The steps before the admission script has decided: nothing but the handler
\* moves.
LEMMA QueryKeeps ==
  ASSUME NEW r \in Request, NEW k \in Key \cup {NoKey}, TypeOK, AdmissionInv,
         \/ Submit(r, k)
         \/ Reject(r)
         \/ Find(r)
         \/ FindGet(r)
         \/ Count(r)
         \/ AdmitReplays(r)
         \/ ReplayGet(r)
  PROVE  AdmissionInv'
<1> USE DEF TypeOK, StoreTypeOK, WorkTypeOK, ApiTypeOK, CleanTypeOK,
            AdmissionInv, Submit, Reject, Find, FindGet, Count, AdmitReplays,
            ReplayGet, ApiFrame, ApiGoto, Forget, storeVars, keyVars, dueVars,
            workVars, apiVars, cleanVars, PreAdmit, Holding, Settled, Live,
            Inputs, Exists, None
<1>1. UnknownBlank'
  BY DEF UnknownBlank
<1>2. ReservedOwned'
  BY DEF ReservedOwned, UnknownBlank
<1>3. PendingExact'
  BY DEF PendingExact, ReservedOwned
<1>4. LiveHasInput'
  BY DEF LiveHasInput, ReservedOwned
<1>5. EntriesSettled'
  BY DEF EntriesSettled, ReservedOwned, UnknownBlank
<1>6. CleanupSettled'
  BY DEF CleanupSettled
<1>7. KeyOwned'
  BY DEF KeyOwned, UnknownBlank
<1>8. KeyNamesTask'
  BY DEF KeyNamesTask, KeyOwned, UnknownBlank
<1> QED BY <1>1, <1>2, <1>3, <1>4, <1>5, <1>6, <1>7, <1>8

\* A full queue: the key that is dropped names no indexed task.
LEMMA AdmitFullKeeps ==
  ASSUME NEW r \in Request, TypeOK, AdmissionInv,
         AdmitFull(r)
  PROVE  AdmissionInv'
<1> USE DEF TypeOK, StoreTypeOK, WorkTypeOK, ApiTypeOK, CleanTypeOK,
            AdmissionInv, AdmitFull, Replayable, ApiFrame, ApiGoto, Forget,
            storeVars, keyVars, dueVars, workVars, apiVars, cleanVars,
            PreAdmit, Holding, Settled, Live, Inputs, Exists, None
<1>1. UnknownBlank'
  BY NoTaskAssumption DEF UnknownBlank
<1>2. ReservedOwned'
  BY DEF ReservedOwned, UnknownBlank
<1>3. PendingExact'
  BY DEF PendingExact, ReservedOwned
<1>4. LiveHasInput'
  BY DEF LiveHasInput, ReservedOwned
<1>5. EntriesSettled'
  BY DEF EntriesSettled, ReservedOwned, UnknownBlank
<1>6. CleanupSettled'
  BY DEF CleanupSettled
<1>7. KeyOwned'
  BY NoTaskAssumption DEF KeyOwned, UnknownBlank
<1>8. KeyNamesTask'
  BY NoTaskAssumption DEF KeyNamesTask, KeyOwned
<1> QED BY <1>1, <1>2, <1>3, <1>4, <1>5, <1>6, <1>7, <1>8

\* Admission: the id is new, and no indexed task answers to the key.
LEMMA AdmitCreatesKeeps ==
  ASSUME NEW r \in Request, NEW b \in BOOLEAN, TypeOK, AdmissionInv,
         AdmitCreates(r, b)
  PROVE  AdmissionInv'
<1> USE DEF TypeOK, StoreTypeOK, WorkTypeOK, ApiTypeOK, CleanTypeOK,
            AdmissionInv, AdmitCreates, Admit, Replayable, Reserved, Fault,
            ApiFrame, ApiGoto, Forget, storeVars, keyVars, dueVars, workVars,
            apiVars, cleanVars, PreAdmit, Holding, Settled, Live, Inputs,
            Exists, None
<1>1. UnknownBlank'
  BY DEF UnknownBlank
<1>2. ReservedOwned'
  BY DEF ReservedOwned, UnknownBlank
<1>3. PendingExact'
  BY DEF PendingExact, ReservedOwned
<1>4. LiveHasInput'
  BY DEF LiveHasInput, ReservedOwned, UnknownBlank
<1>5. EntriesSettled'
  BY DEF EntriesSettled, ReservedOwned, UnknownBlank
<1>6. CleanupSettled'
  BY DEF CleanupSettled
<1>7. KeyOwned'
  BY NoTaskAssumption, NoKeyAssumption, TtlAssumption DEF KeyOwned,
      UnknownBlank
<1>8. KeyNamesTask'
  BY NoTaskAssumption, NoKeyAssumption DEF KeyNamesTask, KeyOwned
<1> QED BY <1>1, <1>2, <1>3, <1>4, <1>5, <1>6, <1>7, <1>8

\* The input of a reservation comes and goes while only its request knows it.
LEMMA InputKeeps ==
  ASSUME NEW r \in Request, NEW b \in BOOLEAN, TypeOK, AdmissionInv,
         \/ Persist(r)
         \/ PersistRaises(r, b)
         \/ AttachGet(r)
         \/ CleanupInput(r)
  PROVE  AdmissionInv'
<1> USE DEF TypeOK, StoreTypeOK, WorkTypeOK, ApiTypeOK, CleanTypeOK,
            AdmissionInv, Persist, PersistRaises, AttachGet, CleanupInput,
            RemoveInput, Fault, Absent, ApiFrame, ApiGoto, Forget, storeVars,
            keyVars, dueVars, workVars, apiVars, cleanVars, PreAdmit, Holding,
            Settled, Live, Inputs, Exists, None
<1>1. UnknownBlank'
  BY DEF UnknownBlank
<1>2. ReservedOwned'
  BY DEF ReservedOwned, UnknownBlank
<1>3. PendingExact'
  BY DEF PendingExact, ReservedOwned
<1>4. LiveHasInput'
  BY DEF LiveHasInput, ReservedOwned
<1>5. EntriesSettled'
  BY DEF EntriesSettled, ReservedOwned, UnknownBlank
<1>6. CleanupSettled'
  BY DEF CleanupSettled
<1>7. KeyOwned'
  BY DEF KeyOwned, UnknownBlank
<1>8. KeyNamesTask'
  BY DEF KeyNamesTask, KeyOwned
<1> QED BY <1>1, <1>2, <1>3, <1>4, <1>5, <1>6, <1>7, <1>8

\* The unchecked write of attach_input meets an unchanged reservation.
LEMMA AttachWriteKeeps ==
  ASSUME NEW r \in Request, NEW b \in BOOLEAN, TypeOK, AdmissionInv,
         AttachWrite(r, b)
  PROVE  AdmissionInv'
<1> USE DEF TypeOK, StoreTypeOK, WorkTypeOK, ApiTypeOK, CleanTypeOK,
            AdmissionInv, AttachWrite, Fault, Record, ApiFrame, ApiGoto,
            Forget, storeVars, keyVars, dueVars, workVars, apiVars, cleanVars,
            PreAdmit, Holding, Settled, Live, Inputs, Exists, None
<1>1. UnknownBlank'
  BY DEF UnknownBlank
<1>2. ReservedOwned'
  BY DEF ReservedOwned, UnknownBlank
<1>3. PendingExact'
  BY DEF PendingExact, ReservedOwned
<1>4. LiveHasInput'
  BY DEF LiveHasInput, ReservedOwned
<1>5. EntriesSettled'
  BY DEF EntriesSettled, ReservedOwned, UnknownBlank
<1>6. CleanupSettled'
  BY DEF CleanupSettled
<1>7. KeyOwned'
  BY DEF KeyOwned, UnknownBlank
<1>8. KeyNamesTask'
  BY DEF KeyNamesTask, KeyOwned
<1> QED BY <1>1, <1>2, <1>3, <1>4, <1>5, <1>6, <1>7, <1>8

\* Publishing hands the reservation over.
LEMMA EnqueueKeeps ==
  ASSUME NEW r \in Request, TypeOK, AdmissionInv,
         \/ Enqueue(r)
         \/ EnqueueRaises(r)
  PROVE  AdmissionInv'
<1> USE DEF TypeOK, StoreTypeOK, WorkTypeOK, ApiTypeOK, CleanTypeOK,
            AdmissionInv, Enqueue, EnqueueRaises, ApiFrame, ApiGoto, Forget,
            storeVars, keyVars, dueVars, workVars, apiVars, cleanVars,
            PreAdmit, Holding, Settled, Live, Inputs, Exists, None
<1>1. UnknownBlank'
  BY DEF UnknownBlank
<1>2. ReservedOwned'
  BY DEF ReservedOwned, UnknownBlank
<1>3. PendingExact'
  BY DEF PendingExact, ReservedOwned
<1>4. LiveHasInput'
  BY DEF LiveHasInput, ReservedOwned
<1>5. EntriesSettled'
  BY DEF EntriesSettled, ReservedOwned, UnknownBlank
<1>6. CleanupSettled'
  BY DEF CleanupSettled
<1>7. KeyOwned'
  BY DEF KeyOwned, UnknownBlank
<1>8. KeyNamesTask'
  BY DEF KeyNamesTask, KeyOwned
<1> QED BY <1>1, <1>2, <1>3, <1>4, <1>5, <1>6, <1>7, <1>8

\* The failure path around its write, and the loss of the handler.
LEMMA FailKeeps ==
  ASSUME NEW r \in Request, TypeOK, AdmissionInv,
         \/ FailGet(r)
         \/ FailSchedule(r)
         \/ ApiCrash(r)
  PROVE  AdmissionInv'
<1> USE DEF TypeOK, StoreTypeOK, WorkTypeOK, ApiTypeOK, CleanTypeOK,
            AdmissionInv, FailGet, FailSchedule, ApiCrash, Fault, ApiDone,
            Absent, ApiFrame, ApiGoto, Forget, storeVars, keyVars, dueVars,
            workVars, apiVars, cleanVars, PreAdmit, Holding, Settled, Live,
            Inputs, Exists, None
<1>1. UnknownBlank'
  BY DEF UnknownBlank
<1>2. ReservedOwned'
  BY DEF ReservedOwned, UnknownBlank
<1>3. PendingExact'
  BY DEF PendingExact, ReservedOwned
<1>4. LiveHasInput'
  BY DEF LiveHasInput, ReservedOwned
<1>5. EntriesSettled'
  BY DEF EntriesSettled, ReservedOwned, UnknownBlank
<1>6. CleanupSettled'
  BY DEF CleanupSettled
<1>7. KeyOwned'
  BY DEF KeyOwned, UnknownBlank
<1>8. KeyNamesTask'
  BY DEF KeyNamesTask, KeyOwned
<1> QED BY <1>1, <1>2, <1>3, <1>4, <1>5, <1>6, <1>7, <1>8

\* The unchecked write of mark_pending_failed settles the task.
LEMMA FailWriteKeeps ==
  ASSUME NEW r \in Request, TypeOK, AdmissionInv,
         FailWrite(r)
  PROVE  AdmissionInv'
<1> USE DEF TypeOK, StoreTypeOK, WorkTypeOK, ApiTypeOK, CleanTypeOK,
            AdmissionInv, FailWrite, Record, ApiFrame, ApiGoto, Forget,
            storeVars, keyVars, dueVars, workVars, apiVars, cleanVars,
            PreAdmit, Holding, Settled, Live, Inputs, Exists, None
<1>1. UnknownBlank'
  BY DEF UnknownBlank
<1>2. ReservedOwned'
  BY DEF ReservedOwned, UnknownBlank
<1>3. PendingExact'
  BY DEF PendingExact, ReservedOwned
<1>4. LiveHasInput'
  BY DEF LiveHasInput, ReservedOwned
<1>5. EntriesSettled'
  BY DEF EntriesSettled, ReservedOwned, UnknownBlank
<1>6. CleanupSettled'
  BY DEF CleanupSettled
<1>7. KeyOwned'
  BY DEF KeyOwned, UnknownBlank
<1>8. KeyNamesTask'
  BY DEF KeyNamesTask, KeyOwned
<1> QED BY <1>1, <1>2, <1>3, <1>4, <1>5, <1>6, <1>7, <1>8

\* A worker starts a waiting task.
LEMMA StartKeeps ==
  ASSUME NEW t \in Request, TypeOK, AdmissionInv,
         Start(t)
  PROVE  AdmissionInv'
<1> USE DEF TypeOK, StoreTypeOK, WorkTypeOK, ApiTypeOK, CleanTypeOK,
            AdmissionInv, Start, WorkFrame, Record, storeVars, keyVars,
            dueVars, workVars, apiVars, cleanVars, PreAdmit, Holding, Settled,
            Live, Inputs, Exists, None
<1>1. UnknownBlank'
  BY DEF UnknownBlank
<1>2. ReservedOwned'
  BY DEF ReservedOwned, UnknownBlank
<1>3. PendingExact'
  BY DEF PendingExact, ReservedOwned
<1>4. LiveHasInput'
  BY DEF LiveHasInput, ReservedOwned
<1>5. EntriesSettled'
  BY DEF EntriesSettled, ReservedOwned, UnknownBlank
<1>6. CleanupSettled'
  BY DEF CleanupSettled
<1>7. KeyOwned'
  BY DEF KeyOwned, UnknownBlank
<1>8. KeyNamesTask'
  BY DEF KeyNamesTask, KeyOwned
<1> QED BY <1>1, <1>2, <1>3, <1>4, <1>5, <1>6, <1>7, <1>8

\* A verdict settles the task before its entry is written.
LEMMA CloseKeeps ==
  ASSUME NEW t \in Request, NEW s \in Closed, TypeOK, AdmissionInv,
         Close(t, s)
  PROVE  AdmissionInv'
<1> USE DEF TypeOK, StoreTypeOK, WorkTypeOK, ApiTypeOK, CleanTypeOK,
            AdmissionInv, Close, WorkFrame, Closed, Record, storeVars,
            keyVars, dueVars, workVars, apiVars, cleanVars, PreAdmit, Holding,
            Settled, Live, Inputs, Exists, None
<1>1. UnknownBlank'
  BY DEF UnknownBlank
<1>2. ReservedOwned'
  BY DEF ReservedOwned, UnknownBlank
<1>3. PendingExact'
  BY DEF PendingExact, ReservedOwned
<1>4. LiveHasInput'
  BY DEF LiveHasInput, ReservedOwned
<1>5. EntriesSettled'
  BY DEF EntriesSettled, ReservedOwned, UnknownBlank
<1>6. CleanupSettled'
  BY DEF CleanupSettled
<1>7. KeyOwned'
  BY DEF KeyOwned, UnknownBlank
<1>8. KeyNamesTask'
  BY DEF KeyNamesTask, KeyOwned
<1> QED BY <1>1, <1>2, <1>3, <1>4, <1>5, <1>6, <1>7, <1>8

\* A recovered task waits again, with its input.
LEMMA RequeueKeeps ==
  ASSUME NEW t \in Request, TypeOK, AdmissionInv,
         Requeue(t)
  PROVE  AdmissionInv'
<1> USE DEF TypeOK, StoreTypeOK, WorkTypeOK, ApiTypeOK, CleanTypeOK,
            AdmissionInv, Requeue, WorkFrame, Record, storeVars, keyVars,
            dueVars, workVars, apiVars, cleanVars, PreAdmit, Holding, Settled,
            Live, Inputs, Exists, None
<1>1. UnknownBlank'
  BY DEF UnknownBlank
<1>2. ReservedOwned'
  BY DEF ReservedOwned, UnknownBlank
<1>3. PendingExact'
  BY DEF PendingExact, ReservedOwned
<1>4. LiveHasInput'
  BY DEF LiveHasInput, ReservedOwned
<1>5. EntriesSettled'
  BY DEF EntriesSettled, ReservedOwned, UnknownBlank
<1>6. CleanupSettled'
  BY DEF CleanupSettled
<1>7. KeyOwned'
  BY DEF KeyOwned, UnknownBlank
<1>8. KeyNamesTask'
  BY DEF KeyNamesTask, KeyOwned
<1> QED BY <1>1, <1>2, <1>3, <1>4, <1>5, <1>6, <1>7, <1>8

\* The loss of a worker brings its message back.
LEMMA CrashKeeps ==
  ASSUME NEW t \in Request, NEW b \in BOOLEAN, TypeOK, AdmissionInv,
         WorkerCrash(t, b)
  PROVE  AdmissionInv'
<1> USE DEF TypeOK, StoreTypeOK, WorkTypeOK, ApiTypeOK, CleanTypeOK,
            AdmissionInv, WorkerCrash, WorkFrame, Fault, storeVars, keyVars,
            dueVars, workVars, apiVars, cleanVars, PreAdmit, Holding, Settled,
            Live, Inputs, Exists, None
<1>1. UnknownBlank'
  BY DEF UnknownBlank, EntriesSettled
<1>2. ReservedOwned'
  BY DEF ReservedOwned, UnknownBlank, EntriesSettled
<1>3. PendingExact'
  BY DEF PendingExact, ReservedOwned
<1>4. LiveHasInput'
  BY DEF LiveHasInput, ReservedOwned, EntriesSettled
<1>5. EntriesSettled'
  BY DEF EntriesSettled, ReservedOwned, UnknownBlank
<1>6. CleanupSettled'
  BY DEF CleanupSettled
<1>7. KeyOwned'
  BY DEF KeyOwned, UnknownBlank
<1>8. KeyNamesTask'
  BY DEF KeyNamesTask, KeyOwned
<1> QED BY <1>1, <1>2, <1>3, <1>4, <1>5, <1>6, <1>7, <1>8

\* The steps of execution that write no record.
LEMMA LifecycleKeeps ==
  ASSUME NEW t \in Request, TypeOK, AdmissionInv,
         \/ Drop(t)
         \/ ScheduleExpiry(t)
         \/ ClearLifecycle(t)
         \/ Dispatch(t)
  PROVE  AdmissionInv'
<1> USE DEF TypeOK, StoreTypeOK, WorkTypeOK, ApiTypeOK, CleanTypeOK,
            AdmissionInv, Drop, ScheduleExpiry, ClearLifecycle, Dispatch,
            WorkFrame, Fault, storeVars, keyVars, dueVars, workVars, apiVars,
            cleanVars, PreAdmit, Holding, Settled, Live, Inputs, Exists, None
<1>1. UnknownBlank'
  BY DEF UnknownBlank
<1>2. ReservedOwned'
  BY DEF ReservedOwned, UnknownBlank
<1>3. PendingExact'
  BY DEF PendingExact, ReservedOwned
<1>4. LiveHasInput'
  BY DEF LiveHasInput, ReservedOwned
<1>5. EntriesSettled'
  BY DEF EntriesSettled, ReservedOwned, UnknownBlank
<1>6. CleanupSettled'
  BY DEF CleanupSettled
<1>7. KeyOwned'
  BY DEF KeyOwned, UnknownBlank
<1>8. KeyNamesTask'
  BY DEF KeyNamesTask, KeyOwned
<1> QED BY <1>1, <1>2, <1>3, <1>4, <1>5, <1>6, <1>7, <1>8

\* The expire phase around the write of mark_expired.
LEMMA ExpireKeeps ==
  ASSUME NEW c \in Cleaner, NEW t \in Request, TypeOK, AdmissionInv,
         \/ ExpireGet(c, t)
         \/ ExpireFiles(c)
         \/ MarkGet(c)
         \/ MarkZrem(c)
         \/ SchedulePurge(c)
  PROVE  AdmissionInv'
<1> USE DEF TypeOK, StoreTypeOK, WorkTypeOK, ApiTypeOK, CleanTypeOK,
            AdmissionInv, ExpireGet, ExpireFiles, MarkGet, MarkZrem,
            SchedulePurge, CleanFrame, CGoto, CNext, ExpireAction,
            RemoveInput, Fault, storeVars, keyVars, dueVars, workVars,
            apiVars, cleanVars, PreAdmit, Holding, Settled, Live, Inputs,
            Exists, None
<1>1. UnknownBlank'
  BY DEF UnknownBlank, CleanupSettled
<1>2. ReservedOwned'
  BY DEF ReservedOwned, CleanupSettled
<1>3. PendingExact'
  BY DEF PendingExact, CleanupSettled
<1>4. LiveHasInput'
  BY DEF LiveHasInput, CleanupSettled
<1>5. EntriesSettled'
  BY DEF EntriesSettled, CleanupSettled
<1>6. CleanupSettled'
  BY DEF CleanupSettled, EntriesSettled, ReservedOwned, UnknownBlank
<1>7. KeyOwned'
  BY DEF KeyOwned
<1>8. KeyNamesTask'
  BY DEF KeyNamesTask
<1> QED BY <1>1, <1>2, <1>3, <1>4, <1>5, <1>6, <1>7, <1>8

\* The unchecked write of mark_expired meets a settled task.
LEMMA MarkWriteKeeps ==
  ASSUME NEW c \in Cleaner, TypeOK, AdmissionInv,
         MarkWrite(c)
  PROVE  AdmissionInv'
<1> USE DEF TypeOK, StoreTypeOK, WorkTypeOK, ApiTypeOK, CleanTypeOK,
            AdmissionInv, MarkWrite, CleanFrame, CGoto, Record, storeVars,
            keyVars, dueVars, workVars, apiVars, cleanVars, PreAdmit, Holding,
            Settled, Live, Inputs, Exists, None
<1>1. UnknownBlank'
  BY DEF UnknownBlank, CleanupSettled
<1>2. ReservedOwned'
  BY DEF ReservedOwned, CleanupSettled
<1>3. PendingExact'
  BY DEF PendingExact, CleanupSettled
<1>4. LiveHasInput'
  BY DEF LiveHasInput, CleanupSettled
<1>5. EntriesSettled'
  BY DEF EntriesSettled, CleanupSettled
<1>6. CleanupSettled'
  BY DEF CleanupSettled, EntriesSettled, ReservedOwned, UnknownBlank
<1>7. KeyOwned'
  BY DEF KeyOwned
<1>8. KeyNamesTask'
  BY DEF KeyNamesTask
<1> QED BY <1>1, <1>2, <1>3, <1>4, <1>5, <1>6, <1>7, <1>8

\* The purge phase before its delete.
LEMMA PurgeKeeps ==
  ASSUME NEW c \in Cleaner, NEW t \in Request, TypeOK, AdmissionInv,
         \/ PurgeFiles(c, t)
         \/ DeleteGet(c)
  PROVE  AdmissionInv'
<1> USE DEF TypeOK, StoreTypeOK, WorkTypeOK, ApiTypeOK, CleanTypeOK,
            AdmissionInv, PurgeFiles, DeleteGet, CleanFrame, CGoto,
            RemoveInput, Fault, storeVars, keyVars, dueVars, workVars,
            apiVars, cleanVars, PreAdmit, Holding, Settled, Live, Inputs,
            Exists, None
<1>1. UnknownBlank'
  BY DEF UnknownBlank, CleanupSettled
<1>2. ReservedOwned'
  BY DEF ReservedOwned, CleanupSettled
<1>3. PendingExact'
  BY DEF PendingExact, CleanupSettled
<1>4. LiveHasInput'
  BY DEF LiveHasInput, CleanupSettled
<1>5. EntriesSettled'
  BY DEF EntriesSettled, CleanupSettled
<1>6. CleanupSettled'
  BY DEF CleanupSettled, EntriesSettled, ReservedOwned, UnknownBlank
<1>7. KeyOwned'
  BY DEF KeyOwned
<1>8. KeyNamesTask'
  BY DEF KeyNamesTask
<1> QED BY <1>1, <1>2, <1>3, <1>4, <1>5, <1>6, <1>7, <1>8

\* The delete of a settled task.
LEMMA DeleteWriteKeeps ==
  ASSUME NEW c \in Cleaner, TypeOK, AdmissionInv,
         DeleteWrite(c)
  PROVE  AdmissionInv'
<1> USE DEF TypeOK, StoreTypeOK, WorkTypeOK, ApiTypeOK, CleanTypeOK,
            AdmissionInv, DeleteWrite, CGoto, CNext, DeletedKey, Absent,
            Record, storeVars, keyVars, dueVars, workVars, apiVars, cleanVars,
            PreAdmit, Holding, Settled, Live, Inputs, Exists, None
<1>1. UnknownBlank'
  BY NoTaskAssumption DEF UnknownBlank, CleanupSettled
<1>2. ReservedOwned'
  BY DEF ReservedOwned, CleanupSettled
<1>3. PendingExact'
  BY DEF PendingExact, CleanupSettled
<1>4. LiveHasInput'
  BY DEF LiveHasInput, CleanupSettled
<1>5. EntriesSettled'
  BY DEF EntriesSettled, CleanupSettled
<1>6. CleanupSettled'
  BY DEF CleanupSettled, EntriesSettled, ReservedOwned, UnknownBlank
<1>7. KeyOwned'
  BY DEF KeyOwned
<1>8. KeyNamesTask'
  BY DEF KeyNamesTask
<1> QED BY <1>1, <1>2, <1>3, <1>4, <1>5, <1>6, <1>7, <1>8

\* Orphaned directories and stale metadata.
LEMMA OrphanKeeps ==
  ASSUME NEW c \in Cleaner, NEW t \in Request, TypeOK, AdmissionInv,
         \/ OrphanGet(c, t)
         \/ OrphanDelete(c)
         \/ PruneWrite(c)
  PROVE  AdmissionInv'
<1> USE DEF TypeOK, StoreTypeOK, WorkTypeOK, ApiTypeOK, CleanTypeOK,
            AdmissionInv, OrphanGet, OrphanDelete, PruneWrite, CleanFrame,
            CGoto, CNext, RemoveInput, Fault, storeVars, keyVars, dueVars,
            workVars, apiVars, cleanVars, PreAdmit, Holding, Settled, Live,
            Inputs, Exists, None
<1>1. UnknownBlank'
  BY DEF UnknownBlank, CleanupSettled
<1>2. ReservedOwned'
  BY DEF ReservedOwned, CleanupSettled
<1>3. PendingExact'
  BY DEF PendingExact, CleanupSettled
<1>4. LiveHasInput'
  BY DEF LiveHasInput, CleanupSettled
<1>5. EntriesSettled'
  BY DEF EntriesSettled, CleanupSettled
<1>6. CleanupSettled'
  BY DEF CleanupSettled, EntriesSettled, ReservedOwned, UnknownBlank
<1>7. KeyOwned'
  BY DEF KeyOwned
<1>8. KeyNamesTask'
  BY DEF KeyNamesTask
<1> QED BY <1>1, <1>2, <1>3, <1>4, <1>5, <1>6, <1>7, <1>8

\* The lists a cleanup round works from.
LEMMA RoundKeeps ==
  ASSUME NEW c \in Cleaner, TypeOK, AdmissionInv,
         \/ BeginRound(c)
         \/ NextPhase(c)
  PROVE  AdmissionInv'
<1> USE DEF TypeOK, StoreTypeOK, WorkTypeOK, ApiTypeOK, CleanTypeOK,
            AdmissionInv, BeginRound, NextPhase, CleanFrame, storeVars,
            keyVars, dueVars, workVars, apiVars, cleanVars, PreAdmit, Holding,
            Settled, Live, Inputs, Exists, None
<1>1. UnknownBlank'
  BY DEF UnknownBlank, CleanupSettled
<1>2. ReservedOwned'
  BY DEF ReservedOwned, CleanupSettled
<1>3. PendingExact'
  BY DEF PendingExact, CleanupSettled
<1>4. LiveHasInput'
  BY DEF LiveHasInput, CleanupSettled
<1>5. EntriesSettled'
  BY DEF EntriesSettled, CleanupSettled
<1>6. CleanupSettled'
  <2> DEFINE P == {"expire", "purge", "orphan", "prune"}
  <2>0. UNCHANGED <<rec, pc, cpc, cur>>
    <3>1. CASE BeginRound(c)
      BY <3>1
    <3>2. CASE NextPhase(c)
      <4> HIDE DEF TypeOK, AdmissionInv
      <4> QED BY <3>2
    <3> QED BY <3>1, <3>2
  <2>1. ASSUME NEW ps \in Seq(P), NEW stamp \in SUBSET Request,
               \A t \in stamp : Settled(t), Enter(c, ps, stamp)
        PROVE  CleanupSettled'
    <3>1. \A p \in P : \A t \in PhaseList(p, stamp) :
            /\ t \in Request
            /\ pc[t] \notin PreAdmit
            /\ p # "orphan" => Settled(t)
      BY <2>1, TtlAssumption
      DEF PhaseList, DueExpiring, DuePurge, StaleInputs, StaleMetadata, OrphanAge,
          UnknownBlank, ReservedOwned, EntriesSettled, PendingExact, Entry
    <3>2. PICK i \in 1 .. Len(ps) + 1 :
            IF i <= Len(ps)
              THEN /\ phase' = [phase EXCEPT ![c] = ps[i]]
                   /\ todo' = [todo EXCEPT ![c] = PhaseList(ps[i], stamp)]
                   /\ due' = [due EXCEPT ![c] = IF ps[i] = "expire" THEN stamp ELSE {}]
              ELSE /\ phase' = [phase EXCEPT ![c] = "idle"]
                   /\ todo' = [todo EXCEPT ![c] = {}]
                   /\ due' = [due EXCEPT ![c] = {}]
      BY <2>1 DEF Enter
    <3>3. i <= Len(ps) => ps[i] \in P
      BY <2>1
    <3>4. /\ \A t \in due'[c] : t \in Request /\ Settled(t)
          /\ \A t \in todo'[c] :
               /\ t \in Request
               /\ pc[t] \notin PreAdmit
               /\ phase'[c] # "orphan" => Settled(t)
      <4> HIDE DEF P, Settled, PreAdmit
      <4>1. CASE i <= Len(ps)
        BY <2>1, <3>1, <3>2, <3>3, <4>1
      <4>2. CASE ~(i <= Len(ps))
        BY <3>2, <4>2
      <4> QED BY <4>1, <4>2
    <3>5. \A d \in Cleaner : d # c =>
            due'[d] = due[d] /\ todo'[d] = todo[d] /\ phase'[d] = phase[d]
      BY <3>2
    <3>6. \A t : Settled(t)' = Settled(t)
      BY <2>0
    <3> SUFFICES ASSUME NEW d \in Cleaner
                 PROVE  /\ cpc[d] # "loop" => cur[d] \in Request /\ Settled(cur[d])
                        /\ \A t \in due'[d] : Settled(t)
                        /\ \A t \in todo'[d] :
                             pc[t] \notin PreAdmit /\ (phase'[d] # "orphan" => Settled(t))
      BY <2>0, <3>6 DEF CleanupSettled
    <3> HIDE DEF Settled, PreAdmit
    <3>7. cpc[d] # "loop" => cur[d] \in Request /\ Settled(cur[d])
      BY DEF CleanupSettled
    <3>8. CASE d = c
      BY ONLY <3>4, <3>7, <3>8
    <3>9. CASE d # c
      BY <3>5, <3>9 DEF CleanupSettled
    <3> QED BY <3>8, <3>9
  <2>2. \A t \in DuePurge : t \in Request /\ Settled(t)
    BY DEF DuePurge, EntriesSettled
  <2>3. CASE BeginRound(c)
    <3>1. <<"expire", "purge", "orphan", "prune">> \in Seq(P)
      OBVIOUS
    <3>2. Enter(c, <<"expire", "purge", "orphan", "prune">>, DuePurge)
      BY <2>3
    <3> HIDE DEF P
    <3> QED BY <2>1, <2>2, <3>1, <3>2
  <2>4. CASE NextPhase(c)
    <3>1. /\ <<"purge", "orphan", "prune">> \in Seq(P)
          /\ <<"orphan", "prune">> \in Seq(P)
          /\ <<"prune">> \in Seq(P)
      OBVIOUS
    <3>2. due[c] \in SUBSET Request /\ \A t \in due[c] : Settled(t)
      BY DEF CleanupSettled
    <3>3. \/ Enter(c, <<"purge", "orphan", "prune">>, due[c])
          \/ Enter(c, <<"orphan", "prune">>, {})
          \/ Enter(c, <<"prune">>, {})
      BY <2>4
    <3> HIDE DEF P
    <3> QED BY <2>1, <3>1, <3>2, <3>3
  <2> QED BY <2>3, <2>4
<1>7. KeyOwned'
  BY DEF KeyOwned
<1>8. KeyNamesTask'
  BY DEF KeyNamesTask
<1> QED BY <1>1, <1>2, <1>3, <1>4, <1>5, <1>6, <1>7, <1>8

\* Time.
LEMMA TickKeeps ==
  ASSUME TypeOK, AdmissionInv,
         Tick
  PROVE  AdmissionInv'
<1> USE DEF TypeOK, StoreTypeOK, WorkTypeOK, ApiTypeOK, CleanTypeOK,
            AdmissionInv, Tick, CountDown, Older, OrphanAge, storeVars,
            keyVars, dueVars, workVars, apiVars, cleanVars, PreAdmit, Holding,
            Settled, Live, Inputs, Exists, None
<1>1. UnknownBlank'
  BY NoTaskAssumption DEF UnknownBlank
<1>0. Inputs' = Inputs
  BY DEF Entry
<1>2. ReservedOwned'
  BY <1>0 DEF ReservedOwned
<1>3. PendingExact'
  BY DEF PendingExact, ReservedOwned
<1>4. LiveHasInput'
  BY <1>0 DEF LiveHasInput
<1>5. EntriesSettled'
  BY DEF EntriesSettled, ReservedOwned, UnknownBlank
<1>6. CleanupSettled'
  BY DEF CleanupSettled
<1>7. KeyOwned'
  <2> SUFFICES ASSUME NEW k \in Key, idem'[k] # NoTask
               PROVE  /\ idemTtl'[k] > 0
                      /\ key[idem'[k]] = k
                      /\ idem'[k] \in index => idemTtl'[k] + age'[idem'[k]] = IdemTtl
    BY DEF KeyOwned
  <2>1. idemTtl[k] > 1 /\ idem'[k] = idem[k] /\ idemTtl'[k] = idemTtl[k] - 1
    OBVIOUS
  <2>2. key[idem[k]] = k /\ (idem[k] \in index => idemTtl[k] + age[idem[k]] = IdemTtl)
    BY <2>1 DEF KeyOwned
  <2>3. ASSUME idem[k] \in index
        PROVE  age'[idem[k]] = age[idem[k]] + 1 /\ age[idem[k]] \in Nat
    <3>1. idem[k] \in Request /\ age[idem[k]] \in 0 .. IdemTtl
      BY <2>3
    <3>2. age[idem[k]] < IdemTtl
      BY <2>1, <2>2, <2>3, <3>1, TtlAssumption
    <3>3. age'[idem[k]] = Older(age[idem[k]], IdemTtl)
      BY <2>3, <3>1
    <3> HIDE DEF Older, None
    <3> QED BY <3>1, <3>2, <3>3, OlderGrows, TtlAssumption
  <2>4. idemTtl[k] \in Nat
    OBVIOUS
  <2> QED BY ONLY <2>1, <2>2, <2>3, <2>4, TtlAssumption
<1>8. KeyNamesTask'
  BY TtlAssumption DEF KeyNamesTask, KeyOwned
<1> QED BY <1>1, <1>2, <1>3, <1>4, <1>5, <1>6, <1>7, <1>8

-----------------------------------------------------------------------------
(* Theorems *)

\* Every step of create_task, of execution, of cleanup and of time keeps the
\* types and the invariant.
LEMMA NextKeeps ==
  ASSUME TypeOK, AdmissionInv, [Next]_vars
  PROVE  TypeOK' /\ AdmissionInv'
<1>1. ASSUME NEW r \in Request, ApiNext(r)
      PROVE  TypeOK' /\ AdmissionInv'
  <2>1. TypeOK'
    BY <1>1, ApiTypes
  <2>2. PICK b \in BOOLEAN, k \in Key \cup {NoKey} :
          \/ Submit(r, k) \/ Reject(r) \/ Find(r) \/ FindGet(r) \/ Count(r)
          \/ AdmitReplays(r) \/ ReplayGet(r)
          \/ AdmitFull(r)
          \/ AdmitCreates(r, b)
          \/ Persist(r) \/ PersistRaises(r, b) \/ AttachGet(r) \/ CleanupInput(r)
          \/ AttachWrite(r, b)
          \/ Enqueue(r) \/ EnqueueRaises(r)
          \/ FailGet(r) \/ FailSchedule(r) \/ ApiCrash(r)
          \/ FailWrite(r)
    BY <1>1 DEF ApiNext, ApiStep
  <2>3. AdmissionInv'
    BY <2>2, QueryKeeps, AdmitFullKeeps, AdmitCreatesKeeps, InputKeeps,
       AttachWriteKeeps, EnqueueKeeps, FailKeeps, FailWriteKeeps
  <2> QED BY <2>1, <2>3
<1>2. ASSUME NEW t \in Request, WorkNext(t)
      PROVE  TypeOK' /\ AdmissionInv'
  <2>1. TypeOK'
    BY <1>2, WorkTypes
  <2>2. AdmissionInv'
    BY <1>2, StartKeeps, CloseKeeps, RequeueKeeps, CrashKeeps, LifecycleKeeps
       DEF WorkNext
  <2> QED BY <2>1, <2>2
<1>3. ASSUME NEW c \in Cleaner, CleanNext(c)
      PROVE  TypeOK' /\ AdmissionInv'
  <2>1. TypeOK'
    BY <1>3, CleanTypes DEF AdmissionInv
  <2>2. PICK t \in Request :
          \/ ExpireGet(c, t) \/ ExpireFiles(c) \/ MarkGet(c) \/ MarkZrem(c)
          \/ SchedulePurge(c)
          \/ MarkWrite(c)
          \/ PurgeFiles(c, t) \/ DeleteGet(c)
          \/ DeleteWrite(c)
          \/ OrphanGet(c, t) \/ OrphanDelete(c) \/ PruneWrite(c)
          \/ BeginRound(c) \/ NextPhase(c)
    BY <1>3, RequestAssumption DEF CleanNext
  <2>3. AdmissionInv'
    BY <2>2, ExpireKeeps, MarkWriteKeeps, PurgeKeeps, DeleteWriteKeeps, OrphanKeeps,
       RoundKeeps
  <2> QED BY <2>1, <2>3
<1>4. CASE Tick
  BY <1>4, TickTypes, TickKeeps
<1>5. CASE UNCHANGED vars
  BY <1>5 DEF vars, TypeOK, StoreTypeOK, WorkTypeOK, ApiTypeOK, CleanTypeOK,
     storeVars, keyVars, dueVars, workVars, apiVars, cleanVars, AdmissionInv,
     UnknownBlank, ReservedOwned, PendingExact, LiveHasInput, EntriesSettled,
     CleanupSettled, KeyOwned, KeyNamesTask, Settled, Live, Inputs, Exists
<1> QED BY <1>1, <1>2, <1>3, <1>4, <1>5 DEF Next

\* Concurrent create_task calls, workers, recoveries and cleanup rounds, with
\* any faults, keep out of each other's way: ids that were not admitted are
\* untouched, a reservation belongs to its request until it is enqueued, the
\* PENDING index is exact, and only settled tasks are expired and purged.
THEOREM AdmissionHolds == Spec => [](TypeOK /\ AdmissionInv)
<1>1. Init => TypeOK /\ AdmissionInv
  BY InitOK
<1>2. TypeOK /\ AdmissionInv /\ [Next]_vars => (TypeOK /\ AdmissionInv)'
  BY NextKeeps
<1> QED BY <1>1, <1>2, PTL DEF Spec

\* The variables of the store, the handlers and the cleanup rounds keep their
\* types.
THEOREM TypeCorrect == Spec => []TypeOK
BY AdmissionHolds, PTL

\* _ADMIT_IDEMPOTENT_SCRIPT: while its TTL runs, the key of an indexed task
\* leads back to that task, unless the delete of an older task took it away.
THEOREM KeyNamesTaskHolds == Spec => []KeyNamesTask
<1>1. AdmissionInv => KeyNamesTask
  BY DEF AdmissionInv
<1> QED BY <1>1, AdmissionHolds, PTL

\* A task that waits in the broker or runs has its input bound and on disk,
\* whatever failing requests and cleanup rounds do at the same time.
THEOREM InputKeptHolds == Spec => []InputKept
<1>1. TypeOK /\ AdmissionInv => InputKept
  BY DEF AdmissionInv, LiveHasInput, InputKept, Live
<1> QED BY <1>1, AdmissionHolds, PTL

-----------------------------------------------------------------------------
(* The pending limit *)

\* The tasks that wait for their first execution.
Fresh == {t \in pending : rec[t].retry = 0}

\* Only the admission script adds to them.
LEMMA FreshStep ==
  ASSUME TypeOK, AdmissionInv, [Next]_vars,
         ~ \E r \in Request, b \in BOOLEAN : AdmitCreates(r, b)
  PROVE  Fresh' \subseteq Fresh
<1> USE DEF Fresh, TypeOK, StoreTypeOK, Record, AdmissionInv, storeVars
<1>1. ASSUME NEW r \in Request, ApiNext(r)
      PROVE  Fresh' \subseteq Fresh
  <2>1. CASE FailWrite(r)
    BY <2>1 DEF FailWrite
  <2>2. CASE \E b \in BOOLEAN : AttachWrite(r, b)
    <3>1. rec[r].retry = 0 /\ pending' = pending
      BY <2>2 DEF AttachWrite, ReservedOwned, Holding
    <3>2. \A t \in Request \ {r} : rec'[t] = rec[t]
      BY <2>2 DEF AttachWrite
    <3> QED BY <3>1, <3>2
  <2>3. CASE UNCHANGED <<rec, pending>>
    BY <2>3
  <2> QED BY <1>1, <2>1, <2>2, <2>3
      DEF ApiNext, ApiStep, Submit, Reject, Find, FindGet, Count, AdmitReplays,
          AdmitFull, ReplayGet, Persist, PersistRaises, AttachGet, Enqueue,
          EnqueueRaises, CleanupInput, FailGet, FailSchedule, ApiCrash
<1>2. ASSUME NEW t \in Request, WorkNext(t)
      PROVE  Fresh' \subseteq Fresh
  <2>1. CASE Start(t)
    BY <2>1 DEF Start
  <2>2. CASE \E s \in Closed : Close(t, s)
    <3>1. t \notin pending /\ pending' = pending
      BY <2>2 DEF Close, PendingExact
    <3>2. \A u \in Request \ {t} : rec'[u] = rec[u]
      BY <2>2 DEF Close
    <3> QED BY <3>1, <3>2
  <2>3. CASE Requeue(t)
    <3>1. rec'[t].retry = rec[t].retry + 1 /\ rec[t].retry \in Nat
      BY <2>3 DEF Requeue
    <3>2. pending' = pending \cup {t} /\ \A u \in Request \ {t} : rec'[u] = rec[u]
      BY <2>3 DEF Requeue
    <3> QED BY <3>1, <3>2
  <2>4. CASE UNCHANGED <<rec, pending>>
    BY <2>4
  <2> QED BY <1>2, <2>1, <2>2, <2>3, <2>4
      DEF WorkNext, Drop, ScheduleExpiry, WorkerCrash, ClearLifecycle, Dispatch
<1>3. ASSUME NEW c \in Cleaner, CleanNext(c)
      PROVE  Fresh' \subseteq Fresh
  <2>1. CASE MarkWrite(c)
    <3>1. cur[c] \in Request /\ cur[c] \notin pending /\ pending' \subseteq pending
      BY <2>1 DEF MarkWrite, CleanupSettled, Settled, PendingExact
    <3>2. \A u \in Request \ {cur[c]} : rec'[u] = rec[u]
      BY <2>1 DEF MarkWrite
    <3> QED BY <3>1, <3>2
  <2>2. CASE DeleteWrite(c)
    <3>1. pending' = pending \ {cur[c]}
      BY <2>2 DEF DeleteWrite
    <3>2. \A u \in Request \ {cur[c]} : rec'[u] = rec[u]
      BY <2>2 DEF DeleteWrite
    <3> QED BY <3>1, <3>2
  <2>3. CASE PruneWrite(c)
    BY <2>3 DEF PruneWrite
  <2>4. CASE UNCHANGED <<rec, pending>>
    BY <2>4
  <2> QED BY <1>3, <2>1, <2>2, <2>3, <2>4
      DEF CleanNext, BeginRound, NextPhase, ExpireGet, ExpireFiles, MarkGet, MarkZrem,
          SchedulePurge, PurgeFiles, DeleteGet, OrphanGet, OrphanDelete
<1>4. CASE UNCHANGED <<rec, pending>>
  BY <1>4
<1> QED BY <1>1, <1>2, <1>3, <1>4 DEF Next, Tick, vars

\* The set of fresh tasks is finite, and no larger than the PENDING index.
LEMMA FreshFinite ==
  ASSUME TypeOK
  PROVE  /\ IsFiniteSet(Fresh) /\ Cardinality(Fresh) \in Nat
         /\ Cardinality(pending) \in Nat
         /\ Cardinality(Fresh) <= Cardinality(pending)
<1>1. IsFiniteSet(pending)
  <2>1. pending \in SUBSET Request
    BY DEF TypeOK, StoreTypeOK
  <2> QED BY <2>1, RequestAssumption, FS_Subset
<1>2. Fresh \in SUBSET pending
  BY DEF Fresh
<1>3. IsFiniteSet(Fresh) /\ Cardinality(Fresh) <= Cardinality(pending)
  BY <1>1, <1>2, FS_Subset
<1> QED BY <1>1, <1>3, FS_CardinalityType

\* The admission scripts check the limit in the step that registers the task:
\* however many requests have passed the early check, the tasks that wait for
\* their first execution never exceed TASK_PENDING_LIMIT.
THEOREM FreshPendingBoundedHolds == Spec => []FreshPendingBounded
<1> USE PendingLimitAssumption
<1>1. Init => FreshPendingBounded
  <2> SUFFICES ASSUME Init PROVE FreshPendingBounded
    OBVIOUS
  <2>1. {t \in pending : rec[t].retry = 0} = {}
    BY DEF Init
  <2> QED BY <2>1, FS_EmptySet DEF FreshPendingBounded
<1>2. ASSUME TypeOK, AdmissionInv, FreshPendingBounded, [Next]_vars
      PROVE  FreshPendingBounded'
  <2>0. TypeOK'
    BY <1>2, NextKeeps
  <2>1. CASE \E r \in Request, b \in BOOLEAN : AdmitCreates(r, b)
    <3>1. PICK r \in Request, b \in BOOLEAN : AdmitCreates(r, b)
      BY <2>1
    <3>2. Fresh' \subseteq Fresh \cup {r}
      <4>1. pending' = pending \cup {r} /\ \A u \in Request \ {r} : rec'[u] = rec[u]
        BY <1>2, <3>1 DEF AdmitCreates, Admit, TypeOK, StoreTypeOK
      <4>2. pending \subseteq Request
        BY <1>2 DEF TypeOK, StoreTypeOK
      <4> QED BY <4>1, <4>2 DEF Fresh
    <3>3. Cardinality(pending) < PendingLimit
      <4>1. ~(Cardinality(pending) >= PendingLimit)
        BY <3>1 DEF AdmitCreates, QueueFull
      <4> QED BY <1>2, <4>1, FreshFinite
    <3>4. /\ IsFiniteSet(Fresh \cup {r})
          /\ Cardinality(Fresh \cup {r}) <= Cardinality(Fresh) + 1
      <4>1. IsFiniteSet(Fresh) /\ Cardinality(Fresh) \in Nat
        BY <1>2, FreshFinite
      <4>2. /\ IsFiniteSet(Fresh \cup {r})
            /\ \/ Cardinality(Fresh \cup {r}) = Cardinality(Fresh)
               \/ Cardinality(Fresh \cup {r}) = Cardinality(Fresh) + 1
        BY <4>1, FS_AddElement, Zenon
      <4> QED BY <4>1, <4>2
    <3>5. Cardinality(Fresh') <= Cardinality(Fresh \cup {r})
      BY <3>2, <3>4, FS_Subset
    <3>6. Cardinality(Fresh') \in Nat /\ Cardinality(Fresh \cup {r}) \in Nat
      BY <3>2, <3>4, FS_Subset, FS_CardinalityType
    <3>7. Cardinality(Fresh') <= PendingLimit
      BY <1>2, <3>3, <3>4, <3>5, <3>6, FreshFinite
    <3> QED BY <3>7 DEF Fresh, FreshPendingBounded
  <2>2. CASE ~ \E r \in Request, b \in BOOLEAN : AdmitCreates(r, b)
    <3>1. Fresh' \subseteq Fresh
      BY <1>2, <2>2, FreshStep
    <3>2. Cardinality(Fresh') <= Cardinality(Fresh) /\ Cardinality(Fresh') \in Nat
      BY <1>2, <3>1, FreshFinite, FS_Subset, FS_CardinalityType
    <3>3. Cardinality(Fresh) <= PendingLimit
      BY <1>2 DEF Fresh, FreshPendingBounded
    <3>4. Cardinality(Fresh') <= PendingLimit
      BY <1>2, <3>2, <3>3, FreshFinite
    <3> QED BY <3>4 DEF Fresh, FreshPendingBounded
  <2> QED BY <2>1, <2>2
<1> QED BY <1>1, <1>2, AdmissionHolds, PTL DEF Spec

-----------------------------------------------------------------------------
(* Contract bytes, when directories can be removed *)

\* Cleanup has removed the input of the task whose record it is about to
\* change, and a directory without a record does not come into being.
InputsTracked ==
  /\ OnlyWinnerHoldsInput
  /\ \A t \in Inputs : Exists(t)
  /\ \A c \in Cleaner :
       /\ cpc[c] \in {"mark_get", "mark_write", "mark_zrem", "schedule",
                      "delete_get", "delete_write"} => cur[c] \notin Inputs
       /\ phase[c] = "prune" => todo[c] \cap Inputs = {}

\* A step that only registers tasks or removes inputs keeps it.
LEMMA TrackedMono ==
  ASSUME InputsTracked, Inputs' \subseteq Inputs, index \subseteq index',
         \A t \in Request : Exists(t) => Exists(t)',
         UNCHANGED <<cpc, cur, phase, todo>>
  PROVE  InputsTracked'
<1>1. Inputs \subseteq Request
  BY DEF Inputs
<1>2. Inputs' \subseteq index' /\ \A t \in Inputs' : Exists(t)'
  BY <1>1 DEF InputsTracked, OnlyWinnerHoldsInput
<1> HIDE DEF Inputs, Exists
<1> QED BY <1>2 DEF InputsTracked, OnlyWinnerHoldsInput

\* The steps of create_task: only a reservation in the hands of its request
\* gets a directory.
LEMMA ApiTracked ==
  ASSUME TypeOK, AdmissionInv, InputsTracked, NEW r \in Request, ApiNext(r)
  PROVE  InputsTracked'
<1> USE DEF TypeOK, StoreTypeOK, ApiTypeOK, Record, AdmissionInv, ApiFrame, ApiGoto,
            storeVars, cleanVars, Inputs, Exists
<1>1. ASSUME NEW b \in BOOLEAN, Persist(r) \/ PersistRaises(r, b)
      PROVE  InputsTracked'
  <2>1. /\ r \in index /\ Exists(r)
        /\ \A c \in Cleaner : /\ cpc[c] # "loop" => cur[c] # r
                              /\ phase[c] # "orphan" => r \notin todo[c]
    BY <1>1 DEF Persist, PersistRaises, ReservedOwned, Holding, CleanupSettled, Settled
  <2>2. /\ Inputs' \subseteq Inputs \cup {r}
        /\ UNCHANGED <<rec, index, cpc, cur, phase, todo>>
    BY <1>1 DEF Persist, PersistRaises
  <2>3. Inputs' \subseteq index' /\ \A t \in Inputs' : Exists(t)'
    <3> HIDE DEF Inputs
    <3> QED BY <2>1, <2>2 DEF InputsTracked, OnlyWinnerHoldsInput
  <2> HIDE DEF Inputs, Exists
  <2> QED BY <2>1, <2>2, <2>3 DEF InputsTracked, OnlyWinnerHoldsInput
<1>2. CASE /\ Inputs' \subseteq Inputs /\ index \subseteq index'
           /\ \A t \in Request : Exists(t) => Exists(t)'
           /\ UNCHANGED <<cpc, cur, phase, todo>>
  <2> HIDE DEF Inputs, Exists
  <2> QED BY <1>2, TrackedMono
<1>3. ASSUME NEW b \in BOOLEAN, AdmitCreates(r, b)
      PROVE  InputsTracked'
  BY <1>2, <1>3 DEF AdmitCreates, Admit, Reserved
<1>4. ASSUME NEW b \in BOOLEAN, AttachWrite(r, b)
      PROVE  InputsTracked'
  BY <1>2, <1>4 DEF AttachWrite, ReservedOwned, Holding
<1>5. CASE CleanupInput(r)
  BY <1>2, <1>5 DEF CleanupInput, RemoveInput
<1>6. CASE FailWrite(r)
  BY <1>2, <1>6 DEF FailWrite
<1>7. CASE UNCHANGED <<rec, index, dirAge, cpc, cur, phase, todo>>
  BY <1>2, <1>7
<1> QED BY <1>1, <1>3, <1>4, <1>5, <1>6, <1>7
    DEF ApiNext, ApiStep, Submit, Reject, Find, FindGet, Count, AdmitReplays, AdmitFull,
        ReplayGet, AttachGet, Enqueue, EnqueueRaises, FailGet, FailSchedule, ApiCrash

\* Execution neither writes nor removes inputs.
LEMMA WorkTracked ==
  ASSUME TypeOK, InputsTracked, NEW t \in Request, WorkNext(t)
  PROVE  InputsTracked'
<1>1. /\ UNCHANGED <<dirAge, index, cpc, cur, phase, todo>>
      /\ \/ rec' = rec
         \/ \E s \in Status : rec' = [rec EXCEPT ![t].status = s]
         \/ rec' = [rec EXCEPT ![t].status = "PENDING", ![t].retry = @ + 1]
  BY DEF WorkNext, Start, Drop, Close, ScheduleExpiry, WorkerCrash, Requeue,
     ClearLifecycle, Dispatch, WorkFrame, cleanVars, Status
<1>2. \A u \in Request : Exists(u) => Exists(u)'
  BY <1>1 DEF TypeOK, StoreTypeOK, Record, Exists, Status, Closed
<1>3. Inputs' = Inputs
  BY <1>1 DEF Inputs
<1> QED BY <1>1, <1>2, <1>3, TrackedMono

\* The steps of cleanup: the directory goes before the record, and the record
\* before the index entry.
LEMMA CleanTracked ==
  ASSUME "rmtree" \notin FaultKinds,
         TypeOK, AdmissionInv, InputsTracked, NEW c \in Cleaner, CleanNext(c)
  PROVE  InputsTracked'
<1> USE DEF TypeOK, StoreTypeOK, CleanTypeOK, Record, AdmissionInv, CleanFrame, CGoto,
            CNext, storeVars, Inputs, Exists, InputsTracked, OnlyWinnerHoldsInput
<1>1. ASSUME NEW t \in Request, ExpireGet(c, t)
      PROVE  InputsTracked'
  BY <1>1 DEF ExpireGet, ExpireAction
<1>2. ASSUME NEW t \in Request, PurgeFiles(c, t)
      PROVE  InputsTracked'
  BY <1>2 DEF PurgeFiles, RemoveInput, Fault
<1>3. ASSUME NEW t \in Request, OrphanGet(c, t)
      PROVE  InputsTracked'
  <2>1. UNCHANGED <<rec, index, dirAge, phase>> /\ phase[c] = "orphan"
    BY <1>3 DEF OrphanGet
  <2>2. CASE todo' = [todo EXCEPT ![c] = @ \ {t}] /\ UNCHANGED <<cpc, cur>>
    BY <2>1, <2>2
  <2>3. CASE /\ cur' = [cur EXCEPT ![c] = t] /\ UNCHANGED todo
             /\ cpc' = [cpc EXCEPT ![c] = "orphan_delete"]
    BY <2>1, <2>3
  <2>4. QED  BY <1>3, <2>2, <2>3 DEF OrphanGet
<1>4. CASE ExpireFiles(c)
  <2>1. /\ cur[c] \in Request /\ dirAge' = [dirAge EXCEPT ![cur[c]] = None]
        /\ cpc' = [cpc EXCEPT ![c] = "mark_get"]
        /\ UNCHANGED <<rec, index, cur, phase, todo>>
    BY <1>4 DEF ExpireFiles, RemoveInput, Fault, CleanupSettled
  <2>2. QED  BY <1>4, <2>1
<1>5. CASE MarkGet(c)
  BY <1>5 DEF MarkGet
<1>6. CASE MarkWrite(c)
  BY <1>6 DEF MarkWrite
<1>7. CASE MarkZrem(c)
  BY <1>7 DEF MarkZrem
<1>8. CASE SchedulePurge(c)
  BY <1>8 DEF SchedulePurge
<1>9. CASE DeleteGet(c)
  BY <1>9 DEF DeleteGet
<1>10. CASE DeleteWrite(c)
  BY <1>10 DEF DeleteWrite, Absent, CleanupSettled
<1>11. CASE OrphanDelete(c)
  BY <1>11 DEF OrphanDelete, RemoveInput, Fault, CleanupSettled
<1>12. CASE PruneWrite(c)
  BY <1>12 DEF PruneWrite
<1>13. CASE BeginRound(c) \/ NextPhase(c)
  <2>1. PICK ps, stamp : Enter(c, ps, stamp)
    BY <1>13 DEF BeginRound, NextPhase
  <2>2. UNCHANGED <<rec, index, dirAge, cpc, cur>>
    BY <1>13 DEF BeginRound, NextPhase
  <2>3. \A d \in Cleaner : phase'[d] = "prune" => todo'[d] \cap Inputs = {}
    <3>1. PhaseList("prune", stamp) \cap Inputs = {}
      BY DEF PhaseList, StaleMetadata
    <3>2. PICK p, T : /\ phase' = [phase EXCEPT ![c] = p]
                      /\ todo' = [todo EXCEPT ![c] = T]
                      /\ p = "prune" => T = PhaseList("prune", stamp)
      <4>1. PICK i \in 1 .. Len(ps) + 1 :
              IF i <= Len(ps)
                THEN /\ phase' = [phase EXCEPT ![c] = ps[i]]
                     /\ todo' = [todo EXCEPT ![c] = PhaseList(ps[i], stamp)]
                ELSE /\ phase' = [phase EXCEPT ![c] = "idle"]
                     /\ todo' = [todo EXCEPT ![c] = {}]
        BY <2>1 DEF Enter
      <4>2. CASE i <= Len(ps)
        <5> WITNESS ps[i], PhaseList(ps[i], stamp)
        <5> QED BY ONLY <4>1, <4>2
      <4>3. CASE ~(i <= Len(ps))
        <5> WITNESS "idle", {}
        <5> QED BY ONLY <4>1, <4>3
      <4> QED BY <4>2, <4>3
    <3> HIDE DEF Inputs
    <3> QED BY <3>1, <3>2
  <2> QED BY <2>2, <2>3
<1> QED BY <1>1, <1>2, <1>3, <1>4, <1>5, <1>6, <1>7, <1>8, <1>9, <1>10, <1>11, <1>12,
           <1>13
    DEF CleanNext

\* Time makes no directory.
LEMMA TickTracked ==
  ASSUME TypeOK, InputsTracked, Tick
  PROVE  InputsTracked'
<1>1. Inputs' = Inputs
  BY TtlAssumption
  DEF TypeOK, StoreTypeOK, Tick, Older, Entry, OrphanAge, None, Inputs
<1>2. UNCHANGED <<rec, index, cpc, cur, phase, todo>>
  BY DEF Tick, storeVars, cleanVars
<1>3. \A t \in Request : Exists(t) => Exists(t)'
  BY <1>2 DEF Exists
<1> QED BY <1>1, <1>2, <1>3, TrackedMono

\* Only the winner of an admission writes contract bytes, and cleanup removes
\* them before the index entry: as long as removing a directory works, no
\* refused or replayed request, crash or purge leaves bytes of a contract that
\* the task index does not know.
THEOREM OnlyWinnerHoldsInputHolds ==
  ASSUME "rmtree" \notin FaultKinds
  PROVE  Spec => []OnlyWinnerHoldsInput
<1>1. Init => InputsTracked
  BY DEF Init, InputsTracked, OnlyWinnerHoldsInput, Inputs
<1>2. TypeOK /\ AdmissionInv /\ InputsTracked /\ [Next]_vars => InputsTracked'
  <2> SUFFICES ASSUME TypeOK, AdmissionInv, InputsTracked, [Next]_vars
               PROVE  InputsTracked'
    OBVIOUS
  <2>1. CASE UNCHANGED vars
    BY <2>1 DEF vars, storeVars, cleanVars, InputsTracked, OnlyWinnerHoldsInput, Inputs,
       Exists
  <2> QED BY <2>1, ApiTracked, WorkTracked, CleanTracked, TickTracked DEF Next
<1>3. InputsTracked => OnlyWinnerHoldsInput
  BY DEF InputsTracked
<1> QED BY <1>1, <1>2, <1>3, AdmissionHolds, PTL DEF Spec
=============================================================================
