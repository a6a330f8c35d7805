----------------------- MODULE ModelTransport_proofs -----------------------
(***************************************************************************)
(* Theorems about ModelTransport: the permits of the circuit breaker and    *)
(* the slots of the concurrency gate are accounted for, for any number of   *)
(* threads, threshold, attempts and limits.                                 *)
(***************************************************************************)
EXTENDS ModelTransport, FiniteSetTheorems, TLAPS

State  == {"closed", "open", "half_open"}
Pc     == {"idle", "slot", "queue", "acquired", "call", "leave", "release"}
Reply  == {"ok", "permanent", "temporary", "other"}
Permit == [gen: Nat, probe: BOOLEAN]

\* What the arguments below need of the types.
TransportTypeOK ==
  /\ state \in State /\ probe \in BOOLEAN /\ generation \in Nat
  /\ pc \in [Thread -> Pc] /\ permit \in [Thread -> Permit]
  /\ answer \in [Thread -> Reply]
  /\ limit \in Limits /\ free \in Nat

\* The permit of t is one to probe in the present period.
HoldsProbe(t) == permit[t].probe /\ Current(t)

\* No permit is of a later period than the present one, so that entering
\* half-open, which opens a period, leaves nobody with a permit to probe but
\* the thread that enters.
PermitsIssued ==
  \A t \in Thread : /\ permit[t].gen <= generation
                    /\ pc[t] = "idle" => permit[t] = NoPermit

\* A probe whose success is recorded has ended half-open.
SuccessRecorded ==
  \A t \in Thread : pc[t] \in {"leave", "release"} /\ answer[t] = "ok" /\ HoldsProbe(t)
    => state # "half_open"

\* In half-open, the mark of the probe is that of the one thread that holds it.
ProbeMarked ==
  state = "half_open" =>
    /\ probe => \E t \in Thread : \A u \in Thread : HoldsProbe(u) <=> u = t
    /\ ~probe => \A u \in Thread : ~HoldsProbe(u)

ProbeInv == PermitsIssued /\ SuccessRecorded /\ ProbeMarked

-----------------------------------------------------------------------------
(* Types *)

LEMMA TypeStep ==
  ASSUME TransportAssumption, TransportTypeOK, [Next]_vars
  PROVE  TransportTypeOK'
  <1> USE DEF TransportTypeOK, TransportAssumption, breaker, gate, State, Pc, Permit
  <1>1. ASSUME NEW t \in Thread, Admit(t)  PROVE TransportTypeOK'
    <2>1. state' \in State /\ probe' \in BOOLEAN /\ generation' \in Nat
      <3> HIDE DEF Permit, Pc
      <3>1. CASE state = "closed"  BY <1>1, <3>1 DEF Admit
      <3>2. CASE state = "open"  BY <1>1, <3>2 DEF Admit
      <3>3. CASE state = "half_open"  BY <1>1, <3>3 DEF Admit
      <3>4. QED  BY <3>1, <3>2, <3>3
    <2>2. UNCHANGED <<limit, free, answer>> /\ pc' = [pc EXCEPT ![t] = "slot"]
      BY <1>1 DEF Admit
    <2>3. PICK p \in Permit : permit' = [permit EXCEPT ![t] = p]
      <3>1. \A g \in Nat, b \in BOOLEAN : [gen |-> g, probe |-> b] \in Permit
        OBVIOUS
      <3> HIDE DEF Permit
      <3>2. QED  BY <1>1, <2>1, <3>1 DEF Admit
    <2> HIDE DEF Permit
    <2>4. permit' \in [Thread -> Permit]
      BY <2>3
    <2>5. QED  BY <2>1, <2>2, <2>4
  <1>2. ASSUME NEW t \in Thread, Refuse(t)  PROVE TransportTypeOK'
    BY <1>2 DEF Refuse, vars
  <1>3. ASSUME NEW t \in Thread, Wait(t) \/ Activate(t) \/ Leave(t)  PROVE TransportTypeOK'
    BY <1>3 DEF Wait, Activate, Leave
  <1>4. ASSUME NEW t \in Thread, Acquire(t)  PROVE TransportTypeOK'
    BY <1>4 DEF Acquire
  <1>5. ASSUME NEW t \in Thread, QueueTimeout(t)  PROVE TransportTypeOK'
    BY <1>5 DEF QueueTimeout, Abort, NoPermit
  <1>6. ASSUME NEW t \in Thread, NEW a \in Reply, Answer(t, a)  PROVE TransportTypeOK'
    BY <1>6 DEF Answer, RecordSuccess
  <1>7. ASSUME NEW t \in Thread, Release(t)  PROVE TransportTypeOK'
    <2>1. state' \in State /\ probe' \in BOOLEAN /\ generation' \in Nat
      <3> HIDE DEF Permit, Pc
      <3>1. \/ UNCHANGED breaker
            \/ RecordSuccess(t) \/ RecordFailure(t) \/ Abort(t)
        BY <1>7 DEF Release, Reply
      <3>2. CASE UNCHANGED breaker
        BY <3>2
      <3>3. CASE RecordSuccess(t)
        BY <3>3 DEF RecordSuccess
      <3>4. CASE RecordFailure(t)
        <4>1. OpenLocked \/ UNCHANGED <<state, probe, generation>>
          BY <3>4 DEF RecordFailure
        <4>2. state' \in State /\ generation' \in Nat
          BY <4>1 DEF OpenLocked
        <4>3. probe' \in BOOLEAN
          BY <4>1 DEF OpenLocked
        <4>4. QED  BY <4>2, <4>3
      <3>5. CASE Abort(t)
        BY <3>5 DEF Abort
      <3>6. QED  BY <3>1, <3>2, <3>3, <3>4, <3>5
    <2>2. UNCHANGED <<limit, answer>> /\ free' \in Nat
      BY <1>7 DEF Release, FreeSlot
    <2>3. pc' \in [Thread -> Pc] /\ permit' \in [Thread -> Permit]
      <3>1. NoPermit \in Permit
        BY DEF NoPermit
      <3> HIDE DEF Permit
      <3>2. permit' = permit \/ permit' = [permit EXCEPT ![t] = NoPermit]
        <4>1. CASE answer[t] = "temporary" /\ attempt[t] < MaxAttempts
          BY <1>7, <4>1 DEF Release
        <4>2. CASE ~(answer[t] = "temporary" /\ attempt[t] < MaxAttempts)
          BY <1>7, <4>2 DEF Release
        <4>3. QED  BY <4>1, <4>2
      <3>3. \E l \in Pc : pc' = [pc EXCEPT ![t] = l]
        BY <1>7 DEF Release
      <3>4. QED  BY <3>1, <3>2, <3>3
    <2>4. QED  BY <2>1, <2>2, <2>3
  <1>8. ASSUME NEW t \in Thread, ReleaseRaises(t)  PROVE TransportTypeOK'
    BY <1>8 DEF ReleaseRaises, Abort, NoPermit
  <1>9. CASE Cool
    BY <1>9 DEF Cool
  <1>10. ASSUME NEW n \in Limits, UpdatePolicy(n)  PROVE TransportTypeOK'
    BY <1>10 DEF UpdatePolicy
  <1>11. CASE UNCHANGED vars
    BY <1>11 DEF vars
  <1>12. QED
    BY <1>1, <1>2, <1>3, <1>4, <1>5, <1>6, <1>7, <1>8, <1>9, <1>10, <1>11
       DEF Next, Step, Reply

-----------------------------------------------------------------------------
(* The breaker *)

\* Steps that leave breaker and permits alone, and put nobody in front of
\* leaving its slot.
LEMMA SamePermits ==
  ASSUME TransportTypeOK, ProbeInv, UNCHANGED <<state, probe, generation, permit>>,
         \A t \in Thread : /\ pc'[t] = "idle" => pc[t] = "idle"
                           /\ pc'[t] \in {"leave", "release"} =>
                                pc[t] \in {"leave", "release"} /\ answer'[t] = answer[t]
  PROVE  ProbeInv'
  BY DEF ProbeInv, PermitsIssued, SuccessRecorded, ProbeMarked, HoldsProbe, Current

\* A call ends: t gives its permit back, and what it does to the breaker is
\* nothing, giving the probe back, or leaving half-open for a verdict.
LEMMA CallEnds ==
  ASSUME TransportTypeOK, ProbeInv, NEW t \in Thread,
         pc' = [pc EXCEPT ![t] = "idle"], permit' = [permit EXCEPT ![t] = NoPermit],
         UNCHANGED answer,
         \/ /\ UNCHANGED <<state, generation, probe>>
            /\ HoldsProbe(t) => state # "half_open"
         \/ Abort(t)
         \/ RecordSuccess(t)
         \/ RecordFailure(t)
  PROVE  ProbeInv'
  <1> USE DEF HoldsProbe, Current, breaker, TransportTypeOK
  <1>1. /\ permit'[t] = NoPermit /\ pc'[t] = "idle"
        /\ \A u \in Thread \ {t} : permit'[u] = permit[u] /\ pc'[u] = pc[u]
    OBVIOUS
  <1>2. generation' >= generation /\ generation' \in Nat
    <2>1. generation' = generation \/ generation' = generation + 1
      BY DEF Abort, RecordSuccess, RecordFailure, OpenLocked
    <2>2. QED  BY <2>1
  <1>3. PermitsIssued'
    BY <1>1, <1>2 DEF ProbeInv, PermitsIssued, NoPermit, Permit
  <1>4. /\ state' = "half_open" => state = "half_open" /\ generation' = generation
        /\ state' = "half_open" => probe' = IF HoldsProbe(t) THEN FALSE ELSE probe
    <2>1. CASE UNCHANGED <<state, generation, probe>> /\ (HoldsProbe(t) => state # "half_open")
      BY <2>1
    <2>2. CASE Abort(t)
      BY <2>2 DEF Abort
    <2>3. CASE RecordSuccess(t)
      BY <2>3 DEF RecordSuccess
    <2>4. CASE RecordFailure(t)
      BY <2>4 DEF RecordFailure, OpenLocked
    <2>5. QED  BY <2>1, <2>2, <2>3, <2>4
  <1>5. ~HoldsProbe(t)'
    BY <1>1 DEF NoPermit
  <1>6. state' = "half_open" =>
          \A u \in Thread \ {t} : HoldsProbe(u)' <=> HoldsProbe(u)
    BY <1>1, <1>4
  <1>7. SuccessRecorded'
    BY <1>1, <1>4, <1>5, <1>6 DEF ProbeInv, SuccessRecorded
  <1>8. ProbeMarked'
    BY <1>4, <1>5, <1>6 DEF ProbeInv, ProbeMarked
  <1>9. QED  BY <1>3, <1>7, <1>8 DEF ProbeInv

\* before_call hands out a permit.
LEMMA AdmitKeeps ==
  ASSUME TransportTypeOK, ProbeInv, NEW t \in Thread, Admit(t)
  PROVE  ProbeInv'
  <1> USE DEF HoldsProbe, Current, breaker, TransportTypeOK
  <1>1. /\ permit'[t].gen = generation' /\ pc'[t] = "slot" /\ UNCHANGED answer
        /\ \A u \in Thread \ {t} : permit'[u] = permit[u] /\ pc'[u] = pc[u]
        /\ generation' >= generation /\ generation' \in Nat
    BY DEF Admit
  <1>2. PermitsIssued'
    BY <1>1 DEF ProbeInv, PermitsIssued, Permit
  <1>3. state' = "half_open" =>
          /\ probe' /\ HoldsProbe(t)' /\ \A u \in Thread \ {t} : ~HoldsProbe(u)'
    <2>1. CASE state = "closed"
      BY <2>1 DEF Admit
    <2>2. CASE state = "open"
      <3>1. generation' = generation + 1 /\ probe' /\ permit'[t].probe
        BY <2>2 DEF Admit
      <3>2. \A u \in Thread \ {t} : permit'[u].gen <= generation /\ permit'[u].gen \in Nat
        BY <1>1 DEF ProbeInv, PermitsIssued, Permit
      <3>3. QED  BY <1>1, <3>1, <3>2
    <2>3. CASE state = "half_open"
      <3>1. ~probe /\ probe' /\ permit'[t].probe /\ generation' = generation
        BY <2>3 DEF Admit
      <3>2. QED  BY <1>1, <2>3, <3>1 DEF ProbeInv, ProbeMarked
    <2>4. QED  BY <2>1, <2>2, <2>3 DEF State
  <1>4. SuccessRecorded'
    BY <1>1, <1>3 DEF SuccessRecorded
  <1>5. ProbeMarked'
    BY <1>3 DEF ProbeMarked
  <1>6. QED  BY <1>2, <1>4, <1>5 DEF ProbeInv

\* The provider's answer: a success of the probe ends half-open at once.
LEMMA AnswerKeeps ==
  ASSUME TransportTypeOK, ProbeInv, NEW t \in Thread, NEW a \in Reply, Answer(t, a)
  PROVE  ProbeInv'
  <1> USE DEF HoldsProbe, Current, breaker, TransportTypeOK
  <1>1. /\ UNCHANGED <<permit, generation>>
        /\ pc'[t] = "leave" /\ answer'[t] = a
        /\ \A u \in Thread \ {t} : pc'[u] = pc[u] /\ answer'[u] = answer[u]
    BY DEF Answer, RecordSuccess
  <1>2. state' = "half_open" => /\ state = "half_open" /\ probe' = probe
                                /\ a = "ok" => ~HoldsProbe(t)
    BY DEF Answer, RecordSuccess
  <1>3. PermitsIssued'
    BY <1>1 DEF ProbeInv, PermitsIssued
  <1>4. SuccessRecorded'
    BY <1>1, <1>2 DEF ProbeInv, SuccessRecorded
  <1>5. ProbeMarked'
    BY <1>1, <1>2 DEF ProbeInv, ProbeMarked
  <1>6. QED  BY <1>3, <1>4, <1>5 DEF ProbeInv

\* The last step of a call, or of an attempt that is followed by another.
LEMMA ReleaseKeeps ==
  ASSUME TransportTypeOK, ProbeInv, NEW t \in Thread, Release(t) \/ ReleaseRaises(t)
  PROVE  ProbeInv'
  <1> USE DEF breaker
  <1>1. pc[t] = "release" /\ UNCHANGED answer
    BY DEF Release, ReleaseRaises
  <1>2. answer[t] = "ok" /\ HoldsProbe(t) => state # "half_open"
    BY <1>1 DEF ProbeInv, SuccessRecorded
  <1>3. CASE Release(t) /\ answer[t] = "temporary" /\ attempt[t] < MaxAttempts
    <2>1. /\ pc' = [pc EXCEPT ![t] = "slot"]
          /\ UNCHANGED <<state, probe, generation, permit>>
      BY <1>3 DEF Release
    <2>2. QED  BY <1>1, <2>1, SamePermits DEF TransportTypeOK
  <1>4. CASE Release(t) /\ ~(answer[t] = "temporary" /\ attempt[t] < MaxAttempts)
    <2>1. /\ pc' = [pc EXCEPT ![t] = "idle"] /\ permit' = [permit EXCEPT ![t] = NoPermit]
      BY <1>4 DEF Release
    <2>2. \/ answer[t] = "ok" /\ UNCHANGED <<state, generation, probe>>
          \/ RecordSuccess(t) \/ RecordFailure(t) \/ Abort(t)
      BY <1>4 DEF Release, TransportTypeOK, Reply
    <2>3. QED  BY <1>1, <1>2, <2>1, <2>2, CallEnds
  <1>5. CASE ReleaseRaises(t)
    <2>1. /\ pc' = [pc EXCEPT ![t] = "idle"] /\ permit' = [permit EXCEPT ![t] = NoPermit]
          /\ \/ answer[t] = "ok" /\ UNCHANGED <<state, generation, probe>>
             \/ Abort(t)
      BY <1>5 DEF ReleaseRaises
    <2>2. QED  BY <1>1, <1>2, <2>1, CallEnds
  <1>6. QED  BY <1>3, <1>4, <1>5

LEMMA ProbeStep ==
  ASSUME TransportTypeOK, ProbeInv, [Next]_vars
  PROVE  ProbeInv'
  <1> USE DEF breaker, gate
  <1>1. ASSUME NEW t \in Thread, Admit(t)  PROVE ProbeInv'
    BY <1>1, AdmitKeeps
  <1>2. ASSUME NEW t \in Thread,
               Wait(t) \/ Acquire(t) \/ Activate(t) \/ Leave(t)
        PROVE  ProbeInv'
    <2>1. /\ UNCHANGED <<state, probe, generation, permit, answer>>
          /\ \A u \in Thread \ {t} : pc'[u] = pc[u]
          /\ pc'[t] # "idle" /\ (pc'[t] = "release" => pc[t] = "leave") /\ pc'[t] # "leave"
      BY <1>2 DEF Wait, Acquire, Activate, Leave, TransportTypeOK
    <2>2. QED  BY <2>1, SamePermits
  <1>3. ASSUME NEW t \in Thread, QueueTimeout(t)  PROVE ProbeInv'
    BY <1>3, CallEnds DEF QueueTimeout
  <1>4. ASSUME NEW t \in Thread, NEW a \in Reply, Answer(t, a)  PROVE ProbeInv'
    BY <1>4, AnswerKeeps
  <1>5. ASSUME NEW t \in Thread, Release(t) \/ ReleaseRaises(t)  PROVE ProbeInv'
    BY <1>5, ReleaseKeeps
  <1>6. CASE Cool
    BY <1>6, SamePermits DEF Cool
  <1>7. ASSUME NEW n \in Limits, UpdatePolicy(n)  PROVE ProbeInv'
    BY <1>7, SamePermits DEF UpdatePolicy
  <1>8. CASE UNCHANGED vars
    BY <1>8, SamePermits DEF vars
  <1>9. ASSUME NEW t \in Thread, Refuse(t)  PROVE ProbeInv'
    BY <1>8, <1>9 DEF Refuse
  <1>10. QED
    BY <1>1, <1>2, <1>3, <1>4, <1>5, <1>6, <1>7, <1>8, <1>9 DEF Next, Step, Reply

\* The invariant counts what ProbeHeld counts.
LEMMA ProbeCounted ==
  ASSUME TransportTypeOK, ProbeInv
  PROVE  ProbeHeld
  <1> SUFFICES ASSUME state = "half_open"
               PROVE  Cardinality({t \in Thread : Running(t) /\ permit[t].probe /\ Current(t)})
                        = (IF probe THEN 1 ELSE 0)
    BY DEF ProbeHeld
  <1> DEFINE S == {t \in Thread : Running(t) /\ permit[t].probe /\ Current(t)}
  <1>1. \A t \in Thread : t \in S <=> HoldsProbe(t)
    BY DEF ProbeInv, PermitsIssued, HoldsProbe, Running, NoPermit
  <1>2. CASE probe
    <2>1. PICK t \in Thread : \A u \in Thread : HoldsProbe(u) <=> u = t
      BY <1>2 DEF ProbeInv, ProbeMarked
    <2>2. S = {t}
      BY <1>1, <2>1
    <2>3. QED  BY <1>2, <2>2, FS_Singleton
  <1>3. CASE ~probe
    <2>1. S = {}
      BY <1>1, <1>3 DEF ProbeInv, ProbeMarked
    <2>2. QED  BY <1>3, <2>1, FS_EmptySet
  <1>4. QED  BY <1>2, <1>3

-----------------------------------------------------------------------------
(* The gate *)

InSlots == {t \in Thread : InSlot(t)}

\* A step moves one thread into a slot, out of one, or nobody.
LEMMA SlotMoves ==
  ASSUME TransportAssumption
  PROVE  /\ IsFiniteSet(InSlots) /\ IsFiniteSet(InSlots')
         /\ Cardinality(InSlots) \in Nat /\ Cardinality(InSlots') \in Nat
         /\ \A t \in Thread : t \notin InSlots /\ InSlots' = InSlots \cup {t} =>
              Cardinality(InSlots') = Cardinality(InSlots) + 1
         /\ \A t \in Thread : t \in InSlots /\ InSlots' = InSlots \ {t} =>
              Cardinality(InSlots') = Cardinality(InSlots) - 1
         /\ \A t \in InSlots : Cardinality(InSlots) > 0
  <1>1. IsFiniteSet(InSlots) /\ IsFiniteSet(InSlots')
    <2>1. InSlots \subseteq Thread /\ InSlots' \subseteq Thread
      BY DEF InSlots
    <2>2. QED  BY <2>1, FS_Subset DEF TransportAssumption
  <1>2. Cardinality(InSlots) \in Nat /\ Cardinality(InSlots') \in Nat
    BY <1>1, FS_CardinalityType
  <1>3. ASSUME NEW t \in Thread, t \notin InSlots, InSlots' = InSlots \cup {t}
        PROVE  Cardinality(InSlots') = Cardinality(InSlots) + 1
    BY <1>1, <1>3, FS_AddElement
  <1>4. ASSUME NEW t \in Thread, t \in InSlots, InSlots' = InSlots \ {t}
        PROVE  Cardinality(InSlots') = Cardinality(InSlots) - 1
    BY <1>1, <1>4, FS_RemoveElement
  <1>5. ASSUME NEW t \in InSlots  PROVE Cardinality(InSlots) > 0
    <2>1. InSlots # {}  OBVIOUS
    <2>2. Cardinality(InSlots) # 0  BY <1>1, <2>1, FS_EmptySet
    <2>3. QED  BY <1>2, <2>2
  <1>6. QED  BY <1>1, <1>2, <1>3, <1>4, <1>5

LEMMA SlotsStep ==
  ASSUME TransportAssumption, PolicyFixed,
         TransportTypeOK, SlotsConserved, [Next]_vars
  PROVE  SlotsConserved'
  <1> USE DEF InSlots, InSlot, TransportTypeOK
  <1>0. /\ free \in Nat /\ limit \in Nat /\ Cardinality(InSlots) \in Nat
        /\ free + Cardinality(InSlots) = limit
    BY SlotMoves DEF SlotsConserved, TransportAssumption
  <1>1. CASE UNCHANGED <<free, limit>> /\ InSlots' = InSlots
    BY <1>1 DEF SlotsConserved
  <1>2. ASSUME NEW t \in Thread,
               Admit(t) \/ Refuse(t) \/ Wait(t) \/ QueueTimeout(t) \/ Activate(t) \/ Leave(t)
        PROVE  UNCHANGED <<free, limit>> /\ InSlots' = InSlots
    <2>1. UNCHANGED <<free, limit>>
      BY <1>2 DEF Admit, Refuse, Wait, QueueTimeout, Activate, Leave, gate, vars
    <2>2. \A u \in Thread : u \in InSlots' <=> u \in InSlots
      BY <1>2 DEF Admit, Refuse, Wait, QueueTimeout, Activate, Leave, vars
    <2>3. QED  BY <2>1, <2>2
  <1>3. ASSUME NEW t \in Thread, NEW a \in Reply, Answer(t, a)
        PROVE  UNCHANGED <<free, limit>> /\ InSlots' = InSlots
    BY <1>3 DEF Answer, gate
  <1>4. ASSUME NEW t \in Thread, Acquire(t)  PROVE SlotsConserved'
    <2>1. free' = free - 1 /\ UNCHANGED limit
      BY <1>4 DEF Acquire
    <2>2. t \notin InSlots /\ InSlots' = InSlots \cup {t}
      BY <1>4 DEF Acquire
    <2>3. Cardinality(InSlots') = Cardinality(InSlots) + 1
      BY <2>2, SlotMoves
    <2>4. QED  BY <1>0, <2>1, <2>3 DEF SlotsConserved
  <1>5. ASSUME NEW t \in Thread, Release(t)  PROVE SlotsConserved'
    <2>1. free' = free + 1 /\ UNCHANGED limit
      BY <1>5 DEF Release, FreeSlot
    <2>2. t \in InSlots /\ InSlots' = InSlots \ {t}
      BY <1>5 DEF Release
    <2>3. Cardinality(InSlots') = Cardinality(InSlots) - 1
      BY <2>2, SlotMoves
    <2>4. QED  BY <1>0, <2>1, <2>3 DEF SlotsConserved
  <1>6. ASSUME NEW t \in Thread, ReleaseRaises(t)  PROVE FALSE
    <2>1. t \in InSlots /\ free >= limit
      BY <1>6 DEF ReleaseRaises
    <2>2. Cardinality(InSlots) > 0
      BY <2>1, SlotMoves
    <2>3. QED  BY <1>0, <2>1, <2>2
  <1>7. CASE Cool
    BY <1>1, <1>7 DEF Cool, gate
  <1>8. ASSUME NEW n \in Limits, UpdatePolicy(n)  PROVE FALSE
    BY <1>8 DEF UpdatePolicy, PolicyFixed
  <1>9. CASE UNCHANGED vars
    BY <1>1, <1>9 DEF vars, gate
  <1>10. QED
    BY <1>1, <1>2, <1>3, <1>4, <1>5, <1>6, <1>7, <1>8, <1>9 DEF Next, Step, Reply

-----------------------------------------------------------------------------

\* ExternalModelCircuitBreaker and ExternalModelConcurrencyGate, for any number
\* of threads: in half-open exactly one running call holds the probe while it is
\* marked and none while it is not, and under one policy no retry, timeout or error
\* loses a slot or gives one back twice.
THEOREM PermitsAccountedHolds ==
  ASSUME TransportAssumption
  PROVE  Spec => []PermitsAccounted
  <1> DEFINE Inv == TransportTypeOK /\ ProbeInv /\ (PolicyFixed => SlotsConserved)
  <1>1. Init => Inv
    <2> SUFFICES ASSUME Init  PROVE Inv
      OBVIOUS
    <2>1. TransportTypeOK
      BY DEF Init, TransportTypeOK, TransportAssumption, State, Pc, Reply, Permit, NoPermit
    <2>2. ProbeInv
      BY DEF Init, ProbeInv, PermitsIssued, SuccessRecorded, ProbeMarked, HoldsProbe,
             NoPermit
    <2>3. SlotsConserved
      <3>1. InSlots = {}
        BY DEF Init, InSlots, InSlot
      <3>2. free = limit /\ limit \in Nat
        BY DEF Init, TransportAssumption
      <3>3. QED  BY <3>1, <3>2, FS_EmptySet DEF SlotsConserved, InSlots
    <2>4. QED  BY <2>1, <2>2, <2>3
  <1>2. Inv /\ [Next]_vars => Inv'
    BY TypeStep, ProbeStep, SlotsStep DEF PolicyFixed
  <1>3. Inv => PermitsAccounted
    BY ProbeCounted DEF PermitsAccounted
  <1>4. QED  BY <1>1, <1>2, <1>3, PTL DEF Spec
=============================================================================
