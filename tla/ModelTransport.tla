--------------------------- MODULE ModelTransport ---------------------------
(***************************************************************************)
(* Calls of an external model (services/model_transport.py): the circuit   *)
(* breaker and the concurrency gate that the threads of a process share,   *)
(* and post_json, which holds a permit of the breaker for the whole call   *)
(* and a slot of the gate for each attempt.  The transport is one without  *)
(* an adaptive controller.  Time is reduced to the end of the open period, *)
(* the queue timeout and the provider's answer, each at any moment.        *)
(***************************************************************************)
EXTENDS Naturals, FiniteSets

CONSTANTS
  Thread,
  Threshold,      \* failure_threshold
  MaxAttempts,    \* max_attempts
  Limits,         \* limits that update_policy is called with
  TimeoutChanges, \* it may be called with another queue timeout
  MaxGeneration   \* bound: the breaker does not cool down any more after it

TransportAssumption ==
  /\ IsFiniteSet(Thread)
  /\ Threshold \in Nat \ {0} /\ MaxAttempts \in Nat \ {0}
  /\ Limits \subseteq Nat \ {0} /\ Limits # {}
  /\ TimeoutChanges \in BOOLEAN
  /\ MaxGeneration \in Nat

VARIABLES
  state, failures, probe, generation,  \* the breaker
  cooled,              \* open_timeout_seconds have passed since it opened
  limit, free,         \* the gate: _limit, the value of _semaphore
  active, waiting,     \* _active, _waiting
  pc, permit, attempt, answer  \* of each thread

breaker == <<state, failures, probe, generation, cooled>>
gate == <<limit, free, active, waiting>>
vars == <<breaker, gate, pc, permit, attempt, answer>>

NoPermit == [gen |-> 0, probe |-> FALSE]

-----------------------------------------------------------------------------
(* ExternalModelCircuitBreaker *)

Current(t) == permit[t].gen = generation

\* _open_locked
OpenLocked ==
  /\ state' = "open" /\ failures' = Threshold /\ cooled' = FALSE
  /\ probe' = FALSE /\ generation' = generation + 1

RecordSuccess(t) ==
  IF Current(t) /\ permit[t].probe /\ state = "half_open"
    THEN /\ state' = "closed" /\ failures' = 0 /\ probe' = FALSE
         /\ UNCHANGED <<generation, cooled>>
  ELSE IF Current(t) /\ state = "closed"
    THEN failures' = 0 /\ UNCHANGED <<state, probe, generation, cooled>>
  ELSE UNCHANGED breaker

RecordFailure(t) ==
  IF Current(t) /\ permit[t].probe /\ state = "half_open" THEN OpenLocked
  ELSE IF Current(t) /\ state = "closed" /\ failures + 1 >= Threshold THEN OpenLocked
  ELSE IF Current(t) /\ state = "closed"
    THEN failures' = failures + 1 /\ UNCHANGED <<state, probe, generation, cooled>>
  ELSE UNCHANGED breaker

\* Mutant: a probe that did not reach the provider is not given back.
AbortNothing(t) == UNCHANGED breaker

Abort(t) ==
  /\ probe' = IF permit[t].probe /\ Current(t) /\ state = "half_open" THEN FALSE ELSE probe
  /\ UNCHANGED <<state, failures, generation, cooled>>

\* open_timeout_seconds after _opened_at.
Cool ==
  /\ state = "open" /\ ~cooled /\ generation < MaxGeneration
  /\ cooled' = TRUE
  /\ UNCHANGED <<state, failures, probe, generation, gate, pc, permit, attempt, answer>>

-----------------------------------------------------------------------------
(* HttpxModelTransport.post_json, one action per critical section *)

\* before_call hands out a permit.
Admit(t) ==
  /\ pc[t] = "idle"
  /\ \/ /\ state = "closed"
        /\ permit' = [permit EXCEPT ![t] = [gen |-> generation, probe |-> FALSE]]
        /\ UNCHANGED breaker
     \/ /\ state = "open" /\ cooled
        /\ state' = "half_open" /\ generation' = generation + 1 /\ probe' = TRUE
        /\ permit' = [permit EXCEPT ![t] = [gen |-> generation', probe |-> TRUE]]
        /\ UNCHANGED <<failures, cooled>>
     \/ /\ state = "half_open" /\ ~probe
        /\ probe' = TRUE
        /\ permit' = [permit EXCEPT ![t] = [gen |-> generation, probe |-> TRUE]]
        /\ UNCHANGED <<state, failures, generation, cooled>>
  /\ pc' = [pc EXCEPT ![t] = "slot"] /\ attempt' = [attempt EXCEPT ![t] = 1]
  /\ UNCHANGED <<gate, answer>>

\* before_call raises: the call fails fast.
Refuse(t) ==
  /\ pc[t] = "idle"
  /\ (state = "open" /\ ~cooled) \/ (state = "half_open" /\ probe)
  /\ UNCHANGED vars

\* slot: a thread waits, counted,
Wait(t) ==
  /\ pc[t] = "slot" /\ pc' = [pc EXCEPT ![t] = "queue"]
  /\ waiting' = waiting + 1
  /\ UNCHANGED <<breaker, limit, free, active, permit, attempt, answer>>

\* takes the semaphore and is not counted as waiting any more,
Acquire(t) ==
  /\ pc[t] = "queue" /\ free > 0
  /\ free' = free - 1 /\ waiting' = waiting - 1
  /\ pc' = [pc EXCEPT ![t] = "acquired"]
  /\ UNCHANGED <<breaker, limit, active, permit, attempt, answer>>

\* or waits in vain: ExternalModelBackpressureError ends the call.
QueueTimeout(t) ==
  /\ pc[t] = "queue" /\ free = 0
  /\ waiting' = waiting - 1
  /\ pc' = [pc EXCEPT ![t] = "idle"]
  /\ Abort(t)
  /\ permit' = [permit EXCEPT ![t] = NoPermit]
  /\ UNCHANGED <<limit, free, active, attempt, answer>>

\* It is counted as active only in a second critical section.
Activate(t) ==
  /\ pc[t] = "acquired" /\ pc' = [pc EXCEPT ![t] = "call"]
  /\ active' = active + 1
  /\ UNCHANGED <<breaker, limit, free, waiting, permit, attempt, answer>>

\* The provider's answer.  Success is recorded inside the slot.
Answer(t, a) ==
  /\ pc[t] = "call" /\ pc' = [pc EXCEPT ![t] = "leave"]
  /\ answer' = [answer EXCEPT ![t] = a]
  /\ IF a = "ok" THEN RecordSuccess(t) ELSE UNCHANGED breaker
  /\ UNCHANGED <<gate, permit, attempt>>

\* The slot is left in two steps: the count,
Leave(t) ==
  /\ pc[t] = "leave" /\ pc' = [pc EXCEPT ![t] = "release"]
  /\ active' = active - 1
  /\ UNCHANGED <<breaker, limit, free, waiting, permit, attempt, answer>>

\* Mutant: only an answer gives the slot back.
FreeSlotAnswered(t) == free' = IF answer[t] = "ok" THEN free + 1 ELSE free

FreeSlot(t) == free' = free + 1

\* then the semaphore of the moment, and the handler of the answer: a temporary
\* failure is tried again, or counted once for the whole call.
Release(t) ==
  /\ pc[t] = "release" /\ free < limit
  /\ FreeSlot(t)
  /\ IF answer[t] = "temporary" /\ attempt[t] < MaxAttempts
     THEN /\ pc' = [pc EXCEPT ![t] = "slot"] /\ attempt' = [attempt EXCEPT ![t] = @ + 1]
          /\ UNCHANGED <<breaker, permit>>
     ELSE /\ pc' = [pc EXCEPT ![t] = "idle"]
          /\ CASE answer[t] = "ok" -> UNCHANGED breaker
               [] answer[t] = "permanent" -> RecordSuccess(t)
               [] answer[t] = "temporary" -> RecordFailure(t)
               [] answer[t] = "other" -> Abort(t)
          /\ permit' = [permit EXCEPT ![t] = NoPermit] /\ UNCHANGED attempt
  /\ UNCHANGED <<limit, active, waiting, answer>>

\* A bounded semaphore refuses a release too many: ValueError takes the place of
\* the answer, and finally aborts what is not recorded.
ReleaseRaises(t) ==
  /\ pc[t] = "release" /\ free >= limit
  /\ pc' = [pc EXCEPT ![t] = "idle"]
  /\ IF answer[t] = "ok" THEN UNCHANGED breaker ELSE Abort(t)
  /\ permit' = [permit EXCEPT ![t] = NoPermit]
  /\ UNCHANGED <<gate, attempt, answer>>

\* update_policy with another limit or queue timeout: a new semaphore, when nobody is
\* counted.
UpdatePolicy(n) ==
  /\ n # limit \/ TimeoutChanges
  /\ active = 0 /\ waiting = 0
  /\ limit' = n /\ free' = n
  /\ UNCHANGED <<breaker, active, waiting, pc, permit, attempt, answer>>

-----------------------------------------------------------------------------

Init ==
  /\ state = "closed" /\ failures = 0 /\ probe = FALSE /\ generation = 0 /\ cooled = FALSE
  /\ limit \in Limits /\ free = limit /\ active = 0 /\ waiting = 0
  /\ pc = [t \in Thread |-> "idle"] /\ permit = [t \in Thread |-> NoPermit]
  /\ attempt = [t \in Thread |-> 1] /\ answer = [t \in Thread |-> "ok"]

\* What a call goes on with by itself.
Step(t) ==
  \/ Wait(t) \/ Acquire(t) \/ QueueTimeout(t) \/ Activate(t) \/ Leave(t)
  \/ Release(t) \/ ReleaseRaises(t)
  \/ \E a \in {"ok", "permanent", "temporary", "other"} : Answer(t, a)

Next ==
  \/ \E t \in Thread : Admit(t) \/ Refuse(t) \/ Step(t)
  \/ Cool
  \/ \E n \in Limits : UpdatePolicy(n)

Spec == Init /\ [][Next]_vars

\* Threads run, waiting is bounded by the queue timeout, and a request has a
\* timeout of its own.
FairSpec == Spec /\ \A t \in Thread : WF_vars(Step(t))

-----------------------------------------------------------------------------
(* Properties *)

Running(t) == pc[t] # "idle"
InSlot(t) == pc[t] \in {"acquired", "call", "leave", "release"}

\* ExternalModelCircuitBreaker: in half-open the mark of the probe is set exactly
\* while one running call holds a permit to probe, whatever calls of an earlier
\* period, aborted or timed out in the queue, end meanwhile: one probe at a time,
\* and the mark is never left behind.
ProbeHeld ==
  state = "half_open" =>
    Cardinality({t \in Thread : Running(t) /\ permit[t].probe /\ Current(t)})
      = (IF probe THEN 1 ELSE 0)

\* post_json: a probe ends, so that half-open is left or lets the next call try.
ProbeFreed == probe ~> ~probe

\* ExternalModelConcurrencyGate: as long as the policy is left alone, the free
\* slots and the calls in a slot are the limit, through every retry and error.
SlotsConserved == free + Cardinality({t \in Thread : InSlot(t)}) = limit

\* There is one limit and one queue timeout: update_policy never changes anything.
PolicyFixed == ~TimeoutChanges /\ \A m, n \in Limits : m = n

\* Both: the permits of the breaker always, the slots of the gate under one policy.
PermitsAccounted == ProbeHeld /\ (PolicyFixed => SlotsConserved)
=============================================================================
