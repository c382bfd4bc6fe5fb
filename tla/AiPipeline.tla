----------------------------- MODULE AiPipeline ------------------------------
(***************************************************************************)
(* The base of the AI pipeline (services/ai: queue.ts, circuit-breaker.ts, *)
(* pipeline.ts): a bounded queue, a circuit breaker and calls to a         *)
(* provider that may ignore the abort of a call that timed out.  Any       *)
(* number of drains run at once; a step is one synchronous stretch of one. *)
(***************************************************************************)
EXTENDS Naturals, Sequences, FiniteSets

CONSTANTS
    Camera,            \* the keys of the queue
    Call,              \* names for the calls under way
    MaxPerKey,         \* BoundedQueue: per camera
    MaxTotal,          \* BoundedQueue: in all
    MaxConcurrent,     \* maxConcurrent
    FailureThreshold,  \* failureThreshold
    HalfOpenMaxCalls   \* halfOpenMaxCalls

(* The limits are positive, and there are names enough, but finitely many. *)
Limits ==
    /\ {MaxPerKey, MaxTotal, MaxConcurrent, FailureThreshold, HalfOpenMaxCalls} \subseteq Nat \ {0}
    /\ IsFiniteSet(Call)

VARIABLES
    queue,             \* the cameras of the entries that wait
    breaker,           \* _state, with "cooled" for open and openMs over
    failures,          \* consecutive failures
    halfOpenInFlight,  \* places of the half-open state in use
    realInFlight,      \* calls the provider has not settled
    call               \* name -> what is known of the call

vars == <<queue, breaker, failures, halfOpenInFlight, realInFlight, call>>
breakerVars == <<breaker, failures, halfOpenInFlight>>

\* waiting: its drain waits for it.  running: the provider has not settled it.
\* probe (history): it took a place of the half-open state.
NoCall == [waiting |-> FALSE, running |-> FALSE, probe |-> FALSE]
Count(c) == Cardinality({i \in DOMAIN queue : queue[i] = c})

Init ==
    /\ queue = <<>> /\ breaker = "closed" /\ failures = 0
    /\ halfOpenInFlight = 0 /\ realInFlight = 0
    /\ call = [k \in Call |-> NoCall]

(* What the queue has no room for is dropped. *)
Enqueue(c) ==
    /\ Len(queue) < MaxTotal /\ Count(c) < MaxPerKey
    /\ queue' = Append(queue, c)
    /\ UNCHANGED <<breakerVars, realInFlight, call>>

(***************************************************************************)
(* The circuit breaker.                                                    *)
(***************************************************************************)

OpenTimePasses ==
    /\ breaker = "open" /\ breaker' = "cooled"
    /\ UNCHANGED <<queue, failures, halfOpenInFlight, realInFlight, call>>

(* maybeHalfOpen, as state() and tryAcquire() call it. *)
MaybeHalfOpen(admit, taken) ==
    /\ breaker' = IF breaker = "cooled" THEN "half_open" ELSE breaker
    /\ LET used == IF breaker = "cooled" THEN 0 ELSE halfOpenInFlight IN
         /\ admit <=> breaker' = "closed" \/ (breaker' = "half_open" /\ used < HalfOpenMaxCalls)
         /\ halfOpenInFlight' = IF taken /\ admit /\ breaker' = "half_open" THEN used + 1 ELSE used
    /\ UNCHANGED failures

(* state(), read for the status of the pipeline. *)
ReadState ==
    /\ \E admit \in BOOLEAN : MaybeHalfOpen(admit, FALSE)
    /\ UNCHANGED <<queue, realInFlight, call>>

OneLess(n) == IF n = 0 THEN 0 ELSE n - 1

OnSuccess ==
    /\ failures' = 0
    /\ IF breaker = "half_open"
         THEN breaker' = "closed" /\ halfOpenInFlight' = OneLess(halfOpenInFlight)
         ELSE UNCHANGED <<breaker, halfOpenInFlight>>

SlipOnFailure ==
    IF breaker # "open" /\ failures + 1 >= FailureThreshold
      THEN breaker' = "open" /\ failures' = 0 /\ UNCHANGED halfOpenInFlight
      ELSE failures' = failures + 1 /\ UNCHANGED <<breaker, halfOpenInFlight>>

OnFailure ==
    IF breaker = "half_open"
      THEN breaker' = "open" /\ failures' = 0 /\ halfOpenInFlight' = OneLess(halfOpenInFlight)
      ELSE /\ IF failures + 1 >= FailureThreshold
                THEN breaker' = "open" /\ failures' = 0
                ELSE failures' = failures + 1 /\ UNCHANGED breaker
           /\ UNCHANGED halfOpenInFlight

(***************************************************************************)
(* drainOne.                                                               *)
(***************************************************************************)

(* The entry that is taken while the circuit is open is lost. *)
DrainOne(k) ==
    /\ realInFlight < MaxConcurrent /\ queue # <<>>
    /\ queue' = Tail(queue)
    /\ call[k] = NoCall
    /\ \/ /\ MaybeHalfOpen(TRUE, TRUE)
          /\ realInFlight' = realInFlight + 1
          /\ call' = [call EXCEPT ![k] = [waiting |-> TRUE, running |-> TRUE,
                                          probe |-> breaker' = "half_open"]]
       \/ MaybeHalfOpen(FALSE, TRUE) /\ UNCHANGED <<realInFlight, call>>

(* The drain gives up and aborts the call, which may go on. *)
SlipTimeoutFreesTheSlot(k) ==
    /\ call[k].waiting /\ OnFailure
    /\ call' = [call EXCEPT ![k].waiting = FALSE]
    /\ realInFlight' = OneLess(realInFlight) /\ UNCHANGED queue

Timeout(k) ==
    /\ call[k].waiting /\ OnFailure
    /\ call' = [call EXCEPT ![k].waiting = FALSE]
    /\ UNCHANGED <<queue, realInFlight>>

(* The provider settles the call; its drain, if it still waits, reports it. *)
Settle(k, ok) ==
    /\ call[k].running
    /\ realInFlight' = realInFlight - 1
    /\ call' = [call EXCEPT ![k] = NoCall]
    /\ IF ~call[k].waiting THEN UNCHANGED breakerVars
       ELSE IF ok THEN OnSuccess ELSE OnFailure
    /\ UNCHANGED queue

Next ==
    \/ \E c \in Camera : Enqueue(c)
    \/ OpenTimePasses \/ ReadState
    \/ \E k \in Call : DrainOne(k) \/ Timeout(k) \/ \E ok \in BOOLEAN : Settle(k, ok)

Spec == Init /\ [][Next]_vars

(***************************************************************************)
(* Properties.                                                             *)
(***************************************************************************)

(* The state is well typed, within the bounds of the queue, and the slots  *)
(* in use are those of the calls the provider still runs, also after their *)
(* drains gave up ("mantiene el slot ocupado").                            *)
TypeOK ==
    /\ queue \in Seq(Camera) /\ Len(queue) <= MaxTotal
    /\ \A c \in Camera : Count(c) <= MaxPerKey
    /\ breaker \in {"closed", "open", "cooled", "half_open"}
    /\ failures \in 0..(FailureThreshold - 1) /\ halfOpenInFlight \in 0..HalfOpenMaxCalls
    /\ realInFlight = Cardinality({k \in Call : call[k].running}) /\ realInFlight <= MaxConcurrent
    /\ call \in [Call -> [waiting : BOOLEAN, running : BOOLEAN, probe : BOOLEAN]]

(* A half-open circuit never waits for nobody: each of its places is held  *)
(* by a probe that a drain still waits for, and whose answer or timeout    *)
(* will open or close the circuit, whatever calls from before settle.      *)
NoProbeIsLost ==
    breaker = "half_open" =>
        halfOpenInFlight <= Cardinality({k \in Call : call[k].waiting /\ call[k].probe})

=============================================================================
