--------------------------- MODULE ComponentsProofs ---------------------------
(***************************************************************************)
(* The alert of a camera, the AI pipeline, the publication of a path and   *)
(* the refresh tokens of a user (CameraHealth, AiPipeline, PathPublication *)
(* and RefreshRotation, the instance Tokens): for each its inductive       *)
(* invariant, and what follows from it in Components, where it runs beside *)
(* the others, for every value of the constants.                           *)
(***************************************************************************)
EXTENDS Components, SourceLifecycleProofs, FiniteSetTheorems, SequenceTheorems, TLAPS

(* Components only lets each component take its own steps: what holds of   *)
(* the specification of one holds of it there.                             *)
THEOREM SideBySide == CSpec => Spec /\ Tokens!Spec /\ Ai!Spec /\ Health!Spec /\ Publication!Spec
<1>1. CInit => Init /\ Tokens!Init /\ Ai!Init /\ Health!Init /\ Publication!Init
  BY DEF CInit
<1>2. [CNext]_cvars =>
        /\ [Next]_vars
        /\ [Tokens!Next]_(Tokens!vars)
        /\ [Ai!Next]_(Ai!vars)
        /\ [Health!Next]_(Health!vars)
        /\ [Publication!Next]_(Publication!vars)
  BY DEF CNext, cvars, tokenVars, aiVars, healthVars, pathVars, Tokens!vars, Ai!vars,
         Health!vars, Publication!vars
<1> QED
  BY <1>1, <1>2, PTL DEF CSpec, Spec, Tokens!Spec, Ai!Spec, Health!Spec, Publication!Spec

----------------------------------------------------------------------------
(* The alert of a camera *)

(* An alert is only created after none was found, and only for a camera    *)
(* that the debounce has confirmed offline.                                *)
CreationIsFounded ==
    /\ cycle = "create" => unresolved = 0
    /\ ~troubled /\ cycle \in {"raise", "create"} => phase = "OFFLINE_CONFIRMED"

HealthInv ==
    /\ Health!TypeOK
    /\ Health!OneUnresolvedAlert /\ Health!AlertsEndWithTheOutage
    /\ CreationIsFounded

(* The invariant holds before the first reading. *)
LEMMA HealthInitially == Health!Checks /\ Health!Init => HealthInv
<1> SUFFICES ASSUME Health!Checks, Health!Init PROVE HealthInv
  OBVIOUS
<1>1. unresolved = 0 /\ created = 0 /\ cycle = "idle" /\ troubled = FALSE
  BY DEF Health!Init
<1>2. Health!TypeOK
  <2>1. 0 \in 0..OfflineConfirmChecks /\ 0 \in 0..RecoveryConfirmChecks /\ 0 \in 0..MaxAlerts
    BY DEF Health!Checks
  <2>2. 0 \in 0..0
    OBVIOUS
  <2> QED BY <2>1, <2>2 DEF Health!Init, Health!TypeOK
<1> QED
  BY <1>1, <1>2 DEF HealthInv, Health!OneUnresolvedAlert, Health!AlertsEndWithTheOutage,
                    CreationIsFounded

(* Capped streaks stay within their caps. *)
LEMMA StreaksAreCapped ==
  ASSUME NEW cap \in Nat \ {0}, NEW n \in 0..cap
  PROVE  Health!Capped(n + 1, cap) \in 0..cap
BY DEF Health!Capped

(* Every reading and every query keeps the invariant. *)
LEMMA HealthStep ==
  ASSUME Health!Checks, HealthInv, Health!Next
  PROVE  HealthInv'
<1> USE DEF Health!alertVars, Health!debounceVars
<1>0. /\ OfflineConfirmChecks \in Nat \ {0} /\ RecoveryConfirmChecks \in Nat \ {0}
      /\ MaxAlerts \in Nat /\ created \in 0..MaxAlerts /\ unresolved \in 0..created
      /\ offlineStreak \in 0..OfflineConfirmChecks /\ onlineStreak \in 0..RecoveryConfirmChecks
  BY DEF Health!Checks, HealthInv, Health!TypeOK
<1> USE DEF HealthInv, Health!TypeOK, Health!OneUnresolvedAlert, Health!AlertsEndWithTheOutage,
            CreationIsFounded
<1>1. ASSUME NEW muted \in BOOLEAN, Health!Offline(muted) PROVE HealthInv'
  <2>1. offlineStreak' \in 0..OfflineConfirmChecks
    BY <1>0, <1>1, StreaksAreCapped DEF Health!Offline
  <2> QED BY <1>0, <1>1, <2>1 DEF Health!Offline
<1>2. ASSUME Health!Online PROVE HealthInv'
  <2>1. onlineStreak' \in 0..RecoveryConfirmChecks
    BY <1>0, <1>2, StreaksAreCapped DEF Health!Online
  <2> QED BY <1>0, <1>2, <2>1 DEF Health!Online
<1>3. ASSUME Health!ConfirmTimePasses PROVE HealthInv'
  BY <1>0, <1>3 DEF Health!ConfirmTimePasses
<1>4. ASSUME Health!Raise PROVE HealthInv'
  BY <1>0, <1>4 DEF Health!Raise
<1>5. ASSUME Health!Create PROVE HealthInv'
  BY <1>0, <1>5 DEF Health!Create
<1>6. ASSUME Health!Recover PROVE HealthInv'
  BY <1>0, <1>6 DEF Health!Recover
<1>7. ASSUME Health!Resolve PROVE HealthInv'
  BY <1>0, <1>7 DEF Health!Resolve
<1>8. ASSUME Health!UserResolves PROVE HealthInv'
  BY <1>0, <1>8 DEF Health!UserResolves
<1>9. ASSUME Health!QueryFails PROVE HealthInv'
  BY <1>0, <1>9 DEF Health!QueryFails
<1>10. ASSUME Health!Restart PROVE HealthInv'
  BY <1>0, <1>10 DEF Health!Restart
<1> QED
  BY <1>1, <1>2, <1>3, <1>4, <1>5, <1>6, <1>7, <1>8, <1>9, <1>10 DEF Health!Next

(* The alerts of a camera, with restarts and failed queries at any moment. *)
THEOREM HealthInductive == Health!Spec => []HealthInv
<1>0. Health!Checks
  BY ComponentsAssumption
<1>1. Health!Init => HealthInv
  BY <1>0, HealthInitially
<1>2. HealthInv /\ [Health!Next]_(Health!vars) => HealthInv'
  <2>1. HealthInv /\ UNCHANGED Health!vars => HealthInv'
    BY DEF HealthInv, Health!TypeOK, Health!OneUnresolvedAlert, Health!AlertsEndWithTheOutage,
           CreationIsFounded, Health!vars
  <2> QED BY <1>0, <2>1, HealthStep
<1> QED BY <1>1, <1>2, PTL DEF Health!Spec

(* However often the API restarts between a query and the next, a camera   *)
(* never has two unresolved CAMERA_OFFLINE alerts.                         *)
THEOREM NeverTwoAlerts == CSpec => []OneUnresolvedAlert
<1>1. HealthInv => OneUnresolvedAlert
  BY DEF HealthInv, OneUnresolvedAlert
<1> QED BY <1>1, SideBySide, HealthInductive, PTL

(* Unless the API restarted or a query failed, an open alert is about an   *)
(* outage that lasts, or is being resolved.                                *)
THEOREM NoAlertIsLeftOpen == CSpec => []AlertsEndWithTheOutage
<1>1. HealthInv => AlertsEndWithTheOutage
  BY DEF HealthInv, AlertsEndWithTheOutage
<1> QED BY <1>1, SideBySide, HealthInductive, PTL

----------------------------------------------------------------------------
(* The AI pipeline *)

(* Cardinality and finiteness mean in an instance what they mean here.     *)
LEMMA SameInAi == \A S : Ai!Cardinality(S) = Cardinality(S) /\ Ai!IsFiniteSet(S) = IsFiniteSet(S)
<1>1. \A S : Ai!Cardinality(S) = Cardinality(S)
  BY DEF Ai!Cardinality, Cardinality
<1>2. \A S : Ai!IsFiniteSet(S) = IsFiniteSet(S)
  BY DEF Ai!IsFiniteSet, IsFiniteSet
<1> QED BY <1>1, <1>2

Positions(q, c) == {i \in DOMAIN q : q[i] = c}

(* What a camera has in a queue is a number. *)
LEMMA PositionsAreFinite ==
  ASSUME NEW S, NEW q \in Seq(S), NEW c
  PROVE  IsFiniteSet(Positions(q, c)) /\ Cardinality(Positions(q, c)) \in Nat
<1>1. IsFiniteSet(DOMAIN q)
  BY FS_Interval
<1>2. IsFiniteSet(Positions(q, c))
  BY <1>1, FS_Subset DEF Positions
<1> QED BY <1>2, FS_CardinalityType

(* One more entry counts for its own camera only. *)
LEMMA PositionsOfAppend ==
  ASSUME NEW S, NEW q \in Seq(S), NEW d \in S, NEW c
  PROVE  Cardinality(Positions(Append(q, d), c)) =
           IF c = d THEN Cardinality(Positions(q, c)) + 1 ELSE Cardinality(Positions(q, c))
<1>1. Positions(Append(q, d), c) =
        IF c = d THEN Positions(q, c) \cup {Len(q) + 1} ELSE Positions(q, c)
  BY DEF Positions
<1>2. Len(q) + 1 \notin Positions(q, c)
  BY DEF Positions
<1> QED BY <1>1, <1>2, PositionsAreFinite, FS_AddElement

(* Taking the first entry adds nothing to what a camera has. *)
LEMMA PositionsOfTail ==
  ASSUME NEW S, NEW q \in Seq(S), q # <<>>, NEW c
  PROVE  Cardinality(Positions(Tail(q), c)) <= Cardinality(Positions(q, c))
<1> DEFINE f == [i \in Positions(Tail(q), c) |-> i + 1]
<1>1. f \in [Positions(Tail(q), c) -> Positions(q, c)]
  BY DEF Positions
<1>2. IsInjective(f)
  BY DEF IsInjective, Positions
<1>3. f \in Injection(Positions(Tail(q), c), Positions(q, c))
  BY <1>1, <1>2 DEF Injection
<1> HIDE DEF f
<1> QED BY <1>3, PositionsAreFinite, FS_Injection

Running == {k \in AiCall : aiCall[k].running}
Probes == {k \in AiCall : aiCall[k].waiting /\ aiCall[k].probe}

(* Besides the properties: a drain waits for calls that run only. *)
AiInv ==
    /\ Ai!TypeOK
    /\ Ai!NoProbeIsLost
    /\ \A k \in AiCall : aiCall[k].waiting => aiCall[k].running

(* The parts of the type invariant: the queue, the circuit, the calls. *)
QueueOK ==
    /\ aiQueue \in Seq(Camera) /\ Len(aiQueue) <= MaxTotal
    /\ \A c \in Camera : Cardinality(Positions(aiQueue, c)) <= MaxPerKey
CircuitOK ==
    /\ breaker \in {"closed", "open", "cooled", "half_open"}
    /\ failures \in 0..(FailureThreshold - 1) /\ halfOpenInFlight \in 0..HalfOpenMaxCalls
CallsOK ==
    /\ aiCall \in [AiCall -> [waiting : BOOLEAN, running : BOOLEAN, probe : BOOLEAN]]
    /\ realInFlight = Cardinality(Running) /\ realInFlight <= MaxConcurrent
    /\ \A k \in AiCall : aiCall[k].waiting => aiCall[k].running

(* The invariant is those parts and the property of the probes. *)
LEMMA AiParts == AiInv <=> QueueOK /\ CircuitOK /\ CallsOK /\ Ai!NoProbeIsLost
<1>1. \A c : Ai!Count(c) = Cardinality(Positions(aiQueue, c))
  BY SameInAi DEF Ai!Count, Positions
<1>2. Ai!Cardinality({k \in AiCall : aiCall[k].running}) = Cardinality(Running)
  BY SameInAi DEF Running
<1> QED BY <1>1, <1>2 DEF AiInv, Ai!TypeOK, QueueOK, CircuitOK, CallsOK

(* The limits are positive numbers, and sets of calls are finite. *)
LEMMA AiLimits ==
  ASSUME Ai!Limits
  PROVE  /\ MaxPerKey \in Nat \ {0} /\ MaxTotal \in Nat \ {0} /\ MaxConcurrent \in Nat \ {0}
         /\ FailureThreshold \in Nat \ {0} /\ HalfOpenMaxCalls \in Nat \ {0}
         /\ \A S \in SUBSET AiCall : IsFiniteSet(S) /\ Cardinality(S) \in Nat
<1>1. ASSUME NEW S \in SUBSET AiCall PROVE IsFiniteSet(S) /\ Cardinality(S) \in Nat
  BY FS_Subset, FS_CardinalityType, SameInAi DEF Ai!Limits
<1>2. {MaxPerKey, MaxTotal, MaxConcurrent, FailureThreshold, HalfOpenMaxCalls} \subseteq Nat \ {0}
  BY DEF Ai!Limits
<1> QED BY <1>1, <1>2

(* The pipeline starts with nothing under way. *)
LEMMA AiInitially == Ai!Limits /\ Ai!Init => AiInv
<1> SUFFICES ASSUME Ai!Limits, Ai!Init PROVE AiInv
  OBVIOUS
<1>1. QueueOK
  <2>1. aiQueue = <<>> /\ \A c : Positions(aiQueue, c) = {}
    BY DEF Ai!Init, Positions
  <2> QED BY <2>1, AiLimits, FS_EmptySet DEF QueueOK
<1>2. CircuitOK
  BY AiLimits DEF Ai!Init, CircuitOK
<1>3. CallsOK
  <2>1. \A k \in AiCall : aiCall[k] = [waiting |-> FALSE, running |-> FALSE, probe |-> FALSE]
    BY DEF Ai!Init, Ai!NoCall
  <2>2. Running = {} /\ aiCall \in [AiCall -> [waiting : BOOLEAN, running : BOOLEAN, probe : BOOLEAN]]
    BY <2>1 DEF Running, Ai!Init, Ai!NoCall
  <2> QED BY <2>1, <2>2, AiLimits, FS_EmptySet DEF CallsOK, Ai!Init
<1>4. Ai!NoProbeIsLost
  BY DEF Ai!Init, Ai!NoProbeIsLost
<1> QED BY <1>1, <1>2, <1>3, <1>4, AiParts

(* The queue stays within its bounds. *)
LEMMA QueueStep ==
  ASSUME Ai!Limits, QueueOK, Ai!Next
  PROVE  QueueOK'
<1>0. /\ aiQueue \in Seq(Camera) /\ MaxPerKey \in Nat /\ MaxTotal \in Nat
      /\ \A c \in Camera : /\ Cardinality(Positions(aiQueue, c)) \in Nat
                           /\ Cardinality(Positions(aiQueue, c)) <= MaxPerKey
  BY AiLimits, PositionsAreFinite DEF QueueOK
<1>1. CASE \E d \in Camera : Ai!Enqueue(d)
  <2>1. PICK d \in Camera : Ai!Enqueue(d)
    BY <1>1
  <2>2. /\ aiQueue' = Append(aiQueue, d) /\ Len(aiQueue) < MaxTotal
        /\ Cardinality(Positions(aiQueue, d)) < MaxPerKey
    BY <2>1, SameInAi DEF Ai!Enqueue, Ai!Count, Positions
  <2>3. ASSUME NEW c \in Camera PROVE Cardinality(Positions(aiQueue', c)) <= MaxPerKey
    <3>1. /\ Cardinality(Positions(aiQueue, c)) \in Nat
          /\ Cardinality(Positions(aiQueue, c)) <= MaxPerKey
      BY <1>0
    <3>2. Cardinality(Positions(aiQueue', c)) =
            IF c = d THEN Cardinality(Positions(aiQueue, c)) + 1 ELSE Cardinality(Positions(aiQueue, c))
      BY <1>0, <2>2, PositionsOfAppend
    <3> QED BY <1>0, <2>2, <3>1, <3>2
  <2> QED BY <1>0, <2>2, <2>3 DEF QueueOK, Positions
<1>2. CASE \E k \in AiCall : Ai!DrainOne(k)
  <2>1. aiQueue # <<>> /\ aiQueue' = Tail(aiQueue)
    BY <1>2 DEF Ai!DrainOne
  <2>2. ASSUME NEW c \in Camera PROVE Cardinality(Positions(aiQueue', c)) <= MaxPerKey
    <3>1. Tail(aiQueue) \in Seq(Camera)
      BY <1>0, <2>1
    <3>2. Cardinality(Positions(Tail(aiQueue), c)) \in Nat
      BY <3>1, PositionsAreFinite
    <3>3. Cardinality(Positions(Tail(aiQueue), c)) <= Cardinality(Positions(aiQueue, c))
      BY <1>0, <2>1, PositionsOfTail
    <3>4. Cardinality(Positions(aiQueue, c)) \in Nat /\ Cardinality(Positions(aiQueue, c)) <= MaxPerKey
      BY <1>0
    <3> QED BY <1>0, <2>1, <3>2, <3>3, <3>4
  <2> QED BY <1>0, <2>1, <2>2 DEF QueueOK, Positions
<1>3. CASE UNCHANGED aiQueue
  BY <1>3 DEF QueueOK, Positions
<1> QED BY <1>1, <1>2, <1>3 DEF Ai!Next, Ai!OpenTimePasses, Ai!ReadState, Ai!Timeout, Ai!Settle

(* An answer leaves the circuit open, closed, or as it was before it       *)
(* became half-open: the half-open state ends with the first answer.       *)
LEMMA AnswerEndsHalfOpen ==
  ASSUME Ai!Limits, CircuitOK, Ai!OnFailure \/ Ai!OnSuccess
  PROVE  CircuitOK' /\ breaker' # "half_open"
<1>1. /\ FailureThreshold \in Nat \ {0} /\ HalfOpenMaxCalls \in Nat \ {0}
      /\ Ai!OneLess(halfOpenInFlight) \in 0..HalfOpenMaxCalls
  BY AiLimits DEF CircuitOK, Ai!OneLess
<1> QED BY <1>1 DEF CircuitOK, Ai!OnFailure, Ai!OnSuccess

(* Places of the half-open state are taken one by one, from none when it   *)
(* begins, and only by a call that is admitted.                            *)
LEMMA PlacesAreTaken ==
  ASSUME Ai!Limits, CircuitOK, NEW admit \in BOOLEAN, NEW taken \in BOOLEAN,
         Ai!MaybeHalfOpen(admit, taken)
  PROVE  /\ CircuitOK'
         /\ breaker' = "half_open" =>
              LET before == IF breaker = "half_open" THEN halfOpenInFlight ELSE 0
              IN halfOpenInFlight' = IF taken /\ admit THEN before + 1 ELSE before
<1>1. /\ HalfOpenMaxCalls \in Nat \ {0} /\ halfOpenInFlight \in 0..HalfOpenMaxCalls
      /\ breaker \in {"closed", "open", "cooled", "half_open"}
  BY AiLimits DEF CircuitOK
<1>2. CASE breaker = "cooled"
  BY <1>1, <1>2 DEF CircuitOK, Ai!MaybeHalfOpen
<1>3. CASE breaker # "cooled"
  BY <1>1, <1>3 DEF CircuitOK, Ai!MaybeHalfOpen
<1> QED BY <1>2, <1>3

(* A call that is admitted takes a slot; one that a drain gave up keeps    *)
(* it; one that the provider settled gives it back.                        *)
LEMMA CallsStep ==
  ASSUME Ai!Limits, CallsOK, Ai!Next
  PROVE  CallsOK'
<1> USE DEF CallsOK
<1>0. /\ IsFiniteSet(Running) /\ Cardinality(Running) \in Nat /\ MaxConcurrent \in Nat
      /\ realInFlight \in Nat
  BY AiLimits DEF Running
<1>1. ASSUME NEW k \in AiCall, Ai!DrainOne(k), UNCHANGED <<realInFlight, aiCall>> PROVE CallsOK'
  BY <1>1 DEF Running
<1>2. ASSUME NEW k \in AiCall, Ai!DrainOne(k), ~UNCHANGED <<realInFlight, aiCall>> PROVE CallsOK'
  <2>1. /\ realInFlight < MaxConcurrent /\ realInFlight' = realInFlight + 1
        /\ aiCall' = [aiCall EXCEPT ![k] = [waiting |-> TRUE, running |-> TRUE,
                                            probe |-> breaker' = "half_open"]]
        /\ ~aiCall[k].running
    <3>1. aiCall[k] = [waiting |-> FALSE, running |-> FALSE, probe |-> FALSE]
      BY <1>2 DEF Ai!DrainOne, Ai!NoCall
    <3>2. realInFlight < MaxConcurrent
      BY <1>2 DEF Ai!DrainOne
    <3>3. /\ realInFlight' = realInFlight + 1
          /\ aiCall' = [aiCall EXCEPT ![k] = [waiting |-> TRUE, running |-> TRUE,
                                              probe |-> breaker' = "half_open"]]
      BY <1>2 DEF Ai!DrainOne
    <3> QED BY <3>1, <3>2, <3>3
  <2>2. k \notin Running /\ Running' = Running \cup {k}
    BY <2>1 DEF Running
  <2>3. Cardinality(Running') = Cardinality(Running) + 1
    BY <1>0, <2>2, FS_AddElement
  <2> QED BY <1>0, <2>1, <2>3
<1>3. ASSUME NEW k \in AiCall, Ai!Timeout(k) PROVE CallsOK'
  <2>1. aiCall' = [aiCall EXCEPT ![k].waiting = FALSE] /\ UNCHANGED realInFlight
    BY <1>3 DEF Ai!Timeout
  <2>2. Running' = Running
    BY <2>1 DEF Running
  <2> QED BY <2>1, <2>2
<1>4. ASSUME NEW k \in AiCall, NEW ok \in BOOLEAN, Ai!Settle(k, ok) PROVE CallsOK'
  <2>1. /\ aiCall[k].running /\ realInFlight' = realInFlight - 1
        /\ aiCall' = [aiCall EXCEPT ![k] = [waiting |-> FALSE, running |-> FALSE, probe |-> FALSE]]
    BY <1>4 DEF Ai!Settle, Ai!NoCall
  <2>2. k \in Running /\ Running' = Running \ {k}
    BY <2>1 DEF Running
  <2>3. Cardinality(Running') = Cardinality(Running) - 1
    BY <1>0, <2>2, FS_RemoveElement
  <2> QED BY <1>0, <2>1, <2>3
<1>5. CASE UNCHANGED <<realInFlight, aiCall>>
  BY <1>5 DEF Running
<1> QED
  BY <1>1, <1>2, <1>3, <1>4, <1>5 DEF Ai!Next, Ai!Enqueue, Ai!OpenTimePasses, Ai!ReadState

(* The circuit stays well typed, and keeps a probe for each of its places. *)
LEMMA CircuitStep ==
  ASSUME Ai!Limits, CircuitOK, CallsOK, Ai!NoProbeIsLost, Ai!Next
  PROVE  CircuitOK' /\ Ai!NoProbeIsLost'
<1> DEFINE Held == breaker = "half_open" => halfOpenInFlight <= Cardinality(Probes)
<1>0. /\ IsFiniteSet(Probes) /\ Cardinality(Probes) \in Nat /\ halfOpenInFlight \in Nat
      /\ IsFiniteSet(Probes') /\ Cardinality(Probes') \in Nat
      /\ aiCall \in [AiCall -> [waiting : BOOLEAN, running : BOOLEAN, probe : BOOLEAN]]
  <2>1. Probes \in SUBSET AiCall /\ Probes' \in SUBSET AiCall
    BY DEF Probes
  <2>2. halfOpenInFlight \in Nat
    BY AiLimits DEF CircuitOK
  <2> QED BY <2>1, <2>2, AiLimits DEF CallsOK
<1>1. Ai!NoProbeIsLost = Held /\ Ai!NoProbeIsLost' = Held'
  BY SameInAi DEF Ai!NoProbeIsLost, Probes
<1>h. breaker = "half_open" => halfOpenInFlight <= Cardinality(Probes)
  BY <1>1
<1>2. ASSUME NEW k \in AiCall, Ai!Timeout(k) PROVE CircuitOK' /\ Held'
  BY <1>2, AnswerEndsHalfOpen DEF Ai!Timeout
<1>3. ASSUME NEW k \in AiCall, NEW ok \in BOOLEAN, Ai!Settle(k, ok) PROVE CircuitOK' /\ Held'
  <2>1. CASE aiCall[k].waiting
    BY <1>3, <2>1, AnswerEndsHalfOpen DEF Ai!Settle
  <2>2. CASE ~aiCall[k].waiting
    <3>1. /\ UNCHANGED <<breaker, failures, halfOpenInFlight>>
          /\ aiCall' = [aiCall EXCEPT ![k] = [waiting |-> FALSE, running |-> FALSE, probe |-> FALSE]]
      BY <1>3, <2>2 DEF Ai!Settle, Ai!breakerVars, Ai!NoCall
    <3>2. Probes' = Probes
      BY <1>0, <2>2, <3>1 DEF Probes
    <3> QED BY <1>1, <3>1, <3>2 DEF CircuitOK
  <2> QED BY <2>1, <2>2
<1>4. ASSUME NEW k \in AiCall, Ai!DrainOne(k) PROVE CircuitOK' /\ Held'
  <2>1. CASE /\ Ai!MaybeHalfOpen(TRUE, TRUE)
             /\ aiCall[k] = [waiting |-> FALSE, running |-> FALSE, probe |-> FALSE]
             /\ aiCall' = [aiCall EXCEPT ![k] = [waiting |-> TRUE, running |-> TRUE,
                                                 probe |-> breaker' = "half_open"]]
    <3>1. ASSUME breaker' = "half_open"
          PROVE  Cardinality(Probes') = Cardinality(Probes) + 1
      <4>1. k \notin Probes
        BY <2>1 DEF Probes
      <4>2. aiCall' = [aiCall EXCEPT ![k] = [waiting |-> TRUE, running |-> TRUE, probe |-> TRUE]]
        BY <2>1, <3>1
      <4>3. Probes' = Probes \cup {k}
        BY <1>0, <4>2 DEF Probes
      <4> QED BY <1>0, <4>1, <4>3, FS_AddElement
    <3>2. /\ CircuitOK'
          /\ breaker' = "half_open" =>
               halfOpenInFlight' = (IF breaker = "half_open" THEN halfOpenInFlight ELSE 0) + 1
      BY <2>1, PlacesAreTaken
    <3> QED BY <1>0, <1>h, <3>1, <3>2
  <2>2. CASE Ai!MaybeHalfOpen(FALSE, TRUE) /\ UNCHANGED aiCall
    <3>1. Probes' = Probes
      BY <2>2 DEF Probes
    <3>2. /\ CircuitOK'
          /\ breaker' = "half_open" =>
               halfOpenInFlight' = IF breaker = "half_open" THEN halfOpenInFlight ELSE 0
      BY <2>2, PlacesAreTaken
    <3> QED BY <1>0, <1>h, <3>1, <3>2
  <2> QED BY <1>4, <2>1, <2>2 DEF Ai!DrainOne, Ai!NoCall
<1>5. ASSUME Ai!ReadState PROVE CircuitOK' /\ Held'
  <2>1. PICK admit \in BOOLEAN : Ai!MaybeHalfOpen(admit, FALSE)
    BY <1>5 DEF Ai!ReadState
  <2>2. Probes' = Probes
    BY <1>5 DEF Ai!ReadState, Probes
  <2>3. /\ CircuitOK'
        /\ breaker' = "half_open" =>
             halfOpenInFlight' = IF breaker = "half_open" THEN halfOpenInFlight ELSE 0
    BY <2>1, PlacesAreTaken
  <2> QED BY <1>0, <1>h, <2>2, <2>3
<1>6. ASSUME Ai!OpenTimePasses PROVE CircuitOK' /\ Held'
  BY <1>6 DEF Ai!OpenTimePasses, CircuitOK
<1>7. ASSUME UNCHANGED <<breaker, failures, halfOpenInFlight, aiCall>> PROVE CircuitOK' /\ Held'
  <2>1. Probes' = Probes
    BY <1>7 DEF Probes
  <2> QED BY <1>1, <1>7, <2>1 DEF CircuitOK
<1> HIDE DEF Held
<1> QED
  BY <1>1, <1>2, <1>3, <1>4, <1>5, <1>6, <1>7 DEF Ai!Next, Ai!Enqueue, Ai!breakerVars

(* The AI pipeline, with a provider that may ignore every abort.           *)
THEOREM AiInductive == Ai!Spec => []AiInv
<1>0. Ai!Limits
  BY ComponentsAssumption
<1>1. Ai!Init => AiInv
  BY <1>0, AiInitially
<1>2. AiInv /\ [Ai!Next]_(Ai!vars) => AiInv'
  <2>1. ASSUME AiInv, Ai!Next PROVE AiInv'
    <3>1. QueueOK /\ CircuitOK /\ CallsOK /\ Ai!NoProbeIsLost
      BY <2>1, AiParts
    <3>2. QueueOK' /\ CircuitOK' /\ CallsOK' /\ Ai!NoProbeIsLost'
      BY <1>0, <2>1, <3>1, QueueStep, CallsStep, CircuitStep
    <3>3. (AiInv <=> QueueOK /\ CircuitOK /\ CallsOK /\ Ai!NoProbeIsLost)'
      BY AiParts, PTL
    <3> QED BY <3>2, <3>3
  <2>2. AiInv /\ UNCHANGED Ai!vars => AiInv'
    BY DEF AiInv, Ai!TypeOK, Ai!NoProbeIsLost, Ai!Count, Ai!vars
  <2> QED BY <2>1, <2>2
<1> QED BY <1>1, <1>2, PTL DEF Ai!Spec

(* A half-open circuit never waits for an answer that nobody expects.      *)
THEOREM ProbesDecide == CSpec => []NoProbeIsLost
<1>1. AiInv => NoProbeIsLost
  BY DEF AiInv, NoProbeIsLost
<1> QED BY <1>1, SideBySide, AiInductive, PTL

----------------------------------------------------------------------------
(* The publication of a path *)

(* What is registered, or is known to a viewer as published, exists until  *)
(* MediaMTX loses it; and once a removal has decided, under the lock, it   *)
(* finds nobody who watches or was told that the path is there.            *)
RegisteredExists ==
    ~lost => /\ registered => configured
             /\ \A v \in Viewer : pathCall[v] = "ok" => configured
RemovalIsAlone ==
    removal = "deleting" => /\ ~registered /\ watching = {}
                            /\ \A v \in Viewer : pathCall[v] \in {"none", "queued"}

PathInv ==
    /\ Publication!TypeOK
    /\ looking + removing <= MaxRemovals
    /\ late => lost
    /\ RegisteredExists /\ RemovalIsAlone
    /\ Publication!WatchedPathExists

Publisher == Publication!Publisher
Busy == {"posting", "patching", "adding"}

(* At the start nothing is published and nobody wants anything.            *)
LEMMA PathInitially == Publication!Actors /\ Publication!Init => PathInv
<1> SUFFICES ASSUME Publication!Actors, Publication!Init PROVE PathInv
  OBVIOUS
<1> USE DEF Publication!Init
<1>1. Publication!TypeOK
  <2>1. 0 \in 0..MaxRemovals /\ 0 \in 0..MaxTroubles /\ Removal # Nobody
    BY DEF Publication!Actors
  <2>2. {p \in Publisher : pathCall[p] \in Busy} = {lock} \ {Nobody, Removal}
    BY DEF Publisher, Busy
  <2> QED BY <2>1, <2>2 DEF Publication!TypeOK, Publisher, Busy
<1>2. \A v \in Viewer : pathCall[v] = "none"
  BY DEF Publication!Publisher
<1> QED
  BY <1>1, <1>2 DEF PathInv, RegisteredExists, RemovalIsAlone, Publication!WatchedPathExists,
                    Publication!Actors

(* The lock is exclusive: a publisher that is in the middle of its calls   *)
(* to MediaMTX holds it, and so no removal has decided.                    *)
LEMMA HolderIsAlone ==
  ASSUME Publication!Actors, Publication!TypeOK, NEW p \in Publisher, pathCall[p] \in Busy
  PROVE  /\ lock = p /\ removal = "none" /\ p \notin {Removal, Nobody}
         /\ \A q \in Publisher : pathCall[q] \in Busy => q = p
<1>1. {q \in Publisher : pathCall[q] \in Busy} = {lock} \ {Nobody, Removal}
  BY DEF Publication!TypeOK, Busy, Publisher
<1>2. p \in {lock} \ {Nobody, Removal}
  BY <1>1
<1>3. removal # "none" <=> lock = Removal
  BY DEF Publication!TypeOK
<1> QED BY <1>1, <1>2, <1>3

(* With the lock free nobody is in the middle of anything.                 *)
LEMMA FreeLock ==
  ASSUME Publication!Actors, Publication!TypeOK, lock \in {Nobody, Removal}
  PROVE  \A q \in Publisher : pathCall[q] \notin Busy
<1>1. {q \in Publisher : pathCall[q] \in Busy} = {lock} \ {Nobody, Removal}
  BY DEF Publication!TypeOK, Busy, Publisher
<1> QED BY <1>1

CallState == {"none", "missing", "queued", "posting", "patching", "adding", "ok", "failed"}
LockAgrees == {p \in Publisher : pathCall[p] \in Busy} = {lock} \ {Nobody, Removal}

(* A publisher takes the lock when it starts its calls to MediaMTX, keeps  *)
(* it while it makes them and gives it back with the last.                 *)
LEMMA LockMoves ==
  ASSUME Publication!Actors, Publication!TypeOK, NEW p \in Publisher, NEW c \in CallState,
         pathCall' = [pathCall EXCEPT ![p] = c],
         \/ pathCall[p] \notin Busy /\ c \notin Busy /\ lock' = lock
         \/ pathCall[p] \in Busy /\ c \in Busy /\ lock' = lock
         \/ pathCall[p] \in Busy /\ c \notin Busy /\ lock' = Nobody
         \/ lock = Nobody /\ c \in Busy /\ lock' = p
  PROVE  /\ pathCall' \in [Publisher -> CallState] /\ LockAgrees'
         /\ (removal' = removal) => ((removal' # "none") <=> (lock' = Removal))
<1>0. /\ pathCall \in [Publisher -> CallState] /\ LockAgrees /\ p \notin {Removal, Nobody}
      /\ (removal # "none") <=> (lock = Removal)
  <2>1. p \notin {Removal, Nobody}
    BY DEF Publication!Actors, Publisher, Publication!Publisher
  <2> QED BY <2>1 DEF Publication!TypeOK, Publisher, CallState, Busy, LockAgrees
<1>1. pathCall' \in [Publisher -> CallState]
  BY <1>0
<1>2. \A q \in Publisher : pathCall'[q] = IF q = p THEN c ELSE pathCall[q]
  BY <1>0
<1>3. CASE (pathCall[p] \in Busy <=> c \in Busy) /\ lock' = lock
  BY <1>0, <1>1, <1>2, <1>3 DEF LockAgrees
<1>4. CASE pathCall[p] \in Busy /\ c \notin Busy /\ lock' = Nobody
  BY <1>0, <1>1, <1>2, <1>4, HolderIsAlone DEF LockAgrees, Publication!Actors
<1>5. CASE lock = Nobody /\ c \in Busy /\ lock' = p
  BY <1>0, <1>1, <1>2, <1>5, FreeLock DEF LockAgrees, Publication!Actors
<1> QED BY <1>3, <1>4, <1>5

(* The type invariant in three parts: flags, the rest of the world, and    *)
(* the calls with their lock.                                              *)
FlagsTyped ==
    /\ configured \in BOOLEAN /\ registered \in BOOLEAN /\ pruning \in BOOLEAN
    /\ late \in BOOLEAN /\ lost \in BOOLEAN /\ (late => lost)
WorldTyped ==
    /\ looking \in Nat /\ removing \in Nat /\ looking + removing <= MaxRemovals
    /\ removal \in {"none", "pruning", "counted", "deleting"}
    /\ consumer \in {"none", "live", "expired"} /\ watching \subseteq Viewer
    /\ troubles \in 0..MaxTroubles
LockTyped ==
    /\ pathCall \in [Publisher -> CallState] /\ LockAgrees
    /\ (removal # "none") <=> (lock = Removal)

(* The parts together are the type invariant.                              *)
LEMMA PathParts ==
  ASSUME Publication!Actors
  PROVE  (Publication!TypeOK /\ looking + removing <= MaxRemovals /\ (late => lost))
           <=> FlagsTyped /\ WorldTyped /\ LockTyped
<1>1. {configured, registered, pruning, late, lost} \subseteq BOOLEAN <=>
        /\ configured \in BOOLEAN /\ registered \in BOOLEAN /\ pruning \in BOOLEAN
        /\ late \in BOOLEAN /\ lost \in BOOLEAN
  OBVIOUS
<1>2. /\ {looking, removing} \subseteq 0..MaxRemovals /\ looking + removing <= MaxRemovals
      <=> /\ looking \in Nat /\ removing \in Nat /\ looking + removing <= MaxRemovals
  BY DEF Publication!Actors
<1> QED
  BY <1>1, <1>2 DEF Publication!TypeOK, FlagsTyped, WorldTyped, LockTyped, Publisher, CallState, Busy, LockAgrees

(* Flags stay flags, and a DELETE that may still arrive counts as a loss.  *)
LEMMA FlagsStep ==
  ASSUME FlagsTyped, Publication!Next
  PROVE  FlagsTyped'
<1> USE DEF FlagsTyped, Publication!removalVars, Publication!mediaVars, Publication!leaseVars,
            Publication!faultVars, Publication!Trouble
<1>1. ASSUME NEW p \in Publisher,
             Publication!Publish(p) \/ Publication!Post(p) \/ Publication!Patch(p) \/ Publication!Add(p)
      PROVE  FlagsTyped'
  <2>1. UNCHANGED <<pruning, late, lost>>
    BY <1>1 DEF Publication!Publish, Publication!Post, Publication!Patch, Publication!Add
  <2>2. UNCHANGED <<configured, registered>> \/ (configured' = TRUE /\ registered' = TRUE)
    BY <1>1 DEF Publication!Publish, Publication!Post, Publication!Patch, Publication!Add,
                Publication!Registers
  <2> QED BY <2>1, <2>2
<1>2. ASSUME NEW p \in Publisher, Publication!PublishFails(p) PROVE FlagsTyped'
  <2>1. configured' = configured \/ configured' = (configured \/ pathCall[p] # "patching")
    BY <1>2 DEF Publication!PublishFails
  <2>2. configured' \in BOOLEAN
    BY <2>1
  <2> QED BY <1>2, <2>2 DEF Publication!PublishFails
<1>3. ASSUME \/ Publication!LookUpCamera \/ Publication!CountConsumers
             \/ Publication!PruneCounted \/ Publication!Decide \/ Publication!Delete
      PROVE  FlagsTyped'
  <2>1. UNCHANGED <<pruning, late, lost>>
    BY <1>3 DEF Publication!LookUpCamera, Publication!CountConsumers, Publication!PruneCounted,
                Publication!Decide, Publication!Delete
  <2>2. (configured' = configured \/ configured' = FALSE) /\ (registered' = registered \/ registered' = FALSE)
    BY <1>3 DEF Publication!LookUpCamera, Publication!CountConsumers, Publication!PruneCounted,
                Publication!Decide, Publication!Delete
  <2> QED BY <2>1, <2>2
<1>7. ASSUME Publication!DeleteFails PROVE FlagsTyped'
  <2>1. UNCHANGED <<registered, pruning>>
    BY <1>7 DEF Publication!DeleteFails
  <2>2. configured' = configured \/ configured' = FALSE
    BY <1>7 DEF Publication!DeleteFails
  <2>3. (late' = late \/ late' = TRUE) /\ lost' = (lost \/ late')
    BY <1>7 DEF Publication!DeleteFails
  <2>4. late' \in BOOLEAN /\ lost' \in BOOLEAN /\ (late' => lost')
    BY <2>3
  <2> QED BY <2>1, <2>2, <2>4
<1>4. ASSUME NEW v \in Viewer,
             \/ Publication!Start(v) \/ Publication!Register(v) \/ Publication!StartFails(v)
             \/ Publication!Cancel(v) \/ Publication!Leave(v)
      PROVE  FlagsTyped'
  BY <1>4 DEF Publication!Start, Publication!Register, Publication!StartFails,
                    Publication!Cancel, Publication!Leave, Publication!AskRemoval
<1>5. ASSUME \/ Publication!Poll \/ Publication!Acquire \/ Publication!LeaseExpires
             \/ Publication!ListConsumers \/ Publication!PruneListed
             \/ Publication!ListPaths \/ Publication!Republish \/ Publication!EndPass
      PROVE  FlagsTyped'
  <2>1. UNCHANGED <<configured, late, lost>>
    BY <1>5 DEF Publication!Poll, Publication!Acquire, Publication!LeaseExpires,
                Publication!ListConsumers, Publication!PruneListed, Publication!ListPaths,
                Publication!Republish, Publication!EndPass
  <2>2. registered' = registered \/ registered' = FALSE
    BY <1>5 DEF Publication!Poll, Publication!Acquire, Publication!LeaseExpires,
                Publication!ListConsumers, Publication!PruneListed, Publication!ListPaths,
                Publication!Republish, Publication!EndPass
  <2>3. pruning' = pruning \/ pruning' = TRUE \/ pruning' = FALSE
    BY <1>5 DEF Publication!Poll, Publication!Acquire, Publication!LeaseExpires,
                Publication!ListConsumers, Publication!PruneListed, Publication!ListPaths,
                Publication!Republish, Publication!EndPass
  <2> QED BY <2>1, <2>2, <2>3
<1>6. ASSUME Publication!MediaMTXRestarts \/ Publication!LateDelete PROVE FlagsTyped'
  <2>1. UNCHANGED <<registered, pruning>> /\ configured' = FALSE
    BY <1>6 DEF Publication!MediaMTXRestarts, Publication!LateDelete
  <2>2. (UNCHANGED late /\ lost' = TRUE) \/ (late' = FALSE /\ UNCHANGED lost)
    BY <1>6 DEF Publication!MediaMTXRestarts, Publication!LateDelete
  <2> QED BY <2>1, <2>2
<1> QED BY <1>1, <1>2, <1>3, <1>4, <1>5, <1>6, <1>7 DEF Publication!Next, Publisher

(* No more removals and troubles than there may be.                        *)
LEMMA WorldStep ==
  ASSUME Publication!Actors, WorldTyped, Publication!Next
  PROVE  WorldTyped'
<1> USE DEF WorldTyped, Publication!removalVars, Publication!mediaVars, Publication!leaseVars,
            Publication!faultVars, Publication!Trouble
<1>0. MaxRemovals \in Nat /\ MaxTroubles \in Nat
  BY DEF Publication!Actors
<1>1. ASSUME NEW p \in Publisher,
             \/ Publication!Publish(p) \/ Publication!Post(p) \/ Publication!Patch(p)
             \/ Publication!Add(p) \/ Publication!PublishFails(p)
      PROVE  WorldTyped'
  BY <1>0, <1>1 DEF Publication!Publish, Publication!Post, Publication!Patch, Publication!Add,
                    Publication!PublishFails, Publication!Registers
<1>2. ASSUME \/ Publication!LookUpCamera \/ Publication!CountConsumers
             \/ Publication!PruneCounted \/ Publication!Decide \/ Publication!Delete
      PROVE  WorldTyped'
  BY <1>0, <1>2 DEF Publication!LookUpCamera, Publication!CountConsumers, Publication!PruneCounted,
                    Publication!Decide, Publication!Delete
<1>3. ASSUME Publication!DeleteFails PROVE WorldTyped'
  BY <1>0, <1>3 DEF Publication!DeleteFails
<1>4. ASSUME NEW v \in Viewer,
             \/ Publication!Start(v) \/ Publication!Register(v) \/ Publication!StartFails(v)
             \/ Publication!Cancel(v) \/ Publication!Leave(v)
      PROVE  WorldTyped'
  BY <1>0, <1>4 DEF Publication!Start, Publication!Register, Publication!StartFails,
                    Publication!Cancel, Publication!Leave, Publication!AskRemoval
<1>5. ASSUME \/ Publication!Poll \/ Publication!Acquire \/ Publication!LeaseExpires
             \/ Publication!ListConsumers \/ Publication!PruneListed
             \/ Publication!ListPaths \/ Publication!Republish \/ Publication!EndPass
      PROVE  WorldTyped'
  BY <1>0, <1>5 DEF Publication!Poll, Publication!Acquire, Publication!LeaseExpires,
                    Publication!ListConsumers, Publication!PruneListed, Publication!ListPaths,
                    Publication!Republish, Publication!EndPass
<1>6. ASSUME Publication!MediaMTXRestarts \/ Publication!LateDelete PROVE WorldTyped'
  BY <1>0, <1>6 DEF Publication!MediaMTXRestarts, Publication!LateDelete
<1> QED BY <1>1, <1>2, <1>3, <1>4, <1>5, <1>6 DEF Publication!Next, Publisher

(* Who is in the middle of something holds the lock, and nobody else does. *)
LEMMA LockStep ==
  ASSUME Publication!Actors, Publication!TypeOK, Publication!Next
  PROVE  LockTyped'
<1> USE DEF Publication!removalVars, Publication!Become, Busy, CallState
<1>0. /\ pathCall \in [Publisher -> CallState] /\ LockAgrees
      /\ (removal # "none") <=> (lock = Removal)
      /\ Analytics \in Publisher /\ Worker \in Publisher /\ Viewer \subseteq Publisher
      /\ Removal # Nobody
  BY DEF Publication!TypeOK, Publisher, CallState, Busy, LockAgrees, Publication!Publisher,
         Publication!Actors
<1>1. ASSUME NEW p \in Publisher, Publication!Publish(p) PROVE LockTyped'
  <2>1. UNCHANGED removal
    BY <1>1 DEF Publication!Publish
  <2>2. CASE registered
    <3>1. pathCall' = [pathCall EXCEPT ![p] = "ok"] /\ lock' = lock /\ pathCall[p] = "queued"
      BY <1>1, <2>2 DEF Publication!Publish
    <3> QED BY <1>0, <2>1, <3>1, LockMoves DEF LockTyped
  <2>3. CASE ~registered
    <3>1. pathCall' = [pathCall EXCEPT ![p] = "posting"] /\ lock' = p /\ lock = Nobody
      BY <1>1, <2>3 DEF Publication!Publish
    <3> QED BY <1>0, <2>1, <3>1, LockMoves DEF LockTyped
  <2> QED BY <2>2, <2>3
<1>2. ASSUME NEW p \in Publisher, Publication!Post(p) \/ Publication!Patch(p) \/ Publication!Add(p)
                                  \/ Publication!PublishFails(p)
      PROVE  LockTyped'
  <2>1. UNCHANGED removal /\ pathCall[p] \in Busy
    BY <1>2 DEF Publication!Post, Publication!Patch, Publication!Add, Publication!PublishFails
  <2>2. \/ /\ lock' = Nobody
           /\ pathCall' = [pathCall EXCEPT ![p] = "ok"] \/ pathCall' = [pathCall EXCEPT ![p] = "failed"]
        \/ /\ lock' = lock
           /\ \/ pathCall' = [pathCall EXCEPT ![p] = "patching"]
              \/ pathCall' = [pathCall EXCEPT ![p] = "adding"]
    BY <1>2 DEF Publication!Post, Publication!Patch, Publication!Add, Publication!PublishFails,
                Publication!Registers
  <2> QED BY <1>0, <2>1, <2>2, LockMoves DEF LockTyped
<1>3. ASSUME NEW p \in Publisher, NEW c \in {"none", "missing", "queued"},
             pathCall[p] \notin Busy, pathCall' = [pathCall EXCEPT ![p] = c], UNCHANGED <<lock, removal>>
      PROVE  LockTyped'
  BY <1>0, <1>3, LockMoves DEF LockTyped
<1>4. ASSUME NEW v \in Viewer,
             \/ Publication!Start(v) \/ Publication!Register(v) \/ Publication!StartFails(v)
             \/ Publication!Cancel(v)
      PROVE  LockTyped'
  <2>1. \E c \in {"none", "missing", "queued"} : pathCall' = [pathCall EXCEPT ![v] = c]
    BY <1>4 DEF Publication!Start, Publication!Register, Publication!StartFails, Publication!Cancel
  <2>2. pathCall[v] \notin Busy /\ UNCHANGED <<lock, removal>>
    BY <1>4 DEF Publication!Start, Publication!Register, Publication!StartFails, Publication!Cancel
  <2> QED BY <1>0, <1>3, <2>1, <2>2
<1>5. ASSUME Publication!Poll \/ Publication!Acquire PROVE LockTyped'
  <2>1. \E c \in {"none", "missing", "queued"} : pathCall' = [pathCall EXCEPT ![Analytics] = c]
    BY <1>5 DEF Publication!Poll, Publication!Acquire
  <2>2. pathCall[Analytics] \notin Busy /\ UNCHANGED <<lock, removal>>
    BY <1>5 DEF Publication!Poll, Publication!Acquire
  <2> QED BY <1>0, <1>3, <2>1, <2>2
<1>6. ASSUME Publication!ListPaths \/ Publication!Republish \/ Publication!EndPass PROVE LockTyped'
  <2>1. \E c \in {"none", "missing", "queued"} : pathCall' = [pathCall EXCEPT ![Worker] = c]
    BY <1>6 DEF Publication!ListPaths, Publication!Republish, Publication!EndPass
  <2>2. pathCall[Worker] \notin Busy /\ UNCHANGED <<lock, removal>>
    BY <1>6 DEF Publication!ListPaths, Publication!Republish, Publication!EndPass
  <2> QED BY <1>0, <1>3, <2>1, <2>2
<1>7. ASSUME UNCHANGED <<pathCall, lock>>, ((removal # "none") <=> (removal' # "none")) PROVE LockTyped'
  BY <1>0, <1>7 DEF LockTyped, LockAgrees
<1>8. ASSUME UNCHANGED pathCall, {lock, lock'} \subseteq {Nobody, Removal},
             (removal' # "none") <=> (lock' = Removal)
      PROVE  LockTyped'
  BY <1>0, <1>8 DEF LockTyped, LockAgrees
<1>9. ASSUME Publication!CountConsumers PROVE LockTyped'
  BY <1>0, <1>7, <1>8, <1>9 DEF Publication!CountConsumers
<1>10. ASSUME Publication!Decide \/ Publication!Delete \/ Publication!DeleteFails PROVE LockTyped'
  <2>0. removal # "none"
    BY <1>10 DEF Publication!Decide, Publication!Delete, Publication!DeleteFails
  <2>1. lock = Removal
    BY <1>0, <2>0
  <2> QED
    BY <1>0, <1>8, <1>10, <2>1 DEF Publication!Decide, Publication!Delete, Publication!DeleteFails
<1>11. ASSUME \/ Publication!LookUpCamera \/ Publication!PruneCounted
              \/ Publication!LeaseExpires \/ Publication!ListConsumers \/ Publication!PruneListed
              \/ Publication!MediaMTXRestarts \/ Publication!LateDelete
              \/ \E v \in Viewer : Publication!Leave(v)
       PROVE  LockTyped'
  <2>1. UNCHANGED <<pathCall, lock>> /\ ((removal # "none") <=> (removal' # "none"))
    BY <1>11 DEF Publication!LookUpCamera, Publication!PruneCounted, Publication!LeaseExpires,
                 Publication!ListConsumers, Publication!PruneListed, Publication!MediaMTXRestarts,
                 Publication!LateDelete, Publication!Leave
  <2> QED BY <1>7, <2>1
<1> QED
  BY <1>1, <1>2, <1>4, <1>5, <1>6, <1>9, <1>10, <1>11 DEF Publication!Next, Publisher

(* Neither a publication nor a removal that crosses another leaves a       *)
(* viewer with a path that is not there: what removals take away was       *)
(* nobody's, and who comes while they do waits for the lock.               *)
LEMMA ExistenceStep ==
  ASSUME Publication!Actors, PathInv, Publication!Next
  PROVE  RegisteredExists' /\ RemovalIsAlone' /\ Publication!WatchedPathExists'
<1> DEFINE Goal == RegisteredExists /\ RemovalIsAlone /\ Publication!WatchedPathExists
<1> USE DEF RegisteredExists, RemovalIsAlone, Publication!WatchedPathExists,
            Publication!removalVars, Publication!mediaVars, Publication!leaseVars,
            Publication!faultVars, Publication!Trouble, Publication!Become
<1>0. /\ Publication!TypeOK /\ (late => lost)
      /\ RegisteredExists /\ RemovalIsAlone /\ Publication!WatchedPathExists
      /\ pathCall \in [Publisher -> CallState] /\ Viewer \subseteq Publisher
      /\ \A v \in Viewer : v # Analytics /\ v # Worker
      /\ Analytics \in Publisher /\ Worker \in Publisher
      /\ (removal # "none") <=> (lock = Removal)
      /\ Removal # Nobody
  BY DEF PathInv, Publication!TypeOK, Publisher, Publication!Publisher, CallState, Publication!Actors
<1>1. ASSUME NEW p \in Publisher, Publication!Publish(p) PROVE Goal'
  <2>1. removal # "deleting" /\ removal' = removal
    BY <1>0, <1>1 DEF Publication!Publish
  <2> QED BY <1>0, <1>1, <2>1 DEF Publication!Publish
<1>2. ASSUME NEW p \in Publisher,
             \/ Publication!Post(p) \/ Publication!Patch(p) \/ Publication!Add(p)
             \/ Publication!PublishFails(p)
      PROVE  Goal'
  <2>1. removal = "none" /\ removal' = removal
    <3>1. pathCall[p] \in Busy /\ removal' = removal
      BY <1>2 DEF Publication!Post, Publication!Patch, Publication!Add, Publication!PublishFails, Busy
    <3> QED BY <1>0, <3>1, HolderIsAlone
  <2>2. ASSUME Publication!Registers(p) PROVE configured' = TRUE /\ registered' = TRUE
    BY <2>2 DEF Publication!Registers
  <2>3. CASE Publication!Registers(p)
    BY <1>2, <2>1, <2>2, <2>3
  <2>4. CASE ~Publication!Registers(p)
    <3>1. UNCHANGED <<registered, watching, lost>> /\ (configured => configured')
      BY <1>2, <2>4 DEF Publication!Post, Publication!Patch, Publication!Add, Publication!PublishFails
    <3>2. \A v \in Viewer : pathCall'[v] = "ok" => pathCall[v] = "ok"
      BY <1>0, <1>2, <2>4 DEF Publication!Post, Publication!Patch, Publication!Add, Publication!PublishFails
    <3> QED BY <1>0, <2>1, <3>1, <3>2
  <2> QED BY <2>3, <2>4
<1>3. ASSUME \/ Publication!LookUpCamera \/ Publication!CountConsumers \/ Publication!PruneCounted
      PROVE  Goal'
  BY <1>0, <1>3 DEF Publication!LookUpCamera, Publication!CountConsumers, Publication!PruneCounted
<1>4. ASSUME Publication!Decide PROVE Goal'
  <2>1. CASE Publication!HasOwner
    BY <1>0, <1>4, <2>1 DEF Publication!Decide
  <2>2. CASE ~Publication!HasOwner
    <3>1. watching = {} /\ \A v \in Viewer : pathCall[v] = "none"
      BY <2>2 DEF Publication!HasOwner
    <3> QED BY <1>0, <1>4, <2>2, <3>1 DEF Publication!Decide
  <2> QED BY <2>1, <2>2
<1>5. ASSUME Publication!Delete PROVE Goal'
  BY <1>0, <1>5 DEF Publication!Delete
<1>6. ASSUME Publication!DeleteFails PROVE Goal'
  BY <1>0, <1>6 DEF Publication!DeleteFails
<1>7. ASSUME NEW v \in Viewer,
             \/ Publication!Start(v) \/ Publication!Register(v) \/ Publication!StartFails(v)
             \/ Publication!Cancel(v)
      PROVE  Goal'
  BY <1>0, <1>7 DEF Publication!Start, Publication!Register, Publication!StartFails,
                    Publication!Cancel
<1>8. ASSUME NEW v \in Viewer, Publication!Leave(v) PROVE Goal'
  BY <1>0, <1>8 DEF Publication!Leave
<1>9. ASSUME \/ Publication!Poll \/ Publication!Acquire \/ Publication!LeaseExpires
             \/ Publication!ListConsumers \/ Publication!PruneListed
             \/ Publication!ListPaths \/ Publication!Republish \/ Publication!EndPass
      PROVE  Goal'
  <2>1. /\ UNCHANGED <<configured, removal, watching, lost>>
        /\ registered' = registered \/ registered' = FALSE
        /\ \A v \in Viewer : pathCall'[v] = pathCall[v]
    BY <1>0, <1>9 DEF Publication!Poll, Publication!Acquire, Publication!LeaseExpires,
                      Publication!ListConsumers, Publication!PruneListed, Publication!ListPaths,
                      Publication!Republish, Publication!EndPass
  <2> QED BY <1>0, <2>1
<1>10. ASSUME Publication!MediaMTXRestarts \/ Publication!LateDelete PROVE Goal'
  <2>1. lost' = TRUE
    BY <1>0, <1>10 DEF Publication!MediaMTXRestarts, Publication!LateDelete, Publication!TypeOK
  <2>2. UNCHANGED <<registered, pathCall, watching, removal>>
    BY <1>10 DEF Publication!MediaMTXRestarts, Publication!LateDelete
  <2> QED BY <1>0, <2>1, <2>2
<1> QED
  BY <1>1, <1>2, <1>3, <1>4, <1>5, <1>6, <1>7, <1>8, <1>9, <1>10 DEF Publication!Next, Publisher

(* The publication of a path, with every crossing of publications,         *)
(* removals, leases, restarts of MediaMTX and late DELETEs.                *)
THEOREM PathInductive == Publication!Spec => []PathInv
<1>0. Publication!Actors
  BY ComponentsAssumption
<1>1. Publication!Init => PathInv
  BY <1>0, PathInitially
<1>2. PathInv /\ [Publication!Next]_(Publication!vars) => PathInv'
  <2>1. ASSUME PathInv, Publication!Next PROVE PathInv'
    <3>1. Publication!TypeOK /\ FlagsTyped /\ WorldTyped
      BY <1>0, <2>1, PathParts DEF PathInv
    <3>2. FlagsTyped' /\ WorldTyped' /\ LockTyped'
      BY <1>0, <2>1, <3>1, FlagsStep, WorldStep, LockStep
    <3>3. (Publication!TypeOK /\ looking + removing <= MaxRemovals /\ (late => lost))'
      <4>1. ((Publication!TypeOK /\ looking + removing <= MaxRemovals /\ (late => lost))
              <=> FlagsTyped /\ WorldTyped /\ LockTyped)'
        BY <1>0, PathParts, PTL
      <4> QED BY <3>2, <4>1
    <3>4. RegisteredExists' /\ RemovalIsAlone' /\ Publication!WatchedPathExists'
      BY <1>0, <2>1, ExistenceStep
    <3> QED BY <3>3, <3>4 DEF PathInv
  <2>2. PathInv /\ UNCHANGED Publication!vars => PathInv'
    BY DEF PathInv, Publication!TypeOK, RegisteredExists, RemovalIsAlone,
           Publication!WatchedPathExists, Publication!vars
  <2> QED BY <2>1, <2>2
<1> QED BY <1>1, <1>2, PTL DEF Publication!Spec

(* As long as MediaMTX lost nothing by itself, a viewer has its path.      *)
THEOREM ViewersHaveTheirPath == CSpec => []WatchedPathExists
<1>1. PathInv => WatchedPathExists
  BY DEF PathInv, WatchedPathExists
<1> QED BY <1>1, SideBySide, PathInductive, PTL

----------------------------------------------------------------------------
(* The refresh tokens of a user: however many tabs present a token at once *)
(* one exchanges it; a reuse ends the family for good; honest tabs are not *)
(* taken for thieves.  For any number of browsers, tabs and tokens.        *)

Row == [id : 1..issued, token : 1..issued]

(* The rows of sessions and used_refresh_tokens.  Besides the properties:  *)
(* the token of a row was not exchanged yet, so whoever wins the           *)
(* compare-and-swap is the first to exchange it.                           *)
RowsOK ==
    /\ issued \in 0..MaxTokens /\ revoked \in 0..issued
    /\ sessions \subseteq Row
    /\ \A r, s \in sessions : r.id = s.id \/ r.token = s.token => r = s
    /\ DOMAIN usedTokens \subseteq 1..issued
    /\ \A u \in DOMAIN usedTokens : usedTokens[u] \in BOOLEAN
    /\ \A u \in DOMAIN usedTokens, s \in sessions : s.token # u
    /\ parent \in [1..issued -> Nat] /\ \A t \in 1..issued : parent[t] < t
    /\ \A s \in sessions, u \in 1..issued : parent[u] # s.token
    /\ Tokens!ExchangedOnce /\ Tokens!ReuseEndsTheFamily

(* What browsers and their calls know.  A token that was issued and not    *)
(* delivered is known to its call only and is unused; the cookie of a      *)
(* browser, and the token of a call that has it, are of that browser only. *)
CallsKnow ==
    /\ jar \in [Browser -> 0..issued]
    /\ tabCall \in [Tab -> Tokens!Call]
    /\ \A t \in Tab : tabCall[t].token <= issued /\ tabCall[t].new <= issued
    /\ \A b, c \in Browser : jar[b] = jar[c] /\ jar[b] # 0 => b = c
    /\ \A t \in Tab, b \in Browser : tabCall[t].token = jar[b] /\ jar[b] # 0 => BrowserOf[t] = b
Undelivered ==
    \A t \in Tab : tabCall[t].new # 0 =>
        /\ tabCall[t].new \notin DOMAIN usedTokens
        /\ \A u \in Tab : tabCall[u].token # tabCall[t].new
        /\ \A u \in Tab : tabCall[u].new = tabCall[t].new => u = t
        /\ \A b \in Browser : jar[b] # tabCall[t].new

(* Until an answer is lost or a call outlives the grace: a cookie that is  *)
(* used already has its successor on the way, and whoever presents a used  *)
(* token does so within its grace.                                         *)
Old(x) == x \in DOMAIN usedTokens /\ usedTokens[x]
Succeeds(b, t) ==
    BrowserOf[t] = b /\ tabCall[t].phase = "answered" /\ tabCall[t].new # 0
TabsAreHonest ==
    ~disturbed =>
        /\ \A b \in Browser : ~Old(jar[b])
        /\ \A b \in Browser : jar[b] \in DOMAIN usedTokens => \E t \in Tab : Succeeds(b, t)
        /\ \A t \in Tab :
              /\ tabCall[t].phase = "sent" => ~Old(tabCall[t].token)
              /\ tabCall[t].phase \in {"rotating", "checking"} => ~tabCall[t].late
              /\ tabCall[t].phase # "revoking"

TokensInv == RowsOK /\ CallsKnow /\ Undelivered /\ TabsAreHonest /\ disturbed \in BOOLEAN

----------------------------------------------------------------------------

(* Nobody is logged in. *)
LEMMA TokensInitially == Tokens!Tabs /\ Tokens!Init => TokensInv
<1> SUFFICES ASSUME Tokens!Tabs, Tokens!Init PROVE TokensInv
  OBVIOUS
<1> USE DEF Tokens!Init
<1>1. RowsOK
  BY DEF RowsOK, Tokens!Tabs, Tokens!ExchangedOnce, Tokens!ReuseEndsTheFamily
<1>2. \A t \in Tab : /\ tabCall[t].phase = "idle" /\ tabCall[t].token = 0 /\ tabCall[t].new = 0
                     /\ tabCall[t] \in Tokens!Call
  BY DEF Tokens!Idle, Tokens!Call, Tokens!Phases, Tokens!Tabs
<1>3. CallsKnow
  BY <1>2 DEF CallsKnow
<1>4. Undelivered /\ TabsAreHonest
  BY <1>2 DEF Undelivered, TabsAreHonest, Old
<1> QED BY <1>1, <1>3, <1>4 DEF TokensInv

(***************************************************************************)
(* The rows.                                                               *)
(***************************************************************************)

(* Sessions may go at any time. *)
LEMMA RowsGo ==
  ASSUME RowsOK, sessions' \subseteq sessions, UNCHANGED <<usedTokens, issued, parent, revoked>>
  PROVE  RowsOK'
BY DEF RowsOK, Row, Tokens!ExchangedOnce, Tokens!ReuseEndsTheFamily

(* A new token is nobody's and nobody's parent.                            *)
LEMMA NewToken ==
  ASSUME Tokens!Tabs, RowsOK, NEW old \in 0..issued, Tokens!Issue(old)
  PROVE  /\ issued' = issued + 1 /\ issued' \in 1..MaxTokens /\ issued \in Nat
         /\ parent' \in [1..issued' -> Nat] /\ \A t \in 1..issued' : parent'[t] < t
         /\ parent'[issued'] = old
         /\ \A t \in 1..issued : parent'[t] = parent[t]
         /\ 1..issued' = 1..issued \cup {issued'}
         /\ \A s \in sessions : s.id # issued' /\ s.token # issued'
<1>1. /\ issued \in Nat /\ MaxTokens \in Nat /\ issued < MaxTokens /\ issued' = issued + 1
      /\ parent' = [t \in 1..issued' |-> IF t = issued' THEN old ELSE parent[t]]
      /\ parent \in [1..issued -> Nat] /\ \A t \in 1..issued : parent[t] < t
  BY DEF RowsOK, Tokens!Tabs, Tokens!Issue
<1>2. 1..issued' = 1..issued \cup {issued'} /\ issued' \notin 1..issued
  BY <1>1
<1>3. ASSUME NEW s \in sessions PROVE s.id # issued' /\ s.token # issued'
  <2>1. s.id \in 1..issued /\ s.token \in 1..issued
    BY DEF RowsOK, Row
  <2> QED BY <1>2, <2>1
<1> QED BY <1>1, <1>2, <1>3

(* A login adds a row of its own. *)
LEMMA RowsLogin ==
  ASSUME Tokens!Tabs, RowsOK, Tokens!Issue(0),
         sessions' = sessions \cup {[id |-> issued', token |-> issued']},
         UNCHANGED <<usedTokens, revoked>>
  PROVE  RowsOK'
<1> DEFINE new == [id |-> issued', token |-> issued']
<1>0. 0 \in 0..issued
  BY DEF RowsOK
<1>1. /\ issued' = issued + 1 /\ issued' \in 1..MaxTokens /\ issued \in Nat
      /\ parent' \in [1..issued' -> Nat] /\ \A t \in 1..issued' : parent'[t] < t
      /\ parent'[issued'] = 0
      /\ \A t \in 1..issued : parent'[t] = parent[t]
      /\ 1..issued' = 1..issued \cup {issued'}
      /\ \A s \in sessions : s.id # issued' /\ s.token # issued'
  BY <1>0, NewToken
<1>2. revoked' \in 0..issued /\ revoked' \in 0..issued' /\ issued' \in 0..MaxTokens
  BY <1>1 DEF RowsOK
<1>3. sessions' \subseteq Row' /\ new \in Row'
  BY <1>1 DEF RowsOK, Row
<1>4. \A r, s \in sessions' : r.id = s.id \/ r.token = s.token => r = s
  BY <1>1 DEF RowsOK
<1>5. /\ DOMAIN usedTokens' \subseteq 1..issued'
      /\ \A u \in DOMAIN usedTokens' : usedTokens'[u] \in BOOLEAN
      /\ \A u \in DOMAIN usedTokens', s \in sessions' : s.token # u
  BY <1>1 DEF RowsOK
<1>6. \A s \in sessions', u \in 1..issued' : parent'[u] # s.token
  <2>1. \A s \in sessions : s.token \in 1..issued
    BY DEF RowsOK, Row
  <2> QED BY <1>1, <2>1 DEF RowsOK
<1>7. \A s, t \in 1..issued' : parent'[s] = parent'[t] /\ parent'[s] # 0 => s = t
  BY <1>1 DEF RowsOK, Tokens!ExchangedOnce
<1>8. \A s \in sessions' : s.id > revoked'
  BY <1>1, <1>2 DEF RowsOK, Tokens!ReuseEndsTheFamily
<1> QED
  BY <1>1, <1>2, <1>3, <1>4, <1>5, <1>6, <1>7, <1>8
  DEF RowsOK, Tokens!ExchangedOnce, Tokens!ReuseEndsTheFamily

(* A rotation exchanges the token of a row for the new one. *)
LEMMA RowsRotate ==
  ASSUME Tokens!Tabs, RowsOK, NEW s \in sessions, Tokens!Issue(s.token),
         sessions' = (sessions \ {s}) \cup {[s EXCEPT !.token = issued']},
         usedTokens' = [u \in DOMAIN usedTokens \cup {s.token} |->
                          IF u = s.token THEN FALSE ELSE usedTokens[u]],
         UNCHANGED revoked
  PROVE  RowsOK'
<1> DEFINE new == [s EXCEPT !.token = issued']
<1>0. s.token \in 1..issued /\ s.token \in 0..issued /\ s.id \in 1..issued /\ s \in Row
  BY DEF RowsOK, Row
<1>1. /\ issued' = issued + 1 /\ issued' \in 1..MaxTokens /\ issued \in Nat
      /\ parent' \in [1..issued' -> Nat] /\ \A t \in 1..issued' : parent'[t] < t
      /\ parent'[issued'] = s.token
      /\ \A t \in 1..issued : parent'[t] = parent[t]
      /\ 1..issued' = 1..issued \cup {issued'}
      /\ \A r \in sessions : r.id # issued' /\ r.token # issued'
  BY <1>0, NewToken
<1>2. revoked' \in 0..issued /\ revoked' \in 0..issued' /\ issued' \in 0..MaxTokens
  BY <1>1 DEF RowsOK
<1>n. new.token = issued' /\ new.id = s.id /\ new \in Row'
  BY <1>0, <1>1 DEF Row
<1>r. \A r \in sessions' : r = new \/ (r \in sessions /\ r # s /\ r.token # s.token /\ r.id # s.id)
  BY DEF RowsOK
<1>3. sessions' \subseteq Row'
  <2>1. \A r \in sessions : r \in Row'
    BY <1>1 DEF RowsOK, Row
  <2> QED BY <1>n, <2>1
<1> HIDE DEF new
<1>4. \A r, q \in sessions' : r.id = q.id \/ r.token = q.token => r = q
  BY <1>1, <1>n, <1>r DEF RowsOK
<1>5. /\ DOMAIN usedTokens' \subseteq 1..issued'
      /\ \A u \in DOMAIN usedTokens' : usedTokens'[u] \in BOOLEAN
      /\ \A u \in DOMAIN usedTokens', r \in sessions' : r.token # u
  <2>1. DOMAIN usedTokens' = DOMAIN usedTokens \cup {s.token}
    OBVIOUS
  <2>2. DOMAIN usedTokens' \subseteq 1..issued
    BY <1>0, <2>1 DEF RowsOK
  <2>3. \A u \in DOMAIN usedTokens' : usedTokens'[u] \in BOOLEAN
    BY DEF RowsOK
  <2>4. ASSUME NEW u \in DOMAIN usedTokens', NEW r \in sessions' PROVE r.token # u
    <3>1. CASE r = new
      BY <1>1, <1>n, <2>2, <3>1
    <3>2. CASE r \in sessions /\ r.token # s.token
      BY <2>1, <3>2 DEF RowsOK
    <3> QED BY <1>r, <3>1, <3>2
  <2> QED BY <1>1, <2>2, <2>3, <2>4
<1>6. \A r \in sessions', u \in 1..issued' : parent'[u] # r.token
  <2>1. ASSUME NEW r \in sessions', NEW u \in 1..issued' PROVE parent'[u] # r.token
    <3>1. CASE r = new
      <4>1. parent'[u] < u /\ u <= issued' /\ parent'[u] \in Nat /\ u \in Nat
        BY <1>1
      <4> QED BY <1>1, <1>n, <3>1, <4>1
    <3>2. CASE r \in sessions /\ r.token # s.token
      BY <1>1, <3>2 DEF RowsOK
    <3> QED BY <1>r, <3>1, <3>2
  <2> QED BY <2>1
<1>7. \A q, t \in 1..issued' : parent'[q] = parent'[t] /\ parent'[q] # 0 => q = t
  BY <1>1 DEF RowsOK, Tokens!ExchangedOnce
<1>8. \A r \in sessions' : r.id > revoked'
  BY <1>n, <1>r DEF RowsOK, Tokens!ReuseEndsTheFamily
<1> QED
  BY <1>1, <1>2, <1>3, <1>4, <1>5, <1>6, <1>7, <1>8
  DEF RowsOK, Tokens!ExchangedOnce, Tokens!ReuseEndsTheFamily

(* The family goes, and its history; or time passes for the used tokens.   *)
LEMMA RowsRevoked ==
  ASSUME RowsOK,
         \/ sessions' = {} /\ usedTokens' = [u \in {} |-> FALSE] /\ revoked' = issued
         \/ /\ UNCHANGED <<sessions, revoked>>
            /\ usedTokens' = [u \in DOMAIN usedTokens |-> TRUE],
         UNCHANGED <<issued, parent>>
  PROVE  RowsOK'
<1>1. CASE sessions' = {} /\ usedTokens' = [u \in {} |-> FALSE] /\ revoked' = issued
  BY <1>1 DEF RowsOK, Row, Tokens!ExchangedOnce, Tokens!ReuseEndsTheFamily
<1>2. CASE /\ UNCHANGED <<sessions, revoked>>
           /\ usedTokens' = [u \in DOMAIN usedTokens |-> TRUE]
  BY <1>2 DEF RowsOK, Row, Tokens!ExchangedOnce, Tokens!ReuseEndsTheFamily
<1> QED BY <1>1, <1>2

(* Every query keeps the rows in order. *)
LEMMA RowsStep ==
  ASSUME Tokens!Tabs, RowsOK, Tokens!Next
  PROVE  RowsOK'
<1>1. ASSUME NEW t \in Tab, Tokens!Login(t) PROVE RowsOK'
  BY <1>1, RowsLogin DEF Tokens!Login
<1>2. ASSUME NEW t \in Tab, Tokens!Rotate(t) PROVE RowsOK'
  <2>1. PICK s \in sessions :
          /\ Tokens!Issue(s.token)
          /\ sessions' = (sessions \ {s}) \cup {[s EXCEPT !.token = issued']}
          /\ usedTokens' = [u \in DOMAIN usedTokens \cup {s.token} |->
                              IF u = s.token THEN FALSE ELSE usedTokens[u]]
    BY <1>2 DEF Tokens!Rotate
  <2> QED BY <1>2, <2>1, RowsRotate DEF Tokens!Rotate
<1>3. ASSUME NEW t \in Tab, Tokens!RevokeFamily(t) PROVE RowsOK'
  BY <1>3, RowsRevoked DEF Tokens!RevokeFamily
<1>4. ASSUME Tokens!GracePasses PROVE RowsOK'
  BY <1>4, RowsRevoked DEF Tokens!GracePasses
<1>5. ASSUME NEW t \in Tab,
             \/ Tokens!Prune(t) \/ Tokens!SendRefresh(t) \/ Tokens!LookUp(t) \/ Tokens!Refuse(t)
             \/ Tokens!RotationLost(t) \/ Tokens!CheckUsed(t) \/ Tokens!SendLogout(t)
             \/ Tokens!Logout(t) \/ Tokens!Deliver(t) \/ Tokens!Lose(t)
      PROVE  RowsOK'
  <2>1. sessions' \subseteq sessions /\ UNCHANGED <<usedTokens, issued, parent, revoked>>
    BY <1>5 DEF Tokens!Prune, Tokens!SendRefresh, Tokens!LookUp, Tokens!Refuse,
                Tokens!RotationLost, Tokens!CheckUsed, Tokens!SendLogout, Tokens!Logout,
                Tokens!Deliver, Tokens!Lose
  <2> QED BY <2>1, RowsGo
<1>6. ASSUME NEW gone \in SUBSET sessions, Tokens!EndSessions(gone) PROVE RowsOK'
  BY <1>6, RowsGo DEF Tokens!EndSessions
<1> QED BY <1>1, <1>2, <1>3, <1>4, <1>5, <1>6 DEF Tokens!Next

(***************************************************************************)
(* The calls.                                                              *)
(***************************************************************************)

(* A step of a call that gets no new token: it may forget what it knew, or *)
(* take the cookie of its browser.                                         *)
Keeps(t) ==
    /\ \E c \in Tokens!Call :
          /\ tabCall' = [tabCall EXCEPT ![t] = c]
          /\ c.token \in {0, tabCall[t].token, jar[BrowserOf[t]]}
          /\ c.new \in {0, tabCall[t].new}
    /\ DOMAIN usedTokens' \subseteq DOMAIN usedTokens
    /\ UNCHANGED <<jar, issued>>

(* A step that gets one, with what it exchanged it for. *)
Gets(t) ==
    /\ issued' = issued + 1 /\ issued < MaxTokens
    /\ \E c \in Tokens!Call :
          tabCall' = [tabCall EXCEPT ![t] = c] /\ c.token = 0 /\ c.new = issued'
    /\ DOMAIN usedTokens' \subseteq DOMAIN usedTokens \cup ({tabCall[t].token} \cap 1..issued)
    /\ UNCHANGED jar

(* A call is a record of its type. *)
LEMMA CallTyped ==
  ASSUME Tokens!Tabs, CallsKnow, issued \in 0..MaxTokens, NEW t \in Tab
  PROVE  /\ tabCall[t] \in Tokens!Call /\ tabCall \in [Tab -> Tokens!Call]
         /\ tabCall[t].phase \in Tokens!Phases
         /\ tabCall[t].token \in 0..issued /\ tabCall[t].new \in 0..issued
         /\ tabCall[t].late \in BOOLEAN /\ tabCall[t].clear \in BOOLEAN
         /\ BrowserOf[t] \in Browser /\ jar[BrowserOf[t]] \in 0..issued
         /\ issued \in Nat /\ MaxTokens \in Nat
         /\ 0..issued \subseteq 0..MaxTokens
BY DEF CallsKnow, Tokens!Call, Tokens!Tabs

(* The answers of a call are calls. *)
LEMMA AnswerTyped ==
  ASSUME NEW n \in 0..MaxTokens, NEW k \in 0..MaxTokens, NEW ph \in Tokens!Phases,
         NEW l \in BOOLEAN, NEW cl \in BOOLEAN
  PROVE  [phase |-> ph, token |-> k, late |-> l, new |-> n, clear |-> cl] \in Tokens!Call
BY DEF Tokens!Call

(* Every step of a tab but the delivery of its answer is one of the two.   *)
LEMMA TabStep ==
  ASSUME Tokens!Tabs, RowsOK, CallsKnow, NEW t \in Tab,
         \/ Tokens!Login(t) \/ Tokens!Prune(t) \/ Tokens!SendRefresh(t) \/ Tokens!LookUp(t)
         \/ Tokens!Refuse(t) \/ Tokens!Rotate(t) \/ Tokens!RotationLost(t)
         \/ Tokens!CheckUsed(t) \/ Tokens!RevokeFamily(t) \/ Tokens!SendLogout(t)
         \/ Tokens!Logout(t) \/ Tokens!Lose(t)
  PROVE  Keeps(t) \/ Gets(t)
<1> DEFINE o == tabCall[t]
<1>0. /\ o \in Tokens!Call /\ o.token \in 0..MaxTokens /\ o.new \in 0..MaxTokens
      /\ jar[BrowserOf[t]] \in 0..MaxTokens /\ 0 \in 0..MaxTokens
      /\ issued \in Nat /\ MaxTokens \in Nat
  BY CallTyped DEF RowsOK
<1>i. Tokens!Idle = [phase |-> "idle", token |-> 0, late |-> FALSE, new |-> 0, clear |-> FALSE]
  BY DEF Tokens!Idle
<1>1. ASSUME NEW c \in Tokens!Call, c.token = 0, c.new = issued', Tokens!Set(t, c),
             issued' = issued + 1, issued < MaxTokens, UNCHANGED jar,
             DOMAIN usedTokens' \subseteq DOMAIN usedTokens \cup ({tabCall[t].token} \cap 1..issued)
      PROVE  Gets(t)
  BY <1>1 DEF Gets, Tokens!Set
<1>2. ASSUME Tokens!Login(t) PROVE Gets(t)
  <2>1. issued' = issued + 1 /\ issued < MaxTokens /\ UNCHANGED <<jar, usedTokens>>
    BY <1>2 DEF Tokens!Login, Tokens!Issue
  <2>2. PICK n \in 0..MaxTokens : n = issued'
    BY <1>0, <2>1
  <2> DEFINE c == [Tokens!Idle EXCEPT !.phase = "pruning", !.new = n]
  <2>3. c \in Tokens!Call /\ c.token = 0 /\ c.new = n
    BY <1>0, <1>i DEF Tokens!Call, Tokens!Phases
  <2>4. Tokens!Set(t, c)
    BY <1>2, <2>2 DEF Tokens!Login, Tokens!Set
  <2> QED BY <1>1, <2>1, <2>2, <2>3, <2>4
<1>11. ASSUME Tokens!Rotate(t) PROVE Gets(t)
  <2>0. PICK s \in sessions :
          /\ s.token = o.token /\ Tokens!Issue(s.token)
          /\ usedTokens' = [u \in DOMAIN usedTokens \cup {s.token} |->
                              IF u = s.token THEN FALSE ELSE usedTokens[u]]
          /\ Tokens!Answered(t, issued', FALSE)
    BY <1>11 DEF Tokens!Rotate
  <2>1. issued' = issued + 1 /\ issued < MaxTokens /\ UNCHANGED jar
    BY <1>11, <2>0 DEF Tokens!Issue, Tokens!Rotate
  <2>2. PICK n \in 0..MaxTokens : n = issued'
    BY <1>0, <2>1
  <2> DEFINE c == [Tokens!Idle EXCEPT !.phase = "answered", !.new = n, !.clear = FALSE]
  <2>c. c \in Tokens!Call /\ c.token = 0 /\ c.new = n
    BY <1>0, <1>i DEF Tokens!Call, Tokens!Phases
  <2>3. Tokens!Set(t, c)
    BY <2>0, <2>2 DEF Tokens!Answered
  <2>4. DOMAIN usedTokens' = DOMAIN usedTokens \cup {o.token} /\ o.token \in 1..issued
    BY <2>0 DEF RowsOK, Row
  <2> QED BY <1>1, <2>1, <2>2, <2>3, <2>4, <2>c
<1>3. ASSUME NEW n \in {0, o.new}, NEW cl \in BOOLEAN, Tokens!Answered(t, n, cl),
             DOMAIN usedTokens' \subseteq DOMAIN usedTokens, UNCHANGED <<jar, issued>>
      PROVE  Keeps(t)
  <2> DEFINE c == [Tokens!Idle EXCEPT !.phase = "answered", !.new = n, !.clear = cl]
  <2>1. c \in Tokens!Call /\ c.token = 0 /\ c.new = n
    BY <1>0, <1>i DEF Tokens!Call, Tokens!Phases
  <2>2. tabCall' = [tabCall EXCEPT ![t] = c]
    BY <1>3 DEF Tokens!Answered, Tokens!Set
  <2> QED BY <1>3, <2>1, <2>2 DEF Keeps
<1>4. ASSUME Tokens!Prune(t) \/ Tokens!Refuse(t) \/ Tokens!RevokeFamily(t) \/ Tokens!Logout(t)
      PROVE  Keeps(t)
  <2>1. DOMAIN usedTokens' \subseteq DOMAIN usedTokens /\ UNCHANGED <<jar, issued>>
    BY <1>4 DEF Tokens!Prune, Tokens!Refuse, Tokens!RevokeFamily, Tokens!Logout
  <2>2. \E n \in {0, o.new}, cl \in BOOLEAN : Tokens!Answered(t, n, cl)
    BY <1>4 DEF Tokens!Prune, Tokens!Refuse, Tokens!RevokeFamily, Tokens!Logout
  <2> QED BY <1>3, <2>1, <2>2
<1>5. ASSUME Tokens!SendRefresh(t) \/ Tokens!SendLogout(t) PROVE Keeps(t)
  <2>1. PICK cl \in BOOLEAN : tabCall' = [tabCall EXCEPT ![t] =
          [phase |-> "sent", token |-> jar[BrowserOf[t]], late |-> FALSE, new |-> 0, clear |-> cl]]
    BY <1>5, <1>i DEF Tokens!SendRefresh, Tokens!SendLogout, Tokens!Set
  <2> DEFINE c == [phase |-> "sent", token |-> jar[BrowserOf[t]], late |-> FALSE, new |-> 0, clear |-> cl]
  <2>2. c \in Tokens!Call /\ c.token = jar[BrowserOf[t]] /\ c.new = 0
    BY <1>0 DEF Tokens!Call, Tokens!Phases
  <2>3. UNCHANGED <<jar, issued, usedTokens>>
    BY <1>5 DEF Tokens!SendRefresh, Tokens!SendLogout
  <2> QED BY <2>1, <2>2, <2>3 DEF Keeps
<1>6. ASSUME NEW ph \in Tokens!Phases, NEW l \in BOOLEAN,
             tabCall' = [tabCall EXCEPT ![t] = [o EXCEPT !.late = l, !.phase = ph]],
             UNCHANGED <<jar, issued, usedTokens>>
      PROVE  Keeps(t)
  <2> DEFINE c == [o EXCEPT !.late = l, !.phase = ph]
  <2>1. c \in Tokens!Call /\ c.token = o.token /\ c.new = o.new
    BY <1>0 DEF Tokens!Call
  <2> QED BY <1>6, <2>1 DEF Keeps
<1>7. ASSUME Tokens!LookUp(t) PROVE Keeps(t)
  <2> DEFINE l == Tokens!OldReuse(o.token)
             ph == IF Tokens!Current(o.token) THEN "rotating" ELSE "checking"
  <2>1. /\ tabCall' = [tabCall EXCEPT ![t] = [o EXCEPT !.late = l, !.phase = ph]]
        /\ UNCHANGED <<jar, issued, usedTokens>>
    BY <1>7 DEF Tokens!LookUp, Tokens!Set
  <2>2. ph \in Tokens!Phases /\ l \in BOOLEAN
    BY DEF Tokens!Phases, Tokens!OldReuse, RowsOK
  <2> HIDE DEF l, ph
  <2> QED BY <1>6, <2>1, <2>2
<1>8. ASSUME Tokens!RotationLost(t) PROVE Keeps(t)
  <2>1. tabCall' = [tabCall EXCEPT ![t] = [o EXCEPT !.late = o.late, !.phase = "checking"]]
    BY <1>0, <1>8 DEF Tokens!RotationLost, Tokens!Set, Tokens!Call
  <2>2. o.late \in BOOLEAN /\ "checking" \in Tokens!Phases
    BY <1>0 DEF Tokens!Call, Tokens!Phases
  <2> QED BY <1>6, <1>8, <2>1, <2>2 DEF Tokens!RotationLost
<1>9. ASSUME Tokens!CheckUsed(t) PROVE Keeps(t)
  <2>1. CASE o.token \in DOMAIN usedTokens /\ o.late
    <3>1. tabCall' = [tabCall EXCEPT ![t] = [o EXCEPT !.late = o.late, !.phase = "revoking"]]
      BY <1>0, <1>9, <2>1 DEF Tokens!CheckUsed, Tokens!Set, Tokens!Call
    <3>2. o.late \in BOOLEAN /\ "revoking" \in Tokens!Phases
      BY <1>0 DEF Tokens!Call, Tokens!Phases
    <3> QED BY <1>6, <1>9, <3>1, <3>2 DEF Tokens!CheckUsed
  <2>2. CASE ~(o.token \in DOMAIN usedTokens /\ o.late)
    BY <1>3, <1>9, <2>2 DEF Tokens!CheckUsed
  <2> QED BY <2>1, <2>2
<1>10. ASSUME Tokens!Lose(t) PROVE Keeps(t)
  <2>1. Tokens!Idle \in Tokens!Call /\ Tokens!Idle.token = 0 /\ Tokens!Idle.new = 0
    BY <1>0, <1>i DEF Tokens!Call, Tokens!Phases
  <2> QED BY <1>10, <2>1 DEF Tokens!Lose, Tokens!Set, Keeps
<1> QED BY <1>2, <1>4, <1>5, <1>7, <1>8, <1>9, <1>10, <1>11

(* What is known stays private, and what was not delivered stays unknown.  *)
LEMMA KeepsKnows ==
  ASSUME Tokens!Tabs, RowsOK, CallsKnow, Undelivered, NEW t \in Tab, Keeps(t)
  PROVE  CallsKnow' /\ Undelivered'
<1>0. /\ tabCall \in [Tab -> Tokens!Call] /\ jar \in [Browser -> 0..issued]
      /\ BrowserOf[t] \in Browser /\ BrowserOf \in [Tab -> Browser] /\ issued \in Nat
      /\ \A u \in Tab : tabCall[u].token \in 0..issued /\ tabCall[u].new \in 0..issued
      /\ \A b \in Browser : jar[b] \in 0..issued
  BY CallTyped DEF RowsOK, CallsKnow, Tokens!Tabs
<1>1. PICK c \in Tokens!Call :
        /\ tabCall' = [tabCall EXCEPT ![t] = c]
        /\ c.token \in {0, tabCall[t].token, jar[BrowserOf[t]]}
        /\ c.new \in {0, tabCall[t].new}
  BY DEF Keeps
<1>2. DOMAIN usedTokens' \subseteq DOMAIN usedTokens /\ UNCHANGED <<jar, issued>>
  BY DEF Keeps
<1>3. /\ tabCall' \in [Tab -> Tokens!Call] /\ tabCall'[t] = c
      /\ \A u \in Tab : u # t => tabCall'[u] = tabCall[u]
  BY <1>0, <1>1
<1>4. CallsKnow'
  <2>1. \A u \in Tab : tabCall'[u].token <= issued /\ tabCall'[u].new <= issued
    BY <1>0, <1>1, <1>3
  <2>2. \A u \in Tab, b \in Browser : tabCall'[u].token = jar[b] /\ jar[b] # 0 => BrowserOf[u] = b
    BY <1>0, <1>1, <1>3 DEF CallsKnow
  <2> QED BY <1>2, <1>3, <2>1, <2>2 DEF CallsKnow
<1>5. Undelivered'
  <2>1. ASSUME NEW u \in Tab, tabCall'[u].new # 0
        PROVE  tabCall[u].new = tabCall'[u].new
    BY <1>1, <1>3, <2>1
  <2>2. ASSUME NEW u \in Tab, tabCall'[u].new # 0, NEW v \in Tab
        PROVE  /\ tabCall'[v].token # tabCall'[u].new
               /\ tabCall'[v].new = tabCall'[u].new => v = u
    <3>1. tabCall[v].token # tabCall[u].new /\ (tabCall[v].new = tabCall[u].new => v = u)
      BY <2>1, <2>2 DEF Undelivered
    <3>2. jar[BrowserOf[v]] # tabCall[u].new
      BY <1>0, <2>1, <2>2 DEF Undelivered
    <3> QED BY <1>1, <1>3, <2>1, <2>2, <3>1, <3>2
  <2> QED BY <1>2, <2>1, <2>2 DEF Undelivered
<1> QED BY <1>4, <1>5

(* A new token is known to the call that gets it. *)
LEMMA GetsKnows ==
  ASSUME Tokens!Tabs, RowsOK, CallsKnow, Undelivered, NEW t \in Tab, Gets(t)
  PROVE  CallsKnow' /\ Undelivered'
<1>0. /\ tabCall \in [Tab -> Tokens!Call] /\ jar \in [Browser -> 0..issued] /\ issued \in Nat
      /\ \A u \in Tab : tabCall[u].token \in 0..issued /\ tabCall[u].new \in 0..issued
      /\ \A b \in Browser : jar[b] \in 0..issued
      /\ DOMAIN usedTokens \subseteq 1..issued
  BY CallTyped DEF RowsOK, CallsKnow
<1>1. PICK c \in Tokens!Call :
        tabCall' = [tabCall EXCEPT ![t] = c] /\ c.token = 0 /\ c.new = issued'
  BY DEF Gets
<1>2. /\ DOMAIN usedTokens' \subseteq DOMAIN usedTokens \cup ({tabCall[t].token} \cap 1..issued)
      /\ issued' = issued + 1 /\ UNCHANGED jar
  BY DEF Gets
<1>3. /\ tabCall' \in [Tab -> Tokens!Call] /\ tabCall'[t] = c
      /\ \A u \in Tab : u # t => tabCall'[u] = tabCall[u]
  BY <1>0, <1>1
<1>4. CallsKnow'
  <2>1. \A u \in Tab : tabCall'[u].token <= issued' /\ tabCall'[u].new <= issued'
    BY <1>0, <1>1, <1>2, <1>3
  <2>2. \A u \in Tab, b \in Browser : tabCall'[u].token = jar[b] /\ jar[b] # 0 => BrowserOf[u] = b
    BY <1>0, <1>1, <1>3 DEF CallsKnow
  <2>3. jar \in [Browser -> 0..issued']
    BY <1>0, <1>2
  <2> QED BY <1>2, <1>3, <2>1, <2>2, <2>3 DEF CallsKnow
<1>5. Undelivered'
  <2>1. ASSUME NEW u \in Tab, tabCall'[u].new # 0
        PROVE  /\ tabCall'[u].new \notin DOMAIN usedTokens'
               /\ \A v \in Tab : tabCall'[v].token # tabCall'[u].new
               /\ \A v \in Tab : tabCall'[v].new = tabCall'[u].new => v = u
               /\ \A b \in Browser : jar'[b] # tabCall'[u].new
    <3>1. CASE u = t
      BY <1>0, <1>1, <1>2, <1>3, <3>1
    <3>2. CASE u # t
      <4>1. /\ tabCall'[u] = tabCall[u] /\ tabCall[u].new \notin DOMAIN usedTokens
            /\ \A v \in Tab : tabCall[v].token # tabCall[u].new
            /\ \A v \in Tab : tabCall[v].new = tabCall[u].new => v = u
            /\ \A b \in Browser : jar[b] # tabCall[u].new
        BY <1>3, <2>1, <3>2 DEF Undelivered
      <4> QED BY <1>0, <1>1, <1>2, <1>3, <2>1, <3>2, <4>1
    <3> QED BY <3>1, <3>2
  <2> QED BY <2>1 DEF Undelivered
<1> QED BY <1>4, <1>5

(* The delivery gives a browser a token that nobody else knows. *)
LEMMA DeliverKnows ==
  ASSUME Tokens!Tabs, RowsOK, CallsKnow, Undelivered, NEW t \in Tab, Tokens!Deliver(t)
  PROVE  CallsKnow' /\ Undelivered'
<1>0. /\ tabCall \in [Tab -> Tokens!Call] /\ jar \in [Browser -> 0..issued] /\ issued \in Nat
      /\ BrowserOf[t] \in Browser
      /\ \A u \in Tab : tabCall[u].token \in 0..issued /\ tabCall[u].new \in 0..issued
      /\ \A b \in Browser : jar[b] \in 0..issued
  BY CallTyped DEF RowsOK, CallsKnow
<1>1. /\ Tokens!Idle \in Tokens!Call /\ Tokens!Idle.token = 0 /\ Tokens!Idle.new = 0
      /\ tabCall' = [tabCall EXCEPT ![t] = Tokens!Idle]
      /\ UNCHANGED <<usedTokens, issued>>
  BY DEF Tokens!Deliver, Tokens!Set, Tokens!Idle, Tokens!Call, Tokens!Phases, Tokens!Tabs
<1>2. PICK x \in {0, jar[BrowserOf[t]], tabCall[t].new} : jar' = [jar EXCEPT ![BrowserOf[t]] = x]
  BY DEF Tokens!Deliver
<1>3. /\ tabCall' \in [Tab -> Tokens!Call] /\ tabCall'[t] = Tokens!Idle
      /\ \A u \in Tab : u # t => tabCall'[u] = tabCall[u]
  BY <1>0, <1>1
<1>4. /\ jar' \in [Browser -> 0..issued] /\ jar'[BrowserOf[t]] = x
      /\ \A b \in Browser : b # BrowserOf[t] => jar'[b] = jar[b]
  BY <1>0, <1>2
<1>5. CallsKnow'
  <2>1. \A u \in Tab : tabCall'[u].token <= issued /\ tabCall'[u].new <= issued
    BY <1>0, <1>1, <1>3
  <2>2. ASSUME NEW b \in Browser, NEW d \in Browser, jar'[b] = jar'[d], jar'[b] # 0 PROVE b = d
    BY <1>0, <1>2, <1>4, <2>2 DEF CallsKnow, Undelivered
  <2>3. ASSUME NEW u \in Tab, NEW b \in Browser, tabCall'[u].token = jar'[b], jar'[b] # 0
        PROVE  BrowserOf[u] = b
    <3>1. u # t /\ tabCall[u].token = jar'[b]
      BY <1>1, <1>3, <2>3
    <3>2. jar'[b] = jar[b]
      BY <1>0, <1>2, <1>4, <2>3, <3>1 DEF Undelivered
    <3> QED BY <2>3, <3>1, <3>2 DEF CallsKnow
  <2> QED BY <1>1, <1>3, <1>4, <2>1, <2>2, <2>3 DEF CallsKnow
<1>6. Undelivered'
  <2>1. ASSUME NEW u \in Tab, tabCall'[u].new # 0
        PROVE  /\ tabCall'[u].new \notin DOMAIN usedTokens'
               /\ \A v \in Tab : tabCall'[v].token # tabCall'[u].new
               /\ \A v \in Tab : tabCall'[v].new = tabCall'[u].new => v = u
               /\ \A b \in Browser : jar'[b] # tabCall'[u].new
    <3>1. u # t /\ tabCall'[u] = tabCall[u]
      BY <1>1, <1>3, <2>1
    <3>2. /\ tabCall[u].new \notin DOMAIN usedTokens
          /\ \A v \in Tab : tabCall[v].token # tabCall[u].new
          /\ \A v \in Tab : tabCall[v].new = tabCall[u].new => v = u
          /\ \A b \in Browser : jar[b] # tabCall[u].new
      BY <2>1, <3>1 DEF Undelivered
    <3>3. \A b \in Browser : jar'[b] # tabCall[u].new
      BY <1>0, <1>2, <1>4, <2>1, <3>1, <3>2
    <3> QED BY <1>1, <1>3, <2>1, <3>1, <3>2, <3>3
  <2> QED BY <2>1 DEF Undelivered
<1> QED BY <1>5, <1>6

(* So it is with every step. *)
LEMMA KnowledgeStep ==
  ASSUME Tokens!Tabs, RowsOK, CallsKnow, Undelivered, Tokens!Next
  PROVE  CallsKnow' /\ Undelivered'
<1>1. ASSUME NEW t \in Tab, Keeps(t) \/ Gets(t) \/ Tokens!Deliver(t) PROVE CallsKnow' /\ Undelivered'
  BY <1>1, KeepsKnows, GetsKnows, DeliverKnows
<1>2. ASSUME UNCHANGED <<jar, tabCall, issued>>, DOMAIN usedTokens' = DOMAIN usedTokens
      PROVE  CallsKnow' /\ Undelivered'
  BY <1>2 DEF CallsKnow, Undelivered
<1>3. ASSUME Tokens!GracePasses \/ \E gone \in SUBSET sessions : Tokens!EndSessions(gone)
      PROVE  CallsKnow' /\ Undelivered'
  <2>1. UNCHANGED <<jar, tabCall, issued>> /\ DOMAIN usedTokens' = DOMAIN usedTokens
    BY <1>3 DEF Tokens!GracePasses, Tokens!EndSessions
  <2> QED BY <1>2, <2>1
<1> QED BY <1>1, <1>3, TabStep DEF Tokens!Next

(***************************************************************************)
(* Honest tabs.                                                            *)
(***************************************************************************)

(* The state that the calls are typed in. *)
Typed ==
    /\ tabCall \in [Tab -> Tokens!Call] /\ jar \in [Browser -> Nat]
    /\ BrowserOf \in [Tab -> Browser]
    /\ 0 \notin DOMAIN usedTokens
    /\ disturbed \in BOOLEAN

LEMMA InvTyped == Tokens!Tabs /\ TokensInv => Typed
BY DEF Typed, TokensInv, RowsOK, CallsKnow, Tokens!Tabs

(* A step of a tab that gives no cookie and uses up no token is honest     *)
(* when its call is, and the answer it may have had is kept.               *)
LEMMA HonestCall ==
  ASSUME Typed, TabsAreHonest, NEW t \in Tab, NEW c \in Tokens!Call,
         tabCall' = [tabCall EXCEPT ![t] = c], UNCHANGED jar,
         DOMAIN usedTokens' \subseteq DOMAIN usedTokens,
         \A x \in DOMAIN usedTokens' : usedTokens'[x] = usedTokens[x],
         disturbed \/ disturbed' \in BOOLEAN, disturbed => disturbed',
         ~disturbed' =>
             /\ c.phase = "sent" => ~Old(c.token)
             /\ c.phase \in {"rotating", "checking"} => ~c.late
             /\ c.phase # "revoking"
             /\ tabCall[t].phase # "answered" \/ tabCall[t].new = 0
  PROVE  TabsAreHonest'
<1> SUFFICES ASSUME ~disturbed'
             PROVE  /\ \A b \in Browser : ~Old(jar[b])'
                    /\ \A b \in Browser : jar'[b] \in DOMAIN usedTokens' => \E u \in Tab : Succeeds(b, u)'
                    /\ \A u \in Tab :
                          /\ tabCall'[u].phase = "sent" => ~Old(tabCall[u].token)'
                          /\ tabCall'[u].phase \in {"rotating", "checking"} => ~tabCall'[u].late
                          /\ tabCall'[u].phase # "revoking"
  BY DEF TabsAreHonest
<1>1. ~disturbed
  OBVIOUS
<1>2. tabCall'[t] = c /\ \A u \in Tab : u # t => tabCall'[u] = tabCall[u]
  BY DEF Typed
<1>3. \A x : Old(x)' => Old(x)
  BY DEF Old
<1>4. \A b \in Browser : ~Old(jar[b])'
  BY <1>1 DEF Old, TabsAreHonest
<1>5. ASSUME NEW b \in Browser, jar'[b] \in DOMAIN usedTokens' PROVE \E u \in Tab : Succeeds(b, u)'
  <2>1. PICK u \in Tab : Succeeds(b, u)
    BY <1>1, <1>5 DEF TabsAreHonest
  <2>2. u # t
    BY <2>1 DEF Succeeds
  <2> QED BY <1>2, <2>1, <2>2 DEF Succeeds
<1>6. ASSUME NEW u \in Tab
      PROVE  /\ tabCall'[u].phase = "sent" => ~Old(tabCall[u].token)'
             /\ tabCall'[u].phase \in {"rotating", "checking"} => ~tabCall'[u].late
             /\ tabCall'[u].phase # "revoking"
  <2>1. CASE u = t
    BY <1>2, <2>1 DEF Old
  <2>2. CASE u # t
    BY <1>1, <1>2, <2>2 DEF Old, TabsAreHonest
  <2> QED BY <2>1, <2>2
<1> QED BY <1>4, <1>5, <1>6

(* The rotation answers with the successor of the token it uses up; a      *)
(* browser whose cookie this is has the answer on the way.                 *)
LEMMA HonestRotate ==
  ASSUME Tokens!Tabs, TokensInv, NEW t \in Tab, Tokens!Rotate(t)
  PROVE  TabsAreHonest'
<1> DEFINE o == tabCall[t]
<1>0. Typed /\ RowsOK /\ CallsKnow /\ TabsAreHonest
  BY InvTyped DEF TokensInv
<1>1. PICK s \in sessions :
        /\ s.token = o.token /\ Tokens!Issue(s.token)
        /\ usedTokens' = [u \in DOMAIN usedTokens \cup {s.token} |->
                            IF u = s.token THEN FALSE ELSE usedTokens[u]]
        /\ Tokens!Answered(t, issued', FALSE)
  BY DEF Tokens!Rotate
<1>2. o.phase = "rotating" /\ UNCHANGED <<jar, disturbed>>
  BY DEF Tokens!Rotate
<1>3. issued' # 0 /\ o.token # 0
  BY <1>0, <1>1 DEF Tokens!Issue, RowsOK, Row
<1>4. PICK n : n = issued'
  OBVIOUS
<1> DEFINE c == [Tokens!Idle EXCEPT !.phase = "answered", !.new = n, !.clear = FALSE]
<1>5. c.phase = "answered" /\ c.new = n
  BY DEF Tokens!Idle
<1>6. tabCall'[t] = c /\ \A u \in Tab : u # t => tabCall'[u] = tabCall[u]
  BY <1>0, <1>1, <1>4 DEF Tokens!Answered, Tokens!Set, Typed
<1> HIDE DEF c
<1>7. \A x : Old(x)' => Old(x)
  BY <1>1 DEF Old
<1>8. DOMAIN usedTokens' = DOMAIN usedTokens \cup {o.token}
  BY <1>1
<1> SUFFICES ASSUME ~disturbed
             PROVE  /\ \A b \in Browser : ~Old(jar[b])'
                    /\ \A b \in Browser : jar'[b] \in DOMAIN usedTokens' => \E u \in Tab : Succeeds(b, u)'
                    /\ \A u \in Tab :
                          /\ tabCall'[u].phase = "sent" => ~Old(tabCall[u].token)'
                          /\ tabCall'[u].phase \in {"rotating", "checking"} => ~tabCall'[u].late
                          /\ tabCall'[u].phase # "revoking"
  BY <1>2 DEF TabsAreHonest
<1>9. \A b \in Browser : ~Old(jar[b])'
  <2>1. \A b \in Browser : ~Old(jar[b])
    BY <1>0 DEF TabsAreHonest
  <2> QED BY <1>1, <1>2, <2>1 DEF Old
<1>10. ASSUME NEW b \in Browser, jar'[b] \in DOMAIN usedTokens' PROVE \E u \in Tab : Succeeds(b, u)'
  <2>1. CASE jar[b] = o.token
    <3>1. BrowserOf[t] = b
      BY <1>0, <1>3, <2>1 DEF CallsKnow
    <3> QED BY <1>3, <1>4, <1>5, <1>6, <3>1 DEF Succeeds
  <2>2. CASE jar[b] \in DOMAIN usedTokens
    <3>1. PICK u \in Tab : Succeeds(b, u)
      BY <1>0, <2>2 DEF TabsAreHonest
    <3>2. u # t
      BY <1>2, <3>1 DEF Succeeds
    <3> QED BY <1>6, <3>1, <3>2 DEF Succeeds
  <2> QED BY <1>2, <1>8, <1>10, <2>1, <2>2
<1>11. ASSUME NEW u \in Tab
       PROVE  /\ tabCall'[u].phase = "sent" => ~Old(tabCall[u].token)'
              /\ tabCall'[u].phase \in {"rotating", "checking"} => ~tabCall'[u].late
              /\ tabCall'[u].phase # "revoking"
  <2>1. CASE u = t
    BY <1>5, <1>6, <2>1
  <2>2. CASE u # t
    <3>1. tabCall'[u] = tabCall[u] /\ (Old(tabCall[u].token)' => Old(tabCall[u].token))
      BY <1>1, <1>6, <2>2 DEF Old
    <3> QED BY <1>0, <3>1 DEF TabsAreHonest
  <2> QED BY <2>1, <2>2
<1> QED BY <1>9, <1>10, <1>11

(* A delivery replaces the cookie by one that is not used, or by none.     *)
LEMMA HonestDeliver ==
  ASSUME Tokens!Tabs, TokensInv, NEW t \in Tab, Tokens!Deliver(t)
  PROVE  TabsAreHonest'
<1> DEFINE o == tabCall[t]
<1>0. Typed /\ Undelivered /\ TabsAreHonest
  BY InvTyped DEF TokensInv
<1>1. /\ o.phase = "answered" /\ UNCHANGED <<usedTokens, disturbed>>
      /\ tabCall' = [tabCall EXCEPT ![t] = Tokens!Idle]
      /\ jar' = [jar EXCEPT ![BrowserOf[t]] = IF o.clear THEN 0 ELSE IF o.new # 0 THEN o.new ELSE @]
  BY DEF Tokens!Deliver, Tokens!Set
<1>2. /\ tabCall'[t].phase = "idle"
      /\ \A u \in Tab : u # t => tabCall'[u] = tabCall[u]
  BY <1>0, <1>1 DEF Typed, Tokens!Idle
<1>3. /\ \A b \in Browser : b # BrowserOf[t] => jar'[b] = jar[b]
      /\ jar'[BrowserOf[t]] \in {0, o.new} \/ (o.new = 0 /\ jar'[BrowserOf[t]] = jar[BrowserOf[t]])
  BY <1>0, <1>1 DEF Typed
<1>4. 0 \notin DOMAIN usedTokens /\ o.new \notin DOMAIN usedTokens
  BY <1>0 DEF Typed, Undelivered
<1> SUFFICES ASSUME ~disturbed
             PROVE  /\ \A b \in Browser : ~Old(jar[b])'
                    /\ \A b \in Browser : jar'[b] \in DOMAIN usedTokens' => \E u \in Tab : Succeeds(b, u)'
                    /\ \A u \in Tab :
                          /\ tabCall'[u].phase = "sent" => ~Old(tabCall[u].token)'
                          /\ tabCall'[u].phase \in {"rotating", "checking"} => ~tabCall'[u].late
                          /\ tabCall'[u].phase # "revoking"
  BY <1>1 DEF TabsAreHonest
<1>5. ASSUME NEW b \in Browser, jar'[b] \in DOMAIN usedTokens'
      PROVE  /\ jar'[b] = jar[b]
             /\ b = BrowserOf[t] => o.new = 0
  BY <1>1, <1>3, <1>4, <1>5
<1>6. \A b \in Browser : ~Old(jar[b])'
  <2>1. \A b \in Browser : ~Old(jar[b])
    BY <1>0 DEF TabsAreHonest
  <2> QED BY <1>1, <1>5, <2>1 DEF Old
<1>7. ASSUME NEW b \in Browser, jar'[b] \in DOMAIN usedTokens' PROVE \E u \in Tab : Succeeds(b, u)'
  <2>1. PICK u \in Tab : Succeeds(b, u)
    BY <1>0, <1>1, <1>5, <1>7 DEF TabsAreHonest
  <2>2. u # t
    BY <1>5, <1>7, <2>1 DEF Succeeds
  <2> QED BY <1>2, <2>1, <2>2 DEF Succeeds
<1>8. ASSUME NEW u \in Tab
      PROVE  /\ tabCall'[u].phase = "sent" => ~Old(tabCall[u].token)'
             /\ tabCall'[u].phase \in {"rotating", "checking"} => ~tabCall'[u].late
             /\ tabCall'[u].phase # "revoking"
  <2>1. CASE u = t
    BY <1>2, <2>1
  <2>2. CASE u # t
    <3>1. tabCall'[u] = tabCall[u] /\ (Old(tabCall[u].token)' => Old(tabCall[u].token))
      BY <1>1, <1>2, <2>2 DEF Old
    <3> QED BY <1>0, <3>1 DEF TabsAreHonest
  <2> QED BY <2>1, <2>2
<1> QED BY <1>6, <1>7, <1>8

(* The grace passes undisturbed only when nobody presents a token and no   *)
(* answer is on its way; then no browser has a used cookie.                *)
LEMMA HonestGrace ==
  ASSUME Tokens!Tabs, TokensInv, Tokens!GracePasses
  PROVE  TabsAreHonest'
<1>1. /\ usedTokens' = [u \in DOMAIN usedTokens |-> TRUE] /\ UNCHANGED <<jar, tabCall>>
      /\ disturbed' = (disturbed \/ \E t \in Tab : tabCall[t].phase \in {"sent", "answered"})
  BY DEF Tokens!GracePasses
<1>2. ASSUME ~disturbed'
      PROVE  /\ ~disturbed
             /\ \A t \in Tab : tabCall[t].phase # "sent" /\ tabCall[t].phase # "answered"
             /\ \A b \in Browser : jar[b] \notin DOMAIN usedTokens
  BY <1>1, <1>2 DEF TokensInv, TabsAreHonest, Succeeds
<1> QED BY <1>1, <1>2 DEF TokensInv, TabsAreHonest, Old

(* So it is with every step. *)
LEMMA HonestyStep ==
  ASSUME Tokens!Tabs, TokensInv, Tokens!Next
  PROVE  TabsAreHonest' /\ disturbed' \in BOOLEAN
<1>0. Typed /\ TabsAreHonest /\ disturbed \in BOOLEAN
  BY InvTyped DEF TokensInv
<1>1. ASSUME NEW t \in Tab, Tokens!Rotate(t) \/ Tokens!Deliver(t)
      PROVE  TabsAreHonest' /\ disturbed' \in BOOLEAN
  <2>1. UNCHANGED disturbed
    BY <1>1 DEF Tokens!Rotate, Tokens!Deliver
  <2> QED BY <1>0, <1>1, <2>1, HonestRotate, HonestDeliver
<1>2. ASSUME Tokens!GracePasses PROVE TabsAreHonest' /\ disturbed' \in BOOLEAN
  <2>1. disturbed' \in BOOLEAN
    BY <1>0, <1>2, Zenon DEF Tokens!GracePasses
  <2> QED BY <1>2, <2>1, HonestGrace
<1>3. ASSUME \E gone \in SUBSET sessions : Tokens!EndSessions(gone)
      PROVE  TabsAreHonest' /\ disturbed' \in BOOLEAN
  BY <1>0, <1>3 DEF Tokens!EndSessions, TabsAreHonest, Old, Succeeds
<1>4. ASSUME NEW t \in Tab, NEW c \in Tokens!Call, Tokens!Set(t, c), UNCHANGED <<jar, disturbed>>,
             UNCHANGED usedTokens \/ usedTokens' = [u \in {} |-> FALSE],
             ~disturbed => /\ c.phase = "sent" => ~Old(c.token)
                           /\ c.phase \in {"rotating", "checking"} => ~c.late
                           /\ c.phase # "revoking"
                           /\ tabCall[t].phase # "answered" \/ tabCall[t].new = 0
      PROVE  TabsAreHonest' /\ disturbed' \in BOOLEAN
  <2>1. /\ DOMAIN usedTokens' \subseteq DOMAIN usedTokens
        /\ \A x \in DOMAIN usedTokens' : usedTokens'[x] = usedTokens[x]
    BY <1>4
  <2>2. tabCall' = [tabCall EXCEPT ![t] = c]
    BY <1>4 DEF Tokens!Set
  <2> QED BY <1>0, <1>4, <2>1, <2>2, HonestCall
<1> USE DEF Tokens!Set, Tokens!Answered
<1>i. Tokens!Idle = [phase |-> "idle", token |-> 0, late |-> FALSE, new |-> 0, clear |-> FALSE]
  BY DEF Tokens!Idle
<1>c. ASSUME NEW t \in Tab
      PROVE  /\ tabCall[t] \in Tokens!Call /\ jar[BrowserOf[t]] \in 0..MaxTokens
             /\ 0 \in 0..MaxTokens /\ tabCall[t].new \in 0..MaxTokens
             /\ issued \in 0..MaxTokens
  <2>1. RowsOK /\ CallsKnow /\ issued \in 0..MaxTokens
    BY DEF TokensInv, RowsOK
  <2>2. tabCall[t] \in Tokens!Call /\ jar[BrowserOf[t]] \in 0..MaxTokens /\ 0 \in 0..MaxTokens
        /\ tabCall[t].new \in 0..MaxTokens
    BY <2>1, CallTyped DEF Tokens!Tabs
  <2> QED BY <2>1, <2>2
<1>5. ASSUME NEW t \in Tab, NEW n \in 0..MaxTokens, NEW cl \in BOOLEAN, Tokens!Answered(t, n, cl),
             UNCHANGED <<jar, disturbed>>,
             UNCHANGED usedTokens \/ usedTokens' = [u \in {} |-> FALSE],
             tabCall[t].phase # "answered"
      PROVE  TabsAreHonest' /\ disturbed' \in BOOLEAN
  <2> DEFINE c == [Tokens!Idle EXCEPT !.phase = "answered", !.new = n, !.clear = cl]
  <2>1. c \in Tokens!Call /\ c.phase = "answered"
    BY <1>c, <1>i DEF Tokens!Call, Tokens!Phases
  <2>2. Tokens!Set(t, c)
    BY <1>5
  <2> HIDE DEF c
  <2> QED BY <1>4, <1>5, <2>1, <2>2
<1>6. ASSUME NEW t \in Tab,
             Tokens!Prune(t) \/ Tokens!Refuse(t) \/ Tokens!RevokeFamily(t) \/ Tokens!Logout(t)
      PROVE  TabsAreHonest' /\ disturbed' \in BOOLEAN
  <2>1. /\ UNCHANGED <<jar, disturbed>>
        /\ UNCHANGED usedTokens \/ usedTokens' = [u \in {} |-> FALSE]
        /\ tabCall[t].phase # "answered"
    BY <1>6 DEF Tokens!Prune, Tokens!Refuse, Tokens!RevokeFamily, Tokens!Logout
  <2>2. \E n \in 0..MaxTokens, cl \in BOOLEAN : Tokens!Answered(t, n, cl)
    BY <1>6, <1>c DEF Tokens!Prune, Tokens!Refuse, Tokens!RevokeFamily, Tokens!Logout
  <2> QED BY <1>5, <2>1, <2>2
<1>7. ASSUME NEW t \in Tab, Tokens!SendRefresh(t) \/ Tokens!SendLogout(t)
      PROVE  TabsAreHonest' /\ disturbed' \in BOOLEAN
  <2>1. PICK cl \in BOOLEAN : tabCall' = [tabCall EXCEPT ![t] =
          [phase |-> "sent", token |-> jar[BrowserOf[t]], late |-> FALSE, new |-> 0, clear |-> cl]]
    BY <1>7, <1>i DEF Tokens!SendRefresh, Tokens!SendLogout
  <2> DEFINE c == [phase |-> "sent", token |-> jar[BrowserOf[t]], late |-> FALSE, new |-> 0, clear |-> cl]
  <2>2. UNCHANGED <<jar, disturbed, usedTokens>> /\ tabCall[t].phase # "answered"
    BY <1>7 DEF Tokens!SendRefresh, Tokens!SendLogout
  <2>3. c \in Tokens!Call /\ c.phase = "sent" /\ c.token = jar[BrowserOf[t]]
    BY <1>c DEF Tokens!Call, Tokens!Phases
  <2>4. ~disturbed => ~Old(c.token)
    BY <1>0, <2>3 DEF TabsAreHonest, Typed
  <2> HIDE DEF c
  <2>5. Tokens!Set(t, c)
    BY <2>1 DEF c
  <2> QED BY <1>4, <2>2, <2>3, <2>4, <2>5
<1>8. ASSUME NEW t \in Tab, Tokens!Login(t) PROVE TabsAreHonest' /\ disturbed' \in BOOLEAN
  <2>1. PICK n \in 0..MaxTokens : n = issued'
    BY <1>8, <1>c DEF Tokens!Login, Tokens!Issue, Tokens!Tabs
  <2> DEFINE c == [Tokens!Idle EXCEPT !.phase = "pruning", !.new = n]
  <2>3. c \in Tokens!Call /\ c.phase = "pruning"
    BY <1>c, <1>i DEF Tokens!Call, Tokens!Phases
  <2>4. Tokens!Set(t, c)
    BY <1>8, <2>1 DEF Tokens!Login
  <2> HIDE DEF c
  <2>5. UNCHANGED <<jar, disturbed, usedTokens>> /\ tabCall[t].phase # "answered"
    BY <1>8 DEF Tokens!Login
  <2> QED BY <1>4, <2>3, <2>4, <2>5
<1>9. ASSUME NEW t \in Tab, NEW ph \in Tokens!Phases, NEW l \in BOOLEAN,
             tabCall' = [tabCall EXCEPT ![t] = [tabCall[t] EXCEPT !.late = l, !.phase = ph]],
             UNCHANGED <<jar, disturbed, usedTokens>>, tabCall[t].phase # "answered",
             ph # "sent", ~disturbed => ~l /\ ph # "revoking"
      PROVE  TabsAreHonest' /\ disturbed' \in BOOLEAN
  <2> DEFINE c == [tabCall[t] EXCEPT !.late = l, !.phase = ph]
  <2>1. c \in Tokens!Call /\ c.phase = ph /\ c.late = l
    BY <1>c DEF Tokens!Call
  <2>2. Tokens!Set(t, c)
    BY <1>9
  <2> HIDE DEF c
  <2> QED BY <1>4, <1>9, <2>1, <2>2
<1>10. ASSUME NEW t \in Tab, Tokens!LookUp(t) PROVE TabsAreHonest' /\ disturbed' \in BOOLEAN
  <2> DEFINE l == Tokens!OldReuse(tabCall[t].token)
             ph == IF Tokens!Current(tabCall[t].token) THEN "rotating" ELSE "checking"
  <2>1. /\ tabCall' = [tabCall EXCEPT ![t] = [tabCall[t] EXCEPT !.late = l, !.phase = ph]]
        /\ UNCHANGED <<jar, disturbed, usedTokens>> /\ tabCall[t].phase = "sent"
    BY <1>10 DEF Tokens!LookUp
  <2>2. ph \in Tokens!Phases /\ l \in BOOLEAN /\ ph # "sent" /\ ph # "revoking"
    BY DEF Tokens!Phases, Tokens!OldReuse, TokensInv, RowsOK
  <2>3. ~disturbed => ~l
    BY <1>0, <2>1 DEF Tokens!OldReuse, TabsAreHonest, Old
  <2> HIDE DEF l, ph
  <2> QED BY <1>9, <2>1, <2>2, <2>3
<1>11. ASSUME NEW t \in Tab, Tokens!RotationLost(t) PROVE TabsAreHonest' /\ disturbed' \in BOOLEAN
  <2>1. /\ tabCall' = [tabCall EXCEPT ![t] = [tabCall[t] EXCEPT !.late = tabCall[t].late, !.phase = "checking"]]
        /\ tabCall[t].late \in BOOLEAN /\ "checking" \in Tokens!Phases
    <3>1. tabCall[t] \in Tokens!Call
      BY <1>c
    <3> QED BY <3>1, <1>11 DEF Tokens!RotationLost, Tokens!Call, Tokens!Phases
  <2>2. /\ ~disturbed => ~tabCall[t].late
        /\ UNCHANGED <<jar, disturbed, usedTokens>> /\ tabCall[t].phase = "rotating"
    BY <1>0, <1>11 DEF Tokens!RotationLost, TabsAreHonest
  <2> QED BY <1>9, <2>1, <2>2
<1>12. ASSUME NEW t \in Tab, Tokens!CheckUsed(t) PROVE TabsAreHonest' /\ disturbed' \in BOOLEAN
  <2>1. /\ ~disturbed => ~tabCall[t].late
        /\ UNCHANGED <<jar, disturbed, usedTokens>> /\ tabCall[t].phase = "checking"
    BY <1>0, <1>12 DEF Tokens!CheckUsed, TabsAreHonest
  <2>2. CASE tabCall[t].token \in DOMAIN usedTokens /\ tabCall[t].late
    <3>1. /\ tabCall' = [tabCall EXCEPT ![t] = [tabCall[t] EXCEPT !.late = tabCall[t].late, !.phase = "revoking"]]
          /\ tabCall[t].late \in BOOLEAN /\ "revoking" \in Tokens!Phases
      <4>1. tabCall[t] \in Tokens!Call
        BY <1>c
      <4> QED BY <4>1, <1>12, <2>2 DEF Tokens!CheckUsed, Tokens!Call, Tokens!Phases
    <3> QED BY <1>9, <2>1, <2>2, <3>1
  <2>3. CASE ~(tabCall[t].token \in DOMAIN usedTokens /\ tabCall[t].late)
    <3>1. Tokens!Answered(t, 0, FALSE)
      BY <1>12, <2>3 DEF Tokens!CheckUsed
    <3> QED BY <1>5, <1>c, <2>1, <3>1
  <2> QED BY <2>2, <2>3
<1>13. ASSUME NEW t \in Tab, Tokens!Lose(t) PROVE TabsAreHonest' /\ disturbed' \in BOOLEAN
  <2>1. /\ Tokens!Idle \in Tokens!Call /\ Tokens!Idle.phase = "idle"
        /\ UNCHANGED <<jar, usedTokens>>
        /\ tabCall' = [tabCall EXCEPT ![t] = Tokens!Idle]
    BY <1>c, <1>i, <1>13 DEF Tokens!Lose, Tokens!Call, Tokens!Phases
  <2>2. disturbed' = (disturbed \/ tabCall[t].new # 0)
    BY <1>13 DEF Tokens!Lose
  <2>3. disturbed' \in BOOLEAN
    BY <1>0, <2>2, Zenon
  <2>4. (disturbed => disturbed') /\ (~disturbed' => tabCall[t].new = 0)
    BY <2>2
  <2> QED BY <1>0, <2>1, <2>3, <2>4, HonestCall
<1> QED
  BY <1>1, <1>2, <1>3, <1>6, <1>7, <1>8, <1>10, <1>11, <1>12, <1>13 DEF Tokens!Next

(***************************************************************************)
(* The theorems.                                                           *)
(***************************************************************************)

(* What the properties rest on holds at every step. *)
THEOREM TokensInductive == Tokens!Spec => []TokensInv
<1>1. Tokens!Tabs
  BY ComponentsAssumption
<1>2. Tokens!Init => TokensInv
  BY <1>1, TokensInitially
<1>3. TokensInv /\ [Tokens!Next]_(Tokens!vars) => TokensInv'
  <2>1. ASSUME TokensInv, Tokens!Next PROVE TokensInv'
    <3>1. RowsOK' /\ CallsKnow' /\ Undelivered'
      BY <1>1, <2>1, RowsStep, KnowledgeStep DEF TokensInv
    <3>2. TabsAreHonest' /\ disturbed' \in BOOLEAN
      BY <1>1, <2>1, HonestyStep
    <3> QED BY <3>1, <3>2, Zenon DEF TokensInv
  <2>2. ASSUME TokensInv, UNCHANGED Tokens!vars PROVE TokensInv'
    <3>1. /\ sessions' = sessions /\ usedTokens' = usedTokens /\ jar' = jar
          /\ tabCall' = tabCall /\ issued' = issued /\ parent' = parent
          /\ revoked' = revoked /\ disturbed' = disturbed
      BY <2>2 DEF Tokens!vars
    <3>2. RowsOK'
      BY <2>2, <3>1 DEF TokensInv, RowsOK, Row, Tokens!ExchangedOnce, Tokens!ReuseEndsTheFamily
    <3>3. CallsKnow' /\ Undelivered'
      BY <2>2, <3>1 DEF TokensInv, CallsKnow, Undelivered
    <3>4. TabsAreHonest'
      BY <2>2, <3>1 DEF TokensInv, TabsAreHonest, Old, Succeeds
    <3>5. disturbed' \in BOOLEAN
      BY <2>2, <3>1 DEF TokensInv
    <3> QED BY <3>2, <3>3, <3>4, <3>5, Zenon DEF TokensInv
  <2> QED BY <2>1, <2>2
<1> QED BY <1>2, <1>3, PTL DEF Tokens!Spec

(* However many tabs and thieves present a token at once, one exchanges    *)
(* it, once.                                                               *)
THEOREM OneExchange == CSpec => []ExchangedOnce
<1>1. TokensInv => ExchangedOnce
  BY DEF TokensInv, RowsOK, ExchangedOnce
<1> QED BY <1>1, SideBySide, TokensInductive, PTL

(* The family that a reuse revoked is gone, whatever rotations were under  *)
(* way.                                                                    *)
THEOREM RevokedForGood == CSpec => []ReuseEndsTheFamily
<1>1. TokensInv => ReuseEndsTheFamily
  BY DEF TokensInv, RowsOK, ReuseEndsTheFamily
<1> QED BY <1>1, SideBySide, TokensInductive, PTL

(* Tabs that refresh at once do not end the sessions of their user, unless *)
(* an answer was lost or a call outlived the grace.                        *)
THEOREM HonestTabsStay == CSpec => []HonestTabsAreNotThieves
<1>1. TokensInv => HonestTabsAreNotThieves
  BY DEF TokensInv, TabsAreHonest, HonestTabsAreNotThieves, Tokens!HonestTabsAreNotThieves
<1> QED BY <1>1, SideBySide, TokensInductive, PTL

(* What each query does to the tokens that are good: it issues one to a    *)
(* login, exchanges the token of a row for a new one, or ends some.        *)
Good == {s.token : s \in sessions}

LEMMA FamilyEnds ==
  ASSUME sessions' \subseteq sessions, parent' = parent
  PROVE  Tokens!Family!Next
<1>1. Good \ Good' \in SUBSET Good /\ Good' = Good \ (Good \ Good')
  BY DEF Good
<1>2. \E ended \in SUBSET Good : Tokens!Family!End(ended)
  BY <1>1 DEF Good, Tokens!Family!End
<1> QED BY <1>2 DEF Good, Tokens!Family!Next

LEMMA FamilyIssues ==
  ASSUME Tokens!Tabs, RowsOK, NEW old \in 0..issued, Tokens!Issue(old)
  PROVE  issued' \in Tokens!Token /\ Tokens!Family!Issue(issued', old)
<1>1. /\ DOMAIN parent = 1..issued /\ issued \in Nat /\ issued' = issued + 1
      /\ issued' \in 1..MaxTokens /\ 1..issued' = 1..issued \cup {issued'}
      /\ parent' = [t \in 1..issued' |-> IF t = issued' THEN old ELSE parent[t]]
  BY NewToken DEF RowsOK, Tokens!Issue
<1>2. issued' \notin 1..issued
  BY <1>1
<1> QED BY <1>1, <1>2 DEF Tokens!Family!Issue, Tokens!Token

LEMMA FamilyStep ==
  ASSUME Tokens!Tabs, RowsOK, Tokens!Next
  PROVE  Tokens!Family!Next \/ UNCHANGED <<Good, parent>>
<1>1. ASSUME NEW t \in Tab, Tokens!Login(t) PROVE Tokens!Family!Next
  <2>1. 0 \in 0..issued
    BY DEF RowsOK
  <2>2. issued' \in Tokens!Token /\ Tokens!Family!Issue(issued', 0)
    BY <1>1, <2>1, FamilyIssues DEF Tokens!Login
  <2> DEFINE new == [id |-> issued', token |-> issued']
  <2>3. sessions' = sessions \cup {new} /\ new.token = issued'
    BY <1>1 DEF Tokens!Login
  <2> HIDE DEF new
  <2>4. Good' = Good \cup {issued'}
    BY <2>3 DEF Good
  <2>5. \E n \in Tokens!Token : Tokens!Family!Login(n)
    BY <2>2, <2>4 DEF Good, Tokens!Family!Login
  <2> QED BY <2>5 DEF Tokens!Family!Next
<1>2. ASSUME NEW t \in Tab, Tokens!Rotate(t) PROVE Tokens!Family!Next
  <2>1. PICK s \in sessions :
          /\ Tokens!Issue(s.token)
          /\ sessions' = (sessions \ {s}) \cup {[s EXCEPT !.token = issued']}
    BY <1>2 DEF Tokens!Rotate
  <2>2. s.token \in 0..issued /\ s \in Row /\ s.token \in Good
    BY DEF RowsOK, Row, Good
  <2>3. issued' \in Tokens!Token /\ Tokens!Family!Issue(issued', s.token)
    BY <2>1, <2>2, FamilyIssues
  <2>4. [s EXCEPT !.token = issued'].token = issued'
    BY <2>2 DEF Row
  <2>5. \A r \in sessions : r # s => r.token # s.token
    BY DEF RowsOK
  <2>6. Good' = (Good \ {s.token}) \cup {issued'}
    BY <2>1, <2>4, <2>5 DEF Good
  <2>7. \E n \in Tokens!Token, old \in Good : Tokens!Family!Exchange(old, n)
    BY <2>2, <2>3, <2>6 DEF Good, Tokens!Family!Exchange
  <2> QED BY <2>7 DEF Good, Tokens!Family!Next
<1>3. ASSUME NEW t \in Tab,
             \/ Tokens!Prune(t) \/ Tokens!SendRefresh(t) \/ Tokens!LookUp(t) \/ Tokens!Refuse(t)
             \/ Tokens!RotationLost(t) \/ Tokens!CheckUsed(t) \/ Tokens!RevokeFamily(t)
             \/ Tokens!SendLogout(t) \/ Tokens!Logout(t) \/ Tokens!Deliver(t) \/ Tokens!Lose(t)
      PROVE  Tokens!Family!Next
  <2>1. sessions' \subseteq sessions /\ parent' = parent
    BY <1>3 DEF Tokens!Prune, Tokens!SendRefresh, Tokens!LookUp, Tokens!Refuse,
                Tokens!RotationLost, Tokens!CheckUsed, Tokens!RevokeFamily, Tokens!SendLogout,
                Tokens!Logout, Tokens!Deliver, Tokens!Lose
  <2> QED BY <2>1, FamilyEnds
<1>4. ASSUME \/ \E gone \in SUBSET sessions : Tokens!EndSessions(gone)
             \/ Tokens!GracePasses
      PROVE  Tokens!Family!Next
  <2>1. sessions' \subseteq sessions /\ parent' = parent
    BY <1>4 DEF Tokens!EndSessions, Tokens!GracePasses
  <2> QED BY <2>1, FamilyEnds
<1> QED BY <1>1, <1>2, <1>3, <1>4 DEF Tokens!Next

(* The tables of sessions implement TokenFamily: a token begins by a login *)
(* or in exchange for one that is good, and ends for ever (the compare-    *)
(* and-swap of the rotation, the numbers of tokens).                       *)
THEOREM TokensImplementFamily == CSpec => TokensAreExchanged
<1>1. Tokens!Tabs
  BY ComponentsAssumption
<1>2. Tokens!Init => Tokens!Family!Init
  BY DEF Tokens!Init, Tokens!Family!Init
<1>3. TokensInv /\ [Tokens!Next]_(Tokens!vars) => [Tokens!Family!Next]_<<Good, parent>>
  <2>1. ASSUME TokensInv, Tokens!Next PROVE Tokens!Family!Next \/ UNCHANGED <<Good, parent>>
    BY <1>1, <2>1, FamilyStep DEF TokensInv
  <2>2. ASSUME UNCHANGED Tokens!vars PROVE UNCHANGED <<Good, parent>>
    BY <2>2 DEF Tokens!vars, Good
  <2> QED BY <2>1, <2>2
<1>4. Tokens!Spec => TokensAreExchanged
  BY <1>2, <1>3, TokensInductive, PTL
  DEF Tokens!Spec, TokensAreExchanged, Tokens!TokensAreExchanged, Tokens!Family!Spec, Good
<1> QED BY <1>4, SideBySide, PTL

(* The states of the five components are well typed. *)
THEOREM ComponentsTyped == CSpec => []TypesOK
<1>1. TokensInv => Tokens!TypeOK
  <2> SUFFICES ASSUME TokensInv PROVE Tokens!TypeOK
    OBVIOUS
  <2>1. RowsOK /\ CallsKnow /\ issued \in 0..MaxTokens /\ MaxTokens \in Nat
    BY ComponentsAssumption DEF TokensInv, RowsOK, Tokens!Tabs
  <2>2. 1..issued \subseteq Tokens!Token /\ 0..issued \subseteq 0..MaxTokens
    BY <2>1 DEF Tokens!Token
  <2>3. /\ sessions \subseteq [id : Tokens!Token, token : Tokens!Token]
        /\ \A r, s \in sessions : r.id = s.id \/ r.token = s.token => r = s
    BY <2>1, <2>2 DEF RowsOK, Row
  <2>4. DOMAIN usedTokens \subseteq Tokens!Token
    BY <2>1, <2>2 DEF RowsOK
  <2>5. \A u \in DOMAIN usedTokens : usedTokens[u] \in BOOLEAN
    BY <2>1 DEF RowsOK
  <2>6. \A u \in DOMAIN usedTokens : ~Tokens!Current(u)
    BY <2>1 DEF RowsOK, Tokens!Current
  <2>7. jar \in [Browser -> 0..MaxTokens] /\ tabCall \in [Tab -> Tokens!Call]
    BY <2>1, <2>2 DEF CallsKnow
  <2>8. revoked \in 0..issued /\ DOMAIN parent = 1..issued /\ \A t \in 1..issued : parent[t] < t
    BY <2>1 DEF RowsOK
  <2>9. disturbed \in BOOLEAN
    BY DEF TokensInv
  <2> QED BY <2>1, <2>3, <2>4, <2>5, <2>6, <2>7, <2>8, <2>9, Zenon DEF Tokens!TypeOK
<1>2. AiInv => Ai!TypeOK
  BY DEF AiInv
<1>3. HealthInv => Health!TypeOK
  BY DEF HealthInv
<1>4. PathInv => Publication!TypeOK
  BY DEF PathInv
<1>5. TypeOK /\ TokensInv /\ AiInv /\ HealthInv /\ PathInv => TypesOK
  BY <1>1, <1>2, <1>3, <1>4, Zenon DEF TypesOK
<1> QED
  BY <1>5, SideBySide, TypeCorrect, TokensInductive, AiInductive, HealthInductive, PathInductive, PTL

=============================================================================
