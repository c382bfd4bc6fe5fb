------------------------- MODULE PlaybackAdmission -------------------------
(***************************************************************************)
(* NvrPlaybackAdmissionController: the leases and the waiting queue that   *)
(* keep the number of playback sessions open against ONE network recorder  *)
(* (NVR) within its limit.                                                 *)
(* Source: apps/api/src/services/recordings/nvr-playback-admission.ts      *)
(*                                                                         *)
(* The controller keeps one NvrState per recorder and no operation reads   *)
(* the state of another one, so the module has the state of one recorder.  *)
(* Every method is synchronous: one action per method, the reconcile and   *)
(* the promote it calls included.                                          *)
(*                                                                         *)
(* Data abstracted: a session's user, camera and slot are only ever        *)
(* compared for equality, together, so ViewOf gives each session one value *)
(* for the three; a clock reading is only compared with one deadline, so   *)
(* `cooldown' has the three answers, and which unconsumed reservations are *)
(* old enough to expire is a choice; pid, names and audit data are out.    *)
(***************************************************************************)
EXTENDS Integers, Sequences, FiniteSets, SequencesExt

CONSTANTS
  Session,        \* preview and diagnostic session ids (random UUIDs)
  NoSession,      \* "no predecessor" in a request: null in the code
  ViewOf,         \* session -> its (user, camera, slot)
  SafeDefault,    \* safeDefaultLimit: what applies when nothing is configured
  Limits          \* limits an operator may configure; 0 stands for null

ASSUME SessionAssumption == IsFiniteSet(Session) /\ NoSession \notin Session
ASSUME SafeDefaultAssumption == SafeDefault \in Nat \ {0}
ASSUME LimitsAssumption == Limits \subseteq Nat /\ 0 \in Limits

VARIABLES
  configuredLimit,     \* NvrState.configuredLimit, 0 when null
  globalDefaultLimit,  \* globalDefaultLimit, 0 when null
  reducedLimit,        \* NvrState.reducedLimit, 0 when null
  cooldown,            \* cooldownUntil: null, ahead of the clock, or reached
  lease,               \* NvrState.leases: session -> its lease
  queue                \* NvrState.queue

limitVars == <<configuredLimit, globalDefaultLimit>>
vars == <<configuredLimit, globalDefaultLimit, reducedLimit, cooldown, lease, queue>>

----------------------------------------------------------------------------

LeaseState == {"free", "reserved", "attached", "active", "terminating", "stuck"}

Lease == [state : LeaseState, leaseType : {"preview", "diagnostic"},
          consumed : BOOLEAN, firstByte : BOOLEAN]

\* The value of `lease' for a session that has no entry in the Map.
NoLease == [state |-> "free", leaseType |-> "preview", consumed |-> FALSE, firstByte |-> FALSE]

Reservation == [state |-> "reserved", leaseType |-> "preview", consumed |-> FALSE, firstByte |-> FALSE]

QueuedRequest == [session : Session, queueClass : {"continuity", "normal"},
                  continuityOf : Session \cup {NoSession}]

Leased(l) == {s \in Session : l[s].state # "free"}

Waiting(q) == {q[i].session : i \in DOMAIN q}

Terminating(r) == r.state \in {"terminating", "stuck"}

\* The leases that expireUnconsumedLeases may drop once they are old enough.
Unconsumed(l) ==
  {s \in Leased(l) : ~l[s].consumed /\ ~l[s].firstByte /\ ~Terminating(l[s])}

TypeOK ==
  /\ configuredLimit \in Limits
  /\ globalDefaultLimit \in Limits
  /\ reducedLimit \in Nat
  /\ cooldown \in {"none", "running", "elapsed"}
  /\ lease \in [Session -> Lease]
  /\ queue \in Seq(QueuedRequest)

----------------------------------------------------------------------------
(* The effective limit: NVR setting, then global default, then safe value, *)
(* narrowed while the reduction that a 453 left is in force.               *)

Base ==
  IF configuredLimit # 0 THEN configuredLimit
  ELSE IF globalDefaultLimit # 0 THEN globalDefaultLimit ELSE SafeDefault

\* reducedLimit after restoreCapacityIfElapsed.
Reduction == IF cooldown = "elapsed" THEN 0 ELSE reducedLimit

EffectiveLimit ==
  IF Reduction # 0 /\ Reduction < Base THEN Reduction ELSE Base

RestoreCapacityIfElapsed ==
  /\ reducedLimit' = Reduction
  /\ cooldown' = IF cooldown = "elapsed" THEN "none" ELSE cooldown

----------------------------------------------------------------------------
(* promote: as many of the first waiting requests as fit become leases.    *)

\* Slip: `<=' where promote and acquire compare with `<'.
RoomForOneMore(l, limit) ==
  LET n == Cardinality(Leased(l)) IN IF n <= limit THEN limit - n + 1 ELSE 0

Room(l, limit) ==
  LET n == Cardinality(Leased(l)) IN IF n < limit THEN limit - n ELSE 0

Fits(l, q, limit) == IF Len(q) < Room(l, limit) THEN Len(q) ELSE Room(l, limit)

PromotedLeases(l, q, limit) ==
  LET promoted == {q[i].session : i \in 1 .. Fits(l, q, limit)}
  IN [s \in Session |-> IF s \in promoted THEN Reservation ELSE l[s]]

RestOfQueue(l, q, limit) == SubSeq(q, Fits(l, q, limit) + 1, Len(q))

\* Slip: queue.pop where promote has queue.shift.
PromoteFromTheTail(l, q) ==
  /\ lease' = PromotedLeases(l, Reverse(q), EffectiveLimit)
  /\ queue' = Reverse(RestOfQueue(l, Reverse(q), EffectiveLimit))
  /\ RestoreCapacityIfElapsed

\* promote on leases l and queue q; every caller has the limit restored.
Promote(l, q) ==
  /\ lease' = PromotedLeases(l, q, EffectiveLimit)
  /\ queue' = RestOfQueue(l, q, EffectiveLimit)
  /\ RestoreCapacityIfElapsed

\* Slip: queueClassFor without its look at the claims that already wait.
QueueClassRepeated(l, q, s, p) ==
  IF /\ p \in Session \ {s}
     /\ l[p].state \notin {"free", "reserved"}
     /\ l[p].leaseType = "preview"
     /\ l[p].consumed
     /\ ViewOf[p] = ViewOf[s]
  THEN "continuity" ELSE "normal"

\* queueClassFor: only the session of the same user, camera and slot that holds
\* a consumed preview lease gives priority, and one waiting claim at a time.
QueueClass(l, q, s, p) ==
  IF /\ p \in Session \ {s}
     /\ l[p].state \notin {"free", "reserved"}
     /\ l[p].leaseType = "preview"
     /\ l[p].consumed
     /\ ViewOf[p] = ViewOf[s]
     /\ ~ \E i \in DOMAIN q : q[i].queueClass = "continuity" /\ q[i].continuityOf = p
  THEN "continuity" ELSE "normal"

Request(s, class, p) ==
  [session |-> s, queueClass |-> class,
   continuityOf |-> IF class = "continuity" THEN p ELSE NoSession]

\* Slips: every request pushed at the end, or a continuity put before the others.
IsPlaceAtEnd(q, class, at) == at = Len(q) + 1

IsPlaceAtFront(q, class, at) == at = IF class = "normal" THEN Len(q) + 1 ELSE 1

\* Where a request of this class goes: before the first normal one, or last.
IsPlace(q, class, at) ==
  IF class = "normal"
  THEN at = Len(q) + 1
  ELSE /\ at \in 1 .. Len(q) + 1
       /\ \A i \in 1 .. at - 1 : q[i].queueClass # "normal"
       /\ at <= Len(q) => q[at].queueClass = "normal"

Insert(q, s, class, p) ==
  \E at \in 1 .. Len(q) + 1 :
    /\ IsPlace(q, class, at)
    /\ queue' = InsertAt(q, at, Request(s, class, p))

----------------------------------------------------------------------------

\* Slips: acquire that forgets the waiting requests in its idempotence check, or
\* that grants before it reconciles.
AcquireForgetsWaiting(s) ==
  LET l == PromotedLeases(lease, queue, EffectiveLimit)
      q == RestOfQueue(lease, queue, EffectiveLimit)
      room == Room(l, EffectiveLimit)
  IN /\ \/ s \in Leased(l) /\ lease' = l /\ queue' = q
        \/ s \notin Leased(l) /\ room > 0 /\ lease' = [l EXCEPT ![s] = Reservation] /\ queue' = q
        \/ /\ s \notin Leased(l) /\ room = 0
           /\ lease' = l
           /\ \E p \in Session \cup {NoSession} : Insert(q, s, QueueClass(l, q, s, p), p)
     /\ RestoreCapacityIfElapsed
     /\ UNCHANGED limitVars

AcquireWithoutReconcile(s) ==
  /\ s \notin Leased(lease) \cup Waiting(queue)
  /\ \/ Room(lease, EffectiveLimit) > 0 /\ lease' = [lease EXCEPT ![s] = Reservation] /\ UNCHANGED queue
     \/ /\ Room(lease, EffectiveLimit) = 0 /\ UNCHANGED lease
        /\ \E p \in Session \cup {NoSession} : Insert(queue, s, QueueClass(lease, queue, s, p), p)
  /\ RestoreCapacityIfElapsed
  /\ UNCHANGED limitVars

\* acquire: reconcile, then idempotence, then a lease if there is room, else a
\* place in the queue. p is the continuityOfSessionId the client sent, if any.
Acquire(s) ==
  LET l == PromotedLeases(lease, queue, EffectiveLimit)
      q == RestOfQueue(lease, queue, EffectiveLimit)
      known == s \in Leased(l) \cup Waiting(q)
      room == Room(l, EffectiveLimit)
  IN /\ \/ known /\ lease' = l /\ queue' = q
        \/ ~known /\ room > 0 /\ lease' = [l EXCEPT ![s] = Reservation] /\ queue' = q
        \/ /\ ~known /\ room = 0
           /\ lease' = l
           /\ \E p \in Session \cup {NoSession} : Insert(q, s, QueueClass(l, q, s, p), p)
     /\ RestoreCapacityIfElapsed
     /\ UNCHANGED limitVars

\* The diagnostics endpoint: acquire under a fresh id, and in the same turn of
\* the event loop either markConsumed (as a diagnostic) or leave the queue.
AcquireDiagnostic(s) ==
  LET l == PromotedLeases(lease, queue, EffectiveLimit)
      q == RestOfQueue(lease, queue, EffectiveLimit)
  IN /\ s \notin Leased(lease) \cup Waiting(queue)
     /\ queue' = q
     /\ lease' = IF Room(l, EffectiveLimit) > 0
                 THEN [l EXCEPT ![s] = [state |-> "attached", leaseType |-> "diagnostic",
                                        consumed |-> TRUE, firstByte |-> FALSE]]
                 ELSE l
     /\ RestoreCapacityIfElapsed
     /\ UNCHANGED limitVars

LeaveQueue(s) ==
  /\ \E i \in DOMAIN queue : queue[i].session = s /\ queue' = RemoveAt(queue, i)
  /\ UNCHANGED <<limitVars, reducedLimit, cooldown, lease>>

\* release of a session that holds a lease: drop it and promote.
ReleaseLease(s) ==
  /\ s \in Leased(lease)
  /\ Promote([lease EXCEPT ![s] = NoLease], queue)
  /\ UNCHANGED limitVars

\* release of a session without one only takes it off the queue, like cancelQueued.
Release(s) == ReleaseLease(s) \/ (s \notin Leased(lease) /\ LeaveQueue(s))

CancelQueued(s) == LeaveQueue(s)

\* reconcile, which the periodic sweep calls for every recorder.
Reconcile == Promote(lease, queue) /\ UNCHANGED limitVars

\* expireUnconsumedLeases for the reservations whose age passed the limit. The
\* code promotes after each one it drops; promoting in queue order up to the
\* limit once, after all of them, grants the same leases.
ExpireUnconsumedLeases(aged) ==
  /\ aged # {} /\ aged \subseteq Unconsumed(lease)
  /\ Promote([s \in Session |-> IF s \in aged THEN NoLease ELSE lease[s]], queue)
  /\ UNCHANGED limitVars

\* effectiveLimitFor as the status endpoint and snapshot call it: it restores
\* the capacity and promotes nobody.
ReadEffectiveLimit ==
  RestoreCapacityIfElapsed /\ UNCHANGED <<limitVars, lease, queue>>

UpdateLease(s, r) ==
  /\ s \in Leased(lease)
  /\ lease' = [lease EXCEPT ![s] = r]
  /\ UNCHANGED <<limitVars, reducedLimit, cooldown, queue>>

MarkConsumed(s) ==
  UpdateLease(s, [lease[s] EXCEPT !.consumed = TRUE,
                                  !.state = IF @ = "reserved" THEN "attached" ELSE @])

MarkFirstByte(s) ==
  UpdateLease(s, [lease[s] EXCEPT !.consumed = TRUE, !.firstByte = TRUE,
                                  !.state = IF @ \in {"reserved", "attached"} THEN "active" ELSE @])

MarkTerminating(s, stuck) ==
  UpdateLease(s, [lease[s] EXCEPT !.state = IF stuck THEN "stuck" ELSE "terminating"])

\* Slip: report453 leaves the failed session out twice and has no floor of one.
Report453NoFloor(s) ==
  /\ reducedLimit' = Cardinality({t \in Leased(lease) : t # s /\ lease[t].firstByte}) - 1
  /\ cooldown' = "running"
  /\ UNCHANGED <<limitVars, lease, queue>>

\* The limit report453 leaves: the sessions that play, s apart, and at least 1.
ReductionAfter453(s) ==
  LET healthy == Cardinality({t \in Leased(lease) : t # s /\ lease[t].firstByte})
      target == IF healthy < 1 THEN 1 ELSE healthy
  IN IF Reduction # 0 /\ Reduction < target THEN Reduction ELSE target

Report453(s) ==
  /\ reducedLimit' = ReductionAfter453(s)
  /\ cooldown' = "running"
  /\ UNCHANGED <<limitVars, lease, queue>>

\* The clock reaches cooldownUntil.
CooldownElapses ==
  /\ cooldown = "running"
  /\ cooldown' = "elapsed"
  /\ UNCHANGED <<limitVars, reducedLimit, lease, queue>>

ConfigureNvr(limit) ==
  /\ configuredLimit' = limit
  /\ UNCHANGED <<globalDefaultLimit, reducedLimit, cooldown, lease, queue>>

SetGlobalDefaultLimit(limit) ==
  /\ globalDefaultLimit' = limit
  /\ UNCHANGED <<configuredLimit, reducedLimit, cooldown, lease, queue>>

----------------------------------------------------------------------------

Init ==
  /\ configuredLimit = 0
  /\ globalDefaultLimit = 0
  /\ reducedLimit = 0
  /\ cooldown = "none"
  /\ lease = [s \in Session |-> NoLease]
  /\ queue = <<>>

SessionStep(s) ==
  \/ Acquire(s)
  \/ AcquireDiagnostic(s)
  \/ Release(s)
  \/ CancelQueued(s)
  \/ MarkConsumed(s)
  \/ MarkFirstByte(s)
  \/ \E stuck \in BOOLEAN : MarkTerminating(s, stuck)
  \/ Report453(s)

NvrStep ==
  \/ Reconcile
  \/ \E aged \in SUBSET Unconsumed(lease) : ExpireUnconsumedLeases(aged)
  \/ ReadEffectiveLimit
  \/ CooldownElapses
  \/ \E limit \in Limits : ConfigureNvr(limit) \/ SetGlobalDefaultLimit(limit)

Next == NvrStep \/ \E s \in Session : SessionStep(s)

Spec == Init /\ [][Next]_vars

\* The sweep is a setInterval of the process, and every lease is released in the
\* end: by its stream, by the session's expiry or by the sweep of stuck ones.
Fairness ==
  /\ WF_vars(Reconcile)
  /\ \A s \in Session : WF_vars(ReleaseLease(s))

FairSpec == Spec /\ Fairness

----------------------------------------------------------------------------
(* Properties                                                              *)

\* No session waits twice, or waits while it holds a lease: acquire, promote
\* and release stay idempotent in every order they are called.
NoSessionTwice ==
  /\ \A i, j \in DOMAIN queue : queue[i].session = queue[j].session => i = j
  /\ Waiting(queue) \cap Leased(lease) = {}

\* The queue serves continuity before new openings: acquire inserts by class
\* and no later step mixes the classes.
ContinuityFirst ==
  \A i, j \in DOMAIN queue :
    (i < j /\ queue[j].queueClass = "continuity") => queue[i].queueClass = "continuity"

\* At most one waiting request claims the place of a given predecessor, however
\* often it is released, expired and leased again meanwhile (queueClassFor).
OneClaimWaiting ==
  \A i, j \in DOMAIN queue :
    (/\ queue[i].queueClass = "continuity" /\ queue[j].queueClass = "continuity"
     /\ queue[i].continuityOf = queue[j].continuityOf) => i = j

\* The three of them: what every insertion, promotion and withdrawal must keep of
\* the queue for the next one to be right.
QueueIsDisciplined == NoSessionTwice /\ ContinuityFirst /\ OneClaimWaiting

\* The reduction a 453 leaves is always on its way out: whenever the limit is
\* narrowed there is a cooldown that ends it.
ReductionIsTemporary == reducedLimit # 0 <=> cooldown # "none"

\* What a lease says of its stream is consistent with its state, whichever
\* order the stream's callbacks came in: a reservation that can expire never
\* belongs to a session that opened its stream.
LeaseAgreesWithStream ==
  \A s \in Session :
    /\ lease[s].firstByte => lease[s].consumed
    /\ lease[s].state \in {"free", "reserved"} => ~lease[s].consumed
    /\ lease[s].state \in {"attached", "active"} => lease[s].consumed
    /\ lease[s].state = "active" => lease[s].firstByte

\* Nobody is granted a lease beyond the limit in force when it is granted, from
\* acquire, release, expiry or reconcile alike ("nunca se supera el limite").
GrantsWithinLimit ==
  [][Leased(lease') \subseteq Leased(lease) \/ Cardinality(Leased(lease')) <= EffectiveLimit]_vars

\* A request that gets a lease at once finds nobody waiting: it cannot take the
\* room a release, an expiry or an elapsed cooldown left for the queue.
NobodyOvertakesTheQueue ==
  [][\A s \in Leased(lease') \ Leased(lease) :
       s \in Waiting(queue) \/ queue' = <<>>]_vars

\* Within a class the queue is first come, first served, whoever is inserted,
\* promoted or withdrawn: a request that waited is only behind requests that it
\* was behind before, and gets no lease while one of those goes on waiting.
FifoWithinClass ==
  [][/\ \A k, m \in DOMAIN queue' :
          (/\ k < m /\ queue'[k].queueClass = queue'[m].queueClass
           /\ queue'[m].session \in Waiting(queue))
          => \E i, j \in DOMAIN queue : i < j /\ queue[i] = queue'[k] /\ queue[j] = queue'[m]
     /\ \A i, j \in DOMAIN queue :
          (/\ i < j /\ queue[i].queueClass = queue[j].queueClass
           /\ queue[i].session \in Waiting(queue'))
          => queue[j].session \notin Leased(lease')]_vars

\* A continuity request is served or withdrawn in the end, whoever else asks:
\* later continuities go behind it and new openings never pass it.
ContinuityServed ==
  \A s \in Session :
    (\E i \in DOMAIN queue : queue[i].session = s /\ queue[i].queueClass = "continuity")
      ~> s \notin Waiting(queue)
============================================================================
