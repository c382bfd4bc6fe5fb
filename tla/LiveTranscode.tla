---------------------------- MODULE LiveTranscode ----------------------------
(***************************************************************************)
(* The live stream manager for ONE camera that has to be transcoded        *)
(* (services/stream-manager.ts): the sessions of the views on the          *)
(* main_h264 path, the starts that share one FFmpeg, the process and its   *)
(* supervisor, the retentions of processes nobody may want, and the        *)
(* publication of the path in MediaMTX (services/stream.ts).               *)
(*                                                                         *)
(* Requests are numbered by their ticket: the position in `requests` is    *)
(* the seq that beginRequest gave out when the request came in.  What the  *)
(* code does between two awaits is one action.                             *)
(***************************************************************************)
EXTENDS Naturals, Sequences, SequencesExt, FiniteSets, TLC

CONSTANTS
    Views,          \* the tabs that may watch the camera
    MaxRequests,    \* bound: starts and closes that come in
    MaxSpawns,      \* bound: FFmpeg processes; a later spawn fails
    MaxRestarts,    \* SUPERVISOR_MAX_RESTARTS
    MaxRetentions,  \* getMaxRetentions
    MaxRefusals     \* bound: SIGTERMs that the process does not take

ASSUME BoundsAssumption ==
    /\ {MaxRequests, MaxSpawns, MaxRestarts, MaxRefusals} \subseteq Nat
    /\ MaxRetentions \in Nat \ {0}
    /\ IsFiniteSet(Views)

VARIABLES
    requests,    \* the requests so far, by ticket
    sessions,    \* view -> its main_h264 session, for the views that have one
    closedAt,    \* view -> the highest ticket that closed it
    flight,      \* transcodeInFlight of the path
    proc,        \* the live FFmpeg of the path, 0 if there is none
    instance,    \* processInstances: the last one spawned and not cleared
    spawned,     \* processInstanceCounter
    refusals,    \* SIGTERMs refused so far
    restarts,    \* transcodeRestarts.count, 0 when there is no entry
    timers,      \* supervisors that wait for their backoff
    retentions,  \* retained processes, oldest first
    resolved,    \* resolvedRetentions: what a later close may still ask about
    published,   \* publishedPaths has the path
    source,      \* transcodeSourceInfo has the path
    registered,  \* stream.ts: registeredPaths has the path
    onServer,    \* the path is configured in MediaMTX
    removals,    \* removals nobody waits for, not begun
    deleting     \* such a removal is in its DELETE

process == <<proc, instance, spawned, refusals, restarts, timers>>
retained == <<retentions, resolved>>
publication == <<registered, onServer, removals, deleting>>
vars == <<requests, sessions, closedAt, flight, process, retained, published,
          source, publication>>

NoFlight == [state |-> "none", owner |-> 0]

(* A start that has claimed the path; "removing" to "leaving" are the      *)
(* awaits of releaseUnownedStream, and a waiter may be there as well.      *)
ReleasePhases == {"removing", "deleting", "leaving"}
StartPhases == {"publishing", "refused", "spawning", "warming"} \cup ReleasePhases
Phases == {"arrived", "waiting", "closing", "done"} \cup StartPhases

Request == [kind : {"start", "stop", "close"}, view : Views, kill : BOOLEAN,
            lease : 0..MaxRequests, phase : Phases, on : 0..MaxRequests,
            answer : {"none", "ok", "failed"}]

Session == [seq : 1..MaxRequests, attempts : SUBSET (1..MaxRequests), fresh : BOOLEAN]

Retention == [view : Views, inst : 1..MaxSpawns, attempts : SUBSET (1..MaxRequests)]

(***************************************************************************)
(* Ownership of the path.                                                  *)
(***************************************************************************)

At(phase) == {n \in DOMAIN requests : requests[n].phase = phase}

(* inFlightStarts: from the claim to the finally of startStreamCore. *)
InFlight == {n \in DOMAIN requests :
               /\ requests[n].kind = "start" /\ requests[n].on = 0
               /\ requests[n].phase \in StartPhases}

Cancelled(n, C) == n <= C[requests[n].view]

ValidStart(C, except) == \E n \in InFlight \ {except} : ~Cancelled(n, C)

(* A waiter that resumes is no waiter any more. *)
WaiterOnLive(except) == At("waiting") \ {except} # {} /\ proc # 0

SlipForgetsSessions(S, C, f, except) ==
    \/ WaiterOnLive(except) /\ f.state # "failed"
    \/ ValidStart(C, except)

(* pathHasOwner, for given sessions, close marks and flight. *)
HasOwner(S, C, f, except) ==
    \/ DOMAIN S # {}
    \/ WaiterOnLive(except) /\ f.state # "failed"
    \/ ValidStart(C, except)

(* isStartCancelled *)
StartCancelled == InFlight # {} /\ ~ValidStart(closedAt, 0)

FlightIsStale(f, except) ==
    \/ f.state = "failed"
    \/ f.state = "ready" /\ proc = 0
    \/ /\ f.state = "starting"
       /\ ~ValidStart(closedAt, except)
       /\ ~WaiterOnLive(except)

(* setTranscodeInFlightOwned: refused when another attempt owns the flight. *)
OwnedFlight(f, n, state) ==
    IF f.owner \in {0, n} THEN [state |-> state, owner |-> n] ELSE f

Init ==
    /\ requests = <<>> /\ sessions = <<>> /\ closedAt = [v \in Views |-> 0]
    /\ flight = NoFlight
    /\ proc = 0 /\ instance = 0 /\ spawned = 0 /\ refusals = 0
    /\ restarts = 0 /\ timers = 0
    /\ retentions = <<>> /\ resolved = {}
    /\ published = FALSE /\ source = FALSE
    /\ registered = FALSE /\ onServer = FALSE /\ removals = 0 /\ deleting = FALSE

(* A resolved promise resumes its waiters before the next event: nothing   *)
(* but such a resumption happens while one is pending.                     *)
Answered(n) == requests[requests[n].on].answer # "none"
Quiet == \A n \in At("waiting") : ~Answered(n)

(***************************************************************************)
(* The process: SIGTERM, retentions, what is forgotten with it.            *)
(***************************************************************************)

(* stopTranscodeProcess: whether the process takes the signal. *)
Kill(taken) == taken \/ refusals < MaxRefusals
Refusals(taken) == IF taken THEN refusals ELSE refusals + 1

Without(rs, I) == LET left == {i \in DOMAIN rs : i \notin I}
                  IN [k \in 1..Cardinality(left) |->
                        rs[CHOOSE i \in left :
                             Cardinality({j \in left : j <= i}) = k]]

(* resolveRetention: what is no longer retained stays known for a while,   *)
(* and a resolution forgets the outcomes that are too old.                 *)
Remember ==
    LET gone == {[view |-> r.view, attempts |-> r.attempts] :
                   r \in Range(retentions) \ Range(retentions')}
    IN IF gone = {} THEN UNCHANGED resolved
       ELSE \E known \in {resolved, {}} : resolved' = known \cup gone

SlipKeepsRetentions == UNCHANGED <<retentions, resolved>>

(* adoptRegisteredRetentions: those of the current process. *)
Adopted == {i \in DOMAIN retentions : instance # 0 /\ retentions[i].inst = instance}
AdoptRetentions ==
    /\ retentions' = Without(retentions, Adopted)
    /\ Remember

(* crearRetencion for a live process: at the cap the oldest is finalised.  *)
(* It makes room when it is of another process; when it is of this one, it *)
(* goes with the process, or keeps its place if the process cannot be      *)
(* ended, and then the cap is exceeded.                                    *)
AtCap(rs) == Len(rs) >= MaxRetentions
CapKills(rs, taken) == AtCap(rs) /\ Head(rs).inst = instance /\ taken
CapRefused(rs, taken) == AtCap(rs) /\ Head(rs).inst = instance /\ ~taken
Retained(v, attempts) == [view |-> v, inst |-> instance, attempts |-> attempts]
Retain(rs, v, attempts) ==
    Append(IF AtCap(rs) /\ Head(rs).inst # instance THEN Tail(rs) ELSE rs, Retained(v, attempts))

(* retainUnresolvedTerminations: one retention for each of the views, in   *)
(* any order of theirs; each makes room by dropping the oldest as long as  *)
(* that is of another process.                                             *)
Leading(rs) == Cardinality({i \in DOMAIN rs : \A j \in 1..i : rs[j].inst # instance})
Room(rs) == IF AtCap(rs) THEN 0 ELSE MaxRetentions - Len(rs)
Least(a, b) == IF a < b THEN a ELSE b
Dropped(rs, added) == IF added <= Room(rs) THEN 0 ELSE Least(Leading(rs), added - Room(rs))
RetainAll(rs, views, attempts) ==
    IF proc = 0 THEN {rs}
    ELSE LET kept == SubSeq(rs, Dropped(rs, Cardinality(views)) + 1, Len(rs)) IN
         {kept \o [k \in DOMAIN order |-> Retained(order[k], attempts)] : order \in SetToSeqs(views)}

(* clearTerminatedProcessState, with the removal it leaves in flight. *)
Cleared ==
    /\ proc' = 0 /\ instance' = 0 /\ restarts' = 0
    /\ flight' = NoFlight /\ published' = FALSE /\ source' = FALSE
    /\ removals' = removals + 1
    /\ UNCHANGED <<spawned, timers, registered, onServer, deleting>>
NotCleared == UNCHANGED <<proc, instance, restarts, published, source, spawned,
                          timers, publication>>

(* finalizeRetention for the retentions of rs at I, with the sessions left *)
(* by the step: a registered owner adopts the process, another owner keeps *)
(* the retention, and a process without owner is killed.                   *)
Finalize(rs, I, taken) ==
    LET mine  == {i \in I : rs[i].inst = instance}
        owned == HasOwner(sessions', closedAt', flight, 0)
        stay  == IF DOMAIN sessions' # {} THEN {}
                 ELSE IF owned \/ (proc # 0 /\ ~taken) THEN mine ELSE {}
        clear == mine # {} /\ DOMAIN sessions' = {} /\ ~owned /\ stay = {}
    IN /\ retentions' = Without(rs, I \ stay)
       /\ Remember
       /\ refusals' = IF ~owned /\ stay # {} THEN refusals + 1 ELSE refusals
       /\ IF clear THEN Cleared ELSE NotCleared /\ UNCHANGED flight

(* decideProcessTermination and terminateProcesses once the sessions of    *)
(* `views` are gone, and the retentions of what could not be ended         *)
(* (retainUnresolvedTerminations); `left` is the flight that stays when    *)
(* nothing is cleared.                                                     *)
Terminate(rs, views, attempts, taken, left) ==
    LET owned == HasOwner(sessions', closedAt', flight, 0) IN
    IF views = {} \/ DOMAIN sessions' # {}
      THEN retentions' = rs /\ flight' = left /\ Remember /\ UNCHANGED refusals /\ NotCleared
    ELSE IF owned \/ (proc # 0 /\ ~taken)
      THEN /\ retentions' \in RetainAll(rs, views, attempts) /\ flight' = left
           /\ refusals' = (IF owned THEN refusals ELSE refusals + 1)
           /\ Remember /\ NotCleared
    ELSE retentions' = rs /\ Remember /\ UNCHANGED refusals /\ Cleared

(***************************************************************************)
(* Releasing a path (releaseUnownedStream) and ending a start.             *)
(***************************************************************************)

SlipLeaveSilently(n, answer, usable, f) ==
    flight' = f /\ requests' = [requests EXCEPT ![n].phase = "done"]

(* The start n ends.  One that is aborted writes the flight without asking *)
(* who owns it (resolveInFlightSafe); one that failed, and a waiter, leave *)
(* the flight as f.                                                        *)
Leave(n, answer, usable, f) ==
    LET aborted == requests[n].on = 0 /\ answer = "none" IN
    /\ flight' = IF aborted
                   THEN [state |-> IF usable THEN "ready" ELSE "failed", owner |-> 0]
                   ELSE f
    /\ requests' = [requests EXCEPT
                      ![n].phase = "done",
                      ![n].answer = IF aborted THEN IF usable THEN "ok" ELSE "failed"
                                    ELSE answer]

(* The start n, answered `answer`, gives the path up with the flight at f: *)
(* it stays with another owner, or its process is stopped (or retained, if *)
(* it does not take the signal) and the publication goes.                  *)
Release(n, answer, f, taken) ==
    LET owned == HasOwner(sessions, closedAt, f, n) IN
    /\ UNCHANGED <<sessions, closedAt, spawned, timers, publication>>
    /\ \/ /\ owned
          /\ Leave(n, answer, proc # 0, IF FlightIsStale(f, n) THEN NoFlight ELSE f)
          /\ UNCHANGED <<proc, instance, refusals, restarts, retained, published, source>>
       \/ /\ ~owned /\ proc # 0 /\ ~taken
          /\ refusals' = refusals + 1
          /\ retentions' = IF n \in InFlight
                             THEN Retain(retentions, requests[n].view, {n}) ELSE retentions
          /\ Remember
          /\ Leave(n, answer, FALSE, NoFlight)
          /\ UNCHANGED <<proc, instance, restarts, published, source>>
       \/ /\ ~owned /\ (proc = 0 \/ taken)
          /\ proc' = 0 /\ instance' = IF proc = 0 THEN instance ELSE 0
          /\ restarts' = 0 /\ source' = FALSE /\ published' = FALSE
          /\ IF ~published THEN Leave(n, answer, FALSE, NoFlight)
             ELSE /\ requests' = [requests EXCEPT ![n].answer = answer, ![n].phase =
                       IF f # NoFlight \/ source \/ proc # 0 THEN "removing" ELSE "leaving"]
                  /\ flight' = NoFlight
          /\ UNCHANGED <<refusals, retained>>

LockFree == ~deleting /\ At("deleting") = {}

(* removeTranscodedPath, under the lock of the path: what was true when it *)
(* was called is asked again; then the DELETE is in flight.                *)
StillUnowned(except) == ~HasOwner(sessions, closedAt, flight, except) /\ ~published

BeginRemoval(n) ==
    /\ requests[n].phase = "removing" /\ LockFree /\ Quiet
    /\ IF StillUnowned(n)
         THEN requests' = [requests EXCEPT ![n].phase = "deleting"] /\ registered' = FALSE
         ELSE requests' = [requests EXCEPT ![n].phase = "leaving"] /\ UNCHANGED registered
    /\ UNCHANGED <<sessions, closedAt, flight, process, retained, published, source,
                   onServer, removals, deleting>>

EndRemoval(n) ==
    /\ requests[n].phase = "deleting" /\ Quiet
    /\ requests' = [requests EXCEPT ![n].phase = "leaving"]
    /\ onServer' \in {FALSE, onServer}
    /\ UNCHANGED <<sessions, closedAt, flight, process, retained, published, source,
                   registered, removals, deleting>>

(* The camera was looked up for the other paths: the start ends. *)
EndRelease(n) ==
    /\ requests[n].phase = "leaving" /\ Quiet
    /\ Leave(n, requests[n].answer, FALSE, flight)
    /\ UNCHANGED <<sessions, closedAt, process, retained, published, source, publication>>

(* The removal that clearTerminatedProcessState does not wait for. *)
BeginDetachedRemoval ==
    /\ removals > 0 /\ LockFree /\ Quiet
    /\ removals' = removals - 1
    /\ IF StillUnowned(0) THEN registered' = FALSE /\ deleting' = TRUE
                          ELSE UNCHANGED <<registered, deleting>>
    /\ UNCHANGED <<requests, sessions, closedAt, flight, process, retained, published,
                   source, onServer>>

EndDetachedRemoval ==
    /\ deleting /\ Quiet
    /\ deleting' = FALSE /\ onServer' \in {FALSE, onServer}
    /\ UNCHANGED <<requests, sessions, closedAt, flight, process, retained, published,
                   source, registered, removals>>

(***************************************************************************)
(* Starts.                                                                 *)
(***************************************************************************)

(* beginRequest: a request comes in and takes its ticket. *)
Receive(kind, v, kill, lease) ==
    /\ Len(requests) < MaxRequests /\ Quiet
    /\ requests' = Append(requests,
          [kind |-> kind, view |-> v, kill |-> kill, lease |-> lease,
           phase |-> "arrived", on |-> 0, answer |-> "none"])
    /\ UNCHANGED <<sessions, closedAt, flight, process, retained, published, source,
                   publication>>

Top(a, b) == IF a > b THEN a ELSE b

(* registerSessionMonotonic: a session that a newer request affirmed stays *)
(* and gains the attempt, any other one is replaced.                       *)
Registered(n) ==
    LET v == requests[n].view IN
    IF v \in DOMAIN sessions /\ sessions[v].seq > n
      THEN [sessions EXCEPT ![v].attempts = @ \cup {n}, ![v].fresh = TRUE]
      ELSE [w \in DOMAIN sessions \cup {v} |->
              IF w = v THEN [seq |-> n, attempts |-> {n}, fresh |-> TRUE] ELSE sessions[w]]

(* registerTranscodeSession and finalizeTranscodeSuccess of a start that   *)
(* was not cancelled, with the flight at f.                                *)
Register(n, f) ==
    /\ ~Cancelled(n, closedAt)
    /\ sessions' = Registered(n)
    /\ AdoptRetentions
    /\ flight' = OwnedFlight(f, n, "ready")
    /\ requests' = [requests EXCEPT ![n].phase = "done", ![n].answer = "ok"]
    /\ UNCHANGED <<closedAt, process, published, source, publication>>

(* A start ends at once with `answer`. *)
Answer(n, answer) ==
    /\ requests' = [requests EXCEPT ![n].phase = "done", ![n].answer = answer]
    /\ UNCHANGED <<closedAt, process, retained, published, source, publication>>

(* startStreamCore after the camera was looked up, up to the next await.   *)
Arrived(n) == requests[n].kind = "start" /\ requests[n].phase = "arrived" /\ Quiet
HasSession(n) == requests[n].view \in DOMAIN sessions
Unfailed == IF flight.state = "failed" THEN NoFlight ELSE flight

StartCancelledEarly(n) ==
    /\ Arrived(n) /\ Cancelled(n, closedAt)
    /\ Answer(n, "failed") /\ UNCHANGED <<sessions, flight>>

ReuseSession(n) ==
    /\ Arrived(n) /\ ~Cancelled(n, closedAt) /\ HasSession(n)
    /\ sessions' = [sessions EXCEPT ![requests[n].view] =
                      [seq |-> Top(@.seq, n), attempts |-> @.attempts \cup {n}, fresh |-> TRUE]]
    /\ Answer(n, "ok") /\ UNCHANGED flight

AwaitFlight(n) ==
    /\ Arrived(n) /\ ~Cancelled(n, closedAt) /\ ~HasSession(n) /\ flight.state = "starting"
    /\ requests' = [requests EXCEPT ![n].phase = "waiting", ![n].on = flight.owner]
    /\ UNCHANGED <<sessions, closedAt, flight, process, retained, published, source,
                   publication>>

AdoptProcess(n) ==
    /\ Arrived(n) /\ ~HasSession(n) /\ flight.state # "starting" /\ proc # 0
    /\ Register(n, Unfailed)

(* The camera takes a place of the transcodes, unless its path has one or  *)
(* the other cameras hold them all; the claim of the flight succeeds, for  *)
(* a flight that is left describes no live process.                        *)
Occupied == \/ DOMAIN sessions # {} \/ flight.state = "starting"
            \/ retentions # <<>> /\ proc # 0
NoPlace(n) ==
    /\ Arrived(n) /\ ~Cancelled(n, closedAt) /\ ~HasSession(n)
    /\ flight.state # "starting" /\ proc = 0 /\ ~Occupied
    /\ flight' = Unfailed
    /\ Answer(n, "failed") /\ UNCHANGED sessions

Claim(n) ==
    /\ Arrived(n) /\ ~Cancelled(n, closedAt) /\ ~HasSession(n)
    /\ flight.state # "starting" /\ proc = 0
    /\ flight' = OwnedFlight(IF FlightIsStale(flight, 0) THEN NoFlight ELSE flight, n, "starting")
    /\ requests' = [requests EXCEPT ![n].phase = "publishing"]
    /\ UNCHANGED <<sessions, closedAt, process, retained, published, source, publication>>

(* publishTranscodedStream, under the lock of the path: a path that is     *)
(* registered is not configured again; an attempt that fails may have      *)
(* deleted what was there.                                                 *)
Publish(n) ==
    /\ requests[n].phase = "publishing" /\ LockFree /\ Quiet
    /\ \/ /\ requests' = [requests EXCEPT ![n].phase = "spawning"]
          /\ published' = TRUE /\ registered' = TRUE
          /\ onServer' = (IF registered THEN onServer ELSE TRUE)
       \/ /\ ~registered
          /\ requests' = [requests EXCEPT ![n].phase = "refused"]
          /\ onServer' \in {onServer, FALSE}
          /\ UNCHANGED <<published, registered>>
    /\ UNCHANGED <<sessions, closedAt, flight, process, retained, source, removals, deleting>>

SlipSpawnUnmarked ==
    /\ spawned < MaxSpawns /\ spawned' = spawned + 1
    /\ proc' = spawned + 1 /\ UNCHANGED instance

(* spawnTranscodeProcess stops the former process of the path first. *)
Spawned ==
    /\ spawned < MaxSpawns /\ spawned' = spawned + 1
    /\ proc' = spawned + 1 /\ instance' = spawned + 1

Spawn(n) ==
    /\ requests[n].phase = "spawning" /\ Quiet
    /\ Spawned /\ source' = TRUE
    /\ requests' = [requests EXCEPT ![n].phase = "warming"]
    /\ UNCHANGED <<sessions, closedAt, flight, refusals, restarts, timers, retained,
                   published, publication>>

(* waitForHlsReady: the stream is there, and the start registers.          *)
Ready(n) == requests[n].phase = "warming" /\ Quiet /\ Register(n, flight)

(* It is there, but the view was closed: abortRegistration. *)
AbortStart(n, taken) ==
    /\ requests[n].phase = "warming" /\ Cancelled(n, closedAt) /\ Quiet
    /\ Release(n, "none", flight, taken)

(* cleanupFailedStart: nothing was published or spawned, the process is    *)
(* gone or the stream does not come.  The flight is marked and the promise *)
(* resolved before the path is released.                                   *)
FailStart(n, taken) ==
    /\ requests[n].phase \in {"refused", "spawning", "warming"} /\ Quiet
    /\ Release(n, "failed", OwnedFlight(flight, n, "failed"), taken)

(* A waiter resumes.  Where its view has a session by now it only touches  *)
(* it; its own attempt is not added to it.                                 *)
Resume(n, taken) ==
    /\ requests[n].phase = "waiting" /\ Answered(n)
    /\ LET ready == requests[requests[n].on].answer = "ok" IN
       \/ ~ready /\ Answer(n, "failed") /\ UNCHANGED <<sessions, flight>>
       \/ /\ ready /\ HasSession(n)
          /\ sessions' = [sessions EXCEPT ![requests[n].view] =
                            [seq |-> Top(@.seq, n), attempts |-> @.attempts, fresh |-> TRUE]]
          /\ Answer(n, "ok") /\ UNCHANGED flight
       \/ ready /\ ~HasSession(n) /\ Register(n, flight)
       \/ /\ ready /\ ~HasSession(n) /\ Cancelled(n, closedAt)
          /\ Release(n, "failed", flight, taken)

(***************************************************************************)
(* Closes, heartbeats and expiry.                                          *)
(***************************************************************************)

Drop(v) == [w \in DOMAIN sessions \ {v} |-> sessions[w]]
SlipMarkNothing(n) == UNCHANGED closedAt
MarkClosed(n) == closedAt' = [closedAt EXCEPT ![requests[n].view] = Top(@, n)]
Done(n) == requests' = [requests EXCEPT ![n].phase = "done"]
Arriving(n, kind) == requests[n].kind = kind /\ requests[n].phase = "arrived" /\ Quiet

(* escalarRetencion: the retentions that a stop of this view may escalate. *)
Matches(n, r) == r.view = requests[n].view /\
                 (requests[n].lease = 0 \/ requests[n].lease \in r.attempts)
Escalates(n) == /\ requests[n].kill /\ ~HasSession(n)
                /\ \/ \E i \in DOMAIN retentions : Matches(n, retentions[i])
                   \/ \E r \in resolved : Matches(n, r)

EscalateStop(n, taken) ==
    /\ Arriving(n, "stop") /\ Escalates(n)
    /\ UNCHANGED <<sessions, closedAt>>
    /\ LET mine == {i \in DOMAIN retentions : Matches(n, retentions[i])} IN
       IF mine # {} THEN \E i \in mine : Finalize(retentions, {i}, taken)
       ELSE UNCHANGED <<flight, process, retained, published, source, publication>>
    /\ Done(n)

(* A stop with nothing to close marks the target, unless it names an       *)
(* attempt.                                                                *)
StopWithoutSession(n) ==
    /\ Arriving(n, "stop") /\ ~HasSession(n) /\ ~Escalates(n)
    /\ IF requests[n].lease = 0 THEN MarkClosed(n) ELSE UNCHANGED closedAt
    /\ Done(n)
    /\ UNCHANGED <<sessions, flight, process, retained, published, source, publication>>

(* decideAttemptRelease: one attempt of several is given back, one that is *)
(* not of the session is ignored, and so is a late close of the session.   *)
Leases(n) == sessions[requests[n].view].attempts
StopKeepsSession(n) ==
    /\ Arriving(n, "stop") /\ HasSession(n)
    /\ LET l == requests[n].lease IN
       \/ l # 0 /\ l \notin Leases(n) /\ UNCHANGED sessions
       \/ /\ l \in Leases(n) /\ Leases(n) # {l}
          /\ sessions' = [sessions EXCEPT ![requests[n].view].attempts = @ \ {l}]
       \/ l = 0 /\ sessions[requests[n].view].seq > n /\ UNCHANGED sessions
    /\ Done(n)
    /\ UNCHANGED <<closedAt, flight, process, retained, published, source, publication>>

(* The stop that closes the session: the process is ended only for a       *)
(* killing reason, and kept with a retention for another one.  The flight  *)
(* of the path is forgotten, whoever owns it.                              *)
StopSession(n, taken) ==
    /\ Arriving(n, "stop") /\ HasSession(n)
    /\ \/ requests[n].lease = 0 /\ sessions[requests[n].view].seq <= n
       \/ Leases(n) = {requests[n].lease}
    /\ LET v == requests[n].view IN
       /\ sessions' = Drop(v) /\ MarkClosed(n) /\ Done(n)
       /\ IF requests[n].kill
            THEN Terminate(retentions, {v}, Leases(n), taken, NoFlight)
          ELSE IF proc = 0 \/ HasOwner(sessions', closedAt', flight, 0)
            THEN flight' = NoFlight /\ NotCleared /\ UNCHANGED <<refusals, retained>>
          ELSE IF CapKills(retentions, taken)
            THEN retentions' = Tail(retentions) /\ Remember /\ Cleared /\ UNCHANGED refusals
          ELSE /\ retentions' = Retain(retentions, v, Leases(n)) /\ Remember
               /\ flight' = NoFlight /\ NotCleared
               /\ refusals' = IF CapRefused(retentions, taken) THEN refusals + 1 ELSE refusals

(* cleanupUserSessions for a view: everything is marked and deleted at     *)
(* once, the camera is looked up when nobody is left on it, and then the   *)
(* process and the retentions of the view are dealt with.                  *)
OfView(rs, v) == {i \in DOMAIN rs : rs[i].view = v}

CloseView(n, taken) ==
    /\ Arriving(n, "close") /\ MarkClosed(n)
    /\ LET v == requests[n].view
           dropped == HasSession(n) /\ sessions[v].seq <= n
       IN /\ sessions' = IF dropped THEN Drop(v) ELSE sessions
          /\ IF dropped /\ DOMAIN sessions' = {}
               THEN /\ requests' = [requests EXCEPT ![n].phase = "closing"]
                    /\ UNCHANGED <<flight, process, retained, published, source, publication>>
               ELSE /\ Done(n)
                    /\ Finalize(retentions, OfView(retentions, v), taken)

EndClose(n, taken) ==
    /\ requests[n].phase = "closing" /\ Quiet
    /\ Done(n) /\ UNCHANGED <<sessions, closedAt>>
    /\ LET v == requests[n].view
           owned == HasOwner(sessions, closedAt, flight, 0)
           rs == IF proc = 0 THEN retentions ELSE Retain(retentions, v, {})
       IN IF DOMAIN sessions # {}
            THEN /\ retentions' = Without(retentions, OfView(retentions, v)) /\ Remember
                 /\ NotCleared /\ UNCHANGED <<flight, refusals>>
          ELSE IF owned \/ (proc # 0 /\ ~taken)
            THEN /\ retentions' = Without(rs, {i \in OfView(rs, v) : rs[i].inst # instance})
                 /\ Remember /\ refusals' = (IF owned THEN refusals ELSE refusals + 1)
                 /\ NotCleared /\ UNCHANGED flight
          ELSE /\ retentions' = Without(retentions, OfView(retentions, v)) /\ Remember
               /\ Cleared /\ UNCHANGED refusals

(* Time: the heartbeats of a view stop for longer than the TTL. *)
Lapse(v) ==
    /\ v \in DOMAIN sessions /\ sessions[v].fresh /\ Quiet
    /\ sessions' = [sessions EXCEPT ![v].fresh = FALSE]
    /\ UNCHANGED <<requests, closedAt, flight, process, retained, published, source, publication>>

(* touchSession and touchView: activity, never ownership. *)
Touch(v) ==
    /\ v \in DOMAIN sessions /\ ~sessions[v].fresh /\ Quiet
    /\ sessions' = [sessions EXCEPT ![v].fresh = TRUE]
    /\ UNCHANGED <<requests, closedAt, flight, process, retained, published, source, publication>>

(* cleanupIdleSessions: the `old` oldest retentions have passed their TTL; *)
(* the sessions without heartbeat expire, and any one whose view has none  *)
(* (decideSessionExpiry).  With nothing old it is pruneStaleSessions.      *)
Expire(old, views, taken) ==
    /\ Quiet /\ (old > 0 \/ views # {})
    /\ \A v \in DOMAIN sessions : ~sessions[v].fresh => v \in views
    /\ sessions' = [v \in DOMAIN sessions \ views |-> sessions[v]]
    /\ UNCHANGED <<requests, closedAt>>
    /\ IF views = {} THEN Finalize(retentions, 1..old, taken)
       ELSE Terminate(Without(retentions, 1..old), views, {}, taken, flight)

(***************************************************************************)
(* The supervisor (runTranscodeSupervisor).                                *)
(***************************************************************************)

Wanted == \/ \E v \in DOMAIN sessions : sessions[v].fresh
          \/ flight.state = "starting" /\ ~StartCancelled

GiveUp == sessions' = <<>> /\ flight' = [state |-> "failed", owner |-> 0]

(* The process exits.  Nobody wants it: nothing is done.  It was restarted *)
(* too often in its window: the sessions are dropped.  Otherwise it is     *)
(* restarted after a backoff; `used` is the count left in the window.      *)
ProcessExits(used) ==
    /\ proc # 0 /\ Quiet /\ used \in {restarts, 0}
    /\ proc' = 0
    /\ \/ ~Wanted /\ used = restarts /\ restarts' = 0 /\ UNCHANGED <<timers, sessions, flight>>
       \/ Wanted /\ used >= MaxRestarts /\ restarts' = used /\ GiveUp /\ UNCHANGED timers
       \/ /\ Wanted /\ used < MaxRestarts
          /\ restarts' = used + 1 /\ timers' = timers + 1
          /\ UNCHANGED <<sessions, flight>>
    /\ UNCHANGED <<requests, closedAt, instance, spawned, refusals, retained, published,
                   source, publication>>

(* The backoff is over; what was asked before it is asked again. *)
Restart ==
    /\ timers > 0 /\ Quiet /\ timers' = timers - 1
    /\ \/ /\ ~Wanted \/ proc # 0
          /\ UNCHANGED <<sessions, flight, proc, instance, spawned>>
       \/ Wanted /\ proc = 0 /\ GiveUp /\ UNCHANGED <<proc, instance, spawned>>
       \/ /\ Wanted /\ proc = 0
          /\ Spawned /\ flight' = [flight EXCEPT !.state = "ready"] /\ UNCHANGED sessions
    /\ UNCHANGED <<requests, closedAt, refusals, restarts, retained, published, source,
                   publication>>

(***************************************************************************)
(* The specification.                                                      *)
(***************************************************************************)

Tickets == DOMAIN requests

StartStep(n, taken) ==
    \/ StartCancelledEarly(n) \/ ReuseSession(n) \/ AwaitFlight(n) \/ AdoptProcess(n)
    \/ Claim(n) \/ Publish(n) \/ Spawn(n) \/ Ready(n)
    \/ AbortStart(n, taken) \/ FailStart(n, taken) \/ Resume(n, taken)
    \/ BeginRemoval(n) \/ EndRemoval(n) \/ EndRelease(n)

CloseStep(n, taken) ==
    \/ EscalateStop(n, taken) \/ StopWithoutSession(n) \/ StopKeepsSession(n)
    \/ StopSession(n, taken) \/ CloseView(n, taken) \/ EndClose(n, taken)

Receives ==
    \E v \in Views :
       \/ Receive("start", v, FALSE, 0) \/ Receive("close", v, FALSE, 0)
       \/ \E kill \in BOOLEAN, lease \in 0..Len(requests) :
             /\ lease # 0 => requests[lease].kind = "start" /\ requests[lease].view = v
             /\ Receive("stop", v, kill, lease)

Next ==
    \/ Receives
    \/ \E n \in Tickets : NoPlace(n)
    \/ \E n \in Tickets, taken \in BOOLEAN :
          Kill(taken) /\ (StartStep(n, taken) \/ CloseStep(n, taken))
    \/ \E v \in Views : Lapse(v) \/ Touch(v)
    \/ \E old \in 0..Len(retentions), views \in SUBSET DOMAIN sessions, taken \in BOOLEAN :
          Kill(taken) /\ Expire(old, views, taken)
    \/ BeginDetachedRemoval \/ EndDetachedRemoval
    \/ \E used \in 0..MaxRestarts : ProcessExits(used)
    \/ Restart

Spec == Init /\ [][Next]_vars

(***************************************************************************)
(* Properties.                                                             *)
(***************************************************************************)

(* The state is well typed, and the process that lives is the one whose    *)
(* instance is registered: a retention of it names the right one.          *)
TypeOK ==
    /\ requests \in Seq(Request) /\ Len(requests) <= MaxRequests
    /\ DOMAIN sessions \subseteq Views /\ sessions \in [DOMAIN sessions -> Session]
    /\ closedAt \in [Views -> 0..MaxRequests]
    /\ flight \in [state : {"none", "starting", "ready", "failed"}, owner : 0..MaxRequests]
    /\ {proc, instance, spawned} \subseteq 0..MaxSpawns /\ proc \in {0, instance}
    /\ refusals \in 0..MaxRefusals /\ restarts \in 0..MaxRestarts /\ timers \in Nat
    /\ retentions \in Seq(Retention)
    /\ {published, source, registered, onServer, deleting} \subseteq BOOLEAN
    /\ removals \in Nat

Handled(n) == requests[n].phase \in {"closing", "done"}
SessionOlderThan(n) == LET v == requests[n].view IN
                       v \in DOMAIN sessions /\ sessions[v].seq <= n

(* A view that was closed stays closed: once its close was handled, only a *)
(* request that came in after it has a session there, however late an      *)
(* older start, its waiters or a stop comes to its end (the close marks of *)
(* stream-manager.ts and registerSessionMonotonic).                        *)
ClosedStaysClosed ==
    \A n \in Tickets : Handled(n) /\ requests[n].kind = "close" => ~SessionOlderThan(n)

(* No step of the manager ends an FFmpeg whose path a view watches: it     *)
(* only exits by itself.  Starts that fail or are dropped, stops, expiry   *)
(* and retentions at their cap all may kill (pathHasOwner).                *)
NoKillUnderAViewer ==
    [][proc # 0 /\ proc' = 0 /\ DOMAIN sessions' # {}
         => \E used \in 0..MaxRestarts : ProcessExits(used)]_vars

(* Whoever waits for a start is answered: the start it waits for has       *)
(* answered or still runs, and a flight that says "starting", for which    *)
(* every later start would wait, belongs to a start that runs.             *)
NobodyWaitsForNothing ==
    /\ \A n \in At("waiting") : Answered(n) \/ requests[n].on \in InFlight
    /\ flight.state = "starting" => flight.owner \in InFlight

(* A process is retained only while no view watches it: a start that       *)
(* registers adopts the retentions of its process, so that none is left to *)
(* judge, when its time is over, a process that has a viewer again.        *)
RetainedIsUnwatched ==
    DOMAIN sessions # {} => \A i \in DOMAIN retentions : retentions[i].inst # instance

(* What the comment of stream-manager.ts:1304-1307 promises: an FFmpeg     *)
(* always has somebody behind it, a session, a request under way or a      *)
(* retention.  The code breaks it: a start that has failed and still       *)
(* releases its path counts as an owner for another one that gives up.     *)
NobodyOrphansFFmpeg ==
    proc # 0 => \/ DOMAIN sessions # {}
                \/ InFlight # {} \/ At("waiting") # {} \/ At("closing") # {}
                \/ \E i \in DOMAIN retentions : retentions[i].inst = proc

=============================================================================
