--------------------------- MODULE PreviewSessions ---------------------------
(***************************************************************************)
(* The recording previews of one NVR: sessions opened by POST /preview/    *)
(* start, the GET /stream requests that take each other over, the FFmpeg   *)
(* processes they spawn (PreviewProcessRegistry) and the playback leases   *)
(* that must cover those processes (PlaybackAdmission).                    *)
(* Source: apps/api/src/routes/recordings.ts,                              *)
(*         apps/api/src/routes/recordings-preview-state.ts,                *)
(*         apps/api/src/services/recordings/preview-process-registry.ts    *)
(*                                                                         *)
(* Node runs a callback to its end, and then the promise continuations it  *)
(* settled, before the next event: such a burst is one action.  What waits *)
(* (a takeover, a release that awaits an exit, a retry timer) is state.    *)
(*                                                                         *)
(* Data abstracted: a process may exit at any time, so a signal only sets  *)
(* `killed'; the chain of RTSP variants is the number of attempts left;    *)
(* errors, URLs, audio policy, codecs and ages are choices.  After finish  *)
(* a handler does nothing but close: a late onClientGone only signals      *)
(* children that are already stopped, and its retry timer finds the        *)
(* request gone, or the startup budget spent, and calls finish again.      *)
(* streamAttached only adds to the sessions that a sweep may terminate.    *)
(***************************************************************************)
EXTENDS Integers, Sequences, FiniteSets

CONSTANTS
  Session, NoSession, ViewOf, SafeDefault, Limits,   \* as in PlaybackAdmission
  MaxGets,    \* bound: GET /stream requests per session
  Attempts,   \* attempts of one request: its variant chain and the audio fallback
  MayOverrun  \* may a process outlive SIGKILL for longer than the waits last?

ASSUME AdmissionAssumption ==
  /\ IsFiniteSet(Session) /\ NoSession \notin Session
  /\ SafeDefault \in Nat \ {0} /\ Limits \subseteq Nat /\ 0 \in Limits
ASSUME BoundsAssumption == MaxGets \in Nat \ {0} /\ Attempts \in Nat \ {0}
ASSUME OverrunAssumption == MayOverrun \in BOOLEAN

VARIABLES
  configuredLimit, globalDefaultLimit, reducedLimit, cooldown, lease, queue,
  session,     \* previewSessions: "none", "open", or "closed" (deleted, closing set)
  generation,  \* session.streamGeneration: the newest GET, which owns the stream
  vod,         \* session.vodProcess: the GET whose process it is, 0 when undefined
  handler,     \* session -> GET -> what its handler's closure knows
  proc,        \* session -> GET -> the handler's current FFmpeg in the registry
  awaited,     \* releases that wait: session -> sets of processes they wait for
  stuck,       \* stuckTerminations has an entry for the session
  overdue      \* history: some wait of the session ran out

Admission == INSTANCE PlaybackAdmission

limitVars == <<configuredLimit, globalDefaultLimit>>
admissionVars == <<configuredLimit, globalDefaultLimit, reducedLimit, cooldown, lease, queue>>
vars == <<admissionVars, session, generation, vod, handler, proc, awaited, stuck, overdue>>

----------------------------------------------------------------------------

Get == 1 .. MaxGets

\* connected: the client's socket is open; firstByte: firstByteSent; retry: the
\* timer of the next variant is set; left: variants and audio restarts to go.
\* A handler is over when it has answered: refused, or past its finish.
Handler ==
  [phase : {"none", "takeover", "hijacked", "over"}, connected : BOOLEAN,
   firstByte : BOOLEAN, retry : BOOLEAN, left : 0 .. Attempts]

NewHandler(phase) ==
  [phase |-> phase, connected |-> phase = "takeover", firstByte |-> FALSE,
   retry |-> FALSE, left |-> 0]

\* waiting: waiting_first_byte; settled: streaming or terminal; unspawned and
\* erred: the spawn failed and 'error' is still to come, or delivered; exited:
\* 'exit' seen, stdout not drained; none: never spawned, or closed.
Process ==
  [state : {"none", "waiting", "settled", "unspawned", "erred", "exited"}, killed : BOOLEAN]

NoProcess == [state |-> "none", killed |-> FALSE]

\* The shape of the state: a request makes no more attempts than its chain has
\* variants (left), and a release only waits for exits that are to come (awaited).
TypeOK ==
  /\ Admission!TypeOK
  /\ session \in [Session -> {"none", "open", "closed"}]
  /\ generation \in [Session -> 0 .. MaxGets]
  /\ vod \in [Session -> 0 .. MaxGets]
  /\ handler \in [Session -> [Get -> Handler]]
  /\ proc \in [Session -> [Get -> Process]]
  /\ awaited \in [Session -> SUBSET ((SUBSET Get) \ {{}})]
  /\ stuck \in [Session -> BOOLEAN]
  /\ overdue \in [Session -> BOOLEAN]

\* Slip: a process counts as gone once its signal is sent (proc.killed).
AliveUnsignalled(ps) == {g \in Get : ps[g].state \notin {"none", "exited"} /\ ~ps[g].killed}

\* aliveCount: the registered processes that have not confirmed their exit.
Alive(ps) == {g \in Get : ps[g].state \notin {"none", "exited"}}

\* Those of them that the operating system runs.
Running(ps) == {g \in Get : ps[g].state \in {"waiting", "settled"}}

Leased == Admission!Leased(lease)

\* Slip: only attempts that wait for their first byte are signalled.
KillWaiting(ps, T) ==
  [g \in Get |-> IF g \in T /\ ps[g].state = "waiting" THEN [ps[g] EXCEPT !.killed = TRUE] ELSE ps[g]]

\* terminateAll, for the processes of T.
KillThose(ps, T) ==
  [g \in Get |-> IF g \in Alive(ps) \cap T THEN [ps[g] EXCEPT !.killed = TRUE] ELSE ps[g]]

KillAll(ps) == KillThose(ps, Get)

\* finalizeAttempt: nothing that the process still prints reaches the client.
Finalized(p) == IF p.state = "waiting" THEN [p EXCEPT !.state = "settled"] ELSE p

\* Slip: canContinue that forgets the generation.
OwnerIfOpen(s, g) == session[s] = "open"

\* isOwner; canContinue is Owner for a handler that is not over.
Owner(s, g) == generation[s] = g /\ session[s] = "open"

\* An attempt of h failed before its output and the chain has more to try.
Retriable(h) == h.phase = "hijacked" /\ ~h.firstByte /\ h.left > 0

----------------------------------------------------------------------------
(* Giving the lease back *)

ReleasePlaybackLease(s) ==
  IF s \in Leased \cup Admission!Waiting(queue) THEN Admission!Release(s) ELSE UNCHANGED admissionVars

MarkTerminating(s, isStuck) ==
  IF s \in Leased THEN Admission!MarkTerminating(s, isStuck) ELSE UNCHANGED admissionVars

\* Slips: the lease is given back at once, or nobody waits for the exit.
ReleaseAtOnce(s, alive) == ReleasePlaybackLease(s) /\ UNCHANGED awaited

ReleaseOnlyMarks(s, alive) ==
  /\ UNCHANGED awaited
  /\ IF alive = {} THEN ReleasePlaybackLease(s) ELSE MarkTerminating(s, FALSE)

\* releasePlaybackLeaseAfterExit, when `alive' are the processes alive.
ReleaseAfterExit(s, alive) ==
  IF alive = {}
  THEN ReleasePlaybackLease(s) /\ UNCHANGED awaited
  ELSE MarkTerminating(s, FALSE) /\ awaited' = [awaited EXCEPT ![s] = @ \cup {alive}]

\* Slip: a handler that was taken over gives the lease back all the same.
FinishOfAnyone(s, g, alive) ==
  /\ handler' = [handler EXCEPT ![s][g] = NewHandler("over")]
  /\ IF handler[s][g].phase = "over" THEN UNCHANGED <<admissionVars, awaited>>
     ELSE ReleaseAfterExit(s, alive)

\* finish of handler g: only the newest one gives the lease back.
Finish(s, g, alive) ==
  /\ handler' = [handler EXCEPT ![s][g] = NewHandler("over")]
  /\ IF handler[s][g].phase = "over" \/ generation[s] # g
     THEN UNCHANGED <<admissionVars, awaited>>
     ELSE ReleaseAfterExit(s, alive)

\* startAttempt past its budget check: spawn and register one more process.
Spawn(s, g, ps) ==
  /\ \E state \in {"waiting", "unspawned"} :
       proc' = [proc EXCEPT ![s] = [ps EXCEPT ![g] = [state |-> state, killed |-> FALSE]]]
  /\ vod' = [vod EXCEPT ![s] = g]

----------------------------------------------------------------------------
(* Requests *)

\* POST /preview/start.
Start(s) ==
  /\ session[s] = "none"
  /\ session' = [session EXCEPT ![s] = "open"]
  /\ Admission!Acquire(s)
  /\ UNCHANGED <<generation, vod, handler, proc, awaited, stuck, overdue>>

\* GET /stream from the moment nothing is alive, with the session's other
\* handlers hs: refused without a lease, ended at once by an empty plan, or
\* hijacked with its first attempt.
Proceed(s, g, ps, hs) ==
  \/ /\ s \notin Leased
     /\ handler' = [handler EXCEPT ![s] = [hs EXCEPT ![g] = NewHandler("over")]]
     /\ proc' = [proc EXCEPT ![s] = ps]
     /\ vod' = [vod EXCEPT ![s] = 0]
     /\ UNCHANGED admissionVars
  \/ /\ Admission!ReleaseLease(s)
     /\ handler' = [handler EXCEPT ![s] = [hs EXCEPT ![g] = NewHandler("over")]]
     /\ proc' = [proc EXCEPT ![s] = ps]
     /\ vod' = [vod EXCEPT ![s] = 0]
  \/ /\ Admission!MarkConsumed(s)
     /\ handler' = [handler EXCEPT ![s] =
          [hs EXCEPT ![g] = [@ EXCEPT !.phase = "hijacked", !.left = Attempts - 1]]]
     /\ Spawn(s, g, ps)

\* GET /stream up to its takeover: it becomes the owner and terminates what runs.
Stream(s) ==
  LET g == generation[s] + 1
      hs == [handler[s] EXCEPT ![g] = NewHandler("takeover")]
  IN /\ session[s] = "open" /\ g \in Get
     /\ generation' = [generation EXCEPT ![s] = g]
     /\ IF Alive(proc[s]) = {}
        THEN Proceed(s, g, proc[s], hs)
        ELSE /\ proc' = [proc EXCEPT ![s] = KillAll(@)]
             /\ handler' = [handler EXCEPT ![s] = hs]
             /\ vod' = [vod EXCEPT ![s] = 0]
             /\ UNCHANGED admissionVars
     /\ UNCHANGED <<session, awaited, stuck, overdue>>

\* What terminatePreviewSession leaves: attempts finalized and signalled.
TornDown(ps) == KillAll([g \in Get |-> Finalized(ps[g])])

\* terminatePreviewSession: DELETE, the shutdown, a GET after the session expired.
Terminate(s) ==
  /\ session[s] = "open"
  /\ session' = [session EXCEPT ![s] = "closed"]
  /\ proc' = [proc EXCEPT ![s] = TornDown(@)]
  /\ vod' = [vod EXCEPT ![s] = 0]
  /\ ReleaseAfterExit(s, Alive(proc[s]))
  /\ UNCHANGED <<generation, handler, stuck, overdue>>

\* The client closes its socket before a hijacked handler learns of it: the
\* listeners are registered after the takeover, so nothing happens.
ClientLeavesUnheard(s, g) ==
  /\ session[s] = "open"
  /\ handler[s][g].phase = "takeover" /\ handler[s][g].connected
  /\ handler' = [handler EXCEPT ![s][g].connected = FALSE]
  /\ UNCHANGED <<admissionVars, session, generation, vod, proc, awaited, stuck, overdue>>

\* onClientGone; the session's teardown removes the listeners.
ClientGone(s, g) ==
  LET ps == [proc[s] EXCEPT ![g] = Finalized(@)]
  IN /\ session[s] = "open"
     /\ handler[s][g].phase = "hijacked" /\ handler[s][g].connected
     /\ proc' = [proc EXCEPT ![s] = KillThose(ps, IF Owner(s, g) THEN Get ELSE {g})]
     /\ vod' = IF Owner(s, g) \/ vod[s] = g THEN [vod EXCEPT ![s] = 0] ELSE vod
     /\ Finish(s, g, Alive(proc[s]))
     /\ UNCHANGED <<session, generation, stuck, overdue>>

----------------------------------------------------------------------------
(* The process *)

\* What runs after processes of s confirmed their exit and left ps: the releases
\* that waited for them, then the newest takeover; older ones are replaced.
Settle(s, ps) ==
  LET done == {a \in awaited[s] : a \cap Alive(ps) = {}}
      g == generation[s]
      answered == [h \in Get |-> IF handler[s][h].phase = "takeover"
                                 THEN NewHandler("over") ELSE handler[s][h]]
      takenOver == g # 0 /\ handler[s][g].phase = "takeover" /\ session[s] = "open"
  IN /\ awaited' = [awaited EXCEPT ![s] = @ \ done]
     /\ IF Alive(ps) = {} /\ done = {} /\ takenOver
        THEN Proceed(s, g, ps, [answered EXCEPT ![g] = handler[s][g]]) /\ UNCHANGED stuck
        ELSE /\ proc' = [proc EXCEPT ![s] = ps]
             /\ handler' = IF Alive(ps) = {} THEN [handler EXCEPT ![s] = answered] ELSE handler
             /\ IF done = {} THEN UNCHANGED <<admissionVars, stuck>>
                ELSE IF Alive(ps) = {} THEN ReleasePlaybackLease(s) /\ UNCHANGED stuck
                ELSE MarkTerminating(s, TRUE) /\ stuck' = [stuck EXCEPT ![s] = TRUE]
             /\ UNCHANGED vod

\* The process's 'exit' event.
Exit(s, g) ==
  /\ g \in Running(proc[s])
  /\ Settle(s, [proc[s] EXCEPT ![g] = [state |-> "exited", killed |-> FALSE]])
  /\ UNCHANGED <<session, generation, overdue>>

\* The process's 'close' after its 'exit': drained and unregistered. Then the
\* request ends, tries again without audio, or sets the timer of its next variant.
Close(s, g) ==
  LET ps == [proc[s] EXCEPT ![g] = NoProcess]
      closed == proc' = [proc EXCEPT ![s] = ps]
      inactive == vod' = IF vod[s] = g THEN [vod EXCEPT ![s] = 0] ELSE vod
  IN /\ proc[s][g].state = "exited"
     /\ \/ Finish(s, g, Alive(ps)) /\ closed /\ inactive
        \/ /\ Retriable(handler[s][g]) /\ Owner(s, g)
           /\ handler' = [handler EXCEPT ![s][g].left = @ - 1]
           /\ Spawn(s, g, ps)
           /\ UNCHANGED <<admissionVars, awaited>>
        \/ /\ Retriable(handler[s][g]) /\ closed /\ inactive
           /\ handler' = [handler EXCEPT ![s][g].retry = TRUE]
           /\ UNCHANGED <<admissionVars, awaited>>
     /\ UNCHANGED <<session, generation, stuck, overdue>>

\* Close of an attempt that the NVR refused with a 453: the limit drops first,
\* and the lease is given back under the new one, nothing else being alive.
CloseOn453(s, g) ==
  LET ps == [proc[s] EXCEPT ![g] = NoProcess]
      reduced == Admission!ReductionAfter453(s)
      limit == IF reduced < Admission!Base THEN reduced ELSE Admission!Base
      freed == [lease EXCEPT ![s] = Admission!NoLease]
  IN /\ proc[s][g].state = "exited" /\ Alive(ps) = {}
     /\ handler[s][g].phase = "hijacked" /\ ~handler[s][g].firstByte
     /\ proc' = [proc EXCEPT ![s] = ps]
     /\ vod' = IF vod[s] = g THEN [vod EXCEPT ![s] = 0] ELSE vod
     /\ handler' = [handler EXCEPT ![s][g] = NewHandler("over")]
     /\ IF generation[s] = g /\ s \in Leased
        THEN /\ reducedLimit' = reduced /\ cooldown' = "running"
             /\ lease' = Admission!PromotedLeases(freed, queue, limit)
             /\ queue' = Admission!RestOfQueue(freed, queue, limit)
             /\ UNCHANGED limitVars
        ELSE Admission!Report453(s)
     /\ UNCHANGED <<session, generation, awaited, stuck, overdue>>

\* The first byte that is accepted: it counts the session as playing.
FirstByte(s, g) ==
  /\ proc[s][g].state = "waiting" /\ handler[s][g].phase = "hijacked"
  /\ proc' = [proc EXCEPT ![s][g].state = "settled"]
  /\ handler' = [handler EXCEPT ![s][g].firstByte = TRUE]
  /\ IF s \in Leased THEN Admission!MarkFirstByte(s) ELSE UNCHANGED admissionVars
  /\ UNCHANGED <<session, generation, vod, awaited, stuck, overdue>>

\* The first-byte watchdog, or stderr that shows the audio to be at fault.
AbandonAttempt(s, g) ==
  /\ proc[s][g].state = "waiting"
  /\ proc' = [proc EXCEPT ![s][g] = [state |-> "settled", killed |-> TRUE]]
  /\ UNCHANGED <<admissionVars, session, generation, vod, handler, awaited, stuck, overdue>>

\* The 'error' event of a process that could not be spawned.
SpawnError(s, g) ==
  /\ proc[s][g].state = "unspawned"
  /\ proc' = [proc EXCEPT ![s][g] = [state |-> "erred", killed |-> TRUE]]
  /\ Finish(s, g, Alive(proc[s]))
  /\ UNCHANGED <<session, generation, vod, stuck, overdue>>

\* Its 'close': the registry learns only now that nothing runs.
CloseUnspawned(s, g) ==
  /\ proc[s][g].state = "erred"
  /\ Settle(s, [proc[s] EXCEPT ![g] = NoProcess])
  /\ UNCHANGED <<session, generation, overdue>>

----------------------------------------------------------------------------
(* Timers *)

\* The next variant, PREVIEW_RETRY_DELAY_MS after the last one failed.
RetryTimer(s, g) ==
  /\ handler[s][g].retry
  /\ \/ /\ Owner(s, g)
        /\ handler' = [handler EXCEPT ![s][g].retry = FALSE, ![s][g].left = @ - 1]
        /\ Spawn(s, g, proc[s])
        /\ UNCHANGED <<admissionVars, awaited>>
     \/ Finish(s, g, Alive(proc[s])) /\ UNCHANGED <<proc, vod>>
  /\ UNCHANGED <<session, generation, stuck, overdue>>

\* The total startup budget; the session's teardown clears this timer.
StartupTimeout(s, g) ==
  LET ps == [proc[s] EXCEPT ![g] = Finalized(@)]
  IN /\ session[s] = "open"
     /\ handler[s][g].phase = "hijacked" /\ ~handler[s][g].firstByte
     /\ proc' = [proc EXCEPT ![s] = KillThose(ps, {g})]
     /\ Finish(s, g, Alive(proc[s]))
     /\ UNCHANGED <<session, generation, vod, stuck, overdue>>

\* Slip: no entry in stuckTerminations.
ReleaseWaitForgotten(s) ==
  /\ MayOverrun
  /\ \E a \in awaited[s] : awaited' = [awaited EXCEPT ![s] = @ \ {a}]
  /\ MarkTerminating(s, TRUE)
  /\ overdue' = [overdue EXCEPT ![s] = TRUE]
  /\ UNCHANGED <<session, generation, vod, handler, proc, stuck>>

\* PREVIEW_TERMINATION_WAIT_MS passed and something is still alive.
ReleaseWaitExpires(s) ==
  /\ MayOverrun
  /\ \E a \in awaited[s] : awaited' = [awaited EXCEPT ![s] = @ \ {a}]
  /\ MarkTerminating(s, TRUE)
  /\ stuck' = [stuck EXCEPT ![s] = TRUE]
  /\ overdue' = [overdue EXCEPT ![s] = TRUE]
  /\ UNCHANGED <<session, generation, vod, handler, proc>>

\* The deadline of resolveStreamTakeover: 503, and nothing is spawned.
TakeoverExpires(s, g) ==
  /\ MayOverrun
  /\ handler[s][g].phase = "takeover"
  /\ handler' = [handler EXCEPT ![s][g] = NewHandler("over")]
  /\ overdue' = [overdue EXCEPT ![s] = TRUE]
  /\ UNCHANGED <<admissionVars, session, generation, vod, proc, awaited, stuck>>

\* The requests of q that are not of `gone', in their order: the k-th of them is
\* the one with k of them up to it.
Without(q, gone) ==
  LET kept == {i \in DOMAIN q : q[i].session \notin gone}
      upTo(i) == Cardinality({j \in kept : j <= i})
  IN [k \in 1 .. Cardinality(kept) |-> q[CHOOSE i \in kept : upTo(i) = k]]

\* The periodic sweep: sessions past their TTL or without a consumer are
\* terminated, orphans killed, the leases of stuck terminations given back when
\* nothing is alive, old reservations dropped, and the queue promoted. The code
\* promotes after each release; promoting once, after all, grants the same.
Sweep ==
  \E expired \in SUBSET {s \in Session : session[s] = "open"} :
  \E aged \in SUBSET (Admission!Unconsumed(lease) \ expired) :
    LET idle == {s \in Session : Alive(proc[s]) = {}}
        freed == aged \cup (idle \cap (expired \cup {s \in Session : stuck[s]}))
        closing == expired \ idle
    IN /\ session' = [s \in Session |-> IF s \in expired THEN "closed" ELSE session[s]]
       /\ proc' = [s \in Session |->
            IF s \in expired THEN TornDown(proc[s])
            ELSE IF session[s] = "open" THEN KillThose(proc[s], Get \ {vod[s]}) ELSE proc[s]]
       /\ vod' = [s \in Session |-> IF s \in expired THEN 0 ELSE vod[s]]
       /\ awaited' = [s \in Session |->
            IF s \in closing THEN awaited[s] \cup {Alive(proc[s])} ELSE awaited[s]]
       /\ stuck' = [s \in Session |-> stuck[s] /\ s \notin idle]
       /\ Admission!Promote(
            [s \in Session |->
               IF s \in freed THEN Admission!NoLease
               ELSE IF s \in closing \cap Leased
               THEN [lease[s] EXCEPT !.state = "terminating"] ELSE lease[s]],
            Without(queue, expired))
       /\ UNCHANGED <<limitVars, generation, handler, overdue>>

CooldownElapses ==
  /\ Admission!CooldownElapses
  /\ UNCHANGED <<session, generation, vod, handler, proc, awaited, stuck, overdue>>

\* GET /status of a session in the queue, or with a lease and no stream.
Status ==
  /\ Admission!ReadEffectiveLimit
  /\ UNCHANGED <<session, generation, vod, handler, proc, awaited, stuck, overdue>>

----------------------------------------------------------------------------

Init ==
  /\ Admission!Init
  /\ session = [s \in Session |-> "none"]
  /\ generation = [s \in Session |-> 0]
  /\ vod = [s \in Session |-> 0]
  /\ handler = [s \in Session |-> [g \in Get |-> NewHandler("none")]]
  /\ proc = [s \in Session |-> [g \in Get |-> NoProcess]]
  /\ awaited = [s \in Session |-> {}]
  /\ stuck = [s \in Session |-> FALSE]
  /\ overdue = [s \in Session |-> FALSE]

ProcessStep(s, g) ==
  \/ Exit(s, g) \/ Close(s, g) \/ CloseOn453(s, g)
  \/ SpawnError(s, g) \/ CloseUnspawned(s, g)
  \/ FirstByte(s, g) \/ AbandonAttempt(s, g)

SessionStep(s) ==
  \/ Start(s) \/ Stream(s) \/ Terminate(s)
  \/ ReleaseWaitExpires(s)
  \/ \E g \in Get :
       \/ ProcessStep(s, g)
       \/ ClientLeavesUnheard(s, g) \/ ClientGone(s, g)
       \/ RetryTimer(s, g) \/ StartupTimeout(s, g) \/ TakeoverExpires(s, g)

Next == Sweep \/ CooldownElapses \/ Status \/ \E s \in Session : SessionStep(s)

Spec == Init /\ [][Next]_vars

\* What the operating system and Node owe to a process: one that is signalled
\* ends, and the events of one that ended or never began are delivered.
Settled(s, g) ==
  \/ Exit(s, g) /\ proc[s][g].killed
  \/ Close(s, g) \/ SpawnError(s, g) \/ CloseUnspawned(s, g)

\* The sweep runs on, too.
Fairness == WF_vars(Sweep) /\ \A s \in Session, g \in Get : WF_vars(Settled(s, g))

FairSpec == Spec /\ Fairness

----------------------------------------------------------------------------
(* Properties                                                              *)

\* However many GETs, retries, restarts and teardowns overlap, a session never
\* has two FFmpeg running ("Nunca dos FFmpeg vivos para la misma sessionId").
OneProcessPerSession == \A s \in Session : Cardinality(Running(proc[s])) <= 1

\* An FFmpeg that runs holds a lease of its NVR, from its spawn to its exit, as
\* long as no wait of its session ran out.
ProcessHoldsLease ==
  \A s \in Session : (Running(proc[s]) # {} /\ ~overdue[s]) => s \in Leased

\* The same without that condition.
EveryProcessHoldsLease == \A s \in Session : Running(proc[s]) # {} => s \in Leased

\* Whatever gives a lease back, none of the session's processes runs any
\* more: not one path promotes the queue over an FFmpeg that still plays.
LeaseOutlivesProcess ==
  [][\A s \in Leased \ Admission!Leased(lease') : Running(proc'[s]) = {}]_vars

\* Only the newest request of an open session starts a process, whichever retry
\* or restart it was that an older one had pending.
OnlyTheOwnerSpawns ==
  [][\A s \in Session, g \in Get :
       (proc[s][g].state \in {"none", "exited"} /\ proc'[s][g].state \in {"waiting", "unspawned"})
         => generation'[s] = g /\ session'[s] = "open"]_vars

\* A process that its session no longer owns, by takeover or teardown, has been
\* told to stop: there are no orphans for the sweep to find.
OrphansAreKilled ==
  \A s \in Session : \A g \in Running(proc[s]) : Owner(s, g) \/ proc[s][g].killed

\* A lease whose stream was opened always has somebody who will give it back: the
\* owner with a process or a timer, a takeover, a release that waits, the sweep.
NoLeakedLease ==
  \A s \in Leased :
    (lease[s].consumed /\ ~overdue[s]) =>
      \/ awaited[s] # {} \/ stuck[s]
      \/ /\ session[s] = "open"
         /\ \E g \in Get :
              /\ generation[s] = g
              /\ \/ handler[s][g].phase = "takeover"
                 \/ /\ handler[s][g].phase = "hijacked"
                    /\ proc[s][g].state # "none" \/ handler[s][g].retry

\* A process whose client has left is told to stop when the socket closes, not
\* only when the session is deleted or expires.
NoProcessWithoutClient ==
  \A s \in Session : \A g \in Running(proc[s]) :
    (session[s] = "open" /\ ~handler[s][g].connected) => proc[s][g].killed

\* The lease of a closed session comes back in the end, over any process that
\* lingers, and its place in the queue too.
ClosedSessionReleases ==
  \A s \in Session :
    session[s] = "closed" ~> s \notin Leased \cup Admission!Waiting(queue)

\* Every request that waits to take a stream over is answered or served: of the
\* requests there are, in the end none is left waiting.
TakeoverAnswered ==
  \A s \in Session : []<>(\A g \in Get : handler[s][g].phase # "takeover")
============================================================================
