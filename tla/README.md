# Formal models of the Gestión de Cámaras VMS

TLA+ modules, TLC configurations and TLAPS proofs for the parts of this
repository whose correctness depends on the order of events: the admission of
playback sessions to an NVR, the FFmpeg processes of recording previews and
those that generate MP4 files of recordings, the transcodes and publications of
the live view, the sessions a browser tab has there, the identities of live media sources, the media grants with
their durable revocation, the rotation of refresh tokens, the alerts of cameras
and the AI pipeline. Paths below are relative to
`src/apps/api/src/` unless they name another application.

    tlc -workers 2 -config MCPlaybackAdmission.cfg MCPlaybackAdmission.tla
    tlapm PlaybackAdmissionProofs.tla

The proof modules are the eight `*Proofs.tla`; the prover checks each in a few
minutes.

`PROJECT.json` lists the runs, for each property a mutation of the code that
TLC must catch (the "slip" operators next to the definitions they would
replace), the source lines behind every definition, the hazards and the
disagreements found.

## 1. The system

A video management system: a Fastify API with Prisma/PostgreSQL, Redis and
MediaMTX, a React client, a Python analytics service and a Tauri client whose
player is still a mock. Cameras hang off NVRs that serve few playback sessions
at once; the API spawns one FFmpeg per preview or transcode and must never lose
one, never run two for the same purpose, and never ask an NVR for more than it
gives.

| Component | State | Operations | Talks to | What is hard | Correct when |
|---|---|---|---|---|---|
| NVR playback admission (`services/recordings/nvr-playback-admission.ts`) | per NVR: leases, queue, reduced limit and its cooldown, configured limits | acquire, release, cancel, expire, reconcile, mark*, report453, limits | called by the recording routes and their 60 s sweep | idempotence, two classes in one queue, limits that move under leases already granted | never more grants than the limit, FIFO in a class, one continuity claim per stream, reductions end |
| Recording previews (`routes/recordings.ts`, `recordings-preview-state.ts`) | `previewSessions`, `streamGeneration`, the closure of each GET, `stuckTerminations` | POST start, GET stream, DELETE, status, process and socket callbacks, timers, sweep | admission, registry, FFmpeg, the client's socket | takeover awaits, retries, callbacks after a teardown, waits that run out | one FFmpeg per session, each under a lease, only the newest GET spawns, leases come back |
| Recording MP4 generation (`routes/recordings.ts`) | `recordingSessions`, `recordingJobKeys`, the FFmpeg of each session, the cached or temporary file | POST playback, background generation with a second attempt, stall timer, DELETE, sweep, cache cleanup, shutdown | FFmpeg, ffprobe, disk | sessions that end during the probe, several writers of one cache file, stalls | a session settles; what is offered as ready is whole; a shutdown leaves no FFmpeg |
| Preview process registry (`services/recordings/preview-process-registry.ts`) | attempts: exited, killed, pending waits | register, terminate, terminateAll, markExited, unregister, reapOrphans | child processes | an attempt is alive until its exit is confirmed, not until it is signalled | as above |
| Media source lifecycle (`services/media/source-lifecycle.ts`) | `known`, keys `mi:<path>`, the counter | poller, reconcile, register, refresh, retire | MediaMTX's list, Redis | passes that overlap, two awaits per registration, expiry behind a cached `known` | an instance that is gone never returns; a gone source loses it; a live one has one |
| Media grants and revocation (`services/media/media-grants.ts`, `grant-store.ts`, `grant-service.ts`, `revoke-outbox.ts`, `grant-derivation.ts`, `routes/mediaGrants.ts`, `mediamtxAuth.ts`) | grants, claims and epochs in Redis; outbox rows in PostgreSQL | derive, issue, consume, validate, logout and permission changes, drains | PostgreSQL, Redis, MediaMTX, source lifecycle | four awaits per issue, transactions that time out with a command in flight, crashes | no use after a revocation the grant has not seen; every revocation applied in the end |
| Live stream manager (`services/stream-manager.ts`, `session-lifecycle.ts`, `start-attempt.ts`) | sessions, process instances, retentions, in-flight starts, close marks, waiters, restarts | start, heartbeat, stop, view reconcile, cleanup, expiry, supervisor | publication, FFmpeg, the web client | late starts and closes, release of a path another start adopts, caps | a closed view stays closed, no process killed and no path removed under a viewer, nobody waits for nothing |
| Publication and transcodes (`services/stream.ts`, `stream-reregister.ts`, `stream-validator.ts`) | path locks, registered paths, FFmpeg children | publish, remove, transcode | MediaMTX | publications and removals that cross, a MediaMTX that loses its paths | whoever watches has a path that exists, or gets it back |
| Stream consumer registry (`services/stream-consumer-registry.ts`) | hashes of readers in Redis | acquire, renew, release, count, list | removals, analytics, metrics | read, then delete of the same key | a path with a reader is not removed |
| Authentication (`routes/auth.ts`, `lib/auth-cookies.ts`) | sessions and used tokens in PostgreSQL, cookies in browsers | login, refresh, logout, revoke | web client's single flight, media revocation | rotation by compare-and-swap, grace window, family revocation | a token is exchanged once; tabs are not thieves; a reuse ends the family |
| Health and alerts (`jobs/healthWorker.ts`, `services/camera-health-debounce.ts`, `camera-alerts.ts`) | debounce per camera in memory, alerts in PostgreSQL | read, debounce, raise, resolve | NVRs, notifications | a restart forgets the debounce but not the alert | at most one open alert; a recovered camera's alert is resolved |
| AI pipeline base (`services/ai/`) | queue, breaker, real slots | submit, drain, timeout, answer | external provider | answers after the timeout, half-open breaker | no more real calls than slots; a half-open circuit is decided |
| WebSocket (`routes/websocket.ts`, `services/ws-*.ts`) | sockets, one-shot tickets, revoke bus | connect, broadcast, close | Redis pub/sub | tickets used once | best effort |
| Web viewport sessions (`apps/web/src/lib/`) | leases noted, closes pending and confirmed, what was retained, the viewport's token | start, heartbeat, close, retry, transition | live view routes | lost answers, starts answered late, weak and strong closes, superseded transitions | the tab forgets no lease the server holds, closes only its own, and repeats what was not confirmed |
| The rest: device clients, CRUD routes, analytics queries, notifications, schema, UI, native client, Python service | rows, forms, frames | CRUD, I/O, rendering | — | little that interleaves | — |

Every component is listed in `PROJECT.json` with its status and the reason when
it is not modelled; the hazards are there too, each at the line where it bites.

How the modelled parts meet: the preview routes call the admission controller
for each step of a session's life, so `PreviewSessions` composes
`PlaybackAdmission` and conjoins its actions. The grant plane reads the
instances that the source lifecycle writes: `MediaGrants` runs over the abstract
`SourceInstance`, and `SourceLifecycle` is proved to implement it. The live view
is modelled from its two ends: `LiveTranscode` is one path with its sessions and
its FFmpeg, `ViewportSessions` the browser tab that asks for them,
`PathPublication` one path with everybody who publishes or removes it, the
stream manager being one of them. `RefreshRotation`, `CameraHealth` and
`AiPipeline` share no state with anything else; `Components` puts them beside
the source lifecycle and the publication of a path. Nor does `VodGeneration`,
whose FFmpeg does take a playback place of the NVR, but without asking the
admission controller.

      PlaybackAdmission <---INSTANCE--- PreviewSessions
      SourceInstance    <---INSTANCE--- MediaGrants
      SourceInstance    <--implements-- SourceLifecycle
      TokenFamily       <--implements-- RefreshRotation
      Components: SourceLifecycle || RefreshRotation || AiPipeline || CameraHealth || PathPublication

## 2. The modules

### PlaybackAdmission

One `NvrState` of `NvrPlaybackAdmission`: `lease` is the map of leases (free
when absent), `queue` the array, `reducedLimit` and `cooldown` the temporary
reduction, `configuredLimit` and `globalDefaultLimit` the settings (0 for null).
One action per method; `Acquire`, `Release`, `ExpireUnconsumedLeases` and
`Reconcile` contain the promotion that the method ends with. NVRs share nothing
but the global default, so one is enough.

Data left out: user, camera and slot are one value, the session's view
(`ViewOf`), because `queueClassFor` only compares them all; times are reduced to
what they decide — which reservations are old (any subset of the unconsumed
ones), whether the cooldown has elapsed. That it has elapsed is seen when a
method looks (`restoreCapacityIfElapsed`), so `cooldown` has the value
"elapsed" in between.

### PreviewSessions

The previews of one NVR. `session`, `generation` and `vod` are fields of
`PreviewSession`; `handler[s][g]` is what the closure of the g-th GET knows;
`proc[s][g]` its FFmpeg in the registry; `awaited` the releases that await an
exit; `stuck` the map `stuckTerminations`.

A Node callback runs to its end, and then the promise continuations it settled,
before anything else: such a burst is one action. What waits is state. So
`Exit` contains the continuation of every release that waited for that exit and
then that of the takeover, in the order in which `waitAllExited` resolves them,
and `Stream` stops at its takeover when something is alive. Teardown
(`terminatePreviewSession`), finish (`finish`) and release
(`releasePlaybackLeaseAfterExit`) are operators used by every action that calls
them in the code. `CloseOn453` is one action because nothing is awaited between
`report453` and the release. The sweep promotes once at its end instead of after
each release, which grants the same places to the same sessions.

Simplifications that keep every behaviour: a process may exit at any time, so a
signal only sets `killed` (and obliges the process to end, under fairness);
which variant is tried next, whether audio is dropped, and what FFmpeg printed
are choices; `left` counts the attempts that remain; a handler that has answered
does nothing more than close. `reapOrphans` signals processes that were
signalled before; `streamAttached` only widens what the sweep may terminate, and
the sweep may terminate any open session.

`overdue` is history: a wait of that session ran out (`MayOverrun`), that is, a
process outlived SIGKILL for longer than `PREVIEW_TERMINATION_WAIT_MS` or the
takeover's deadline. The code decides then to go on without knowing, and the
properties that relate leases to processes are stated for sessions where that
did not happen. The unconditional form is refuted in the run `stuck_lease`.

### VodGeneration

`POST /recordings/playback` for one recording with one set of options: other
recordings have another job key and other files. `session` and `owner` are
`recordingSessions`, `job` is the entry of `recordingJobKeys`, `run[s]` how far
`runVodBackground` of s is, `ffmpeg[s]` its process and `file` what the cache
(path 0) and the temporary files hold. `known` tells whether the session knows
the process: it does not if the session ended while ffprobe ran. `linked` is a
file that nobody has unlinked under its writer.

A POST is a cache hit (`PostHit`), a new session (`PostNew`), or the session it
reuses, which changes only when that expires; expiry may happen at any time, so
the third is left out. `End` is DELETE and the sweep, `Shutdown` the hook
`onClose`, `Evict` the cache cleanup, which takes the oldest files and so never
one that is being written. Everything else is FFmpeg (`Open`, `Progress`, `Hang`)
and the callbacks that settle a generation: the stall timer with its two
verdicts, 'exit' and 'error', each with what `runVodBackground` then does, second
attempt included. How much was recorded is reduced to what a file is worth:
`tiny`, `part`, `whole`, or `broken` by two writers at once.

Left out: download tokens and the sending of the file, which read this state.

### SourceInstance and SourceLifecycle

`SourceInstance` is what the grant plane may assume: a path has at most one
current instance and one that was replaced, dropped or expired is never current
again. `SourceLifecycle` is the controller with its poller: an action is what
runs between two awaits together with the Redis command awaited. Registering is
therefore two steps (INCR, then SET), and passes overlap because `setInterval`
does not wait for the former tick. `Outage` covers MediaMTX's list and Redis,
`Restart` forgets `known` and the passes, `SourceComesOrGoes` is the camera.
Time is counted in ticks: 90 s of time to live over 30 s of interval, `Ttl` = 3.
`onReady` and `onNotReady` are called by `reconcile` only at this commit. A SET
whose answer is lost looks to the controller like a restart after it.

### MediaGrants

One query or command per action, with the code up to the next await. Issue:
`Derive` (permission from PostgreSQL), `CheckDebt`, `ReadInstance`, `ReadEpoch`,
`Store`. Validation: `BeginUse` (debt), `FinishUse` (instance, epoch, claim). A
permission change or logout writes its outbox row in the same transaction
(`Change`); a drain claims the oldest unlocked row (`Claim`, FOR UPDATE SKIP
LOCKED), sends INCR (`Bump`) and commits (`MarkApplied`). `TransactionLost` is
the interactive transaction that times out: the lock goes, and an INCR that
ioredis still holds becomes a `stray` that reaches Redis later. `Crash` frees the
locks and forgets requests in flight.

What a permission says is abstracted to the set of changes committed when it was
read (`permitted`); `seen` and `before` are the same for the epoch and for the
start of a use. Left out: pruning of applied rows, connections and their kick
(no kicker is installed at this commit), `issueSession` (no route calls it), the
in-memory stores. Deactivating a user or lowering a role (`routes/users.ts`)
writes no outbox row, so grants of such a user are outside what is claimed.

### LiveTranscode

The stream manager for one camera whose main stream has to be transcoded: the
sessions of the `main_h264` path, `transcodeInFlight`, the process with its
instance number, retentions and what was resolved, `publishedPaths`, and the
registration of the path in `services/stream.ts`. An action is what the code
does between two awaits.

- `requests[n]` is the request whose ticket (`beginRequest`) has the seq n.
  `phase` is the await it is in; `on` the start a waiter waits for; `answer` what
  the promise of the flight was resolved with. `InFlight` is `inFlightStarts`,
  `At("waiting")` is `transcodeWaiters`. A waiter resumes before the next event
  (`Quiet`), as promise continuations do.
- `HasOwner` is `pathHasOwner`. It is asked in every place the code asks it:
  before a release, under the lock of a removal, in a termination, in a
  finalised retention.
- `closedAt` merges the marks of a closed view and of a closed target: with one
  camera and one type they are compared in the same places. Marks do not expire;
  the code forgets them after minutes.
- `Kill(taken)`: a process may refuse SIGTERM (`stopTranscodeProcess` answers
  "not killed"), which is what retentions are for. At their cap the oldest one
  is finalised (`Retain`); when it is of the process that refuses, it stays and
  the cap is exceeded, as `crearRetencion` says it may be. Several sessions that
  expire together leave one retention each, in any order of theirs (`RetainAll`).
- `removals` and `deleting` are the removals that nobody awaits; `onServer` is
  what MediaMTX has.
- `fresh` is the age of a heartbeat against the TTL.

Left out: other cameras, except that they may hold every place (`NoPlace`);
generation numbers, which only label logs here; stop without a view and cleanup
without a view; the registration, `finalizeTranscodeSuccess` and the `finally` of
a start are one step, for nothing is awaited between them; a former process
that refuses the kill inside `spawnTranscodeProcess` is not tracked further.

### ViewportSessions

One camera in one tab of the live view: `LiveViewPage.tsx` with the session
controller and its parts, and as much of the server as answers it. `registry`,
`pending` and `confirmed` are the registry of sessions, the queue of pending
closes and `closeConfirmed`; `deletes` is `closeInFlight`. A list of closes
that is worked off one by one (of a slot, of a late answer, of what was
retained, the retry) is an element of `loops`; the closes of a transition, which
leave together and are awaited together, one of `batches`. What an answer means
to everybody who awaits it is one action, `CloseAnswered`. `page` has the viewport's
token and whether a start is scheduled (`due`) or under way (`pendingStarts`).

On the server, `leases` is `startAttemptIds` of the session and `retention` the
lease of a process kept without one. `ServeStart` succeeds or fails and
`ServeClose` decides at once: what happens between their awaits is
`LiveTranscode`. The marks that make a start fail are not looked at, so it may
fail, or succeed, at any time: more than the code does. A start that succeeds
adds its lease, replaces the session, or only touches it (`Holders`); after the
last the tab knows a lease the server never had (`ended`), and its closes are
ignored as `attempt_not_registered` while the session lives. A strong close that
cannot end the process deletes the session and answers `retention_pending`. A server that lost an
answer and one that failed look the same to the tab (`failed`). `unheard` is
history: leases whose answer never came, or is still to come with a heartbeat;
the tab cannot know them, and they end with the session's TTL.

Weak closes keep the FFmpeg, strong ones end it (`MATAN_FFMPEG`); of each only
one reason is modelled. Left out: a hidden tab, `dispose` and the page cache,
where closes are sent and not awaited; `ViewPlayerPage`; the limit flows; other
cameras and slots; a heartbeat that is aborted in the browser and still served;
leases of a start without a client (`Reconcile` mints them).

### PathPublication

One substream path. Under the lock of the path: `publishStream` (POST, PATCH,
POST again, each a call to MediaMTX) and `removeStream` (count of consumers,
prune, `stillUnowned`, DELETE). Outside it: viewers that start, register, cancel
and leave, with the lookup of the camera before the removal; the poll of
analytics that publishes first and leases afterwards; the lease in Redis with
its expiry and the two places that prune it; the pass of the health worker that
lists what MediaMTX has, forgets the registration and publishes again. MediaMTX
may restart without its paths; a call may fail, or only its answer; a DELETE
that timed out may arrive later.

The lock is first come, first served; the model lets any waiter go next, which
only adds behaviours. The fingerprint never changes (one camera, one address).
A camera that is marked offline is skipped by the worker's pass: in the model it
is never so marked, and `WatchedPathComesBack` holds for such cameras only. Not
modelled: the removals of `routes/cameras.ts:289` and `:786`, which delete a path
on purpose whoever watches.

### RefreshRotation and TokenFamily

The sessions of one user, `used_refresh_tokens`, the cookie jar of each browser
and the call of each tab (`refreshPromise` allows one). Tokens are numbers in the
order of their issue. A step is one query or transaction. `used` says for each
used token whether its grace is over; the handler compares with the time at
which it began, so `LookUp` keeps that in `late`. `EndSessions` stands for every
other deletion of rows (a session revoked, a new password, an administrator, the
hourly expiry). The find and the delete of the prune are one step, since
`EndSessions` may take any row at any time anyway. `disturbed` is history: an
answer with a new token was lost, or a call was on its way for longer than the
grace.

`TokenFamily` is what the tables amount to, seen from the tokens: one is good from
its issue, by a login or in exchange for a good one, until it is exchanged or its
session ends, and never again. `RefreshRotation` implements it, with `good` the
tokens of the rows and `origin` the exchanges: no transaction of a call that is
late revives a session that ended meanwhile.

### CameraHealth

One camera, physical signal: `stepDebounce` as `Offline` and `Online` with their
streaks (capped where they stop mattering), `firstFailureAt` as absent, recent
or old, then `raiseCameraAlert` and `recoverCameraAlert` query by query. Cycles
do not overlap (`healthCycleRunning`). `muted` is maintenance or a disabled
alert. `troubled` is history: a query failed or the API restarted.

### AiPipeline

`BoundedQueue`, `CircuitBreaker` and `drainOne`. `call[k]` is a call to the
provider: its drain waits for it, or gave up while it runs on. "cooled" is an
open circuit whose time is over and which nobody has looked at. `probe` is
history: the call took a place of the half-open state. Events and their
deduplication are left out.

### Components, MCPlayback and MCLiveTranscode

They put several parts in one run: the first state chooses a
part, which then runs alone with its fairness, and each property speaks of one
part. `Components` (its instance for TLC is `MCComponents`) has the source
lifecycle, tokens, health, AI and path: components that share no state. It is a
module of its own because the proofs about them are carried out there:
`SideBySide` says that a behaviour of `Components` is one of each component.
`MCLiveTranscode` has the two sides of the live view and extends both,
`LiveTranscode` and `ViewportSessions` (which has `TabInit`, `TabNext` and so on,
so that the names do not meet); `MCPlayback` what must happen in the end when recordings are played: a preview,
the admission queue and the generation of an MP4 file, whose module it extends.

## 3. What the runs show

Deadlock is checked in every run but `live`, `components`, `playback` and
`vod_shutdown`: there the inputs are bounded (requests, tokens, alerts, playback
sessions) and may run out, or the API shuts down, with nothing left to do.
States are distinct states.

| Run | Instance | States | Properties |
|---|---|---|---|
| `admission` | 4 sessions, 3 of one view; default limit 1, settings 0 (unset) or 2 | 40 460 | `TypeOK`, `QueueIsDisciplined` (no session twice, continuity first, one claim for each stream), `GrantsWithinLimit`, `NobodyOvertakesTheQueue`, `FifoWithinClass` |
| `preview` | 2 sessions, limit 1, 2 GETs, 2 attempts, waits may run out (`InTurn`) | 511 770 | `OneProcessPerSession`, `ProcessHoldsLease`, `OrphansAreKilled`, `NoLeakedLease`, `LeaseOutlivesProcess`, `OnlyTheOwnerSpawns` |
| `grants` | 1 user, 1 path, 2 instances, 2 changes, 2 failures, 1 grant, fair | 305 322 | `TypeOK`, `RevocationCoversUse`, `NoRevocationLost`, `GoneSourceStaysGone`, `RevocationsDrained` |
| `live` | server: 2 views, 3 requests, 2 processes, 1 restart, 1 retention, 1 refused kill; tab: 1 start, 1 lease of a heartbeat, 2 transitions, 1 close, 1 lost message | 1 513 071 | `MCTypeOK`; server: `ClosedStaysClosed`, `NobodyWaitsForNothing`, `RetainedIsUnwatched`, `NoKillUnderAViewer`; tab: `TabKnowsTheServer`, `NoCloseIsAbandoned` |
| `components` | see below | 441 539 | `TypesOK`; sources: `NoInstanceReturns`, `GoneSourceLosesItsInstance`; tokens: `HonestTabsAreNotThieves`, `ReuseEndsTheFamily`, `TokensAreExchanged`; AI: `NoProbeIsLost`; health: `OneUnresolvedAlert`, `AlertsEndWithTheOutage`; path: `WatchedPathExists`, `WatchedPathComesBack` |
| `playback` | see below, fair | 73 628 | MP4: `TypeOK`, `OwnFileIsNotCutShort`, `GenerationSettles`; preview: `ClosedSessionReleases`, `TakeoverAnswered`; admission: `ContinuityServed` |
| `client_gone`, `stuck_lease`, `vod_shutdown`, `sources_expired`, `grants_stale`, `orphan_ffmpeg` | | | one violated claim each, section 5 |

Why the bounds are enough.

- Admission: the claim of a predecessor needs a stream, its successor and a
  rival successor of the same view; overtaking needs a session of another view.
  Limits 1 and 2 make raising, lowering and the reduction to the floor happen
  with leases above and below the new limit. The proofs cover any number.
- Previews: one place and two sessions make each release a promotion that can be
  wrong. Two GETs are a takeover, three (in `playback`, one session) a takeover of a
  takeover; two attempts are a first one and a retry. Sessions meet only in the
  admission controller, whose own run has four of them; so at most one of the two
  has both a takeover and a wait that ran out (`InTurn`). Without that bound the
  same properties hold in 774 370 states, in half as much time again.
- Sources (in `components`): two passes meet at one path; paths meet only at the counter. Three
  upsets are an outage, a restart and a change of the source. `MaxToken` is more
  than the upsets can ask for, so it never cuts a behaviour short.
- Grants: one row more than a pending one orders the drains; two failures are a
  lost transaction with its stray INCR and a crash or outage on top.
- Live: three requests are the start of one view, that of another (a waiter, or
  the next claimant of a path being released) and a stop or close between any two
  of their steps. Two processes are one that is replaced or restarted; one
  retention is at its cap at once.
- Tab: a start and a lease that a heartbeat brought are two leases of one slot,
  so that a close of one must leave the other; two transitions are one that is
  superseded while it closes; a close of the slot crosses both with a weak or a
  strong reason. One lost message queues a close or hides a lease. The second
  transition, the heartbeat's lease and the loss meet in pairs (`InPairs`); a
  process that a close could not end meets the first or the last of them (with all
  of them the same properties hold in 3 221 622 states, too many for a run).
- Components. Tokens: three tabs in two browsers and three tokens, so that two
  tabs race for one token and the loser of an old one is a thief; `MaxSessions` 1
  makes the second login prune the first. AI: two calls, a threshold of two and
  one probe, so that an old call settles while a probe runs. Health: 3 checks to
  confirm and 2 to recover, the defaults, and three alerts. Path: two viewers, one
  removal under way, one failed call or loss.
- Playback. Preview: above. Admission: a stream, its successor and a session of
  another view over limit 2. MP4: two sessions of one user or of two, with the
  cache and without it, are a reuse, a hit on what the other one left, and two
  writers of one file; each run has up to two attempts.

Fairness.

- Admission: the sweep is a `setInterval`, so `Reconcile` is weakly fair; every
  lease is released in the end, by its stream, by the session's TTL or by the
  sweep of stuck ones, so `ReleaseLease` is. Nothing is assumed of clients.
- Previews: a process that got SIGKILL ends (`Exit` of killed processes), Node
  delivers 'close' and 'error', and the sweep runs. Clients, GETs, DELETEs,
  deadlines and exits of processes nobody signalled are not fair.
- MP4: what a generation owes by itself (`Owed`): the probe has a timeout, FFmpeg
  has one for its reads before the first frames and then ends or hangs, a
  signalled process exits, and the stall timer is a `setInterval`. An FFmpeg that
  hangs unsignalled need never exit, and no user needs to come back.
- Sources: the interval fires and the awaits of a pass end: the list has a 5 s
  timeout, and ioredis fails a command after its retries (20 by default). Outages need not end.
- Grants: Redis comes back, and a drain goes on with a row it can take: the
  sweep of `grant-service.ts` runs every 60 s and on Redis's 'ready'. Failures
  are bounded by `MaxFailures`, which is what "in the end" requires.
- Path: a call under the lock returns (the client of MediaMTX has a timeout of
  10 s), so `HolderStep` is weakly fair, and the worker's pass comes every five
  minutes (`WorkerStep`). Viewers, analytics and faults need not act; faults are
  bounded by `MaxTroubles`.

## 4. What is proved

TLAPS proves the following for every value of the constants, from the named
`ASSUME`s of each module (finite sets of sessions and of views, positive default
limit, natural bounds, positive thresholds and caps, `None` not an instance,
non-empty sets; `PreviewSessions` repeats those of the admission controller it
drives); TLC evaluates those assumptions in the runs. Every theorem rests on an
invariant that each action preserves: it holds initially, `[Next]_vars` keeps
it, and what is claimed follows from it, or from it and one step.

`PlaybackAdmissionProofs`. The inductive invariant is the type invariant with
`NoSessionTwice`, `ContinuityFirst`, `OneClaimWaiting`, `ReductionIsTemporary`
and `LeaseAgreesWithStream`, and the proof goes through the shape of each step
on the queue: what is left after a promotion is a suffix, after a withdrawal the
queue without one element, after an acquire the queue with one inserted where
its class ends. `NeverBeyondTheLimit` counts: a promotion takes no more than
`Room`, with the cardinality facts of the library. `NeverOvertaken` holds since
`Acquire` promotes first and grants directly only when nobody is left waiting.
`FirstComeFirstServed` is about two queues, before a step and after it: a
promotion leaves a suffix, so places shift by one number (`PromoteIsFifo`); a
withdrawal keeps the order of the rest (`RemoveIsFifo`); and an inserted request
stands behind all of its class, for it goes where its class ends and the
continuity class stands first (`InsertIsFifo`).

`SourceLifecycleProofs`. `Implements` shows that the lifecycle implements
`SourceInstance`, with `used` mapped to the tokens that were ever current and
`instance` to the keys. The step that matters is a late SET: its token must be
fresh. The inductive invariant says so: a token held by a pass is at most the
counter, no two passes hold the same one, and it has never been current; only
the INCR creates tokens.

`MediaGrantsProofs`. `RevocationHolds` is the central safety property. Epochs
only grow. Order rows, grants and uses by them: a row carries the epoch at its
commit; a grant that has not seen a row of its user read an epoch no larger than
that row's; an applied row was bumped, so the current epoch is larger than the
row's (`AppliedIsBumped`); a validation past its debt check has all the rows it
saw applied. A use that matched the current epoch therefore has a grant whose
epoch exceeds those rows', so it saw them. Stray increments only help: they make
epochs larger. `GoneInstanceStaysGone` follows from `used` and
`SourceInstance`'s step.

`PreviewSessionsProofs`. All seven properties of the previews, for any number of
sessions, GETs and attempts. The invariant is that of the admission controller,
the types, and for each session three parts. `Shape`: at most one process is
alive; requests beyond the newest have done nothing; what runs without owning
the stream has been signalled. `Awaits`: a release only waits for something that is
alive. `Covered`: the lease is there from the takeover of the owner to the last
exit, and a consumed one has somebody who will give it back. The last two are
what makes it inductive: that no lease leaks depends on who still waits for
which exit, and that a process has its lease on no older lease being given back
meanwhile. A step of one session is proved once, on the parts of that session
(`StepOf`), while `Steady` says that the others only gain by it, for the queue may
grant them a lease. The sweep and the limits, which touch every session, are
proved for all of them at once. `PlaybackAdmissionProofs` is instantiated for
what the controller's operations do to leases and queue. Where a
property excludes sessions with `overdue`, so does the theorem; how they
fail is section 5, `stuck_lease`.

`ComponentsProofs`, for four of the components (the sources have their own
module). `SideBySide` carries what holds of a component's
specification over to `Components`. Alerts: a creation is under way only if none
was found (`CreationIsFounded`). AI: the places that are taken are those of the
calls under way, and a half-open circuit counts its probes (`ProbesDecide`). Path:
what the holder of the lock knows of consumers and of the path while its call is
under way; a viewer that comes in between is seen again before the DELETE, so a
watched path is there unless MediaMTX lost it (`ViewersHaveTheirPath`).
Tokens, `OneExchange`: the token of a row has not been exchanged,
so who wins the compare-and-swap is the first. `RevokedForGood`: after a reuse
no row of an older family appears. `TokensImplementFamily` maps each step to one
of `TokenFamily`: rows differ in their tokens, so a rotation takes one good token
away and adds one, and a token just issued has no origin yet. `HonestTabsStay`
needs what browsers know: a token that was issued and not delivered is in one call
only and in no cookie, and cookies of two browsers differ; so who presents a used
token after its grace, with no answer lost and no call that late, is not an honest
tab.

`LiveTranscodeProofs`. The invariant has two halves. Of requests: a session is
newer than the close mark of its view (`Marked`); a waiter waits for a start
that has answered or still runs (`Waits`); who owns a flight that is starting has
not begun to give the path up (`Starts`), which is why the release of a path can
forget the flight. Of the process: its numbers and its retentions, none of the
current instance while a view watches. `ViewersKeepTheirProcess` needs both:
each of the places that may end the process asks `pathHasOwner` with the
sessions that are left by the same step. The retentions are an insertion-ordered
map from which any part is taken away; that what remains is what was meant
(`WithoutKeepsTheRest`) rests on the order of the naturals, without induction over
sequences.

`VodGenerationProofs`. `OwnFilesAreWhole`, for any number of sessions. While one
generation is alone with its path, the file holds nothing before an FFmpeg opened
it, and a part of the recording only under an FFmpeg that still writes to it; so
a success makes it whole (`OwnFile`). That needs how a session, its run and its
process go together (`RunOK`): SIGINT is only sent near the end, and a session
that is ready has no process left. A step of one session keeps the invariant of
the others (`OneSession`): on another path it cannot reach their file, and in the
cache they are not alone. Sessions that share a cached file are outside the
property, as section 5 says of the code.

`ViewportSessionsProofs`. `TabBelievesRight` and `NoCloseLost`, for any number of
starts, transitions, closes, heartbeats and lost messages. The invariant is about
each lease. While the server has not given it, nobody knows of it (`Given`); what the
server holds, the tab was told, or has a close for, or could not know (`Held`); what
the tab was told is leased, or expired, or has a close (`Accounted`). `Served`
ties the closes to the server: a close that the tab takes as confirmed, or whose
answer will confirm it, is of a lease that is gone, and a strong one of no process
that is kept. This is what makes it right to skip a DELETE that was confirmed. The
properties need two facts about who waits: every DELETE is the only one of its
lease and strength, and a list or a transition goes on with its answer (`Waited`),
so no answer is lost; and a retry only repeats what is queued or gone
(`Requeued`), so that a queue with a leased entry keeps its timer when the retry
ends. `BothSides` separates what runs into a behaviour of the server and one of
the tab, so that `SidesTyped` follows from the theorems of each. Steps that begin
closes are one lemma (`OpensStep`), as are those of the
server and the network (`WorldStep`).

Each proof module has one lemma per group of actions (its effect on the state),
then one step per conjunct of the invariant, and ends with the temporal step.

Only model-checked are the liveness properties `ContinuityServed`, `ClosedSessionReleases`, `TakeoverAnswered`,
`GenerationSettles`, `GoneSourceLosesItsInstance`, `RevocationsDrained` and `WatchedPathComesBack`.
Proved and in no run are two parts of the inductive invariant of the admission
controller, `ReductionIsTemporary` and `LeaseAgreesWithStream`; the types of the
previews (`PreviewsTyped`); and `ExchangedOnce`, since every behaviour of
`TokenFamily`, which a run checks, has it.
Liveness under fairness, `ENABLED`, recursive operators and induction over data
are outside what the prover does; no module here uses a recursive operator.

## 5. Where code and comments disagree

Each has a run whose counterexample is a behaviour of the code.

- `client_gone`: a GET listens to its socket only after its takeover and first
  spawn; a client that leaves during the takeover is not noticed.
- `stuck_lease`: an entry of `stuckTerminations` outlives the GET that takes its
  lease over, and the sweep gives that lease back between two attempts.
- `vod_shutdown`: a session that ends while ffprobe runs gets an FFmpeg all the
  same, which no session knows, and the shutdown leaves it running.
- `sources_expired`: `reconcile` refreshes what it knows; a key that expired in
  a long outage is never registered again.
- `grants_stale`: the permission is read before the debt and the epoch; a change
  that commits and drains in between is not seen.
- `orphan_ffmpeg`: a start that failed and is still releasing its path counts as
  an owner for another start that gives up meanwhile; the FFmpeg is then kept
  for nobody.

Others were met while modelling and have no run.

- `routes/recordings.ts:1678`: a cache hit asks only that the file has more than
  512 bytes. What a stalled, failed or cancelled generation left, and what another
  session is still writing, is served as ready; `docs/PROJECT_DOCUMENTATION.md:228` speaks
  of the complete MP4. `OwnFileIsNotCutShort` is therefore claimed only for a file
  that no other session generates.
- `routes/recordings.ts:1205`: a run that was cancelled or stalled returns before
  the unlink of line 1208, and its session, not ready, does not know the file: the
  temporary file stays, against lines 62-63 ("deleted on session expiry").
- `routes/recordings.ts:1256`: the second attempt logs the size of its file and
  does not test it, unlike the first.
- `routes/recordings.ts:368` and `:1899`: the temporary file goes with its session,
  although the download token is called "independent of session lifetime" (1906).
- `routes/recordings.ts:1893`: the end of a session deletes the job key by name,
  also when it has become that of another user's session.
- `media/source-lifecycle.ts:136`: passes of the poller may overlap; two that
  find a path unknown both register it, and the second rotates the instance of a
  live source, against lines 10-11 ("nunca re-registra un path ya vivo").
- `stream-manager.ts:2889` and `:3067`: a killing stop whose retention is already
  resolved returns without a close mark, a plain stop without a session leaves
  one; a start under way survives the former only.
- `stream-manager.ts:2383`: a waiter that finds a session of its view touches it
  but its attempt is not added to the session's attempts, so giving that attempt
  back later is ignored.
- `stream-manager.ts:2361` and `:2464`: the backoff of the supervisor may end
  while another start publishes; both spawn, and the second replaces the first.
- `apps/web/src/pages/LiveViewPage.tsx:852`: a transition closes the cameras that
  the registry has. A camera whose process was kept by a weak close and that has
  no session any more is not among them, and its process is left to the TTL of
  retentions, against the comment of `closeTracked`
  (`viewportSessionController.ts:530-532`).
- `apps/web/src/lib/viewportSessionClose.ts:189`: a retry sends the reason its
  list was made with. If a strong close fails meanwhile and raises the entry, the
  confirmation of the weak one takes it out of the queue, and the process is kept;
  `pendingCloses.ts` wants the stronger reason to win.
- `apps/web/src/lib/pendingCloses.ts:127`: a close that was served but whose
  answer was lost is answered `attempt_not_registered` while another lease holds
  the slot, which confirms nothing: it is repeated every 5 s until the slot closes.
- `apps/web/src/lib/viewportSessionController.ts:438`: a tick that finds the queue
  empty while a retry is under way stops the timer; the failure of that retry
  queues its close with no timer. Its lease is already closed when that happens:
  `NoCloseIsAbandoned` holds for leases that the server has.
- `routes/auth.ts:729`: logout deletes the row of the presented token; a refresh
  that rotates it just before leaves the session alive.
- `camera-health-debounce.ts:62`: one ONLINE reading in PENDING resets the streak
  but not `firstFailureAt`, which line 19 describes as the first of the streak; a
  flapping camera is confirmed offline by time.
- `jobs/healthWorker.ts:26`: "sólo re-arma la confirmación": after a restart an
  open alert of a camera that is back is resolved by nobody but a user, and a
  query that fails after the confirmation loses the alert.
- `ai/circuit-breaker.ts:54`: an answer of a call made before the circuit opened
  can close it while half open.
- `routes/analytics.ts:188`: the path is published before it is leased; a removal
  in between leaves a lease on a path that is gone until the next poll.

## 6. Plan

Done: the core (previews, admission, sources, grants), the live view on both
sides, tokens, alerts, the AI pipeline and the generation of MP4 files; the
safety properties that the runs check are proved. Left, in this order.

1. Download tokens and the serving of a file that is being written.
2. `ViewportSessions` with a hidden tab and `dispose`, and with two cameras.
3. The stream signal of `healthWorker.ts` with its round of probes.

Not modelled, and why: device protocols, frame processing, rendering, CRUD and
queries, where little interleaves and unit tests reach what can go wrong; the
flags and stores listed in `PROJECT.json` with their reason.
