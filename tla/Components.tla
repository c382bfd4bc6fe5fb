----------------------------- MODULE Components -----------------------------
(***************************************************************************)
(* Components that share no state, side by side: the first state chooses   *)
(* one, which then runs alone with its world and its fairness.  The media  *)
(* sources (this module's own variables), the refresh tokens of a user,    *)
(* the AI pipeline, the alert of a camera and the publication of a path.   *)
(***************************************************************************)
EXTENDS SourceLifecycle

CONSTANTS
    Browser, Tab, BrowserOf, MaxTokens, MaxSessions,               \* RefreshRotation
    Camera, AiCall, MaxPerKey, MaxTotal, MaxConcurrent,
    FailureThreshold, HalfOpenMaxCalls,                            \* AiPipeline
    OfflineConfirmChecks, RecoveryConfirmChecks, MaxAlerts,        \* CameraHealth
    Viewer, Analytics, Worker, Removal, Nobody,
    MaxRemovals, MaxTroubles                                       \* PathPublication

VARIABLES
    part,   \* the component that runs
    sessions, usedTokens, jar, tabCall, issued, parent, revoked, disturbed,
    aiQueue, breaker, failures, halfOpenInFlight, realInFlight, aiCall,
    phase, offlineStreak, onlineStreak, firstFailure, cycle, unresolved, created, troubled,
    configured, registered, lock, pathCall, watching, looking, removing, removal, consumer,
    pruning, late, troubles, lost

Tokens == INSTANCE RefreshRotation WITH used <- usedTokens, call <- tabCall

Ai == INSTANCE AiPipeline WITH queue <- aiQueue, call <- aiCall, Call <- AiCall

Health == INSTANCE CameraHealth

Publication == INSTANCE PathPublication WITH call <- pathCall

ASSUME ComponentsAssumption == Tokens!Tabs /\ Ai!Limits /\ Health!Checks /\ Publication!Actors

CInit ==
    /\ part \in {"sources", "tokens", "ai", "health", "path"}
    /\ Init /\ Tokens!Init /\ Ai!Init /\ Health!Init /\ Publication!Init
    /\ part # "sources" => ready = {}

tokenVars == <<sessions, usedTokens, jar, tabCall, issued, parent, revoked, disturbed>>
aiVars == <<aiQueue, breaker, failures, halfOpenInFlight, realInFlight, aiCall>>
healthVars == <<phase, offlineStreak, onlineStreak, firstFailure, cycle, unresolved, created, troubled>>
pathVars == <<configured, registered, lock, pathCall, watching, looking, removing, removal, consumer,
              pruning, late, troubles, lost>>

cvars == <<part, vars, tokenVars, aiVars, healthVars, pathVars>>

CNext ==
    /\ UNCHANGED part
    /\ \/ part = "sources" /\ Next /\ UNCHANGED <<tokenVars, aiVars, healthVars, pathVars>>
       \/ part = "tokens" /\ Tokens!Next /\ UNCHANGED <<vars, aiVars, healthVars, pathVars>>
       \/ part = "ai" /\ Ai!Next /\ UNCHANGED <<vars, tokenVars, healthVars, pathVars>>
       \/ part = "health" /\ Health!Next /\ UNCHANGED <<vars, tokenVars, aiVars, pathVars>>
       \/ part = "path" /\ Publication!Next /\ UNCHANGED <<vars, tokenVars, aiVars, healthVars>>

(* The fairness of the components, for the one that runs.                  *)
CFairness ==
    /\ \A i \in Pass : WF_vars(part = "sources" /\ Tick(i)) /\ WF_vars(part = "sources" /\ PassStep(i))
    /\ WF_pathVars(part = "path" /\ Publication!HolderStep)
    /\ WF_pathVars(part = "path" /\ Publication!WorkerStep)

CSpec == CInit /\ [][CNext]_cvars /\ CFairness

(***************************************************************************)
(* The properties of the components that this module instantiates.  Those  *)
(* of the sources are in SourceLifecycle.                                  *)
(***************************************************************************)

(* The type invariants of the components. *)
TypesOK == TypeOK /\ Tokens!TypeOK /\ Ai!TypeOK /\ Health!TypeOK /\ Publication!TypeOK

(* One tab exchanges a refresh token, once. *)
ExchangedOnce == Tokens!ExchangedOnce

(* Tabs of the user that refresh at once do not end their sessions. *)
HonestTabsAreNotThieves == Tokens!HonestTabsAreNotThieves

(* A reuse leaves no session, and none comes back by a rotation under way. *)
ReuseEndsTheFamily == Tokens!ReuseEndsTheFamily

(* Tokens begin by a login or in exchange for a good one, and end for ever. *)
TokensAreExchanged == Tokens!TokensAreExchanged

(* A half-open circuit of the AI pipeline always has a probe to decide it. *)
NoProbeIsLost == Ai!NoProbeIsLost

(* A camera never has two unresolved CAMERA_OFFLINE alerts. *)
OneUnresolvedAlert == Health!OneUnresolvedAlert

(* Without restarts and failed queries no alert outlives its outage. *)
AlertsEndWithTheOutage == Health!AlertsEndWithTheOutage

(* A path that is watched exists in MediaMTX, unless MediaMTX lost it. *)
WatchedPathExists == Publication!WatchedPathExists

(* A watched path that was lost is published again (the worker's pass). *)
WatchedPathComesBack == Publication!WatchedPathComesBack

=============================================================================
