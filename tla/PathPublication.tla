--------------------------- MODULE PathPublication ---------------------------
(***************************************************************************)
(* The publication of one substream path in MediaMTX (services/stream.ts:  *)
(* publishStream, removeStream and their lock), with those who want it:    *)
(* viewers of the live view (startStreamCore and the cleanups of           *)
(* stream-manager.ts), the analytics poll and its lease                    *)
(* (routes/analytics.ts, stream-consumer-registry.ts) and the worker that  *)
(* publishes missing paths again (jobs/healthWorker.ts).  A step is one    *)
(* call to MediaMTX, Redis or PostgreSQL with the code up to the next one. *)
(* MediaMTX may restart without its paths, and a DELETE that timed out may *)
(* still arrive.                                                           *)
(***************************************************************************)
EXTENDS Naturals

CONSTANTS
    Viewer,       \* viewers of the path, each a session
    Analytics,    \* the analytics poll
    Worker,       \* the worker's pass
    Removal,      \* the removal that runs
    Nobody,       \* no holder of the lock
    MaxRemovals,  \* bound: removals under way at once
    MaxTroubles   \* bound: failed calls to MediaMTX and losses of the path

(* The actors are different from each other. *)
Actors ==
    /\ Analytics # Worker /\ Removal # Nobody /\ {Analytics, Worker} \cap {Removal, Nobody} = {}
    /\ {Analytics, Worker, Removal, Nobody} \cap Viewer = {}
    /\ MaxRemovals \in Nat /\ MaxTroubles \in Nat

Publisher == Viewer \cup {Analytics, Worker}

VARIABLES
    configured,  \* MediaMTX has the path
    registered,  \* registeredPaths has it, with the same fingerprint
    lock,        \* who runs under the lock of the path
    call,        \* publisher -> where its publishStream is
    watching,    \* the viewers with a session on the path
    looking,     \* removals that read their camera
    removing,    \* removals that wait for the lock
    removal,     \* where the removal that has the lock is
    consumer,    \* the lease of analytics: "none", "live", "expired"
    pruning,     \* a list of the consumers (metrics) has read the lease expired
    late,        \* a DELETE whose answer timed out is on its way
    troubles,    \* calls that failed and losses so far
    lost         \* history: MediaMTX restarted, or a DELETE timed out

vars == <<configured, registered, lock, call, watching, looking, removing, removal, consumer,
          pruning, late, troubles, lost>>
removalVars == <<looking, removing, removal>>
mediaVars == <<configured, registered>>
leaseVars == <<consumer, pruning>>
faultVars == <<late, troubles, lost>>

Init ==
    /\ configured = FALSE /\ registered = FALSE /\ lock = Nobody
    /\ call = [p \in Publisher |-> "none"] /\ watching = {}
    /\ looking = 0 /\ removing = 0 /\ removal = "none"
    /\ consumer = "none" /\ pruning = FALSE
    /\ late = FALSE /\ troubles = 0 /\ lost = FALSE

Become(p, c) == call' = [call EXCEPT ![p] = c]
Trouble == troubles < MaxTroubles /\ troubles' = troubles + 1

(* pathHasOwner: a session, or a start that has announced itself. *)
HasOwner == watching # {} \/ \E v \in Viewer : call[v] # "none"

(***************************************************************************)
(* publishStream.                                                          *)
(***************************************************************************)

Publish(p) ==
    /\ call[p] = "queued" /\ lock = Nobody
    /\ IF registered
         THEN Become(p, "ok") /\ UNCHANGED lock
         ELSE Become(p, "posting") /\ lock' = p
    /\ UNCHANGED <<mediaVars, watching, removalVars, leaseVars, faultVars>>

Registers(p) ==
    /\ configured' = TRUE /\ registered' = TRUE
    /\ Become(p, "ok") /\ lock' = Nobody

(* POST add, and PATCH when MediaMTX has the path, and POST again when it  *)
(* has it no more.                                                         *)
Post(p) ==
    /\ call[p] = "posting"
    /\ IF configured THEN Become(p, "patching") /\ UNCHANGED <<mediaVars, lock>> ELSE Registers(p)
    /\ UNCHANGED <<watching, removalVars, leaseVars, faultVars>>

Patch(p) ==
    /\ call[p] = "patching"
    /\ IF configured THEN Registers(p) ELSE Become(p, "adding") /\ UNCHANGED <<mediaVars, lock>>
    /\ UNCHANGED <<watching, removalVars, leaseVars, faultVars>>

Add(p) ==
    /\ call[p] = "adding" /\ ~configured
    /\ Registers(p)
    /\ UNCHANGED <<watching, removalVars, leaseVars, faultVars>>

(* The call fails, or only its answer. *)
PublishFails(p) ==
    /\ call[p] \in {"posting", "patching", "adding"} /\ Trouble
    /\ Become(p, "failed") /\ lock' = Nobody
    /\ configured' \in {configured, configured \/ call[p] # "patching"}
    /\ UNCHANGED <<registered, watching, removalVars, leaseVars, late, lost>>

(***************************************************************************)
(* removeStream, with the revalidation of its callers.                     *)
(***************************************************************************)

(* The camera is read; a cleanup looks again whether anybody watches. *)
LookUpCamera ==
    /\ looking > 0 /\ looking' = looking - 1
    /\ \/ removing' = removing + 1
       \/ watching # {} /\ UNCHANGED removing
    /\ UNCHANGED <<mediaVars, lock, call, watching, removal, leaseVars, faultVars>>

(* hasActiveConsumers, under the lock: an expired lease is pruned. *)
CountConsumers ==
    /\ removing > 0 /\ lock = Nobody
    /\ removing' = removing - 1
    /\ IF consumer = "live" THEN UNCHANGED <<removal, lock>>
       ELSE lock' = Removal /\ removal' = IF consumer = "expired" THEN "pruning" ELSE "counted"
    /\ UNCHANGED <<mediaVars, call, watching, looking, leaseVars, faultVars>>

PruneCounted ==
    /\ removal = "pruning" /\ removal' = "counted"
    /\ consumer' = "none"
    /\ UNCHANGED <<mediaVars, lock, call, watching, looking, removing, pruning, faultVars>>

SlipDecide ==
    /\ removal = "counted" /\ removal' = "deleting"
    /\ registered' = FALSE
    /\ UNCHANGED <<configured, lock, call, watching, looking, removing, leaseVars, faultVars>>

Decide ==
    /\ removal = "counted"
    /\ IF HasOwner THEN removal' = "none" /\ lock' = Nobody /\ UNCHANGED registered
                   ELSE removal' = "deleting" /\ registered' = FALSE /\ UNCHANGED lock
    /\ UNCHANGED <<configured, call, watching, looking, removing, leaseVars, faultVars>>

Delete ==
    /\ removal = "deleting" /\ removal' = "none" /\ lock' = Nobody
    /\ configured' = FALSE
    /\ UNCHANGED <<registered, call, watching, looking, removing, leaseVars, faultVars>>

(* The DELETE fails, or only its answer, or it arrives later. *)
DeleteFails ==
    /\ removal = "deleting" /\ removal' = "none" /\ lock' = Nobody
    /\ Trouble
    /\ configured' \in {configured, FALSE}
    /\ late' \in {late, TRUE} /\ lost' = (lost \/ late')
    /\ UNCHANGED <<registered, call, watching, looking, removing, leaseVars>>

(***************************************************************************)
(* Viewers.                                                                *)
(***************************************************************************)

AskRemoval == looking + removing < MaxRemovals /\ looking' = looking + 1

Start(v) ==
    /\ call[v] = "none" /\ v \notin watching
    /\ Become(v, "queued")
    /\ UNCHANGED <<mediaVars, lock, watching, removalVars, leaseVars, faultVars>>

Register(v) ==
    /\ call[v] = "ok" /\ Become(v, "none") /\ watching' = watching \cup {v}
    /\ UNCHANGED <<mediaVars, lock, removalVars, leaseVars, faultVars>>

StartFails(v) ==
    /\ call[v] = "failed" /\ Become(v, "none")
    /\ UNCHANGED <<mediaVars, lock, watching, removalVars, leaseVars, faultVars>>

(* The view was closed during the start: releaseUnownedStream. *)
Cancel(v) ==
    /\ call[v] = "ok" /\ Become(v, "none")
    /\ IF watching # {} \/ \E w \in Viewer \ {v} : call[w] # "none"
         THEN UNCHANGED looking ELSE AskRemoval
    /\ UNCHANGED <<mediaVars, lock, watching, removing, removal, leaseVars, faultVars>>

(* A session ends; the last one leaves the path to be removed. *)
Leave(v) ==
    /\ v \in watching /\ watching' = watching \ {v}
    /\ IF watching' # {} THEN UNCHANGED looking ELSE AskRemoval
    /\ UNCHANGED <<mediaVars, lock, call, removing, removal, leaseVars, faultVars>>

(***************************************************************************)
(* Analytics.                                                              *)
(***************************************************************************)

Poll ==
    /\ call[Analytics] = "none" /\ Become(Analytics, "queued")
    /\ UNCHANGED <<mediaVars, lock, watching, removalVars, leaseVars, faultVars>>

(* markAnalyticsConsumer, whether the path was published or not. *)
Acquire ==
    /\ call[Analytics] \in {"ok", "failed"} /\ Become(Analytics, "none")
    /\ consumer' = "live"
    /\ UNCHANGED <<mediaVars, lock, watching, removalVars, pruning, faultVars>>

LeaseExpires ==
    /\ consumer = "live" /\ consumer' = "expired"
    /\ UNCHANGED <<mediaVars, lock, call, watching, removalVars, pruning, faultVars>>

(* list() for the metrics: reads, then deletes what it read expired, also  *)
(* a lease acquired meanwhile.                                             *)
ListConsumers ==
    /\ ~pruning /\ consumer = "expired" /\ pruning' = TRUE
    /\ UNCHANGED <<mediaVars, lock, call, watching, removalVars, consumer, faultVars>>

PruneListed ==
    /\ pruning /\ pruning' = FALSE /\ consumer' = "none"
    /\ UNCHANGED <<mediaVars, lock, call, watching, removalVars, faultVars>>

(***************************************************************************)
(* The worker publishes what MediaMTX does not list.                       *)
(***************************************************************************)

ListPaths ==
    /\ call[Worker] = "none" /\ ~configured /\ Become(Worker, "missing")
    /\ UNCHANGED <<mediaVars, lock, watching, removalVars, leaseVars, faultVars>>

SlipRepublish ==
    /\ call[Worker] = "missing" /\ Become(Worker, "queued")
    /\ UNCHANGED <<mediaVars, lock, watching, removalVars, leaseVars, faultVars>>

Republish ==
    /\ call[Worker] = "missing" /\ registered' = FALSE /\ Become(Worker, "queued")
    /\ UNCHANGED <<configured, lock, watching, removalVars, leaseVars, faultVars>>

EndPass ==
    /\ call[Worker] \in {"ok", "failed"} /\ Become(Worker, "none")
    /\ UNCHANGED <<mediaVars, lock, watching, removalVars, leaseVars, faultVars>>

(***************************************************************************)
(* MediaMTX.                                                               *)
(***************************************************************************)

MediaMTXRestarts ==
    /\ Trouble /\ lost' = TRUE /\ configured' = FALSE
    /\ UNCHANGED <<registered, lock, call, watching, removalVars, leaseVars, late>>

LateDelete ==
    /\ late /\ late' = FALSE /\ configured' = FALSE
    /\ UNCHANGED <<registered, lock, call, watching, removalVars, leaseVars, troubles, lost>>

Next ==
    \/ \E p \in Publisher : Publish(p) \/ Post(p) \/ Patch(p) \/ Add(p) \/ PublishFails(p)
    \/ LookUpCamera \/ CountConsumers \/ PruneCounted \/ Decide \/ Delete \/ DeleteFails
    \/ \E v \in Viewer : Start(v) \/ Register(v) \/ StartFails(v) \/ Cancel(v) \/ Leave(v)
    \/ Poll \/ Acquire \/ LeaseExpires \/ ListConsumers \/ PruneListed
    \/ ListPaths \/ Republish \/ EndPass
    \/ MediaMTXRestarts \/ LateDelete

Spec == Init /\ [][Next]_vars

(***************************************************************************)
(* The calls to MediaMTX and Redis return (they have timeouts), the lock   *)
(* is first come, first served, and the pass of the worker is periodic.    *)
(* Viewers, analytics and faults need not act.                             *)
(***************************************************************************)
HolderStep ==
    \/ \E p \in Publisher : Post(p) \/ Patch(p) \/ Add(p) \/ PublishFails(p)
    \/ PruneCounted \/ Decide \/ Delete \/ DeleteFails
WorkerStep == ListPaths \/ Republish \/ Publish(Worker) \/ EndPass

(***************************************************************************)
(* Properties.                                                             *)
(***************************************************************************)

(* The state is well typed, and the lock is held exactly by who is in the  *)
(* middle of a call to MediaMTX or of a removal.                           *)
TypeOK ==
    /\ {configured, registered, pruning, late, lost} \subseteq BOOLEAN
    /\ call \in [Publisher -> {"none", "missing", "queued", "posting", "patching", "adding",
                               "ok", "failed"}]
    /\ {looking, removing} \subseteq 0..MaxRemovals
    /\ removal \in {"none", "pruning", "counted", "deleting"}
    /\ (removal # "none") <=> (lock = Removal)
    /\ consumer \in {"none", "live", "expired"} /\ watching \subseteq Viewer
    /\ troubles \in 0..MaxTroubles
    /\ {p \in Publisher : call[p] \in {"posting", "patching", "adding"}} = {lock} \ {Nobody, Removal}

(* Removals and publications of a path never cross: as long as MediaMTX    *)
(* lost nothing by itself, whoever watches has a path that exists ("el     *)
(* espectador quedaba apuntando a un path inexistente").                   *)
WatchedPathExists == (watching # {} /\ ~lost) => configured

(* Whatever took the path away, a restart of MediaMTX or a late DELETE,    *)
(* who keeps watching gets it back (the worker's pass).                    *)
WatchedPathComesBack == (watching # {} /\ ~configured) ~> (configured \/ watching = {})

=============================================================================
