---------------------------- MODULE CameraHealth -----------------------------
(***************************************************************************)
(* The CAMERA_OFFLINE alert of one camera: the cycle of the health worker  *)
(* (jobs/healthWorker.ts, physical signal), the debounce machine           *)
(* (camera-health-debounce.ts) and the alerts (camera-alerts.ts).  The     *)
(* debounce state is in memory, the alerts are rows of PostgreSQL; a step  *)
(* is one query or one reading.                                            *)
(***************************************************************************)
EXTENDS Naturals

CONSTANTS
    OfflineConfirmChecks,   \* offlineConfirmChecks
    RecoveryConfirmChecks,  \* recoveryConfirmChecks
    MaxAlerts               \* bound: alerts created

(* A confirmation takes a reading at least. *)
Checks ==
    OfflineConfirmChecks \in Nat \ {0} /\ RecoveryConfirmChecks \in Nat \ {0} /\ MaxAlerts \in Nat

VARIABLES
    phase,         \* DebounceState.phase
    offlineStreak, \* capped at OfflineConfirmChecks
    onlineStreak,  \* capped at RecoveryConfirmChecks
    firstFailure,  \* firstFailureAt: "none", "recent", or "old" (offlineConfirmMs ago)
    cycle,         \* what the worker is about to do for the camera
    unresolved,    \* unresolved CAMERA_OFFLINE rows of the camera
    created,       \* alerts created so far
    troubled       \* history: the API restarted or a query failed

vars == <<phase, offlineStreak, onlineStreak, firstFailure, cycle, unresolved, created, troubled>>
debounceVars == <<phase, offlineStreak, onlineStreak, firstFailure>>
alertVars == <<unresolved, created>>

Init ==
    /\ phase = "ONLINE" /\ offlineStreak = 0 /\ onlineStreak = 0 /\ firstFailure = "none"
    /\ cycle = "idle" /\ unresolved = 0 /\ created = 0 /\ troubled = FALSE

Capped(n, cap) == IF n > cap THEN cap ELSE n

(***************************************************************************)
(* A reading of the camera.  UNKNOWN readings change nothing.  Cycles do   *)
(* not overlap (healthCycleRunning).  `muted`: the alert is disabled, or   *)
(* the camera is in maintenance.                                           *)
(***************************************************************************)

Offline(muted) ==
    /\ cycle = "idle"
    /\ offlineStreak' = Capped(offlineStreak + 1, OfflineConfirmChecks)
    /\ onlineStreak' = 0
    /\ firstFailure' = IF firstFailure = "none" THEN "recent" ELSE firstFailure
    /\ LET confirm == /\ phase # "OFFLINE_CONFIRMED"
                      /\ offlineStreak' = OfflineConfirmChecks \/ firstFailure = "old"
       IN /\ phase' = IF confirm THEN "OFFLINE_CONFIRMED"
                      ELSE IF phase = "ONLINE" THEN "OFFLINE_PENDING" ELSE phase
          /\ cycle' = IF confirm /\ ~muted THEN "raise" ELSE "idle"
    /\ UNCHANGED <<alertVars, troubled>>

SlipOnline ==
    /\ cycle = "idle"
    /\ offlineStreak' = 0 /\ onlineStreak' = Capped(onlineStreak + 1, RecoveryConfirmChecks)
    /\ IF phase = "ONLINE" \/ onlineStreak' = RecoveryConfirmChecks
         THEN phase' = "ONLINE" /\ firstFailure' = "none"
         ELSE UNCHANGED <<phase, firstFailure>>
    /\ cycle' = IF phase' = "OFFLINE_CONFIRMED" /\ onlineStreak' = RecoveryConfirmChecks
                  THEN "recover" ELSE "idle"
    /\ UNCHANGED <<alertVars, troubled>>

Online ==
    /\ cycle = "idle"
    /\ offlineStreak' = 0 /\ onlineStreak' = Capped(onlineStreak + 1, RecoveryConfirmChecks)
    /\ IF phase = "ONLINE" \/ onlineStreak' = RecoveryConfirmChecks
         THEN phase' = "ONLINE" /\ firstFailure' = "none"
         ELSE UNCHANGED <<phase, firstFailure>>
    /\ cycle' = IF phase = "OFFLINE_CONFIRMED" /\ phase' = "ONLINE" THEN "recover" ELSE "idle"
    /\ UNCHANGED <<alertVars, troubled>>

ConfirmTimePasses ==
    /\ firstFailure = "recent" /\ firstFailure' = "old"
    /\ UNCHANGED <<phase, offlineStreak, onlineStreak, cycle, alertVars, troubled>>

(***************************************************************************)
(* raiseCameraAlert and recoverCameraAlert, query by query.                *)
(***************************************************************************)

SlipRaise ==
    /\ cycle = "raise" /\ cycle' = "create"
    /\ UNCHANGED <<debounceVars, alertVars, troubled>>

Raise ==
    /\ cycle = "raise"
    /\ cycle' = IF unresolved > 0 THEN "idle" ELSE "create"
    /\ UNCHANGED <<debounceVars, alertVars, troubled>>

Create ==
    /\ cycle = "create" /\ created < MaxAlerts
    /\ created' = created + 1 /\ unresolved' = unresolved + 1
    /\ cycle' = "idle"
    /\ UNCHANGED <<debounceVars, troubled>>

Recover ==
    /\ cycle = "recover"
    /\ cycle' = IF unresolved = 0 THEN "idle" ELSE "resolve"
    /\ UNCHANGED <<debounceVars, alertVars, troubled>>

Resolve ==
    /\ cycle = "resolve" /\ unresolved' = 0
    /\ cycle' = "idle"
    /\ UNCHANGED <<debounceVars, created, troubled>>

(***************************************************************************)
(* Users and failures.                                                     *)
(***************************************************************************)

(* Somebody resolves the alert by hand. *)
UserResolves ==
    /\ unresolved > 0 /\ unresolved' = unresolved - 1
    /\ UNCHANGED <<debounceVars, cycle, created, troubled>>

(* A query throws: the rest of the recorder's cameras wait for the next    *)
(* cycle, and what the debounce decided is not done again.                 *)
QueryFails ==
    /\ cycle # "idle" /\ cycle' = "idle" /\ troubled' = TRUE
    /\ UNCHANGED <<debounceVars, alertVars>>

(* The API restarts: the debounce is lost, the alerts are not. *)
Restart ==
    /\ phase' = "ONLINE" /\ offlineStreak' = 0 /\ onlineStreak' = 0 /\ firstFailure' = "none"
    /\ cycle' = "idle" /\ troubled' = TRUE
    /\ UNCHANGED alertVars

Next ==
    \/ \E muted \in BOOLEAN : Offline(muted)
    \/ Online \/ ConfirmTimePasses
    \/ Raise \/ Create \/ Recover \/ Resolve
    \/ UserResolves \/ QueryFails \/ Restart

Spec == Init /\ [][Next]_vars

(***************************************************************************)
(* Properties.                                                             *)
(***************************************************************************)

(* The state is well typed, and a camera in PENDING has a first failure.   *)
TypeOK ==
    /\ phase \in {"ONLINE", "OFFLINE_PENDING", "OFFLINE_CONFIRMED"}
    /\ offlineStreak \in 0..OfflineConfirmChecks /\ onlineStreak \in 0..RecoveryConfirmChecks
    /\ firstFailure \in {"none", "recent", "old"}
    /\ phase # "ONLINE" => firstFailure # "none"
    /\ cycle \in {"idle", "raise", "create", "recover", "resolve"}
    /\ created \in 0..MaxAlerts /\ unresolved \in 0..created /\ troubled \in BOOLEAN

(* A restart, a failed query or a flapping camera never give a camera two  *)
(* alerts at once ("Máximo UNA no resuelta por (cameraId, type)").         *)
OneUnresolvedAlert == unresolved <= 1

(* Unless the API restarted or a query failed, an alert that is open has   *)
(* its outage: the camera is confirmed offline, or the cycle is resolving  *)
(* the alert.  Nobody is left with the alert of a camera that recovered.   *)
AlertsEndWithTheOutage ==
    (unresolved > 0 /\ ~troubled) => phase = "OFFLINE_CONFIRMED" \/ cycle \in {"recover", "resolve"}

=============================================================================
