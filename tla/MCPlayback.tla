----------------------------- MODULE MCPlayback ------------------------------
(***************************************************************************)
(* What must happen in the end when recordings are played, in three parts  *)
(* that share no state: the first state chooses one, which then runs alone *)
(* with its fairness.  A preview with its takeovers, alone with its NVR;   *)
(* the admission queue, with a stream, its successor and a session of      *)
(* another view; the MP4 files of one recording that two users ask for     *)
(* (VodGeneration itself).                                                 *)
(***************************************************************************)
EXTENDS VodGeneration

CONSTANTS
    s1,             \* the preview
    a1, a2, b1,     \* sessions of the admission queue
    NoSession

VARIABLES
    part,           \* the part that runs
    configuredLimit, globalDefaultLimit, reducedLimit, cooldown, lease, queue,
    previews, generation, vod, handler, proc, awaited, stuck, overdue,
    setting, default, reduced, cooling, leases, openings

Preview == INSTANCE PreviewSessions WITH
    session <- previews, Session <- {s1}, ViewOf <- [s \in {s1} |-> s], SafeDefault <- 1, Limits <- {0},
    MaxGets <- 3, Attempts <- 2, MayOverrun <- TRUE

Admission == INSTANCE PlaybackAdmission WITH
    Session <- {a1, a2, b1}, ViewOf <- [s \in {a1, a2, b1} |-> IF s = b1 THEN "b" ELSE "a"],
    SafeDefault <- 2, Limits <- {0},
    configuredLimit <- setting, globalDefaultLimit <- default, reducedLimit <- reduced,
    cooldown <- cooling, lease <- leases, queue <- openings

MCInit ==
    /\ part \in {"preview", "admission", "vod"}
    /\ Preview!Init /\ Admission!Init /\ Init
    /\ part # "vod" => cached /\ \A s \in Session : owner[s] = CHOOSE u \in User : TRUE

previewVars ==
    <<configuredLimit, globalDefaultLimit, reducedLimit, cooldown, lease, queue,
      previews, generation, vod, handler, proc, awaited, stuck, overdue>>
queueVars == <<setting, default, reduced, cooling, leases, openings>>

MCNext ==
    /\ UNCHANGED part
    /\ \/ part = "preview" /\ Preview!Next /\ UNCHANGED <<queueVars, vars>>
       \/ part = "admission" /\ Admission!Next /\ UNCHANGED <<previewVars, vars>>
       \/ part = "vod" /\ Next /\ UNCHANGED <<previewVars, queueVars>>

(* The fairness of the parts, for the one that runs.                       *)
MCFairness ==
    /\ WF_previewVars(part = "preview" /\ Preview!Sweep)
    /\ \A g \in Preview!Get : WF_previewVars(part = "preview" /\ Preview!Settled(s1, g))
    /\ WF_queueVars(part = "admission" /\ Admission!Reconcile)
    /\ \A s \in {a1, a2, b1} : WF_queueVars(part = "admission" /\ Admission!ReleaseLease(s))
    /\ \A s \in Session : WF_vars(part = "vod" /\ Owed(s))

MCSpec == MCInit /\ [][MCNext]_<<part, previewVars, queueVars, vars>> /\ MCFairness

(***************************************************************************)
(* The properties of the parts.                                            *)
(***************************************************************************)

(* A closed preview gives its lease back, over any process that lingers. *)
ClosedSessionReleases == Preview!ClosedSessionReleases

(* Every GET that waits to take a stream over is answered or served. *)
TakeoverAnswered == Preview!TakeoverAnswered

(* A view that renews its playback is served in the end. *)
ContinuityServed == Admission!ContinuityServed

=============================================================================
