-------------------------- MODULE ViewportSessions --------------------------
(***************************************************************************)
(* The sessions of a camera in one browser tab: LiveViewPage, with its     *)
(* controller of sessions (apps/web/src/lib/viewportSessionController.ts), *)
(* against what the API keeps for that tab (services/stream-manager.ts).   *)
(* All starts of the camera land on one slot of the server, main_h264: the *)
(* server redirects them, as it does for a sub stream in HEVC.  A slot is  *)
(* held by the leases of the starts that share it (startAttemptIds).       *)
(*                                                                         *)
(* What the server does between awaits with a start, the process and its   *)
(* retention is LiveTranscode's subject: here it serves a request at once. *)
(* The two modules are extended together, hence TabInit, TabNext and so on.*)
(***************************************************************************)
EXTENDS Naturals, Sequences, SequencesExt, FiniteSets, FiniteSetsExt

CONSTANTS
    MaxStarts,   \* bound: starts of the tab
    MaxMinted,   \* bound: leases that a heartbeat's reconciliation creates (srv-*)
    MaxMoves,    \* bound: changes of viewport
    MaxCloses,   \* bound: closes of the slot that the user or the player asks for
    MaxFaults    \* bound: requests and answers that are lost

ASSUME TabAssumption == {MaxStarts, MaxMinted, MaxMoves, MaxFaults} \subseteq Nat

VARIABLES
    page,       \* the viewport: its token, stage, and what is scheduled in it
    start,      \* start of the tab -> its request
    beat,       \* the heartbeat under way
    registry,   \* createSessionRegistry: the leases the tab has noted
    pending,    \* createPendingCloseQueue: lease -> strength of the close to repeat
    confirmed,  \* closeConfirmed: lease -> strength of the close that was confirmed
    kept,       \* retained: leases whose process the server said it keeps
    loops,      \* closes one after the other: of a slot, of a late answer, retries
    batches,    \* closeTrackedSessions of each transition
    deletes,    \* closeInFlight: DELETEs under way
    armed,      \* closeRetryTimer runs
    leases,     \* server: startAttemptIds of the session; no session when empty
    retention,  \* server: leases of the process kept alive without a session
    minted,     \* server: srv-* leases so far
    closes,     \* closes of the slot so far
    unheard,    \* history: leases the tab was never told of
    ended,      \* history: leases that ended without a close, or were never given
    faults      \* messages lost so far

server == <<leases, retention, minted>>
closing == <<registry, pending, confirmed, kept, loops, batches, deletes, armed>>
history == <<closes, unheard, ended, faults>>
tabVars == <<page, start, beat, closing, server, history>>

Start == 1..MaxStarts
Lease == 1..(MaxStarts + MaxMinted)
Strength == {"none", "weak", "strong"}
Closing == [lease : Lease, strength : {"weak", "strong"}]
Outcome == {"unserved", "closed", "kept", "pending", "released", "absent", "unregistered", "failed"}

NoBeat == [phase |-> "idle", ids |-> {}]

TabInit ==
    /\ page = [token |-> 0, stage |-> "settled", shown |-> TRUE,
               due |-> TRUE, starting |-> FALSE]
    /\ start = [a \in Start |-> [phase |-> "none", token |-> 0]]
    /\ beat = NoBeat
    /\ registry = {} /\ kept = {}
    /\ pending = [a \in Lease |-> "none"] /\ confirmed = [a \in Lease |-> "none"]
    /\ loops = {} /\ batches = {} /\ deletes = {} /\ armed = FALSE
    /\ leases = {} /\ retention = {} /\ minted = 0
    /\ unheard = {} /\ ended = {} /\ closes = 0 /\ faults = 0

Queued == {a \in Lease : pending[a] # "none"}

(* razonMasFuerte *)
Stronger(s, t) == IF "strong" \in {s, t} THEN "strong" ELSE IF s = "none" THEN t ELSE s

(***************************************************************************)
(* The coordinator of closes (closeCoord).                                 *)
(***************************************************************************)

(* A lease whose close was confirmed as strongly gets no other DELETE.     *)
Satisfied(done, c) == done[c.lease] = "strong" \/ done[c.lease] = c.strength

(* What is left of a list of closes, from the first that needs a DELETE.   *)
Left(done, list) ==
    LET open == {i \in DOMAIN list : ~Satisfied(done, list[i])}
    IN IF open = {} THEN <<>> ELSE SubSeq(list, Min(open), Len(list))

Skipped(done, list) ==
    {list[i].lease : i \in 1..(Len(list) - Len(Left(done, list)))}

(* Closes of the same lease and strength share their DELETE.               *)
Emit(flying, wanted) ==
    flying \cup {[lease |-> c.lease, strength |-> c.strength, outcome |-> "unserved"] :
                   c \in {c \in wanted : \A d \in flying :
                            d.lease # c.lease \/ d.strength # c.strength}}

Heads(work) == {Head(l.list) : l \in work}

(* A mutant: whatever the answer, the close counts as done. *)
SlipConfirms(outcome) == outcome # "unserved"

(* cierreConfirmado: "unregistered" (attempt_not_registered) says that the *)
(* slot has a session without this lease, "pending" (retention_pending)    *)
(* that the process lives on: they confirm nothing.                        *)
Confirms(outcome) == outcome \in {"closed", "kept", "released", "absent"}

(* closeOneSession, closeStaleStart, closeExactAttempt and retryPendingCloses *)
(* all begin this way.  What is confirmed already costs no request.        *)
OpenLoops(new, flying) ==
    LET begun == {[l EXCEPT !.list = Left(confirmed, l.list)] : l \in new}
        running == {l \in begun : l.list # <<>>}
        skipped == UNION {Skipped(confirmed, l.list) : l \in new}
    IN /\ loops' = loops \cup running
       /\ registry' = registry \ skipped
       /\ pending' = [a \in Lease |-> IF a \in skipped THEN "none" ELSE pending[a]]
       /\ deletes' = Emit(flying, Heads(running))

Closes(set, s) == SetToSeq({[lease |-> a, strength |-> s] : a \in set})

RetryLoop ==
    IF Queued = {} \/ \E l \in loops : l.kind = "retry" THEN {}
    ELSE {[kind |-> "retry",
           list |-> SetToSeq({[lease |-> a, strength |-> pending[a]] : a \in Queued})]}

(* A mutant: the queue is looked at before the failures are in it.         *)
SlipArmEarly == armed' = (armed \/ Queued # {})

(* The timer is set when the closes have settled (trasCierre): by then the *)
(* queue holds what was not confirmed.                                     *)
EnsureCloseRetryLoop == armed' = (armed \/ Queued' # {})

(***************************************************************************)
(* A DELETE is answered: the coordinator notes what the answer says, and   *)
(* everybody who waits for it goes on.                                     *)
(***************************************************************************)

Acknowledge(d) ==
    LET a == d.lease
        close == [lease |-> a, strength |-> d.strength]
        ok == Confirms(d.outcome)
        done == IF ok THEN [confirmed EXCEPT ![a] = Stronger(@, d.strength)] ELSE confirmed
        mine == {l \in loops : Head(l.list) = close}
        moved == {[l EXCEPT !.list = Left(done, Tail(l.list))] : l \in mine}
        going == {l \in moved : l.list # <<>>}
        over == {l \in moved : l.list = <<>>}
        settled == (IF ok /\ mine # {} THEN {a} ELSE {})
                     \cup UNION {Skipped(done, Tail(l.list)) : l \in mine}
    IN /\ confirmed' = done
       /\ kept' = IF d.outcome \in {"kept", "pending"} THEN kept \cup {a}
                  ELSE IF ok /\ d.strength = "strong" THEN kept \ {a} ELSE kept
       /\ registry' = registry \ settled
       /\ pending' = [b \in Lease |->
                        IF b \in settled THEN "none"
                        ELSE IF b = a /\ ~ok /\ mine # {} THEN Stronger(pending[b], d.strength)
                        ELSE pending[b]]
       /\ loops' = (loops \ mine) \cup going
       /\ batches' = {IF d.strength = "strong" /\ a \in b.waits
                      THEN [b EXCEPT !.waits = @ \ {a},
                                     !.done = IF ok THEN @ \cup {a} ELSE @,
                                     !.failed = IF ok THEN @ ELSE @ \cup {a}]
                      ELSE b : b \in batches}
       /\ deletes' = Emit(deletes \ {d}, Heads(going))
       /\ IF \E l \in over : l.kind # "retry" THEN EnsureCloseRetryLoop ELSE UNCHANGED armed

CloseAnswered ==
    /\ \E d \in deletes : d.outcome # "unserved" /\ Acknowledge(d)
    /\ UNCHANGED <<page, start, beat, server, history>>

(* The interval fires: with an empty queue it stops, otherwise the queue   *)
(* is sent, unless a retry is under way (retryEnCurso).                    *)
RetryTick ==
    /\ armed
    /\ \/ Queued = {} /\ armed' = FALSE /\ UNCHANGED <<loops, registry, pending, deletes>>
       \/ RetryLoop # {} /\ OpenLoops(RetryLoop, deletes) /\ UNCHANGED armed
    /\ UNCHANGED <<page, start, beat, confirmed, kept, batches, server, history>>

(***************************************************************************)
(* Changes of viewport (createViewportTransition, stopAllSessions).        *)
(***************************************************************************)

(* begin, and closeTracked for the cameras that the registry knows: their  *)
(* entries at once, and what was retained for them one by one.             *)
Move ==
    /\ page.token < MaxMoves
    /\ page' = [page EXCEPT !.token = @ + 1, !.stage = "closing", !.due = FALSE]
    /\ beat' = NoBeat
    /\ LET asked == {a \in registry : confirmed[a] # "strong"}
           orphans == IF registry = {} THEN {} ELSE kept
       IN /\ batches' = batches \cup {[token |-> page'.token, waits |-> asked,
                                       done |-> registry \ asked, failed |-> {}]}
          /\ OpenLoops({[kind |-> "exact", list |-> Closes({a}, "strong")] : a \in orphans},
                       Emit(deletes, Range(Closes(asked, "strong"))))
    /\ UNCHANGED <<start, confirmed, kept, armed, server, history>>

(* closeTrackedSessions has all its answers.  The transition that began    *)
(* last goes on to commit; an earlier one was superseded.                  *)
Closed ==
    /\ \E b \in batches :
         /\ b.waits = {}
         /\ batches' = batches \ {b}
         /\ registry' = registry \ b.done
         /\ pending' = [a \in Lease |-> IF a \in b.done THEN "none"
                                        ELSE IF a \in b.failed THEN "strong" ELSE pending[a]]
         /\ page' = [page EXCEPT
                       !.starting = @ /\ b.done \cup b.failed = {},
                       !.stage = IF b.token = page.token THEN "publishing" ELSE @]
    /\ EnsureCloseRetryLoop
    /\ UNCHANGED <<start, beat, confirmed, kept, loops, deletes, server, history>>

(* React has published the viewport.  If the cameras changed, those that   *)
(* are shown get a start; if not, the heartbeat brings them back.          *)
ViewportPublished ==
    /\ page.stage = "publishing"
    /\ \E shown \in BOOLEAN : \E due \in {FALSE, shown} :
         page' = [page EXCEPT !.stage = "settled", !.shown = shown, !.due = @ \/ due]
    /\ UNCHANGED <<start, beat, closing, server, history>>

(***************************************************************************)
(* Starts (loadStream, scheduleDeferredStart, runViewportRequest).         *)
(***************************************************************************)

(* A scheduled start fires, unless one is under way (pendingStarts).  Its  *)
(* token is the current one: Move cancelled what was scheduled before.     *)
Fire ==
    /\ page.due
    /\ IF page.starting
       THEN /\ page' = [page EXCEPT !.due = FALSE]
            /\ UNCHANGED start
       ELSE \E a \in Start :
              /\ start[a].phase = "none" /\ \A b \in 1..(a - 1) : start[b].phase # "none"
              /\ page' = [page EXCEPT !.due = FALSE, !.starting = TRUE]
              /\ start' = [start EXCEPT ![a].phase = "sent", ![a].token = page.token]
    /\ UNCHANGED <<beat, closing, server, history>>

(* The answer is applied, or its session closed if the viewport has moved. *)
Applied(a) ==
    /\ start[a].phase \in {"created", "refused"}
    /\ start' = [start EXCEPT ![a].phase = "done"]
    /\ page' = [page EXCEPT !.starting = FALSE]
    /\ IF start[a].phase = "created" /\ start[a].token = page.token
       THEN /\ registry' = registry \cup {a}
            /\ UNCHANGED <<pending, loops, deletes>>
       ELSE OpenLoops(IF start[a].phase = "refused" THEN {}
                      ELSE {[kind |-> "stale", list |-> Closes({a}, "strong")]}, deletes)
    /\ UNCHANGED <<beat, confirmed, kept, batches, armed, server, history>>

(* A close of the slot that the user or the player asks for: a retry, a    *)
(* restart or a fatal error (weak), the end of the focus (strong).  Most   *)
(* of them schedule a new start of the camera.                             *)
CloseSlot(s, again) ==
    /\ page.shown /\ closes < MaxCloses
    /\ registry # {} \/ page.starting
    /\ closes' = closes + 1
    /\ page' = [page EXCEPT !.starting = @ /\ ~again, !.due = @ \/ again]
    /\ OpenLoops(IF registry = {} THEN {} ELSE {[kind |-> "slot", list |-> Closes(registry, s)]},
                 deletes)
    /\ UNCHANGED <<start, beat, confirmed, kept, batches, armed, server, unheard, ended, faults>>

(***************************************************************************)
(* Heartbeats (createHeartbeatScheduler, reconcileView).                   *)
(***************************************************************************)

Beat ==
    /\ beat.phase = "idle" /\ page.stage = "settled" /\ page.shown
    /\ beat' = [beat EXCEPT !.phase = "sent"]
    /\ UNCHANGED <<page, start, closing, server, history>>

(* The camera is shown: its session is touched, or one begins with a lease *)
(* of the server's own; the process that was kept is taken over.           *)
Reconcile ==
    IF leases # {} \/ minted = MaxMinted
    THEN UNCHANGED <<server, unheard>>
    ELSE LET new == MaxStarts + minted + 1
         IN /\ minted' = minted + 1
            /\ leases' = {new} /\ retention' = {}
            /\ unheard' = unheard \cup {new}

ServeBeat ==
    /\ beat.phase = "sent"
    /\ Reconcile
    /\ beat' = [phase |-> "answered", ids |-> leases']
    /\ UNCHANGED <<page, start, closing, closes, ended, faults>>

(* registerHeartbeatIdentities, and a retry of what is still to be closed. *)
BeatAnswered ==
    /\ beat.phase = "answered"
    /\ beat' = NoBeat
    /\ unheard' = unheard \ beat.ids
    /\ LET retries == RetryLoop
       IN /\ loops' = loops \cup {l \in {[r EXCEPT !.list = Left(confirmed, r.list)] : r \in retries} :
                                    l.list # <<>>}
          /\ LET skipped == UNION {Skipped(confirmed, r.list) : r \in retries}
             IN /\ registry' = (registry \cup beat.ids) \ skipped
                /\ pending' = [a \in Lease |-> IF a \in skipped THEN "none" ELSE pending[a]]
          /\ deletes' = Emit(deletes, Heads(loops' \ loops))
    /\ UNCHANGED <<page, start, confirmed, kept, batches, armed, server, closes, ended, faults>>

(***************************************************************************)
(* The server.                                                             *)
(***************************************************************************)

(* startStream, as far as the tab can tell: it works, or it fails, or it   *)
(* was cancelled by a close that came in after it (LiveTranscode).  One    *)
(* that works gives the session its lease (addStartAttempt), replaces a    *)
(* session of an older request (registerSessionMonotonic), or has waited   *)
(* for another start and only touches the session that it finds then.      *)
Holders(a) == {leases \cup {a}, {a}} \cup (IF leases = {} THEN {} ELSE {leases})

ServeStart(a, works) ==
    /\ start[a].phase \in {"sent", "deaf"}
    /\ start' = [start EXCEPT ![a].phase = IF @ = "deaf" THEN "done"
                                           ELSE IF works THEN "created" ELSE "refused"]
    /\ IF works THEN leases' \in Holders(a) /\ retention' = {}
                ELSE UNCHANGED <<leases, retention>>
    /\ ended' = IF works THEN ended \cup ((leases \cup {a}) \ leases') ELSE ended
    /\ unheard' = IF a \in leases' /\ start[a].phase = "deaf" THEN unheard \cup {a} ELSE unheard
    /\ UNCHANGED <<page, beat, closing, minted, closes, faults>>

(* decideAttemptRelease, and the escalation of a process that was kept.    *)
(* The last lease ends the session; a weak close then keeps the process if *)
(* it lives, a strong one ends it, unless it does not take the signal or   *)
(* another start has it (retention_pending).                               *)
CloseOutcomes(d) ==
    IF leases = {}
    THEN IF d.strength = "strong" /\ d.lease \in retention THEN {"closed", "pending"} ELSE {"absent"}
    ELSE IF d.lease \notin leases THEN {"unregistered"}
    ELSE IF leases # {d.lease} THEN {"released"}
    ELSE {"closed", IF d.strength = "weak" THEN "kept" ELSE "pending"}

ServeClose(d) ==
    /\ d.outcome = "unserved"
    /\ \E outcome \in CloseOutcomes(d) :
          /\ leases' = leases \ {d.lease}
          /\ retention' = IF outcome \in {"kept", "pending"} THEN retention \cup {d.lease}
                          ELSE IF outcome = "closed" THEN {} ELSE retention
          /\ deletes' = (deletes \ {d}) \cup {[d EXCEPT !.outcome = outcome]}
    /\ UNCHANGED <<page, start, beat, registry, pending, confirmed, kept, loops, batches, armed, minted, history>>

(* Nobody touches the session any more; or the retention is old.          *)
SessionExpires ==
    /\ \/ /\ ~page.shown /\ leases # {}
          /\ leases' = {} /\ ended' = ended \cup leases
          /\ UNCHANGED retention
       \/ /\ retention # {} /\ retention' = {}
          /\ UNCHANGED <<leases, ended>>
    /\ UNCHANGED <<page, start, beat, closing, minted, closes, unheard, faults>>

(***************************************************************************)
(* The network.  A lost answer is an error to the tab, like HTTP 5xx.      *)
(***************************************************************************)

LoseStart(a) ==
    /\ start[a].phase \in {"sent", "created"}
    /\ start' = [start EXCEPT ![a].phase = IF @ = "sent" THEN "deaf" ELSE "done"]
    /\ page' = [page EXCEPT !.starting = FALSE]
    /\ unheard' = IF start[a].phase = "created" /\ a \in leases THEN unheard \cup {a} ELSE unheard
    /\ UNCHANGED <<beat, closing, server, closes, ended>>

LoseClose ==
    /\ \E d \in deletes :
         /\ d.outcome # "failed"
         /\ deletes' = (deletes \ {d}) \cup {[d EXCEPT !.outcome = "failed"]}
    /\ UNCHANGED <<page, start, beat, registry, pending, confirmed, kept, loops, batches, armed, server, closes, unheard, ended>>

LoseBeat ==
    /\ beat.phase # "idle"
    /\ beat' = NoBeat
    /\ UNCHANGED <<page, start, closing, server, closes, unheard, ended>>

Lose ==
    /\ faults < MaxFaults
    /\ faults' = faults + 1
    /\ (\E a \in Start : LoseStart(a)) \/ LoseClose \/ LoseBeat

TabNext ==
    \/ CloseAnswered \/ RetryTick
    \/ Move \/ Closed \/ ViewportPublished
    \/ Fire
    \/ \E a \in Start : Applied(a) \/ \E works \in BOOLEAN : ServeStart(a, works)
    \/ \E s \in {"weak", "strong"}, again \in BOOLEAN : CloseSlot(s, again)
    \/ Beat \/ ServeBeat \/ BeatAnswered
    \/ \E d \in deletes : ServeClose(d)
    \/ SessionExpires
    \/ Lose

TabSpec == TabInit /\ [][TabNext]_tabVars

-----------------------------------------------------------------------------
TabTypeOK ==
    /\ page \in [token : 0..MaxMoves, stage : {"settled", "closing", "publishing"},
                 shown : BOOLEAN, due : BOOLEAN, starting : BOOLEAN]
    /\ start \in [Start -> [phase : {"none", "sent", "deaf", "created", "refused", "done"},
                            token : 0..MaxMoves]]
    /\ beat.phase \in {"idle", "sent", "answered"} /\ beat.ids \subseteq Lease
    /\ registry \cup kept \cup leases \cup retention \cup unheard \cup ended \subseteq Lease
    /\ pending \in [Lease -> Strength] /\ confirmed \in [Lease -> Strength]
    /\ \A l \in loops : l.list \in Seq(Closing) /\ l.list # <<>>
    /\ \A b \in batches : b.waits \cup b.done \cup b.failed \subseteq Lease
    /\ deletes \subseteq [lease : Lease, strength : {"weak", "strong"}, outcome : Outcome]
    /\ armed \in BOOLEAN /\ minted \in 0..MaxMinted /\ faults \in 0..MaxFaults

(* The closes the tab is about: it waits for them or has them still to do. *)
InClosing(a) ==
    \/ \E d \in deletes : d.lease = a
    \/ \E l \in loops : \E c \in Range(l.list) : c.lease = a
    \/ \E b \in batches : a \in b.waits \cup b.done \cup b.failed

(* No lease is forgotten: the server holds none that the tab does not have *)
(* in its registry, in its queue or on the way, unless it was never told.  *)
NoLeaseIsForgotten ==
    \A a \in leases :
        \/ a \in registry \cup Queued \cup unheard
        \/ InClosing(a)
        \/ a \in Start /\ start[a].phase = "created"

(* No close takes more than its own: what the tab has noted and nobody     *)
(* closes is leased, unless the server let it expire or replaced it, or    *)
(* answered the start without giving it the lease.                         *)
NobodyElseIsClosed ==
    \A a \in registry :
        \/ a \in leases \cup ended \cup Queued
        \/ InClosing(a)
        \/ confirmed[a] # "none"

(* A close that was to end the process and was confirmed did end it.       *)
StrongCloseEndsTheProcess ==
    \A a \in retention : confirmed[a] # "strong"

(* What the tab believes of the server is so ("Un cierre de A nunca toca B") *)
TabKnowsTheServer == NoLeaseIsForgotten /\ NobodyElseIsClosed /\ StrongCloseEndsTheProcess

(* A close that was not confirmed is repeated: while the server holds the  *)
(* lease there is a timer for it, or a close under way that will set one.  *)
NoCloseIsAbandoned ==
    Queued \cap leases # {} => armed \/ \E l \in loops : l.kind # "retry"

=============================================================================
