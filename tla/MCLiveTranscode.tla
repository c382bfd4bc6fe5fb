--------------------------- MODULE MCLiveTranscode ---------------------------
(***************************************************************************)
(* The live view from its two sides, which the first state chooses between *)
(* (they share no state: each has the other as its world): the camera's    *)
(* FFmpeg in the server with two views, and the sessions that one tab      *)
(* believes it has.                                                        *)
(***************************************************************************)
EXTENDS LiveTranscode, ViewportSessions

VARIABLE side   \* the side that runs

MCInit == side \in {"server", "tab"} /\ Init /\ TabInit

(* Bound: a second transition, a lease of a heartbeat and a lost message   *)
(* meet in pairs, not all three in one behaviour; a process that a close   *)
(* could not end meets the first or the last of them.                      *)
InPairs ==
    /\ page'.token < 2 \/ minted' = 0 \/ faults' = 0
    /\ \A d \in deletes' : d.outcome = "pending" =>
          minted' = 0 /\ (page'.token < 2 \/ faults' = 0)

MCNext ==
    /\ UNCHANGED side
    /\ \/ side = "server" /\ Next /\ UNCHANGED tabVars
       \/ side = "tab" /\ TabNext /\ InPairs /\ UNCHANGED vars

MCSpec == MCInit /\ [][MCNext]_<<side, vars, tabVars>>

(* Views differ in nothing but their name. *)
ViewSymmetry == Permutations(Views)

(* The type invariants of the two sides. *)
MCTypeOK == TypeOK /\ TabTypeOK

=============================================================================
