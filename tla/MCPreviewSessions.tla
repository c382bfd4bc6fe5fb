------------------------- MODULE MCPreviewSessions -------------------------
(* Two sessions that compete for the one place of an NVR. They play in     *)
(* different views: what continuity does to the queue is the admission     *)
(* module's own run.                                                       *)
EXTENDS PreviewSessions, TLC

CONSTANTS s1, s2

MCSession == {s1, s2}
MCViewOf == [s \in MCSession |-> s]
MCSymmetry == Permutations(MCSession)

(* Bound: at most one of the sessions has both a takeover and a wait that  *)
(* ran out.                                                                *)
InTurn == \E s \in MCSession : generation'[s] <= 1 \/ ~overdue'[s]

MCNext == Next /\ InTurn

MCSpec == Init /\ [][MCNext]_vars
============================================================================
