------------------------ MODULE MCPlaybackAdmission ------------------------
(* A small instance of PlaybackAdmission: two views, one of them with      *)
(* enough sessions for a stream, its successor and a rival successor.      *)
(* Sessions of one view are interchangeable.                               *)
EXTENDS PlaybackAdmission

CONSTANTS a1, a2, a3, b1

MCSession == {a1, a2, a3, b1}
MCViewOf == [s \in MCSession |-> IF s = b1 THEN "b" ELSE "a"]
MCSymmetry == Permutations({a1, a2, a3})
============================================================================
