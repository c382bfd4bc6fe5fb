-------------------------- MODULE MCSourceLifecycle --------------------------
(* One path and two passes that overlap: passes meet at a path, and paths at *)
(* nothing but the counter, which the proofs cover for any number of them.   *)
EXTENDS SourceLifecycle
============================================================================
