----------------------------- MODULE MCComponents -----------------------------
(***************************************************************************)
(* Components on small instances: one media path with two passes that      *)
(* overlap (passes meet at a path, and paths at nothing but the counter,   *)
(* which the proofs cover for any number of them); three tabs in two       *)
(* browsers; two calls of the AI pipeline over two cameras; two viewers.   *)
(***************************************************************************)
EXTENDS Components

CONSTANTS a1, a2, b1   \* the tabs

MCTab == {a1, a2, b1}

(* The last tab has a browser of its own. *)
MCBrowserOf == [t \in MCTab |-> IF t = b1 THEN "b" ELSE "a"]

=============================================================================
