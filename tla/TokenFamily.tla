----------------------------- MODULE TokenFamily -----------------------------
(***************************************************************************)
(* What a user's sessions come to, seen from their refresh tokens: a token *)
(* is good from its issue until it is exchanged or its session ends, and   *)
(* never again; who exchanges one holds a good one, and gets one for it.   *)
(* Nothing else hands out tokens but a login.                              *)
(* Source: apps/api/src/routes/auth.ts (issueTokens, refresh)              *)
(***************************************************************************)
CONSTANTS
    Token,   \* the tokens
    None     \* the origin of a token that a login issued

VARIABLES
    good,    \* tokens that can be exchanged
    origin   \* token that was issued -> the token it was exchanged for, or None

Init == good = {} /\ origin = [t \in {} |-> None]

Issue(t, old) ==
    /\ t \in Token \ DOMAIN origin
    /\ origin' = [u \in DOMAIN origin \cup {t} |-> IF u = t THEN old ELSE origin[u]]

Login(t) == Issue(t, None) /\ good' = good \cup {t}

Exchange(old, t) == old \in good /\ Issue(t, old) /\ good' = (good \ {old}) \cup {t}

(* Sessions end: pruned, expired, revoked one by one or all at once.       *)
End(ended) == good' = good \ ended /\ UNCHANGED origin

Next ==
    \/ \E t \in Token : Login(t) \/ \E old \in good : Exchange(old, t)
    \/ \E ended \in SUBSET good : End(ended)

Spec == Init /\ [][Next]_<<good, origin>>

=============================================================================
