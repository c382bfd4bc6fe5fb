--------------------------- MODULE RefreshRotation ---------------------------
(***************************************************************************)
(* The refresh tokens of one user (routes/auth.ts: completeLogin, refresh, *)
(* logout and the revocations of sessions), with the browsers that present *)
(* them (apps/web/src/lib/api.ts).  The tabs of a browser share one cookie *)
(* jar; each tab has one call at a time (its refresh mutex), so a tab's    *)
(* call is part of the state.  A step is one query or transaction of       *)
(* PostgreSQL with the code up to the next await.                          *)
(*                                                                         *)
(* Tokens are numbered in the order in which rows of sessions take them.   *)
(***************************************************************************)
EXTENDS Naturals, FiniteSets

CONSTANTS
    Browser,      \* cookie jars
    Tab,          \* the tabs
    BrowserOf,    \* the browser of each tab
    MaxTokens,    \* bound: tokens issued
    MaxSessions   \* the setting maxSessions

Tabs == BrowserOf \in [Tab -> Browser] /\ MaxTokens \in Nat /\ MaxSessions \in Nat

VARIABLES
    sessions,   \* rows of sessions: id (the first token), current token
    used,       \* used_refresh_tokens: token -> whether its grace is over
    jar,        \* the refresh cookie of each browser, 0 without one
    call,       \* the call of each tab
    issued,     \* tokens issued so far
    parent,     \* history: the token a token was exchanged for, 0 by a login
    revoked,    \* history: tokens issued when the family was last revoked
    disturbed   \* history: an answer was lost, or a call was under way for
                \* longer than the grace

vars == <<sessions, used, jar, call, issued, parent, revoked, disturbed>>

Token == 1..MaxTokens
Phases == {"idle", "sent", "rotating", "checking", "revoking", "pruning", "answered"}
Call == [phase : Phases, token : 0..MaxTokens, late : BOOLEAN, new : 0..MaxTokens,
         clear : BOOLEAN]
Idle == [phase |-> "idle", token |-> 0, late |-> FALSE, new |-> 0, clear |-> FALSE]

Init ==
    /\ sessions = {} /\ used = [t \in {} |-> FALSE]
    /\ jar = [b \in Browser |-> 0] /\ call = [t \in Tab |-> Idle]
    /\ issued = 0 /\ parent = [t \in {} |-> 0] /\ revoked = 0 /\ disturbed = FALSE

Set(t, c) == call' = [call EXCEPT ![t] = c]
Answered(t, new, clear) ==
    Set(t, [Idle EXCEPT !.phase = "answered", !.new = new, !.clear = clear])

(* A new token, exchanged for `old`. *)
Issue(old) ==
    /\ issued < MaxTokens /\ issued' = issued + 1
    /\ parent' = [t \in 1..issued' |-> IF t = issued' THEN old ELSE parent[t]]

(***************************************************************************)
(* Login.                                                                  *)
(***************************************************************************)

Login(t) ==
    /\ call[t].phase = "idle" /\ Issue(0)
    /\ sessions' = sessions \cup {[id |-> issued', token |-> issued']}
    /\ Set(t, [Idle EXCEPT !.phase = "pruning", !.new = issued'])
    /\ UNCHANGED <<used, jar, revoked, disturbed>>

(* sessionsToPrune: the oldest by use beyond the limit, which is 1 at      *)
(* least.                                                                  *)
Oldest(gone) ==
    LET limit == IF MaxSessions = 0 THEN 1 ELSE MaxSessions
        many == Cardinality(sessions)
    IN /\ Cardinality(gone) = IF many > limit THEN many - limit ELSE 0
       /\ \A g \in gone, s \in sessions \ gone : g.token < s.token

Prune(t) ==
    /\ call[t].phase = "pruning"
    /\ \E gone \in SUBSET sessions : Oldest(gone) /\ sessions' = sessions \ gone
    /\ Answered(t, call[t].new, FALSE)
    /\ UNCHANGED <<used, jar, issued, parent, revoked, disturbed>>

(***************************************************************************)
(* Refresh.                                                                *)
(***************************************************************************)

SendRefresh(t) ==
    /\ call[t].phase = "idle" /\ jar[BrowserOf[t]] # 0
    /\ Set(t, [Idle EXCEPT !.phase = "sent", !.token = jar[BrowserOf[t]]])
    /\ UNCHANGED <<sessions, used, jar, issued, parent, revoked, disturbed>>

Current(token) == \E s \in sessions : s.token = token
OldReuse(token) == token \in DOMAIN used /\ used[token]

(* The time of the request is taken, and the session looked up. *)
LookUp(t) ==
    /\ call[t].phase = "sent"
    /\ LET c == call[t] IN
       Set(t, [c EXCEPT !.late = OldReuse(c.token),
                        !.phase = IF Current(c.token) THEN "rotating" ELSE "checking"])
    /\ UNCHANGED <<sessions, used, jar, issued, parent, revoked, disturbed>>

(* 401 for a session that is over or a user that is inactive, and 5xx for *)
(* a query that throws: the transaction is rolled back.                    *)
Refuse(t) ==
    /\ call[t].phase \in {"sent", "rotating", "checking", "revoking", "pruning"}
    /\ Answered(t, 0, FALSE)
    /\ UNCHANGED <<sessions, used, jar, issued, parent, revoked, disturbed>>

(* Slip: an upsert, which makes the row anew if another call took it.      *)
SlipRotateUpserts(t) ==
    /\ call[t].phase = "rotating" /\ Issue(call[t].token)
    /\ sessions' = {s \in sessions : s.token # call[t].token}
                     \cup {[id |-> issued', token |-> issued']}
    /\ used' = [u \in DOMAIN used \cup {call[t].token} |->
                  IF u = call[t].token THEN FALSE ELSE used[u]]
    /\ Answered(t, issued', FALSE)
    /\ UNCHANGED <<jar, revoked, disturbed>>

(* Rotation: it succeeds only for who still sees the token as the current. *)
Rotate(t) ==
    /\ call[t].phase = "rotating"
    /\ \E s \in sessions :
          /\ s.token = call[t].token
          /\ Issue(s.token)
          /\ sessions' = (sessions \ {s}) \cup {[s EXCEPT !.token = issued']}
          /\ used' = [u \in DOMAIN used \cup {s.token} |->
                        IF u = s.token THEN FALSE ELSE used[u]]
          /\ Answered(t, issued', FALSE)
    /\ UNCHANGED <<jar, revoked, disturbed>>

RotationLost(t) ==
    /\ call[t].phase = "rotating" /\ ~Current(call[t].token)
    /\ Set(t, [call[t] EXCEPT !.phase = "checking"])
    /\ UNCHANGED <<sessions, used, jar, issued, parent, revoked, disturbed>>

(* A token that is not current: unknown, within its grace or reused. *)
SlipGraceWhenChecked(t) ==
    /\ call[t].phase = "checking"
    /\ IF OldReuse(call[t].token)
         THEN Set(t, [call[t] EXCEPT !.phase = "revoking"])
         ELSE Answered(t, 0, FALSE)
    /\ UNCHANGED <<sessions, used, jar, issued, parent, revoked, disturbed>>

CheckUsed(t) ==
    /\ call[t].phase = "checking"
    /\ IF call[t].token \in DOMAIN used /\ call[t].late
         THEN Set(t, [call[t] EXCEPT !.phase = "revoking"])
         ELSE Answered(t, 0, FALSE)
    /\ UNCHANGED <<sessions, used, jar, issued, parent, revoked, disturbed>>

SlipRevokeOneSession(t) ==
    /\ call[t].phase = "revoking"
    /\ \E s \in SUBSET sessions : Cardinality(s) <= 1 /\ sessions' = sessions \ s
    /\ used' = [u \in {} |-> FALSE]
    /\ revoked' = issued
    /\ Answered(t, 0, FALSE)
    /\ UNCHANGED <<jar, issued, parent, disturbed>>

(* The whole family of sessions goes, and its history. *)
RevokeFamily(t) ==
    /\ call[t].phase = "revoking"
    /\ sessions' = {} /\ used' = [u \in {} |-> FALSE]
    /\ revoked' = issued
    /\ Answered(t, 0, FALSE)
    /\ UNCHANGED <<jar, issued, parent, disturbed>>

(***************************************************************************)
(* Logout and revocation.                                                  *)
(***************************************************************************)

SendLogout(t) ==
    /\ call[t].phase = "idle" /\ jar[BrowserOf[t]] # 0
    /\ Set(t, [Idle EXCEPT !.phase = "sent", !.token = jar[BrowserOf[t]], !.clear = TRUE])
    /\ UNCHANGED <<sessions, used, jar, issued, parent, revoked, disturbed>>

(* The row that has the presented token goes, with the intent to revoke    *)
(* the media grants.                                                       *)
Logout(t) ==
    /\ call[t].phase = "sent" /\ call[t].clear
    /\ sessions' = {s \in sessions : s.token # call[t].token}
    /\ Answered(t, 0, TRUE)
    /\ UNCHANGED <<used, jar, issued, parent, revoked, disturbed>>

(* DELETE /sessions, a session by id, a new password, the expiry: rows go. *)
EndSessions(gone) ==
    /\ gone # {} /\ sessions' = sessions \ gone
    /\ UNCHANGED <<used, jar, call, issued, parent, revoked, disturbed>>

(***************************************************************************)
(* Answers and time.                                                       *)
(***************************************************************************)

(* The answer sets or clears the cookie of the browser. *)
Deliver(t) ==
    /\ call[t].phase = "answered"
    /\ jar' = [jar EXCEPT ![BrowserOf[t]] = IF call[t].clear THEN 0
                                            ELSE IF call[t].new # 0 THEN call[t].new ELSE @]
    /\ Set(t, Idle)
    /\ UNCHANGED <<sessions, used, issued, parent, revoked, disturbed>>

Lose(t) ==
    /\ call[t].phase = "answered"
    /\ Set(t, Idle) /\ disturbed' = (disturbed \/ call[t].new # 0)
    /\ UNCHANGED <<sessions, used, jar, issued, parent, revoked>>

(* REFRESH_REUSE_GRACE_MS pass. *)
GracePasses ==
    /\ \E u \in DOMAIN used : ~used[u]
    /\ used' = [u \in DOMAIN used |-> TRUE]
    /\ disturbed' = (disturbed \/ \E t \in Tab : call[t].phase \in {"sent", "answered"})
    /\ UNCHANGED <<sessions, jar, call, issued, parent, revoked>>

Next ==
    \/ \E t \in Tab :
          \/ Login(t) \/ Prune(t) \/ SendRefresh(t)
          \/ ~call[t].clear /\ LookUp(t)
          \/ Refuse(t) \/ Rotate(t) \/ RotationLost(t) \/ CheckUsed(t) \/ RevokeFamily(t)
          \/ SendLogout(t) \/ Logout(t) \/ Deliver(t) \/ Lose(t)
    \/ \E gone \in SUBSET sessions : EndSessions(gone)
    \/ GracePasses

Spec == Init /\ [][Next]_vars

(***************************************************************************)
(* Properties.                                                             *)
(***************************************************************************)

(* The state is well typed; no two rows have one token (its hash is        *)
(* unique in the table), and no used token is current.                     *)
TypeOK ==
    /\ sessions \subseteq [id : Token, token : Token]
    /\ \A r, s \in sessions : r.id = s.id \/ r.token = s.token => r = s
    /\ DOMAIN used \subseteq Token /\ \A u \in DOMAIN used : used[u] \in BOOLEAN /\ ~Current(u)
    /\ jar \in [Browser -> 0..MaxTokens] /\ call \in [Tab -> Call]
    /\ issued \in 0..MaxTokens /\ revoked \in 0..issued /\ disturbed \in BOOLEAN
    /\ DOMAIN parent = 1..issued /\ \A t \in 1..issued : parent[t] < t

(* However many tabs present a token at once, one exchanges it, once       *)
(* (the compare-and-swap of the rotation).                                 *)
ExchangedOnce ==
    \A s, t \in 1..issued : parent[s] = parent[t] /\ parent[s] # 0 => s = t

(* Tabs that refresh at once are not taken for thieves: unless an answer   *)
(* was lost, or a call was on its way for longer than the grace, nobody is *)
(* about to revoke the family, however slow the server is.                 *)
HonestTabsAreNotThieves ==
    ~disturbed => \A t \in Tab : call[t].phase # "revoking"

(* A reuse ends the family: no session that existed when the family was    *)
(* revoked is left, and none comes back by a rotation under way.           *)
ReuseEndsTheFamily == \A s \in sessions : s.id > revoked

Family == INSTANCE TokenFamily
            WITH good <- {s.token : s \in sessions}, origin <- parent, None <- 0

(* Whatever queries of logins, refreshes, logouts and revocations cross,   *)
(* tokens only begin by a login or in exchange for one that is good, and   *)
(* one that ended is never good again.                                     *)
TokensAreExchanged == Family!Spec

=============================================================================
