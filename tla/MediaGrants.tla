----------------------------- MODULE MediaGrants -----------------------------
(***************************************************************************)
(* Media grants: short-lived permissions to read a media path, issued by   *)
(* the API from a permission in PostgreSQL, kept in Redis, validated for   *)
(* MediaMTX and the relay, and revoked by a user's epoch, which a durable  *)
(* outbox makes sure to increment after every logout and permission change.*)
(* Source: apps/api/src/services/media/media-grants.ts, grant-store.ts,    *)
(*         grant-service.ts, revoke-outbox.ts, grant-derivation.ts,        *)
(*         apps/api/src/routes/mediaGrants.ts, mediamtxAuth.ts             *)
(*                                                                         *)
(* PostgreSQL, Redis and the API meet at every await: an action is one     *)
(* query or command, with the code up to the next one.  The media sources  *)
(* are the abstract SourceInstance, which SourceLifecycle implements.      *)
(*                                                                         *)
(* Data abstracted: what a permission says, which is replaced by the set   *)
(* of changes that were committed when it was read; scope and secret of a  *)
(* grant, its connections and its indices.                                 *)
(***************************************************************************)
EXTENDS Naturals, FiniteSets

CONSTANTS
  User, Path, Instance, None,
  Grant,       \* ids of grants
  Use,         \* validations, one after the other under the same id
  MaxRow,      \* bound: changes of a user's session or permissions
  MaxFailures  \* bound: Redis outages, lost transactions and crashes

ASSUME NoneAssumption == None \notin Instance
ASSUME NonEmpty == User # {} /\ Path # {} /\ Grant # {}
ASSUME BoundsAssumption == MaxRow \in Nat /\ MaxFailures \in Nat

VARIABLES
  row,       \* the table media_revoke_outbox
  epoch,     \* user -> the key of the epoch
  instance,  \* path -> the key of its instance, see SourceInstance
  used,
  redisUp,
  failures,  \* how many failures there were
  stray,     \* user -> INCRs sent by transactions that are gone
  grant,     \* what the issue of each grant has reached
  claimed,   \* the grants consumed
  use        \* what each validation has reached

Source == INSTANCE SourceInstance

sourceVars == <<instance, used>>
redisVars == <<epoch, sourceVars, redisUp>>
outboxVars == <<row, stray>>
vars == <<redisVars, outboxVars, failures, grant, claimed, use>>

Row == 1 .. MaxRow  \* in the order of requestedAt

----------------------------------------------------------------------------

\* A row is locked by a drain that claimed it, and then bumped by its INCR;
\* epoch: history, the epoch of the user at the commit.
RowState ==
  [state : {"none", "pending", "claimed", "bumped", "applied"}, user : User, epoch : Nat]

\* permitted, seen: history, the rows of the user committed when the permission
\* and when the epoch was read.
GrantState ==
  [phase : {"none", "derived", "cleared", "bound", "ready", "stored", "dead"},
   user : User, path : Path, instance : Instance \cup {None}, epoch : Nat,
   permitted : SUBSET Row, seen : SUBSET Row]

\* before: history, the rows of the user committed when the debt was checked.
UseState ==
  [phase : {"idle", "cleared", "ok"}, grant : Grant, consumes : BOOLEAN, before : SUBSET Row]

IdleRow == [state |-> "none", user |-> CHOOSE u \in User : TRUE, epoch |-> 0]

IdleGrant ==
  [phase |-> "none", user |-> CHOOSE u \in User : TRUE, path |-> CHOOSE p \in Path : TRUE,
   instance |-> None, epoch |-> 0, permitted |-> {}, seen |-> {}]

IdleUse ==
  [phase |-> "idle", grant |-> CHOOSE g \in Grant : TRUE, consumes |-> FALSE, before |-> {}]

Committed(u) == {r \in Row : row[r].state # "none" /\ row[r].user = u}

Applied == {r \in Row : row[r].state = "applied"}

\* hasPending: what is locked or bumped in an open transaction still counts.
RevokeDebt(u) == ~(Committed(u) \subseteq Applied)

Stored == {g \in Grant : grant[g].phase \in {"stored", "dead"}}

TypeOK ==
  /\ row \in [Row -> RowState]
  /\ epoch \in [User -> Nat]
  /\ Source!TypeOK
  /\ redisUp \in BOOLEAN
  /\ failures \in 0 .. MaxFailures
  /\ stray \in [User -> Nat]
  /\ grant \in [Grant -> GrantState]
  /\ \A g \in Grant : grant[g].phase \in {"bound", "ready", "stored", "dead"} => grant[g].instance # None
  /\ claimed \subseteq Grant
  /\ use \in [Use -> UseState]

----------------------------------------------------------------------------
(* Revocation: outbox and epoch *)

SetRow(r, s) == row' = [row EXCEPT ![r].state = s]

\* revokeUserMediaGrantsAtomic: the change and its row, in one transaction.
Change(r, u) ==
  /\ row[r].state = "none"
  /\ \A q \in Row : q < r => row[q].state # "none"
  /\ row' = [row EXCEPT ![r] = [state |-> "pending", user |-> u, epoch |-> epoch[u]]]
  /\ UNCHANGED <<redisVars, stray, failures, grant, claimed, use>>

\* SELECT ... ORDER BY requestedAt FOR UPDATE SKIP LOCKED LIMIT 1, by the drain
\* of a request, of the sweep or of Redis being ready again.
Claim(r) ==
  /\ row[r].state = "pending"
  /\ \A q \in Row : q < r => row[q].state # "pending"
  /\ SetRow(r, "claimed")
  /\ UNCHANGED <<redisVars, stray, failures, grant, claimed, use>>

\* revokeAllForUser: INCR of the epoch.
Bump(r) ==
  /\ row[r].state = "claimed" /\ redisUp
  /\ epoch' = [epoch EXCEPT ![row[r].user] = @ + 1]
  /\ SetRow(r, "bumped")
  /\ UNCHANGED <<sourceVars, redisUp, stray, failures, grant, claimed, use>>

\* Slip: the row is marked although INCR failed.
BumpFailsMarked(r) ==
  /\ row[r].state = "claimed" /\ ~redisUp
  /\ SetRow(r, "applied")
  /\ UNCHANGED <<redisVars, stray, failures, grant, claimed, use>>

\* Slip: a row that failed is deleted.
BumpFailsDropped(r) ==
  /\ row[r].state = "claimed" /\ ~redisUp
  /\ row' = [row EXCEPT ![r] = IdleRow]
  /\ UNCHANGED <<redisVars, stray, failures, grant, claimed, use>>

\* INCR fails: only the attempt is counted, and the drain stops.
BumpFails(r) ==
  /\ row[r].state = "claimed" /\ ~redisUp
  /\ SetRow(r, "pending")
  /\ UNCHANGED <<redisVars, stray, failures, grant, claimed, use>>

\* UPDATE appliedAt, and commit.
MarkApplied(r) ==
  /\ row[r].state = "bumped"
  /\ SetRow(r, "applied")
  /\ UNCHANGED <<redisVars, stray, failures, grant, claimed, use>>

Fail == failures < MaxFailures /\ failures' = failures + 1

\* The interactive transaction times out or loses its connection: the row is
\* free again, and an INCR that waits for Redis may still be carried out.
TransactionLost(r) ==
  /\ Fail
  /\ row[r].state \in {"claimed", "bumped"}
  /\ SetRow(r, "pending")
  /\ stray' = IF row[r].state = "claimed" THEN [stray EXCEPT ![row[r].user] = @ + 1] ELSE stray
  /\ UNCHANGED <<redisVars, grant, claimed, use>>

StrayBump(u) ==
  /\ stray[u] > 0 /\ redisUp
  /\ stray' = [stray EXCEPT ![u] = @ - 1]
  /\ epoch' = [epoch EXCEPT ![u] = @ + 1]
  /\ UNCHANGED <<row, sourceVars, redisUp, failures, grant, claimed, use>>

----------------------------------------------------------------------------
(* The issue of a grant: POST /media-grant *)

Reach(g, phase) == grant' = [grant EXCEPT ![g].phase = phase]

Refuse(g) == grant' = [grant EXCEPT ![g] = IdleGrant]

\* deriveMediaRequest: the permission of the user is read, and suffices.
Derive(g, u, p) ==
  /\ grant[g].phase = "none"
  /\ grant' = [grant EXCEPT ![g] =
       [IdleGrant EXCEPT !.phase = "derived", !.user = u, !.path = p, !.permitted = Committed(u)]]
  /\ UNCHANGED <<redisVars, outboxVars, failures, claimed, use>>

\* issue: REVOKE_PENDING while the user has a revocation to be applied.
CheckDebt(g) ==
  /\ grant[g].phase = "derived"
  /\ IF RevokeDebt(grant[g].user) THEN Refuse(g) ELSE Reach(g, "cleared")
  /\ UNCHANGED <<redisVars, outboxVars, failures, claimed, use>>

\* Slip: whatever the path has for an instance is taken.
ReadAnyInstance(g) ==
  /\ grant[g].phase = "cleared" /\ redisUp
  /\ grant' = [grant EXCEPT ![g].phase = "bound", ![g].instance = instance[grant[g].path]]
  /\ UNCHANGED <<redisVars, outboxVars, failures, claimed, use>>

\* currentInstance, or NO_MEDIA_INSTANCE.
ReadInstance(g) ==
  /\ grant[g].phase = "cleared" /\ redisUp
  /\ IF instance[grant[g].path] = None
     THEN Refuse(g)
     ELSE grant' = [grant EXCEPT ![g].phase = "bound", ![g].instance = instance[grant[g].path]]
  /\ UNCHANGED <<redisVars, outboxVars, failures, claimed, use>>

\* getUserEpoch.
ReadEpoch(g) ==
  /\ grant[g].phase = "bound" /\ redisUp
  /\ grant' = [grant EXCEPT ![g].phase = "ready", ![g].epoch = epoch[grant[g].user],
                            ![g].seen = Committed(grant[g].user)]
  /\ UNCHANGED <<redisVars, outboxVars, failures, claimed, use>>

\* issueGrant: one script stores the grant and its indices.
Store(g) ==
  /\ grant[g].phase = "ready" /\ redisUp
  /\ Reach(g, "stored")
  /\ UNCHANGED <<redisVars, outboxVars, failures, claimed, use>>

\* BACKEND_UNAVAILABLE.
IssueFails(g) ==
  /\ grant[g].phase \in {"cleared", "bound", "ready"} /\ ~redisUp
  /\ Refuse(g)
  /\ UNCHANGED <<redisVars, outboxVars, failures, claimed, use>>

\* Its time is over, or it is revoked: by its owner, with its view or session,
\* or by the drain, which marks the grants of the user after INCR.
Die(g) ==
  /\ grant[g].phase = "stored"
  /\ Reach(g, "dead")
  /\ UNCHANGED <<redisVars, outboxVars, failures, claimed, use>>

----------------------------------------------------------------------------
(* The use of a grant: /internal/media-grant/validate consumes it once, the *)
(* auth hook of MediaMTX validates the session as often as it is asked      *)

\* Slip: validation forgets the debt.
BeginUseInDebt(x, g) ==
  /\ use[x].phase # "cleared" /\ redisUp /\ g \in Stored
  /\ \E c \in BOOLEAN : use' = [use EXCEPT ![x] =
       [phase |-> "cleared", grant |-> g, consumes |-> c, before |-> Committed(grant[g].user)]]
  /\ UNCHANGED <<redisVars, outboxVars, failures, grant, claimed>>

\* peek finds the grant, and its user is not in debt; otherwise nothing changes.
BeginUse(x, g) ==
  /\ use[x].phase # "cleared" /\ redisUp /\ g \in Stored
  /\ ~RevokeDebt(grant[g].user)
  /\ \E c \in BOOLEAN : use' = [use EXCEPT ![x] =
       [phase |-> "cleared", grant |-> g, consumes |-> c, before |-> Committed(grant[g].user)]]
  /\ UNCHANGED <<redisVars, outboxVars, failures, grant, claimed>>

\* What LUA_VALIDATE_SESSION and LUA_VALIDATE_AND_CLAIM accept.
Valid(g, consumes) ==
  /\ grant[g].phase = "stored"
  /\ grant[g].epoch = epoch[grant[g].user]
  /\ instance[grant[g].path] # None
  /\ grant[g].instance = instance[grant[g].path]
  /\ consumes => g \notin claimed

\* validateSession or validateAndClaim: a script, or BACKEND_UNAVAILABLE.
FinishUse(x) ==
  LET g == use[x].grant IN
  /\ use[x].phase = "cleared"
  /\ IF redisUp /\ Valid(g, use[x].consumes)
     THEN /\ use' = [use EXCEPT ![x].phase = "ok"]
          /\ claimed' = IF use[x].consumes THEN claimed \cup {g} ELSE claimed
     ELSE use' = [use EXCEPT ![x] = IdleUse] /\ UNCHANGED claimed
  /\ UNCHANGED <<redisVars, outboxVars, failures, grant>>

----------------------------------------------------------------------------
(* The world around it *)

\* See SourceInstance; an instance is installed through Redis.
SourceChanges ==
  /\ \/ \E P \in SUBSET Path : Source!Drop(P)
     \/ redisUp /\ \E p \in Path, i \in Instance : Source!Install(p, i)
  /\ UNCHANGED <<epoch, redisUp, outboxVars, failures, grant, claimed, use>>

RedisGoes ==
  /\ Fail
  /\ redisUp /\ redisUp' = FALSE
  /\ UNCHANGED <<epoch, sourceVars, outboxVars, grant, claimed, use>>

RedisReturns ==
  /\ ~redisUp /\ redisUp' = TRUE
  /\ UNCHANGED <<epoch, sourceVars, outboxVars, failures, grant, claimed, use>>

\* The API dies with its requests; PostgreSQL frees the rows it had locked.
Crash ==
  /\ Fail
  /\ row' = [r \in Row |->
       IF row[r].state \in {"claimed", "bumped"} THEN [row[r] EXCEPT !.state = "pending"] ELSE row[r]]
  /\ stray' = [u \in User |-> 0]
  /\ grant' = [g \in Grant |-> IF g \in Stored THEN grant[g] ELSE IdleGrant]
  /\ use' = [x \in Use |-> IF use[x].phase = "cleared" THEN IdleUse ELSE use[x]]
  /\ UNCHANGED <<redisVars, claimed>>

----------------------------------------------------------------------------

Init ==
  /\ row = [r \in Row |-> IdleRow] /\ stray = [u \in User |-> 0]
  /\ epoch = [u \in User |-> 0] /\ Source!Init
  /\ redisUp = TRUE /\ failures = 0
  /\ grant = [g \in Grant |-> IdleGrant]
  /\ claimed = {}
  /\ use = [x \in Use |-> IdleUse]

Drain(r) == Claim(r) \/ Bump(r) \/ BumpFails(r) \/ MarkApplied(r)

RowStep(r) == Drain(r) \/ TransactionLost(r) \/ \E u \in User : Change(r, u)

IssueStep(g) ==
  \/ \E u \in User, p \in Path : Derive(g, u, p)
  \/ CheckDebt(g) \/ ReadInstance(g) \/ ReadEpoch(g) \/ Store(g) \/ IssueFails(g)
  \/ Die(g)

UseStep(x) == FinishUse(x) \/ \E g \in Grant : BeginUse(x, g)

World ==
  \/ RedisGoes \/ RedisReturns \/ Crash \/ SourceChanges
  \/ \E u \in User : StrayBump(u)

Next ==
  \/ World
  \/ \E r \in Row : RowStep(r)
  \/ \E g \in Grant : IssueStep(g)
  \/ \E x \in Use : UseStep(x)

Spec == Init /\ [][Next]_vars

\* Redis comes back, and then, or at the next sweep, the outbox is drained.
Fairness == WF_vars(RedisReturns) /\ \A r \in Row : WF_vars(Drain(r))

FairSpec == Spec /\ Fairness

----------------------------------------------------------------------------
(* Properties                                                              *)

\* A use that begins after a logout or a permission change was committed never
\* succeeds with a grant whose epoch was read before that commit, whatever
\* Redis, the outbox and the process go through in between.
RevocationCoversUse ==
  \A x \in Use : use[x].phase = "ok" => use[x].before \subseteq grant[use[x].grant].seen

\* A revocation that the outbox counts as applied has incremented the epoch
\* since it was committed, through lost transactions, crashes and outages.
NoRevocationLost ==
  \A r \in Applied : epoch[row[r].user] > row[r].epoch

\* A grant whose source was replaced or went away never becomes usable again,
\* even when the instance changed between its reading and the grant's storing.
GoneSourceStaysGone ==
  [][\A g \in Stored :
       grant[g].instance # instance[grant[g].path] => grant[g].instance # instance'[grant[g].path]]_vars

\* Every revocation is applied in the end.
RevocationsDrained ==
  \A r \in Row : row[r].state = "pending" ~> row[r].state = "applied"

\* "Un grant emitido con una autorizacion leida antes del cambio NO puede
\* aparecer valido despues".
NoStalePermission ==
  \A x \in Use : use[x].phase = "ok" => use[x].before \subseteq grant[use[x].grant].permitted
============================================================================
