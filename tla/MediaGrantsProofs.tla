-------------------------- MODULE MediaGrantsProofs --------------------------
(***************************************************************************)
(* What holds of MediaGrants for any number of users, paths, grants,       *)
(* validations, changes and failures.                                      *)
(***************************************************************************)
EXTENDS MediaGrants, TLAPS

----------------------------------------------------------------------------
(* The inductive invariant                                                  *)

\* Epochs only grow: a commit saw one that is not in the future, and what the
\* outbox has bumped has left it behind.
RowsAreOrdered ==
  \A r \in Row : row[r].state # "none" =>
    /\ row[r].epoch \leq epoch[row[r].user]
    /\ row[r].state \in {"bumped", "applied"} => row[r].epoch < epoch[row[r].user]

\* The grants whose epoch was read.
Dated == {g \in Grant : grant[g].phase \in {"ready", "stored", "dead"}}

\* The epoch of a grant is not in the future, and a row of its user that was
\* committed later saw that epoch or a newer one.
GrantsAreOrdered ==
  \A g \in Dated :
    /\ grant[g].epoch \leq epoch[grant[g].user]
    /\ grant[g].seen \subseteq Committed(grant[g].user)
    /\ \A r \in Committed(grant[g].user) \ grant[g].seen : grant[g].epoch \leq row[r].epoch

\* A validation that passed the check of the debt found all rows applied.
UsesAreDebtFree ==
  \A x \in Use : use[x].phase # "idle" =>
    /\ use[x].grant \in Stored
    /\ use[x].before \subseteq Applied \cap Committed(grant[use[x].grant].user)

\* The instance that a path has, or that an issue has read, has been used.
InstancesAreUsed ==
  /\ \A p \in Path : instance[p] \in used \cup {None}
  /\ \A g \in Grant : grant[g].instance \in used \cup {None}

IInv ==
  /\ TypeOK
  /\ RowsAreOrdered
  /\ GrantsAreOrdered
  /\ UsesAreDebtFree
  /\ InstancesAreUsed
  /\ RevocationCoversUse

----------------------------------------------------------------------------
(* Types                                                                    *)

LEMMA IdleTyped ==
  IdleRow \in RowState /\ IdleGrant \in GrantState /\ IdleUse \in UseState
<1>1. /\ (CHOOSE u \in User : TRUE) \in User
      /\ (CHOOSE p \in Path : TRUE) \in Path
      /\ (CHOOSE g \in Grant : TRUE) \in Grant
  BY NonEmpty
<1> QED BY <1>1 DEF IdleRow, IdleGrant, IdleUse, RowState, GrantState, UseState

LEMMA TypeInit == Init => TypeOK
<1> SUFFICES ASSUME Init PROVE TypeOK
  OBVIOUS
<1>1. \A g \in Grant : grant[g].phase = "none"
  BY DEF Init, IdleGrant
<1>2. /\ row \in [Row -> RowState] /\ grant \in [Grant -> GrantState] /\ use \in [Use -> UseState]
  BY IdleTyped DEF Init
<1>3. /\ epoch \in [User -> Nat] /\ stray \in [User -> Nat]
      /\ redisUp \in BOOLEAN /\ failures \in 0 .. MaxFailures /\ claimed \subseteq Grant
  BY BoundsAssumption DEF Init
<1>4. Source!TypeOK
  BY DEF Init, Source!Init, Source!TypeOK
<1> QED BY <1>1, <1>2, <1>3, <1>4 DEF TypeOK

\* What a step of an issue makes of its grant o: a grant h that is not dated
\* yet, or dated now, or a dated one that only goes from phase to phase.
Issued(o, h) ==
  /\ h.instance \in {None, o.instance} \cup {instance[p] : p \in Path}
  /\ h.phase \in {"bound", "ready", "stored", "dead"} => h.instance # None
  /\ \/ /\ h.phase \in {"none", "derived", "cleared", "bound"}
        /\ o.phase \notin {"stored", "dead"}
     \/ /\ h.phase = "ready" /\ o.phase = "bound"
        /\ h.epoch = epoch[h.user] /\ h.seen = Committed(h.user)
     \/ /\ h.phase \in {"stored", "dead"} /\ o.phase \in {"ready", "stored"}
        /\ h.user = o.user /\ h.path = o.path /\ h.instance = o.instance
        /\ h.epoch = o.epoch /\ h.seen = o.seen

LEMMA IssueEffect ==
  ASSUME TypeOK, NEW g \in Grant, IssueStep(g)
  PROVE  /\ UNCHANGED <<row, stray, epoch, instance, used, redisUp, failures, claimed, use>>
         /\ \E h \in GrantState : grant' = [grant EXCEPT ![g] = h] /\ Issued(grant[g], h)
<1> DEFINE o == grant[g]
           Becomes(h) == h \in GrantState /\ grant' = [grant EXCEPT ![g] = h] /\ Issued(o, h)
<1>0. /\ o \in GrantState
      /\ o.phase \in {"bound", "ready", "stored", "dead"} => o.instance # None
      /\ instance \in [Path -> Instance \cup {None}] /\ epoch \in [User -> Nat]
      /\ \A u \in User : Committed(u) \in SUBSET Row
  BY DEF TypeOK, Source!TypeOK, Committed
<1>1. UNCHANGED <<row, stray, epoch, instance, used, redisUp, failures, claimed, use>>
  BY DEF IssueStep, Derive, CheckDebt, ReadInstance, ReadEpoch, Store, IssueFails, Die,
         redisVars, sourceVars, outboxVars
<1>2. ASSUME Refuse(g), o.phase \notin {"stored", "dead"} PROVE Becomes(IdleGrant)
  BY <1>0, <1>2, IdleTyped DEF Refuse, IdleGrant, Issued
<1>3. ASSUME NEW u \in User, NEW p \in Path, Derive(g, u, p) PROVE \E h : Becomes(h)
  <2> DEFINE h == [IdleGrant EXCEPT !.phase = "derived", !.user = u, !.path = p, !.permitted = Committed(u)]
  <2>1. h \in GrantState /\ h.phase = "derived" /\ h.instance = None
    BY <1>0, IdleTyped DEF GrantState, IdleGrant
  <2>2. grant' = [grant EXCEPT ![g] = h] /\ o.phase = "none"
    BY <1>3 DEF Derive
  <2> HIDE DEF h
  <2>3. Becomes(h)
    BY <2>1, <2>2 DEF Issued
  <2> QED BY <2>3
<1>4. ASSUME CheckDebt(g) PROVE \E h : Becomes(h)
  <2> DEFINE h == [o EXCEPT !.phase = "cleared"]
  <2>1. h \in GrantState /\ h.phase = "cleared" /\ h.instance = o.instance
    BY <1>0 DEF GrantState
  <2>2. o.phase = "derived" /\ (Refuse(g) \/ grant' = [grant EXCEPT ![g] = h])
    BY <1>4 DEF CheckDebt, Reach
  <2> HIDE DEF h, o
  <2>3. grant' = [grant EXCEPT ![g] = h] => Becomes(h)
    BY <2>1, <2>2 DEF Issued
  <2> QED BY <1>2, <2>2, <2>3
<1>5. ASSUME ReadInstance(g) PROVE \E h : Becomes(h)
  <2> DEFINE h == [o EXCEPT !.phase = "bound", !.instance = instance[o.path]]
  <2>1. /\ h \in GrantState /\ h.phase = "bound" /\ h.instance = instance[o.path]
        /\ o.path \in Path
    BY <1>0 DEF GrantState
  <2>2. /\ o.phase = "cleared"
        /\ Refuse(g) \/ (grant' = [grant EXCEPT ![g] = h] /\ instance[o.path] # None)
    BY <1>5 DEF ReadInstance
  <2> HIDE DEF h, o
  <2>3. grant' = [grant EXCEPT ![g] = h] /\ instance[o.path] # None => Becomes(h)
    BY <2>1, <2>2 DEF Issued
  <2> QED BY <1>2, <2>2, <2>3
<1>6. ASSUME ReadEpoch(g) PROVE \E h : Becomes(h)
  <2> DEFINE h == [o EXCEPT !.phase = "ready", !.epoch = epoch[o.user], !.seen = Committed(o.user)]
  <2>1. /\ h \in GrantState /\ h.phase = "ready" /\ h.instance = o.instance
        /\ h.user = o.user /\ h.epoch = epoch[o.user] /\ h.seen = Committed(o.user)
    BY <1>0 DEF GrantState
  <2>2. o.phase = "bound" /\ grant' = [grant EXCEPT ![g] = h]
    BY <1>6 DEF ReadEpoch
  <2> HIDE DEF h
  <2>3. Becomes(h)
    BY <1>0, <2>1, <2>2 DEF Issued
  <2> QED BY <2>3
<1>7. ASSUME Store(g) \/ Die(g) PROVE \E h : Becomes(h)
  <2>1. PICK ph \in {"stored", "dead"} :
          o.phase \in {"ready", "stored"} /\ grant' = [grant EXCEPT ![g].phase = ph]
    BY <1>7 DEF Store, Die, Reach
  <2> DEFINE h == [o EXCEPT !.phase = ph]
  <2>2. /\ h \in GrantState /\ h.phase = ph /\ h.instance = o.instance
        /\ h.user = o.user /\ h.path = o.path /\ h.epoch = o.epoch /\ h.seen = o.seen
    BY <1>0 DEF GrantState
  <2>3. grant' = [grant EXCEPT ![g] = h]
    BY <2>1
  <2> HIDE DEF h
  <2>4. Becomes(h)
    BY <1>0, <2>1, <2>2, <2>3 DEF Issued
  <2> QED BY <2>4
<1>8. ASSUME IssueFails(g) PROVE \E h : Becomes(h)
  <2>1. Refuse(g) /\ o.phase \notin {"stored", "dead"}
    BY <1>8 DEF IssueFails
  <2> QED BY <1>2, <2>1
<1>9. \E h : Becomes(h)
  <2> HIDE DEF Becomes
  <2> QED BY <1>3, <1>4, <1>5, <1>6, <1>7, <1>8 DEF IssueStep
<1> QED BY <1>1, <1>9

\* What a step of the outbox makes of a row o: w is committed now, or it is the
\* same revocation, bumped only if the epoch was, and final once it is applied.
Revised(o, w) ==
  \/ /\ o.state = "none" /\ w.state = "pending"
     /\ w.epoch = epoch[w.user] /\ epoch' = epoch
  \/ /\ o.state \in {"pending", "claimed", "bumped"} /\ w.state # "none"
     /\ w.user = o.user /\ w.epoch = o.epoch
     /\ \/ epoch' = epoch /\ (w.state \in {"bumped", "applied"} => o.state = "bumped")
        \/ epoch' = [epoch EXCEPT ![o.user] = @ + 1]

LEMMA RowEffect ==
  ASSUME TypeOK, NEW r \in Row, RowStep(r)
  PROVE  /\ UNCHANGED <<instance, used, redisUp, grant, claimed, use>>
         /\ failures' \in 0 .. MaxFailures /\ stray' \in [User -> Nat]
         /\ \E w \in RowState : row' = [row EXCEPT ![r] = w] /\ Revised(row[r], w)
<1> DEFINE o == row[r]
           Kept == /\ UNCHANGED <<instance, used, redisUp, grant, claimed, use>>
                   /\ failures' \in 0 .. MaxFailures /\ stray' \in [User -> Nat]
           Becomes(w) == w \in RowState /\ row' = [row EXCEPT ![r] = w] /\ Revised(o, w)
<1>0. /\ o \in RowState /\ epoch \in [User -> Nat] /\ stray \in [User -> Nat]
      /\ failures \in 0 .. MaxFailures /\ MaxFailures \in Nat
  BY BoundsAssumption DEF TypeOK
<1>1. Kept
  <2>1. ASSUME NEW u \in User, Change(r, u) PROVE Kept
    BY <1>0, <2>1 DEF Change, redisVars, sourceVars
  <2>2. ASSUME Drain(r) PROVE Kept
    BY <1>0, <2>2 DEF Drain, Claim, Bump, BumpFails, MarkApplied, redisVars, sourceVars
  <2>3. ASSUME TransactionLost(r) PROVE Kept
    <3>1. o.user \in User
      BY <1>0 DEF RowState
    <3> QED BY <1>0, <2>3, <3>1 DEF TransactionLost, Fail, redisVars, sourceVars
  <2> QED BY <2>1, <2>2, <2>3 DEF RowStep
<1>2. ASSUME NEW u \in User, Change(r, u) PROVE \E w : Becomes(w)
  <2> DEFINE w == [state |-> "pending", user |-> u, epoch |-> epoch[u]]
  <2>1. w \in RowState
    BY <1>0 DEF RowState
  <2>2. row' = [row EXCEPT ![r] = w] /\ o.state = "none" /\ epoch' = epoch
    BY <1>2 DEF Change, redisVars
  <2>3. Becomes(w)
    BY <2>1, <2>2 DEF Revised
  <2> QED BY <2>3
<1>3. ASSUME NEW s \in {"pending", "claimed", "bumped", "applied"}, SetRow(r, s),
             o.state \in {"pending", "claimed", "bumped"},
             \/ epoch' = epoch /\ (s \in {"bumped", "applied"} => o.state = "bumped")
             \/ epoch' = [epoch EXCEPT ![o.user] = @ + 1]
      PROVE  \E w : Becomes(w)
  <2> DEFINE w == [o EXCEPT !.state = s]
  <2>1. w \in RowState /\ w.state = s /\ w.user = o.user /\ w.epoch = o.epoch
    BY <1>0 DEF RowState
  <2>2. row' = [row EXCEPT ![r] = w]
    BY <1>3 DEF SetRow
  <2> HIDE DEF w
  <2>3. Becomes(w)
    BY <1>3, <2>1, <2>2 DEF Revised
  <2> QED BY <2>3
<1>4. ASSUME Claim(r) \/ BumpFails(r) \/ MarkApplied(r) \/ TransactionLost(r) PROVE \E w : Becomes(w)
  <2>1. epoch' = epoch
    BY <1>4 DEF Claim, BumpFails, MarkApplied, TransactionLost, redisVars
  <2>2. PICK s \in {"pending", "claimed", "applied"} :
          /\ SetRow(r, s) /\ o.state \in {"pending", "claimed", "bumped"}
          /\ s = "applied" => o.state = "bumped"
    BY <1>4 DEF Claim, BumpFails, MarkApplied, TransactionLost
  <2> HIDE DEF Becomes, o
  <2> QED BY <1>3, <2>1, <2>2
<1>5. ASSUME Bump(r) PROVE \E w : Becomes(w)
  <2>1. SetRow(r, "bumped") /\ o.state = "claimed" /\ epoch' = [epoch EXCEPT ![o.user] = @ + 1]
    BY <1>5 DEF Bump
  <2> HIDE DEF Becomes, o
  <2> QED BY <1>3, <2>1
<1>6. \E w : Becomes(w)
  <2> HIDE DEF Becomes
  <2> QED BY <1>2, <1>4, <1>5 DEF RowStep, Drain
<1> QED BY <1>1, <1>6

\* What a step of a validation makes of it: v is refused, or it found no debt,
\* or it found its grant at the epoch of the user.
Validated(o, v) ==
  \/ v.phase = "idle"
  \/ /\ v.phase = "cleared" /\ v.grant \in Stored
     /\ v.before = Committed(grant[v.grant].user) /\ v.before \subseteq Applied
  \/ /\ v.phase = "ok" /\ o.phase = "cleared"
     /\ v.grant = o.grant /\ v.before = o.before
     /\ grant[v.grant].epoch = epoch[grant[v.grant].user]

LEMMA UseEffect ==
  ASSUME TypeOK, NEW x \in Use, UseStep(x)
  PROVE  /\ UNCHANGED <<row, stray, epoch, instance, used, redisUp, failures, grant>>
         /\ claimed' \subseteq Grant
         /\ \E v \in UseState : use' = [use EXCEPT ![x] = v] /\ Validated(use[x], v)
<1> DEFINE o == use[x]
           Becomes(v) == v \in UseState /\ use' = [use EXCEPT ![x] = v] /\ Validated(o, v)
<1>0. /\ o \in UseState /\ claimed \subseteq Grant
      /\ \A u \in User : Committed(u) \in SUBSET Row
      /\ \A g \in Grant : grant[g].user \in User
  BY DEF TypeOK, Committed, GrantState
<1>1. ASSUME NEW g \in Grant, BeginUse(x, g)
      PROVE  /\ UNCHANGED <<row, stray, epoch, instance, used, redisUp, failures, grant, claimed>>
             /\ \E v : Becomes(v)
  <2>1. UNCHANGED <<row, stray, epoch, instance, used, redisUp, failures, grant, claimed>>
    BY <1>1 DEF BeginUse, redisVars, sourceVars, outboxVars
  <2>2. PICK c \in BOOLEAN : use' = [use EXCEPT ![x] =
          [phase |-> "cleared", grant |-> g, consumes |-> c, before |-> Committed(grant[g].user)]]
    BY <1>1 DEF BeginUse
  <2> DEFINE v == [phase |-> "cleared", grant |-> g, consumes |-> c, before |-> Committed(grant[g].user)]
  <2>3. v \in UseState /\ v.phase = "cleared" /\ v.grant = g /\ v.before = Committed(grant[g].user)
    BY <1>0 DEF UseState
  <2>4. g \in Stored /\ Committed(grant[g].user) \subseteq Applied
    BY <1>1 DEF BeginUse, RevokeDebt
  <2> HIDE DEF v
  <2>5. Becomes(v)
    BY <2>2, <2>3, <2>4 DEF Validated, v
  <2> QED BY <2>1, <2>5
<1>2. ASSUME FinishUse(x)
      PROVE  /\ UNCHANGED <<row, stray, epoch, instance, used, redisUp, failures, grant>>
             /\ claimed' \subseteq Grant
             /\ \E v : Becomes(v)
  <2>1. UNCHANGED <<row, stray, epoch, instance, used, redisUp, failures, grant>>
    BY <1>2 DEF FinishUse, redisVars, sourceVars, outboxVars
  <2>2. claimed' \subseteq Grant
    BY <1>0, <1>2 DEF FinishUse, UseState
  <2> DEFINE v == [o EXCEPT !.phase = "ok"]
  <2>3. v \in UseState /\ v.phase = "ok" /\ v.grant = o.grant /\ v.before = o.before
    BY <1>0 DEF UseState
  <2>4. \/ use' = [use EXCEPT ![x] = IdleUse]
        \/ /\ use' = [use EXCEPT ![x] = v] /\ o.phase = "cleared"
           /\ grant[o.grant].epoch = epoch[grant[o.grant].user]
    BY <1>2 DEF FinishUse, Valid
  <2>5. use' = [use EXCEPT ![x] = IdleUse] => Becomes(IdleUse)
    BY IdleTyped DEF Validated, IdleUse
  <2> HIDE DEF v, o
  <2>6. ASSUME use' = [use EXCEPT ![x] = v], o.phase = "cleared",
               grant[o.grant].epoch = epoch[grant[o.grant].user]
        PROVE  Becomes(v)
    BY <2>3, <2>6 DEF Validated
  <2> HIDE DEF Becomes
  <2> QED BY <2>1, <2>2, <2>4, <2>5, <2>6
<1> HIDE DEF Becomes
<1>3. /\ UNCHANGED <<row, stray, epoch, instance, used, redisUp, failures, grant>>
      /\ claimed' \subseteq Grant
      /\ \E v : Becomes(v)
  BY <1>0, <1>1, <1>2 DEF UseStep
<1> QED BY <1>3 DEF Becomes

\* What the world does to the rows, grants and validations: a crash forgets the
\* requests in flight.
LEMMA CrashEffect ==
  ASSUME TypeOK, Crash
  PROVE  /\ UNCHANGED <<epoch, instance, used, redisUp, claimed>>
         /\ failures' \in 0 .. MaxFailures /\ stray' \in [User -> Nat]
         /\ row' \in [Row -> RowState] /\ grant' \in [Grant -> GrantState] /\ use' \in [Use -> UseState]
         /\ \A r \in Row : /\ row'[r].user = row[r].user /\ row'[r].epoch = row[r].epoch
                           /\ (row[r].state \in {"claimed", "bumped"} /\ row'[r].state = "pending") \/ row'[r].state = row[r].state
         /\ \A g \in Grant : grant'[g] = grant[g] \/ (g \notin Stored /\ grant'[g] = IdleGrant)
         /\ \A x \in Use : use'[x] = use[x] \/ use'[x] = IdleUse
<1>1. /\ UNCHANGED <<epoch, instance, used, redisUp, claimed>>
      /\ failures' \in 0 .. MaxFailures /\ stray' \in [User -> Nat]
  BY BoundsAssumption DEF Crash, Fail, redisVars, sourceVars, TypeOK
<1>2. ASSUME NEW r \in Row
      PROVE  /\ row'[r] \in RowState
             /\ row'[r].user = row[r].user /\ row'[r].epoch = row[r].epoch
             /\ (row[r].state \in {"claimed", "bumped"} /\ row'[r].state = "pending") \/ row'[r].state = row[r].state
  <2>1. row[r] \in RowState
    BY DEF TypeOK
  <2>2. row'[r] = IF row[r].state \in {"claimed", "bumped"} THEN [row[r] EXCEPT !.state = "pending"] ELSE row[r]
    BY DEF Crash
  <2> QED BY <2>1, <2>2 DEF RowState
<1>3. \A g \in Grant : /\ grant'[g] \in GrantState
                       /\ grant'[g] = grant[g] \/ (g \notin Stored /\ grant'[g] = IdleGrant)
  BY IdleTyped DEF Crash, TypeOK
<1>4. \A x \in Use : /\ use'[x] \in UseState
                     /\ use'[x] = use[x] \/ use'[x] = IdleUse
  BY IdleTyped DEF Crash, TypeOK
<1>5. /\ row' = [r \in Row |-> row'[r]] /\ grant' = [g \in Grant |-> grant'[g]]
      /\ use' = [x \in Use |-> use'[x]]
  BY DEF Crash
<1> QED BY <1>1, <1>2, <1>3, <1>4, <1>5

LEMMA TypeStep == TypeOK /\ [Next]_vars => TypeOK'
<1> SUFFICES ASSUME TypeOK, [Next]_vars PROVE TypeOK'
  OBVIOUS
<1>1. ASSUME NEW r \in Row, RowStep(r) PROVE TypeOK'
  <2>1. epoch' \in [User -> Nat]
    BY <1>1, RowEffect DEF TypeOK, Revised, RowState
  <2> QED BY <1>1, <2>1, RowEffect DEF TypeOK, Source!TypeOK
<1>2. ASSUME NEW g \in Grant, IssueStep(g) PROVE TypeOK'
  BY <1>2, IssueEffect DEF TypeOK, Source!TypeOK, Issued
<1>3. ASSUME NEW x \in Use, UseStep(x) PROVE TypeOK'
  BY <1>3, UseEffect DEF TypeOK, Source!TypeOK
<1>4. CASE RedisGoes \/ RedisReturns
  <2>1. failures' \in 0 .. MaxFailures
    BY <1>4, BoundsAssumption DEF RedisGoes, RedisReturns, Fail, TypeOK
  <2>2. redisUp' \in BOOLEAN
    BY <1>4 DEF RedisGoes, RedisReturns
  <2>3. UNCHANGED <<epoch, instance, used, row, stray, grant, claimed, use>>
    BY <1>4 DEF RedisGoes, RedisReturns, sourceVars, outboxVars
  <2> QED BY <2>1, <2>2, <2>3 DEF TypeOK, Source!TypeOK
<1>5. CASE Crash
  BY <1>5, CrashEffect, IdleTyped DEF TypeOK, Source!TypeOK, Stored, IdleGrant
<1>6. ASSUME SourceChanges PROVE TypeOK'
  BY <1>6 DEF SourceChanges, Source!Drop, Source!Install, TypeOK, Source!TypeOK, outboxVars
<1>7. ASSUME NEW u \in User, StrayBump(u) PROVE TypeOK'
  BY <1>7 DEF StrayBump, TypeOK, Source!TypeOK, sourceVars
<1>8. CASE UNCHANGED vars
  BY <1>8 DEF vars, redisVars, sourceVars, outboxVars, TypeOK, Source!TypeOK
<1> QED BY <1>1, <1>2, <1>3, <1>4, <1>5, <1>6, <1>7, <1>8 DEF Next, World

\* The type invariant: a stored grant has an instance, whatever fails while it
\* is issued.
THEOREM TypeCorrect == Spec => []TypeOK
<1> QED BY TypeInit, TypeStep, PTL DEF Spec

----------------------------------------------------------------------------
(* The order of rows, grants and epochs                                     *)

LEMMA RowsStep == TypeOK /\ RowsAreOrdered /\ [Next]_vars => RowsAreOrdered'
<1> SUFFICES ASSUME TypeOK, RowsAreOrdered, [Next]_vars PROVE RowsAreOrdered'
  OBVIOUS
<1>0. /\ row \in [Row -> RowState] /\ epoch \in [User -> Nat]
      /\ \A q \in Row : row[q].user \in User /\ row[q].epoch \in Nat
  BY DEF TypeOK, RowState
<1>1. ASSUME NEW r \in Row, RowStep(r) PROVE RowsAreOrdered'
  <2>1. PICK w \in RowState : row' = [row EXCEPT ![r] = w] /\ Revised(row[r], w)
    BY <1>1, RowEffect
  <2>2. w.user \in User /\ w.epoch \in Nat
    BY DEF RowState
  <2>3. \A u \in User : epoch'[u] \in Nat /\ epoch[u] \leq epoch'[u]
    BY <1>0, <2>1 DEF Revised
  <2>4. w.state # "none" => /\ w.epoch \leq epoch'[w.user]
                            /\ w.state \in {"bumped", "applied"} => w.epoch < epoch'[w.user]
    BY <1>0, <2>1, <2>2 DEF Revised, RowsAreOrdered
  <2> QED BY <1>0, <2>1, <2>3, <2>4 DEF RowsAreOrdered
<1>2. ASSUME UNCHANGED <<row, epoch>> PROVE RowsAreOrdered'
  BY <1>2 DEF RowsAreOrdered
<1>3. CASE Crash
  BY <1>0, <1>3, CrashEffect DEF RowsAreOrdered
<1>4. ASSUME NEW u \in User, StrayBump(u) PROVE RowsAreOrdered'
  BY <1>0, <1>4 DEF StrayBump, RowsAreOrdered
<1>5. ASSUME NEW g \in Grant, IssueStep(g) PROVE UNCHANGED <<row, epoch>>
  BY <1>5, IssueEffect
<1>6. ASSUME NEW x \in Use, UseStep(x) PROVE UNCHANGED <<row, epoch>>
  BY <1>6, UseEffect
<1>7. ASSUME RedisGoes \/ RedisReturns \/ SourceChanges \/ UNCHANGED vars
      PROVE  UNCHANGED <<row, epoch>>
  BY <1>7 DEF RedisGoes, RedisReturns, SourceChanges, outboxVars, vars, redisVars
<1> QED BY <1>1, <1>2, <1>3, <1>4, <1>5, <1>6, <1>7 DEF Next, World

LEMMA GrantsStep ==
  TypeOK /\ GrantsAreOrdered /\ [Next]_vars => GrantsAreOrdered'
<1> SUFFICES ASSUME TypeOK, GrantsAreOrdered, [Next]_vars PROVE GrantsAreOrdered'
  OBVIOUS
<1>0. /\ row \in [Row -> RowState] /\ grant \in [Grant -> GrantState] /\ epoch \in [User -> Nat]
      /\ \A q \in Row : row[q].user \in User /\ row[q].epoch \in Nat
      /\ \A h \in Grant : grant[h].user \in User /\ grant[h].epoch \in Nat
  BY DEF TypeOK, RowState, GrantState
<1>1. ASSUME NEW r \in Row, RowStep(r) PROVE GrantsAreOrdered'
  <2>1. PICK w \in RowState : row' = [row EXCEPT ![r] = w] /\ Revised(row[r], w)
    BY <1>1, RowEffect
  <2>2. grant' = grant
    BY <1>1, RowEffect
  <2>3. \A u \in User : epoch'[u] \in Nat /\ epoch[u] \leq epoch'[u]
    BY <1>0, <2>1 DEF Revised
  <2>4. CASE row[r].state = "none"
    <3>1. w.epoch = epoch[w.user] /\ w.state = "pending"
      BY <2>1, <2>4 DEF Revised
    <3>2. \A u \in User : Committed(u)' = IF u = w.user THEN Committed(u) \cup {r} ELSE Committed(u)
      BY <1>0, <2>1, <2>4, <3>1 DEF Committed
    <3>3. \A u \in User : r \notin Committed(u)
      BY <2>4 DEF Committed
    <3> QED BY <1>0, <2>1, <2>2, <2>3, <3>1, <3>2, <3>3 DEF GrantsAreOrdered, Dated
  <2>5. CASE row[r].state # "none"
    <3>1. w.user = row[r].user /\ w.epoch = row[r].epoch /\ w.state # "none"
      BY <2>1, <2>5 DEF Revised
    <3>2. \A u \in User : Committed(u)' = Committed(u)
      BY <1>0, <2>1, <2>5, <3>1 DEF Committed
    <3>3. \A q \in Row : row'[q].epoch = row[q].epoch
      BY <1>0, <2>1, <3>1
    <3> QED BY <1>0, <2>2, <2>3, <3>2, <3>3 DEF GrantsAreOrdered, Dated, Committed
  <2> QED BY <2>4, <2>5
<1>2. ASSUME NEW g \in Grant, IssueStep(g) PROVE GrantsAreOrdered'
  <2>1. PICK h \in GrantState : grant' = [grant EXCEPT ![g] = h] /\ Issued(grant[g], h)
    BY <1>2, IssueEffect
  <2>2. row' = row /\ epoch' = epoch /\ \A u \in User : Committed(u)' = Committed(u)
    BY <1>2, IssueEffect DEF Committed
  <2>3. h.user \in User /\ h.epoch \in Nat
    BY DEF GrantState
  <2>4. ASSUME h.phase \in {"ready", "stored", "dead"}
        PROVE  /\ h.epoch \leq epoch[h.user] /\ h.seen \subseteq Committed(h.user)
               /\ \A r \in Committed(h.user) \ h.seen : h.epoch \leq row[r].epoch
    BY <1>0, <2>1, <2>3, <2>4 DEF Issued, GrantsAreOrdered, Dated
  <2> QED BY <1>0, <2>1, <2>2, <2>3, <2>4 DEF GrantsAreOrdered, Dated
<1>3. ASSUME UNCHANGED <<row, epoch, grant>> PROVE GrantsAreOrdered'
  BY <1>3 DEF GrantsAreOrdered, Dated, Committed
<1>4. CASE Crash
  <2>1. \A u \in User : Committed(u)' = Committed(u)
    BY <1>0, <1>4, CrashEffect DEF Committed
  <2>2. \A g \in Dated' : g \in Dated /\ grant'[g] = grant[g]
    BY <1>4, CrashEffect DEF Dated, IdleGrant
  <2> QED BY <1>0, <1>4, <2>1, <2>2, CrashEffect DEF GrantsAreOrdered, Dated, Committed
<1>5. ASSUME NEW u \in User, StrayBump(u) PROVE GrantsAreOrdered'
  BY <1>0, <1>5 DEF StrayBump, GrantsAreOrdered, Dated, Committed
<1>6. ASSUME NEW x \in Use, UseStep(x) PROVE UNCHANGED <<row, epoch, grant>>
  BY <1>6, UseEffect
<1>7. ASSUME RedisGoes \/ RedisReturns \/ SourceChanges \/ UNCHANGED vars
      PROVE  UNCHANGED <<row, epoch, grant>>
  BY <1>7 DEF RedisGoes, RedisReturns, SourceChanges, outboxVars, vars, redisVars
<1> QED BY <1>1, <1>2, <1>3, <1>4, <1>5, <1>6, <1>7 DEF Next, World

LEMMA UsesStep ==
  IInv /\ [Next]_vars => UsesAreDebtFree' /\ RevocationCoversUse'
<1> SUFFICES ASSUME IInv, [Next]_vars PROVE UsesAreDebtFree' /\ RevocationCoversUse'
  OBVIOUS
<1> DEFINE
  \* What a validation relies on, of a grant g and the rows r of its user.
  Kept == /\ \A g \in Stored : /\ g \in Stored' /\ grant'[g].user = grant[g].user
                               /\ grant'[g].seen = grant[g].seen
          /\ \A r \in Applied : r \in Applied' /\ row'[r].user = row[r].user
          /\ \A x \in Use : use'[x] \in {use[x], IdleUse}
<1>0. /\ row \in [Row -> RowState] /\ grant \in [Grant -> GrantState]
      /\ epoch \in [User -> Nat] /\ use \in [Use -> UseState]
      /\ \A r \in Row : row[r].user \in User /\ row[r].epoch \in Nat
      /\ \A g \in Grant : grant[g].user \in User /\ grant[g].epoch \in Nat
  BY DEF IInv, TypeOK, RowState, GrantState
<1>1. ASSUME Kept PROVE UsesAreDebtFree' /\ RevocationCoversUse'
  <2>1. SUFFICES ASSUME NEW x \in Use, use'[x] = use[x], use[x].phase # "idle"
                 PROVE  /\ use[x].grant \in Stored'
                        /\ use[x].before \subseteq Applied' \cap Committed(grant[use[x].grant].user)'
                        /\ grant'[use[x].grant].user = grant[use[x].grant].user
                        /\ use[x].phase = "ok" => use[x].before \subseteq grant'[use[x].grant].seen
    BY <1>1 DEF UsesAreDebtFree, RevocationCoversUse, IdleUse, Committed
  <2>2. use[x].grant \in Stored /\ use[x].before \subseteq Applied \cap Committed(grant[use[x].grant].user)
    BY <2>1 DEF IInv, UsesAreDebtFree
  <2>3. use[x].phase = "ok" => use[x].before \subseteq grant[use[x].grant].seen
    BY DEF IInv, RevocationCoversUse
  <2>4. /\ use[x].grant \in Stored'
        /\ grant'[use[x].grant].user = grant[use[x].grant].user
        /\ grant'[use[x].grant].seen = grant[use[x].grant].seen
    BY <1>1, <2>2
  <2>5. ASSUME NEW r \in use[x].before
        PROVE  /\ r \in Row /\ r \in Applied'
               /\ row'[r].state # "none" /\ row'[r].user = grant'[use[x].grant].user
    <3>1. r \in Applied /\ r \in Row /\ row[r].user = grant[use[x].grant].user
      BY <2>2 DEF Committed
    <3>2. r \in Applied' /\ row'[r].user = row[r].user
      BY <1>1, <3>1
    <3> QED BY <2>4, <3>1, <3>2 DEF Applied
  <2> QED BY <2>1, <2>3, <2>4, <2>5 DEF Committed
<1>2. ASSUME NEW r \in Row, RowStep(r) PROVE Kept
  <2>1. PICK w \in RowState : row' = [row EXCEPT ![r] = w] /\ Revised(row[r], w)
    BY <1>2, RowEffect DEF IInv
  <2>2. row[r].state # "applied"
    BY <2>1 DEF Revised
  <2>3. UNCHANGED <<grant, use>>
    BY <1>2, RowEffect DEF IInv
  <2> QED BY <1>0, <2>1, <2>2, <2>3 DEF Applied, Stored
<1>3. ASSUME NEW g \in Grant, IssueStep(g) PROVE Kept
  <2>1. PICK h \in GrantState : grant' = [grant EXCEPT ![g] = h] /\ Issued(grant[g], h)
    BY <1>3, IssueEffect DEF IInv
  <2>2. UNCHANGED <<row, use>>
    BY <1>3, IssueEffect DEF IInv
  <2> QED BY <1>0, <2>1, <2>2 DEF Issued, Applied, Stored
<1>4. ASSUME Crash PROVE Kept
  <2>1. \A g \in Stored : grant'[g] = grant[g]
    BY <1>4, CrashEffect DEF IInv, Stored
  <2>2. \A r \in Applied : row'[r].state = row[r].state /\ row'[r].user = row[r].user
    BY <1>4, CrashEffect DEF IInv, Applied
  <2>3. \A x \in Use : use'[x] \in {use[x], IdleUse}
    BY <1>4, CrashEffect DEF IInv
  <2> QED BY <2>1, <2>2, <2>3 DEF Applied, Stored
<1>5. ASSUME UNCHANGED <<row, grant, use>> PROVE Kept
  BY <1>5 DEF Applied, Stored
<1>6. ASSUME NEW x \in Use, UseStep(x) PROVE UsesAreDebtFree' /\ RevocationCoversUse'
  <2>1. PICK v \in UseState : use' = [use EXCEPT ![x] = v] /\ Validated(use[x], v)
    BY <1>6, UseEffect DEF IInv
  <2>2. UNCHANGED <<row, epoch, grant>>
    BY <1>6, UseEffect DEF IInv
  <2>3. v.phase # "idle" => /\ v.grant \in Stored
                            /\ v.before \subseteq Applied \cap Committed(grant[v.grant].user)
    BY <1>0, <2>1 DEF Validated, IInv, UsesAreDebtFree
  <2>4. ASSUME v.phase = "ok", NEW r \in v.before, r \notin grant[v.grant].seen PROVE FALSE
    <3>1. v.grant \in Grant /\ v.grant \in Dated /\ r \in Row
      BY <2>3, <2>4 DEF Stored, Dated, Applied
    <3>2. grant[v.grant].epoch \leq row[r].epoch
      BY <2>3, <2>4, <3>1 DEF IInv, GrantsAreOrdered
    <3>3. row[r].epoch < epoch[row[r].user] /\ row[r].user = grant[v.grant].user
      BY <2>3, <2>4, <3>1 DEF IInv, RowsAreOrdered, Applied, Committed
    <3>4. grant[v.grant].epoch = epoch[grant[v.grant].user]
      BY <2>1, <2>4 DEF Validated
    <3> QED BY <1>0, <3>1, <3>2, <3>3, <3>4
  <2>5. v.phase = "ok" => v.before \subseteq grant[v.grant].seen
    BY <2>4
  <2>6. Stored' = Stored /\ Applied' = Applied /\ \A u \in User : Committed(u)' = Committed(u)
    BY <2>2 DEF Stored, Applied, Committed
  <2>7. UsesAreDebtFree'
    BY <1>0, <2>1, <2>2, <2>3, <2>6 DEF IInv, UsesAreDebtFree, Committed
  <2>8. RevocationCoversUse'
    BY <1>0, <2>1, <2>2, <2>5 DEF IInv, RevocationCoversUse
  <2> QED BY <2>7, <2>8
<1>7. ASSUME \/ RedisGoes \/ RedisReturns \/ SourceChanges
             \/ (\E u \in User : StrayBump(u)) \/ UNCHANGED vars
      PROVE  UNCHANGED <<row, grant, use>>
  BY <1>7 DEF RedisGoes, RedisReturns, SourceChanges, StrayBump, outboxVars, vars, redisVars
<1> HIDE DEF Kept
<1> QED BY <1>1, <1>2, <1>3, <1>4, <1>5, <1>6, <1>7 DEF Next, World

----------------------------------------------------------------------------
(* Instances                                                                *)

LEMMA InstancesStep == IInv /\ [Next]_vars => InstancesAreUsed'
<1> SUFFICES ASSUME IInv, [Next]_vars PROVE InstancesAreUsed'
  OBVIOUS
<1>0. /\ grant \in [Grant -> GrantState] /\ instance \in [Path -> Instance \cup {None}]
      /\ InstancesAreUsed
  BY DEF IInv, TypeOK, Source!TypeOK
<1>1. ASSUME NEW g \in Grant, IssueStep(g) PROVE InstancesAreUsed'
  <2>1. PICK h \in GrantState : grant' = [grant EXCEPT ![g] = h] /\ Issued(grant[g], h)
    BY <1>1, IssueEffect DEF IInv
  <2>2. UNCHANGED <<instance, used>>
    BY <1>1, IssueEffect DEF IInv
  <2> QED BY <1>0, <2>1, <2>2 DEF Issued, InstancesAreUsed
<1>2. ASSUME SourceChanges PROVE InstancesAreUsed'
  BY <1>0, <1>2 DEF SourceChanges, Source!Drop, Source!Install, InstancesAreUsed
<1>3. CASE Crash
  BY <1>0, <1>3, CrashEffect DEF IInv, InstancesAreUsed, IdleGrant
<1>4. ASSUME UNCHANGED <<instance, used, grant>> PROVE InstancesAreUsed'
  BY <1>0, <1>4 DEF InstancesAreUsed
<1>5. ASSUME NEW r \in Row, RowStep(r) PROVE UNCHANGED <<instance, used, grant>>
  BY <1>5, RowEffect DEF IInv
<1>6. ASSUME NEW x \in Use, UseStep(x) PROVE UNCHANGED <<instance, used, grant>>
  BY <1>6, UseEffect DEF IInv
<1>7. ASSUME \/ RedisGoes \/ RedisReturns
             \/ (\E u \in User : StrayBump(u)) \/ UNCHANGED vars
      PROVE  UNCHANGED <<instance, used, grant>>
  BY <1>7 DEF RedisGoes, RedisReturns, StrayBump, sourceVars, vars, redisVars
<1> QED BY <1>1, <1>2, <1>3, <1>4, <1>5, <1>6, <1>7 DEF Next, World

----------------------------------------------------------------------------
(* The theorems                                                             *)

LEMMA Initially == Init => IInv
<1> SUFFICES ASSUME Init PROVE IInv
  OBVIOUS
<1>1. /\ \A r \in Row : row[r].state = "none"
      /\ \A g \in Grant : grant[g].phase = "none" /\ grant[g].instance = None
      /\ \A x \in Use : use[x].phase = "idle"
      /\ \A p \in Path : instance[p] = None
  BY DEF Init, IdleRow, IdleGrant, IdleUse, Source!Init
<1> QED BY <1>1, TypeInit
        DEF IInv, RowsAreOrdered, GrantsAreOrdered, Dated, UsesAreDebtFree, InstancesAreUsed,
            RevocationCoversUse

\* IInv is inductive: epochs, rows, grants and validations stay in order through
\* every interleaving, failure and crash.
THEOREM Inductive == Spec => []IInv
<1>1. IInv /\ [Next]_vars => IInv'
  BY TypeStep, RowsStep, GrantsStep, UsesStep, InstancesStep DEF IInv
<1> QED BY Initially, <1>1, PTL DEF Spec

\* A validation that begins after a revocation was committed never succeeds with
\* a grant dated before it.
THEOREM RevocationHolds == Spec => []RevocationCoversUse
<1>1. IInv => RevocationCoversUse
  BY DEF IInv
<1> QED BY Inductive, <1>1, PTL

\* What the outbox counts as applied has incremented the epoch.
THEOREM AppliedIsBumped == Spec => []NoRevocationLost
<1>1. IInv => NoRevocationLost
  BY DEF IInv, TypeOK, RowState, RowsAreOrdered, NoRevocationLost, Applied
<1> QED BY Inductive, <1>1, PTL

\* A stored grant whose instance is gone stays without it.
THEOREM GoneInstanceStaysGone == Spec => GoneSourceStaysGone
<1>1. IInv /\ [Next]_vars =>
        [\A g \in Stored :
           grant[g].instance # instance[grant[g].path] => grant[g].instance # instance'[grant[g].path]]_vars
  <2> SUFFICES ASSUME IInv, Next, NEW g \in Stored, grant[g].instance # instance[grant[g].path]
               PROVE  grant[g].instance # instance'[grant[g].path]
    OBVIOUS
  <2>1. /\ instance \in [Path -> Instance \cup {None}]
        /\ grant[g].instance # None /\ grant[g].instance \in used
        /\ grant[g].path \in Path
    BY DEF IInv, TypeOK, Source!TypeOK, InstancesAreUsed, Stored, GrantState
  <2>2. ASSUME SourceChanges PROVE grant[g].instance # instance'[grant[g].path]
    <3>1. ASSUME NEW P \in SUBSET Path, Source!Drop(P) PROVE instance'[grant[g].path] \in {None, instance[grant[g].path]}
      BY <2>1, <3>1 DEF Source!Drop
    <3>2. ASSUME NEW p \in Path, NEW i \in Instance, Source!Install(p, i)
          PROVE  instance'[grant[g].path] \in {i, instance[grant[g].path]} /\ i \notin used
      BY <2>1, <3>2 DEF Source!Install
    <3> QED BY <2>1, <2>2, <3>1, <3>2 DEF SourceChanges
  <2>3. ASSUME NEW r \in Row, RowStep(r) PROVE instance' = instance
    BY <2>3, RowEffect DEF IInv
  <2>4. ASSUME NEW h \in Grant, IssueStep(h) PROVE instance' = instance
    BY <2>4, IssueEffect DEF IInv
  <2>5. ASSUME NEW x \in Use, UseStep(x) PROVE instance' = instance
    BY <2>5, UseEffect DEF IInv
  <2>6. ASSUME RedisGoes \/ RedisReturns \/ Crash \/ (\E u \in User : StrayBump(u))
        PROVE  instance' = instance
    BY <2>6 DEF RedisGoes, RedisReturns, Crash, StrayBump, sourceVars, redisVars
  <2> QED BY <2>2, <2>3, <2>4, <2>5, <2>6 DEF Next, World
<1> QED BY Inductive, <1>1, PTL DEF Spec, GoneSourceStaysGone
============================================================================
