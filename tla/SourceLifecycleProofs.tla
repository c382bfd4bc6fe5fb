------------------------ MODULE SourceLifecycleProofs ------------------------
(***************************************************************************)
(* SourceLifecycle implements SourceInstance, for any number of paths and  *)
(* of passes that overlap, through outages and restarts.                   *)
(***************************************************************************)
EXTENDS SourceLifecycle, TLAPS

\* A token that a pass has taken and not yet set is its own, and new to all
\* paths: INCR and SET are two commands, and others come in between.
TokensAreFresh ==
  /\ \A i \in Pass : pass[i].token \in 0 .. counter /\ pass[i].token \notin used
  /\ \A i, j \in Pass : i # j /\ pass[i].token # 0 => pass[i].token # pass[j].token

IInv == TypeOK /\ TokensAreFresh

----------------------------------------------------------------------------

LEMMA IdlePassTyped == IdlePass \in PassState /\ IdlePass.token = 0
<1>1. (CHOOSE p \in Path : TRUE) \in Path
  BY NonEmpty
<1> QED BY <1>1 DEF IdlePass, PassState

LEMMA Initially == Init => IInv
BY IdlePassTyped, BoundsAssumption, TtlAssumption DEF Init, IInv, TypeOK, TokensAreFresh

Lose(P) == instance' = [p \in Path |-> IF p \in P THEN 0 ELSE instance[p]]

\* What Tick, List, Turn, Refresh and Retire have in common: no new token, and
\* some paths lose their instance.
Quiet(i) ==
  /\ \E s \in PassState : s.token \in {0, pass[i].token} /\ pass' = [pass EXCEPT ![i] = s]
  /\ known' \subseteq Path
  /\ age' \in [Path -> 0 .. Ttl]
  /\ \E P \in SUBSET Path : Lose(P)
  /\ UNCHANGED <<worldVars, counter, used>>

LEMMA QuietSteps ==
  ASSUME TypeOK, NEW i \in Pass,
         Tick(i) \/ List(i) \/ Turn(i) \/ (\E p \in Path : Refresh(i, p) \/ Retire(i, p))
  PROVE  Quiet(i)
<1> DEFINE o == pass[i]
<1>0. /\ o \in PassState /\ pass \in [Pass -> PassState] /\ Ttl \in Nat /\ Ttl # 0
      /\ instance \in [Path -> 0 .. counter] /\ counter \in Nat /\ age \in [Path -> 0 .. Ttl]
      /\ ready \subseteq Path /\ known \subseteq Path
  BY TtlAssumption, BoundsAssumption DEF TypeOK
<1>1. ASSUME UNCHANGED instance
      PROVE  \E P \in SUBSET Path : Lose(P)
  <2>1. Lose({})
    BY <1>0, <1>1 DEF Lose
  <2> QED BY <2>1
<1>2. ASSUME Tick(i) PROVE Quiet(i)
  <2> DEFINE s == [IdlePass EXCEPT !.phase = "listing"]
             P == {p \in Path : age[p] = Ttl}
  <2>1. s \in PassState /\ s.token = 0
    BY IdlePassTyped DEF PassState
  <2>2. pass' = [pass EXCEPT ![i] = s]
    BY <1>2 DEF Tick
  <2>3. P \in SUBSET Path /\ Lose(P)
    BY <1>2 DEF Tick, Lose
  <2>4. age' \in [Path -> 0 .. Ttl]
    <3>1. age' = [p \in Path |-> IF instance'[p] = 0 THEN 0 ELSE age[p] + 1]
      BY <1>2 DEF Tick
    <3>2. ASSUME NEW p \in Path PROVE (IF instance'[p] = 0 THEN 0 ELSE age[p] + 1) \in 0 .. Ttl
      BY <1>0, <2>3 DEF Lose
    <3> QED BY <3>1, <3>2
  <2>5. known' \subseteq Path /\ UNCHANGED <<worldVars, counter, used>>
    BY <1>0, <1>2 DEF Tick
  <2> HIDE DEF s, P
  <2> QED BY <2>1, <2>2, <2>3, <2>4, <2>5 DEF Quiet
<1>3. ASSUME List(i) PROVE Quiet(i)
  <2> DEFINE s == [o EXCEPT !.phase = "adding", !.list = ready, !.todo = ready]
  <2>1. s \in PassState /\ s.token = o.token
    BY <1>0 DEF PassState
  <2>2. pass' = [pass EXCEPT ![i] = s] \/ pass' = [pass EXCEPT ![i] = IdlePass]
    BY <1>3 DEF List
  <2>3. \E t \in PassState : t.token \in {0, pass[i].token} /\ pass' = [pass EXCEPT ![i] = t]
    <3> HIDE DEF s
    <3> QED BY <2>1, <2>2, IdlePassTyped
  <2>4. UNCHANGED <<worldVars, storeVars, known>>
    BY <1>3 DEF List
  <2> QED BY <1>0, <1>1, <2>3, <2>4 DEF Quiet, storeVars
<1>4. ASSUME Turn(i) PROVE Quiet(i)
  <2> DEFINE s == [o EXCEPT !.phase = "retiring", !.todo = known \ o.list]
  <2>1. s \in PassState /\ s.token = o.token
    BY <1>0 DEF PassState
  <2>2. pass' = [pass EXCEPT ![i] = s] \/ pass' = [pass EXCEPT ![i] = IdlePass]
    BY <1>4 DEF Turn
  <2>3. \E t \in PassState : t.token \in {0, pass[i].token} /\ pass' = [pass EXCEPT ![i] = t]
    <3> HIDE DEF s
    <3> QED BY <2>1, <2>2, IdlePassTyped
  <2>4. UNCHANGED <<worldVars, storeVars, known>>
    BY <1>4 DEF Turn
  <2> QED BY <1>0, <1>1, <2>3, <2>4 DEF Quiet, storeVars
<1>5. ASSUME NEW p \in Path, Refresh(i, p) \/ Retire(i, p) PROVE Quiet(i)
  <2> DEFINE s == [o EXCEPT !.todo = @ \ {p}]
  <2>1. s \in PassState /\ s.token = o.token
    BY <1>0 DEF PassState
  <2>2. pass' = [pass EXCEPT ![i] = s]
    BY <1>5 DEF Refresh, Retire
  <2>3. \E t \in PassState : t.token \in {0, pass[i].token} /\ pass' = [pass EXCEPT ![i] = t]
    <3> HIDE DEF s
    <3> QED BY <2>1, <2>2
  <2>4. known' \subseteq Path /\ age' \in [Path -> 0 .. Ttl] /\ UNCHANGED <<worldVars, counter, used>>
    BY <1>0, <1>5 DEF Refresh, Retire
  <2>5. UNCHANGED instance \/ instance' = [instance EXCEPT ![p] = 0]
    BY <1>5 DEF Refresh, Retire
  <2>6. ASSUME instance' = [instance EXCEPT ![p] = 0]
        PROVE  \E P \in SUBSET Path : Lose(P)
    <3>1. Lose({p})
      BY <1>0, <2>6 DEF Lose
    <3> QED BY <3>1
  <2> QED BY <1>1, <2>3, <2>4, <2>5, <2>6 DEF Quiet
<1> QED BY <1>2, <1>3, <1>4, <1>5

\* INCR: the token is newer than all others.
LEMMA RegisterEffect ==
  ASSUME TypeOK, NEW i \in Pass, NEW p \in Path, Register(i, p)
  PROVE  /\ UNCHANGED <<worldVars, known, instance, age, used>>
         /\ \/ Quiet(i)
            \/ /\ counter < MaxToken /\ counter' = counter + 1
               /\ \E s \in PassState : s.token = counter' /\ pass' = [pass EXCEPT ![i] = s]
<1> DEFINE o == pass[i]
<1>0. /\ o \in PassState /\ pass \in [Pass -> PassState] /\ counter \in Nat
      /\ instance \in [Path -> 0 .. counter] /\ age \in [Path -> 0 .. Ttl] /\ known \subseteq Path
  BY BoundsAssumption DEF TypeOK
<1>1. UNCHANGED <<worldVars, known, instance, age, used>>
  BY DEF Register
<1>2. CASE redisUp
  <2> DEFINE s == [o EXCEPT !.todo = @ \ {p}, !.path = p, !.token = counter']
  <2>1. counter < MaxToken /\ counter' = counter + 1 /\ pass' = [pass EXCEPT ![i] = s]
    BY <1>2 DEF Register
  <2>2. s \in PassState /\ s.token = counter'
    <3>1. ASSUME NEW n \in Nat, NEW t \in PassState
          PROVE  /\ [t EXCEPT !.todo = @ \ {p}, !.path = p, !.token = n] \in PassState
                 /\ [t EXCEPT !.todo = @ \ {p}, !.path = p, !.token = n].token = n
      BY DEF PassState
    <3>2. counter' \in Nat
      BY <1>0, <2>1
    <3> QED BY <1>0, <3>1, <3>2
  <2> HIDE DEF s
  <2> QED BY <1>1, <2>1, <2>2
<1>3. CASE ~redisUp
  <2> DEFINE s == [o EXCEPT !.todo = @ \ {p}]
  <2>1. s \in PassState /\ s.token = o.token
    BY <1>0 DEF PassState
  <2>2. pass' = [pass EXCEPT ![i] = s] /\ UNCHANGED counter
    BY <1>3 DEF Register
  <2>3. Lose({})
    BY <1>0, <1>1 DEF Lose
  <2> HIDE DEF s
  <2> QED BY <1>0, <1>1, <2>1, <2>2, <2>3 DEF Quiet
<1> QED BY <1>2, <1>3

\* SET: the token of the pass is current on its path, or given up.
LEMMA SetInstanceEffect ==
  ASSUME TypeOK, NEW i \in Pass, SetInstance(i)
  PROVE  /\ UNCHANGED <<worldVars, counter>>
         /\ known' \subseteq Path /\ age' \in [Path -> 0 .. Ttl]
         /\ pass[i].token # 0 /\ pass[i].path \in Path
         /\ \E s \in PassState : s.token = 0 /\ pass' = [pass EXCEPT ![i] = s]
         /\ \/ UNCHANGED <<instance, used>>
            \/ /\ instance' = [instance EXCEPT ![pass[i].path] = pass[i].token]
               /\ used' = used \cup {pass[i].token}
<1> DEFINE o == pass[i]
           s == [o EXCEPT !.token = 0]
<1>0. /\ o \in PassState /\ o.path \in Path /\ known \subseteq Path /\ Ttl \in Nat
      /\ age \in [Path -> 0 .. Ttl]
  BY TtlAssumption DEF TypeOK, PassState
<1>1. s \in PassState /\ s.token = 0
  BY <1>0 DEF PassState
<1>2. pass' = [pass EXCEPT ![i] = s] /\ o.token # 0 /\ UNCHANGED <<worldVars, counter>>
  BY DEF SetInstance
<1>3. known' \subseteq Path /\ age' \in [Path -> 0 .. Ttl]
  BY <1>0 DEF SetInstance
<1>4. \/ UNCHANGED <<instance, used>>
      \/ /\ instance' = [instance EXCEPT ![o.path] = o.token]
         /\ used' = used \cup {o.token}
  BY DEF SetInstance
<1> HIDE DEF s
<1> QED BY <1>0, <1>1, <1>2, <1>3, <1>4

----------------------------------------------------------------------------
(* The invariant, and the refinement                                        *)

\* What a step of a pass, or of the world, does to the tokens and the store.
LEMMA Steps ==
  ASSUME TypeOK, [Next]_vars
  PROVE  \/ \E i \in Pass : Quiet(i)
         \/ \E i \in Pass, p \in Path : Register(i, p) /\ ~Quiet(i)
         \/ \E i \in Pass : SetInstance(i)
         \/ Restart
         \/ Outage \/ OutageEnds \/ \E p \in Path : SourceComesOrGoes(p)
         \/ UNCHANGED vars
BY QuietSteps, RegisterEffect DEF Next, PassStep, World

LEMMA InvariantStep == IInv /\ [Next]_vars => IInv'
<1> SUFFICES ASSUME IInv, [Next]_vars PROVE TypeOK' /\ TokensAreFresh'
  BY DEF IInv
<1>0. /\ TypeOK /\ pass \in [Pass -> PassState] /\ counter \in Nat /\ used \subseteq 1 .. counter
      /\ instance \in [Path -> 0 .. counter] /\ MaxToken \in Nat /\ MaxUpsets \in Nat
      /\ counter \in 0 .. MaxToken
      /\ \A i \in Pass : pass[i].token \in 0 .. counter /\ pass[i].token \notin used
      /\ \A i, j \in Pass : i # j /\ pass[i].token # 0 => pass[i].token # pass[j].token
  BY BoundsAssumption DEF IInv, TypeOK, TokensAreFresh
<1>1. ASSUME NEW i \in Pass, Quiet(i) PROVE TypeOK' /\ TokensAreFresh'
  <2>1. instance' \in [Path -> 0 .. counter]
    BY <1>0, <1>1 DEF Quiet, Lose
  <2>2. PICK s \in PassState : s.token \in {0, pass[i].token} /\ pass' = [pass EXCEPT ![i] = s]
    BY <1>1 DEF Quiet
  <2>3. TypeOK'
    BY <1>0, <1>1, <2>1, <2>2 DEF Quiet, TypeOK, worldVars
  <2>4. TokensAreFresh'
    BY <1>0, <1>1, <2>2 DEF Quiet, TokensAreFresh
  <2> QED BY <2>3, <2>4
<1>2. ASSUME NEW i \in Pass, NEW p \in Path, Register(i, p), ~Quiet(i) PROVE TypeOK' /\ TokensAreFresh'
  <2>1. UNCHANGED <<worldVars, known, instance, age, used>>
    BY <1>0, <1>2, RegisterEffect
  <2>2. counter' \in 0 .. MaxToken /\ counter' = counter + 1
    BY <1>0, <1>2, RegisterEffect
  <2>3. PICK s \in PassState : s.token = counter' /\ pass' = [pass EXCEPT ![i] = s]
    BY <1>0, <1>2, RegisterEffect
  <2>4. instance' \in [Path -> 0 .. counter'] /\ used' \subseteq 1 .. counter'
    BY <1>0, <2>1, <2>2
  <2>5. TypeOK'
    BY <1>0, <2>1, <2>2, <2>3, <2>4 DEF TypeOK, worldVars
  <2>6. TokensAreFresh'
    BY <1>0, <2>1, <2>2, <2>3 DEF TokensAreFresh
  <2> QED BY <2>5, <2>6
<1>3. ASSUME NEW i \in Pass, SetInstance(i) PROVE TypeOK' /\ TokensAreFresh'
  <2>1. UNCHANGED <<worldVars, counter>> /\ known' \subseteq Path /\ age' \in [Path -> 0 .. Ttl]
    BY <1>0, <1>3, SetInstanceEffect
  <2>2. PICK s \in PassState : s.token = 0 /\ pass' = [pass EXCEPT ![i] = s]
    BY <1>0, <1>3, SetInstanceEffect
  <2>3. /\ pass[i].token # 0 /\ pass[i].path \in Path
        /\ \/ UNCHANGED <<instance, used>>
           \/ /\ instance' = [instance EXCEPT ![pass[i].path] = pass[i].token]
              /\ used' = used \cup {pass[i].token}
    BY <1>0, <1>3, SetInstanceEffect
  <2>4. instance' \in [Path -> 0 .. counter] /\ used' \subseteq 1 .. counter
    <3>1. pass[i].token \in 1 .. counter
      BY <1>0, <2>3
    <3> QED BY <1>0, <2>3, <3>1
  <2>5. TypeOK'
    BY <1>0, <2>1, <2>2, <2>4 DEF TypeOK, worldVars
  <2>6. 0 \notin used'
    BY <2>4, <1>0
  <2>7. TokensAreFresh'
    BY <1>0, <2>1, <2>2, <2>3, <2>6 DEF TokensAreFresh
  <2> QED BY <2>5, <2>7
<1>4. CASE Restart
  <2>1. \A i \in Pass : pass'[i] \in PassState /\ pass'[i].token = 0
    BY <1>4, IdlePassTyped DEF Restart
  <2>2. UNCHANGED storeVars /\ upsets' \in 0 .. MaxUpsets /\ known' = {} /\ UNCHANGED <<ready, listed, redisUp>>
    BY <1>0, <1>4 DEF Restart, Upset, TypeOK
  <2>3. pass' \in [Pass -> PassState]
    BY <1>4, <2>1 DEF Restart
  <2>4. 0 \notin used
    BY <1>0
  <2> QED BY <1>0, <2>1, <2>2, <2>3, <2>4 DEF TypeOK, TokensAreFresh, storeVars
<1>5. CASE Outage \/ OutageEnds \/ \E p \in Path : SourceComesOrGoes(p)
  <2>1. UNCHANGED <<storeVars, known, pass>>
    BY <1>5 DEF Outage, OutageEnds, SourceComesOrGoes
  <2>2. upsets' \in 0 .. MaxUpsets /\ ready' \subseteq Path /\ listed' \in BOOLEAN /\ redisUp' \in BOOLEAN
    <3>1. CASE Outage \/ OutageEnds
      <4>1. upsets' \in 0 .. MaxUpsets /\ ready' \subseteq Path
        BY <1>0, <3>1 DEF Outage, OutageEnds, Upset, TypeOK
      <4>2. listed' \in BOOLEAN /\ redisUp' \in BOOLEAN
        BY <1>0, <3>1, Zenon DEF Outage, OutageEnds, TypeOK
      <4> QED BY <4>1, <4>2
    <3>2. ASSUME NEW p \in Path, SourceComesOrGoes(p)
          PROVE  upsets' \in 0 .. MaxUpsets /\ ready' \subseteq Path /\ UNCHANGED <<listed, redisUp>>
      BY <1>0, <3>2 DEF SourceComesOrGoes, Upset, TypeOK
    <3> QED BY <1>0, <1>5, <3>1, <3>2 DEF TypeOK
  <2> QED BY <1>0, <2>1, <2>2 DEF TypeOK, TokensAreFresh, storeVars
<1>6. CASE UNCHANGED vars
  BY <1>0, <1>6 DEF vars, worldVars, storeVars, TypeOK, TokensAreFresh
<1> QED BY <1>0, <1>1, <1>2, <1>3, <1>4, <1>5, <1>6, Steps

\* The tokens of all passes are new and their own, and the types are right.
THEOREM Inductive == Spec => []IInv
BY Initially, InvariantStep, PTL DEF Spec

\* The type invariant of the poller and of the store.
THEOREM TypeCorrect == Spec => []TypeOK
<1>1. IInv => TypeOK
  BY DEF IInv
<1> QED BY Inductive, <1>1, PTL

\* The lifecycle implements SourceInstance: an instance that was replaced,
\* retired or expired is never current again.
THEOREM Implements == Spec => NoInstanceReturns
<1>1. Init => Source!Init
  BY DEF Init, Source!Init
<1>2. IInv /\ [Next]_vars => [Source!Next]_<<instance, used>>
  <2> SUFFICES ASSUME IInv, [Next]_vars PROVE Source!Next \/ UNCHANGED <<instance, used>>
    OBVIOUS
  <2>0. /\ TypeOK /\ instance \in [Path -> 0 .. counter] /\ counter \in 0 .. MaxToken
        /\ MaxToken \in Nat
        /\ \A i \in Pass : pass[i].token \in 0 .. counter /\ pass[i].token \notin used
    BY BoundsAssumption DEF IInv, TypeOK, TokensAreFresh
  <2>1. ASSUME NEW i \in Pass, Quiet(i) PROVE Source!Next \/ UNCHANGED <<instance, used>>
    <3>1. PICK P \in SUBSET Path : Lose(P)
      BY <2>1 DEF Quiet
    <3> DEFINE Q == {p \in P : instance[p] # 0}
    <3>2. used' = used
      BY <2>1 DEF Quiet
    <3>3. CASE Q = {}
      BY <2>0, <3>1, <3>2, <3>3 DEF Lose
    <3>4. CASE Q # {}
      <4>1. instance' = [p \in Path |-> IF p \in Q THEN 0 ELSE instance[p]]
        BY <2>0, <3>1 DEF Lose
      <4>2. Q \in SUBSET Path /\ \A p \in Q : instance[p] # 0
        OBVIOUS
      <4> HIDE DEF Q
      <4>3. Source!Drop(Q)
        BY <3>2, <3>4, <4>1, <4>2 DEF Source!Drop
      <4> QED BY <4>2, <4>3 DEF Source!Next
    <3> QED BY <3>3, <3>4
  <2>2. ASSUME NEW i \in Pass, SetInstance(i) PROVE Source!Next \/ UNCHANGED <<instance, used>>
    <3>1. /\ pass[i].token # 0 /\ pass[i].path \in Path
          /\ \/ UNCHANGED <<instance, used>>
             \/ /\ instance' = [instance EXCEPT ![pass[i].path] = pass[i].token]
                /\ used' = used \cup {pass[i].token}
      BY <2>0, <2>2, SetInstanceEffect
    <3>2. pass[i].token \in 1 .. MaxToken /\ pass[i].token \notin used
      BY <2>0, <3>1
    <3> QED BY <3>1, <3>2 DEF Source!Next, Source!Install
  <2>3. ASSUME NEW i \in Pass, NEW p \in Path, Register(i, p) PROVE UNCHANGED <<instance, used>>
    BY <2>3 DEF Register
  <2>4. ASSUME Restart \/ Outage \/ OutageEnds \/ (\E p \in Path : SourceComesOrGoes(p)) \/ UNCHANGED vars
        PROVE  UNCHANGED <<instance, used>>
    BY <2>4 DEF Restart, Outage, OutageEnds, SourceComesOrGoes, vars, storeVars
  <2> QED BY <2>0, <2>1, <2>2, <2>3, <2>4, Steps
<1> QED BY Inductive, <1>1, <1>2, PTL DEF Spec, NoInstanceReturns, Source!Spec
============================================================================
