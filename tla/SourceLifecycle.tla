--------------------------- MODULE SourceLifecycle ---------------------------
(***************************************************************************)
(* SourceLifecycleController and its poller: the list of ready sources     *)
(* that MediaMTX serves, kept in step with the instances that the grant    *)
(* store keeps in Redis with a time to live.                               *)
(* Source: apps/api/src/services/media/source-lifecycle.ts,                *)
(*         apps/api/src/services/media/grant-store.ts                      *)
(*                                                                         *)
(* A tick of the poller runs reconcile, which awaits Redis once or twice   *)
(* per path; ticks come from a setInterval, so a slow one overlaps with    *)
(* the next.  An action is what happens between two awaits and the Redis   *)
(* command it waits for: ioredis sends commands in the order of the calls. *)
(*                                                                         *)
(* Data abstracted: time is counted in ticks, and an instance that was not *)
(* refreshed for `Ttl' ticks is gone at the next one; every path passes    *)
(* the filter; pages of the list are read at once, a failed one is null.   *)
(***************************************************************************)
EXTENDS Naturals, FiniteSets

CONSTANTS
  Path,
  Pass,       \* bound: ticks whose reconcile overlaps
  Ttl,        \* instanceTtlMs over the poller's interval: 3 by default
  MaxUpsets,  \* bound: outages, restarts and sources that come up or go away
  MaxToken    \* bound: INCRs of the counter, more than the upsets give rise to

ASSUME NonEmpty == Path # {}
ASSUME TtlAssumption == Ttl \in Nat \ {0}
ASSUME BoundsAssumption == MaxUpsets \in Nat /\ MaxToken \in Nat

VARIABLES
  ready,      \* the sources that MediaMTX has
  listed,     \* the MediaMTX API answers
  redisUp,
  upsets,     \* how many upsets there were
  known,      \* SourceLifecycleController.known
  instance,   \* path -> n for the token mi-n in Redis, 0 without the key
  counter,    \* the key INSTANCE_COUNTER
  age,        \* path -> ticks since its key was set or refreshed
  pass,       \* what the reconcile of each pass has left to do
  used        \* history: the tokens that were ever current

storeVars == <<instance, counter, age, used>>
worldVars == <<ready, listed, redisUp, upsets>>
vars == <<worldVars, storeVars, known, pass>>

----------------------------------------------------------------------------

\* list: the ready paths that the lister returned; token: the INCR of the path
\* whose SET is to come, 0 otherwise.
PassState ==
  [phase : {"idle", "listing", "adding", "retiring"}, list : SUBSET Path,
   todo : SUBSET Path, path : Path, token : Nat]

IdlePass ==
  [phase |-> "idle", list |-> {}, todo |-> {}, path |-> CHOOSE p \in Path : TRUE, token |-> 0]

TypeOK ==
  /\ ready \subseteq Path /\ known \subseteq Path
  /\ listed \in BOOLEAN /\ redisUp \in BOOLEAN
  /\ upsets \in 0 .. MaxUpsets
  /\ instance \in [Path -> 0 .. counter]
  /\ counter \in 0 .. MaxToken
  /\ age \in [Path -> 0 .. Ttl]
  /\ pass \in [Pass -> PassState]
  /\ used \subseteq 1 .. counter

----------------------------------------------------------------------------
(* The reconcile of one pass *)

\* setInterval: time passes for every key, and a pass asks for the list.
Tick(i) ==
  /\ pass[i].phase = "idle"
  /\ pass' = [pass EXCEPT ![i] = [IdlePass EXCEPT !.phase = "listing"]]
  /\ instance' = [p \in Path |-> IF age[p] = Ttl THEN 0 ELSE instance[p]]
  /\ age' = [p \in Path |-> IF instance'[p] = 0 THEN 0 ELSE age[p] + 1]
  /\ UNCHANGED <<worldVars, known, counter, used>>

\* Slip: without a list, what is known counts as ready.
ListOrKnown(i) ==
  /\ pass[i].phase = "listing"
  /\ LET list == IF listed THEN ready ELSE known
     IN pass' = [pass EXCEPT ![i] = [@ EXCEPT !.phase = "adding", !.list = list, !.todo = list]]
  /\ UNCHANGED <<worldVars, storeVars, known>>

\* listReadyPaths: null when the API fails, and then nothing is done.
List(i) ==
  /\ pass[i].phase = "listing"
  /\ pass' = [pass EXCEPT ![i] =
       IF listed THEN [@ EXCEPT !.phase = "adding", !.list = ready, !.todo = ready] ELSE IdlePass]
  /\ UNCHANGED <<worldVars, storeVars, known>>

\* Reconcile goes from the listed paths to a copy of the known ones, then ends.
Turn(i) ==
  /\ pass[i].todo = {} /\ pass[i].token = 0
  /\ \/ /\ pass[i].phase = "adding"
        /\ pass' = [pass EXCEPT ![i] =
             [@ EXCEPT !.phase = "retiring", !.todo = known \ pass[i].list]]
     \/ /\ pass[i].phase = "retiring"
        /\ pass' = [pass EXCEPT ![i] = IdlePass]
  /\ UNCHANGED <<worldVars, storeVars, known>>

Adding(i, p) == pass[i].phase = "adding" /\ pass[i].token = 0 /\ p \in pass[i].todo

\* safeRefresh of a known path: PEXPIRE does nothing without the key.
Refresh(i, p) ==
  /\ Adding(i, p) /\ p \in known
  /\ age' = IF redisUp THEN [age EXCEPT ![p] = 0] ELSE age
  /\ pass' = [pass EXCEPT ![i].todo = @ \ {p}]
  /\ UNCHANGED <<worldVars, known, instance, counter, used>>

\* Slip: the next token is read, and not taken.
RegisterUncounted(i, p) ==
  /\ Adding(i, p) /\ p \notin known
  /\ pass' = [pass EXCEPT ![i] = [pass[i] EXCEPT !.todo = @ \ {p}, !.path = p, !.token = counter + 1]]
  /\ UNCHANGED <<worldVars, known, instance, counter, age, used>>

\* registerSource of a new path: INCR takes a token.
Register(i, p) ==
  /\ Adding(i, p) /\ p \notin known
  /\ IF redisUp
     THEN /\ counter < MaxToken /\ counter' = counter + 1
          /\ pass' = [pass EXCEPT ![i] = [pass[i] EXCEPT !.todo = @ \ {p}, !.path = p, !.token = counter']]
     ELSE pass' = [pass EXCEPT ![i].todo = @ \ {p}] /\ UNCHANGED counter
  /\ UNCHANGED <<worldVars, known, instance, age, used>>

\* Its SET; only then the path is known. A failure leaves it for the next pass.
SetInstance(i) ==
  LET p == pass[i].path IN
  /\ pass[i].token # 0
  /\ IF redisUp
     THEN /\ instance' = [instance EXCEPT ![p] = pass[i].token]
          /\ age' = [age EXCEPT ![p] = 0]
          /\ known' = known \cup {p}
          /\ used' = used \cup {pass[i].token}
     ELSE UNCHANGED <<instance, age, known, used>>
  /\ pass' = [pass EXCEPT ![i].token = 0]
  /\ UNCHANGED <<worldVars, counter>>

\* onNotReady of a path that is known and not listed: forgotten, then DEL.
Retire(i, p) ==
  /\ pass[i].phase = "retiring" /\ p \in pass[i].todo
  /\ pass' = [pass EXCEPT ![i].todo = @ \ {p}]
  /\ known' = known \ {p}
  /\ IF redisUp /\ p \in known
     THEN instance' = [instance EXCEPT ![p] = 0] /\ age' = [age EXCEPT ![p] = 0]
     ELSE UNCHANGED <<instance, age>>
  /\ UNCHANGED <<worldVars, counter, used>>

----------------------------------------------------------------------------
(* The world around it *)

Upset == upsets < MaxUpsets /\ upsets' = upsets + 1

SourceComesOrGoes(p) ==
  /\ Upset
  /\ ready' = IF p \in ready THEN ready \ {p} ELSE ready \cup {p}
  /\ UNCHANGED <<listed, redisUp, storeVars, known, pass>>

Outage ==
  /\ Upset
  /\ \/ listed /\ listed' = FALSE /\ UNCHANGED redisUp
     \/ redisUp /\ redisUp' = FALSE /\ UNCHANGED listed
  /\ UNCHANGED <<ready, storeVars, known, pass>>

OutageEnds ==
  /\ \/ ~listed /\ listed' = TRUE /\ UNCHANGED redisUp
     \/ ~redisUp /\ redisUp' = TRUE /\ UNCHANGED listed
  /\ UNCHANGED <<ready, upsets, storeVars, known, pass>>

\* The API process dies and starts again: its memory is lost, Redis keeps its own.
Restart ==
  /\ Upset
  /\ known' = {}
  /\ pass' = [i \in Pass |-> IdlePass]
  /\ UNCHANGED <<ready, listed, redisUp, storeVars>>

----------------------------------------------------------------------------

Init ==
  /\ ready \in SUBSET Path /\ listed = TRUE /\ redisUp = TRUE /\ upsets = 0
  /\ known = {}
  /\ instance = [p \in Path |-> 0] /\ counter = 0
  /\ age = [p \in Path |-> 0]
  /\ pass = [i \in Pass |-> IdlePass]
  /\ used = {}

PassStep(i) ==
  \/ List(i) \/ Turn(i) \/ SetInstance(i)
  \/ \E p \in Path : Refresh(i, p) \/ Register(i, p) \/ Retire(i, p)

World == Outage \/ OutageEnds \/ Restart \/ \E p \in Path : SourceComesOrGoes(p)

Next == World \/ \E i \in Pass : Tick(i) \/ PassStep(i)

Spec == Init /\ [][Next]_vars

\* The interval keeps firing, and every await of a pass ends.
Fairness == \A i \in Pass : WF_vars(Tick(i)) /\ WF_vars(PassStep(i))

FairSpec == Spec /\ Fairness

----------------------------------------------------------------------------
(* Properties                                                              *)

Source == INSTANCE SourceInstance
            WITH Instance <- 1 .. MaxToken, None <- 0

\* Passes, restarts and outages in any order never bring a replaced, retired or
\* expired instance back: what the grant plane assumes of the lifecycle.
NoInstanceReturns == Source!Spec

\* When a source goes away for good its instance goes too, by retireSource or,
\* if that failed, at the end of its time to live: nothing keeps refreshing it.
GoneSourceLosesItsInstance ==
  \A p \in Path : <>[](p \notin ready) => <>[](instance[p] = 0)

\* While its source is there and both MediaMTX and Redis answer, a path gets
\* an instance ("el reconcile lo re-registrara en la proxima pasada").
LiveSourceHasAnInstance ==
  \A p \in Path : <>[](p \in ready /\ listed /\ redisUp) => []<>(instance[p] # 0)
============================================================================
