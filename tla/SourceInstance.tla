---------------------------- MODULE SourceInstance ----------------------------
(***************************************************************************)
(* What the grant plane may assume of the identities of media sources: a   *)
(* stream path has one current instance or none, and an instance that was  *)
(* replaced, dropped or expired never becomes current again, on any path.  *)
(* Source: apps/api/src/services/media/grant-store.ts                      *)
(***************************************************************************)
CONSTANTS
  Path,      \* stream paths
  Instance,  \* the tokens mi-1, mi-2, ...
  None       \* no current instance, none of them: the key is absent

VARIABLES
  instance,  \* path -> its current instance, or None
  used       \* the instances that are or were current on some path

TypeOK ==
  /\ instance \in [Path -> Instance \cup {None}]
  /\ used \subseteq Instance

Init ==
  /\ instance = [p \in Path |-> None]
  /\ used = {}

\* Slip: any token serves that no path has at the moment.
InstallIdle(p, i) ==
  /\ i \in Instance /\ \A q \in Path : instance[q] # i
  /\ instance' = [instance EXCEPT ![p] = i]
  /\ used' = used \cup {i}

\* registerSource: the source of p becomes ready, possibly in place of another.
Install(p, i) ==
  /\ i \in Instance \ used
  /\ instance' = [instance EXCEPT ![p] = i]
  /\ used' = used \cup {i}

\* retireSource, or the PX of some keys runs out.
Drop(P) ==
  /\ P # {} /\ \A p \in P : instance[p] # None
  /\ instance' = [p \in Path |-> IF p \in P THEN None ELSE instance[p]]
  /\ UNCHANGED used

Next ==
  \/ \E P \in SUBSET Path : Drop(P)
  \/ \E p \in Path, i \in Instance : Install(p, i)

Spec == Init /\ [][Next]_<<instance, used>>
============================================================================
