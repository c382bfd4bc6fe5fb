------------------------ MODULE ViewportSessionsProofs ------------------------
(***************************************************************************)
(* What a browser tab believes of its leases, for any number of starts,    *)
(* heartbeats, transitions, closes and lost messages.                      *)
(*                                                                         *)
(* Known says that the tab has a close of a lease to do or did it, Told    *)
(* that it was told of it.  Given, Accounted and Held say for every lease  *)
(* who knows of it: nobody before the server gives it; what the tab was    *)
(* told is leased or known; what is leased was told or is known.  Served   *)
(* and Completed relate what was confirmed to the server, Waited the       *)
(* DELETEs to who waits for them, Requeued the retries to the queue.  A    *)
(* step of the tab keeps what it knows (TabStep); a step of the server     *)
(* gives leases that were fresh (WorldStep); most closes begin alike       *)
(* (OpensStep).                                                            *)
(***************************************************************************)
EXTENDS MCLiveTranscode, LiveTranscodeProofs, FiniteSetTheorems, SequenceTheorems, WellFoundedInduction, TLAPS

Loop == [kind : {"exact", "stale", "slot", "retry"}, list : Seq(Closing)]
Delete == [lease : Lease, strength : {"weak", "strong"}, outcome : Outcome]
Batch == [token : 0..MaxMoves, waits : SUBSET Lease, done : SUBSET Lease, failed : SUBSET Lease]

WorldTyped ==
    /\ page \in [token : 0..MaxMoves, stage : {"settled", "closing", "publishing"},
                 shown : BOOLEAN, due : BOOLEAN, starting : BOOLEAN]
    /\ start \in [Start -> [phase : {"none", "sent", "deaf", "created", "refused", "done"},
                            token : 0..MaxMoves]]
    /\ beat \in [phase : {"idle", "sent", "answered"}, ids : SUBSET Lease]
    /\ leases \subseteq Lease /\ retention \subseteq Lease
    /\ unheard \subseteq Lease /\ ended \subseteq Lease
    /\ minted \in 0..MaxMinted /\ faults \in 0..MaxFaults
ClosesTyped ==
    /\ registry \subseteq Lease /\ kept \subseteq Lease
    /\ pending \in [Lease -> Strength] /\ confirmed \in [Lease -> Strength]
    /\ loops \subseteq Loop /\ \A l \in loops : l.list # <<>>
    /\ batches \subseteq Batch /\ deletes \subseteq Delete
    /\ armed \in BOOLEAN
Typed == WorldTyped /\ ClosesTyped

(* A lease that the server may still give.                                 *)
Fresh(a) == IF a \in Start THEN start[a].phase \in {"none", "sent", "deaf"}
                           ELSE a > MaxStarts + minted
Created(a) == a \in Start /\ start[a].phase = "created"

(* The tab has a close of the lease to do, or did it.                      *)
Known(a) == a \in Queued \/ InClosing(a) \/ confirmed[a] # "none"

(* What of a lease the tab has been told.                                  *)
Told(a) == a \in registry \cup beat.ids \/ Created(a)

Given == \A a \in Lease : Fresh(a) =>
    a \notin leases \cup retention \cup kept /\ ~Known(a) /\ ~Told(a)

(* A close that was confirmed is served.                                   *)
Served ==
    /\ \A a \in leases : confirmed[a] = "none" /\ \A d \in deletes : d.lease = a => ~Confirms(d.outcome)
    /\ leases # {} => retention = {}
    /\ \A a \in retention : /\ confirmed[a] # "strong"
                            /\ \A d \in deletes : d.lease = a /\ d.strength = "strong" => ~Confirms(d.outcome)

(* Somebody waits for each DELETE, and there is one for each close.        *)
Unique(flying) == \A d, e \in flying : d.lease = e.lease /\ d.strength = e.strength => d = e
AwaitedIn(d, work, all) ==
    \/ \E l \in work : Head(l.list) = [lease |-> d.lease, strength |-> d.strength]
    \/ d.strength = "strong" /\ \E b \in all : d.lease \in b.waits
Waited == Unique(deletes) /\ \A d \in deletes : AwaitedIn(d, loops, batches)

Completed == \A b \in batches : \A a \in b.done : confirmed[a] # "none"

Accounted == \A a \in Lease : Told(a) => a \in leases \cup ended \/ Known(a)

Held == \A a \in leases : a \in registry \cup unheard \/ Known(a) \/ Created(a)

Requeued == \A l \in loops : l.kind = "retry" => \A c \in Range(l.list) : c.lease \in Queued \/ c.lease \notin leases

TabInv == Typed /\ Given /\ Served /\ Waited /\ Completed /\ Accounted /\ Held /\ Requeued /\ NoCloseIsAbandoned

-----------------------------------------------------------------------------
(* Lists of closes *)

(* A set of naturals has a least element.                                  *)
LEMMA MinIsLeast ==
  ASSUME NEW S \in SUBSET Nat, S # {}
  PROVE  Min(S) \in S /\ \A k \in S : Min(S) <= k
<1>1. \E m \in S : \A k \in S : m <= k
  BY LeastElement
<1> QED
  BY <1>1 DEF Min

(* What is left of a list, and what was skipped: the closes before the     *)
(* first that is not confirmed are.                                        *)
LEMMA LeftOf ==
  ASSUME NEW done \in [Lease -> Strength], NEW list \in Seq(Closing)
  PROVE  /\ Left(done, list) \in Seq(Closing)
         /\ Range(Left(done, list)) \subseteq Range(list)
         /\ \A c \in Range(list) : c \in Range(Left(done, list)) \/ c.lease \in Skipped(done, list)
         /\ \A a \in Skipped(done, list) :
               /\ a \in Lease /\ done[a] # "none"
               /\ \E c \in Range(list) : c.lease = a
<1> DEFINE open == {i \in DOMAIN list : ~Satisfied(done, list[i])}
<1>0. DOMAIN list = 1..Len(list) /\ Len(list) \in Nat /\ \A i \in 1..Len(list) : list[i] \in Closing
  OBVIOUS
<1>1. ASSUME NEW i \in 1..Len(list), i \notin open
      PROVE  list[i].lease \in Lease /\ done[list[i].lease] # "none" /\ list[i] \in Range(list)
  BY <1>0, <1>1 DEF Satisfied, Closing, Range
<1>2. CASE open = {}
  <2>1. Left(done, list) = <<>>
    BY <1>2 DEF Left
  <2>2. Skipped(done, list) = {list[i].lease : i \in 1..Len(list)}
    BY <2>1, <1>0 DEF Skipped
  <2>3. \A c \in Range(list) : \E i \in 1..Len(list) : c = list[i]
    BY <1>0 DEF Range
  <2>4. Range(<<>>) = {} /\ <<>> \in Seq(Closing)
    <3>1. DOMAIN <<>> = {}
      OBVIOUS
    <3> QED
      BY <3>1 DEF Range
  <2> QED
    BY <2>1, <2>2, <2>3, <2>4, <1>1, <1>2
<1>3. CASE open # {}
  <2> DEFINE m == Min(open)
  <2>1. m \in open /\ \A k \in open : m <= k
    <3>1. open \in SUBSET Nat
      BY <1>0
    <3> QED
      BY <1>3, <3>1, MinIsLeast
  <2>2. Left(done, list) = SubSeq(list, m, Len(list))
    BY <1>3 DEF Left
  <2>9. open \subseteq 1..Len(list)
    BY <1>0
  <2> HIDE DEF m, open
  <2>3. m \in 1..Len(list) /\ \A i \in 1..(m - 1) : i \notin open
    BY <2>1, <1>0, <2>9
  <2> DEFINE left == SubSeq(list, m, Len(list))
  <2>4. /\ left \in Seq(Closing) /\ Len(left) = Len(list) - m + 1
        /\ \A i \in 1..(Len(list) - m + 1) : left[i] = list[m + i - 1]
    BY <1>0, <2>3, SubSeqProperties
  <2>5. Skipped(done, list) = {list[i].lease : i \in 1..(m - 1)}
    BY <2>2, <2>4, <2>3, <1>0 DEF Skipped
  <2>6. ASSUME NEW c \in Range(left) PROVE c \in Range(list)
    <3>1. PICK i \in 1..(Len(list) - m + 1) : c = left[i]
      BY <2>4 DEF Range
    <3>2. c = list[m + i - 1] /\ m + i - 1 \in 1..Len(list)
      BY <3>1, <2>3, <2>4, <1>0
    <3> QED
      BY <3>2, <1>0 DEF Range
  <2>7. ASSUME NEW c \in Range(list) PROVE c \in Range(left) \/ c.lease \in Skipped(done, list)
    <3>1. PICK i \in 1..Len(list) : c = list[i]
      BY <1>0 DEF Range
    <3>2. CASE i < m
      BY <3>1, <3>2, <2>3, <2>5
    <3>3. CASE ~(i < m)
      <4>1. i - m + 1 \in 1..(Len(list) - m + 1) /\ m + (i - m + 1) - 1 = i
        BY <3>1, <3>3, <2>3, <1>0
      <4>2. left[i - m + 1] = c
        BY <4>1, <2>4, <3>1
      <4>3. DOMAIN left = 1..(Len(list) - m + 1)
        BY <2>4
      <4> HIDE DEF left
      <4> QED
        BY <4>1, <4>2, <4>3 DEF Range
    <3> QED
      BY <3>2, <3>3
  <2>8. ASSUME NEW a \in Skipped(done, list)
        PROVE  a \in Lease /\ done[a] # "none" /\ \E c \in Range(list) : c.lease = a
    <3>1. PICK i \in 1..(m - 1) : a = list[i].lease
      BY <2>5
    <3>2. i \in 1..Len(list) /\ i \notin open
      BY <2>3, <1>0
    <3> QED
      BY <3>1, <3>2, <1>1
  <2> QED
    BY <2>2, <2>4, <2>6, <2>7, <2>8
<1> QED
  BY <1>2, <1>3

(* A finite set of closes as a list.                                       *)
LEMMA ListOf ==
  ASSUME NEW S \in SUBSET Closing, IsFiniteSet(S)
  PROVE  SetToSeq(S) \in Seq(S) /\ SetToSeq(S) \in Seq(Closing) /\ Range(SetToSeq(S)) = S
<1> DEFINE n == Cardinality(S)
<1>1. n \in Nat /\ ExistsBijection(1..n, S)
  BY FS_CardinalityType
<1>2. PICK f \in [1..n -> S] : IsInjective(f)
  BY <1>1 DEF ExistsBijection, Bijection, Injection, IsInjective
<1>3. SetToSeq(S) \in [1..n -> S] /\ IsInjective(SetToSeq(S))
  BY <1>2 DEF SetToSeq
<1> DEFINE g == SetToSeq(S)
<1> HIDE DEF g
<1>4. g \in [1..n -> S] /\ g \in Injection(1..n, S)
  BY <1>3 DEF Injection, g, IsInjective
<1>5. IsFiniteSet(1..n) /\ Cardinality(1..n) = n
  BY <1>1, FS_Interval
<1>6. g \in Surjection(1..n, S)
  BY <1>4, <1>5, FS_Injection
<1>7. Range(g) = S
  BY <1>4, <1>6 DEF Surjection, Range
<1>8. g \in Seq(S) /\ g \in Seq(Closing)
  BY <1>1, <1>4
<1> QED
  BY <1>7, <1>8 DEF g

LEMMA LeasesAreFinite ==
  ASSUME NEW A \in SUBSET Lease
  PROVE  IsFiniteSet(A)
<1>1. IsFiniteSet(Lease)
  BY FS_Interval, TabAssumption DEF Lease
<1> QED
  BY <1>1, FS_Subset

LEMMA ClosesList ==
  ASSUME NEW A \in SUBSET Lease, NEW s \in {"weak", "strong"}
  PROVE  /\ Closes(A, s) \in Seq(Closing)
         /\ Range(Closes(A, s)) = {[lease |-> a, strength |-> s] : a \in A}
<1> DEFINE S == {[lease |-> a, strength |-> s] : a \in A}
<1>1. S \in SUBSET Closing
  BY DEF Closing
<1>2. IsFiniteSet(S)
  <2>1. IsFiniteSet(A)
    BY LeasesAreFinite
  <2> DEFINE f == [a \in A |-> [lease |-> a, strength |-> s]]
  <2>2. f \in Surjection(A, S)
    BY DEF Surjection
  <2> QED
    BY <2>1, <2>2, FS_Surjection
<1> QED
  BY <1>1, <1>2, ListOf DEF Closes

-----------------------------------------------------------------------------
(* What begins: loops, and the DELETEs of their heads *)

Running(new) == {l \in {[m EXCEPT !.list = Left(confirmed, m.list)] : m \in new} : l.list # <<>>}
SkippedOf(new) == UNION {Skipped(confirmed, l.list) : l \in new}

LEMMA Runs ==
  ASSUME Typed, NEW new \in SUBSET Loop
  PROVE  /\ Running(new) \subseteq Loop
         /\ \A l \in Running(new) : l.list # <<>> /\ \E m \in new : /\ m.kind = l.kind
                                                                   /\ Range(l.list) \subseteq Range(m.list)
         /\ \A m \in new : \A c \in Range(m.list) :
               c.lease \in SkippedOf(new) \/ \E l \in Running(new) : c \in Range(l.list)
         /\ \A a \in SkippedOf(new) : /\ a \in Lease /\ confirmed[a] # "none"
                                      /\ \E m \in new : \E c \in Range(m.list) : c.lease = a
<1>0. confirmed \in [Lease -> Strength]
  BY DEF Typed, ClosesTyped
<1>1. ASSUME NEW m \in new
      PROVE  /\ [m EXCEPT !.list = Left(confirmed, m.list)] \in Loop
             /\ [m EXCEPT !.list = Left(confirmed, m.list)].kind = m.kind
             /\ [m EXCEPT !.list = Left(confirmed, m.list)].list = Left(confirmed, m.list)
             /\ Range(Left(confirmed, m.list)) \subseteq Range(m.list)
             /\ m.list \in Seq(Closing)
  <2>1. m \in Loop /\ m.list \in Seq(Closing)
    BY DEF Loop
  <2>2. Left(confirmed, m.list) \in Seq(Closing) /\ Range(Left(confirmed, m.list)) \subseteq Range(m.list)
    BY <1>0, <2>1, LeftOf
  <2> QED
    BY <2>1, <2>2 DEF Loop
<1>2. Running(new) \subseteq Loop
  BY <1>1 DEF Running
<1>3. ASSUME NEW l \in Running(new)
      PROVE  l.list # <<>> /\ \E m \in new : m.kind = l.kind /\ Range(l.list) \subseteq Range(m.list)
  <2>1. l.list # <<>> /\ \E m \in new : l = [m EXCEPT !.list = Left(confirmed, m.list)]
    BY DEF Running
  <2>2. PICK m \in new : l = [m EXCEPT !.list = Left(confirmed, m.list)]
    BY <2>1
  <2> QED
    BY <2>1, <2>2, <1>1
<1>4. ASSUME NEW m \in new, NEW c \in Range(m.list)
      PROVE  c.lease \in SkippedOf(new) \/ \E l \in Running(new) : c \in Range(l.list)
  <2>1. c \in Range(Left(confirmed, m.list)) \/ c.lease \in Skipped(confirmed, m.list)
    BY <1>0, <1>1, LeftOf
  <2>2. CASE c.lease \in Skipped(confirmed, m.list)
    BY <2>2 DEF SkippedOf
  <2>3. CASE c \in Range(Left(confirmed, m.list))
    <3>1. Left(confirmed, m.list) # <<>>
      <4>1. Range(<<>>) = {}
        <5>1. DOMAIN <<>> = {}
          OBVIOUS
        <5> QED
          BY <5>1 DEF Range
      <4> QED
        BY <2>3, <4>1
    <3> DEFINE l == [m EXCEPT !.list = Left(confirmed, m.list)]
    <3>2. l.list = Left(confirmed, m.list)
      BY <1>1
    <3>3. l \in Running(new)
      BY <3>1, <3>2 DEF Running
    <3> QED
      BY <2>3, <3>2, <3>3
  <2> QED
    BY <2>1, <2>2, <2>3
<1>5. ASSUME NEW a \in SkippedOf(new)
      PROVE  a \in Lease /\ confirmed[a] # "none" /\ \E m \in new : \E c \in Range(m.list) : c.lease = a
  <2>1. PICK m \in new : a \in Skipped(confirmed, m.list)
    BY DEF SkippedOf
  <2>2. m.list \in Seq(Closing)
    BY <1>1
  <2>3. a \in Lease /\ confirmed[a] # "none" /\ \E c \in Range(m.list) : c.lease = a
    BY <2>1, <2>2, <1>0, LeftOf
  <2> QED
    BY <2>3
<1> QED
  BY <1>2, <1>3, <1>4, <1>5

LEMMA Emits ==
  ASSUME NEW flying \in SUBSET Delete, Unique(flying), NEW wanted \in SUBSET Closing
  PROVE  /\ Emit(flying, wanted) \in SUBSET Delete /\ flying \subseteq Emit(flying, wanted)
         /\ Unique(Emit(flying, wanted))
         /\ \A d \in Emit(flying, wanted) : d \in flying \/
               (d.outcome = "unserved" /\ [lease |-> d.lease, strength |-> d.strength] \in wanted)
<1> DEFINE sent == {c \in wanted : \A d \in flying : d.lease # c.lease \/ d.strength # c.strength}
           new == {[lease |-> c.lease, strength |-> c.strength, outcome |-> "unserved"] : c \in sent}
<1>1. Emit(flying, wanted) = flying \cup new
  BY DEF Emit
<1>2. ASSUME NEW d \in new
      PROVE  /\ d \in Delete /\ d.outcome = "unserved" /\ [lease |-> d.lease, strength |-> d.strength] \in wanted
             /\ \A e \in flying : e.lease # d.lease \/ e.strength # d.strength
             /\ d = [lease |-> d.lease, strength |-> d.strength, outcome |-> "unserved"]
  <2>1. PICK c \in sent : d = [lease |-> c.lease, strength |-> c.strength, outcome |-> "unserved"]
    OBVIOUS
  <2>2. c \in Closing /\ c = [lease |-> c.lease, strength |-> c.strength]
    BY DEF Closing
  <2>3. d \in Delete
    BY <2>1, <2>2 DEF Delete, Closing, Outcome
  <2> QED
    BY <2>1, <2>2, <2>3
<1>3. Unique(flying \cup new)
  <2>1. ASSUME NEW d \in flying \cup new, NEW e \in flying \cup new, d.lease = e.lease, d.strength = e.strength
        PROVE  d = e
    <3>1. CASE d \in flying /\ e \in flying
      BY <2>1, <3>1 DEF Unique
    <3>2. CASE d \in new /\ e \in new
      BY <2>1, <3>2, <1>2
    <3> QED
      BY <2>1, <3>1, <3>2, <1>2
  <2> QED
    BY <2>1 DEF Unique
<1> QED
  BY <1>1, <1>2, <1>3

LEMMA HeadsAreCloses ==
  ASSUME NEW work \in SUBSET Loop, \A l \in work : l.list # <<>>
  PROVE  /\ Heads(work) \in SUBSET Closing
         /\ \A c \in Heads(work) : \E l \in work : Head(l.list) = c
<1>1. ASSUME NEW l \in work PROVE Head(l.list) \in Closing
  BY DEF Loop
<1> QED
  BY <1>1 DEF Heads

-----------------------------------------------------------------------------
(* Steps of the tab: the server has the leases that it had *)

(* What the tab knew it still knows, and of leases only that it was told.  *)
KeepsKnown ==
    /\ \A a \in Lease : Known(a) => Known(a)'
    /\ \A a \in Lease : a \in registry => a \in registry' \/ Known(a)'
    /\ \A a \in Lease : Told(a)' => Told(a)
    /\ \A a \in Lease : Known(a)' \/ a \in kept' => Known(a) \/ a \in kept \/ Told(a)

KeepsGiven ==
    /\ \A a \in Lease : Fresh(a)' => Fresh(a)
    /\ \A a \in leases : a \in unheard \/ Created(a) =>
          a \in registry' \cup unheard' \/ Known(a)' \/ Created(a)'

KeepsServed ==
    /\ \A a \in leases : confirmed'[a] = "none"
    /\ \A a \in retention : confirmed'[a] # "strong"
    /\ \A d \in deletes' : Confirms(d.outcome) => d \in deletes

LEMMA TabStep ==
  ASSUME TabInv, Typed', UNCHANGED <<leases, retention, minted, ended>>,
         KeepsKnown, KeepsGiven, KeepsServed,
         Waited', Completed', Requeued', NoCloseIsAbandoned'
  PROVE  TabInv'
<1>1. Typed /\ leases \subseteq Lease /\ retention \subseteq Lease
  BY DEF TabInv, Typed, WorldTyped
<1>2. Given'
  <2>1. SUFFICES ASSUME NEW a \in Lease, Fresh(a)'
                 PROVE  a \notin (leases \cup retention)' /\ a \notin kept' /\ ~Known(a)' /\ ~Told(a)'
    <3>1. Lease' = Lease
      BY DEF Lease
    <3> QED
      BY <3>1 DEF Given
  <2>2. Fresh(a)
    BY <2>1 DEF KeepsGiven
  <2>3. a \notin leases /\ a \notin retention /\ a \notin kept /\ ~Known(a) /\ ~Told(a)
    BY <2>2 DEF TabInv, Given
  <2> QED
    BY <2>3 DEF KeepsKnown
<1>3. Served'
  BY DEF TabInv, Served, KeepsServed
<1>4. Accounted'
  <2>1. SUFFICES ASSUME NEW a \in Lease, Told(a)' PROVE a \in (leases \cup ended)' \/ Known(a)'
    BY DEF Accounted, Lease
  <2>2. a \in leases \cup ended \/ Known(a)
    BY <2>1 DEF TabInv, Accounted, KeepsKnown
  <2> QED
    BY <2>2 DEF KeepsKnown
<1>5. Held'
  <2>1. SUFFICES ASSUME NEW a \in leases PROVE a \in (registry \cup unheard)' \/ Known(a)' \/ Created(a)'
    BY DEF Held
  <2>2. a \in Lease
    BY <1>1
  <2>3. a \in registry \/ a \in unheard \/ Known(a) \/ Created(a)
    BY DEF TabInv, Held
  <2> QED
    BY <2>2, <2>3 DEF KeepsKnown, KeepsGiven
<1> QED
  BY <1>2, <1>3, <1>4, <1>5 DEF TabInv

(* OpenLoops, where the registry was `reg`, and the heartbeat's retries.   *)
Opening(new, flying, reg) ==
    /\ loops' = loops \cup Running(new)
    /\ registry' = reg \ SkippedOf(new)
    /\ pending' = [a \in Lease |-> IF a \in SkippedOf(new) THEN "none" ELSE pending[a]]
    /\ \E work \in SUBSET Running(new) : deletes' = Emit(flying, Heads(work))

(* What is sent before the loops begin: it is waited for by a transition.  *)
SentFirst(flying) ==
    /\ deletes \subseteq flying /\ Unique(flying)
    /\ \A d \in flying : /\ d \in deletes \/ (d.outcome = "unserved" /\ Told(d.lease))
                         /\ AwaitedIn(d, loops, batches')
MoreBatches ==
    /\ batches' \subseteq Batch /\ batches \subseteq batches'
    /\ \A b \in batches' : b \in batches \/
          /\ \A a \in b.waits \cup b.done \cup b.failed : Told(a)
          /\ \A a \in b.done : confirmed[a] # "none"
KnownLoops(new) ==
    \A m \in new : \A c \in Range(m.list) :
        /\ Known(c.lease) \/ c.lease \in kept \/ Told(c.lease)
        /\ m.kind = "retry" => c.lease \in Queued

LEMMA OpensAll ==
  ASSUME TabInv, NEW new \in SUBSET Loop, NEW flying \in SUBSET Delete, NEW reg \in SUBSET Lease,
         Opening(new, flying, reg), SentFirst(flying), MoreBatches, KnownLoops(new),
         registry \subseteq reg, \A a \in reg : Told(a),
         UNCHANGED <<confirmed, kept, armed, leases>>
  PROVE  /\ ClosesTyped' /\ Waited' /\ Completed' /\ Requeued' /\ NoCloseIsAbandoned'
         /\ \A a \in Lease : Known(a) => Known(a)'
         /\ \A a \in Lease : a \in reg => a \in registry' \/ Known(a)'
         /\ \A m \in new : \A c \in Range(m.list) : Known(c.lease)'
         /\ \A a \in Lease : Known(a)' => Known(a) \/ a \in kept \/ Told(a)
         /\ \A d \in deletes' : Confirms(d.outcome) => d \in deletes
<1> DEFINE skip == SkippedOf(new)
<1>1. Typed /\ ClosesTyped
  BY DEF TabInv, Typed
<1>2. /\ Running(new) \subseteq Loop /\ \A l \in Running(new) : l.list # <<>>
      /\ \A a \in skip : a \in Lease /\ confirmed[a] # "none"
  BY <1>1, Runs
<1>3. PICK work \in SUBSET Running(new) : deletes' = Emit(flying, Heads(work))
  BY DEF Opening
<1>4. /\ Heads(work) \in SUBSET Closing
      /\ \A c \in Heads(work) : \E l \in work : Head(l.list) = c
  <2>1. work \in SUBSET Loop /\ \A l \in work : l.list # <<>>
    BY <1>2
  <2> QED
    BY <2>1, HeadsAreCloses
<1>5. /\ deletes' \in SUBSET Delete /\ flying \subseteq deletes' /\ Unique(deletes')
      /\ \A d \in deletes' : d \in flying \/
            (d.outcome = "unserved" /\ [lease |-> d.lease, strength |-> d.strength] \in Heads(work))
  BY <1>3, <1>4, Emits DEF SentFirst
<1>6. ClosesTyped'
  <2>1. pending' \in [Lease -> Strength]
    BY <1>1 DEF Opening, ClosesTyped, Strength
  <2>2. loops' \subseteq Loop /\ \A l \in loops' : l.list # <<>>
    BY <1>1, <1>2 DEF Opening, ClosesTyped
  <2>3. registry' \subseteq Lease
    BY DEF Opening
  <2> QED
    BY <1>1, <1>5, <2>1, <2>2, <2>3 DEF ClosesTyped, MoreBatches, Lease, Loop, Batch, Delete, Closing
<1>7. loops' = loops \cup Running(new)
  BY DEF Opening
<1>8. ASSUME NEW d \in deletes' PROVE AwaitedIn(d, loops', batches')
  <2>1. CASE d \in flying
    <3>1. AwaitedIn(d, loops, batches')
      BY <2>1 DEF SentFirst
    <3> QED
      BY <3>1, <1>7 DEF AwaitedIn
  <2>2. CASE [lease |-> d.lease, strength |-> d.strength] \in Heads(work)
    <3>1. PICK l \in work : Head(l.list) = [lease |-> d.lease, strength |-> d.strength]
      BY <1>4, <2>2
    <3> QED
      BY <3>1, <1>7 DEF AwaitedIn
  <2> QED
    BY <2>1, <2>2, <1>5
<1>9. Waited'
  BY <1>5, <1>8 DEF Waited
<1>10. Completed'
  BY DEF Completed, MoreBatches, TabInv
<1>11. ASSUME NEW a \in Lease
       PROVE  /\ a \in Queued => a \in Queued' \/ a \in skip
              /\ a \in Queued' => a \in Queued
  BY DEF Opening, Queued, Lease
<1>12. ASSUME NEW a \in skip PROVE a \notin leases
  BY <1>2 DEF TabInv, Served
<1>13. Requeued'
  <2>1. SUFFICES ASSUME NEW l \in loops', l.kind = "retry", NEW c \in Range(l.list)
                 PROVE  c.lease \in Queued' \/ c.lease \notin leases
    BY DEF Requeued
  <2>2. c.lease \in Queued \/ c.lease \notin leases
    <3>1. CASE l \in loops
      BY <2>1, <3>1 DEF TabInv, Requeued
    <3>2. CASE l \in Running(new)
      <4>1. PICK m \in new : m.kind = l.kind /\ Range(l.list) \subseteq Range(m.list)
        BY <3>2, <1>1, Runs
      <4> QED
        BY <4>1, <2>1 DEF KnownLoops
    <3> QED
      BY <1>7, <3>1, <3>2
  <2> QED
    BY <2>2, <1>11, <1>12 DEF Queued
<1>14. NoCloseIsAbandoned'
  <2>1. SUFFICES ASSUME (Queued \cap leases)' # {}
                 PROVE  armed' \/ \E l \in loops' : l.kind # "retry"
    BY DEF NoCloseIsAbandoned
  <2>2. Queued \cap leases # {}
    BY <2>1, <1>11 DEF Queued, Lease
  <2> QED
    BY <2>2, <1>7 DEF NoCloseIsAbandoned, TabInv
<1>15. ASSUME NEW a \in Lease, InClosing(a) PROVE InClosing(a)'
  BY <1>15, <1>5, <1>7 DEF InClosing, SentFirst, MoreBatches
<1>16. \A a \in Lease : Known(a) => Known(a)'
  BY <1>11, <1>15, <1>2 DEF Known
<1>17. \A a \in Lease : a \in reg => a \in registry' \/ Known(a)'
  BY <1>2 DEF Known, Opening
<1>18. ASSUME NEW m \in new, NEW c \in Range(m.list) PROVE Known(c.lease)'
  <2>1. c.lease \in skip \/ \E l \in Running(new) : c \in Range(l.list)
    BY <1>1, Runs
  <2>2. CASE c.lease \in skip
    BY <2>2, <1>2 DEF Known
  <2>3. CASE \E l \in Running(new) : c \in Range(l.list)
    BY <2>3, <1>7 DEF Known, InClosing
  <2> QED
    BY <2>1, <2>2, <2>3
<1>19. ASSUME NEW a \in Lease, Known(a)' PROVE Known(a) \/ a \in kept \/ Told(a)
  <2>1. CASE a \in Queued' \/ confirmed'[a] # "none"
    BY <2>1, <1>11 DEF Known
  <2>2. CASE \E d \in deletes' : d.lease = a
    <3>1. PICK d \in deletes' : d.lease = a
      BY <2>2
    <3>2. CASE d \in flying
      BY <3>1, <3>2 DEF SentFirst, Known, InClosing
    <3>3. CASE [lease |-> d.lease, strength |-> d.strength] \in Heads(work)
      <4>1. PICK l \in work : Head(l.list) = [lease |-> d.lease, strength |-> d.strength]
        BY <1>4, <3>3
      <4>2. l \in Running(new) /\ l.list # <<>> /\ l.list \in Seq(Closing)
        BY <1>2 DEF Loop
      <4>3. Head(l.list) \in Range(l.list)
        BY <4>2 DEF Range
      <4>4. PICK m \in new : Range(l.list) \subseteq Range(m.list)
        BY <4>2, <1>1, Runs
      <4>5. Head(l.list) \in Range(m.list) /\ Head(l.list).lease = a
        BY <4>1, <4>3, <4>4, <3>1
      <4> QED
        BY <4>5 DEF KnownLoops
    <3> QED
      BY <3>2, <3>3, <1>5
  <2>3. CASE \E l \in loops' : \E c \in Range(l.list) : c.lease = a
    <3>1. PICK l \in loops' : \E c \in Range(l.list) : c.lease = a
      BY <2>3
    <3>2. CASE l \in loops
      BY <3>1, <3>2 DEF Known, InClosing
    <3>3. CASE l \in Running(new)
      <4>1. PICK m \in new : Range(l.list) \subseteq Range(m.list)
        BY <3>3, <1>1, Runs
      <4> QED
        BY <3>1, <4>1 DEF KnownLoops
    <3> QED
      BY <3>2, <3>3, <1>7
  <2>4. CASE \E b \in batches' : a \in b.waits \cup b.done \cup b.failed
    <3>1. PICK b \in batches' : a \in b.waits \cup b.done \cup b.failed
      BY <2>4
    <3>2. CASE b \in batches
      BY <3>1, <3>2 DEF Known, InClosing
    <3> QED
      BY <3>1, <3>2 DEF MoreBatches
  <2> QED
    BY <1>19, <2>1, <2>2, <2>3, <2>4 DEF Known, InClosing
<1>20. \A d \in deletes' : Confirms(d.outcome) => d \in deletes
  BY <1>5 DEF SentFirst, Confirms
<1> QED
  BY <1>6, <1>9, <1>10, <1>13, <1>14, <1>16, <1>17, <1>18, <1>19, <1>20

(* A step of the tab that begins closes, or that only notes something.     *)
Notes(reg, new) ==
    /\ WorldTyped' /\ beat'.ids \subseteq beat.ids
    /\ \A a \in Lease : Created(a)' => Created(a)
    /\ \A a \in Lease : Fresh(a)' => Fresh(a)
    /\ \A a \in leases : a \in unheard => a \in unheard' \cup reg
    /\ \A a \in leases : Created(a) =>
          \/ Created(a)' \/ a \in unheard' \cup reg
          \/ \E m \in new : \E c \in Range(m.list) : c.lease = a

LEMMA OpensStep ==
  ASSUME TabInv, NEW new \in SUBSET Loop, NEW flying \in SUBSET Delete, NEW reg \in SUBSET Lease,
         Opening(new, flying, reg), SentFirst(flying), MoreBatches, KnownLoops(new),
         registry \subseteq reg, \A a \in reg : Told(a),
         UNCHANGED <<confirmed, kept, armed, leases, retention, minted, ended>>,
         Notes(reg, new)
  PROVE  TabInv'
<1>1. /\ ClosesTyped' /\ Waited' /\ Completed' /\ Requeued' /\ NoCloseIsAbandoned'
      /\ \A a \in Lease : Known(a) => Known(a)'
      /\ \A a \in Lease : a \in reg => a \in registry' \/ Known(a)'
      /\ \A m \in new : \A c \in Range(m.list) : Known(c.lease)'
      /\ \A a \in Lease : Known(a)' => Known(a) \/ a \in kept \/ Told(a)
      /\ \A d \in deletes' : Confirms(d.outcome) => d \in deletes
  BY OpensAll
<1>2. Typed' /\ registry' \subseteq reg /\ leases \subseteq Lease
  BY <1>1 DEF Typed, Notes, Opening, TabInv, WorldTyped
<1>3. KeepsKnown
  <2>1. ASSUME NEW a \in Lease, Told(a)' PROVE Told(a)
    BY <2>1, <1>2 DEF Told, Notes
  <2> QED
    BY <1>1, <2>1 DEF KeepsKnown
<1>4. KeepsGiven
  <2>1. ASSUME NEW a \in leases, a \in unheard \/ Created(a)
        PROVE  a \in registry' \cup unheard' \/ Known(a)' \/ Created(a)'
    BY <2>1, <1>1, <1>2 DEF Notes
  <2> QED
    BY <2>1 DEF KeepsGiven, Notes
<1>5. KeepsServed
  BY <1>1 DEF KeepsServed, TabInv, Served
<1> QED
  BY <1>1, <1>2, <1>3, <1>4, <1>5, TabStep

LEMMA OpenLoopsOpens ==
  ASSUME NEW new, NEW flying, OpenLoops(new, flying)
  PROVE  Opening(new, flying, registry)
BY DEF OpenLoops, Opening, Running, SkippedOf

LEMMA NothingOpens ==
  ASSUME TabInv, NEW reg, registry' = reg, UNCHANGED <<pending, loops, deletes>>
  PROVE  Opening({}, deletes, reg)
<1>1. Running({}) = {} /\ SkippedOf({}) = {}
  BY DEF Running, SkippedOf
<1>2. Emit(deletes, Heads({})) = deletes
  BY DEF Emit, Heads
<1>3. pending' = [a \in Lease |-> IF a \in SkippedOf({}) THEN "none" ELSE pending[a]]
  BY <1>1 DEF TabInv, Typed, ClosesTyped
<1> QED
  BY <1>1, <1>2, <1>3 DEF Opening

LEMMA SentBefore ==
  ASSUME TabInv, UNCHANGED batches
  PROVE  SentFirst(deletes) /\ MoreBatches /\ deletes \in SUBSET Delete /\ registry \in SUBSET Lease
         /\ \A a \in registry : Told(a)
BY DEF TabInv, Waited, SentFirst, MoreBatches, Typed, ClosesTyped, Told, Batch, Lease

(* The list of what is to be repeated.                                     *)
LEMMA RetryLoopOf ==
  ASSUME TabInv
  PROVE  RetryLoop \in SUBSET Loop /\ KnownLoops(RetryLoop)
<1> DEFINE S == {[lease |-> a, strength |-> pending[a]] : a \in Queued}
<1>1. S \in SUBSET Closing
  BY DEF TabInv, Typed, ClosesTyped, Closing, Queued, Strength
<1>2. IsFiniteSet(S)
  <2>1. IsFiniteSet(Queued)
    BY LeasesAreFinite DEF Queued
  <2> DEFINE f == [a \in Queued |-> [lease |-> a, strength |-> pending[a]]]
  <2>2. f \in Surjection(Queued, S)
    BY DEF Surjection
  <2> QED
    BY <2>1, <2>2, FS_Surjection
<1>3. SetToSeq(S) \in Seq(Closing) /\ Range(SetToSeq(S)) = S
  BY <1>1, <1>2, ListOf
<1>4. RetryLoop \subseteq {[kind |-> "retry", list |-> SetToSeq(S)]}
  BY DEF RetryLoop
<1>5. [kind |-> "retry", list |-> SetToSeq(S)] \in Loop
  BY <1>3 DEF Loop
<1>6. ASSUME NEW m \in RetryLoop, NEW c \in Range(m.list) PROVE c.lease \in Queued
  <2>1. m.list = SetToSeq(S)
    BY <1>4
  <2>2. c \in S
    BY <1>3, <2>1
  <2> QED
    BY <2>2
<1>7. KnownLoops(RetryLoop)
  BY <1>6 DEF KnownLoops, Known
<1>8. RetryLoop \in SUBSET Loop
  BY <1>4, <1>5
<1> QED
  BY <1>7, <1>8

(* Closes of the same strength, of leases that the tab knows.              *)
LEMMA ClosesLoop ==
  ASSUME TabInv, NEW A \in SUBSET Lease, NEW s \in {"weak", "strong"},
         NEW kind \in {"exact", "stale", "slot"},
         \A a \in A : a \in kept \/ Told(a)
  PROVE  /\ {[kind |-> kind, list |-> Closes(A, s)]} \in SUBSET Loop
         /\ KnownLoops({[kind |-> kind, list |-> Closes(A, s)]})
         /\ \A a \in A : \E m \in {[kind |-> kind, list |-> Closes(A, s)]} :
                \E c \in Range(m.list) : c.lease = a
<1>1. Closes(A, s) \in Seq(Closing) /\ Range(Closes(A, s)) = {[lease |-> a, strength |-> s] : a \in A}
  BY ClosesList
<1> DEFINE l == [kind |-> kind, list |-> Closes(A, s)]
<1>2. l \in Loop /\ l.kind # "retry" /\ l.list = Closes(A, s)
  BY <1>1 DEF Loop
<1>3. ASSUME NEW c \in Range(l.list) PROVE c.lease \in A
  BY <1>1, <1>2
<1>4. ASSUME NEW a \in A PROVE \E c \in Range(l.list) : c.lease = a
  <2>1. [lease |-> a, strength |-> s] \in Range(l.list)
    BY <1>1, <1>2
  <2> QED
    BY <2>1
<1> QED
  BY <1>2, <1>3, <1>4 DEF KnownLoops

(* The leases, requests and answers of a step that changes none of them.   *)
LEMMA SameFresh ==
  ASSUME UNCHANGED <<start, minted>>
  PROVE  /\ \A a \in Lease : Fresh(a)' <=> Fresh(a)
         /\ \A a \in Lease : Created(a)' <=> Created(a)
BY DEF Fresh, Created, Start, Lease

LEMMA RetryTickOK ==
  ASSUME TabInv, RetryTick
  PROVE  TabInv'
<1>1. UNCHANGED <<page, start, beat, confirmed, kept, batches, leases, retention, minted,
                  closes, unheard, ended, faults>>
  BY DEF RetryTick, server, history
<1>2. WorldTyped' /\ Typed
  BY <1>1 DEF TabInv, Typed, WorldTyped, Lease, Start
<1>3. CASE Queued = {} /\ armed' = FALSE /\ UNCHANGED <<loops, registry, pending, deletes>>
  <2>1. Typed'
    BY <1>1, <1>2, <1>3 DEF Typed, ClosesTyped, Lease, Loop, Batch, Delete, Closing
  <2>2. \A a \in Lease : Known(a)' <=> Known(a)
    BY <1>1, <1>3 DEF Known, InClosing, Queued
  <2>3. \A a \in Lease : Told(a)' <=> Told(a)
    BY <1>1, <1>3, SameFresh DEF Told
  <2>4. KeepsKnown
    BY <1>1, <1>3, <2>2, <2>3 DEF KeepsKnown
  <2>5. KeepsGiven
    BY <1>1, SameFresh, <1>2 DEF KeepsGiven, Typed, WorldTyped
  <2>6. KeepsServed
    BY <1>1, <1>3 DEF KeepsServed, TabInv, Served
  <2>7. Waited' /\ Completed' /\ Requeued' /\ NoCloseIsAbandoned'
    BY <1>1, <1>3 DEF TabInv, Waited, Completed, Requeued, NoCloseIsAbandoned, Queued, AwaitedIn, Lease
  <2> QED
    BY <1>1, <2>1, <2>4, <2>5, <2>6, <2>7, TabStep
<1>4. CASE OpenLoops(RetryLoop, deletes) /\ UNCHANGED armed
  <2>1. Opening(RetryLoop, deletes, registry)
    BY <1>4, OpenLoopsOpens
  <2>2. Notes(registry, RetryLoop)
    BY <1>1, <1>2, SameFresh DEF Notes, Typed, WorldTyped
  <2> QED
    BY <1>1, <1>4, <2>1, <2>2, SentBefore, RetryLoopOf, OpensStep
<1> QED
  BY <1>3, <1>4 DEF RetryTick

LEMMA MoveOK ==
  ASSUME TabInv, Move
  PROVE  TabInv'
<1> DEFINE asked == {a \in registry : confirmed[a] # "strong"}
           orphans == IF registry = {} THEN {} ELSE kept
           batch == [token |-> page'.token, waits |-> asked, done |-> registry \ asked, failed |-> {}]
           wanted == Range(Closes(asked, "strong"))
           flying == Emit(deletes, wanted)
           new == {[kind |-> "exact", list |-> Closes({a}, "strong")] : a \in orphans}
<1>1. /\ page.token < MaxMoves
      /\ page' = [page EXCEPT !.token = page.token + 1, !.stage = "closing", !.due = FALSE]
      /\ beat' = NoBeat
      /\ batches' = batches \cup {batch}
      /\ OpenLoops(new, flying)
      /\ UNCHANGED <<start, confirmed, kept, armed, leases, retention, minted,
                     closes, unheard, ended, faults>>
  BY DEF Move, server, history
<1>2. /\ Typed /\ WorldTyped /\ ClosesTyped /\ registry \in SUBSET Lease
      /\ asked \in SUBSET Lease /\ orphans \in SUBSET Lease
  BY DEF TabInv, Typed, ClosesTyped
<1>3. page'.token \in 0..MaxMoves /\ WorldTyped'
  <2>1. page.token + 1 \in 0..MaxMoves
    BY <1>1, <1>2, TabAssumption DEF WorldTyped
  <2>2. /\ page' \in [token : 0..MaxMoves, stage : {"settled", "closing", "publishing"},
                       shown : BOOLEAN, due : BOOLEAN, starting : BOOLEAN]
        /\ page'.token \in 0..MaxMoves
    BY <2>1, <1>1, <1>2 DEF WorldTyped
  <2>3. beat' \in [phase : {"idle", "sent", "answered"}, ids : SUBSET Lease]
    BY <1>1 DEF NoBeat
  <2> QED
    BY <2>2, <2>3, <1>1, <1>2 DEF WorldTyped, Lease, Start
<1>4. Opening(new, flying, registry)
  BY <1>1, OpenLoopsOpens
<1>5. batch \in Batch /\ batch.waits = asked /\ batch.done = registry \ asked /\ batch.failed = {}
  BY <1>2, <1>3 DEF Batch
<1>6. MoreBatches
  <2>1. \A a \in batch.waits \cup batch.done \cup batch.failed : Told(a)
    BY <1>5 DEF Told
  <2>2. \A a \in batch.done : confirmed[a] # "none"
    BY <1>5
  <2> HIDE DEF batch
  <2> QED
    BY <1>1, <1>2, <1>5, <2>1, <2>2 DEF MoreBatches, ClosesTyped, Batch, Lease
<1>7. /\ wanted \in SUBSET Closing
      /\ \A c \in wanted : c.strength = "strong" /\ c.lease \in asked
  <2>1. wanted = {[lease |-> a, strength |-> "strong"] : a \in asked}
    BY <1>2, ClosesList
  <2> QED
    BY <1>2, <2>1 DEF Closing
<1>8. /\ flying \in SUBSET Delete /\ deletes \subseteq flying /\ Unique(flying)
      /\ \A d \in flying : d \in deletes \/
            (d.outcome = "unserved" /\ [lease |-> d.lease, strength |-> d.strength] \in wanted)
  <2>1. deletes \in SUBSET Delete /\ Unique(deletes)
    BY <1>2 DEF ClosesTyped, TabInv, Waited
  <2> HIDE DEF wanted
  <2> QED
    BY <2>1, <1>7, Emits
<1>9. ASSUME NEW d \in flying
      PROVE  /\ d \in deletes \/ (d.outcome = "unserved" /\ Told(d.lease))
             /\ AwaitedIn(d, loops, batches')
  <2>1. CASE d \in deletes
    <3>1. AwaitedIn(d, loops, batches)
      BY <2>1 DEF TabInv, Waited
    <3> QED
      BY <2>1, <3>1, <1>1 DEF AwaitedIn
  <2>2. CASE d.outcome = "unserved" /\ [lease |-> d.lease, strength |-> d.strength] \in wanted
    <3>1. d.lease \in asked /\ d.strength = "strong"
      BY <2>2, <1>7
    <3>2. AwaitedIn(d, loops, batches')
      BY <3>1, <1>1, <1>5 DEF AwaitedIn
    <3> QED
      BY <2>2, <3>1, <3>2 DEF Told
  <2> QED
    BY <2>1, <2>2, <1>8
<1>10. SentFirst(flying)
  BY <1>8, <1>9 DEF SentFirst
<1>11. ASSUME NEW m \in new
       PROVE  m \in Loop /\ KnownLoops({m})
  <2>1. PICK a \in orphans : m = [kind |-> "exact", list |-> Closes({a}, "strong")]
    OBVIOUS
  <2>2. {a} \in SUBSET Lease /\ \A b \in {a} : b \in kept \/ Told(b)
    BY <1>2
  <2> QED
    BY <2>1, <2>2, ClosesLoop
<1>12. new \in SUBSET Loop /\ KnownLoops(new)
  BY <1>11 DEF KnownLoops
<1>13. Notes(registry, new)
  <2>1. beat'.ids \subseteq beat.ids
    BY <1>1 DEF NoBeat
  <2> QED
    BY <1>1, <1>2, <1>3, <2>1, SameFresh DEF Notes, WorldTyped
<1> HIDE DEF flying, new
<1> QED
  BY <1>1, <1>2, <1>4, <1>6, <1>8, <1>10, <1>12, <1>13, SentBefore, OpensStep DEF Told

LEMMA AppliedOK ==
  ASSUME TabInv, NEW a \in Start, Applied(a)
  PROVE  TabInv'
<1>1. /\ start[a].phase \in {"created", "refused"}
      /\ start' = [start EXCEPT ![a].phase = "done"]
      /\ page' = [page EXCEPT !.starting = FALSE]
      /\ UNCHANGED <<beat, confirmed, kept, batches, armed, leases, retention, minted,
                     closes, unheard, ended, faults>>
  BY DEF Applied, server, history
<1>2. /\ Typed /\ WorldTyped /\ WorldTyped' /\ a \in Lease
  <2>1. WorldTyped /\ Typed
    BY DEF TabInv, Typed
  <2>2. /\ page' \in [token : 0..MaxMoves, stage : {"settled", "closing", "publishing"},
                       shown : BOOLEAN, due : BOOLEAN, starting : BOOLEAN]
    BY <1>1, <2>1 DEF WorldTyped
  <2>3. start' \in [Start -> [phase : {"none", "sent", "deaf", "created", "refused", "done"},
                              token : 0..MaxMoves]]
    BY <1>1, <2>1 DEF WorldTyped
  <2>4. a \in Lease
    BY TabAssumption DEF Lease, Start
  <2> QED
    BY <1>1, <2>1, <2>2, <2>3, <2>4 DEF WorldTyped, Lease, Start
<1>3. ASSUME NEW b \in Lease
      PROVE  /\ Fresh(b)' => Fresh(b)
             /\ Created(b)' => Created(b)
             /\ Created(b) => Created(b)' \/ b = a
  BY <1>1, <1>2 DEF Fresh, Created, Start, WorldTyped
<1>4. CASE start[a].phase = "created" /\ start[a].token = page.token
  <2>1. registry' = registry \cup {a} /\ UNCHANGED <<pending, loops, deletes>>
    BY <1>4 DEF Applied
  <2>2. Opening({}, deletes, registry \cup {a})
    BY <2>1, NothingOpens
  <2>3. registry \cup {a} \in SUBSET Lease /\ \A b \in registry \cup {a} : Told(b)
    BY <1>2, <1>4 DEF Typed, ClosesTyped, Told, Created
  <2>4. Notes(registry \cup {a}, {})
    BY <1>1, <1>2, <1>3 DEF Notes, WorldTyped
  <2>5. KnownLoops({}) /\ {} \in SUBSET Loop
    BY DEF KnownLoops
  <2> QED
    BY <1>1, <2>2, <2>3, <2>4, <2>5, SentBefore, OpensStep
<1>5. CASE start[a].phase = "created" /\ start[a].token # page.token
  <2> DEFINE new == {[kind |-> "stale", list |-> Closes({a}, "strong")]}
  <2>1. OpenLoops(new, deletes)
    BY <1>5 DEF Applied
  <2>2. Told(a) /\ {a} \in SUBSET Lease
    BY <1>2, <1>5 DEF Told, Created
  <2>3. /\ new \in SUBSET Loop /\ KnownLoops(new)
        /\ \E m \in new : \E c \in Range(m.list) : c.lease = a
    BY <2>2, ClosesLoop
  <2> HIDE DEF new
  <2>4. Opening(new, deletes, registry)
    BY <2>1, OpenLoopsOpens
  <2>5. Notes(registry, new)
    BY <1>1, <1>2, <1>3, <2>3 DEF Notes, WorldTyped
  <2> QED
    BY <1>1, <2>3, <2>4, <2>5, SentBefore, OpensStep
<1>6. CASE start[a].phase = "refused"
  <2>1. OpenLoops({}, deletes)
    BY <1>6 DEF Applied
  <2>2. Opening({}, deletes, registry)
    BY <2>1, OpenLoopsOpens
  <2>3. ~Created(a)
    BY <1>6 DEF Created
  <2>4. Notes(registry, {})
    BY <1>1, <1>2, <1>3, <2>3 DEF Notes, WorldTyped
  <2>5. KnownLoops({}) /\ {} \in SUBSET Loop
    BY DEF KnownLoops
  <2> QED
    BY <1>1, <2>2, <2>4, <2>5, SentBefore, OpensStep
<1> QED
  BY <1>1, <1>4, <1>5, <1>6

LEMMA CloseSlotOK ==
  ASSUME TabInv, NEW s \in {"weak", "strong"}, NEW again \in BOOLEAN, CloseSlot(s, again)
  PROVE  TabInv'
<1> DEFINE new == IF registry = {} THEN {} ELSE {[kind |-> "slot", list |-> Closes(registry, s)]}
<1>1. /\ page' = [page EXCEPT !.starting = page.starting /\ ~again, !.due = page.due \/ again]
      /\ OpenLoops(new, deletes)
      /\ UNCHANGED <<start, beat, confirmed, kept, batches, armed, leases, retention, minted,
                     unheard, ended, faults>>
  BY DEF CloseSlot, server
<1>2. Typed /\ WorldTyped /\ registry \in SUBSET Lease
  BY DEF TabInv, Typed, ClosesTyped
<1>3. WorldTyped'
  <2>1. page' \in [token : 0..MaxMoves, stage : {"settled", "closing", "publishing"},
                   shown : BOOLEAN, due : BOOLEAN, starting : BOOLEAN]
    BY <1>1, <1>2 DEF WorldTyped
  <2> QED
    BY <1>1, <1>2, <2>1 DEF WorldTyped, Lease, Start
<1>4. new \in SUBSET Loop /\ KnownLoops(new)
  <2>1. CASE registry = {}
    BY <2>1 DEF KnownLoops
  <2>2. CASE registry # {}
    BY <2>2, <1>2, ClosesLoop DEF Told
  <2> QED
    BY <2>1, <2>2
<1> HIDE DEF new
<1>5. Opening(new, deletes, registry)
  BY <1>1, OpenLoopsOpens
<1>6. Notes(registry, new)
  BY <1>1, <1>2, <1>3, SameFresh DEF Notes, WorldTyped
<1> QED
  BY <1>1, <1>4, <1>5, <1>6, SentBefore, OpensStep

LEMMA BeatAnsweredOK ==
  ASSUME TabInv, BeatAnswered
  PROVE  TabInv'
<1> DEFINE reg == registry \cup beat.ids
<1>1. /\ beat' = NoBeat /\ unheard' = unheard \ beat.ids
      /\ UNCHANGED <<page, start, confirmed, kept, batches, armed, leases, retention, minted,
                     closes, ended, faults>>
  BY DEF BeatAnswered, server
<1>2. /\ Typed /\ WorldTyped /\ reg \in SUBSET Lease /\ registry \subseteq reg
      /\ \A a \in reg : Told(a)
  BY DEF TabInv, Typed, ClosesTyped, WorldTyped, Told
<1>3. /\ loops' = loops \cup Running(RetryLoop)
      /\ registry' = reg \ SkippedOf(RetryLoop)
      /\ pending' = [a \in Lease |-> IF a \in SkippedOf(RetryLoop) THEN "none" ELSE pending[a]]
      /\ deletes' = Emit(deletes, Heads(loops' \ loops))
  BY DEF BeatAnswered, Running, SkippedOf
<1>4. loops' \ loops \in SUBSET Running(RetryLoop)
  BY <1>3
<1>5. Opening(RetryLoop, deletes, reg)
  BY <1>3, <1>4 DEF Opening
<1>6. WorldTyped'
  <2>1. beat' \in [phase : {"idle", "sent", "answered"}, ids : SUBSET Lease]
    BY <1>1 DEF NoBeat
  <2> QED
    BY <1>1, <1>2, <2>1 DEF WorldTyped, Lease, Start
<1>7. Notes(reg, RetryLoop)
  <2>1. beat'.ids \subseteq beat.ids
    BY <1>1 DEF NoBeat
  <2> QED
    BY <1>1, <1>2, <1>6, <2>1, SameFresh DEF Notes, WorldTyped
<1> HIDE DEF reg
<1> QED
  BY <1>1, <1>2, <1>5, <1>7, SentBefore, RetryLoopOf, OpensStep

(* A step that begins no close.                                            *)
LEMMA NoteOK ==
  ASSUME TabInv, Notes(registry, {}),
         UNCHANGED <<registry, pending, confirmed, kept, loops, batches, deletes, armed,
                     leases, retention, minted, ended>>
  PROVE  TabInv'
<1>1. Opening({}, deletes, registry)
  BY NothingOpens
<1>2. KnownLoops({}) /\ {} \in SUBSET Loop
  BY DEF KnownLoops
<1> QED
  BY <1>1, <1>2, SentBefore, OpensStep

LEMMA PublishOK ==
  ASSUME TabInv, ViewportPublished
  PROVE  TabInv'
<1>1. UNCHANGED <<start, beat, registry, pending, confirmed, kept, loops, batches, deletes, armed,
                  leases, retention, minted, closes, unheard, ended, faults>>
  BY DEF ViewportPublished, closing, server, history
<1>2. WorldTyped
  BY DEF TabInv, Typed
<1>3. WorldTyped'
  <2>1. page' \in [token : 0..MaxMoves, stage : {"settled", "closing", "publishing"},
                   shown : BOOLEAN, due : BOOLEAN, starting : BOOLEAN]
    BY <1>2 DEF ViewportPublished, WorldTyped
  <2> QED
    BY <1>1, <1>2, <2>1 DEF WorldTyped, Lease, Start
<1> QED
  BY <1>1, <1>2, <1>3, SameFresh, NoteOK DEF Notes, WorldTyped

LEMMA FireOK ==
  ASSUME TabInv, Fire
  PROVE  TabInv'
<1>1. UNCHANGED <<beat, registry, pending, confirmed, kept, loops, batches, deletes, armed,
                  leases, retention, minted, closes, unheard, ended, faults>>
  BY DEF Fire, closing, server, history
<1>2. WorldTyped
  BY DEF TabInv, Typed
<1>3. CASE page.starting
  <2>1. page' = [page EXCEPT !.due = FALSE] /\ UNCHANGED start
    BY <1>3 DEF Fire
  <2>2. page' \in [token : 0..MaxMoves, stage : {"settled", "closing", "publishing"},
                   shown : BOOLEAN, due : BOOLEAN, starting : BOOLEAN]
    BY <1>2, <2>1 DEF WorldTyped
  <2>3. WorldTyped'
    BY <1>1, <1>2, <2>1, <2>2 DEF WorldTyped, Lease, Start
  <2> QED
    BY <1>1, <1>2, <2>1, <2>3, SameFresh, NoteOK DEF Notes, WorldTyped
<1>4. CASE ~page.starting
  <2>1. PICK a \in Start :
          /\ start[a].phase = "none"
          /\ page' = [page EXCEPT !.due = FALSE, !.starting = TRUE]
          /\ start' = [start EXCEPT ![a].phase = "sent", ![a].token = page.token]
    BY <1>4 DEF Fire
  <2>2. page' \in [token : 0..MaxMoves, stage : {"settled", "closing", "publishing"},
                   shown : BOOLEAN, due : BOOLEAN, starting : BOOLEAN]
    BY <1>2, <2>1 DEF WorldTyped
  <2>3. start' \in [Start -> [phase : {"none", "sent", "deaf", "created", "refused", "done"},
                              token : 0..MaxMoves]]
    BY <1>2, <2>1 DEF WorldTyped
  <2>4. WorldTyped'
    BY <1>1, <1>2, <2>2, <2>3 DEF WorldTyped, Lease, Start
  <2>5. ASSUME NEW b \in Lease
        PROVE  /\ Fresh(b)' => Fresh(b)
               /\ Created(b)' => Created(b)
               /\ Created(b) => Created(b)'
    BY <1>1, <1>2, <2>1 DEF Fresh, Created, Start, WorldTyped
  <2> QED
    BY <1>1, <1>2, <2>4, <2>5, NoteOK DEF Notes, WorldTyped
<1> QED
  BY <1>3, <1>4

LEMMA BeatOK ==
  ASSUME TabInv, Beat
  PROVE  TabInv'
<1>1. /\ beat' = [beat EXCEPT !.phase = "sent"]
      /\ UNCHANGED <<page, start, registry, pending, confirmed, kept, loops, batches, deletes, armed,
                     leases, retention, minted, closes, unheard, ended, faults>>
  BY DEF Beat, closing, server, history
<1>2. WorldTyped
  BY DEF TabInv, Typed
<1>3. /\ beat' \in [phase : {"idle", "sent", "answered"}, ids : SUBSET Lease]
      /\ beat'.ids = beat.ids
  BY <1>1, <1>2 DEF WorldTyped
<1>4. WorldTyped'
  BY <1>1, <1>2, <1>3 DEF WorldTyped, Lease, Start
<1> QED
  BY <1>1, <1>2, <1>3, <1>4, SameFresh, NoteOK DEF Notes, WorldTyped

LEMMA ClosedOK ==
  ASSUME TabInv, Closed
  PROVE  TabInv'
<1>1. PICK b \in batches :
        /\ b.waits = {} /\ batches' = batches \ {b} /\ registry' = registry \ b.done
        /\ pending' = [a \in Lease |-> IF a \in b.done THEN "none"
                                       ELSE IF a \in b.failed THEN "strong" ELSE pending[a]]
        /\ page' = [page EXCEPT !.starting = page.starting /\ b.done \cup b.failed = {},
                                !.stage = IF b.token = page.token THEN "publishing" ELSE page.stage]
  BY DEF Closed
<1>2. /\ armed' = (armed \/ Queued' # {})
      /\ UNCHANGED <<start, beat, confirmed, kept, loops, deletes, leases, retention, minted,
                     closes, unheard, ended, faults>>
  BY DEF Closed, EnsureCloseRetryLoop, server, history
<1>3. Typed /\ WorldTyped /\ ClosesTyped
  BY DEF TabInv, Typed
<1>4. Typed'
  <2>1. page' \in [token : 0..MaxMoves, stage : {"settled", "closing", "publishing"},
                   shown : BOOLEAN, due : BOOLEAN, starting : BOOLEAN]
    BY <1>1, <1>3 DEF WorldTyped
  <2>2. WorldTyped'
    BY <1>2, <1>3, <2>1 DEF WorldTyped, Lease, Start
  <2>3. pending' \in [Lease -> Strength]
    BY <1>1, <1>3 DEF ClosesTyped, Strength
  <2>4. armed' \in BOOLEAN
    BY <1>2, <1>3 DEF ClosesTyped
  <2>5. ClosesTyped'
    BY <1>1, <1>2, <1>3, <2>3, <2>4 DEF ClosesTyped, Lease, Loop, Batch, Delete, Closing
  <2> QED
    BY <2>2, <2>5 DEF Typed
<1>5. \A a \in b.done : confirmed[a] # "none"
  BY DEF TabInv, Completed
<1>6. ASSUME NEW a \in Lease
      PROVE  /\ a \in Queued => a \in Queued' \/ confirmed[a] # "none"
             /\ a \in Queued' => a \in Queued \/ a \in b.failed
             /\ a \in b.failed => a \in Queued' \/ confirmed[a] # "none"
  BY <1>1, <1>5 DEF Queued, Lease
<1>7. ASSUME NEW a \in Lease, Known(a) PROVE Known(a)'
  <2>1. CASE a \in Queued \/ confirmed[a] # "none"
    BY <2>1, <1>2, <1>6 DEF Known
  <2>2. CASE (\E d \in deletes : d.lease = a) \/ \E l \in loops : \E c \in Range(l.list) : c.lease = a
    BY <2>2, <1>2 DEF Known, InClosing
  <2>3. CASE \E e \in batches : a \in e.waits \cup e.done \cup e.failed
    <3>1. PICK e \in batches : a \in e.waits \cup e.done \cup e.failed
      BY <2>3
    <3>2. CASE e = b
      BY <3>1, <3>2, <1>1, <1>2, <1>5, <1>6 DEF Known
    <3>3. CASE e # b
      BY <3>1, <3>3, <1>1 DEF Known, InClosing
    <3> QED
      BY <3>2, <3>3
  <2> QED
    BY <1>7, <2>1, <2>2, <2>3 DEF Known, InClosing
<1>8. ASSUME NEW a \in Lease, Known(a)' PROVE Known(a)
  <2>1. CASE a \in Queued'
    BY <2>1, <1>6 DEF Known, InClosing
  <2>2. CASE confirmed'[a] # "none" \/ InClosing(a)'
    BY <2>2, <1>1, <1>2 DEF Known, InClosing
  <2> QED
    BY <1>8, <2>1, <2>2 DEF Known
<1>9. KeepsKnown
  <2>1. \A a \in Lease : a \in registry => a \in registry' \/ Known(a)'
    BY <1>1, <1>2, <1>5 DEF Known
  <2>2. \A a \in Lease : Told(a)' => Told(a)
    BY <1>1, <1>2, SameFresh DEF Told
  <2> QED
    BY <1>2, <1>7, <1>8, <2>1, <2>2 DEF KeepsKnown
<1>10. KeepsGiven
  BY <1>2, <1>3, SameFresh DEF KeepsGiven, WorldTyped
<1>11. KeepsServed
  BY <1>2 DEF KeepsServed, TabInv, Served
<1>12. Waited'
  <2>1. ASSUME NEW d \in deletes PROVE AwaitedIn(d, loops, batches')
    <3>1. AwaitedIn(d, loops, batches)
      BY DEF TabInv, Waited
    <3> QED
      BY <3>1, <1>1 DEF AwaitedIn
  <2> QED
    BY <1>2, <2>1 DEF TabInv, Waited
<1>13. Completed'
  BY <1>1, <1>2 DEF TabInv, Completed
<1>14. Requeued'
  <2>1. SUFFICES ASSUME NEW l \in loops, l.kind = "retry", NEW c \in Range(l.list)
                 PROVE  c.lease \in Queued' \/ c.lease \notin leases
    BY <1>2 DEF Requeued
  <2>2. c.lease \in Queued \/ c.lease \notin leases
    BY <2>1 DEF TabInv, Requeued
  <2>3. confirmed[c.lease] # "none" => c.lease \notin leases
    BY DEF TabInv, Served
  <2> QED
    BY <2>2, <2>3, <1>6 DEF Queued
<1>15. NoCloseIsAbandoned'
  BY <1>2 DEF NoCloseIsAbandoned
<1> QED
  BY <1>2, <1>4, <1>9, <1>10, <1>11, <1>12, <1>13, <1>14, <1>15, TabStep

(* The answer to a DELETE is noted, and the loops that waited for it go on.*)
LEMMA AcknowledgeOK ==
  ASSUME TabInv, NEW d \in deletes, d.outcome # "unserved", Acknowledge(d),
         UNCHANGED <<page, start, beat, server, history>>
  PROVE  TabInv'
<1> DEFINE a == d.lease
           close == [lease |-> a, strength |-> d.strength]
           ok == Confirms(d.outcome)
           done == IF ok THEN [confirmed EXCEPT ![a] = Stronger(confirmed[a], d.strength)] ELSE confirmed
           mine == {l \in loops : Head(l.list) = close}
           moved == {[l EXCEPT !.list = Left(done, Tail(l.list))] : l \in mine}
           going == {l \in moved : l.list # <<>>}
           over == {l \in moved : l.list = <<>>}
           settled == (IF ok /\ mine # {} THEN {a} ELSE {})
                        \cup UNION {Skipped(done, Tail(l.list)) : l \in mine}
           After(b) == IF d.strength = "strong" /\ a \in b.waits
                       THEN [b EXCEPT !.waits = b.waits \ {a},
                                      !.done = IF ok THEN b.done \cup {a} ELSE b.done,
                                      !.failed = IF ok THEN b.failed ELSE b.failed \cup {a}]
                       ELSE b
<1>1. /\ confirmed' = done
      /\ kept' = IF d.outcome \in {"kept", "pending"} THEN kept \cup {a}
                 ELSE IF ok /\ d.strength = "strong" THEN kept \ {a} ELSE kept
      /\ registry' = registry \ settled
      /\ pending' = [b \in Lease |->
                       IF b \in settled THEN "none"
                       ELSE IF b = a /\ ~ok /\ mine # {} THEN Stronger(pending[b], d.strength)
                       ELSE pending[b]]
      /\ loops' = (loops \ mine) \cup going
      /\ batches' = {After(b) : b \in batches}
      /\ deletes' = Emit(deletes \ {d}, Heads(going))
  BY DEF Acknowledge
<1>2. /\ (\E l \in over : l.kind # "retry") => armed' = (armed \/ Queued' # {})
      /\ ~(\E l \in over : l.kind # "retry") => armed' = armed
  BY DEF Acknowledge, EnsureCloseRetryLoop
<1>3. UNCHANGED <<page, start, beat, leases, retention, minted, closes, unheard, ended, faults>>
  BY DEF server, history
<1>4. Typed /\ WorldTyped /\ ClosesTyped
  BY DEF TabInv, Typed
<1>5. /\ d \in Delete /\ a \in Lease /\ d.strength \in {"weak", "strong"} /\ close \in Closing
      /\ confirmed \in [Lease -> Strength]
  BY <1>4 DEF ClosesTyped, Delete, Closing
<1>6. /\ done \in [Lease -> Strength]
      /\ \A b \in Lease : /\ confirmed[b] # "none" => done[b] # "none"
                          /\ done[b] # "none" => confirmed[b] # "none" \/ (b = a /\ ok)
                          /\ done[b] = "strong" => confirmed[b] = "strong" \/ (b = a /\ ok /\ d.strength = "strong")
      /\ ok => done[a] # "none"
  BY <1>5 DEF Stronger, Strength
<1>7. /\ ok => a \notin leases
      /\ ok /\ d.strength = "strong" => a \notin retention
  BY DEF TabInv, Served
<1>8. \A b \in Lease : done[b] # "none" => b \notin leases
  BY <1>6, <1>7 DEF TabInv, Served
<1>9. ASSUME NEW l \in mine
      PROVE  /\ l \in Loop /\ l \in loops /\ close \in Range(l.list) /\ Tail(l.list) \in Seq(Closing)
             /\ Range(Tail(l.list)) \subseteq Range(l.list)
             /\ \A c \in Range(l.list) : c = close \/ c \in Range(Tail(l.list))
  <2>1. l \in Loop /\ l \in loops /\ l.list \in Seq(Closing) /\ l.list # <<>> /\ Head(l.list) = close
    BY <1>4 DEF ClosesTyped, Loop
  <2> DEFINE q == l.list
  <2>2. /\ q \in Seq(Closing) /\ q # <<>> /\ q[1] = close /\ DOMAIN q = 1..Len(q) /\ Len(q) \in Nat \ {0}
        /\ Tail(q) \in Seq(Closing) /\ DOMAIN Tail(q) = 1..(Len(q) - 1)
        /\ \A i \in 1..(Len(q) - 1) : Tail(q)[i] = q[i + 1]
    BY <2>1
  <2> HIDE DEF q
  <2>3. close \in Range(q)
    BY <2>2 DEF Range
  <2>4. Range(Tail(q)) \subseteq Range(q)
    BY <2>2 DEF Range
  <2>5. ASSUME NEW c \in Range(q) PROVE c = close \/ c \in Range(Tail(q))
    <3>1. PICK i \in 1..Len(q) : c = q[i]
      BY <2>2 DEF Range
    <3>2. CASE i = 1
      BY <3>1, <3>2, <2>2
    <3>3. CASE i # 1
      <4>1. i - 1 \in 1..(Len(q) - 1) /\ (i - 1) + 1 = i
        BY <3>1, <3>3, <2>2
      <4>2. Tail(q)[i - 1] = c
        BY <4>1, <3>1, <2>2
      <4> QED
        BY <4>1, <4>2, <2>2 DEF Range
    <3> QED
      BY <3>2, <3>3
  <2> QED
    BY <2>1, <2>2, <2>3, <2>4, <2>5 DEF q
<1> HIDE DEF done
<1>10. ASSUME NEW l \in mine
       PROVE  /\ Left(done, Tail(l.list)) \in Seq(Closing)
              /\ Range(Left(done, Tail(l.list))) \subseteq Range(l.list)
              /\ \A c \in Range(Tail(l.list)) :
                    c \in Range(Left(done, Tail(l.list))) \/ c.lease \in Skipped(done, Tail(l.list))
              /\ \A b \in Skipped(done, Tail(l.list)) : b \in Lease /\ done[b] # "none"
              /\ [l EXCEPT !.list = Left(done, Tail(l.list))] \in Loop
              /\ [l EXCEPT !.list = Left(done, Tail(l.list))].kind = l.kind
              /\ [l EXCEPT !.list = Left(done, Tail(l.list))].list = Left(done, Tail(l.list))
  <2>1. l \in Loop /\ Tail(l.list) \in Seq(Closing) /\ Range(Tail(l.list)) \subseteq Range(l.list)
    BY <1>9
  <2>2. /\ Left(done, Tail(l.list)) \in Seq(Closing)
        /\ Range(Left(done, Tail(l.list))) \subseteq Range(Tail(l.list))
        /\ \A c \in Range(Tail(l.list)) :
              c \in Range(Left(done, Tail(l.list))) \/ c.lease \in Skipped(done, Tail(l.list))
        /\ \A b \in Skipped(done, Tail(l.list)) : b \in Lease /\ done[b] # "none"
    BY <1>6, <2>1, LeftOf
  <2>3. /\ [l EXCEPT !.list = Left(done, Tail(l.list))] \in Loop
        /\ [l EXCEPT !.list = Left(done, Tail(l.list))].kind = l.kind
        /\ [l EXCEPT !.list = Left(done, Tail(l.list))].list = Left(done, Tail(l.list))
    BY <2>1, <2>2 DEF Loop
  <2> QED
    BY <2>1, <2>2, <2>3
<1>11. ASSUME NEW b \in settled PROVE b \in Lease /\ done[b] # "none"
  <2>1. CASE b = a /\ ok
    BY <2>1, <1>5, <1>6
  <2>2. CASE \E l \in mine : b \in Skipped(done, Tail(l.list))
    BY <2>2, <1>10
  <2> QED
    BY <2>1, <2>2
<1>12. ASSUME NEW g \in going
       PROVE  /\ g \in Loop /\ g.list # <<>>
              /\ \E l \in mine : g.kind = l.kind /\ Range(g.list) \subseteq Range(l.list)
  <2>1. PICK l \in mine : g = [l EXCEPT !.list = Left(done, Tail(l.list))]
    OBVIOUS
  <2> QED
    BY <2>1, <1>10
<1>13. ASSUME NEW l \in mine, NEW c \in Range(l.list)
       PROVE  c = close \/ c.lease \in settled \/ \E g \in going : c \in Range(g.list)
  <2>1. CASE c \in Range(Left(done, Tail(l.list)))
    <3> DEFINE g == [l EXCEPT !.list = Left(done, Tail(l.list))]
    <3>1. g.list = Left(done, Tail(l.list)) /\ g \in moved
      BY <1>10
    <3>2. g.list # <<>>
      <4>1. DOMAIN <<>> = {}
        OBVIOUS
      <4>2. Range(<<>>) = {}
        BY <4>1 DEF Range
      <4> QED
        BY <2>1, <3>1, <4>2
    <3> QED
      BY <2>1, <3>1, <3>2
  <2>2. CASE c.lease \in Skipped(done, Tail(l.list))
    BY <2>2
  <2> QED
    BY <1>9, <1>10, <2>1, <2>2
<1>14. /\ Heads(going) \in SUBSET Closing
       /\ \A c \in Heads(going) : \E g \in going : Head(g.list) = c
  <2>1. going \in SUBSET Loop /\ \A g \in going : g.list # <<>>
    BY <1>12
  <2> HIDE DEF going
  <2> QED
    BY <2>1, HeadsAreCloses
<1>15. /\ deletes' \in SUBSET Delete /\ deletes \ {d} \subseteq deletes' /\ Unique(deletes')
       /\ \A e \in deletes' : e \in deletes \ {d} \/
             (e.outcome = "unserved" /\ [lease |-> e.lease, strength |-> e.strength] \in Heads(going))
  <2>1. deletes \ {d} \in SUBSET Delete /\ Unique(deletes \ {d})
    BY <1>4 DEF ClosesTyped, TabInv, Waited, Unique
  <2> HIDE DEF going
  <2> QED
    BY <1>1, <1>14, <2>1, Emits
<1>16. ASSUME NEW b \in batches
       PROVE  /\ After(b) \in Batch
              /\ After(b).waits \cup After(b).done \cup After(b).failed = b.waits \cup b.done \cup b.failed
              /\ \A c \in After(b).done : c \in b.done \/ (c = a /\ ok)
              /\ \A c \in b.waits : c \in After(b).waits \/ (c = a /\ d.strength = "strong")
              /\ (a \in b.waits /\ d.strength = "strong") => a \in After(b).done \cup After(b).failed
  <2>1. b \in Batch
    BY <1>4 DEF ClosesTyped
  <2>2. CASE d.strength = "strong" /\ a \in b.waits
    BY <2>1, <2>2, <1>5 DEF Batch
  <2>3. CASE ~(d.strength = "strong" /\ a \in b.waits)
    BY <2>1, <2>3
  <2> QED
    BY <2>2, <2>3
<1> HIDE DEF settled, moved, going, over, After
<1>17. ASSUME NEW b \in Lease
       PROVE  /\ b \in Queued => b \in Queued' \/ done[b] # "none"
              /\ b \in Queued' => b \in Queued \/ (b = a /\ ~ok /\ mine # {})
              /\ (b = a /\ ~ok /\ mine # {}) => b \in Queued' \/ done[b] # "none"
  <2>1. pending'[b] = IF b \in settled THEN "none"
                      ELSE IF b = a /\ ~ok /\ mine # {} THEN Stronger(pending[b], d.strength)
                      ELSE pending[b]
    BY <1>1
  <2>2. Stronger(pending[b], d.strength) # "none"
    BY <1>5 DEF Stronger
  <2>3. (b \in Queued' <=> pending'[b] # "none") /\ (b \in Queued <=> pending[b] # "none")
    BY DEF Queued, Lease
  <2> HIDE DEF mine, ok
  <2> QED
    BY <2>1, <2>2, <2>3, <1>11
<1>18. Typed'
  <2>1. WorldTyped'
    BY <1>3, <1>4 DEF WorldTyped, Lease, Start
  <2>2. pending' \in [Lease -> Strength]
    <3>1. ASSUME NEW b \in Lease PROVE Stronger(pending[b], d.strength) \in Strength /\ pending[b] \in Strength
      BY <1>4, <1>5 DEF ClosesTyped, Stronger, Strength
    <3> QED
      BY <1>1, <3>1 DEF Strength
  <2>3. armed' \in BOOLEAN
    BY <1>2, <1>4 DEF ClosesTyped
  <2>4. loops' \subseteq Loop /\ \A l \in loops' : l.list # <<>>
    BY <1>1, <1>4, <1>12 DEF ClosesTyped
  <2>5. batches' \subseteq Batch
    BY <1>1, <1>16
  <2>6. registry' \subseteq Lease /\ kept' \subseteq Lease /\ confirmed' \in [Lease -> Strength]
    BY <1>1, <1>4, <1>5, <1>6 DEF ClosesTyped
  <2>7. ClosesTyped'
    BY <1>15, <2>2, <2>3, <2>4, <2>5, <2>6 DEF ClosesTyped, Lease, Loop, Batch, Delete, Closing
  <2> QED
    BY <2>1, <2>7 DEF Typed
<1>19. ASSUME NEW b \in Lease, Known(b) PROVE Known(b)'
  <2>1. CASE b \in Queued \/ done[b] # "none"
    BY <2>1, <1>1, <1>17 DEF Known
  <2>2. CASE mine # {} /\ b = a
    <3>1. CASE ok
      BY <2>2, <3>1, <1>1, <1>6 DEF Known
    <3>2. CASE ~ok
      BY <2>2, <3>2, <1>1, <1>17 DEF Known
    <3> QED
      BY <3>1, <3>2
  <2>3. CASE \E l \in loops : \E c \in Range(l.list) : c.lease = b
    <3>1. PICK l \in loops : \E c \in Range(l.list) : c.lease = b
      BY <2>3
    <3>2. CASE l \notin mine
      BY <3>1, <3>2, <1>1 DEF Known, InClosing
    <3>3. CASE l \in mine
      <4>1. PICK c \in Range(l.list) : c.lease = b
        BY <3>1
      <4>2. CASE c = close
        BY <4>1, <4>2, <3>3, <2>2
      <4>3. CASE c.lease \in settled
        BY <4>1, <4>3, <1>11, <2>1
      <4>4. CASE \E g \in going : c \in Range(g.list)
        BY <4>1, <4>4, <1>1 DEF Known, InClosing
      <4> QED
        BY <3>3, <1>13, <4>2, <4>3, <4>4
    <3> QED
      BY <3>2, <3>3
  <2>4. CASE \E e \in batches : b \in e.waits \cup e.done \cup e.failed
    <3>1. PICK e \in batches : b \in e.waits \cup e.done \cup e.failed
      BY <2>4
    <3>2. After(e) \in batches' /\ b \in After(e).waits \cup After(e).done \cup After(e).failed
      BY <3>1, <1>1, <1>16
    <3> QED
      BY <3>2 DEF Known, InClosing
  <2>5. CASE \E e \in deletes : e.lease = b
    <3>1. PICK e \in deletes : e.lease = b
      BY <2>5
    <3>2. CASE e # d
      BY <3>1, <3>2, <1>15 DEF Known, InClosing
    <3>3. CASE e = d
      <4>1. b = a /\ AwaitedIn(d, loops, batches)
        BY <3>1, <3>3 DEF TabInv, Waited
      <4>2. CASE \E l \in loops : Head(l.list) = close
        BY <4>1, <4>2, <2>2
      <4>3. CASE \E e1 \in batches : a \in e1.waits
        BY <4>1, <4>3, <2>4
      <4> QED
        BY <4>1, <4>2, <4>3 DEF AwaitedIn
    <3> QED
      BY <3>2, <3>3
  <2>6. confirmed[b] # "none" => done[b] # "none"
    BY <1>6
  <2> QED
    BY <1>19, <2>1, <2>3, <2>4, <2>5, <2>6 DEF Known, InClosing
<1>20. ASSUME NEW b \in Lease, Known(b)' PROVE Known(b)
  <2>1. Known(a)
    BY DEF Known, InClosing
  <2>2. CASE b \in Queued' \/ confirmed'[b] # "none"
    BY <2>1, <2>2, <1>1, <1>6, <1>17 DEF Known
  <2>3. CASE \E l \in loops' : \E c \in Range(l.list) : c.lease = b
    <3>1. PICK l \in loops' : \E c \in Range(l.list) : c.lease = b
      BY <2>3
    <3>2. CASE l \in loops
      BY <3>1, <3>2 DEF Known, InClosing
    <3>3. CASE l \in going
      <4>1. PICK m \in mine : Range(l.list) \subseteq Range(m.list)
        BY <3>3, <1>12
      <4> QED
        BY <3>1, <4>1 DEF Known, InClosing
    <3> QED
      BY <3>2, <3>3, <1>1
  <2>4. CASE \E e \in deletes' : e.lease = b
    <3>1. PICK e \in deletes' : e.lease = b
      BY <2>4
    <3>2. CASE e \in deletes
      BY <3>1, <3>2 DEF Known, InClosing
    <3>3. CASE [lease |-> e.lease, strength |-> e.strength] \in Heads(going)
      <4>1. PICK g \in going : Head(g.list) = [lease |-> e.lease, strength |-> e.strength]
        BY <3>3, <1>14
      <4>2. g.list # <<>> /\ g.list \in Seq(Closing)
        BY <1>12 DEF Loop
      <4>3. Head(g.list) \in Range(g.list)
        BY <4>2 DEF Range
      <4>4. PICK m \in mine : Range(g.list) \subseteq Range(m.list)
        BY <1>12
      <4>5. Head(g.list) \in Range(m.list) /\ Head(g.list).lease = b /\ m \in loops
        BY <3>1, <4>1, <4>3, <4>4
      <4> QED
        BY <4>5 DEF Known, InClosing
    <3> QED
      BY <3>2, <3>3, <1>15
  <2>5. CASE \E e \in batches' : b \in e.waits \cup e.done \cup e.failed
    <3>1. PICK e \in batches : b \in After(e).waits \cup After(e).done \cup After(e).failed
      BY <2>5, <1>1
    <3> QED
      BY <3>1, <1>16 DEF Known, InClosing
  <2> QED
    BY <1>20, <2>2, <2>3, <2>4, <2>5 DEF Known, InClosing
<1>21. KeepsKnown
  <2>1. \A b \in Lease : b \in registry => b \in registry' \/ Known(b)'
    BY <1>1, <1>11 DEF Known
  <2>2. \A b \in Lease : Told(b)' => Told(b)
    BY <1>1, <1>3, SameFresh DEF Told
  <2>3. \A b \in kept' : b \in kept \/ Known(b)
    BY <1>1 DEF Known, InClosing
  <2> QED
    BY <1>19, <1>20, <2>1, <2>2, <2>3 DEF KeepsKnown
<1>22. KeepsGiven
  BY <1>3, <1>4, SameFresh DEF KeepsGiven, WorldTyped
<1>23. KeepsServed
  <2>1. ASSUME NEW b \in leases PROVE done[b] = "none"
    BY <1>4, <1>8 DEF WorldTyped
  <2>2. ASSUME NEW b \in retention PROVE done[b] # "strong"
    BY <1>4, <1>6, <1>7 DEF WorldTyped, TabInv, Served
  <2>3. \A e \in deletes' : Confirms(e.outcome) => e \in deletes
    BY <1>15 DEF Confirms
  <2> QED
    BY <1>1, <2>1, <2>2, <2>3 DEF KeepsServed
<1>24. Waited'
  <2>1. ASSUME NEW e \in deletes' PROVE AwaitedIn(e, loops', batches')
    <3>1. CASE e \in deletes \ {d}
      <4>1. e.lease # a \/ e.strength # d.strength
        BY <3>1 DEF TabInv, Waited, Unique
      <4>2. AwaitedIn(e, loops, batches)
        BY <3>1 DEF TabInv, Waited
      <4>3. CASE \E l \in loops : Head(l.list) = [lease |-> e.lease, strength |-> e.strength]
        <5>1. PICK l \in loops : Head(l.list) = [lease |-> e.lease, strength |-> e.strength]
          BY <4>3
        <5>2. l \notin mine
          BY <4>1, <5>1
        <5> QED
          BY <5>1, <5>2, <1>1 DEF AwaitedIn
      <4>4. CASE e.strength = "strong" /\ \E b \in batches : e.lease \in b.waits
        <5>1. PICK b \in batches : e.lease \in b.waits
          BY <4>4
        <5>2. e.lease \in After(b).waits /\ After(b) \in batches'
          BY <4>1, <4>4, <5>1, <1>1, <1>16
        <5> QED
          BY <4>4, <5>2 DEF AwaitedIn
      <4> QED
        BY <4>2, <4>3, <4>4 DEF AwaitedIn
    <3>2. CASE [lease |-> e.lease, strength |-> e.strength] \in Heads(going)
      <4>1. PICK g \in going : Head(g.list) = [lease |-> e.lease, strength |-> e.strength]
        BY <3>2, <1>14
      <4> QED
        BY <4>1, <1>1 DEF AwaitedIn
    <3> QED
      BY <3>1, <3>2, <1>15
  <2> QED
    BY <1>15, <2>1 DEF Waited
<1>25. Completed'
  <2>1. ASSUME NEW b \in batches, NEW c \in After(b).done PROVE done[c] # "none"
    <3>1. CASE c = a /\ ok
      BY <3>1, <1>6
    <3>2. CASE c \in b.done
      <4>1. confirmed[c] # "none" /\ c \in Lease
        BY <3>2, <1>4 DEF TabInv, Completed, ClosesTyped, Batch
      <4> QED
        BY <4>1, <1>6
    <3> QED
      BY <3>1, <3>2, <1>16
  <2> QED
    BY <1>1, <2>1 DEF Completed
<1>26. Requeued'
  <2>1. SUFFICES ASSUME NEW l \in loops', l.kind = "retry", NEW c \in Range(l.list)
                 PROVE  c.lease \in Queued' \/ c.lease \notin leases
    BY <1>3 DEF Requeued
  <2>2. c.lease \in Queued \/ c.lease \notin leases
    <3>1. CASE l \in loops
      BY <2>1, <3>1 DEF TabInv, Requeued
    <3>2. CASE l \in going
      <4>1. PICK m \in mine : l.kind = m.kind /\ Range(l.list) \subseteq Range(m.list)
        BY <3>2, <1>12
      <4>2. m \in loops
        OBVIOUS
      <4> QED
        BY <2>1, <4>1, <4>2 DEF TabInv, Requeued
    <3> QED
      BY <1>1, <3>1, <3>2
  <2> QED
    BY <2>2, <1>8, <1>17 DEF Queued
<1>27. NoCloseIsAbandoned'
  <2>1. SUFFICES ASSUME NEW b \in Queued', b \in leases, ~(\E l \in over : l.kind # "retry"),
                        \A l \in loops' : l.kind = "retry"
                 PROVE  armed
    <3>1. SUFFICES ASSUME NEW b \in (Queued \cap leases)', \A l \in loops' : l.kind = "retry"
                   PROVE  armed'
      BY DEF NoCloseIsAbandoned
    <3>2. CASE \E l \in over : l.kind # "retry"
      <4>1. Queued' # {}
        BY <3>1
      <4> QED
        BY <3>2, <4>1, <1>2
    <3>3. CASE ~(\E l \in over : l.kind # "retry")
      <4>1. b \in Queued' /\ b \in leases
        BY <3>1, <1>3
      <4> QED
        BY <3>1, <3>3, <4>1, <1>2
    <3> QED
      BY <3>2, <3>3
  <2>2. ASSUME NEW l \in loops PROVE l.kind = "retry"
    <3>1. CASE l \notin mine
      BY <2>1, <3>1, <1>1
    <3>2. CASE l \in mine
      <4> DEFINE g == [l EXCEPT !.list = Left(done, Tail(l.list))]
      <4>1. g.kind = l.kind /\ g \in moved
        BY <3>2, <1>10 DEF moved
      <4>2. g \in going \/ g \in over
        BY <4>1 DEF going, over
      <4> QED
        BY <2>1, <4>1, <4>2, <1>1
    <3> QED
      BY <3>1, <3>2
  <2>3. b \in Queued
    <3>1. CASE b = a /\ mine # {}
      <4>1. PICK l \in mine : TRUE
        BY <3>1
      <4>2. l \in loops /\ l.kind = "retry" /\ close \in Range(l.list)
        BY <4>1, <1>9, <2>2
      <4>3. close.lease \in Queued \/ close.lease \notin leases
        BY <4>2 DEF TabInv, Requeued
      <4> QED
        BY <3>1, <4>3, <2>1
    <3> QED
      BY <1>17, <3>1 DEF Queued
  <2>4. Queued \cap leases # {}
    BY <2>1, <2>3
  <2> QED
    BY <2>2, <2>4 DEF TabInv, NoCloseIsAbandoned
<1> QED
  BY <1>3, <1>18, <1>21, <1>22, <1>23, <1>24, <1>25, <1>26, <1>27, TabStep

LEMMA AnsweredOK ==
  ASSUME TabInv, CloseAnswered
  PROVE  TabInv'
<1>1. PICK d \in deletes : d.outcome # "unserved" /\ Acknowledge(d)
  BY DEF CloseAnswered
<1>2. UNCHANGED <<page, start, beat, server, history>>
  BY DEF CloseAnswered
<1> QED
  BY <1>1, <1>2, AcknowledgeOK

-----------------------------------------------------------------------------
(* Steps of the server and the network *)

(* Leases are given to what was fresh, and the tab is told of leases only. *)
WorldMoves ==
    /\ \A a \in Lease : Fresh(a)' => Fresh(a)
    /\ \A a \in leases' : a \in leases \/ (Fresh(a) /\ ~Fresh(a)')
    /\ retention' \subseteq retention
    /\ leases' # {} => retention' = {}
    /\ leases \cup ended \subseteq leases' \cup ended'
    /\ \A a \in Lease : Told(a)' => Told(a) \/ a \in leases' \/ (a \in ended' /\ ~Fresh(a)')
    /\ \A a \in leases' : a \in unheard \/ Created(a) \/ Fresh(a) => a \in unheard' \/ Created(a)'

LEMMA WorldStep ==
  ASSUME TabInv, UNCHANGED closing, WorldTyped', WorldMoves
  PROVE  TabInv'
<1>0. UNCHANGED <<registry, pending, confirmed, kept, loops, batches, deletes, armed>>
  BY DEF closing
<1>1. \A a \in Lease : Known(a)' <=> Known(a)
  BY <1>0 DEF Known, InClosing, Queued
<1>2. Typed'
  BY <1>0 DEF TabInv, Typed, ClosesTyped, Lease, Loop, Batch, Delete, Closing
<1>3. leases' \subseteq Lease /\ leases \subseteq Lease
  BY DEF WorldTyped, TabInv, Typed, Lease
<1>4. ASSUME NEW a \in Lease, Fresh(a)
      PROVE  /\ a \notin leases /\ a \notin retention /\ a \notin kept /\ ~Known(a) /\ ~Told(a)
             /\ a \notin Queued /\ ~InClosing(a) /\ confirmed[a] = "none"
  BY <1>4 DEF TabInv, Given, Known
<1>5. Given'
  <2>1. SUFFICES ASSUME NEW a \in Lease, Fresh(a)'
                 PROVE  a \notin (leases \cup retention)' /\ a \notin kept' /\ ~Known(a)' /\ ~Told(a)'
    BY DEF Given, Lease
  <2>2. Fresh(a)
    BY <2>1 DEF WorldMoves
  <2>3. a \notin leases'
    BY <2>1, <2>2, <1>4 DEF WorldMoves
  <2>4. a \notin retention' /\ a \notin kept'
    BY <2>2, <1>0, <1>4 DEF WorldMoves
  <2>5. ~Known(a)'
    BY <2>2, <1>1, <1>4
  <2>6. ~Told(a)'
    <3>1. Told(a)' => Told(a) \/ a \in leases' \/ (a \in ended' /\ ~Fresh(a)')
      BY <2>1 DEF WorldMoves
    <3> QED
      BY <2>1, <2>2, <2>3, <1>4, <3>1
  <2> QED
    BY <2>3, <2>4, <2>5, <2>6
<1>6. Served'
  <2>1. ASSUME NEW a \in leases'
        PROVE  confirmed[a] = "none" /\ \A d \in deletes : d.lease = a => ~Confirms(d.outcome)
    <3>1. CASE a \in leases
      BY <3>1 DEF TabInv, Served
    <3>2. CASE Fresh(a)
      BY <3>2, <1>3, <1>4 DEF InClosing
    <3> QED
      BY <3>1, <3>2 DEF WorldMoves
  <2>2. ASSUME NEW a \in retention'
        PROVE  /\ confirmed[a] # "strong"
               /\ \A d \in deletes : d.lease = a /\ d.strength = "strong" => ~Confirms(d.outcome)
    BY <2>2 DEF TabInv, Served, WorldMoves
  <2>3. leases' # {} => retention' = {}
    BY DEF WorldMoves
  <2> QED
    BY <2>1, <2>2, <2>3, <1>0 DEF Served
<1>7. Waited' /\ Completed'
  BY <1>0 DEF TabInv, Waited, Completed, AwaitedIn
<1>8. Accounted'
  <2>1. SUFFICES ASSUME NEW a \in Lease, Told(a)' PROVE a \in (leases \cup ended)' \/ Known(a)'
    BY DEF Accounted, Lease
  <2>2. Told(a) \/ a \in leases' \/ a \in ended'
    <3>1. Told(a)' => Told(a) \/ a \in leases' \/ (a \in ended' /\ ~Fresh(a)')
      BY DEF WorldMoves
    <3> QED
      BY <2>1, <3>1
  <2>3. Told(a) => a \in leases \cup ended \/ Known(a)
    BY DEF TabInv, Accounted
  <2>4. leases \cup ended \subseteq leases' \cup ended'
    BY DEF WorldMoves
  <2> QED
    BY <2>2, <2>3, <2>4, <1>1
<1>9. Held'
  <2>1. SUFFICES ASSUME NEW a \in leases' PROVE a \in (registry \cup unheard)' \/ Known(a)' \/ Created(a)'
    BY DEF Held
  <2>2. a \in registry \/ a \in unheard \/ Known(a) \/ Created(a) \/ Fresh(a)
    BY DEF TabInv, Held, WorldMoves
  <2> QED
    BY <2>2, <1>0, <1>1, <1>3 DEF WorldMoves
<1>10. Requeued'
  <2>1. SUFFICES ASSUME NEW l \in loops, l.kind = "retry", NEW c \in Range(l.list)
                 PROVE  c.lease \in Queued \/ c.lease \notin leases'
    BY <1>0 DEF Requeued, Queued, Lease
  <2>2. c.lease \in Queued \/ c.lease \notin leases
    BY <2>1 DEF TabInv, Requeued
  <2>3. ASSUME c.lease \in leases', Fresh(c.lease) PROVE FALSE
    <3>1. ~InClosing(c.lease)
      BY <2>3, <1>3, <1>4
    <3> QED
      BY <3>1 DEF InClosing
  <2> QED
    BY <2>2, <2>3 DEF WorldMoves
<1>11. NoCloseIsAbandoned'
  <2>1. ASSUME NEW a \in Queued, a \in leases' PROVE a \in leases
    BY <2>1, <1>3, <1>4 DEF WorldMoves
  <2>2. Queued' = Queued
    BY <1>0 DEF Queued, Lease
  <2>3. (Queued \cap leases)' # {} => Queued \cap leases # {}
    BY <2>1, <2>2
  <2> QED
    BY <1>0, <2>3 DEF NoCloseIsAbandoned, TabInv
<1> QED
  BY <1>2, <1>5, <1>6, <1>7, <1>8, <1>9, <1>10, <1>11 DEF TabInv

LEMMA ServeStartOK ==
  ASSUME TabInv, NEW a \in Start, NEW works \in BOOLEAN, ServeStart(a, works)
  PROVE  TabInv'
<1>1. Typed /\ WorldTyped /\ a \in Lease
  BY TabAssumption DEF TabInv, Typed, Start, Lease
<1>2. UNCHANGED <<page, beat, closing, minted, closes, faults, kept, registry>>
  BY DEF ServeStart, closing
<1>3. start[a].phase \in {"sent", "deaf"} /\ Fresh(a)
  BY DEF ServeStart, Fresh
<1>4. /\ start'[a].phase = IF start[a].phase = "deaf" THEN "done"
                           ELSE IF works THEN "created" ELSE "refused"
      /\ \A b \in Start : b # a => start'[b] = start[b]
      /\ start' \in [Start -> [phase : {"none", "sent", "deaf", "created", "refused", "done"},
                               token : 0..MaxMoves]]
  <2> DEFINE p == IF start[a].phase = "deaf" THEN "done" ELSE IF works THEN "created" ELSE "refused"
  <2>1. start' = [start EXCEPT ![a].phase = p]
    BY DEF ServeStart
  <2>2. p \in {"done", "created", "refused"}
    OBVIOUS
  <2> HIDE DEF p
  <2>3. /\ start'[a].phase = p
        /\ \A b \in Start : b # a => start'[b] = start[b]
        /\ start' \in [Start -> [phase : {"none", "sent", "deaf", "created", "refused", "done"},
                                 token : 0..MaxMoves]]
    BY <1>1, <2>1, <2>2 DEF WorldTyped
  <2> QED
    BY <2>3 DEF p
<1>5. /\ ~Fresh(a)' /\ ~Created(a)
      /\ \A b \in Lease : b # a => (Fresh(b)' <=> Fresh(b))
      /\ \A b \in Lease : b # a => (Created(b)' <=> Created(b))
  BY <1>2, <1>3, <1>4 DEF Fresh, Created, Start
<1>6. CASE works
  <2>1. /\ leases' \in {leases \cup {a}, {a}, leases} /\ leases' # {} /\ retention' = {}
        /\ ended' = ended \cup ((leases \cup {a}) \ leases')
    BY <1>6 DEF ServeStart, Holders
  <2>2. unheard' = IF a \in leases' /\ start[a].phase = "deaf" THEN unheard \cup {a} ELSE unheard
    BY DEF ServeStart
  <2>3. a \in leases' => a \in unheard' \/ Created(a)'
    BY <1>3, <1>4, <1>6, <2>2 DEF Created, Start
  <2>4. WorldTyped'
    <3>1. leases' \subseteq leases \cup {a} /\ ended' \subseteq ended \cup leases \cup {a}
      BY <2>1
    <3> QED
      BY <1>1, <1>2, <1>4, <2>1, <2>2, <3>1 DEF WorldTyped, Lease, Start
  <2>5. ASSUME NEW b \in Lease, Told(b)'
        PROVE  Told(b) \/ b \in leases' \/ (b \in ended' /\ ~Fresh(b)')
    <3>1. CASE b = a
      BY <3>1, <2>1, <1>5
    <3>2. CASE b # a
      <4>1. Created(b)' <=> Created(b)
        BY <3>2, <1>5
      <4> QED
        BY <2>5, <4>1, <1>2 DEF Told
    <3> QED
      BY <3>1, <3>2
  <2>6. \A b \in leases : ~Fresh(b)
    BY <1>1 DEF TabInv, Given, WorldTyped
  <2>7. ASSUME NEW b \in leases', b \in unheard \/ Created(b) \/ Fresh(b)
        PROVE  b \in unheard' \/ Created(b)'
    <3>1. CASE b = a
      BY <3>1, <2>3
    <3>2. CASE b # a
      <4>1. b \in Lease /\ b \in leases /\ ~Fresh(b)
        BY <3>2, <2>1, <2>6, <1>1 DEF WorldTyped
      <4>2. Created(b)' <=> Created(b)
        BY <3>2, <4>1, <1>5
      <4> QED
        BY <2>7, <4>1, <4>2, <2>2
    <3> QED
      BY <3>1, <3>2
  <2>8. \A b \in Lease : Fresh(b)' => Fresh(b)
    BY <1>3, <1>5
  <2>9. /\ leases' \subseteq leases \cup {a}
        /\ leases \cup ended \subseteq leases' \cup ended'
    BY <2>1
  <2>10. WorldMoves
    BY <1>2, <1>3, <1>5, <2>1, <2>5, <2>7, <2>8, <2>9 DEF WorldMoves
  <2> QED
    BY <1>2, <2>4, <2>10, WorldStep
<1>7. CASE ~works
  <2>1. leases' = leases /\ retention' = retention /\ ended' = ended
    BY <1>7 DEF ServeStart
  <2>2. unheard' = unheard
    <3>1. a \notin leases
      BY <1>1, <1>3 DEF TabInv, Given
    <3> QED
      BY <2>1, <3>1 DEF ServeStart
  <2>4. WorldTyped'
    BY <1>1, <1>2, <1>4, <2>1, <2>2 DEF WorldTyped, Lease, Start
  <2>5. ~Created(a)'
    BY <1>4, <1>7 DEF Created, Start
  <2>6. ASSUME NEW b \in Lease, Told(b)' PROVE Told(b)
    <3>1. Created(b)' => Created(b)
      BY <1>5, <2>5
    <3> QED
      BY <2>6, <3>1, <1>2 DEF Told
  <2>7. \A b \in leases : ~Fresh(b)
    BY <1>1 DEF TabInv, Given, WorldTyped
  <2>8. ASSUME NEW b \in leases', b \in unheard \/ Created(b) \/ Fresh(b)
        PROVE  b \in unheard' \/ Created(b)'
    <3>1. b \in Lease /\ b \in leases /\ ~Fresh(b) /\ b # a
      BY <2>1, <2>7, <1>1, <1>3 DEF WorldTyped
    <3>2. Created(b)' <=> Created(b)
      BY <3>1, <1>5
    <3> QED
      BY <2>8, <3>1, <3>2, <2>2
  <2>9. \A b \in Lease : Fresh(b)' => Fresh(b)
    BY <1>3, <1>5
  <2>10. leases # {} => retention = {}
    BY DEF TabInv, Served
  <2>11. WorldMoves
    BY <1>2, <2>1, <2>6, <2>8, <2>9, <2>10 DEF WorldMoves
  <2> QED
    BY <1>2, <2>4, <2>11, WorldStep
<1> QED
  BY <1>6, <1>7

LEMMA ServeBeatOK ==
  ASSUME TabInv, ServeBeat
  PROVE  TabInv'
<1>1. Typed /\ WorldTyped
  BY DEF TabInv, Typed
<1>2. /\ UNCHANGED <<page, start, closing, closes, ended, faults, registry>>
      /\ beat' = [phase |-> "answered", ids |-> leases']
  BY DEF ServeBeat, closing
<1>3. \A b \in Lease : Created(b)' <=> Created(b)
  BY <1>2 DEF Created, Start
<1>4. \A b \in leases : ~Fresh(b) /\ b \in Lease
  BY <1>1 DEF TabInv, Given, WorldTyped
<1>5. ASSUME NEW b \in Lease, Told(b)' PROVE Told(b) \/ b \in leases'
  <2>1. beat'.ids = leases'
    BY <1>2
  <2> QED
    BY <1>5, <2>1, <1>2, <1>3 DEF Told
<1>6. CASE leases # {} \/ minted = MaxMinted
  <2>1. UNCHANGED <<leases, retention, minted, unheard>>
    BY <1>6 DEF ServeBeat, Reconcile, server
  <2>2. WorldTyped'
    BY <1>1, <1>2, <2>1 DEF WorldTyped, Lease, Start
  <2>3. \A b \in Lease : Fresh(b)' <=> Fresh(b)
    BY <1>2, <2>1, SameFresh
  <2>4. ASSUME NEW b \in leases', b \in unheard \/ Created(b) \/ Fresh(b)
        PROVE  b \in unheard' \/ Created(b)'
    BY <2>4, <2>1, <1>3, <1>4
  <2>5. leases # {} => retention = {}
    BY DEF TabInv, Served
  <2>6. WorldMoves
    BY <1>2, <1>5, <2>1, <2>3, <2>4, <2>5 DEF WorldMoves
  <2> QED
    BY <1>2, <2>2, <2>6, WorldStep
<1>7. CASE ~(leases # {} \/ minted = MaxMinted)
  <2>0. minted \in Nat /\ minted + 1 \in 0..MaxMinted
    BY <1>1, <1>7, TabAssumption DEF WorldTyped
  <2>2. PICK new \in Lease : new = MaxStarts + minted + 1 /\ new \notin Start
    BY <2>0, TabAssumption DEF Lease, Start
  <2>1. /\ leases = {} /\ minted' = minted + 1 /\ leases' = {new} /\ retention' = {}
        /\ unheard' = unheard \cup {new}
    BY <1>7, <2>2 DEF ServeBeat, Reconcile
  <2>3. WorldTyped'
    BY <1>1, <1>2, <2>0, <2>1, <2>2 DEF WorldTyped, Lease, Start
  <2>4. Fresh(new) /\ ~Fresh(new)'
    <3>1. new > MaxStarts + minted /\ ~(new > MaxStarts + minted')
      BY <2>0, <2>1, <2>2, TabAssumption
    <3>2. Start' = Start
      BY DEF Start
    <3> QED
      BY <2>2, <3>1, <3>2 DEF Fresh
  <2>5. ASSUME NEW b \in Lease, Fresh(b)' PROVE Fresh(b)
    <3>1. CASE b \in Start
      BY <3>1, <2>5, <1>2 DEF Fresh, Start
    <3>2. CASE b \notin Start
      BY <3>2, <2>5, <2>0, <2>1, <2>2, TabAssumption DEF Fresh, Start, Lease
    <3> QED
      BY <3>1, <3>2
  <2>6. WorldMoves
    BY <1>2, <1>5, <2>1, <2>4, <2>5 DEF WorldMoves
  <2> QED
    BY <1>2, <2>3, <2>6, WorldStep
<1> QED
  BY <1>6, <1>7

LEMMA ExpireOK ==
  ASSUME TabInv, SessionExpires
  PROVE  TabInv'
<1>1. Typed /\ WorldTyped
  BY DEF TabInv, Typed
<1>2. UNCHANGED <<page, start, beat, closing, minted, closes, unheard, faults, registry>>
  BY DEF SessionExpires, closing
<1>3. /\ leases' \subseteq leases /\ retention' \subseteq retention
      /\ leases \cup ended \subseteq leases' \cup ended'
      /\ ended' \subseteq ended \cup leases
  BY DEF SessionExpires
<1>4. WorldTyped'
  BY <1>1, <1>2, <1>3 DEF WorldTyped, Lease, Start
<1>5. \A b \in Lease : /\ Fresh(b)' <=> Fresh(b)
                       /\ Created(b)' <=> Created(b)
  BY <1>2, SameFresh
<1>6. ASSUME NEW b \in Lease, Told(b)' PROVE Told(b)
  BY <1>6, <1>2, <1>5 DEF Told
<1>7. ASSUME NEW b \in leases', b \in unheard \/ Created(b) \/ Fresh(b)
      PROVE  b \in unheard' \/ Created(b)'
  <2>1. b \in leases /\ b \in Lease
    BY <1>1, <1>3 DEF WorldTyped
  <2>2. ~Fresh(b)
    BY <2>1 DEF TabInv, Given
  <2> QED
    BY <1>7, <2>1, <2>2, <1>2, <1>5
<1>8. leases' # {} => retention' = {}
  BY <1>3 DEF TabInv, Served
<1>9. WorldMoves
  BY <1>3, <1>5, <1>6, <1>7, <1>8 DEF WorldMoves
<1> QED
  BY <1>2, <1>4, <1>9, WorldStep

(* The DELETE d has another outcome: it stays the only one of its close.   *)
Replaces(d, outcome) ==
    /\ deletes' = (deletes \ {d}) \cup {[d EXCEPT !.outcome = outcome]}
    /\ UNCHANGED <<registry, pending, confirmed, kept, loops, batches, armed>>

LEMMA ReplacedClose ==
  ASSUME TabInv, NEW d \in deletes, NEW outcome \in Outcome, Replaces(d, outcome)
  PROVE  /\ ClosesTyped' /\ Waited' /\ Completed'
         /\ \A a \in Lease : Known(a)' <=> Known(a)
         /\ \A e \in deletes' : e \in deletes \/
               (e.lease = d.lease /\ e.strength = d.strength /\ e.outcome = outcome)
<1> DEFINE e == [d EXCEPT !.outcome = outcome]
<1>1. deletes' = (deletes \ {d}) \cup {e}
  BY DEF Replaces
<1>2. UNCHANGED <<registry, pending, confirmed, kept, loops, batches, armed>>
  BY DEF Replaces
<1>3. ClosesTyped /\ d \in Delete
  BY DEF TabInv, Typed, ClosesTyped
<1>4. e \in Delete /\ e.lease = d.lease /\ e.strength = d.strength /\ e.outcome = outcome
  BY <1>3 DEF Delete
<1> HIDE DEF e
<1>5. ClosesTyped'
  BY <1>1, <1>2, <1>3, <1>4 DEF ClosesTyped, Lease, Loop, Batch, Delete, Closing
<1>6. Unique(deletes')
  <2>1. ASSUME NEW f \in deletes', NEW g \in deletes', f.lease = g.lease, f.strength = g.strength
        PROVE  f = g
    <3>1. CASE f = e /\ g = e
      BY <3>1
    <3>2. CASE f # e /\ g # e
      BY <2>1, <3>2, <1>1 DEF TabInv, Waited, Unique
    <3>3. CASE f = e /\ g # e
      BY <2>1, <3>3, <1>1, <1>4 DEF TabInv, Waited, Unique
    <3>4. CASE f # e /\ g = e
      BY <2>1, <3>4, <1>1, <1>4 DEF TabInv, Waited, Unique
    <3> QED
      BY <3>1, <3>2, <3>3, <3>4
  <2> QED
    BY <2>1 DEF Unique
<1>7. ASSUME NEW f \in deletes' PROVE AwaitedIn(f, loops, batches)
  <2>1. CASE f \in deletes
    BY <2>1 DEF TabInv, Waited
  <2>2. CASE f = e
    <3>1. AwaitedIn(d, loops, batches)
      BY DEF TabInv, Waited
    <3> QED
      BY <2>2, <3>1, <1>4 DEF AwaitedIn
  <2> QED
    BY <2>1, <2>2, <1>1
<1>8. Waited' /\ Completed'
  BY <1>2, <1>6, <1>7 DEF TabInv, Waited, Completed
<1>9. ASSUME NEW a \in Lease
      PROVE  (\E f \in deletes' : f.lease = a) <=> (\E f \in deletes : f.lease = a)
  BY <1>1, <1>4
<1>10. \A a \in Lease : Known(a)' <=> Known(a)
  BY <1>2, <1>9 DEF Known, InClosing, Queued
<1> QED
  BY <1>1, <1>4, <1>5, <1>8, <1>10

LEMMA ServeCloseOK ==
  ASSUME TabInv, NEW d \in deletes, ServeClose(d)
  PROVE  TabInv'
<1>1. PICK outcome \in CloseOutcomes(d) :
         /\ leases' = leases \ {d.lease}
         /\ retention' = IF outcome \in {"kept", "pending"} THEN retention \cup {d.lease}
                         ELSE IF outcome = "closed" THEN {} ELSE retention
         /\ Replaces(d, outcome)
         /\ UNCHANGED <<page, start, beat, registry, pending, confirmed, kept, loops, batches, armed,
                        minted, closes, unheard, ended, faults>>
  BY DEF ServeClose, Replaces, history
<1>2. outcome \in Outcome
  BY DEF CloseOutcomes, Outcome
<1>3. /\ outcome = "kept" => leases = {d.lease} /\ d.strength = "weak"
      /\ outcome = "pending" => leases = {d.lease} \/ (leases = {} /\ d.lease \in retention)
      /\ leases = {} /\ d.strength = "strong" /\ d.lease \in retention => outcome \in {"closed", "pending"}
      /\ outcome = "released" => leases # {}
  BY DEF CloseOutcomes
<1>4. Typed /\ WorldTyped /\ ClosesTyped /\ d.lease \in Lease
  BY DEF TabInv, Typed, ClosesTyped, Delete
<1>5. /\ ClosesTyped' /\ Waited' /\ Completed'
      /\ \A a \in Lease : Known(a)' <=> Known(a)
      /\ \A e \in deletes' : e \in deletes \/
            (e.lease = d.lease /\ e.strength = d.strength /\ e.outcome = outcome)
  BY <1>1, <1>2, ReplacedClose
<1>6. Known(d.lease)
  BY DEF Known, InClosing
<1>7. \A a \in Lease : /\ Fresh(a)' <=> Fresh(a)
                       /\ Created(a)' <=> Created(a)
  BY <1>1, SameFresh
<1>8. ASSUME NEW a \in Lease PROVE Told(a)' <=> Told(a)
  BY <1>1, <1>7 DEF Told
<1>9. Typed'
  <2>1. retention' \subseteq Lease
    BY <1>1, <1>4 DEF WorldTyped
  <2>2. WorldTyped'
    BY <1>1, <1>4, <2>1 DEF WorldTyped, Lease, Start
  <2> QED
    BY <1>5, <2>2 DEF Typed
<1>10. Given'
  <2>1. SUFFICES ASSUME NEW a \in Lease, Fresh(a)'
                 PROVE  a \notin (leases \cup retention)' /\ a \notin kept' /\ ~Known(a)' /\ ~Told(a)'
    BY DEF Given, Lease
  <2>2. a \notin leases /\ a \notin retention /\ a \notin kept /\ ~Known(a) /\ ~Told(a)
    BY <2>1, <1>7 DEF TabInv, Given
  <2>3. a # d.lease
    BY <2>2, <1>6
  <2> QED
    BY <2>2, <2>3, <1>1, <1>5, <1>8
<1>11. Served'
  <2>1. ASSUME NEW a \in leases'
        PROVE  confirmed[a] = "none" /\ \A e \in deletes' : e.lease = a => ~Confirms(e.outcome)
    <3>1. a \in leases /\ a # d.lease
      BY <1>1
    <3> QED
      BY <3>1, <1>5 DEF TabInv, Served
  <2>2. leases' # {} => retention' = {}
    <3>1. ASSUME leases' # {} PROVE retention' = {}
      <4>1. leases # {} /\ outcome \notin {"kept", "pending"}
        BY <3>1, <1>1, <1>3
      <4> QED
        BY <4>1, <1>1 DEF TabInv, Served
    <3> QED
      BY <3>1
  <2>3. ASSUME NEW a \in retention'
        PROVE  /\ confirmed[a] # "strong"
               /\ \A e \in deletes' : e.lease = a /\ e.strength = "strong" => ~Confirms(e.outcome)
    <3>1. a \in retention \/ a = d.lease
      BY <1>1
    <3>2. confirmed[a] # "strong"
      <4>1. a \in retention => confirmed[a] # "strong"
        BY DEF TabInv, Served
      <4>2. a \in leases => confirmed[a] # "strong"
        BY DEF TabInv, Served
      <4>3. a = d.lease /\ outcome \in {"kept", "pending"} => a \in leases \/ a \in retention
        BY <1>3
      <4>4. outcome \notin {"kept", "pending"} => a \in retention
        BY <2>3, <1>1
      <4> QED
        BY <3>1, <4>1, <4>2, <4>3, <4>4
    <3>3. ASSUME NEW e \in deletes', e.lease = a, e.strength = "strong" PROVE ~Confirms(e.outcome)
      <4>1. CASE e \in deletes
        <5>1. a \in retention => ~Confirms(e.outcome)
          BY <3>3, <4>1 DEF TabInv, Served
        <5>2. a \in leases => ~Confirms(e.outcome)
          BY <3>3, <4>1 DEF TabInv, Served
        <5>3. a \in leases \/ a \in retention
          BY <2>3, <1>1, <1>3
        <5> QED
          BY <5>1, <5>2, <5>3
      <4>2. CASE e.lease = d.lease /\ e.strength = d.strength /\ e.outcome = outcome
        <5>1. a = d.lease /\ d.strength = "strong"
          BY <3>3, <4>2
        <5>2. outcome # "kept" /\ outcome # "closed"
          BY <5>1, <1>3, <2>3, <1>1
        <5>3. outcome \notin {"released", "absent"}
          <6>1. ASSUME outcome \in {"released", "absent"} PROVE FALSE
            <7>1. a \in retention
              BY <6>1, <2>3, <1>1
            <7>2. leases = {}
              BY <7>1 DEF TabInv, Served
            <7> QED
              BY <6>1, <7>1, <7>2, <5>1, <1>3
          <6> QED
            BY <6>1
        <5> QED
          BY <4>2, <5>2, <5>3 DEF Confirms
      <4> QED
        BY <3>3, <4>1, <4>2, <1>5
    <3> QED
      BY <3>2, <3>3
  <2> QED
    BY <2>1, <2>2, <2>3, <1>1 DEF Served
<1>12. Accounted'
  <2>1. SUFFICES ASSUME NEW a \in Lease, Told(a)' PROVE a \in (leases \cup ended)' \/ Known(a)'
    BY DEF Accounted, Lease
  <2>2. a \in leases \cup ended \/ Known(a)
    BY <2>1, <1>8 DEF TabInv, Accounted
  <2> QED
    BY <2>2, <1>1, <1>5, <1>6
<1>13. Held'
  <2>1. SUFFICES ASSUME NEW a \in leases' PROVE a \in (registry \cup unheard)' \/ Known(a)' \/ Created(a)'
    BY DEF Held
  <2>2. a \in leases /\ a \in Lease
    BY <1>1, <1>4 DEF WorldTyped
  <2>3. a \in registry \/ a \in unheard \/ Known(a) \/ Created(a)
    BY <2>2 DEF TabInv, Held
  <2> QED
    BY <2>2, <2>3, <1>1, <1>5, <1>7
<1>14. Requeued'
  <2>1. SUFFICES ASSUME NEW l \in loops, l.kind = "retry", NEW c \in Range(l.list)
                 PROVE  c.lease \in Queued \/ c.lease \notin leases'
    BY <1>1 DEF Requeued, Queued, Lease
  <2>2. c.lease \in Queued \/ c.lease \notin leases
    BY <2>1 DEF TabInv, Requeued
  <2> QED
    BY <2>2, <1>1
<1>15. NoCloseIsAbandoned'
  <2>1. Queued' = Queued /\ leases' \subseteq leases
    BY <1>1 DEF Queued, Lease
  <2>2. (Queued \cap leases)' # {} => Queued \cap leases # {}
    BY <2>1
  <2> QED
    BY <1>1, <2>2 DEF NoCloseIsAbandoned, TabInv
<1> QED
  BY <1>5, <1>9, <1>10, <1>11, <1>12, <1>13, <1>14, <1>15 DEF TabInv

LEMMA LoseCloseOK ==
  ASSUME TabInv, LoseClose, faults' \in 0..MaxFaults
  PROVE  TabInv'
<1>1. PICK d \in deletes : deletes' = (deletes \ {d}) \cup {[d EXCEPT !.outcome = "failed"]}
  BY DEF LoseClose
<1>2. UNCHANGED <<page, start, beat, registry, pending, confirmed, kept, loops, batches, armed,
                  leases, retention, minted, closes, unheard, ended>>
  BY DEF LoseClose, server
<1>3. Replaces(d, "failed") /\ "failed" \in Outcome
  BY <1>1, <1>2 DEF Replaces, Outcome
<1>4. /\ ClosesTyped' /\ Waited' /\ Completed'
      /\ \A a \in Lease : Known(a)' <=> Known(a)
      /\ \A e \in deletes' : e \in deletes \/
            (e.lease = d.lease /\ e.strength = d.strength /\ e.outcome = "failed")
  BY <1>3, ReplacedClose
<1>5. WorldTyped
  BY DEF TabInv, Typed
<1>6. Typed'
  <2>1. WorldTyped'
    BY <1>2, <1>5 DEF WorldTyped, Lease, Start
  <2> QED
    BY <2>1, <1>4 DEF Typed
<1>7. \A a \in Lease : /\ Fresh(a)' <=> Fresh(a)
                       /\ Created(a)' <=> Created(a)
  BY <1>2, SameFresh
<1>8. KeepsKnown
  <2>1. ASSUME NEW a \in Lease PROVE Told(a)' <=> Told(a)
    BY <1>2, <1>7 DEF Told
  <2> QED
    BY <2>1, <1>2, <1>4 DEF KeepsKnown
<1>9. KeepsGiven
  BY <1>2, <1>5, <1>7 DEF KeepsGiven, WorldTyped
<1>10. KeepsServed
  BY <1>2, <1>4 DEF KeepsServed, Confirms, TabInv, Served
<1>11. Requeued' /\ NoCloseIsAbandoned'
  BY <1>2 DEF TabInv, Requeued, NoCloseIsAbandoned, Queued, Lease
<1> QED
  BY <1>2, <1>4, <1>6, <1>8, <1>9, <1>10, <1>11, TabStep

LEMMA LoseStartOK ==
  ASSUME TabInv, NEW a \in Start, LoseStart(a), faults' \in 0..MaxFaults
  PROVE  TabInv'
<1>1. Typed /\ WorldTyped /\ a \in Lease
  BY TabAssumption DEF TabInv, Typed, Start, Lease
<1>2. UNCHANGED <<beat, closing, leases, retention, minted, closes, ended, registry>>
  BY DEF LoseStart, closing, server
<1>3. /\ start[a].phase \in {"sent", "created"}
      /\ start' = [start EXCEPT ![a].phase = IF start[a].phase = "sent" THEN "deaf" ELSE "done"]
      /\ page' = [page EXCEPT !.starting = FALSE]
      /\ unheard' = IF start[a].phase = "created" /\ a \in leases THEN unheard \cup {a} ELSE unheard
  BY DEF LoseStart
<1>4. WorldTyped'
  <2>1. page' \in [token : 0..MaxMoves, stage : {"settled", "closing", "publishing"},
                   shown : BOOLEAN, due : BOOLEAN, starting : BOOLEAN]
    BY <1>1, <1>3 DEF WorldTyped
  <2>2. start' \in [Start -> [phase : {"none", "sent", "deaf", "created", "refused", "done"},
                              token : 0..MaxMoves]]
    BY <1>1, <1>3 DEF WorldTyped
  <2>3. unheard' \subseteq Lease
    BY <1>1, <1>3 DEF WorldTyped
  <2> QED
    BY <1>1, <1>2, <2>1, <2>2, <2>3 DEF WorldTyped, Lease, Start
<1>5. /\ start'[a].phase = IF start[a].phase = "sent" THEN "deaf" ELSE "done"
      /\ \A b \in Start : b # a => start'[b] = start[b]
  BY <1>1, <1>3 DEF WorldTyped
<1>6. ASSUME NEW b \in Lease
      PROVE  /\ Fresh(b)' => Fresh(b)
             /\ Created(b)' => Created(b)
             /\ Created(b) => Created(b)' \/ b = a
  BY <1>2, <1>3, <1>5 DEF Fresh, Created, Start
<1>7. ASSUME NEW b \in Lease, Told(b)' PROVE Told(b)
  BY <1>7, <1>2, <1>6 DEF Told
<1>8. ASSUME NEW b \in leases', b \in unheard \/ Created(b) \/ Fresh(b)
      PROVE  b \in unheard' \/ Created(b)'
  <2>1. b \in leases /\ b \in Lease
    BY <1>1, <1>2 DEF WorldTyped
  <2>2. ~Fresh(b)
    BY <2>1 DEF TabInv, Given
  <2>3. CASE b = a /\ Created(b)
    BY <2>1, <2>3, <1>3 DEF Created
  <2> QED
    BY <1>8, <2>1, <2>2, <2>3, <1>3, <1>6
<1>9. leases # {} => retention = {}
  BY DEF TabInv, Served
<1>10. WorldMoves
  BY <1>2, <1>6, <1>7, <1>8, <1>9 DEF WorldMoves
<1> QED
  BY <1>2, <1>4, <1>10, WorldStep

LEMMA LoseBeatOK ==
  ASSUME TabInv, LoseBeat, faults' \in 0..MaxFaults
  PROVE  TabInv'
<1>1. Typed /\ WorldTyped
  BY DEF TabInv, Typed
<1>2. /\ beat' = NoBeat
      /\ UNCHANGED <<page, start, closing, leases, retention, minted, closes, unheard, ended, registry>>
  BY DEF LoseBeat, closing, server
<1>3. beat'.ids = {} /\ beat' \in [phase : {"idle", "sent", "answered"}, ids : SUBSET Lease]
  BY <1>2 DEF NoBeat
<1>4. WorldTyped'
  BY <1>1, <1>2, <1>3 DEF WorldTyped, Lease, Start
<1>5. \A b \in Lease : /\ Fresh(b)' <=> Fresh(b)
                       /\ Created(b)' <=> Created(b)
  BY <1>2, SameFresh
<1>6. ASSUME NEW b \in Lease, Told(b)' PROVE Told(b)
  BY <1>6, <1>2, <1>3, <1>5 DEF Told
<1>7. ASSUME NEW b \in leases', b \in unheard \/ Created(b) \/ Fresh(b)
      PROVE  b \in unheard' \/ Created(b)'
  <2>1. b \in leases /\ b \in Lease
    BY <1>1, <1>2 DEF WorldTyped
  <2>2. ~Fresh(b)
    BY <2>1 DEF TabInv, Given
  <2> QED
    BY <1>7, <2>1, <2>2, <1>2, <1>5
<1>8. leases # {} => retention = {}
  BY DEF TabInv, Served
<1>9. WorldMoves
  BY <1>2, <1>5, <1>6, <1>7, <1>8 DEF WorldMoves
<1> QED
  BY <1>2, <1>4, <1>9, WorldStep

LEMMA LoseOK ==
  ASSUME TabInv, Lose
  PROVE  TabInv'
<1>1. faults' \in 0..MaxFaults
  BY TabAssumption DEF Lose, TabInv, Typed, WorldTyped
<1> QED
  BY <1>1, LoseStartOK, LoseCloseOK, LoseBeatOK DEF Lose

-----------------------------------------------------------------------------
LEMMA TabInitOK ==
  ASSUME TabInit
  PROVE  TabInv
<1>1. WorldTyped
  BY TabAssumption DEF TabInit, WorldTyped, NoBeat
<1>2. ClosesTyped
  BY DEF TabInit, ClosesTyped, Strength
<1>3. ASSUME NEW a \in Lease PROVE ~Known(a) /\ ~Told(a)
  BY DEF TabInit, Known, Told, Created, InClosing, Queued, NoBeat
<1>4. Given
  BY <1>3 DEF Given, TabInit
<1>5. Served /\ Waited /\ Unique({}) /\ Completed /\ Held /\ Requeued /\ NoCloseIsAbandoned
  BY DEF TabInit, Served, Waited, Unique, Completed, Held, Requeued, NoCloseIsAbandoned
<1>6. Accounted
  BY <1>3 DEF Accounted
<1> QED
  BY <1>1, <1>2, <1>4, <1>5, <1>6 DEF TabInv, Typed

LEMMA NextOK ==
  ASSUME TabInv, [TabNext]_tabVars
  PROVE  TabInv'
<1>1. CASE UNCHANGED tabVars
  <2>1. UNCHANGED <<page, start, beat, registry, pending, confirmed, kept, loops, batches, deletes,
                    armed, leases, retention, minted, closes, unheard, ended, faults>>
    BY <1>1 DEF tabVars, closing, server, history
  <2>2. WorldTyped /\ WorldTyped'
    BY <2>1 DEF TabInv, Typed, WorldTyped, Lease, Start
  <2> QED
    BY <2>1, <2>2, SameFresh, NoteOK DEF Notes, WorldTyped
<1>2. CASE \E a \in Start : Applied(a) \/ \E works \in BOOLEAN : ServeStart(a, works)
  BY <1>2, AppliedOK, ServeStartOK
<1>3. CASE \E s \in {"weak", "strong"}, again \in BOOLEAN : CloseSlot(s, again)
  BY <1>3, CloseSlotOK
<1>4. CASE \E d \in deletes : ServeClose(d)
  BY <1>4, ServeCloseOK
<1>5. CASE CloseAnswered \/ RetryTick \/ Move \/ Closed \/ ViewportPublished \/ Fire
  BY <1>5, AnsweredOK, RetryTickOK, MoveOK, ClosedOK, PublishOK, FireOK
<1>6. CASE Beat \/ ServeBeat \/ BeatAnswered \/ SessionExpires \/ Lose
  BY <1>6, BeatOK, ServeBeatOK, BeatAnsweredOK, ExpireOK, LoseOK
<1> QED
  BY <1>1, <1>2, <1>3, <1>4, <1>5, <1>6 DEF TabNext

(* What the tab has noted, asks and waits for, and what the server holds   *)
(* for it, agree after every step.                                         *)
THEOREM TabInductive == TabSpec => []TabInv
<1>1. TabInit => TabInv
  BY TabInitOK
<1>2. TabInv /\ [TabNext]_tabVars => TabInv'
  BY NextOK
<1> QED
  BY <1>1, <1>2, PTL DEF TabSpec

(* The states of the tab, of its closes and of the server are well typed.  *)
THEOREM TabTyped == TabSpec => []TabTypeOK
<1>1. TabInv => TabTypeOK
  BY DEF TabInv, Typed, WorldTyped, ClosesTyped, TabTypeOK, Loop, Delete, Batch
<1> QED
  BY <1>1, TabInductive, PTL

(* The server holds no lease that the tab forgot, no close ended a session *)
(* that the tab did not mean to end, and a strong close that was confirmed *)
(* leaves no process (createSessionRegistry, closeCoord, closeRetryTimer). *)
THEOREM TabBelievesRight == TabSpec => []TabKnowsTheServer
<1>1. TabInv => TabKnowsTheServer
  <2> SUFFICES ASSUME TabInv PROVE TabKnowsTheServer
    OBVIOUS
  <2>1. leases \subseteq Lease /\ registry \subseteq Lease /\ retention \subseteq Lease
    BY DEF TabInv, Typed, WorldTyped, ClosesTyped
  <2>2. NoLeaseIsForgotten
    BY DEF TabInv, Held, Served, Known, Created, NoLeaseIsForgotten
  <2>3. NobodyElseIsClosed
    BY <2>1 DEF TabInv, Accounted, Told, Known, NobodyElseIsClosed
  <2>4. StrongCloseEndsTheProcess
    BY DEF TabInv, Served, StrongCloseEndsTheProcess
  <2> QED
    BY <2>2, <2>3, <2>4 DEF TabKnowsTheServer
<1> QED
  BY <1>1, TabInductive, PTL

(* While the server holds a lease whose close failed, a timer runs for it, *)
(* or a close is under way whose end sets one (ensureCloseRetryLoop).      *)
THEOREM NoCloseLost == TabSpec => []NoCloseIsAbandoned
<1>1. TabInv => NoCloseIsAbandoned
  BY DEF TabInv
<1> QED
  BY <1>1, TabInductive, PTL

-----------------------------------------------------------------------------
(* The two sides of the live view *)

(* Each side moves only its own variables: a behaviour of the two is one   *)
(* of the stream manager and one of the tab.                               *)
THEOREM BothSides == MCSpec => Spec /\ TabSpec
<1>1. MCInit => Init /\ TabInit
  BY DEF MCInit
<1>2. [MCNext]_<<side, vars, tabVars>> => [Next]_vars /\ [TabNext]_tabVars
  BY DEF MCNext
<1> QED
  BY <1>1, <1>2, PTL DEF MCSpec, Spec, TabSpec

(* The states of both sides are well typed, and an FFmpeg that lives is    *)
(* the one whose instance is registered (processInstances).                *)
THEOREM SidesTyped == MCSpec => []MCTypeOK
<1>1. TypeOK /\ TabTypeOK => MCTypeOK
  BY DEF MCTypeOK
<1> QED
  BY <1>1, BothSides, LiveTyped, TabTyped, PTL
=============================================================================
