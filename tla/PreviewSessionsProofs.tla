----------------------- MODULE PreviewSessionsProofs -----------------------
(***************************************************************************)
(* Proofs about PreviewSessions, for any number of sessions, of requests   *)
(* per session and of attempts per request: a session never has two FFmpeg *)
(* running, nobody but the owner spawns one, no lease is given back over   *)
(* a process that runs, and none is left with nobody to give it back.      *)
(*                                                                         *)
(* The admission controller is the one of PlaybackAdmission, so the lemmas *)
(* of PlaybackAdmissionProofs apply to it; Adm instantiates them.          *)
(***************************************************************************)
EXTENDS PreviewSessions, FiniteSetTheorems, SequenceTheorems, TLAPS

Adm == INSTANCE PlaybackAdmissionProofs

(* The assumptions of the admission controller. *)
LEMMA AdmissionAssumptions ==
  /\ Adm!IsFiniteSet(Session) /\ NoSession \notin Session
  /\ SafeDefault \in Nat \ {0}
  /\ Limits \subseteq Nat /\ 0 \in Limits
BY AdmissionAssumption DEF Adm!IsFiniteSet, IsFiniteSet

(***************************************************************************)
(* The operators of the two instances of the controller are the same.      *)
(***************************************************************************)

LEMMA SameCardinality == \A S : Adm!Cardinality(S) = Admission!Cardinality(S)
BY DEF Adm!Cardinality, Admission!Cardinality

LEMMA SameLeases ==
  ASSUME NEW l, NEW q, NEW limit
  PROVE  /\ Adm!Leased(l) = Admission!Leased(l)
         /\ Adm!Waiting(q) = Admission!Waiting(q)
         /\ Adm!NoLease = Admission!NoLease /\ Adm!Reservation = Admission!Reservation
         /\ Adm!PromotedLeases(l, q, limit) = Admission!PromotedLeases(l, q, limit)
         /\ Adm!RestOfQueue(l, q, limit) = Admission!RestOfQueue(l, q, limit)
         /\ Adm!EffectiveLimit = Admission!EffectiveLimit
         /\ Adm!Base = Admission!Base /\ Adm!Reduction = Admission!Reduction
         /\ Adm!RestoreCapacityIfElapsed <=> Admission!RestoreCapacityIfElapsed
         /\ Adm!limitVars = Admission!limitVars
BY SameCardinality, Zenon
DEF Adm!Leased, Admission!Leased, Adm!Waiting, Admission!Waiting, Adm!NoLease, Admission!NoLease,
    Adm!Reservation, Admission!Reservation, Adm!PromotedLeases, Admission!PromotedLeases,
    Adm!RestOfQueue, Admission!RestOfQueue, Adm!Fits, Admission!Fits, Adm!Room, Admission!Room,
    Adm!EffectiveLimit, Admission!EffectiveLimit, Adm!Reduction, Admission!Reduction,
    Adm!Base, Admission!Base, Adm!RestoreCapacityIfElapsed, Admission!RestoreCapacityIfElapsed,
    Adm!limitVars, Admission!limitVars

LEMMA SameAcquire ==
  ASSUME NEW s \in Session
  PROVE  Adm!Acquire(s) <=> Admission!Acquire(s)
BY DEF Adm!Acquire, Admission!Acquire, Adm!Leased, Admission!Leased, Adm!Waiting, Admission!Waiting,
    Adm!Reservation, Admission!Reservation, Adm!PromotedLeases, Admission!PromotedLeases,
    Adm!RestOfQueue, Admission!RestOfQueue, Adm!Fits, Admission!Fits, Adm!Room, Admission!Room,
    Adm!EffectiveLimit, Admission!EffectiveLimit, Adm!Reduction, Admission!Reduction,
    Adm!Base, Admission!Base, Adm!RestoreCapacityIfElapsed, Admission!RestoreCapacityIfElapsed,
    Adm!limitVars, Admission!limitVars, Adm!Insert, Admission!Insert, Adm!IsPlace,
    Admission!IsPlace, Adm!QueueClass, Admission!QueueClass, Adm!Request, Admission!Request,
    Adm!InsertAt, Admission!InsertAt, Adm!Cardinality, Admission!Cardinality

LEMMA SameRelease ==
  ASSUME NEW s \in Session
  PROVE  /\ Admission!ReleaseLease(s) => Adm!ReleaseLease(s)
         /\ Admission!LeaveQueue(s) => Adm!LeaveQueue(s)
BY SameCardinality, Zenon
DEF Adm!ReleaseLease, Admission!ReleaseLease, Adm!LeaveQueue, Admission!LeaveQueue,
    Adm!Promote, Admission!Promote, Adm!Leased, Admission!Leased, Adm!NoLease, Admission!NoLease,
    Adm!Reservation, Admission!Reservation, Adm!PromotedLeases, Admission!PromotedLeases,
    Adm!RestOfQueue, Admission!RestOfQueue, Adm!Fits, Admission!Fits, Adm!Room, Admission!Room,
    Adm!EffectiveLimit, Admission!EffectiveLimit, Adm!Reduction, Admission!Reduction,
    Adm!Base, Admission!Base, Adm!RestoreCapacityIfElapsed, Admission!RestoreCapacityIfElapsed,
    Adm!limitVars, Admission!limitVars, Adm!RemoveAt, Admission!RemoveAt

LEMMA SameMarks ==
  ASSUME NEW s \in Session, NEW b \in BOOLEAN
  PROVE  /\ Admission!MarkConsumed(s) => Adm!MarkConsumed(s)
         /\ Admission!MarkFirstByte(s) => Adm!MarkFirstByte(s)
         /\ Admission!MarkTerminating(s, b) => Adm!MarkTerminating(s, b)
         /\ Admission!Report453(s) => Adm!Report453(s)
         /\ Admission!ReadEffectiveLimit => Adm!ReadEffectiveLimit
         /\ Admission!CooldownElapses => Adm!CooldownElapses
BY SameCardinality, Zenon
DEF Adm!MarkConsumed, Admission!MarkConsumed, Adm!MarkFirstByte, Admission!MarkFirstByte,
    Adm!MarkTerminating, Admission!MarkTerminating, Adm!UpdateLease, Admission!UpdateLease,
    Adm!Report453, Admission!Report453, Adm!ReductionAfter453, Admission!ReductionAfter453,
    Adm!ReadEffectiveLimit, Admission!ReadEffectiveLimit, Adm!CooldownElapses,
    Admission!CooldownElapses, Adm!Leased, Admission!Leased, Adm!Reduction, Admission!Reduction,
    Adm!RestoreCapacityIfElapsed, Admission!RestoreCapacityIfElapsed,
    Adm!limitVars, Admission!limitVars

(***************************************************************************)
(* The queue without the requests of some sessions.                        *)
(***************************************************************************)

(* Every k up to the size of a finite set of naturals is the rank of one   *)
(* of its elements, and ranks grow with the elements.                      *)
LEMMA Ranks ==
  ASSUME NEW n \in Nat, NEW kept \in SUBSET (1 .. n)
  PROVE  LET upTo(i) == Cardinality({j \in kept : j <= i})
         IN /\ Cardinality(kept) \in Nat
            /\ \A k \in 1 .. Cardinality(kept) : \E i \in kept : upTo(i) = k
            /\ \A i, j \in kept : i <= j => upTo(i) <= upTo(j)
            /\ \A i \in kept : upTo(i) \in 1 .. Cardinality(kept)
<1> DEFINE below(i) == {j \in kept : j <= i}
           c == Cardinality(kept)
           rank == [i \in kept |-> Cardinality(below(i))]
<1>1. IsFiniteSet(kept) /\ c \in Nat /\ \A S \in SUBSET kept : IsFiniteSet(S) /\ Cardinality(S) \in Nat
  <2>1. IsFiniteSet(1 .. n)
    BY FS_Interval
  <2>2. IsFiniteSet(kept)
    BY <2>1, FS_Subset
  <2>3. ASSUME NEW S \in SUBSET kept PROVE IsFiniteSet(S) /\ Cardinality(S) \in Nat
    <3>1. IsFiniteSet(S)
      BY <2>2, FS_Subset
    <3> QED BY <3>1, FS_CardinalityType
  <2>4. kept \in SUBSET kept
    OBVIOUS
  <2> QED BY <2>2, <2>3, <2>4
<1>2. \A S, T : T \in SUBSET kept /\ S \in SUBSET T =>
        Cardinality(S) <= Cardinality(T) /\ (Cardinality(S) = Cardinality(T) => S = T)
  BY <1>1, FS_Subset
<1>3. ASSUME NEW i \in kept PROVE Cardinality(below(i)) \in 1 .. c
  <2>1. below(i) \in SUBSET kept /\ {} \in SUBSET below(i) /\ below(i) # {}
    BY <1>3
  <2>2. Cardinality(below(i)) <= c /\ Cardinality(below(i)) # 0
    BY <1>1, <1>2, <2>1, FS_EmptySet
  <2> QED BY <1>1, <2>1, <2>2
<1>4. ASSUME NEW i \in kept, NEW j \in kept, i <= j
      PROVE  /\ Cardinality(below(i)) <= Cardinality(below(j))
             /\ Cardinality(below(i)) = Cardinality(below(j)) => i = j
  <2>0. \A x \in kept : x \in Int
    OBVIOUS
  <2>1. below(i) \in SUBSET below(j) /\ below(j) \in SUBSET kept
    <3>1. ASSUME NEW x \in kept, x <= i PROVE x <= j
      BY <1>4, <2>0, <3>1
    <3> QED BY <3>1
  <2>2. below(i) = below(j) => i = j
    <3>1. j \in below(j) /\ (j \in below(i) => j <= i)
      BY <2>0
    <3> HIDE DEF below
    <3> QED BY <1>4, <2>0, <3>1
  <2> QED BY <1>2, <2>1, <2>2
<1>5. rank \in Injection(kept, 1 .. c)
  <2>1. rank \in [kept -> 1 .. c]
    BY <1>3
  <2>2. ASSUME NEW i \in kept, NEW j \in kept, rank[i] = rank[j] PROVE i = j
    <3>1. i <= j \/ j <= i
      OBVIOUS
    <3>2. Cardinality(below(i)) = Cardinality(below(j))
      BY <2>2
    <3> HIDE DEF below
    <3> QED BY <1>4, <3>1, <3>2
  <2> HIDE DEF rank
  <2> QED BY <2>1, <2>2 DEF Injection, IsInjective
<1>6. rank \in Surjection(kept, 1 .. c)
  <2>1. IsFiniteSet(1 .. c) /\ Cardinality(1 .. c) = c
    BY <1>1, FS_Interval
  <2> QED BY <1>5, <2>1, FS_Injection
<1>7. \A k \in 1 .. c : \E i \in kept : Cardinality(below(i)) = k
  <2>1. \A k \in 1 .. c : \E i \in kept : rank[i] = k
    BY <1>6 DEF Surjection
  <2> QED BY <2>1
<1> QED BY <1>1, <1>3, <1>4, <1>7

(* What is left of a queue is a subsequence of it. *)
LEMMA WithoutFacts ==
  ASSUME NEW S, NEW q \in Seq(S), NEW gone
  PROVE  LET r == Without(q, gone)
         IN /\ r \in Seq(S) /\ Len(r) \in Nat
            /\ \E at \in [1 .. Len(r) -> 1 .. Len(q)] :
                 /\ \A k \in 1 .. Len(r) : r[k] = q[at[k]] /\ r[k].session \notin gone
                 /\ \A k, m \in 1 .. Len(r) : k < m => at[k] < at[m]
<1> DEFINE kept == {i \in DOMAIN q : q[i].session \notin gone}
           upTo(i) == Cardinality({j \in kept : j <= i})
           c == Cardinality(kept)
           at == [k \in 1 .. c |-> CHOOSE i \in kept : upTo(i) = k]
           r == [k \in 1 .. c |-> q[CHOOSE i \in kept : upTo(i) = k]]
<1>0. DOMAIN q = 1 .. Len(q) /\ Len(q) \in Nat /\ \A i \in 1 .. Len(q) : q[i] \in S
  BY LenProperties, ElementOfSeq
<1>1. /\ c \in Nat
      /\ \A k \in 1 .. c : \E i \in kept : upTo(i) = k
      /\ \A i, j \in kept : i <= j => upTo(i) <= upTo(j)
      /\ \A i \in kept : upTo(i) \in 1 .. c
  <2>1. kept \in SUBSET (1 .. Len(q))
    BY <1>0
  <2> HIDE DEF kept
  <2> QED BY <1>0, <2>1, Ranks
<1>2. r = Without(q, gone)
  BY DEF Without
<1>3. \A k \in 1 .. c : at[k] \in kept /\ upTo(at[k]) = k /\ r[k] = q[at[k]]
  <2> HIDE DEF upTo, kept, c
  <2> QED BY <1>1
<1>4. \A i \in kept : i \in 1 .. Len(q) /\ q[i].session \notin gone
  BY <1>0
<1>5. r \in [1 .. c -> S] /\ at \in [1 .. c -> 1 .. Len(q)]
  <2>1. \A k \in 1 .. c : at[k] \in 1 .. Len(q) /\ r[k] \in S
    <3> HIDE DEF kept, upTo, c, at, r
    <3> QED BY <1>0, <1>3, <1>4
  <2>2. at \in [1 .. c -> 1 .. Len(q)]
    <3> HIDE DEF kept, upTo, c
    <3> QED BY <2>1
  <2>3. r \in [1 .. c -> S]
    <3> HIDE DEF kept, upTo, c
    <3> QED BY <2>1
  <2> QED BY <2>2, <2>3
<1> HIDE DEF kept, upTo, c, at, r
<1>6. r \in Seq(S) /\ Len(r) = c
  BY <1>1, <1>5
<1>7. ASSUME NEW k \in 1 .. c, NEW m \in 1 .. c, k < m PROVE at[k] < at[m]
  <2>1. at[k] \in kept /\ at[m] \in kept /\ upTo(at[k]) = k /\ upTo(at[m]) = m
    BY <1>3
  <2>2. at[m] <= at[k] => upTo(at[m]) <= upTo(at[k])
    BY <1>1, <2>1
  <2>3. at[k] \in Nat /\ at[m] \in Nat
    BY <1>4, <2>1
  <2> QED BY <1>1, <1>7, <2>1, <2>2, <2>3
<1>8. \A k \in 1 .. c : r[k] = q[at[k]] /\ r[k].session \notin gone
  BY <1>3, <1>4
<1>9. /\ r \in Seq(S) /\ Len(r) \in Nat
      /\ \E f \in [1 .. Len(r) -> 1 .. Len(q)] :
           /\ \A k \in 1 .. Len(r) : r[k] = q[f[k]] /\ r[k].session \notin gone
           /\ \A k, m \in 1 .. Len(r) : k < m => f[k] < f[m]
  BY <1>1, <1>5, <1>6, <1>7, <1>8
<1> QED BY <1>2, <1>9

(* A queue stays disciplined when requests leave it, and the leases of     *)
(* those that stay are as before.                                          *)
LEMMA WithoutKeepsDiscipline ==
  ASSUME NEW l, NEW q, Adm!Disciplined(l, q), NEW gone
  PROVE  Adm!Disciplined(l, Without(q, gone)) /\ Adm!Waiting(Without(q, gone)) \subseteq Adm!Waiting(q) \ gone
<1> DEFINE r == Without(q, gone)
<1>0. q \in Seq(Adm!QueuedRequest) /\ Len(q) \in Nat
  BY LenProperties DEF Adm!Disciplined
<1>1. r \in Seq(Adm!QueuedRequest) /\ Len(r) \in Nat
  BY <1>0, WithoutFacts
<1>2. PICK at \in [1 .. Len(r) -> 1 .. Len(q)] :
        /\ \A k \in 1 .. Len(r) : r[k] = q[at[k]] /\ r[k].session \notin gone
        /\ \A k, m \in 1 .. Len(r) : k < m => at[k] < at[m]
  BY <1>0, WithoutFacts
<1> HIDE DEF r
<1>3. \A k, m \in 1 .. Len(r) : at[k] = at[m] => k = m
  <2>1. ASSUME NEW k \in 1 .. Len(r), NEW m \in 1 .. Len(r), at[k] = at[m] PROVE k = m
    <3>1. at[k] \in 1 .. Len(q) /\ at[m] \in 1 .. Len(q)
      OBVIOUS
    <3> QED BY <1>0, <1>1, <1>2, <2>1, <3>1
  <2> QED BY <2>1
<1>4. \A k \in 1 .. Len(r) : at[k] \in 1 .. Len(q) /\ r[k] = q[at[k]]
  BY <1>2
<1>5. \A i, j \in 1 .. Len(r) : r[i].session = r[j].session => i = j
  BY <1>3, <1>4 DEF Adm!Disciplined
<1>6. \A i \in 1 .. Len(r) : l[r[i].session].state = "free"
  BY <1>4 DEF Adm!Disciplined
<1>7. \A i, j \in 1 .. Len(r) :
        (i < j /\ r[j].queueClass = "continuity") => r[i].queueClass = "continuity"
  BY <1>2, <1>4 DEF Adm!Disciplined
<1>8. \A i, j \in 1 .. Len(r) :
        (/\ r[i].queueClass = "continuity" /\ r[j].queueClass = "continuity"
         /\ r[i].continuityOf = r[j].continuityOf) => i = j
  BY <1>3, <1>4 DEF Adm!Disciplined
<1>9. l \in [Session -> Adm!Lease]
  BY DEF Adm!Disciplined
<1>10. Adm!Disciplined(l, r)
  BY <1>1, <1>5, <1>6, <1>7, <1>8, <1>9 DEF Adm!Disciplined
<1>11. Adm!Waiting(r) \subseteq Adm!Waiting(q) \ gone
  <2>1. DOMAIN r = 1 .. Len(r) /\ DOMAIN q = 1 .. Len(q)
    BY <1>0, <1>1, LenProperties
  <2> QED BY <1>2, <1>4, <2>1 DEF Adm!Waiting
<1> QED BY <1>10, <1>11 DEF r

(***************************************************************************)
(* The inductive invariant, for one session: sess, gen, hs, ps, aw, st and *)
(* od are its session, generation, handlers, processes, releases that      *)
(* wait, stuckTerminations entry and history; l is its lease, and waits    *)
(* says whether it is in the queue.                                        *)
(***************************************************************************)

\* Who may have a process: at most one request has one alive, none has anything
\* beyond the newest, and once the newest spawned (or may spawn) nothing else is
\* alive.  A retry is set only between two attempts, a request that waits to take
\* over has spawned nothing, one whose spawn failed is over, and what runs
\* without owning the stream is told to stop.
Shape(sess, gen, hs, ps) ==
  /\ \A g, h \in Alive(ps) : g = h
  /\ \A g \in Get : g > gen => hs[g] = NewHandler("none") /\ ps[g] = NoProcess
  /\ \A g \in Get : (g = gen /\ (hs[g].phase = "hijacked" \/ ps[g].state # "none")) =>
       Alive(ps) \subseteq {g}
  /\ \A g \in Get : hs[g].retry =>
       hs[g].phase = "hijacked" /\ ps[g].state = "none" /\ hs[g].left > 0
  /\ \A g \in Get : hs[g].phase = "takeover" => ps[g] = NoProcess
  /\ \A g \in Get : ps[g].state = "erred" => hs[g].phase = "over"
  /\ \A g \in Running(ps) : (g = gen /\ sess = "open") \/ ps[g].killed
  /\ sess = "none" => gen = 0

\* A release waits for something that is alive, and never beside an owner that
\* still plays.
Awaits(sess, gen, hs, ps, aw) ==
  /\ \A a \in aw : a \cap Alive(ps) # {}
  /\ \A g \in Get : (sess = "open" /\ g = gen /\ hs[g].phase = "hijacked") => aw = {}

\* The owner that will give the lease back.
Held(sess, gen, hs, ps) ==
  /\ sess = "open"
  /\ \E g \in Get :
       /\ g = gen
       /\ \/ hs[g].phase = "takeover"
          \/ hs[g].phase = "hijacked" /\ (ps[g].state # "none" \/ hs[g].retry)

\* The lease covers the owner from its takeover on and whatever runs; a session
\* that spawned neither waits nor has a lease that may expire; and a consumed
\* lease has somebody to give it back.
Covered(sess, gen, hs, ps, aw, st, od, l, waits) ==
  /\ st => od
  /\ \A g \in Get : (sess = "open" /\ g = gen /\ hs[g].phase = "hijacked" /\ ~od) => l.state # "free"
  /\ (Running(ps) # {} /\ ~od) => l.state # "free"
  /\ \A g \in Get : (hs[g].phase = "hijacked" \/ ps[g].state # "none") =>
       ~waits /\ (l.state # "free" => l.consumed)
  /\ (l.consumed /\ ~od) => (aw # {} \/ st \/ Held(sess, gen, hs, ps))

SessionOK(s) ==
  /\ Shape(session[s], generation[s], handler[s], proc[s])
  /\ Awaits(session[s], generation[s], handler[s], proc[s], awaited[s])
  /\ Covered(session[s], generation[s], handler[s], proc[s], awaited[s], stuck[s], overdue[s],
             lease[s], s \in Adm!Waiting(queue))

Typed ==
  /\ session \in [Session -> {"none", "open", "closed"}]
  /\ generation \in [Session -> 0 .. MaxGets]
  /\ vod \in [Session -> 0 .. MaxGets]
  /\ handler \in [Session -> [Get -> Handler]]
  /\ proc \in [Session -> [Get -> Process]]
  /\ awaited \in [Session -> SUBSET ((SUBSET Get) \ {{}})]
  /\ stuck \in [Session -> BOOLEAN]
  /\ overdue \in [Session -> BOOLEAN]

IInv == Adm!IInv /\ Typed /\ \A s \in Session : SessionOK(s)

(***************************************************************************)
(* What a step does to the handlers and processes of a session.            *)
(***************************************************************************)

LEMMA ProcessFacts ==
  /\ NoProcess \in Process /\ NoProcess.state = "none" /\ ~NoProcess.killed
  /\ \A phase \in {"none", "takeover", "hijacked", "over"} :
       /\ NewHandler(phase) \in Handler /\ NewHandler(phase).phase = phase
       /\ NewHandler(phase).left = 0 /\ ~NewHandler(phase).retry /\ ~NewHandler(phase).firstByte
BY BoundsAssumption DEF NoProcess, Process, NewHandler, Handler

\* Signals and finalized attempts change no process's being alive or running.
LEMMA KillFacts ==
  ASSUME NEW ps \in [Get -> Process], NEW T
  PROVE  LET k == KillThose(ps, T)
             f == [g \in Get |-> Finalized(ps[g])]
         IN /\ k \in [Get -> Process] /\ f \in [Get -> Process]
            /\ \A g \in Get :
                 /\ k[g].state = ps[g].state
                 /\ k[g].killed <=> (ps[g].killed \/ g \in Alive(ps) \cap T)
                 /\ f[g].state = IF ps[g].state = "waiting" THEN "settled" ELSE ps[g].state
                 /\ f[g].killed <=> ps[g].killed
                 /\ ps[g] = NoProcess => k[g] = NoProcess /\ f[g] = NoProcess
<1>1. ASSUME NEW g \in Get
      PROVE  /\ [ps[g] EXCEPT !.killed = TRUE] \in Process
             /\ [ps[g] EXCEPT !.killed = TRUE].state = ps[g].state
             /\ [ps[g] EXCEPT !.killed = TRUE].killed
             /\ Finalized(ps[g]) \in Process
             /\ Finalized(ps[g]).state = IF ps[g].state = "waiting" THEN "settled" ELSE ps[g].state
             /\ Finalized(ps[g]).killed = ps[g].killed
  BY DEF Process, Finalized
<1>2. \A g \in Get : KillThose(ps, T)[g] =
        IF g \in Alive(ps) \cap T THEN [ps[g] EXCEPT !.killed = TRUE] ELSE ps[g]
  BY DEF KillThose
<1>3. KillThose(ps, T) \in [Get -> Process]
  BY <1>1 DEF KillThose
<1>4. \A g \in Get : ps[g].killed \in BOOLEAN
  BY DEF Process
<1>5. ASSUME NEW g \in Get
      PROVE  /\ KillThose(ps, T)[g].state = ps[g].state
             /\ KillThose(ps, T)[g].killed <=> (ps[g].killed \/ g \in Alive(ps) \cap T)
  BY <1>1, <1>2
<1>6. ASSUME NEW g \in Get, ps[g] = NoProcess
      PROVE  KillThose(ps, T)[g] = NoProcess /\ Finalized(ps[g]) = NoProcess
  BY <1>2, <1>6, ProcessFacts DEF Alive, Finalized
<1> QED BY <1>1, <1>3, <1>5, <1>6

\* A slot of a session whose process is not spawned anew and whose request does
\* not get further than it was.
Quiet(r, p, r2, p2) ==
  /\ p2.state \notin {"none", "exited"} => p.state \notin {"none", "exited"}
  /\ p2.state \in {"waiting", "settled"} => p.state \in {"waiting", "settled"} /\ (p.killed => p2.killed)
  /\ p2.state # "none" => p.state # "none"
  /\ p = NoProcess => p2 = NoProcess
  /\ r2.phase = "takeover" => r.phase = "takeover"
  /\ r2.phase = "hijacked" => r.phase = "hijacked"
  /\ r2.retry => r2.phase = "hijacked" /\ p2.state = "none" /\ r2.left > 0
  /\ p2.state = "erred" => r2.phase = "over"
  /\ (r = NewHandler("none") /\ p = NoProcess) => r2 = NewHandler("none")

QuietSlots(hs, ps, hs2, ps2) == \A g \in Get : Quiet(hs[g], ps[g], hs2[g], ps2[g])

LEMMA QuietShape ==
  ASSUME NEW sess, NEW gen, NEW hs, NEW ps, NEW hs2, NEW ps2, Shape(sess, gen, hs, ps),
         QuietSlots(hs, ps, hs2, ps2)
  PROVE  /\ Shape(sess, gen, hs2, ps2)
         /\ Alive(ps2) \subseteq Alive(ps) /\ Running(ps2) \subseteq Running(ps)
<1>0. \A g \in Get : Quiet(hs[g], ps[g], hs2[g], ps2[g])
  BY DEF QuietSlots
<1>1. Alive(ps2) \subseteq Alive(ps) /\ Running(ps2) \subseteq Running(ps)
  BY <1>0 DEF Quiet, Alive, Running
<1>2. \A g \in Get : g > gen => hs2[g] = NewHandler("none") /\ ps2[g] = NoProcess
  BY <1>0 DEF Quiet, Shape
<1>3. \A g \in Get : (g = gen /\ (hs2[g].phase = "hijacked" \/ ps2[g].state # "none")) =>
       Alive(ps2) \subseteq {g}
  BY <1>0, <1>1 DEF Quiet, Shape
<1>4. \A g \in Get : hs2[g].phase = "takeover" => ps2[g] = NoProcess
  BY <1>0 DEF Quiet, Shape
<1>5. \A g \in Running(ps2) : (g = gen /\ sess = "open") \/ ps2[g].killed
  BY <1>0, <1>1 DEF Quiet, Shape, Running
<1> QED BY <1>0, <1>1, <1>2, <1>3, <1>4, <1>5 DEF Quiet, Shape

\* The newest request spawns, when nothing is alive.
LEMMA SpawnShape ==
  ASSUME NEW gen \in Get, NEW hs, NEW ps, NEW hs2, NEW ps2, Shape("open", gen, hs, ps),
         Alive(ps) = {},
         \A h \in Get \ {gen} : hs2[h] = hs[h] /\ ps2[h] = ps[h],
         hs2[gen].phase = "hijacked", ~hs2[gen].retry,
         ps2[gen].state \in {"waiting", "unspawned"}
  PROVE  Shape("open", gen, hs2, ps2)
<1>1. \A h \in Get : h > gen => h # gen
  BY BoundsAssumption DEF Get
<1>2. Alive(ps2) = {gen} /\ Running(ps2) \subseteq {gen}
  BY DEF Alive, Running
<1>3. \A g \in Get : g > gen => hs2[g] = NewHandler("none") /\ ps2[g] = NoProcess
  BY <1>1 DEF Shape
<1>4. \A g \in Get : hs2[g].retry =>
       hs2[g].phase = "hijacked" /\ ps2[g].state = "none" /\ hs2[g].left > 0
  BY DEF Shape
<1>5. \A g \in Get : hs2[g].phase = "takeover" => ps2[g] = NoProcess
  BY DEF Shape
<1>6. \A g \in Get : ps2[g].state = "erred" => hs2[g].phase = "over"
  BY DEF Shape
<1> QED BY <1>2, <1>3, <1>4, <1>5, <1>6 DEF Shape

\* A new request takes the stream, and what is alive is told to stop.
LEMMA TakeoverShape ==
  ASSUME NEW gen \in 0 .. MaxGets, gen + 1 \in Get, NEW hs, NEW ps \in [Get -> Process],
         NEW hs2, NEW ps2,
         Shape("open", gen, hs, ps),
         \A h \in Get \ {gen + 1} : hs2[h] = hs[h],
         hs2[gen + 1] = NewHandler("takeover"),
         ps2 = KillAll(ps)
  PROVE  Shape("open", gen + 1, hs2, ps2) /\ Alive(ps2) = Alive(ps)
<1>1. /\ ps2 \in [Get -> Process]
      /\ \A g \in Get : /\ ps2[g].state = ps[g].state
                        /\ ps2[g].killed <=> (ps[g].killed \/ g \in Alive(ps))
                        /\ ps[g] = NoProcess => ps2[g] = NoProcess
  <2>1. Alive(ps) \cap Get = Alive(ps)
    BY DEF Alive
  <2> QED BY <2>1, KillFacts DEF KillAll
<1>2. Alive(ps2) = Alive(ps) /\ Running(ps2) = Running(ps) /\ Running(ps) \subseteq Alive(ps)
  BY <1>1 DEF Alive, Running
<1>3. \A g \in Get : g > gen => ps2[g] = NoProcess
  BY <1>1 DEF Shape
<1>4. \A g \in Get : g > gen + 1 => g > gen /\ g # gen + 1
  BY DEF Get
<1>5. gen + 1 > gen
  OBVIOUS
<1>6. hs2[gen + 1].phase = "takeover" /\ ~hs2[gen + 1].retry
  BY ProcessFacts
<1>7. \A g \in Get : g > gen + 1 => hs2[g] = NewHandler("none") /\ ps2[g] = NoProcess
  BY <1>3, <1>4 DEF Shape
<1>8. \A g \in Get : hs2[g].retry =>
       hs2[g].phase = "hijacked" /\ ps2[g].state = "none" /\ hs2[g].left > 0
  BY <1>1, <1>6 DEF Shape
<1>9. \A g \in Get : hs2[g].phase = "takeover" => ps2[g] = NoProcess
  BY <1>1, <1>3, <1>5 DEF Shape
<1>10. ps2[gen + 1].state = "none"
  BY <1>3, <1>5, ProcessFacts
<1>11. \A g \in Get : ps2[g].state = "erred" => hs2[g].phase = "over"
  BY <1>1, <1>10 DEF Shape
<1>12. \A g \in Running(ps2) : ps2[g].killed
  BY <1>1, <1>2 DEF Running
<1>13. \A g, h \in Alive(ps2) : g = h
  BY <1>2 DEF Shape
<1> QED BY <1>2, <1>6, <1>7, <1>8, <1>9, <1>10, <1>11, <1>12, <1>13 DEF Shape

\* A session that is torn down finalizes and signals whatever is alive.
LEMMA TornDownShape ==
  ASSUME NEW sess, NEW gen \in 0 .. MaxGets, NEW hs, NEW ps \in [Get -> Process],
         Shape(sess, gen, hs, ps), sess # "none"
  PROVE  /\ Shape("closed", gen, hs, TornDown(ps)) /\ TornDown(ps) \in [Get -> Process]
         /\ Alive(TornDown(ps)) = Alive(ps) /\ Running(TornDown(ps)) = Running(ps)
         /\ \A g \in Get : TornDown(ps)[g].state # "none" <=> ps[g].state # "none"
<1> DEFINE f == [g \in Get |-> Finalized(ps[g])]
           k == KillThose(f, Get)
<1>1. k = TornDown(ps)
  BY DEF TornDown, KillAll
<1>2. /\ f \in [Get -> Process]
      /\ \A g \in Get : /\ f[g].state = IF ps[g].state = "waiting" THEN "settled" ELSE ps[g].state
                        /\ f[g].killed <=> ps[g].killed
                        /\ ps[g] = NoProcess => f[g] = NoProcess
  BY KillFacts
<1> HIDE DEF f
<1>3. /\ k \in [Get -> Process]
      /\ \A g \in Get : k[g].state = f[g].state /\ (k[g].killed <=> (f[g].killed \/ g \in Alive(f) \cap Get))
      /\ \A g \in Get : f[g] = NoProcess => k[g] = NoProcess
  BY <1>2, KillFacts
<1> HIDE DEF k
<1>4. Alive(k) = Alive(ps) /\ Alive(f) = Alive(ps) /\ Running(k) = Running(ps)
  BY <1>2, <1>3 DEF Alive, Running
<1>5. \A g \in Get : Quiet(hs[g], ps[g], hs[g], k[g])
  <2>1. ASSUME NEW g \in Get PROVE Quiet(hs[g], ps[g], hs[g], k[g])
    <3>1. k[g].state = IF ps[g].state = "waiting" THEN "settled" ELSE ps[g].state
      BY <1>2, <1>3
    <3>2. ps[g].killed => k[g].killed
      BY <1>2, <1>3
    <3>3. ps[g] = NoProcess => k[g] = NoProcess
      BY <1>2, <1>3
    <3> QED BY <3>1, <3>2, <3>3 DEF Quiet, Shape
  <2> QED BY <2>1
<1>6. Shape(sess, gen, hs, k)
  BY <1>5, QuietShape DEF QuietSlots
<1>7. \A g \in Running(k) : k[g].killed
  BY <1>3, <1>4 DEF Running, Alive
<1>8. Shape("closed", gen, hs, k)
  BY <1>6, <1>7 DEF Shape
<1> QED BY <1>1, <1>2, <1>3, <1>4, <1>8

(***************************************************************************)
(* What an operation of the controller does to the lease of a session.     *)
(***************************************************************************)

\* The lease of t stays as it was, but that the queue may grant it one.
Steady(t) ==
  /\ lease[t].state # "free" => lease'[t].state # "free"
  /\ lease'[t].consumed <=> lease[t].consumed
  /\ t \notin Adm!Waiting(queue) =>
       t \notin Adm!Waiting(queue') /\ (lease'[t].state # "free" => lease[t].state # "free")

LEMMA LeaseFacts ==
  ASSUME Adm!IInv
  PROVE  /\ Adm!Disciplined(lease, queue) /\ \A t \in Session : Adm!Agrees(lease[t])
         /\ lease \in [Session -> Adm!Lease] /\ queue \in Seq(Adm!QueuedRequest)
         /\ DOMAIN queue = 1 .. Len(queue)
         /\ \A t \in Session : lease[t].consumed => lease[t].state # "free"
         /\ \A t \in Adm!Waiting(queue) : t \in Session /\ lease[t].state = "free"
         /\ Adm!EffectiveLimit \in Nat
<1>1. /\ Adm!Disciplined(lease, queue) /\ \A t \in Session : Adm!Agrees(lease[t])
      /\ lease \in [Session -> Adm!Lease] /\ queue \in Seq(Adm!QueuedRequest)
  BY DEF Adm!IInv, Adm!Disciplined
<1>2. DOMAIN queue = 1 .. Len(queue)
  BY <1>1, LenProperties
<1>3. \A t \in Session : lease[t].consumed => lease[t].state # "free"
  BY <1>1 DEF Adm!Agrees
<1>4. ASSUME NEW i \in 1 .. Len(queue)
      PROVE  queue[i].session \in Session /\ lease[queue[i].session].state = "free"
  BY <1>1, Adm!QueueElement, AdmissionAssumptions DEF Adm!Disciplined
<1>5. \A t \in Adm!Waiting(queue) : t \in Session /\ lease[t].state = "free"
  BY <1>2, <1>4 DEF Adm!Waiting
<1>6. Adm!EffectiveLimit \in Nat
  BY Adm!LimitIsNat, AdmissionAssumptions
<1> QED BY <1>1, <1>2, <1>3, <1>5, <1>6

\* What promote makes of leases l and queue q.
LEMMA PromotionFacts ==
  ASSUME NEW l, NEW q, Adm!Disciplined(l, q), \A t \in Session : Adm!Agrees(l[t]),
         NEW limit \in Nat
  PROVE  LET p == Adm!PromotedLeases(l, q, limit)
             r == Adm!RestOfQueue(l, q, limit)
         IN /\ Adm!Disciplined(p, r) /\ \A t \in Session : Adm!Agrees(p[t])
            /\ Adm!Waiting(r) \subseteq Adm!Waiting(q)
            /\ \A t \in Session :
                 /\ l[t].state # "free" \/ t \notin Adm!Waiting(q) => p[t] = l[t]
                 /\ p[t].consumed <=> l[t].consumed
<1> DEFINE p == Adm!PromotedLeases(l, q, limit)
           r == Adm!RestOfQueue(l, q, limit)
           n == Adm!Fits(l, q, limit)
<1>1. l \in [Session -> Adm!Lease] /\ q \in Seq(Adm!QueuedRequest)
  BY DEF Adm!Disciplined
<1>2. Len(q) \in Nat /\ DOMAIN q = 1 .. Len(q)
  BY <1>1, LenProperties
<1>3. n \in 0 .. Len(q)
  BY <1>1, Adm!FitsFacts, AdmissionAssumptions
<1>4. \A t \in Session :
        \/ \E i \in 1 .. n : q[i].session = t /\ p[t] = Adm!Reservation
        \/ p[t] = l[t]
  BY <1>1, Adm!PromotedFacts, AdmissionAssumptions
<1>5. /\ r \in Seq(Adm!QueuedRequest) /\ Len(r) = Len(q) - n
      /\ \A i \in 1 .. Len(q) - n : r[i] = q[n + i]
  BY <1>1, Adm!RestFacts, AdmissionAssumptions
<1>6. Adm!Disciplined(p, r)
  BY Adm!PromoteKeepsDiscipline, AdmissionAssumptions
<1>7. \A t \in Session : Adm!Agrees(p[t])
  BY <1>1, Adm!PromoteKeepsAgreement, AdmissionAssumptions
<1> HIDE DEF p, r, n
<1>8. Adm!Waiting(r) \subseteq Adm!Waiting(q)
  <2>1. DOMAIN r = 1 .. Len(r)
    BY <1>5, LenProperties
  <2>2. ASSUME NEW i \in 1 .. Len(r) PROVE n + i \in 1 .. Len(q) /\ r[i] = q[n + i]
    BY <1>2, <1>3, <1>5
  <2> QED BY <1>2, <2>1, <2>2 DEF Adm!Waiting
<1>9. ASSUME NEW t \in Session
      PROVE  /\ l[t].state # "free" \/ t \notin Adm!Waiting(q) => p[t] = l[t]
             /\ p[t].consumed <=> l[t].consumed
  <2>1. CASE \E i \in 1 .. n : q[i].session = t /\ p[t] = Adm!Reservation
    <3>1. PICK i \in 1 .. n : q[i].session = t /\ p[t] = Adm!Reservation
      BY <2>1
    <3>2. i \in 1 .. Len(q)
      BY <1>2, <1>3
    <3>3. t \in Adm!Waiting(q)
      BY <1>2, <3>1, <3>2 DEF Adm!Waiting
    <3>4. l[t].state = "free"
      BY <3>1, <3>2 DEF Adm!Disciplined
    <3>5. ~p[t].consumed /\ ~l[t].consumed
      BY <3>1, <3>4 DEF Adm!Reservation, Adm!Agrees
    <3> QED BY <3>3, <3>4, <3>5
  <2> QED BY <1>4, <2>1
<1> QED BY <1>6, <1>7, <1>8, <1>9 DEF p, r

\* acquire: nobody loses a lease, and nobody else gets one past the queue.
LEMMA AcquireEffect ==
  ASSUME Adm!IInv, NEW s \in Session, Admission!Acquire(s)
  PROVE  /\ Adm!IInv' /\ \A t \in Session \ {s} : Steady(t)
         /\ lease[s].state # "free" => lease'[s].state # "free"
         /\ lease'[s].consumed <=> lease[s].consumed
<1> DEFINE l == Adm!PromotedLeases(lease, queue, Adm!EffectiveLimit)
           q == Adm!RestOfQueue(lease, queue, Adm!EffectiveLimit)
<1>0. Adm!Acquire(s)
  BY SameAcquire
<1>1. Adm!IInv'
  BY <1>0, Adm!AcquireStep, AdmissionAssumptions
<1>2. /\ Adm!Disciplined(l, q) /\ \A t \in Session : Adm!Agrees(l[t])
      /\ Adm!Waiting(q) \subseteq Adm!Waiting(queue)
      /\ \A t \in Session :
           /\ lease[t].state # "free" \/ t \notin Adm!Waiting(queue) => l[t] = lease[t]
           /\ l[t].consumed <=> lease[t].consumed
  BY LeaseFacts, PromotionFacts
<1>3. \/ lease' = l /\ queue' = q
      \/ /\ s \notin Adm!Leased(l)
         /\ lease' = [l EXCEPT ![s] = Adm!Reservation] /\ queue' = q
      \/ /\ lease' = l
         /\ \E p \in Session \cup {NoSession} : Adm!Insert(q, s, Adm!QueueClass(l, q, s, p), p)
  BY <1>0 DEF Adm!Acquire
<1> HIDE DEF l, q
<1>4. CASE lease' = l /\ queue' = q
  BY <1>1, <1>2, <1>4 DEF Steady
<1>5. CASE /\ s \notin Adm!Leased(l)
           /\ lease' = [l EXCEPT ![s] = Adm!Reservation] /\ queue' = q
  <2>1. l[s].state = "free" /\ ~l[s].consumed
    BY <1>2, <1>5 DEF Adm!Leased, Adm!Agrees
  <2>2. l \in [Session -> Adm!Lease]
    BY <1>2 DEF Adm!Disciplined
  <2>3. ~lease'[s].consumed /\ lease'[s].state # "free" /\ \A t \in Session \ {s} : lease'[t] = l[t]
    BY <1>5, <2>2 DEF Adm!Reservation
  <2> QED BY <1>1, <1>2, <1>5, <2>1, <2>3 DEF Steady
<1>6. CASE /\ lease' = l
           /\ \E p \in Session \cup {NoSession} : Adm!Insert(q, s, Adm!QueueClass(l, q, s, p), p)
  <2>1. PICK p \in Session \cup {NoSession} : Adm!Insert(q, s, Adm!QueueClass(l, q, s, p), p)
    BY <1>6
  <2> DEFINE class == Adm!QueueClass(l, q, s, p)
             e == Adm!Request(s, class, p)
  <2>2. PICK at \in 1 .. Len(q) + 1 : queue' = Adm!InsertAt(q, at, e)
    BY <2>1 DEF Adm!Insert
  <2>3. e \in Adm!QueuedRequest /\ e.session = s
    BY DEF Adm!Request, Adm!QueuedRequest, Adm!QueueClass
  <2>4. q \in Seq(Adm!QueuedRequest) /\ Len(q) \in Nat /\ DOMAIN q = 1 .. Len(q)
    BY <1>2, LenProperties DEF Adm!Disciplined
  <2> HIDE DEF e
  <2>5. /\ queue' \in Seq(Adm!QueuedRequest) /\ Len(queue') = Len(q) + 1
        /\ \A i \in 1 .. Len(q) + 1 :
             queue'[i] = IF i < at THEN q[i] ELSE IF i = at THEN e ELSE q[i - 1]
    <3> DEFINE r == Adm!InsertAt(q, at, e)
    <3>1. /\ r \in Seq(Adm!QueuedRequest) /\ Len(r) = Len(q) + 1
          /\ \A i \in 1 .. Len(q) + 1 :
               r[i] = IF i < at THEN q[i] ELSE IF i = at THEN e ELSE q[i - 1]
      BY <2>3, <2>4, Adm!InsertAtFacts, AdmissionAssumptions
    <3> HIDE DEF r
    <3>2. queue' = r
      BY <2>2 DEF r
    <3> QED BY <3>1, <3>2
  <2>6. DOMAIN queue' = 1 .. Len(q) + 1
    BY <2>5, LenProperties
  <2>7. ASSUME NEW i \in DOMAIN queue', queue'[i].session # s
        PROVE  queue'[i].session \in Adm!Waiting(q)
    <3>1. i # at
      BY <2>3, <2>5, <2>6, <2>7
    <3>2. (i \in 1 .. Len(q) /\ queue'[i] = q[i]) \/ (i - 1 \in 1 .. Len(q) /\ queue'[i] = q[i - 1])
      BY <2>4, <2>5, <2>6, <3>1
    <3> QED BY <2>4, <3>2 DEF Adm!Waiting
  <2>8. \A t \in Adm!Waiting(queue') : t = s \/ t \in Adm!Waiting(q)
    BY <2>7 DEF Adm!Waiting
  <2> QED BY <1>1, <1>2, <1>6, <2>8 DEF Steady
<1> QED BY <1>3, <1>4, <1>5, <1>6

\* release of a lease, and the promotion it allows.
LEMMA ReleaseLeaseEffect ==
  ASSUME Adm!IInv, NEW s \in Session, Admission!ReleaseLease(s)
  PROVE  /\ Adm!IInv' /\ \A t \in Session \ {s} : Steady(t)
         /\ lease'[s].state = "free" /\ ~lease'[s].consumed /\ s \notin Adm!Waiting(queue')
<1> DEFINE l == [lease EXCEPT ![s] = Adm!NoLease]
<1>0. Adm!ReleaseLease(s)
  BY SameRelease
<1>1. Adm!IInv'
  BY <1>0, Adm!ReleaseLeaseStep, AdmissionAssumptions
<1>2. /\ lease' = Adm!PromotedLeases(l, queue, Adm!EffectiveLimit)
      /\ queue' = Adm!RestOfQueue(l, queue, Adm!EffectiveLimit)
      /\ lease[s].state # "free"
  BY <1>0 DEF Adm!ReleaseLease, Adm!Promote, Adm!Leased
<1>3. /\ l \in [Session -> Adm!Lease] /\ l[s] = Adm!NoLease /\ \A t \in Session \ {s} : l[t] = lease[t]
      /\ \A t \in Session : Adm!Agrees(l[t])
  BY LeaseFacts, Adm!NoLeaseFacts, AdmissionAssumptions
<1>4. l[s].state = "free" /\ ~l[s].consumed
  BY <1>3 DEF Adm!NoLease
<1> HIDE DEF l
<1>5. \A i \in 1 .. Len(queue) : l[queue[i].session].state = "free"
  <2>1. ASSUME NEW i \in 1 .. Len(queue) PROVE l[queue[i].session].state = "free"
    <3>1. queue[i].session \in Adm!Waiting(queue)
      BY LeaseFacts DEF Adm!Waiting
    <3>2. queue[i].session \in Session /\ lease[queue[i].session].state = "free"
      BY <3>1, LeaseFacts
    <3> QED BY <1>3, <1>4, <3>2
  <2> QED BY <2>1
<1>6. Adm!Disciplined(l, queue)
  BY <1>3, <1>5, LeaseFacts, Adm!LeasesKeepDiscipline, AdmissionAssumptions
<1>7. s \notin Adm!Waiting(queue)
  BY <1>2, LeaseFacts
<1>8. /\ Adm!Waiting(queue') \subseteq Adm!Waiting(queue)
      /\ \A t \in Session :
           /\ l[t].state # "free" \/ t \notin Adm!Waiting(queue) => lease'[t] = l[t]
           /\ lease'[t].consumed <=> l[t].consumed
  BY <1>2, <1>3, <1>6, LeaseFacts, PromotionFacts
<1> QED BY <1>1, <1>3, <1>4, <1>7, <1>8 DEF Steady

LEMMA LeaveQueueEffect ==
  ASSUME Adm!IInv, NEW s \in Session, Admission!LeaveQueue(s)
  PROVE  /\ Adm!IInv' /\ \A t \in Session \ {s} : Steady(t)
         /\ lease' = lease /\ s \notin Adm!Waiting(queue')
<1>0. Adm!LeaveQueue(s)
  BY SameRelease
<1>1. Adm!IInv'
  BY <1>0, Adm!LeaveQueueStep, AdmissionAssumptions
<1>2. PICK at \in DOMAIN queue : queue[at].session = s /\ queue' = Adm!RemoveAt(queue, at)
  BY <1>0 DEF Adm!LeaveQueue
<1>3. /\ queue \in Seq(Adm!QueuedRequest) /\ Len(queue) \in Nat /\ DOMAIN queue = 1 .. Len(queue)
      /\ lease' = lease
  BY <1>0, LeaseFacts, LenProperties DEF Adm!LeaveQueue
<1>4. /\ queue' \in Seq(Adm!QueuedRequest) /\ Len(queue') = Len(queue) - 1
      /\ \A i \in 1 .. Len(queue) - 1 : queue'[i] = IF i < at THEN queue[i] ELSE queue[i + 1]
  BY <1>2, <1>3, Adm!RemoveAtFacts, AdmissionAssumptions
<1>5. DOMAIN queue' = 1 .. Len(queue) - 1
  BY <1>4, LenProperties
<1>6. ASSUME NEW i \in DOMAIN queue'
      PROVE  queue'[i].session \in Adm!Waiting(queue) \ {s}
  <2>1. PICK j \in 1 .. Len(queue) : j # at /\ queue'[i] = queue[j]
    <3>1. CASE i < at
      BY <1>3, <1>4, <1>5, <3>1
    <3>2. CASE ~(i < at)
      <4>1. i + 1 \in 1 .. Len(queue) /\ i + 1 # at /\ queue'[i] = queue[i + 1]
        BY <1>3, <1>4, <1>5, <3>2
      <4> QED BY <4>1
    <3> QED BY <3>1, <3>2
  <2>2. queue[j].session # s
    BY <1>2, <1>3, <2>1, LeaseFacts DEF Adm!Disciplined
  <2> QED BY <1>3, <2>1, <2>2 DEF Adm!Waiting
<1>7. Adm!Waiting(queue') \subseteq Adm!Waiting(queue) \ {s}
  BY <1>6 DEF Adm!Waiting
<1> QED BY <1>1, <1>3, <1>7 DEF Steady

\* releasePlaybackLease leaves the session without a lease and out of the queue.
LEMMA ReleaseEffect ==
  ASSUME Adm!IInv, NEW s \in Session, ReleasePlaybackLease(s)
  PROVE  /\ Adm!IInv' /\ \A t \in Session \ {s} : Steady(t)
         /\ lease'[s].state = "free" /\ ~lease'[s].consumed /\ s \notin Adm!Waiting(queue')
<1>0. Leased = Adm!Leased(lease) /\ Admission!Waiting(queue) = Adm!Waiting(queue)
      /\ Admission!Leased(lease) = Adm!Leased(lease)
  BY SameLeases DEF Leased
<1>1. CASE s \in Leased \cup Admission!Waiting(queue)
  <2>1. Admission!Release(s)
    BY <1>1 DEF ReleasePlaybackLease
  <2>2. CASE Admission!ReleaseLease(s)
    BY <2>2, ReleaseLeaseEffect
  <2>3. CASE s \notin Admission!Leased(lease) /\ Admission!LeaveQueue(s)
    <3>1. lease[s].state = "free" /\ ~lease[s].consumed
      BY <1>0, <2>3, LeaseFacts DEF Adm!Leased, Adm!Agrees
    <3> QED BY <2>3, <3>1, LeaveQueueEffect
  <2> QED BY <2>1, <2>2, <2>3 DEF Admission!Release
<1>2. CASE s \notin Leased \cup Admission!Waiting(queue)
  <2>1. UNCHANGED admissionVars
    BY <1>2 DEF ReleasePlaybackLease
  <2>2. lease[s].state = "free" /\ ~lease[s].consumed
    BY <1>0, <1>2, LeaseFacts DEF Adm!Leased, Adm!Agrees
  <2>3. Adm!IInv'
    BY <2>1 DEF Adm!IInv, admissionVars, Adm!ReductionIsTemporary, Adm!Disciplined, Adm!Agrees
  <2> QED BY <1>0, <1>2, <2>1, <2>2, <2>3 DEF Steady, admissionVars
<1> QED BY <1>1, <1>2

LEMMA UnchangedEffect ==
  ASSUME Adm!IInv, UNCHANGED admissionVars
  PROVE  Adm!IInv' /\ lease' = lease /\ \A t \in Session : Steady(t)
<1>1. Adm!IInv'
  BY DEF Adm!IInv, admissionVars, Adm!ReductionIsTemporary, Adm!Disciplined, Adm!Agrees
<1> QED BY <1>1 DEF Steady, admissionVars

\* The marks: the lease stays, and the first two make it a consumed one.
LEMMA MarkEffect ==
  ASSUME Adm!IInv, NEW s \in Session
  PROVE  /\ Admission!MarkConsumed(s) \/ Admission!MarkFirstByte(s) =>
              /\ Adm!IInv' /\ \A t \in Session \ {s} : Steady(t)
              /\ lease[s].state # "free" /\ lease'[s].state # "free" /\ lease'[s].consumed
              /\ s \notin Adm!Waiting(queue')
         /\ \A b \in BOOLEAN : MarkTerminating(s, b) => Adm!IInv' /\ \A t \in Session : Steady(t)
<1>0. /\ lease \in [Session -> Adm!Lease]
      /\ s \in Adm!Waiting(queue) => lease[s].state = "free"
  BY LeaseFacts
<1>1. ASSUME Admission!MarkConsumed(s) \/ Admission!MarkFirstByte(s)
      PROVE  /\ Adm!IInv' /\ \A t \in Session \ {s} : Steady(t)
             /\ lease[s].state # "free" /\ lease'[s].state # "free" /\ lease'[s].consumed
             /\ s \notin Adm!Waiting(queue')
  <2>1. Adm!MarkConsumed(s) \/ Adm!MarkFirstByte(s)
    BY <1>1, SameMarks
  <2>2. Adm!IInv'
    BY <2>1, Adm!MarkStep, AdmissionAssumptions
  <2>3. /\ queue' = queue /\ lease[s].state # "free"
        /\ \E r : /\ lease' = [lease EXCEPT ![s] = r] /\ r.consumed /\ r.state # "free"
    <3>1. lease[s] \in Adm!Lease
      BY LeaseFacts
    <3>2. CASE Adm!MarkConsumed(s)
      <4> DEFINE r == [lease[s] EXCEPT !.consumed = TRUE,
                                      !.state = IF @ = "reserved" THEN "attached" ELSE @]
      <4>1. Adm!UpdateLease(s, r) /\ lease[s].state # "free"
        BY <3>2 DEF Adm!MarkConsumed, Adm!UpdateLease, Adm!Leased
      <4>2. r.consumed /\ r.state # "free"
        BY <3>1, <4>1 DEF Adm!Lease
      <4> QED BY <4>1, <4>2 DEF Adm!UpdateLease
    <3>3. CASE Adm!MarkFirstByte(s)
      <4> DEFINE r == [lease[s] EXCEPT !.consumed = TRUE, !.firstByte = TRUE,
                            !.state = IF @ \in {"reserved", "attached"} THEN "active" ELSE @]
      <4>1. Adm!UpdateLease(s, r) /\ lease[s].state # "free"
        BY <3>3 DEF Adm!MarkFirstByte, Adm!UpdateLease, Adm!Leased
      <4>2. r.consumed /\ r.state # "free"
        BY <3>1, <4>1 DEF Adm!Lease
      <4> QED BY <4>1, <4>2 DEF Adm!UpdateLease
    <3> QED BY <2>1, <3>2, <3>3
  <2>4. lease'[s].state # "free" /\ lease'[s].consumed /\ \A t \in Session \ {s} : lease'[t] = lease[t]
    BY <1>0, <2>3
  <2> QED BY <1>0, <2>2, <2>3, <2>4 DEF Steady
<1>2. ASSUME NEW b \in BOOLEAN, MarkTerminating(s, b)
      PROVE  Adm!IInv' /\ \A t \in Session : Steady(t)
  <2>1. CASE s \in Leased
    <3>1. Adm!MarkTerminating(s, b)
      BY <1>2, <2>1, SameMarks DEF MarkTerminating
    <3>2. Adm!IInv'
      BY <3>1, Adm!MarkStep, AdmissionAssumptions
    <3> DEFINE r == [lease[s] EXCEPT !.state = IF b THEN "stuck" ELSE "terminating"]
    <3>3. lease' = [lease EXCEPT ![s] = r] /\ queue' = queue
      BY <3>1 DEF Adm!MarkTerminating, Adm!UpdateLease
    <3>4. lease[s] \in Adm!Lease
      BY LeaseFacts
    <3>5. lease[s].state # "free" /\ r.state # "free" /\ r.consumed = lease[s].consumed
      BY <3>1, <3>4 DEF Adm!Lease, Adm!MarkTerminating, Adm!UpdateLease, Adm!Leased
    <3> HIDE DEF r
    <3>6. lease'[s] = r /\ \A t \in Session \ {s} : lease'[t] = lease[t]
      BY <1>0, <3>3
    <3> QED BY <1>0, <3>2, <3>3, <3>5, <3>6 DEF Steady
  <2>2. CASE s \notin Leased
    BY <1>2, <2>2, UnchangedEffect DEF MarkTerminating
  <2> QED BY <2>1, <2>2
<1> QED BY <1>1, <1>2

\* releasePlaybackLeaseAfterExit either gives the lease back or waits.
LEMMA ReleaseAfterExitEffect ==
  ASSUME Adm!IInv, Typed, NEW s \in Session, NEW alive \in SUBSET Get, ReleaseAfterExit(s, alive)
  PROVE  /\ Adm!IInv' /\ \A t \in Session \ {s} : Steady(t) /\ awaited'[t] = awaited[t]
         /\ awaited' \in [Session -> SUBSET ((SUBSET Get) \ {{}})]
         /\ \/ /\ alive = {} /\ awaited'[s] = awaited[s]
               /\ lease'[s].state = "free" /\ ~lease'[s].consumed /\ s \notin Adm!Waiting(queue')
            \/ alive # {} /\ Steady(s) /\ awaited'[s] = awaited[s] \cup {alive}
<1>0. awaited \in [Session -> SUBSET ((SUBSET Get) \ {{}})]
  BY DEF Typed
<1>1. CASE alive = {}
  <2>1. ReleasePlaybackLease(s) /\ awaited' = awaited
    BY <1>1 DEF ReleaseAfterExit
  <2> QED BY <1>0, <1>1, <2>1, ReleaseEffect
<1>2. CASE alive # {}
  <2>1. MarkTerminating(s, FALSE) /\ awaited' = [awaited EXCEPT ![s] = @ \cup {alive}]
    BY <1>2 DEF ReleaseAfterExit
  <2>2. /\ awaited'[s] = awaited[s] \cup {alive} /\ \A t \in Session \ {s} : awaited'[t] = awaited[t]
        /\ awaited' \in [Session -> SUBSET ((SUBSET Get) \ {{}})]
    BY <1>0, <1>2, <2>1
  <2> QED BY <1>2, <2>1, <2>2, MarkEffect
<1> QED BY <1>1, <1>2

(***************************************************************************)
(* The steps of one session.                                               *)
(***************************************************************************)

AwaitedType == [Session -> SUBSET ((SUBSET Get) \ {{}})]

\* Nothing but vod changes in the sessions other than s.
OthersKept(s) ==
  \A t \in Session \ {s} :
    /\ session'[t] = session[t] /\ generation'[t] = generation[t] /\ handler'[t] = handler[t]
    /\ proc'[t] = proc[t] /\ awaited'[t] = awaited[t] /\ stuck'[t] = stuck[t]
    /\ overdue'[t] = overdue[t]

\* What LeaseOutlivesProcess and OnlyTheOwnerSpawns say of one step and session.
ReleasedAfterExit(s) ==
  (lease[s].state # "free" /\ lease'[s].state = "free") => Running(proc'[s]) = {}

SpawnedByOwner(s) ==
  \A g \in Get :
    (proc[s][g].state \in {"none", "exited"} /\ proc'[s][g].state \in {"waiting", "unspawned"})
      => generation'[s] = g /\ session'[s] = "open"

\* What is to be shown of a step of session s.
StepOf(s) ==
  /\ Adm!IInv' /\ Typed' /\ OthersKept(s) /\ \A t \in Session \ {s} : Steady(t)
  /\ SessionOK(s)' /\ ReleasedAfterExit(s) /\ SpawnedByOwner(s)

GoodStep == IInv' /\ \A s \in Session : ReleasedAfterExit(s) /\ SpawnedByOwner(s)

LEMMA StepOfOneSession ==
  ASSUME IInv, NEW s \in Session, StepOf(s)
  PROVE  GoodStep
<1>1. ASSUME NEW t \in Session \ {s}
      PROVE  SessionOK(t)' /\ ReleasedAfterExit(t) /\ SpawnedByOwner(t)
  <2>1. /\ session'[t] = session[t] /\ generation'[t] = generation[t] /\ handler'[t] = handler[t]
        /\ proc'[t] = proc[t] /\ awaited'[t] = awaited[t] /\ stuck'[t] = stuck[t]
        /\ overdue'[t] = overdue[t] /\ Steady(t) /\ SessionOK(t)
    BY DEF StepOf, OthersKept, IInv
  <2>2. /\ Shape(session'[t], generation'[t], handler'[t], proc'[t])
        /\ Awaits(session'[t], generation'[t], handler'[t], proc'[t], awaited'[t])
    BY <2>1 DEF SessionOK
  <2>3. Covered(session[t], generation[t], handler[t], proc[t], awaited[t], stuck[t], overdue[t],
                lease'[t], t \in Adm!Waiting(queue'))
    <3>1. Covered(session[t], generation[t], handler[t], proc[t], awaited[t], stuck[t], overdue[t],
                  lease[t], t \in Adm!Waiting(queue))
      BY <2>1 DEF SessionOK
    <3> QED BY <2>1, <3>1, Zenon DEF Covered, Steady
  <2>4. Covered(session'[t], generation'[t], handler'[t], proc'[t], awaited'[t], stuck'[t],
                overdue'[t], lease'[t], t \in Adm!Waiting(queue'))
    BY <2>1, <2>3
  <2>5. SessionOK(t)'
    BY <2>2, <2>4 DEF SessionOK
  <2>6. ReleasedAfterExit(t)
    BY <2>1 DEF ReleasedAfterExit, Steady
  <2>7. SpawnedByOwner(t)
    BY <2>1 DEF SpawnedByOwner
  <2> QED BY <2>5, <2>6, <2>7
<1>2. SessionOK(s)' /\ ReleasedAfterExit(s) /\ SpawnedByOwner(s) /\ Adm!IInv' /\ Typed'
  BY DEF StepOf
<1>3. \A t \in Session : SessionOK(t)'
  BY <1>1, <1>2
<1> QED BY <1>1, <1>2, <1>3 DEF GoodStep, IInv

\* Most steps of a session spawn nothing: they give the lease back when nothing
\* is alive, wait for what is alive, or leave it to whoever held it before.
LEMMA QuietStep ==
  ASSUME IInv, NEW s \in Session, NEW hs2 \in [Get -> Handler], NEW ps2 \in [Get -> Process],
         handler' = [handler EXCEPT ![s] = hs2], proc' = [proc EXCEPT ![s] = ps2],
         UNCHANGED <<session, generation, stuck, overdue>>, vod' \in [Session -> 0 .. MaxGets],
         \A g \in Get : Quiet(handler[s][g], proc[s][g], hs2[g], ps2[g]),
         Adm!IInv', \A t \in Session \ {s} : Steady(t) /\ awaited'[t] = awaited[t],
         awaited' \in AwaitedType, \A a \in awaited'[s] : a \cap Alive(ps2) # {},
         \/ /\ Steady(s) /\ awaited'[s] = awaited[s]
            /\ Held(session[s], generation[s], handler[s], proc[s]) =>
                 Held(session[s], generation[s], hs2, ps2)
         \/ /\ \/ /\ lease'[s].state = "free" /\ ~lease'[s].consumed
                  /\ s \notin Adm!Waiting(queue') /\ Alive(ps2) = {}
               \/ Steady(s) /\ (awaited'[s] # {} \/ ~lease'[s].consumed)
            /\ session[s] = "open" => \A g \in Get : g = generation[s] => hs2[g].phase # "hijacked"
  PROVE  StepOf(s)
<1>0. Typed /\ SessionOK(s)
  BY DEF IInv
<1>1. handler'[s] = hs2 /\ proc'[s] = ps2 /\ session' = session /\ generation' = generation
      /\ stuck' = stuck /\ overdue' = overdue
  BY <1>0 DEF Typed
<1>2. Typed'
  BY <1>0 DEF Typed, AwaitedType
<1>3. OthersKept(s)
  BY <1>0 DEF OthersKept, Typed
<1>4. /\ Shape(session[s], generation[s], hs2, ps2)
      /\ Alive(ps2) \subseteq Alive(proc[s]) /\ Running(ps2) \subseteq Running(proc[s])
  <2>1. Shape(session[s], generation[s], handler[s], proc[s])
    BY <1>0 DEF SessionOK
  <2>2. QuietSlots(handler[s], proc[s], hs2, ps2)
    BY DEF QuietSlots
  <2> QED BY <2>1, <2>2, QuietShape
<1>5. Running(ps2) \subseteq Alive(ps2)
  BY DEF Running, Alive
<1>6. \A g \in Get : /\ hs2[g].phase = "hijacked" => handler[s][g].phase = "hijacked"
                     /\ ps2[g].state # "none" => proc[s][g].state # "none"
  BY DEF Quiet
<1>7. Awaits(session[s], generation[s], hs2, ps2, awaited'[s])
  BY <1>0, <1>6 DEF SessionOK, Awaits
<1>8. Covered(session[s], generation[s], handler[s], proc[s], awaited[s], stuck[s], overdue[s],
              lease[s], s \in Adm!Waiting(queue))
  BY <1>0 DEF SessionOK
<1>9. Covered(session[s], generation[s], hs2, ps2, awaited'[s], stuck[s], overdue[s],
              lease'[s], s \in Adm!Waiting(queue'))
  <2>1. CASE /\ Steady(s) /\ awaited'[s] = awaited[s]
             /\ Held(session[s], generation[s], handler[s], proc[s]) =>
                  Held(session[s], generation[s], hs2, ps2)
    BY <1>4, <1>6, <1>8, <2>1 DEF Covered, Steady
  <2>2. CASE /\ lease'[s].state = "free" /\ ~lease'[s].consumed
             /\ s \notin Adm!Waiting(queue') /\ Alive(ps2) = {}
             /\ session[s] = "open" => \A g \in Get : g = generation[s] => hs2[g].phase # "hijacked"
    BY <1>5, <1>8, <2>2 DEF Covered
  <2>3. CASE /\ Steady(s) /\ (awaited'[s] # {} \/ ~lease'[s].consumed)
             /\ session[s] = "open" => \A g \in Get : g = generation[s] => hs2[g].phase # "hijacked"
    BY <1>4, <1>6, <1>8, <2>3 DEF Covered, Steady
  <2> QED BY <2>1, <2>2, <2>3
<1>10. SessionOK(s)'
  BY <1>1, <1>4, <1>7, <1>9 DEF SessionOK
<1>11. ReleasedAfterExit(s)
  <2>1. lease'[s].state = "free" /\ lease[s].state # "free" => Alive(ps2) = {}
    BY DEF Steady
  <2> QED BY <1>1, <1>5, <2>1 DEF ReleasedAfterExit
<1>12. SpawnedByOwner(s)
  BY <1>1 DEF SpawnedByOwner, Quiet
<1> QED BY <1>2, <1>3, <1>10, <1>11, <1>12 DEF StepOf

\* A process that is not spawned anew, and stays registered.
Calm(p, p2) ==
  /\ p2.state \notin {"none", "exited"} => p.state \notin {"none", "exited"}
  /\ p2.state \in {"waiting", "settled"} => p.state \in {"waiting", "settled"} /\ (p.killed => p2.killed)
  /\ p2.state # "none" <=> p.state # "none"
  /\ p = NoProcess => p2 = NoProcess
  /\ p2.state = "erred" => p.state = "erred"

\* A handler ends: finish, whatever the handler was.
LEMMA FinishStep ==
  ASSUME IInv, NEW s \in Session, NEW g \in Get, NEW ps2 \in [Get -> Process],
         Finish(s, g, Alive(proc[s])), proc' = [proc EXCEPT ![s] = ps2],
         UNCHANGED <<session, generation, stuck, overdue>>, vod' \in [Session -> 0 .. MaxGets],
         Alive(ps2) = Alive(proc[s]),
         handler[s][g].phase # "none" \/ proc[s][g] # NoProcess,
         \A h \in Get \ {g} : Calm(proc[s][h], ps2[h]),
         Quiet(NewHandler("over"), proc[s][g], NewHandler("over"), ps2[g])
  PROVE  StepOf(s)
<1> DEFINE hs2 == [handler[s] EXCEPT ![g] = NewHandler("over")]
<1>0. Typed /\ Adm!IInv /\ handler[s] \in [Get -> Handler] /\ awaited \in AwaitedType
      /\ Shape(session[s], generation[s], handler[s], proc[s])
      /\ Awaits(session[s], generation[s], handler[s], proc[s], awaited[s])
  BY DEF IInv, SessionOK, Typed, AwaitedType
<1>1. hs2 \in [Get -> Handler] /\ handler' = [handler EXCEPT ![s] = hs2]
  BY <1>0, ProcessFacts DEF Finish
<1>2. hs2[g] = NewHandler("over") /\ \A h \in Get \ {g} : hs2[h] = handler[s][h]
  BY <1>0
<1> HIDE DEF hs2
<1>3. ASSUME NEW h \in Get PROVE Quiet(handler[s][h], proc[s][h], hs2[h], ps2[h])
  <2>1. CASE h = g
    <3>1. ~(handler[s][g] = NewHandler("none") /\ proc[s][g] = NoProcess)
      BY ProcessFacts
    <3>2. NewHandler("over").phase = "over" /\ ~NewHandler("over").retry
      BY ProcessFacts
    <3> QED BY <1>2, <2>1, <3>1, <3>2 DEF Quiet
  <2>2. CASE h # g
    BY <1>0, <1>2, <2>2 DEF Quiet, Calm, Shape
  <2> QED BY <2>1, <2>2
<1>4. CASE handler[s][g].phase = "over" \/ generation[s] # g
  <2>1. UNCHANGED <<admissionVars, awaited>>
    BY <1>4 DEF Finish
  <2>2. Adm!IInv' /\ \A t \in Session : Steady(t)
    BY <1>0, <2>1, UnchangedEffect
  <2>3. Held(session[s], generation[s], handler[s], proc[s]) =>
                 Held(session[s], generation[s], hs2, ps2)
    BY <1>2, <1>4 DEF Held, Calm
  <2>4. \A a \in awaited'[s] : a \cap Alive(ps2) # {}
    BY <1>0, <2>1 DEF Awaits
  <2> QED BY <1>0, <1>1, <1>3, <2>1, <2>2, <2>3, <2>4, QuietStep
<1>5. CASE ~(handler[s][g].phase = "over" \/ generation[s] # g)
  <2>1. ReleaseAfterExit(s, Alive(proc[s])) /\ Alive(proc[s]) \in SUBSET Get
    BY <1>5 DEF Finish, Alive
  <2>2. /\ Adm!IInv' /\ \A t \in Session \ {s} : Steady(t) /\ awaited'[t] = awaited[t]
        /\ awaited' \in AwaitedType
        /\ \/ /\ Alive(proc[s]) = {} /\ awaited'[s] = awaited[s]
              /\ lease'[s].state = "free" /\ ~lease'[s].consumed /\ s \notin Adm!Waiting(queue')
           \/ Alive(proc[s]) # {} /\ Steady(s) /\ awaited'[s] = awaited[s] \cup {Alive(proc[s])}
    BY <1>0, <2>1, ReleaseAfterExitEffect DEF AwaitedType
  <2>3. \A a \in awaited'[s] : a \cap Alive(ps2) # {}
    BY <1>0, <2>2 DEF Awaits
  <2>4. \A h \in Get : h = generation[s] => hs2[h].phase # "hijacked"
    BY <1>2, <1>5, ProcessFacts
  <2> QED BY <1>1, <1>3, <2>2, <2>3, <2>4, QuietStep
<1> QED BY <1>4, <1>5

LEMMA CalmIsQuiet ==
  ASSUME NEW p, NEW p2, Calm(p, p2)
  PROVE  Quiet(NewHandler("over"), p, NewHandler("over"), p2)
BY ProcessFacts DEF Calm, Quiet

\* What a handler that ends does to its process and, as the owner, to the others.
LEMMA FinalizedAndKilled ==
  ASSUME NEW ps \in [Get -> Process], NEW g \in Get, NEW T
  PROVE  LET ps2 == KillThose([ps EXCEPT ![g] = Finalized(@)], T)
         IN /\ ps2 \in [Get -> Process] /\ Alive(ps2) = Alive(ps)
            /\ \A h \in Get : Calm(ps[h], ps2[h])
<1> DEFINE f == [ps EXCEPT ![g] = Finalized(@)]
           k == KillThose(f, T)
<1>1. f \in [Get -> Process] /\ \A h \in Get : f[h] = IF h = g THEN Finalized(ps[g]) ELSE ps[h]
  BY KillFacts DEF Finalized, Process
<1>2. ASSUME NEW h \in Get
      PROVE  /\ f[h].state = ps[h].state \/ (ps[h].state = "waiting" /\ f[h].state = "settled")
             /\ f[h].killed = ps[h].killed
             /\ ps[h] = NoProcess => f[h] = NoProcess
  BY <1>1, ProcessFacts DEF Finalized, Process
<1> HIDE DEF f
<1>3. /\ k \in [Get -> Process]
      /\ \A h \in Get : /\ k[h].state = f[h].state
                        /\ f[h].killed => k[h].killed
                        /\ f[h] = NoProcess => k[h] = NoProcess
  BY <1>1, KillFacts
<1> HIDE DEF k
<1>4. Alive(k) = Alive(ps)
  BY <1>2, <1>3 DEF Alive
<1>5. \A h \in Get : Calm(ps[h], k[h])
  BY <1>2, <1>3 DEF Calm
<1> QED BY <1>3, <1>4, <1>5 DEF f, k

LEMMA SlotFacts ==
  ASSUME Typed, NEW s \in Session
  PROVE  /\ handler[s] \in [Get -> Handler] /\ proc[s] \in [Get -> Process]
         /\ \A g \in Get : handler[s][g] \in Handler /\ proc[s][g] \in Process
         /\ generation[s] \in 0 .. MaxGets
         /\ handler = [handler EXCEPT ![s] = handler[s]] /\ proc = [proc EXCEPT ![s] = proc[s]]
         /\ \A g \in Get : [vod EXCEPT ![s] = g] \in [Session -> 0 .. MaxGets]
         /\ [vod EXCEPT ![s] = 0] \in [Session -> 0 .. MaxGets]
BY BoundsAssumption DEF Typed, Get

LEMMA ClientGoneStep ==
  ASSUME IInv, NEW s \in Session, NEW g \in Get, ClientGone(s, g)
  PROVE  StepOf(s)
<1> DEFINE T == IF Owner(s, g) THEN Get ELSE {g}
           ps2 == KillThose([proc[s] EXCEPT ![g] = Finalized(@)], T)
<1>0. Typed
  BY DEF IInv
<1>1. /\ handler[s][g].phase = "hijacked" /\ Finish(s, g, Alive(proc[s]))
      /\ proc' = [proc EXCEPT ![s] = ps2]
      /\ UNCHANGED <<session, generation, stuck, overdue>>
      /\ vod' = [vod EXCEPT ![s] = 0] \/ vod' = vod
  BY DEF ClientGone
<1>2. vod' \in [Session -> 0 .. MaxGets]
  BY <1>0, <1>1, SlotFacts DEF Typed
<1> HIDE DEF T
<1>3. /\ ps2 \in [Get -> Process] /\ Alive(ps2) = Alive(proc[s])
      /\ \A h \in Get : Calm(proc[s][h], ps2[h])
  BY <1>0, SlotFacts, FinalizedAndKilled
<1> HIDE DEF ps2
<1>4. Quiet(NewHandler("over"), proc[s][g], NewHandler("over"), ps2[g])
  BY <1>3, CalmIsQuiet
<1> QED BY <1>1, <1>2, <1>3, <1>4, FinishStep

LEMMA StartupTimeoutStep ==
  ASSUME IInv, NEW s \in Session, NEW g \in Get, StartupTimeout(s, g)
  PROVE  StepOf(s)
<1> DEFINE ps2 == KillThose([proc[s] EXCEPT ![g] = Finalized(@)], {g})
<1>0. Typed
  BY DEF IInv
<1>1. /\ handler[s][g].phase = "hijacked" /\ Finish(s, g, Alive(proc[s]))
      /\ proc' = [proc EXCEPT ![s] = ps2]
      /\ UNCHANGED <<session, generation, stuck, overdue>> /\ vod' = vod
  BY DEF StartupTimeout
<1>2. vod' \in [Session -> 0 .. MaxGets]
  BY <1>0, <1>1 DEF Typed
<1>3. /\ ps2 \in [Get -> Process] /\ Alive(ps2) = Alive(proc[s])
      /\ \A h \in Get : Calm(proc[s][h], ps2[h])
  BY <1>0, SlotFacts, FinalizedAndKilled
<1> HIDE DEF ps2
<1>4. Quiet(NewHandler("over"), proc[s][g], NewHandler("over"), ps2[g])
  BY <1>3, CalmIsQuiet
<1> QED BY <1>1, <1>2, <1>3, <1>4, FinishStep

LEMMA SpawnErrorStep ==
  ASSUME IInv, NEW s \in Session, NEW g \in Get, SpawnError(s, g)
  PROVE  StepOf(s)
<1> DEFINE p2 == [state |-> "erred", killed |-> TRUE]
           ps2 == [proc[s] EXCEPT ![g] = p2]
<1>0. Typed
  BY DEF IInv
<1>1. /\ proc[s][g].state = "unspawned" /\ Finish(s, g, Alive(proc[s]))
      /\ proc' = [proc EXCEPT ![s] = ps2]
      /\ UNCHANGED <<session, generation, stuck, overdue>> /\ vod' = vod
  BY DEF SpawnError
<1>2. vod' \in [Session -> 0 .. MaxGets]
  BY <1>0, <1>1 DEF Typed
<1>3. p2 \in Process /\ p2.state = "erred"
  BY DEF Process
<1> HIDE DEF p2
<1>4. /\ ps2 \in [Get -> Process] /\ ps2[g] = p2 /\ \A h \in Get \ {g} : ps2[h] = proc[s][h]
  BY <1>0, <1>3, SlotFacts
<1> HIDE DEF ps2
<1>5. Alive(ps2) = Alive(proc[s]) /\ \A h \in Get \ {g} : Calm(proc[s][h], ps2[h])
  BY <1>1, <1>3, <1>4 DEF Alive, Calm
<1>6. Quiet(NewHandler("over"), proc[s][g], NewHandler("over"), ps2[g])
  BY <1>1, <1>3, <1>4, ProcessFacts DEF Quiet
<1>7. proc[s][g] # NoProcess
  BY <1>1, ProcessFacts
<1> QED BY <1>1, <1>2, <1>4, <1>5, <1>6, <1>7, FinishStep

\* A process that exited is unregistered when its output is drained.
LEMMA ClosedProcess ==
  ASSUME Typed, NEW s \in Session, NEW g \in Get, proc[s][g].state = "exited"
  PROVE  LET ps2 == [proc[s] EXCEPT ![g] = NoProcess]
         IN /\ ps2 \in [Get -> Process] /\ Alive(ps2) = Alive(proc[s])
            /\ ps2[g] = NoProcess /\ \A h \in Get \ {g} : ps2[h] = proc[s][h]
            /\ \A h \in Get \ {g} : Calm(proc[s][h], ps2[h])
<1> DEFINE ps2 == [proc[s] EXCEPT ![g] = NoProcess]
<1>1. ps2 \in [Get -> Process] /\ ps2[g] = NoProcess /\ \A h \in Get \ {g} : ps2[h] = proc[s][h]
  BY SlotFacts, ProcessFacts
<1> HIDE DEF ps2
<1>2. Alive(ps2) = Alive(proc[s]) /\ \A h \in Get \ {g} : Calm(proc[s][h], ps2[h])
  BY <1>1, ProcessFacts DEF Alive, Calm
<1> QED BY <1>1, <1>2 DEF ps2

LEMMA CloseEndsStep ==
  ASSUME IInv, NEW s \in Session, NEW g \in Get, proc[s][g].state = "exited",
         Finish(s, g, Alive([proc[s] EXCEPT ![g] = NoProcess])),
         proc' = [proc EXCEPT ![s] = [proc[s] EXCEPT ![g] = NoProcess]],
         vod' = IF vod[s] = g THEN [vod EXCEPT ![s] = 0] ELSE vod,
         UNCHANGED <<session, generation, stuck, overdue>>
  PROVE  StepOf(s)
<1> DEFINE ps2 == [proc[s] EXCEPT ![g] = NoProcess]
<1>0. Typed
  BY DEF IInv
<1>1. /\ Finish(s, g, Alive(ps2)) /\ proc' = [proc EXCEPT ![s] = ps2]
  OBVIOUS
<1>2. vod' \in [Session -> 0 .. MaxGets]
  BY <1>0, SlotFacts DEF Typed
<1>3. /\ ps2 \in [Get -> Process] /\ Alive(ps2) = Alive(proc[s]) /\ ps2[g] = NoProcess
      /\ \A h \in Get \ {g} : Calm(proc[s][h], ps2[h])
  BY <1>0, ClosedProcess
<1> HIDE DEF ps2
<1>4. Quiet(NewHandler("over"), proc[s][g], NewHandler("over"), ps2[g]) /\ proc[s][g] # NoProcess
  BY <1>3, ProcessFacts DEF Quiet
<1> QED BY <1>1, <1>2, <1>3, <1>4, FinishStep

LEMMA RetryEndsStep ==
  ASSUME IInv, NEW s \in Session, NEW g \in Get, handler[s][g].retry,
         Finish(s, g, Alive(proc[s])),
         UNCHANGED <<proc, vod, session, generation, stuck, overdue>>
  PROVE  StepOf(s)
<1>0. Typed /\ Shape(session[s], generation[s], handler[s], proc[s])
  BY DEF IInv, SessionOK
<1>1. proc[s] \in [Get -> Process] /\ proc' = [proc EXCEPT ![s] = proc[s]]
  BY <1>0, SlotFacts
<1>2. vod' \in [Session -> 0 .. MaxGets]
  BY <1>0 DEF Typed
<1>3. handler[s][g].phase = "hijacked"
  BY <1>0 DEF Shape
<1>4. \A h \in Get : Calm(proc[s][h], proc[s][h])
  BY DEF Calm
<1>5. Quiet(NewHandler("over"), proc[s][g], NewHandler("over"), proc[s][g])
  BY <1>4, CalmIsQuiet
<1> QED BY <1>1, <1>2, <1>3, <1>4, <1>5, FinishStep

\* A step of one request and its process that nobody else notices: the owner, if
\* it is this one, still holds the lease.
LEMMA SlotStep ==
  ASSUME IInv, NEW s \in Session, NEW g \in Get, NEW r2 \in Handler, NEW p2 \in Process,
         handler' = [handler EXCEPT ![s] = [handler[s] EXCEPT ![g] = r2]],
         proc' = [proc EXCEPT ![s] = [proc[s] EXCEPT ![g] = p2]],
         UNCHANGED <<session, generation, awaited, stuck, overdue>>,
         vod' \in [Session -> 0 .. MaxGets], Adm!IInv', \A t \in Session : Steady(t),
         Quiet(handler[s][g], proc[s][g], r2, p2),
         p2.state \notin {"none", "exited"} <=> proc[s][g].state \notin {"none", "exited"},
         handler[s][g].phase = "takeover" => r2.phase = "takeover",
         handler[s][g].phase = "hijacked" =>
           r2.phase = "hijacked" /\ (p2.state # "none" \/ r2.retry)
  PROVE  StepOf(s)
<1> DEFINE hs2 == [handler[s] EXCEPT ![g] = r2]
           ps2 == [proc[s] EXCEPT ![g] = p2]
<1>0. Typed /\ Shape(session[s], generation[s], handler[s], proc[s])
      /\ Awaits(session[s], generation[s], handler[s], proc[s], awaited[s])
  BY DEF IInv, SessionOK
<1>1. /\ hs2 \in [Get -> Handler] /\ hs2[g] = r2 /\ \A h \in Get \ {g} : hs2[h] = handler[s][h]
      /\ ps2 \in [Get -> Process] /\ ps2[g] = p2 /\ \A h \in Get \ {g} : ps2[h] = proc[s][h]
      /\ handler' = [handler EXCEPT ![s] = hs2] /\ proc' = [proc EXCEPT ![s] = ps2]
  BY <1>0, SlotFacts
<1> HIDE DEF hs2, ps2
<1>2. \A h \in Get : Quiet(handler[s][h], proc[s][h], hs2[h], ps2[h])
  BY <1>0, <1>1 DEF Quiet, Shape
<1>3. Alive(ps2) = Alive(proc[s])
  BY <1>1 DEF Alive
<1>4. awaited' \in AwaitedType /\ \A a \in awaited'[s] : a \cap Alive(ps2) # {}
  BY <1>0, <1>3 DEF Typed, AwaitedType, Awaits
<1>5. Held(session[s], generation[s], handler[s], proc[s]) => Held(session[s], generation[s], hs2, ps2)
  BY <1>1 DEF Held
<1> QED BY <1>1, <1>2, <1>4, <1>5, QuietStep

LEMMA FirstByteStep ==
  ASSUME IInv, NEW s \in Session, NEW g \in Get, FirstByte(s, g)
  PROVE  StepOf(s)
<1> DEFINE r2 == [handler[s][g] EXCEPT !.firstByte = TRUE]
           p2 == [proc[s][g] EXCEPT !.state = "settled"]
<1>0. /\ Typed /\ Adm!IInv /\ Shape(session[s], generation[s], handler[s], proc[s])
      /\ handler[s][g] \in Handler /\ proc[s][g] \in Process
  BY SlotFacts DEF IInv, SessionOK
<1>1. /\ proc[s][g].state = "waiting" /\ handler[s][g].phase = "hijacked"
      /\ handler' = [handler EXCEPT ![s] = [handler[s] EXCEPT ![g] = r2]]
      /\ proc' = [proc EXCEPT ![s] = [proc[s] EXCEPT ![g] = p2]]
      /\ UNCHANGED <<session, generation, vod, awaited, stuck, overdue>>
      /\ IF s \in Leased THEN Admission!MarkFirstByte(s) ELSE UNCHANGED admissionVars
  BY DEF FirstByte
<1>2. ~handler[s][g].retry
  BY <1>0, <1>1 DEF Shape
<1>3. /\ r2 \in Handler /\ r2.phase = "hijacked" /\ r2.retry = handler[s][g].retry
      /\ p2 \in Process /\ p2.state = "settled" /\ p2.killed = proc[s][g].killed
  BY <1>0, <1>1 DEF Handler, Process
<1> HIDE DEF r2, p2
<1>4. Quiet(handler[s][g], proc[s][g], r2, p2)
  BY <1>1, <1>2, <1>3, ProcessFacts DEF Quiet
<1>5. Adm!IInv' /\ \A t \in Session : Steady(t)
  <2>1. CASE s \in Leased
    <3>1. /\ Adm!IInv' /\ \A t \in Session \ {s} : Steady(t)
          /\ lease[s].state # "free" /\ lease'[s].state # "free" /\ lease'[s].consumed
          /\ s \notin Adm!Waiting(queue')
      BY <1>0, <1>1, <2>1, MarkEffect
    <3>2. lease[s].state # "free" => lease[s].consumed
      BY <1>1 DEF IInv, SessionOK, Covered
    <3>3. Steady(s)
      BY <3>1, <3>2 DEF Steady
    <3> QED BY <3>1, <3>3
  <2>2. CASE s \notin Leased
    BY <1>0, <1>1, <2>2, UnchangedEffect
  <2> QED BY <2>1, <2>2
<1>6. vod' \in [Session -> 0 .. MaxGets]
  BY <1>0, <1>1 DEF Typed
<1> QED BY <1>1, <1>3, <1>4, <1>5, <1>6, SlotStep

LEMMA AbandonAttemptStep ==
  ASSUME IInv, NEW s \in Session, NEW g \in Get, AbandonAttempt(s, g)
  PROVE  StepOf(s)
<1> DEFINE r2 == handler[s][g]
           p2 == [state |-> "settled", killed |-> TRUE]
<1>0. /\ Typed /\ Adm!IInv /\ Shape(session[s], generation[s], handler[s], proc[s])
      /\ handler[s][g] \in Handler /\ proc[s][g] \in Process
  BY SlotFacts DEF IInv, SessionOK
<1>1. /\ proc[s][g].state = "waiting"
      /\ proc' = [proc EXCEPT ![s] = [proc[s] EXCEPT ![g] = p2]]
      /\ UNCHANGED <<admissionVars, session, generation, vod, handler, awaited, stuck, overdue>>
  BY DEF AbandonAttempt
<1>2. handler' = [handler EXCEPT ![s] = [handler[s] EXCEPT ![g] = r2]]
  BY <1>0, <1>1, SlotFacts
<1>3. p2 \in Process /\ p2.state = "settled" /\ p2.killed
  BY DEF Process
<1> HIDE DEF p2
<1>4. Quiet(handler[s][g], proc[s][g], r2, p2)
  BY <1>0, <1>1, <1>3, ProcessFacts DEF Quiet, Shape
<1>5. Adm!IInv' /\ \A t \in Session : Steady(t)
  BY <1>0, <1>1, UnchangedEffect
<1>6. vod' \in [Session -> 0 .. MaxGets]
  BY <1>0, <1>1 DEF Typed
<1> HIDE DEF r2
<1>7. r2 = handler[s][g]
  BY DEF r2
<1> QED BY <1>0, <1>1, <1>2, <1>3, <1>4, <1>5, <1>6, <1>7, SlotStep

LEMMA ClientLeavesUnheardStep ==
  ASSUME IInv, NEW s \in Session, NEW g \in Get, ClientLeavesUnheard(s, g)
  PROVE  StepOf(s)
<1> DEFINE r2 == [handler[s][g] EXCEPT !.connected = FALSE]
           p2 == proc[s][g]
<1>0. /\ Typed /\ Adm!IInv /\ Shape(session[s], generation[s], handler[s], proc[s])
      /\ handler[s][g] \in Handler /\ proc[s][g] \in Process
  BY SlotFacts DEF IInv, SessionOK
<1>1. /\ handler[s][g].phase = "takeover"
      /\ handler' = [handler EXCEPT ![s] = [handler[s] EXCEPT ![g] = r2]]
      /\ UNCHANGED <<admissionVars, session, generation, vod, proc, awaited, stuck, overdue>>
  BY DEF ClientLeavesUnheard
<1>2. proc' = [proc EXCEPT ![s] = [proc[s] EXCEPT ![g] = p2]]
  BY <1>0, <1>1, SlotFacts
<1>3. r2 \in Handler /\ r2.phase = "takeover" /\ r2.retry = handler[s][g].retry
  BY <1>0, <1>1 DEF Handler
<1> HIDE DEF r2
<1>4. ~r2.retry /\ proc[s][g].state = "none" /\ handler[s][g] # NewHandler("none")
  BY <1>0, <1>1, <1>3, ProcessFacts DEF Shape
<1>5. Quiet(handler[s][g], proc[s][g], r2, p2)
  BY <1>1, <1>3, <1>4 DEF Quiet
<1>6. Adm!IInv' /\ \A t \in Session : Steady(t)
  BY <1>0, <1>1, UnchangedEffect
<1>7. vod' \in [Session -> 0 .. MaxGets]
  BY <1>0, <1>1 DEF Typed
<1> HIDE DEF p2
<1>8. p2 = proc[s][g]
  BY DEF p2
<1> QED BY <1>0, <1>1, <1>2, <1>3, <1>5, <1>6, <1>7, <1>8, SlotStep

\* Close sets the timer of the next variant.
LEMMA CloseWaitsStep ==
  ASSUME IInv, NEW s \in Session, NEW g \in Get, proc[s][g].state = "exited",
         Retriable(handler[s][g]),
         handler' = [handler EXCEPT ![s][g].retry = TRUE],
         proc' = [proc EXCEPT ![s] = [proc[s] EXCEPT ![g] = NoProcess]],
         vod' = IF vod[s] = g THEN [vod EXCEPT ![s] = 0] ELSE vod,
         UNCHANGED <<admissionVars, session, generation, awaited, stuck, overdue>>
  PROVE  StepOf(s)
<1> DEFINE r2 == [handler[s][g] EXCEPT !.retry = TRUE]
<1>0. Typed /\ Adm!IInv /\ handler[s][g] \in Handler
  BY SlotFacts DEF IInv
<1>1. handler' = [handler EXCEPT ![s] = [handler[s] EXCEPT ![g] = r2]]
  OBVIOUS
<1>2. vod' \in [Session -> 0 .. MaxGets]
  BY <1>0, SlotFacts DEF Typed
<1>3. r2 \in Handler /\ r2.phase = "hijacked" /\ r2.left > 0 /\ r2.retry
  BY <1>0 DEF Handler, Retriable
<1> HIDE DEF r2
<1>4. Quiet(handler[s][g], proc[s][g], r2, NoProcess)
  BY <1>3, ProcessFacts DEF Quiet, Retriable
<1>5. Adm!IInv' /\ \A t \in Session : Steady(t)
  BY <1>0, UnchangedEffect
<1>6. handler[s][g].phase = "hijacked"
  BY DEF Retriable
<1> QED BY <1>1, <1>2, <1>3, <1>4, <1>5, <1>6, ProcessFacts, SlotStep

\* report453 and the release after it, or report453 alone.
LEMMA CloseOn453Effect ==
  ASSUME IInv, NEW s \in Session, NEW g \in Get, CloseOn453(s, g)
  PROVE  /\ Adm!IInv' /\ \A t \in Session \ {s} : Steady(t)
         /\ \/ /\ generation[s] = g
               /\ lease'[s].state = "free" /\ ~lease'[s].consumed /\ s \notin Adm!Waiting(queue')
            \/ Steady(s) /\ (generation[s] = g => ~lease'[s].consumed)
<1> DEFINE reduced == Adm!ReductionAfter453(s)
           limit == IF reduced < Adm!Base THEN reduced ELSE Adm!Base
           l == [lease EXCEPT ![s] = Adm!NoLease]
<1>0. Adm!IInv
  BY DEF IInv
<1>1. CASE generation[s] = g /\ s \in Leased
  <2>1. Admission!ReductionAfter453(s) = Adm!ReductionAfter453(s)
    BY SameCardinality, Zenon
    DEF Admission!ReductionAfter453, Adm!ReductionAfter453, Admission!Leased, Adm!Leased,
        Admission!Reduction, Adm!Reduction
  <2>2. /\ Admission!Base = Adm!Base /\ Admission!NoLease = Adm!NoLease
        /\ Leased = Adm!Leased(lease)
        /\ \A m, q, n : /\ Admission!PromotedLeases(m, q, n) = Adm!PromotedLeases(m, q, n)
                        /\ Admission!RestOfQueue(m, q, n) = Adm!RestOfQueue(m, q, n)
    BY SameLeases DEF Leased
  <2>3. /\ reducedLimit' = reduced /\ cooldown' = "running" /\ UNCHANGED limitVars
        /\ lease' = Adm!PromotedLeases(l, queue, limit)
        /\ queue' = Adm!RestOfQueue(l, queue, limit)
    BY <1>1, <2>1, <2>2 DEF CloseOn453
  <2>4. reduced \in Nat \ {0}
    <3> DEFINE playing == {t \in Adm!Leased(lease) : t # s /\ lease[t].firstByte}
               healthy == Adm!Cardinality(playing)
    <3>1. healthy \in Nat
      <4>1. playing \in SUBSET Session
        BY DEF Adm!Leased
      <4>2. IsFiniteSet(playing)
        BY <4>1, AdmissionAssumption, FS_Subset
      <4>3. Cardinality(playing) \in Nat
        BY <4>2, FS_CardinalityType
      <4> HIDE DEF playing
      <4> QED BY <4>3 DEF Adm!Cardinality, Cardinality
    <3>2. reduced = IF Adm!Reduction # 0 /\ Adm!Reduction < (IF healthy < 1 THEN 1 ELSE healthy)
                    THEN Adm!Reduction ELSE IF healthy < 1 THEN 1 ELSE healthy
      BY DEF Adm!ReductionAfter453
    <3> HIDE DEF playing, healthy, reduced
    <3>3. Adm!Reduction \in Nat
      BY <1>0 DEF Adm!IInv, Adm!Reduction
    <3> QED BY <3>1, <3>2, <3>3
  <2>5. limit \in Nat
    <3>1. Adm!Base \in Nat
      BY <1>0, AdmissionAssumption DEF Adm!IInv, Adm!Base
    <3> HIDE DEF reduced
    <3> QED BY <2>4, <3>1
  <2> HIDE DEF reduced, limit
  <2>6. /\ l \in [Session -> Adm!Lease] /\ l[s] = Adm!NoLease
        /\ \A t \in Session \ {s} : l[t] = lease[t]
        /\ \A t \in Session : Adm!Agrees(l[t])
    BY <1>0, LeaseFacts, Adm!NoLeaseFacts, AdmissionAssumptions
  <2>7. l[s].state = "free" /\ ~l[s].consumed
    BY <2>6 DEF Adm!NoLease
  <2> HIDE DEF l
  <2>8. \A i \in 1 .. Len(queue) : l[queue[i].session].state = "free"
    <3>1. ASSUME NEW i \in 1 .. Len(queue) PROVE l[queue[i].session].state = "free"
      <4>1. queue[i].session \in Adm!Waiting(queue)
        BY <1>0, LeaseFacts DEF Adm!Waiting
      <4>2. queue[i].session \in Session /\ lease[queue[i].session].state = "free"
        BY <1>0, <4>1, LeaseFacts
      <4> QED BY <2>6, <2>7, <4>2
    <3> QED BY <3>1
  <2>9. Adm!Disciplined(l, queue)
    BY <1>0, <2>6, <2>8, LeaseFacts, Adm!LeasesKeepDiscipline, AdmissionAssumptions
  <2>10. s \notin Adm!Waiting(queue)
    BY <1>0, <1>1, <2>2, LeaseFacts DEF Adm!Leased
  <2>11. /\ Adm!Disciplined(lease', queue') /\ \A t \in Session : Adm!Agrees(lease'[t])
         /\ Adm!Waiting(queue') \subseteq Adm!Waiting(queue)
         /\ \A t \in Session :
              /\ l[t].state # "free" \/ t \notin Adm!Waiting(queue) => lease'[t] = l[t]
              /\ lease'[t].consumed <=> l[t].consumed
    BY <2>3, <2>5, <2>6, <2>9, PromotionFacts
  <2>12. Adm!IInv'
    <3>1. /\ configuredLimit' \in Limits /\ globalDefaultLimit' \in Limits
          /\ reducedLimit' \in Nat /\ cooldown' \in {"none", "running", "elapsed"}
      BY <1>0, <2>3, <2>4 DEF Adm!IInv, limitVars
    <3>2. Adm!ReductionIsTemporary'
      BY <2>3, <2>4 DEF Adm!ReductionIsTemporary
    <3> QED BY <2>11, <3>1, <3>2 DEF Adm!IInv, Adm!Disciplined, Adm!Agrees
  <2> QED BY <1>1, <2>6, <2>7, <2>10, <2>11, <2>12 DEF Steady
<1>2. CASE ~(generation[s] = g /\ s \in Leased)
  <2>1. Admission!Report453(s)
    BY <1>2 DEF CloseOn453
  <2>2. Adm!Report453(s)
    BY <2>1, SameMarks
  <2>3. Adm!IInv' /\ lease' = lease /\ queue' = queue
    BY <1>0, <2>2, Adm!SettingsStep, AdmissionAssumptions DEF Adm!Report453
  <2>4. \A t \in Session : Steady(t)
    BY <2>3 DEF Steady
  <2>5. generation[s] = g => ~lease'[s].consumed
    BY <1>0, <1>2, <2>3, SameLeases, LeaseFacts DEF Leased, Adm!Leased
  <2> QED BY <2>3, <2>4, <2>5
<1> QED BY <1>1, <1>2

LEMMA CloseOn453Step ==
  ASSUME IInv, NEW s \in Session, NEW g \in Get, CloseOn453(s, g)
  PROVE  StepOf(s)
<1> DEFINE ps2 == [proc[s] EXCEPT ![g] = NoProcess]
           hs2 == [handler[s] EXCEPT ![g] = NewHandler("over")]
<1>0. /\ Typed /\ Adm!IInv /\ Shape(session[s], generation[s], handler[s], proc[s])
      /\ Awaits(session[s], generation[s], handler[s], proc[s], awaited[s])
  BY DEF IInv, SessionOK
<1>1. /\ proc[s][g].state = "exited" /\ Alive(ps2) = {}
      /\ handler[s][g].phase = "hijacked"
      /\ proc' = [proc EXCEPT ![s] = ps2]
      /\ vod' = IF vod[s] = g THEN [vod EXCEPT ![s] = 0] ELSE vod
      /\ handler' = [handler EXCEPT ![s] = hs2]
      /\ UNCHANGED <<session, generation, awaited, stuck, overdue>>
  BY DEF CloseOn453
<1>2. vod' \in [Session -> 0 .. MaxGets]
  BY <1>0, <1>1, SlotFacts DEF Typed
<1>3. /\ ps2 \in [Get -> Process] /\ Alive(ps2) = Alive(proc[s]) /\ ps2[g] = NoProcess
      /\ \A h \in Get \ {g} : ps2[h] = proc[s][h] /\ Calm(proc[s][h], ps2[h])
  BY <1>0, <1>1, ClosedProcess
<1>4. /\ hs2 \in [Get -> Handler] /\ hs2[g] = NewHandler("over")
      /\ \A h \in Get \ {g} : hs2[h] = handler[s][h]
  BY <1>0, SlotFacts, ProcessFacts
<1> HIDE DEF ps2, hs2
<1>5. \A h \in Get : Quiet(handler[s][h], proc[s][h], hs2[h], ps2[h])
  BY <1>0, <1>1, <1>3, <1>4, ProcessFacts DEF Quiet, Shape
<1>6. awaited[s] = {} /\ awaited' \in AwaitedType
  BY <1>0, <1>1, <1>3 DEF Awaits, Typed, AwaitedType
<1>7. CASE generation[s] = g
  <2>1. \A h \in Get : h = generation[s] => hs2[h].phase # "hijacked"
    BY <1>4, <1>7, ProcessFacts
  <2>2. /\ Adm!IInv' /\ \A t \in Session \ {s} : Steady(t)
        /\ \/ lease'[s].state = "free" /\ ~lease'[s].consumed /\ s \notin Adm!Waiting(queue')
           \/ Steady(s) /\ ~lease'[s].consumed
    BY <1>7, CloseOn453Effect
  <2> QED BY <1>1, <1>2, <1>3, <1>4, <1>5, <1>6, <2>1, <2>2, QuietStep
<1>8. CASE generation[s] # g
  <2>1. Held(session[s], generation[s], handler[s], proc[s]) => Held(session[s], generation[s], hs2, ps2)
    BY <1>3, <1>4, <1>8 DEF Held
  <2>2. Adm!IInv' /\ \A t \in Session : Steady(t)
    BY <1>8, CloseOn453Effect
  <2> QED BY <1>1, <1>2, <1>3, <1>4, <1>5, <1>6, <2>1, <2>2, QuietStep
<1> QED BY <1>7, <1>8

\* The owner g spawns, from handlers hs and processes ps that are in shape and
\* have nothing alive.
SpawnsFrom(g, hs, ps, hs2, ps2) ==
  /\ Shape("open", g, hs, ps) /\ Alive(ps) = {}
  /\ \A h \in Get \ {g} : hs2[h] = hs[h] /\ ps2[h] = ps[h]
  /\ hs2[g].phase = "hijacked" /\ ~hs2[g].retry /\ ps2[g].state \in {"waiting", "unspawned"}

LEMMA SpawnStep ==
  ASSUME IInv, NEW s \in Session, NEW g \in Get, NEW hs, NEW ps,
         NEW hs2 \in [Get -> Handler], NEW ps2 \in [Get -> Process],
         SpawnsFrom(g, hs, ps, hs2, ps2), session[s] = "open", session' = session, generation' = [generation EXCEPT ![s] = g],
         handler' = [handler EXCEPT ![s] = hs2], proc' = [proc EXCEPT ![s] = ps2],
         UNCHANGED <<stuck, overdue>>, vod' \in [Session -> 0 .. MaxGets],
         Adm!IInv', \A t \in Session \ {s} : Steady(t) /\ awaited'[t] = awaited[t],
         awaited' \in AwaitedType, awaited'[s] = {},
         lease'[s].state # "free" \/ (overdue[s] /\ lease[s].state = "free"),
         s \notin Adm!Waiting(queue'), lease'[s].state # "free" => lease'[s].consumed
  PROVE  StepOf(s)
<1>0. Typed /\ SessionOK(s)
  BY DEF IInv
<1>s. /\ Shape("open", g, hs, ps) /\ Alive(ps) = {}
      /\ \A h \in Get \ {g} : hs2[h] = hs[h] /\ ps2[h] = ps[h]
      /\ hs2[g].phase = "hijacked" /\ ~hs2[g].retry /\ ps2[g].state \in {"waiting", "unspawned"}
  BY DEF SpawnsFrom
<1>1. /\ handler'[s] = hs2 /\ proc'[s] = ps2 /\ session'[s] = "open" /\ generation'[s] = g
      /\ stuck' = stuck /\ overdue' = overdue
  BY <1>0 DEF Typed
<1>2. Typed'
  <2>1. Get \subseteq 0 .. MaxGets
    BY BoundsAssumption DEF Get
  <2>2. generation' \in [Session -> 0 .. MaxGets]
    BY <1>0, <2>1 DEF Typed
  <2> QED BY <1>0, <2>2 DEF Typed, AwaitedType
<1>3. OthersKept(s)
  BY <1>0 DEF OthersKept, Typed
<1>4. Shape("open", g, hs2, ps2)
  BY <1>s, SpawnShape
<1>5. Awaits("open", g, hs2, ps2, awaited'[s])
  BY DEF Awaits
<1>6. stuck[s] => overdue[s]
  BY <1>0 DEF SessionOK, Covered
<1>7. Held("open", g, hs2, ps2)
  BY <1>s DEF Held
<1>8. Covered("open", g, hs2, ps2, awaited'[s], stuck[s], overdue[s],
              lease'[s], s \in Adm!Waiting(queue'))
  BY <1>s, <1>6, <1>7 DEF Covered
<1>9. SessionOK(s)'
  BY <1>1, <1>4, <1>5, <1>8 DEF SessionOK
<1>10. ReleasedAfterExit(s)
  BY DEF ReleasedAfterExit
<1>11. SpawnedByOwner(s)
  <2>1. \A h \in Get \ {g} : ps2[h].state \notin {"waiting", "unspawned"}
    BY <1>s DEF Alive
  <2> QED BY <1>1, <2>1 DEF SpawnedByOwner
<1> QED BY <1>2, <1>3, <1>9, <1>10, <1>11 DEF StepOf

\* A retry of the owner: its own process is gone, so nothing is alive.
LEMMA OwnerSpawnsStep ==
  ASSUME IInv, NEW s \in Session, NEW g \in Get, NEW ps \in [Get -> Process],
         NEW r2 \in Handler, r2.phase = "hijacked", ~r2.retry,
         Owner(s, g), handler[s][g].phase = "hijacked", ps[g].state = "none",
         \A h \in Get \ {g} : ps[h] = proc[s][h],
         handler' = [handler EXCEPT ![s] = [handler[s] EXCEPT ![g] = r2]], Spawn(s, g, ps),
         UNCHANGED <<admissionVars, session, generation, awaited, stuck, overdue>>,
         proc[s][g].state \in {"none", "exited"}
  PROVE  StepOf(s)
<1> DEFINE hs2 == [handler[s] EXCEPT ![g] = r2]
<1>0. /\ Typed /\ Adm!IInv /\ Shape(session[s], generation[s], handler[s], proc[s])
      /\ Awaits(session[s], generation[s], handler[s], proc[s], awaited[s])
      /\ Covered(session[s], generation[s], handler[s], proc[s], awaited[s], stuck[s], overdue[s],
              lease[s], s \in Adm!Waiting(queue))
  BY DEF IInv, SessionOK
<1>1. session[s] = "open" /\ generation[s] = g
  BY DEF Owner
<1>2. Alive(proc[s]) = {}
  <2>1. Alive(proc[s]) \subseteq {g} /\ g \notin Alive(proc[s])
    BY <1>0, <1>1 DEF Shape, Alive
  <2> QED BY <2>1
<1>3. awaited[s] = {}
  BY <1>0, <1>2 DEF Awaits
<1>4. PICK state \in {"waiting", "unspawned"} :
        proc' = [proc EXCEPT ![s] = [ps EXCEPT ![g] = [state |-> state, killed |-> FALSE]]]
  BY DEF Spawn
<1> DEFINE p2 == [state |-> state, killed |-> FALSE]
           ps2 == [ps EXCEPT ![g] = p2]
<1>5. p2 \in Process /\ p2.state \in {"waiting", "unspawned"}
  BY DEF Process
<1>6. proc' = [proc EXCEPT ![s] = ps2] /\ handler' = [handler EXCEPT ![s] = hs2]
  BY <1>4
<1> HIDE DEF p2
<1>7. /\ ps2 \in [Get -> Process] /\ ps2[g] = p2 /\ \A h \in Get \ {g} : ps2[h] = proc[s][h]
      /\ hs2 \in [Get -> Handler] /\ hs2[g] = r2 /\ \A h \in Get \ {g} : hs2[h] = handler[s][h]
  BY <1>0, <1>5, SlotFacts
<1> HIDE DEF ps2, hs2
<1>8. /\ vod' \in [Session -> 0 .. MaxGets] /\ awaited' \in AwaitedType /\ awaited'[s] = {}
      /\ generation' = [generation EXCEPT ![s] = g] /\ session' = session
      /\ stuck' = stuck /\ overdue' = overdue
  BY <1>0, <1>1, <1>3, SlotFacts DEF Typed, Spawn, AwaitedType
<1>9. Adm!IInv' /\ lease' = lease /\ queue' = queue /\ \A t \in Session : Steady(t)
  BY <1>0, UnchangedEffect DEF admissionVars
<1>10. /\ lease[s].state # "free" \/ overdue[s]
       /\ s \notin Adm!Waiting(queue) /\ (lease[s].state # "free" => lease[s].consumed)
  BY <1>0, <1>1 DEF Covered
<1>11. Shape("open", g, handler[s], proc[s])
  BY <1>0, <1>1
<1>12. /\ lease'[s].state # "free" \/ (overdue[s] /\ lease[s].state = "free")
       /\ s \notin Adm!Waiting(queue')
       /\ lease'[s].state # "free" => lease'[s].consumed
  BY <1>9, <1>10
<1>13. \A t \in Session \ {s} : Steady(t) /\ awaited'[t] = awaited[t]
  BY <1>9
<1>14. SpawnsFrom(g, handler[s], proc[s], hs2, ps2)
  BY <1>2, <1>5, <1>7, <1>11 DEF SpawnsFrom
<1> QED BY <1>1, <1>6, <1>7, <1>8, <1>9, <1>12, <1>13, <1>14, SpawnStep

LEMMA CloseStep ==
  ASSUME IInv, NEW s \in Session, NEW g \in Get, Close(s, g)
  PROVE  StepOf(s)
<1> DEFINE ps == [proc[s] EXCEPT ![g] = NoProcess]
           inactive == vod' = IF vod[s] = g THEN [vod EXCEPT ![s] = 0] ELSE vod
<1>0. Typed /\ handler[s][g] \in Handler /\ Shape(session[s], generation[s], handler[s], proc[s])
  BY SlotFacts DEF IInv, SessionOK
<1>1. proc[s][g].state = "exited" /\ UNCHANGED <<session, generation, stuck, overdue>>
  BY DEF Close
<1>2. \/ Finish(s, g, Alive(ps)) /\ proc' = [proc EXCEPT ![s] = ps] /\ inactive
      \/ /\ Retriable(handler[s][g]) /\ Owner(s, g)
         /\ handler' = [handler EXCEPT ![s][g].left = @ - 1]
         /\ Spawn(s, g, ps)
         /\ UNCHANGED <<admissionVars, awaited>>
      \/ /\ Retriable(handler[s][g]) /\ proc' = [proc EXCEPT ![s] = ps] /\ inactive
         /\ handler' = [handler EXCEPT ![s][g].retry = TRUE]
         /\ UNCHANGED <<admissionVars, awaited>>
  BY DEF Close
<1>3. CASE Finish(s, g, Alive(ps)) /\ proc' = [proc EXCEPT ![s] = ps] /\ inactive
  BY <1>1, <1>3, CloseEndsStep
<1>4. CASE /\ Retriable(handler[s][g]) /\ Owner(s, g)
           /\ handler' = [handler EXCEPT ![s][g].left = @ - 1]
           /\ Spawn(s, g, ps)
           /\ UNCHANGED <<admissionVars, awaited>>
  <2> DEFINE r2 == [handler[s][g] EXCEPT !.left = @ - 1]
  <2>1. handler' = [handler EXCEPT ![s] = [handler[s] EXCEPT ![g] = r2]]
    BY <1>4
  <2>2. handler[s][g].phase = "hijacked" /\ handler[s][g].left \in 1 .. Attempts
    BY <1>0, <1>4, BoundsAssumption DEF Retriable, Handler
  <2>3. ~handler[s][g].retry
    BY <1>0, <1>1 DEF Shape
  <2>4. r2 \in Handler /\ r2.phase = "hijacked" /\ ~r2.retry
    BY <1>0, <2>2, <2>3, BoundsAssumption DEF Handler
  <2> HIDE DEF r2
  <2>5. /\ ps \in [Get -> Process] /\ ps[g].state = "none"
        /\ \A h \in Get \ {g} : ps[h] = proc[s][h]
    BY <1>0, <1>1, ClosedProcess, ProcessFacts
  <2> HIDE DEF ps
  <2> QED BY <1>1, <1>4, <2>1, <2>2, <2>4, <2>5, OwnerSpawnsStep
<1>5. CASE /\ Retriable(handler[s][g]) /\ proc' = [proc EXCEPT ![s] = ps] /\ inactive
           /\ handler' = [handler EXCEPT ![s][g].retry = TRUE]
           /\ UNCHANGED <<admissionVars, awaited>>
  BY <1>1, <1>5, CloseWaitsStep
<1> QED BY <1>2, <1>3, <1>4, <1>5

LEMMA RetryTimerStep ==
  ASSUME IInv, NEW s \in Session, NEW g \in Get, RetryTimer(s, g)
  PROVE  StepOf(s)
<1>0. /\ Typed /\ handler[s][g] \in Handler /\ proc[s] \in [Get -> Process]
      /\ Shape(session[s], generation[s], handler[s], proc[s])
  BY SlotFacts DEF IInv, SessionOK
<1>1. handler[s][g].retry /\ UNCHANGED <<session, generation, stuck, overdue>>
  BY DEF RetryTimer
<1>2. CASE /\ Owner(s, g)
           /\ handler' = [handler EXCEPT ![s][g].retry = FALSE, ![s][g].left = @ - 1]
           /\ Spawn(s, g, proc[s])
           /\ UNCHANGED <<admissionVars, awaited>>
  <2> DEFINE r2 == [handler[s][g] EXCEPT !.retry = FALSE, !.left = @ - 1]
  <2>1. handler[s] \in [Get -> Handler] /\ handler \in [Session -> [Get -> Handler]]
    BY <1>0 DEF Typed
  <2>2. handler' = [handler EXCEPT ![s] = [handler[s] EXCEPT ![g] = r2]]
    BY <1>2, <2>1 DEF Handler
  <2>3. /\ handler[s][g].phase = "hijacked" /\ proc[s][g].state = "none"
        /\ handler[s][g].left \in 1 .. Attempts
    BY <1>0, <1>1, BoundsAssumption DEF Shape, Handler
  <2>4. r2 \in Handler /\ r2.phase = "hijacked" /\ ~r2.retry
    <3> DEFINE r1 == [handler[s][g] EXCEPT !.retry = FALSE]
    <3>1. r1 \in Handler /\ r1.phase = "hijacked" /\ ~r1.retry /\ r1.left = handler[s][g].left
      BY <1>0, <2>3 DEF Handler
    <3>2. r2 = [r1 EXCEPT !.left = handler[s][g].left - 1]
      BY <1>0 DEF Handler
    <3>3. handler[s][g].left - 1 \in 0 .. Attempts
      BY <2>3, BoundsAssumption
    <3> HIDE DEF r1, r2
    <3> QED BY <3>1, <3>2, <3>3 DEF Handler
  <2> HIDE DEF r2
  <2> QED BY <1>0, <1>1, <1>2, <2>2, <2>3, <2>4, OwnerSpawnsStep
<1>3. CASE Finish(s, g, Alive(proc[s])) /\ UNCHANGED <<proc, vod>>
  BY <1>1, <1>3, RetryEndsStep
<1> QED BY <1>2, <1>3 DEF RetryTimer

\* A request whose turn has come is refused, ends at once or spawns.
LEMMA ProceedEffect ==
  ASSUME Adm!IInv, Typed, NEW s \in Session, NEW g \in Get,
         NEW ps \in [Get -> Process], NEW hs \in [Get -> Handler], ~hs[g].retry,
         Proceed(s, g, ps, hs)
  PROVE  /\ vod' \in [Session -> 0 .. MaxGets] /\ Adm!IInv' /\ \A t \in Session \ {s} : Steady(t)
         /\ \/ /\ handler' = [handler EXCEPT ![s] = [hs EXCEPT ![g] = NewHandler("over")]]
               /\ proc' = [proc EXCEPT ![s] = ps]
               /\ \/ lease'[s].state = "free" /\ ~lease'[s].consumed /\ s \notin Adm!Waiting(queue')
                  \/ Steady(s) /\ ~lease'[s].consumed
            \/ \E r2 \in Handler, p2 \in Process :
                 /\ r2.phase = "hijacked" /\ ~r2.retry /\ p2.state \in {"waiting", "unspawned"}
                 /\ handler' = [handler EXCEPT ![s] = [hs EXCEPT ![g] = r2]]
                 /\ proc' = [proc EXCEPT ![s] = [ps EXCEPT ![g] = p2]]
                 /\ lease'[s].state # "free" /\ lease'[s].consumed /\ s \notin Adm!Waiting(queue')
<1> DEFINE refused ==
             /\ handler' = [handler EXCEPT ![s] = [hs EXCEPT ![g] = NewHandler("over")]]
             /\ proc' = [proc EXCEPT ![s] = ps]
             /\ vod' = [vod EXCEPT ![s] = 0]
           r2 == [hs[g] EXCEPT !.phase = "hijacked", !.left = Attempts - 1]
<1>1. \/ s \notin Leased /\ refused /\ UNCHANGED admissionVars
      \/ Admission!ReleaseLease(s) /\ refused
      \/ /\ Admission!MarkConsumed(s)
         /\ handler' = [handler EXCEPT ![s] = [hs EXCEPT ![g] = r2]]
         /\ Spawn(s, g, ps)
  BY DEF Proceed
<1>2. CASE s \notin Leased /\ refused /\ UNCHANGED admissionVars
  <2>1. ~lease[s].consumed
    BY <1>2, SameLeases, LeaseFacts DEF Leased, Adm!Leased
  <2>2. Adm!IInv' /\ lease' = lease /\ \A t \in Session : Steady(t)
    BY <1>2, UnchangedEffect
  <2>3. vod' \in [Session -> 0 .. MaxGets]
    BY <1>2, SlotFacts
  <2> QED BY <1>2, <2>1, <2>2, <2>3
<1>3. CASE Admission!ReleaseLease(s) /\ refused
  <2>1. vod' \in [Session -> 0 .. MaxGets]
    BY <1>3, SlotFacts
  <2> QED BY <1>3, <2>1, ReleaseLeaseEffect
<1>4. CASE /\ Admission!MarkConsumed(s)
           /\ handler' = [handler EXCEPT ![s] = [hs EXCEPT ![g] = r2]]
           /\ Spawn(s, g, ps)
  <2>1. PICK state \in {"waiting", "unspawned"} :
          proc' = [proc EXCEPT ![s] = [ps EXCEPT ![g] = [state |-> state, killed |-> FALSE]]]
    BY <1>4 DEF Spawn
  <2> DEFINE p2 == [state |-> state, killed |-> FALSE]
  <2>2. p2 \in Process /\ p2.state \in {"waiting", "unspawned"}
    BY DEF Process
  <2>3. r2 \in Handler /\ r2.phase = "hijacked" /\ ~r2.retry
    <3>1. hs[g] \in Handler /\ Attempts - 1 \in 0 .. Attempts
      BY BoundsAssumption
    <3> QED BY <3>1 DEF Handler
  <2>4. vod' \in [Session -> 0 .. MaxGets]
    BY <1>4, SlotFacts DEF Spawn
  <2>5. proc' = [proc EXCEPT ![s] = [ps EXCEPT ![g] = p2]]
    BY <2>1
  <2> HIDE DEF p2, r2
  <2>6. /\ Adm!IInv' /\ \A t \in Session \ {s} : Steady(t)
        /\ lease'[s].state # "free" /\ lease'[s].consumed /\ s \notin Adm!Waiting(queue')
    BY <1>4, MarkEffect
  <2> QED BY <1>4, <2>2, <2>3, <2>4, <2>5, <2>6
<1> QED BY <1>1, <1>2, <1>3, <1>4

\* The stream of handlers hs and processes ps has the owner g from now on, which
\* waits or is already over.
TakenOverBy(g, hs, ps, hs2, ps2) ==
  /\ Shape("open", g, hs2, ps2) /\ \A h \in Get : ps2[h].state = ps[h].state
  /\ \A h \in Get \ {g} : hs2[h] = hs[h]
  /\ hs2[g].phase \in {"takeover", "over"}

LEMMA NewOwnerStep ==
  ASSUME IInv, NEW s \in Session, NEW g \in Get, session[s] = "open",
         NEW hs2 \in [Get -> Handler], NEW ps2 \in [Get -> Process],
         generation' = [generation EXCEPT ![s] = g],
         handler' = [handler EXCEPT ![s] = hs2], proc' = [proc EXCEPT ![s] = ps2],
         vod' \in [Session -> 0 .. MaxGets], UNCHANGED <<session, awaited, stuck, overdue>>,
         TakenOverBy(g, handler[s], proc[s], hs2, ps2),
         Adm!IInv', \A t \in Session \ {s} : Steady(t),
         \/ Steady(s) /\ (hs2[g].phase = "takeover" \/ ~lease'[s].consumed)
         \/ /\ Alive(proc[s]) = {}
            /\ lease'[s].state = "free" /\ ~lease'[s].consumed /\ s \notin Adm!Waiting(queue')
  PROVE  StepOf(s)
<1>0. /\ Typed
      /\ Awaits(session[s], generation[s], handler[s], proc[s], awaited[s])
      /\ Covered(session[s], generation[s], handler[s], proc[s], awaited[s], stuck[s], overdue[s],
              lease[s], s \in Adm!Waiting(queue))
  BY DEF IInv, SessionOK
<1>t. /\ Shape("open", g, hs2, ps2) /\ \A h \in Get : ps2[h].state = proc[s][h].state
      /\ \A h \in Get \ {g} : hs2[h] = handler[s][h]
      /\ hs2[g].phase \in {"takeover", "over"}
  BY DEF TakenOverBy
<1>1. /\ handler'[s] = hs2 /\ proc'[s] = ps2 /\ session'[s] = "open" /\ generation'[s] = g
      /\ awaited' = awaited /\ stuck' = stuck /\ overdue' = overdue
  BY <1>0 DEF Typed
<1>2. Typed'
  <2>1. Get \subseteq 0 .. MaxGets
    BY BoundsAssumption DEF Get
  <2>2. generation' \in [Session -> 0 .. MaxGets]
    BY <1>0, <2>1 DEF Typed
  <2> QED BY <1>0, <2>2 DEF Typed
<1>3. OthersKept(s)
  BY <1>0 DEF OthersKept, Typed
<1>4. /\ Alive(ps2) = Alive(proc[s]) /\ Running(ps2) = Running(proc[s])
      /\ Running(ps2) \subseteq Alive(proc[s])
  BY <1>t DEF Alive, Running
<1>5. Awaits("open", g, hs2, ps2, awaited[s])
  BY <1>0, <1>4, <1>t DEF Awaits
<1>6. hs2[g].phase = "takeover" => Held("open", g, hs2, ps2)
  BY <1>t DEF Held
<1>7. Covered("open", g, hs2, ps2, awaited[s], stuck[s], overdue[s],
              lease'[s], s \in Adm!Waiting(queue'))
  BY <1>0, <1>4, <1>6, <1>t DEF Covered, Steady
<1>8. SessionOK(s)'
  BY <1>1, <1>5, <1>7, <1>t DEF SessionOK
<1>9. ReleasedAfterExit(s)
  BY <1>1, <1>4 DEF ReleasedAfterExit, Steady
<1>10. SpawnedByOwner(s)
  BY <1>1, <1>t DEF SpawnedByOwner
<1> QED BY <1>2, <1>3, <1>8, <1>9, <1>10 DEF StepOf

LEMMA StreamStep ==
  ASSUME IInv, NEW s \in Session, Stream(s)
  PROVE  StepOf(s)
<1> DEFINE g == generation[s] + 1
           hs == [handler[s] EXCEPT ![g] = NewHandler("takeover")]
<1>0. /\ Typed /\ Adm!IInv /\ Shape(session[s], generation[s], handler[s], proc[s])
      /\ handler[s] \in [Get -> Handler] /\ proc[s] \in [Get -> Process]
      /\ generation[s] \in 0 .. MaxGets
      /\ Awaits(session[s], generation[s], handler[s], proc[s], awaited[s])
  BY SlotFacts DEF IInv, SessionOK
<1>1. /\ session[s] = "open" /\ g \in Get
      /\ generation' = [generation EXCEPT ![s] = g]
      /\ UNCHANGED <<session, awaited, stuck, overdue>>
      /\ \/ Alive(proc[s]) = {} /\ Proceed(s, g, proc[s], hs)
         \/ /\ proc' = [proc EXCEPT ![s] = KillAll(@)]
            /\ handler' = [handler EXCEPT ![s] = hs]
            /\ vod' = [vod EXCEPT ![s] = 0]
            /\ UNCHANGED admissionVars
  BY DEF Stream
<1>2. /\ hs \in [Get -> Handler] /\ hs[g] = NewHandler("takeover")
      /\ \A h \in Get \ {g} : hs[h] = handler[s][h]
  BY <1>0, <1>1, ProcessFacts
<1>3. hs[g].phase = "takeover" /\ ~hs[g].retry
  BY <1>2, ProcessFacts
<1>4. /\ KillAll(proc[s]) \in [Get -> Process]
      /\ \A h \in Get : KillAll(proc[s])[h].state = proc[s][h].state
  BY <1>0, KillFacts DEF KillAll
<1>5. Shape("open", g, hs, KillAll(proc[s]))
  <2>1. Shape("open", generation[s], handler[s], proc[s])
    BY <1>0, <1>1
  <2> HIDE DEF hs
  <2> QED BY <1>0, <1>1, <1>2, <2>1, TakeoverShape
<1> HIDE DEF g, hs
<1>6. CASE Alive(proc[s]) = {} /\ Proceed(s, g, proc[s], hs)
  <2>1. KillAll(proc[s]) = proc[s]
    BY <1>0, <1>6 DEF KillAll, KillThose
  <2>2. Shape("open", g, hs, proc[s])
    BY <1>5, <2>1
  <2>3. /\ vod' \in [Session -> 0 .. MaxGets] /\ Adm!IInv' /\ \A t \in Session \ {s} : Steady(t)
        /\ \/ /\ handler' = [handler EXCEPT ![s] = [hs EXCEPT ![g] = NewHandler("over")]]
              /\ proc' = [proc EXCEPT ![s] = proc[s]]
              /\ \/ lease'[s].state = "free" /\ ~lease'[s].consumed /\ s \notin Adm!Waiting(queue')
                 \/ Steady(s) /\ ~lease'[s].consumed
           \/ \E r2 \in Handler, p2 \in Process :
                /\ r2.phase = "hijacked" /\ ~r2.retry /\ p2.state \in {"waiting", "unspawned"}
                /\ handler' = [handler EXCEPT ![s] = [hs EXCEPT ![g] = r2]]
                /\ proc' = [proc EXCEPT ![s] = [proc[s] EXCEPT ![g] = p2]]
                /\ lease'[s].state # "free" /\ lease'[s].consumed /\ s \notin Adm!Waiting(queue')
    BY <1>0, <1>1, <1>2, <1>3, <1>6, ProceedEffect
  <2>4. CASE /\ handler' = [handler EXCEPT ![s] = [hs EXCEPT ![g] = NewHandler("over")]]
             /\ proc' = [proc EXCEPT ![s] = proc[s]]
             /\ \/ lease'[s].state = "free" /\ ~lease'[s].consumed /\ s \notin Adm!Waiting(queue')
                \/ Steady(s) /\ ~lease'[s].consumed
    <3> DEFINE hs2 == [hs EXCEPT ![g] = NewHandler("over")]
    <3>1. /\ hs2 \in [Get -> Handler] /\ hs2[g] = NewHandler("over")
          /\ \A h \in Get \ {g} : hs2[h] = hs[h]
      BY <1>1, <1>2, ProcessFacts
    <3>2. handler' = [handler EXCEPT ![s] = hs2]
      BY <2>4
    <3> HIDE DEF hs2
    <3>3. QuietSlots(hs, proc[s], hs2, proc[s])
      <4>1. ASSUME NEW h \in Get PROVE Quiet(hs[h], proc[s][h], hs2[h], proc[s][h])
        <5>1. CASE h = g
          BY <1>3, <3>1, <5>1, ProcessFacts DEF Quiet
        <5>2. CASE h # g
          BY <2>2, <3>1, <5>2 DEF Quiet, Shape
        <5> QED BY <5>1, <5>2
      <4> QED BY <4>1 DEF QuietSlots
    <3>4. Shape("open", g, hs2, proc[s])
      BY <2>2, <3>3, QuietShape
    <3>5. hs2[g].phase = "over" /\ \A h \in Get \ {g} : hs2[h] = handler[s][h]
      BY <1>2, <3>1, ProcessFacts
    <3>6. \/ Steady(s) /\ (hs2[g].phase = "takeover" \/ ~lease'[s].consumed)
          \/ /\ Alive(proc[s]) = {}
             /\ lease'[s].state = "free" /\ ~lease'[s].consumed /\ s \notin Adm!Waiting(queue')
      BY <1>6, <2>4
    <3> DEFINE ps == proc[s]
    <3>7. /\ ps \in [Get -> Process] /\ proc' = [proc EXCEPT ![s] = ps]
          /\ TakenOverBy(g, handler[s], proc[s], hs2, ps)
      BY <1>0, <2>4, <3>4, <3>5 DEF TakenOverBy
    <3>8. vod' \in [Session -> 0 .. MaxGets] /\ Adm!IInv' /\ \A t \in Session \ {s} : Steady(t)
      BY <2>3
    <3> HIDE DEF ps
    <3> QED BY <1>1, <3>1, <3>2, <3>6, <3>7, <3>8, NewOwnerStep
  <2>5. CASE \E r2 \in Handler, p2 \in Process :
                /\ r2.phase = "hijacked" /\ ~r2.retry /\ p2.state \in {"waiting", "unspawned"}
                /\ handler' = [handler EXCEPT ![s] = [hs EXCEPT ![g] = r2]]
                /\ proc' = [proc EXCEPT ![s] = [proc[s] EXCEPT ![g] = p2]]
                /\ lease'[s].state # "free" /\ lease'[s].consumed /\ s \notin Adm!Waiting(queue')
    <3>1. PICK r2 \in Handler, p2 \in Process :
                /\ r2.phase = "hijacked" /\ ~r2.retry /\ p2.state \in {"waiting", "unspawned"}
                /\ handler' = [handler EXCEPT ![s] = [hs EXCEPT ![g] = r2]]
                /\ proc' = [proc EXCEPT ![s] = [proc[s] EXCEPT ![g] = p2]]
                /\ lease'[s].state # "free" /\ lease'[s].consumed /\ s \notin Adm!Waiting(queue')
      BY <2>5
    <3> DEFINE hs2 == [hs EXCEPT ![g] = r2]
               ps2 == [proc[s] EXCEPT ![g] = p2]
    <3>2. /\ hs2 \in [Get -> Handler] /\ hs2[g] = r2 /\ \A h \in Get \ {g} : hs2[h] = hs[h]
          /\ ps2 \in [Get -> Process] /\ ps2[g] = p2 /\ \A h \in Get \ {g} : ps2[h] = proc[s][h]
      BY <1>0, <1>1, <1>2
    <3>3. handler' = [handler EXCEPT ![s] = hs2] /\ proc' = [proc EXCEPT ![s] = ps2]
      BY <3>1
    <3> HIDE DEF hs2, ps2
    <3>4. SpawnsFrom(g, hs, proc[s], hs2, ps2)
      BY <1>6, <2>2, <3>1, <3>2 DEF SpawnsFrom
    <3>5. awaited' \in AwaitedType /\ awaited'[s] = {} /\ awaited' = awaited
      BY <1>0, <1>1, <1>6 DEF Typed, Awaits, AwaitedType
    <3> QED BY <1>1, <2>3, <3>1, <3>2, <3>3, <3>4, <3>5, SpawnStep
  <2> QED BY <2>3, <2>4, <2>5
<1>7. CASE /\ proc' = [proc EXCEPT ![s] = KillAll(@)]
           /\ handler' = [handler EXCEPT ![s] = hs]
           /\ vod' = [vod EXCEPT ![s] = 0]
           /\ UNCHANGED admissionVars
  <2>1. Adm!IInv' /\ \A t \in Session : Steady(t)
    BY <1>0, <1>7, UnchangedEffect
  <2>2. vod' \in [Session -> 0 .. MaxGets]
    BY <1>0, <1>7, SlotFacts
  <2>3. proc' = [proc EXCEPT ![s] = KillAll(proc[s])]
    BY <1>7
  <2>4. TakenOverBy(g, handler[s], proc[s], hs, KillAll(proc[s]))
    BY <1>2, <1>3, <1>4, <1>5 DEF TakenOverBy
  <2>5. Steady(s) /\ hs[g].phase = "takeover"
    BY <1>3, <2>1
  <2> QED BY <1>1, <1>2, <1>4, <1>7, <2>1, <2>2, <2>3, <2>4, <2>5, NewOwnerStep
<1> QED BY <1>1, <1>6, <1>7

\* The last process that was alive is gone: who waited for it goes on.
LEMMA SettleStep ==
  ASSUME IInv, NEW s \in Session, NEW g \in Alive(proc[s]), NEW p2 \in Process,
         p2.state = "exited" \/ (p2.state = "none" /\ proc[s][g].state = "erred"),
         Settle(s, [proc[s] EXCEPT ![g] = p2]), UNCHANGED <<session, generation, overdue>>
  PROVE  StepOf(s)
<1> DEFINE ps2 == [proc[s] EXCEPT ![g] = p2]
           done == {a \in awaited[s] : a \cap Alive(ps2) = {}}
           owner == generation[s]
           answered == [h \in Get |-> IF handler[s][h].phase = "takeover"
                                      THEN NewHandler("over") ELSE handler[s][h]]
           takenOver == owner # 0 /\ handler[s][owner].phase = "takeover" /\ session[s] = "open"
           hs == [answered EXCEPT ![owner] = handler[s][owner]]
<1>0. /\ Typed /\ Adm!IInv /\ Shape(session[s], generation[s], handler[s], proc[s])
      /\ handler[s] \in [Get -> Handler] /\ proc[s] \in [Get -> Process]
      /\ generation[s] \in 0 .. MaxGets
      /\ Awaits(session[s], generation[s], handler[s], proc[s], awaited[s])
  BY SlotFacts DEF IInv, SessionOK
<1>1. g \in Get /\ proc[s][g].state \notin {"none", "exited"}
  BY DEF Alive
<1>2. /\ ps2 \in [Get -> Process] /\ ps2[g] = p2 /\ \A h \in Get \ {g} : ps2[h] = proc[s][h]
  BY <1>0, <1>1
<1>3. awaited' = [awaited EXCEPT ![s] = @ \ done]
  BY DEF Settle
<1>4. \/ /\ done = {} /\ takenOver /\ Proceed(s, owner, ps2, hs) /\ UNCHANGED stuck
      \/ /\ proc' = [proc EXCEPT ![s] = ps2] /\ vod' = vod
         /\ Alive(ps2) = {} => handler' = [handler EXCEPT ![s] = answered]
         /\ \/ done = {} /\ (Alive(ps2) = {} => ~takenOver) /\ UNCHANGED <<admissionVars, stuck>>
            \/ done # {} /\ (Alive(ps2) = {} => ReleasePlaybackLease(s) /\ UNCHANGED stuck)
  BY DEF Settle
<1> HIDE DEF ps2
<1>5. Alive(ps2) = {}
  BY <1>0, <1>1, <1>2 DEF Shape, Alive
<1>6. done = awaited[s] /\ awaited' \in AwaitedType /\ awaited'[s] = {}
      /\ \A t \in Session \ {s} : awaited'[t] = awaited[t]
  BY <1>0, <1>3, <1>5 DEF Typed, AwaitedType
<1> HIDE DEF done
<1>7. /\ answered \in [Get -> Handler]
      /\ \A h \in Get : answered[h] = IF handler[s][h].phase = "takeover"
                                      THEN NewHandler("over") ELSE handler[s][h]
  BY <1>0, ProcessFacts
<1> HIDE DEF answered
<1>8. ASSUME NEW h \in Get
      PROVE  /\ Quiet(handler[s][h], proc[s][h], handler[s][h], ps2[h])
             /\ Quiet(handler[s][h], proc[s][h], answered[h], ps2[h])
  <2>1. CASE h = g
    BY <1>0, <1>1, <1>2, <1>7, <2>1, ProcessFacts DEF Quiet, Shape
  <2>2. CASE h # g
    BY <1>0, <1>2, <1>7, <2>2, ProcessFacts DEF Quiet, Shape
  <2> QED BY <2>1, <2>2
<1>9. CASE done = {} /\ takenOver /\ Proceed(s, owner, ps2, hs) /\ UNCHANGED stuck
  <2>1. owner \in Get
    BY <1>0, <1>9 DEF Get
  <2>2. /\ hs \in [Get -> Handler] /\ hs[owner] = handler[s][owner]
        /\ \A h \in Get \ {owner} : hs[h] = answered[h]
    BY <1>0, <1>7, <2>1
  <2> HIDE DEF hs
  <2>3. QuietSlots(handler[s], proc[s], hs, ps2)
    BY <1>8, <2>1, <2>2 DEF QuietSlots
  <2>4. Shape("open", owner, hs, ps2)
    BY <1>0, <1>9, <2>3, QuietShape
  <2>5. ~hs[owner].retry /\ handler[s][owner].phase = "takeover" /\ session[s] = "open"
    BY <1>0, <1>9, <2>1, <2>2 DEF Shape
  <2>6. /\ vod' \in [Session -> 0 .. MaxGets] /\ Adm!IInv' /\ \A t \in Session \ {s} : Steady(t)
        /\ \/ /\ handler' = [handler EXCEPT ![s] = [hs EXCEPT ![owner] = NewHandler("over")]]
              /\ proc' = [proc EXCEPT ![s] = ps2]
              /\ \/ lease'[s].state = "free" /\ ~lease'[s].consumed /\ s \notin Adm!Waiting(queue')
                 \/ Steady(s) /\ ~lease'[s].consumed
           \/ \E r3 \in Handler, p3 \in Process :
                /\ r3.phase = "hijacked" /\ ~r3.retry /\ p3.state \in {"waiting", "unspawned"}
                /\ handler' = [handler EXCEPT ![s] = [hs EXCEPT ![owner] = r3]]
                /\ proc' = [proc EXCEPT ![s] = [ps2 EXCEPT ![owner] = p3]]
                /\ lease'[s].state # "free" /\ lease'[s].consumed /\ s \notin Adm!Waiting(queue')
    <3> HIDE DEF owner
    <3> QED BY <1>0, <1>2, <1>9, <2>1, <2>2, <2>5, ProceedEffect
  <2>7. CASE /\ handler' = [handler EXCEPT ![s] = [hs EXCEPT ![owner] = NewHandler("over")]]
             /\ proc' = [proc EXCEPT ![s] = ps2]
             /\ \/ lease'[s].state = "free" /\ ~lease'[s].consumed /\ s \notin Adm!Waiting(queue')
                \/ Steady(s) /\ ~lease'[s].consumed
    <3> DEFINE hs2 == [hs EXCEPT ![owner] = NewHandler("over")]
    <3>1. /\ hs2 \in [Get -> Handler] /\ hs2[owner] = NewHandler("over")
          /\ \A h \in Get \ {owner} : hs2[h] = answered[h]
      BY <2>1, <2>2, ProcessFacts
    <3>2. handler' = [handler EXCEPT ![s] = hs2]
      BY <2>7
    <3> HIDE DEF hs2
    <3>3. answered[owner] = NewHandler("over")
      BY <1>7, <2>1, <2>5
    <3>4. \A h \in Get : Quiet(handler[s][h], proc[s][h], hs2[h], ps2[h])
      BY <1>8, <3>1, <3>3
    <3>5. \A h \in Get : h = generation[s] => hs2[h].phase # "hijacked"
      BY <3>1, ProcessFacts
    <3>6. UNCHANGED <<session, generation, stuck, overdue>>
      BY <1>9
    <3> HIDE DEF owner
    <3> QED BY <1>2, <1>5, <1>6, <2>6, <2>7, <3>1, <3>2, <3>4, <3>5, <3>6, QuietStep
  <2>8. CASE \E r3 \in Handler, p3 \in Process :
                /\ r3.phase = "hijacked" /\ ~r3.retry /\ p3.state \in {"waiting", "unspawned"}
                /\ handler' = [handler EXCEPT ![s] = [hs EXCEPT ![owner] = r3]]
                /\ proc' = [proc EXCEPT ![s] = [ps2 EXCEPT ![owner] = p3]]
                /\ lease'[s].state # "free" /\ lease'[s].consumed /\ s \notin Adm!Waiting(queue')
    <3>1. PICK r3 \in Handler, p3 \in Process :
                /\ r3.phase = "hijacked" /\ ~r3.retry /\ p3.state \in {"waiting", "unspawned"}
                /\ handler' = [handler EXCEPT ![s] = [hs EXCEPT ![owner] = r3]]
                /\ proc' = [proc EXCEPT ![s] = [ps2 EXCEPT ![owner] = p3]]
                /\ lease'[s].state # "free" /\ lease'[s].consumed /\ s \notin Adm!Waiting(queue')
      BY <2>8
    <3> DEFINE hs2 == [hs EXCEPT ![owner] = r3]
               ps3 == [ps2 EXCEPT ![owner] = p3]
    <3>2. /\ hs2 \in [Get -> Handler] /\ hs2[owner] = r3 /\ \A h \in Get \ {owner} : hs2[h] = hs[h]
          /\ ps3 \in [Get -> Process] /\ ps3[owner] = p3 /\ \A h \in Get \ {owner} : ps3[h] = ps2[h]
      BY <1>2, <2>1, <2>2
    <3>3. handler' = [handler EXCEPT ![s] = hs2] /\ proc' = [proc EXCEPT ![s] = ps3]
      BY <3>1
    <3> HIDE DEF hs2, ps3
    <3>4. SpawnsFrom(owner, hs, ps2, hs2, ps3)
      BY <1>5, <2>4, <3>1, <3>2 DEF SpawnsFrom
    <3>5. generation' = [generation EXCEPT ![s] = owner] /\ UNCHANGED <<session, stuck, overdue>>
      BY <1>0, <1>9 DEF Typed
    <3>6. /\ \A t \in Session \ {s} : Steady(t) /\ awaited'[t] = awaited[t]
          /\ vod' \in [Session -> 0 .. MaxGets] /\ Adm!IInv'
          /\ lease'[s].state # "free" \/ (overdue[s] /\ lease[s].state = "free")
      BY <1>6, <2>6, <3>1
    <3> HIDE DEF owner
    <3> QED BY <1>6, <2>1, <2>5, <3>1, <3>2, <3>3, <3>4, <3>5, <3>6, SpawnStep
  <2> QED BY <2>6, <2>7, <2>8
<1>10. CASE /\ proc' = [proc EXCEPT ![s] = ps2] /\ vod' = vod
            /\ Alive(ps2) = {} => handler' = [handler EXCEPT ![s] = answered]
            /\ \/ done = {} /\ (Alive(ps2) = {} => ~takenOver) /\ UNCHANGED <<admissionVars, stuck>>
               \/ done # {} /\ (Alive(ps2) = {} => ReleasePlaybackLease(s) /\ UNCHANGED stuck)
  <2>1. /\ handler' = [handler EXCEPT ![s] = answered] /\ proc' = [proc EXCEPT ![s] = ps2]
        /\ vod' \in [Session -> 0 .. MaxGets] /\ UNCHANGED <<session, generation, stuck, overdue>>
    BY <1>0, <1>5, <1>10 DEF Typed
  <2>2. CASE done = {} /\ ~takenOver /\ UNCHANGED admissionVars
    <3>1. Adm!IInv' /\ \A t \in Session : Steady(t)
      BY <1>0, <2>2, UnchangedEffect
    <3>2. ASSUME Held(session[s], generation[s], handler[s], proc[s])
          PROVE  Held(session[s], generation[s], answered, ps2)
      <4>1. PICK h \in Get :
              /\ session[s] = "open" /\ h = generation[s]
              /\ \/ handler[s][h].phase = "takeover"
                 \/ handler[s][h].phase = "hijacked" /\ (proc[s][h].state # "none" \/ handler[s][h].retry)
        BY <3>2 DEF Held
      <4>2. handler[s][h].phase # "takeover"
        <5>1. h # 0
          BY DEF Get
        <5> QED BY <2>2, <4>1, <5>1
      <4>3. answered[h] = handler[s][h] /\ handler[s][h].phase = "hijacked"
        BY <1>7, <4>1, <4>2
      <4>4. h = g => ps2[h].state # "none"
        BY <1>0, <1>2, <4>3 DEF Shape
      <4> QED BY <1>2, <4>1, <4>2, <4>3, <4>4 DEF Held
    <3> QED BY <1>2, <1>5, <1>6, <1>7, <1>8, <2>1, <2>2, <3>1, <3>2, QuietStep
  <2>3. CASE done # {} /\ ReleasePlaybackLease(s)
    <3>1. session[s] = "open" => \A h \in Get : h = generation[s] => answered[h].phase # "hijacked"
      BY <1>0, <1>6, <1>7, <2>3, ProcessFacts DEF Awaits
    <3>2. /\ Adm!IInv' /\ \A t \in Session \ {s} : Steady(t)
          /\ lease'[s].state = "free" /\ ~lease'[s].consumed /\ s \notin Adm!Waiting(queue')
      BY <1>0, <2>3, ReleaseEffect
    <3> QED BY <1>2, <1>5, <1>6, <1>7, <1>8, <2>1, <3>1, <3>2, QuietStep
  <2> QED BY <1>5, <1>10, <2>2, <2>3
<1> QED BY <1>4, <1>9, <1>10

LEMMA ExitStep ==
  ASSUME IInv, NEW s \in Session, NEW g \in Get, Exit(s, g) \/ CloseUnspawned(s, g)
  PROVE  StepOf(s)
<1>1. CASE Exit(s, g)
  <2> DEFINE p2 == [state |-> "exited", killed |-> FALSE]
  <2>1. p2 \in Process /\ p2.state = "exited"
    BY DEF Process
  <2>2. g \in Alive(proc[s])
    BY <1>1 DEF Exit, Running, Alive
  <2>3. Settle(s, [proc[s] EXCEPT ![g] = p2]) /\ UNCHANGED <<session, generation, overdue>>
    BY <1>1 DEF Exit
  <2> HIDE DEF p2
  <2> QED BY <2>1, <2>2, <2>3, SettleStep
<1>2. CASE CloseUnspawned(s, g)
  <2>1. g \in Alive(proc[s]) /\ proc[s][g].state = "erred"
    BY <1>2 DEF CloseUnspawned, Alive
  <2>2. Settle(s, [proc[s] EXCEPT ![g] = NoProcess]) /\ UNCHANGED <<session, generation, overdue>>
    BY <1>2 DEF CloseUnspawned
  <2> QED BY <2>1, <2>2, ProcessFacts, SettleStep
<1> QED BY <1>1, <1>2

(***************************************************************************)
(* Sessions open and close, and waits run out.                             *)
(***************************************************************************)

LEMMA StartStep ==
  ASSUME IInv, NEW s \in Session, Start(s)
  PROVE  StepOf(s)
<1>0. /\ Typed /\ Adm!IInv /\ Shape(session[s], generation[s], handler[s], proc[s])
      /\ Awaits(session[s], generation[s], handler[s], proc[s], awaited[s])
      /\ Covered(session[s], generation[s], handler[s], proc[s], awaited[s], stuck[s], overdue[s],
                 lease[s], s \in Adm!Waiting(queue))
  BY DEF IInv, SessionOK
<1>1. /\ session[s] = "none" /\ session' = [session EXCEPT ![s] = "open"] /\ Admission!Acquire(s)
      /\ UNCHANGED <<generation, vod, handler, proc, awaited, stuck, overdue>>
  BY DEF Start
<1>2. generation[s] = 0
  BY <1>0, <1>1 DEF Shape
<1>3. \A g \in Get : g > 0 /\ g # 0
  BY DEF Get
<1>4. \A g \in Get : handler[s][g] = NewHandler("none") /\ proc[s][g] = NoProcess
  BY <1>0, <1>2, <1>3 DEF Shape
<1>5. \A g \in Get : /\ proc[s][g].state = "none"
                     /\ handler[s][g].phase = "none" /\ ~handler[s][g].retry
  BY <1>4, ProcessFacts
<1>6. Alive(proc[s]) = {} /\ Running(proc[s]) = {}
  BY <1>5 DEF Alive, Running
<1>7. awaited[s] = {}
  BY <1>0, <1>6 DEF Awaits
<1>8. /\ Adm!IInv' /\ \A t \in Session \ {s} : Steady(t)
      /\ lease[s].state # "free" => lease'[s].state # "free"
      /\ lease'[s].consumed <=> lease[s].consumed
  BY <1>0, <1>1, AcquireEffect
<1>9. session'[s] = "open" /\ session' \in [Session -> {"none", "open", "closed"}]
      /\ \A t \in Session \ {s} : session'[t] = session[t]
  BY <1>0, <1>1 DEF Typed
<1>10. Typed'
  BY <1>0, <1>1, <1>9 DEF Typed
<1>11. OthersKept(s)
  BY <1>1, <1>9 DEF OthersKept
<1>12. Shape("open", generation[s], handler[s], proc[s])
  BY <1>2, <1>3, <1>4, <1>5, <1>6 DEF Shape
<1>13. Awaits("open", generation[s], handler[s], proc[s], awaited[s])
  BY <1>7 DEF Awaits
<1>14. ~Held("none", generation[s], handler[s], proc[s])
  BY DEF Held
<1>15. Covered("open", generation[s], handler[s], proc[s], awaited[s], stuck[s], overdue[s],
               lease'[s], s \in Adm!Waiting(queue'))
  BY <1>0, <1>1, <1>5, <1>6, <1>7, <1>8, <1>14 DEF Covered
<1>16. SessionOK(s)'
  BY <1>1, <1>9, <1>12, <1>13, <1>15 DEF SessionOK
<1>17. ReleasedAfterExit(s)
  BY <1>8 DEF ReleasedAfterExit
<1>18. SpawnedByOwner(s)
  BY <1>1 DEF SpawnedByOwner
<1> QED BY <1>8, <1>10, <1>11, <1>16, <1>17, <1>18 DEF StepOf

LEMMA TerminateStep ==
  ASSUME IInv, NEW s \in Session, Terminate(s)
  PROVE  StepOf(s)
<1> DEFINE ps2 == TornDown(proc[s])
           alive == Alive(proc[s])
<1>0. /\ Typed /\ Adm!IInv /\ Shape(session[s], generation[s], handler[s], proc[s])
      /\ Awaits(session[s], generation[s], handler[s], proc[s], awaited[s])
      /\ Covered(session[s], generation[s], handler[s], proc[s], awaited[s], stuck[s], overdue[s],
                 lease[s], s \in Adm!Waiting(queue))
      /\ generation[s] \in 0 .. MaxGets /\ proc[s] \in [Get -> Process]
  BY SlotFacts DEF IInv, SessionOK
<1>1. /\ session[s] = "open" /\ session' = [session EXCEPT ![s] = "closed"]
      /\ proc' = [proc EXCEPT ![s] = ps2] /\ vod' = [vod EXCEPT ![s] = 0]
      /\ ReleaseAfterExit(s, alive) /\ UNCHANGED <<generation, handler, stuck, overdue>>
  BY DEF Terminate
<1>2. /\ Shape("closed", generation[s], handler[s], ps2) /\ ps2 \in [Get -> Process]
      /\ Alive(ps2) = alive /\ Running(ps2) = Running(proc[s])
      /\ \A g \in Get : ps2[g].state # "none" <=> proc[s][g].state # "none"
  BY <1>0, <1>1, TornDownShape
<1> HIDE DEF ps2
<1>3. Running(ps2) \subseteq alive /\ alive \in SUBSET Get
  BY <1>2 DEF Running, Alive
<1> HIDE DEF alive
<1>4. /\ Adm!IInv' /\ \A t \in Session \ {s} : Steady(t) /\ awaited'[t] = awaited[t]
      /\ awaited' \in AwaitedType
      /\ \/ /\ alive = {} /\ awaited'[s] = awaited[s]
            /\ lease'[s].state = "free" /\ ~lease'[s].consumed /\ s \notin Adm!Waiting(queue')
         \/ alive # {} /\ Steady(s) /\ awaited'[s] = awaited[s] \cup {alive}
  BY <1>0, <1>1, <1>3, ReleaseAfterExitEffect DEF AwaitedType
<1>5. /\ session'[s] = "closed" /\ proc'[s] = ps2 /\ generation' = generation
      /\ handler' = handler /\ stuck' = stuck /\ overdue' = overdue
  BY <1>0, <1>1 DEF Typed
<1>6. Typed'
  <2>1. session' \in [Session -> {"none", "open", "closed"}] /\ proc' \in [Session -> [Get -> Process]]
    BY <1>0, <1>1, <1>2 DEF Typed
  <2>2. vod' \in [Session -> 0 .. MaxGets]
    BY <1>0, <1>1, SlotFacts
  <2> QED BY <1>0, <1>4, <1>5, <2>1, <2>2 DEF Typed, AwaitedType
<1>7. OthersKept(s)
  BY <1>0, <1>1, <1>4, <1>5 DEF OthersKept, Typed
<1>8. Awaits("closed", generation[s], handler[s], ps2, awaited'[s])
  <2>1. ASSUME NEW a \in awaited'[s] PROVE a \cap Alive(ps2) # {}
    <3>1. CASE a \in awaited[s]
      BY <1>0, <1>2, <3>1 DEF Awaits, alive
    <3>2. CASE a = alive /\ alive # {}
      BY <1>2, <3>2
    <3> QED BY <1>4, <2>1, <3>1, <3>2
  <2> QED BY <2>1 DEF Awaits
<1>9. Covered("closed", generation[s], handler[s], ps2, awaited'[s], stuck[s], overdue[s],
              lease'[s], s \in Adm!Waiting(queue'))
  <2>1. CASE /\ alive = {}
             /\ lease'[s].state = "free" /\ ~lease'[s].consumed /\ s \notin Adm!Waiting(queue')
    BY <1>0, <1>3, <2>1 DEF Covered
  <2>2. CASE Steady(s) /\ awaited'[s] # {}
    BY <1>0, <1>2, <2>2 DEF Covered, Steady
  <2> QED BY <1>4, <2>1, <2>2
<1>10. SessionOK(s)'
  BY <1>2, <1>5, <1>8, <1>9 DEF SessionOK
<1>11. ReleasedAfterExit(s)
  BY <1>3, <1>4, <1>5 DEF ReleasedAfterExit, Steady
<1>12. SpawnedByOwner(s)
  BY <1>2, <1>5 DEF SpawnedByOwner, Alive, alive
<1> QED BY <1>4, <1>6, <1>7, <1>10, <1>11, <1>12 DEF StepOf

LEMMA ReleaseWaitExpiresStep ==
  ASSUME IInv, NEW s \in Session, ReleaseWaitExpires(s)
  PROVE  StepOf(s)
<1>0. /\ Typed /\ Adm!IInv /\ Shape(session[s], generation[s], handler[s], proc[s])
      /\ Awaits(session[s], generation[s], handler[s], proc[s], awaited[s])
      /\ Covered(session[s], generation[s], handler[s], proc[s], awaited[s], stuck[s], overdue[s],
                 lease[s], s \in Adm!Waiting(queue))
  BY DEF IInv, SessionOK
<1>1. PICK a \in awaited[s] : awaited' = [awaited EXCEPT ![s] = @ \ {a}]
  BY DEF ReleaseWaitExpires
<1>2. /\ MarkTerminating(s, TRUE) /\ stuck' = [stuck EXCEPT ![s] = TRUE]
      /\ overdue' = [overdue EXCEPT ![s] = TRUE]
      /\ UNCHANGED <<session, generation, vod, handler, proc>>
  BY DEF ReleaseWaitExpires
<1>3. Adm!IInv' /\ \A t \in Session : Steady(t)
  BY <1>0, <1>2, MarkEffect
<1>4. /\ awaited'[s] = awaited[s] \ {a} /\ awaited' \in AwaitedType /\ stuck'[s] = TRUE /\ overdue'[s] = TRUE
      /\ \A t \in Session \ {s} :
           awaited'[t] = awaited[t] /\ stuck'[t] = stuck[t] /\ overdue'[t] = overdue[t]
  BY <1>0, <1>1, <1>2 DEF Typed, AwaitedType
<1>5. Typed'
  BY <1>0, <1>2, <1>4 DEF Typed, AwaitedType
<1>6. OthersKept(s)
  BY <1>2, <1>4 DEF OthersKept
<1>7. Awaits(session[s], generation[s], handler[s], proc[s], awaited'[s])
  BY <1>0, <1>4 DEF Awaits
<1>8. Covered(session[s], generation[s], handler[s], proc[s], awaited'[s], TRUE, TRUE,
              lease'[s], s \in Adm!Waiting(queue'))
  BY <1>0, <1>3 DEF Covered, Steady
<1>9. SessionOK(s)'
  BY <1>0, <1>2, <1>4, <1>7, <1>8 DEF SessionOK
<1>10. ReleasedAfterExit(s) /\ SpawnedByOwner(s)
  BY <1>2, <1>3 DEF ReleasedAfterExit, SpawnedByOwner, Steady
<1> QED BY <1>3, <1>5, <1>6, <1>9, <1>10 DEF StepOf

LEMMA TakeoverExpiresStep ==
  ASSUME IInv, NEW s \in Session, NEW g \in Get, TakeoverExpires(s, g)
  PROVE  StepOf(s)
<1> DEFINE hs2 == [handler[s] EXCEPT ![g] = NewHandler("over")]
<1>0. /\ Typed /\ Adm!IInv /\ Shape(session[s], generation[s], handler[s], proc[s])
      /\ Awaits(session[s], generation[s], handler[s], proc[s], awaited[s])
      /\ Covered(session[s], generation[s], handler[s], proc[s], awaited[s], stuck[s], overdue[s],
                 lease[s], s \in Adm!Waiting(queue))
      /\ handler[s] \in [Get -> Handler]
  BY SlotFacts DEF IInv, SessionOK
<1>1. /\ handler[s][g].phase = "takeover" /\ overdue' = [overdue EXCEPT ![s] = TRUE]
      /\ handler' = [handler EXCEPT ![s] = hs2]
      /\ UNCHANGED <<admissionVars, session, generation, vod, proc, awaited, stuck>>
  BY DEF TakeoverExpires
<1>2. hs2 \in [Get -> Handler] /\ hs2[g] = NewHandler("over") /\ \A h \in Get \ {g} : hs2[h] = handler[s][h]
  BY <1>0, ProcessFacts
<1> HIDE DEF hs2
<1>3. ASSUME NEW h \in Get PROVE Quiet(handler[s][h], proc[s][h], hs2[h], proc[s][h])
  <2>1. CASE h = g
    BY <1>1, <1>2, <2>1, ProcessFacts DEF Quiet
  <2>2. CASE h # g
    BY <1>0, <1>2, <2>2 DEF Quiet, Shape
  <2> QED BY <2>1, <2>2
<1>4. QuietSlots(handler[s], proc[s], hs2, proc[s])
  BY <1>3 DEF QuietSlots
<1>5. Shape(session[s], generation[s], hs2, proc[s])
  BY <1>0, <1>4, QuietShape
<1>6. \A h \in Get : hs2[h].phase = "hijacked" => handler[s][h].phase = "hijacked"
  BY <1>3 DEF Quiet
<1>7. Awaits(session[s], generation[s], hs2, proc[s], awaited[s])
  BY <1>0, <1>6 DEF Awaits
<1>8. Adm!IInv' /\ \A t \in Session : Steady(t)
  BY <1>0, <1>1, UnchangedEffect
<1>9. Covered(session[s], generation[s], hs2, proc[s], awaited[s], stuck[s], TRUE,
              lease'[s], s \in Adm!Waiting(queue'))
  BY <1>0, <1>6, <1>8 DEF Covered, Steady
<1>10. handler'[s] = hs2 /\ overdue'[s] = TRUE /\ handler' \in [Session -> [Get -> Handler]]
       /\ overdue' \in [Session -> BOOLEAN]
       /\ \A t \in Session \ {s} : handler'[t] = handler[t] /\ overdue'[t] = overdue[t]
  BY <1>0, <1>1, <1>2 DEF Typed
<1>11. Typed'
  BY <1>0, <1>1, <1>10 DEF Typed
<1>12. OthersKept(s)
  BY <1>1, <1>10 DEF OthersKept
<1>13. SessionOK(s)'
  BY <1>1, <1>5, <1>7, <1>9, <1>10 DEF SessionOK
<1>14. ReleasedAfterExit(s) /\ SpawnedByOwner(s)
  BY <1>1, <1>8 DEF ReleasedAfterExit, SpawnedByOwner, Steady
<1> QED BY <1>8, <1>11, <1>12, <1>13, <1>14 DEF StepOf

(***************************************************************************)
(* The sweep.                                                              *)
(***************************************************************************)

Idle == {s \in Session : Alive(proc[s]) = {}}

\* Whose lease the sweep gives back, and what it makes of the leases.
Freed(expired, aged) == aged \cup (Idle \cap (expired \cup {s \in Session : stuck[s]}))

SweptLeases(expired, aged) ==
  [s \in Session |->
     IF s \in Freed(expired, aged) THEN Adm!NoLease
     ELSE IF s \in (expired \ Idle) \cap Adm!Leased(lease)
     THEN [lease[s] EXCEPT !.state = "terminating"] ELSE lease[s]]

SweptProcesses(s, expired) ==
  IF s \in expired THEN TornDown(proc[s])
  ELSE IF session[s] = "open" THEN KillThose(proc[s], Get \ {vod[s]}) ELSE proc[s]

\* A sweep that finds the sessions of `expired' past their time and the
\* reservations of `aged' too old.
SweepOf(expired, aged) ==
  /\ session' = [s \in Session |-> IF s \in expired THEN "closed" ELSE session[s]]
  /\ proc' = [s \in Session |-> SweptProcesses(s, expired)]
  /\ vod' = [s \in Session |-> IF s \in expired THEN 0 ELSE vod[s]]
  /\ awaited' = [s \in Session |->
       IF s \in expired \ Idle THEN awaited[s] \cup {Alive(proc[s])} ELSE awaited[s]]
  /\ stuck' = [s \in Session |-> stuck[s] /\ s \notin Idle]
  /\ lease' = Adm!PromotedLeases(SweptLeases(expired, aged), Without(queue, expired), Adm!EffectiveLimit)
  /\ queue' = Adm!RestOfQueue(SweptLeases(expired, aged), Without(queue, expired), Adm!EffectiveLimit)
  /\ Adm!RestoreCapacityIfElapsed
  /\ UNCHANGED <<Adm!limitVars, generation, handler, overdue>>

LEMMA SweepIsSweepOf ==
  ASSUME Sweep
  PROVE  \E expired \in SUBSET {s \in Session : session[s] = "open"} :
         \E aged \in SUBSET {s \in Session : ~lease[s].consumed} : SweepOf(expired, aged)
<1>1. PICK expired \in SUBSET {s \in Session : session[s] = "open"}, aged \in SUBSET Session :
    /\ aged \subseteq Admission!Unconsumed(lease) \ expired
    /\ LET idle == {s \in Session : Alive(proc[s]) = {}}
           freed == aged \cup (idle \cap (expired \cup {s \in Session : stuck[s]}))
           closing == expired \ idle
       IN /\ session' = [s \in Session |-> IF s \in expired THEN "closed" ELSE session[s]]
          /\ proc' = [s \in Session |->
               IF s \in expired THEN TornDown(proc[s])
               ELSE IF session[s] = "open" THEN KillThose(proc[s], Get \ {vod[s]}) ELSE proc[s]]
          /\ vod' = [s \in Session |-> IF s \in expired THEN 0 ELSE vod[s]]
          /\ awaited' = [s \in Session |->
               IF s \in closing THEN awaited[s] \cup {Alive(proc[s])} ELSE awaited[s]]
          /\ stuck' = [s \in Session |-> stuck[s] /\ s \notin idle]
          /\ Admission!Promote(
               [s \in Session |->
                  IF s \in freed THEN Admission!NoLease
                  ELSE IF s \in closing \cap Leased
                  THEN [lease[s] EXCEPT !.state = "terminating"] ELSE lease[s]],
               Without(queue, expired))
          /\ UNCHANGED <<limitVars, generation, handler, overdue>>
  BY DEF Sweep, Admission!Unconsumed, Admission!Leased
<1>2. aged \in SUBSET {s \in Session : ~lease[s].consumed}
  BY <1>1 DEF Admission!Unconsumed, Admission!Leased
<1>3. Admission!Promote(SweptLeases(expired, aged), Without(queue, expired))
  <2>1. Leased = Adm!Leased(lease) /\ Admission!NoLease = Adm!NoLease
    BY SameLeases DEF Leased
  <2> QED BY <1>1, <2>1, Zenon DEF SweptLeases, Freed, Idle
<1>4. /\ lease' = Adm!PromotedLeases(SweptLeases(expired, aged), Without(queue, expired), Adm!EffectiveLimit)
      /\ queue' = Adm!RestOfQueue(SweptLeases(expired, aged), Without(queue, expired), Adm!EffectiveLimit)
      /\ Adm!RestoreCapacityIfElapsed
  BY <1>3, SameLeases, Zenon DEF Admission!Promote
<1>5. UNCHANGED <<Adm!limitVars, generation, handler, overdue>>
  BY <1>1 DEF limitVars, Adm!limitVars
<1>6. SweepOf(expired, aged)
  BY <1>1, <1>4, <1>5, Zenon DEF SweepOf, SweptProcesses, Idle
<1> QED BY <1>2, <1>6

\* What the sweep does to the leases.
LEMMA SweepLeases ==
  ASSUME IInv, NEW expired, NEW aged, SweepOf(expired, aged)
  PROVE  /\ Adm!IInv'
         /\ \A t \in Session :
              /\ t \notin Freed(expired, aged) => Steady(t)
              /\ t \in Freed(expired, aged) => ~lease'[t].consumed
              /\ t \notin Adm!Waiting(queue) =>
                   /\ t \notin Adm!Waiting(queue')
                   /\ t \in Freed(expired, aged) => lease'[t].state = "free"
<1> DEFINE l == SweptLeases(expired, aged)
           q == Without(queue, expired)
           freed == Freed(expired, aged)
<1>0. /\ Adm!IInv /\ Adm!Disciplined(lease, queue) /\ \A t \in Session : Adm!Agrees(lease[t])
      /\ lease \in [Session -> Adm!Lease] /\ Adm!EffectiveLimit \in Nat
  BY LeaseFacts DEF IInv
<1>1. ASSUME NEW t \in Session
      PROVE  /\ l[t] \in Adm!Lease /\ Adm!Agrees(l[t])
             /\ t \in freed => l[t].state = "free" /\ ~l[t].consumed
             /\ t \notin freed => /\ l[t].state # "free" <=> lease[t].state # "free"
                                  /\ l[t].consumed <=> lease[t].consumed
  <2>1. l[t] = IF t \in freed THEN Adm!NoLease
               ELSE IF t \in (expired \ Idle) \cap Adm!Leased(lease)
               THEN [lease[t] EXCEPT !.state = "terminating"] ELSE lease[t]
    BY DEF SweptLeases
  <2>2. lease[t] \in Adm!Lease /\ Adm!Agrees(lease[t])
    BY <1>0
  <2> HIDE DEF l, freed
  <2>3. CASE t \in freed
    <3>1. l[t] = Adm!NoLease
      BY <2>1, <2>3
    <3>2. ~Adm!NoLease.consumed
      BY DEF Adm!NoLease
    <3>3. Adm!NoLease \in Adm!Lease /\ Adm!NoLease.state = "free" /\ Adm!Agrees(Adm!NoLease)
      BY Adm!NoLeaseFacts, AdmissionAssumptions
    <3> QED BY <2>3, <3>1, <3>2, <3>3
  <2>4. CASE t \notin freed /\ t \in (expired \ Idle) \cap Adm!Leased(lease)
    <3>1. l[t] = [lease[t] EXCEPT !.state = "terminating"] /\ lease[t].state # "free"
      BY <2>1, <2>4 DEF Adm!Leased
    <3>2. /\ l[t] \in Adm!Lease /\ l[t].state = "terminating"
          /\ l[t].consumed = lease[t].consumed /\ l[t].firstByte = lease[t].firstByte
      BY <2>2, <3>1 DEF Adm!Lease, Adm!LeaseState
    <3> QED BY <2>2, <2>4, <3>1, <3>2 DEF Adm!Agrees
  <2>5. CASE t \notin freed /\ t \notin (expired \ Idle) \cap Adm!Leased(lease)
    BY <2>1, <2>2, <2>5
  <2> QED BY <2>3, <2>4, <2>5
<1>2. l \in [Session -> Adm!Lease]
  <2>1. l = [t \in Session |-> l[t]]
    BY DEF SweptLeases
  <2> HIDE DEF l
  <2> QED BY <1>1, <2>1
<1>3. Adm!Disciplined(lease, q) /\ Adm!Waiting(q) \subseteq Adm!Waiting(queue) \ expired
  BY <1>0, WithoutKeepsDiscipline
<1>4. /\ lease' = Adm!PromotedLeases(l, q, Adm!EffectiveLimit)
      /\ queue' = Adm!RestOfQueue(l, q, Adm!EffectiveLimit)
      /\ Adm!RestoreCapacityIfElapsed /\ UNCHANGED Adm!limitVars
  BY DEF SweepOf
<1> HIDE DEF l, q, freed
<1>5. Adm!Disciplined(l, q)
  <2>1. \A i \in 1 .. Len(q) : q[i].session \in Session /\ lease[q[i].session].state = "free"
    BY <1>3, Adm!QueueElement, AdmissionAssumptions DEF Adm!Disciplined
  <2>2. \A i \in 1 .. Len(q) : l[q[i].session].state = "free"
    BY <1>1, <2>1
  <2> QED BY <1>2, <1>3, <2>2, Adm!LeasesKeepDiscipline, AdmissionAssumptions
<1>6. /\ Adm!Disciplined(lease', queue') /\ \A t \in Session : Adm!Agrees(lease'[t])
      /\ Adm!Waiting(queue') \subseteq Adm!Waiting(q)
      /\ \A t \in Session :
           /\ l[t].state # "free" \/ t \notin Adm!Waiting(q) => lease'[t] = l[t]
           /\ lease'[t].consumed <=> l[t].consumed
  BY <1>0, <1>1, <1>4, <1>5, PromotionFacts
<1>7. Adm!IInv'
  BY <1>0, <1>4, <1>6, Adm!RestoreKeepsSettings, AdmissionAssumptions
<1>8. ASSUME NEW t \in Session
      PROVE  /\ t \notin freed => Steady(t)
             /\ t \in freed => ~lease'[t].consumed
             /\ t \notin Adm!Waiting(queue) =>
                  /\ t \notin Adm!Waiting(queue')
                  /\ t \in freed => lease'[t].state = "free"
  BY <1>1, <1>3, <1>6 DEF Steady
<1> QED BY <1>7, <1>8 DEF freed

\* What it does to the processes of one session.
LEMMA SweepProcesses ==
  ASSUME IInv, NEW s \in Session, NEW expired, s \in expired => session[s] = "open"
  PROVE  LET ps2 == SweptProcesses(s, expired)
         IN /\ ps2 \in [Get -> Process]
            /\ Shape(IF s \in expired THEN "closed" ELSE session[s], generation[s], handler[s], ps2)
            /\ Alive(ps2) = Alive(proc[s]) /\ Running(ps2) = Running(proc[s])
            /\ \A g \in Get : ps2[g].state # "none" <=> proc[s][g].state # "none"
<1> DEFINE ps2 == SweptProcesses(s, expired)
           k == KillThose(proc[s], Get \ {vod[s]})
<1>0. /\ Shape(session[s], generation[s], handler[s], proc[s])
      /\ generation[s] \in 0 .. MaxGets /\ proc[s] \in [Get -> Process]
  BY SlotFacts DEF IInv, SessionOK
<1>1. CASE s \in expired
  <2>1. ps2 = TornDown(proc[s]) /\ session[s] # "none"
    BY <1>1 DEF SweptProcesses
  <2> HIDE DEF ps2
  <2> QED BY <1>0, <1>1, <2>1, TornDownShape DEF ps2
<1>2. CASE s \notin expired /\ session[s] = "open"
  <2>1. ps2 = k
    BY <1>2 DEF SweptProcesses
  <2>2. /\ k \in [Get -> Process]
        /\ \A g \in Get : /\ k[g].state = proc[s][g].state
                          /\ proc[s][g].killed => k[g].killed
                          /\ proc[s][g] = NoProcess => k[g] = NoProcess
    BY <1>0, KillFacts
  <2> HIDE DEF k, ps2
  <2>3. Alive(k) = Alive(proc[s]) /\ Running(k) = Running(proc[s])
    BY <2>2 DEF Alive, Running
  <2>4. ASSUME NEW g \in Get PROVE Quiet(handler[s][g], proc[s][g], handler[s][g], k[g])
    BY <1>0, <2>2 DEF Quiet, Shape
  <2>5. QuietSlots(handler[s], proc[s], handler[s], k)
    BY <2>4 DEF QuietSlots
  <2>6. Shape(session[s], generation[s], handler[s], k)
    BY <1>0, <2>5, QuietShape
  <2> QED BY <1>2, <2>1, <2>2, <2>3, <2>6 DEF ps2
<1>3. CASE s \notin expired /\ session[s] # "open"
  <2>1. ps2 = proc[s]
    BY <1>3 DEF SweptProcesses
  <2> HIDE DEF ps2
  <2> QED BY <1>0, <1>3, <2>1 DEF ps2
<1> QED BY <1>1, <1>2, <1>3

LEMMA SweepSession ==
  ASSUME IInv, NEW s \in Session,
         NEW expired \in SUBSET {t \in Session : session[t] = "open"},
         NEW aged \in SUBSET {t \in Session : ~lease[t].consumed},
         SweepOf(expired, aged)
  PROVE  SessionOK(s)' /\ ReleasedAfterExit(s) /\ SpawnedByOwner(s)
<1> DEFINE freed == Freed(expired, aged)
           ps2 == SweptProcesses(s, expired)
           sess2 == IF s \in expired THEN "closed" ELSE session[s]
           aw2 == IF s \in expired \ Idle THEN awaited[s] \cup {Alive(proc[s])} ELSE awaited[s]
           st2 == stuck[s] /\ s \notin Idle
<1>0. /\ Shape(session[s], generation[s], handler[s], proc[s])
      /\ Awaits(session[s], generation[s], handler[s], proc[s], awaited[s])
      /\ Covered(session[s], generation[s], handler[s], proc[s], awaited[s], stuck[s], overdue[s],
                 lease[s], s \in Adm!Waiting(queue))
  BY DEF IInv, SessionOK
<1>1. /\ session'[s] = sess2 /\ proc'[s] = ps2 /\ awaited'[s] = aw2 /\ stuck'[s] = st2
      /\ generation' = generation /\ handler' = handler /\ overdue' = overdue
  BY DEF SweepOf
<1>2. s \in expired => session[s] = "open"
  OBVIOUS
<1>3. /\ Shape(sess2, generation[s], handler[s], ps2)
      /\ Alive(ps2) = Alive(proc[s]) /\ Running(ps2) = Running(proc[s])
      /\ \A g \in Get : ps2[g].state # "none" <=> proc[s][g].state # "none"
  BY <1>2, SweepProcesses
<1>4. /\ s \notin freed => Steady(s)
      /\ s \in freed => ~lease'[s].consumed
      /\ s \notin Adm!Waiting(queue) =>
           /\ s \notin Adm!Waiting(queue')
           /\ s \in freed => lease'[s].state = "free"
  BY SweepLeases
<1>5. Running(proc[s]) \subseteq Alive(proc[s])
  BY DEF Running, Alive
<1>6. s \in Idle <=> Alive(proc[s]) = {}
  BY DEF Idle
<1>7. /\ s \in freed => ~lease[s].consumed \/ (s \in Idle /\ (s \in expired \/ stuck[s]))
      /\ (s \in Idle /\ (s \in expired \/ stuck[s])) => s \in freed
  BY DEF Freed
<1>8. \A g \in Get : handler[s][g].phase = "hijacked" \/ proc[s][g].state # "none" =>
        /\ s \notin Adm!Waiting(queue) /\ s \notin Adm!Waiting(queue')
        /\ lease[s].state # "free" => lease[s].consumed
  BY <1>0, <1>4 DEF Covered
<1>9. stuck[s] => overdue[s]
  BY <1>0 DEF Covered
<1> HIDE DEF freed, ps2
<1>10. Awaits(sess2, generation[s], handler[s], ps2, aw2)
  <2>1. ASSUME NEW a \in aw2 PROVE a \cap Alive(ps2) # {}
    <3>1. CASE a \in awaited[s]
      BY <1>0, <1>3, <3>1 DEF Awaits
    <3>2. CASE a = Alive(proc[s]) /\ s \notin Idle
      BY <1>3, <1>6, <3>2
    <3> QED BY <2>1, <3>1, <3>2
  <2>2. sess2 = "open" => session[s] = "open" /\ aw2 = awaited[s]
    BY <1>2
  <2> HIDE DEF sess2, aw2
  <2> QED BY <1>0, <2>1, <2>2 DEF Awaits
<1>11. ASSUME NEW g \in Get, sess2 = "open", g = generation[s], handler[s][g].phase = "hijacked", ~overdue[s]
       PROVE  lease'[s].state # "free"
  <2>1. s \notin expired /\ session[s] = "open" /\ lease[s].state # "free"
    BY <1>0, <1>11 DEF Covered
  <2>2. s \notin freed
    BY <1>7, <1>8, <1>9, <1>11, <2>1
  <2> QED BY <1>4, <2>1, <2>2 DEF Steady
<1>12. ASSUME Running(proc[s]) # {}
       PROVE  s \notin freed \/ lease[s].state = "free"
  <2>1. PICK g \in Get : proc[s][g].state # "none"
    BY <1>12 DEF Running
  <2> QED BY <1>5, <1>6, <1>7, <1>8, <1>12, <2>1
<1>13. (Running(ps2) # {} /\ ~overdue[s]) => lease'[s].state # "free"
  <2>1. ASSUME Running(ps2) # {}, ~overdue[s] PROVE lease'[s].state # "free"
    <3>1. Running(proc[s]) # {} /\ lease[s].state # "free"
      BY <1>0, <1>3, <2>1 DEF Covered
    <3> QED BY <1>4, <1>12, <3>1 DEF Steady
  <2> QED BY <2>1
<1>14. ASSUME NEW g \in Get, handler[s][g].phase = "hijacked" \/ ps2[g].state # "none"
       PROVE  s \notin Adm!Waiting(queue') /\ (lease'[s].state # "free" => lease'[s].consumed)
  <2>1. /\ s \notin Adm!Waiting(queue) /\ s \notin Adm!Waiting(queue')
        /\ lease[s].state # "free" => lease[s].consumed
    BY <1>3, <1>8, <1>14
  <2> QED BY <1>4, <2>1 DEF Steady
<1>15. ASSUME lease'[s].consumed, ~overdue[s]
       PROVE  aw2 # {} \/ st2 \/ Held(sess2, generation[s], handler[s], ps2)
  <2>1. s \notin freed
    BY <1>4, <1>15
  <2>2. lease[s].consumed
    BY <1>4, <1>15, <2>1 DEF Steady
  <2>3. awaited[s] # {} \/ Held(session[s], generation[s], handler[s], proc[s])
    BY <1>0, <1>9, <1>15, <2>2 DEF Covered
  <2>4. CASE s \in expired
    BY <1>7, <2>1, <2>4
  <2>5. CASE s \notin expired
    <3>1. aw2 = awaited[s] /\ sess2 = session[s]
      BY <2>5
    <3> HIDE DEF aw2, sess2
    <3> QED BY <1>3, <2>3, <3>1 DEF Held
  <2> QED BY <2>4, <2>5
<1>16. Covered(sess2, generation[s], handler[s], ps2, aw2, st2, overdue[s],
               lease'[s], s \in Adm!Waiting(queue'))
  <2>1. st2 => overdue[s]
    BY <1>9
  <2> HIDE DEF sess2, aw2, st2
  <2> QED BY <1>11, <1>13, <1>14, <1>15, <2>1, Zenon DEF Covered
<1>17. SessionOK(s)'
  <2> HIDE DEF sess2, aw2, st2
  <2> QED BY <1>1, <1>3, <1>10, <1>16 DEF SessionOK
<1>18. ReleasedAfterExit(s)
  <2>1. ASSUME lease[s].state # "free", lease'[s].state = "free" PROVE Running(proc[s]) = {}
    BY <1>4, <1>12, <2>1 DEF Steady
  <2> QED BY <1>1, <1>3, <2>1 DEF ReleasedAfterExit
<1>19. SpawnedByOwner(s)
  BY <1>1, <1>3 DEF SpawnedByOwner, Alive
<1> QED BY <1>17, <1>18, <1>19

LEMMA SweepStep ==
  ASSUME IInv, Sweep
  PROVE  GoodStep
<1>1. PICK expired \in SUBSET {s \in Session : session[s] = "open"},
           aged \in SUBSET {s \in Session : ~lease[s].consumed} : SweepOf(expired, aged)
  BY SweepIsSweepOf
<1>2. Adm!IInv'
  BY <1>1, SweepLeases
<1>3. Typed'
  <2>0. Typed
    BY DEF IInv
  <2>1. session' \in [Session -> {"none", "open", "closed"}] /\ vod' \in [Session -> 0 .. MaxGets]
        /\ stuck' \in [Session -> BOOLEAN]
    BY <1>1, <2>0, BoundsAssumption DEF SweepOf, Typed
  <2>2. proc' \in [Session -> [Get -> Process]]
    <3>1. \A s \in Session : s \in expired => session[s] = "open"
      BY <1>1
    <3>2. \A s \in Session : SweptProcesses(s, expired) \in [Get -> Process]
      BY <3>1, SweepProcesses
    <3> QED BY <1>1, <3>2 DEF SweepOf
  <2>3. awaited' \in [Session -> SUBSET ((SUBSET Get) \ {{}})]
    <3>1. ASSUME NEW s \in Session
          PROVE  (IF s \in expired \ Idle THEN awaited[s] \cup {Alive(proc[s])} ELSE awaited[s])
                   \in SUBSET ((SUBSET Get) \ {{}})
      BY <2>0 DEF Typed, Idle, Alive
    <3> QED BY <1>1, <3>1 DEF SweepOf
  <2> QED BY <1>1, <2>0, <2>1, <2>2, <2>3 DEF SweepOf, Typed
<1>4. ASSUME NEW s \in Session
      PROVE  SessionOK(s)' /\ ReleasedAfterExit(s) /\ SpawnedByOwner(s)
  BY <1>1, SweepSession
<1> QED BY <1>2, <1>3, <1>4 DEF GoodStep, IInv

(***************************************************************************)
(* Every step, and the initial state.                                      *)
(***************************************************************************)

\* A step that touches neither a session nor a lease.
LEMMA KeptStep ==
  ASSUME IInv, Adm!IInv', UNCHANGED <<lease, queue>>,
         UNCHANGED <<session, generation, vod, handler, proc, awaited, stuck, overdue>>
  PROVE  GoodStep
<1>1. Typed'
  BY DEF IInv, Typed
<1>2. \A s \in Session : SessionOK(s)'
  BY DEF IInv, SessionOK
<1>3. \A s \in Session : ReleasedAfterExit(s) /\ SpawnedByOwner(s)
  BY DEF ReleasedAfterExit, SpawnedByOwner
<1> QED BY <1>1, <1>2, <1>3 DEF GoodStep, IInv

LEMMA SettingsSteps ==
  ASSUME IInv, CooldownElapses \/ Status \/ UNCHANGED vars
  PROVE  GoodStep
<1>1. CASE UNCHANGED vars
  <2>1. UNCHANGED admissionVars /\ Adm!IInv
    BY <1>1 DEF vars, IInv
  <2>2. Adm!IInv'
    BY <2>1, UnchangedEffect
  <2> QED BY <1>1, <2>2, KeptStep DEF vars, admissionVars
<1>2. CASE CooldownElapses \/ Status
  <2>1. /\ Adm!ReadEffectiveLimit \/ Adm!CooldownElapses
        /\ UNCHANGED <<session, generation, vod, handler, proc, awaited, stuck, overdue>>
    BY <1>2 DEF CooldownElapses, Status, Adm!ReadEffectiveLimit, Admission!ReadEffectiveLimit,
         Adm!CooldownElapses, Admission!CooldownElapses, Adm!Reduction, Admission!Reduction,
         Adm!RestoreCapacityIfElapsed, Admission!RestoreCapacityIfElapsed,
         Adm!limitVars, Admission!limitVars
  <2>2. UNCHANGED <<lease, queue>>
    BY <2>1 DEF Adm!ReadEffectiveLimit, Adm!CooldownElapses
  <2>3. Adm!IInv
    BY DEF IInv
  <2>4. Adm!IInv'
    BY <2>1, <2>2, <2>3, Adm!SettingsStep, AdmissionAssumptions
  <2> QED BY <2>1, <2>2, <2>4, KeptStep
<1> QED BY <1>1, <1>2

LEMMA SessionStepIsGood ==
  ASSUME IInv, NEW s \in Session, SessionStep(s)
  PROVE  StepOf(s)
<1>1. CASE \E g \in Get : ProcessStep(s, g)
  <2>1. PICK g \in Get : ProcessStep(s, g)
    BY <1>1
  <2> QED BY <2>1, ExitStep, CloseStep, CloseOn453Step, SpawnErrorStep, FirstByteStep,
             AbandonAttemptStep DEF ProcessStep
<1>2. CASE \E g \in Get : ClientLeavesUnheard(s, g) \/ ClientGone(s, g)
  BY <1>2, ClientLeavesUnheardStep, ClientGoneStep
<1>3. CASE \E g \in Get : RetryTimer(s, g) \/ StartupTimeout(s, g) \/ TakeoverExpires(s, g)
  BY <1>3, RetryTimerStep, StartupTimeoutStep, TakeoverExpiresStep
<1>4. CASE Start(s) \/ Stream(s) \/ Terminate(s) \/ ReleaseWaitExpires(s)
  BY <1>4, StartStep, StreamStep, TerminateStep, ReleaseWaitExpiresStep
<1> QED BY <1>1, <1>2, <1>3, <1>4 DEF SessionStep

LEMMA EveryStep ==
  ASSUME IInv, [Next]_vars
  PROVE  GoodStep
<1>1. CASE \E s \in Session : SessionStep(s)
  BY <1>1, SessionStepIsGood, StepOfOneSession
<1>2. CASE Sweep
  BY <1>2, SweepStep
<1>3. CASE CooldownElapses \/ Status \/ UNCHANGED vars
  BY <1>3, SettingsSteps
<1> QED BY <1>1, <1>2, <1>3 DEF Next

LEMMA InitEstablishes == Init => IInv
<1> SUFFICES ASSUME Init PROVE IInv
  OBVIOUS
<1>1. Adm!IInv
  <2>1. Adm!Init
    BY DEF Init, Admission!Init, Adm!Init, Admission!NoLease, Adm!NoLease
  <2> QED BY <2>1, Adm!InitEstablishes, AdmissionAssumptions
<1>2. Typed
  BY ProcessFacts, BoundsAssumption DEF Init, Typed
<1>3. ASSUME NEW s \in Session PROVE SessionOK(s)
  <2>1. /\ session[s] = "none" /\ generation[s] = 0 /\ awaited[s] = {} /\ ~stuck[s] /\ ~overdue[s]
        /\ \A g \in Get : handler[s][g] = NewHandler("none") /\ proc[s][g] = NoProcess
    BY DEF Init
  <2>2. \A g \in Get : g # 0 /\ handler[s][g].phase = "none" /\ ~handler[s][g].retry
                       /\ proc[s][g].state = "none"
    BY <2>1, ProcessFacts DEF Get
  <2>3. Alive(proc[s]) = {} /\ Running(proc[s]) = {}
    BY <2>2 DEF Alive, Running
  <2>4. Shape(session[s], generation[s], handler[s], proc[s])
    BY <2>1, <2>2, <2>3 DEF Shape
  <2>5. Awaits(session[s], generation[s], handler[s], proc[s], awaited[s])
    BY <2>1 DEF Awaits
  <2>6. ~lease[s].consumed
    BY DEF Init, Admission!Init, Admission!NoLease
  <2>7. Covered(session[s], generation[s], handler[s], proc[s], awaited[s], stuck[s], overdue[s],
                lease[s], s \in Adm!Waiting(queue))
    BY <2>1, <2>2, <2>3, <2>6 DEF Covered
  <2> QED BY <2>4, <2>5, <2>7 DEF SessionOK
<1> QED BY <1>1, <1>2, <1>3 DEF IInv

(***************************************************************************)
(* What follows.                                                           *)
(***************************************************************************)

\* The inductive invariant holds in every reachable state.
THEOREM PreviewInductive == Spec => []IInv
<1>1. IInv /\ [Next]_vars => IInv'
  BY EveryStep DEF GoodStep
<1> QED BY InitEstablishes, <1>1, PTL DEF Spec

\* Every variable of the previews and of their admission controller keeps its
\* type through every callback, timer and sweep.
THEOREM PreviewsTyped == Spec => []TypeOK
<1>1. IInv => TypeOK
  BY DEF IInv, Typed, TypeOK, Admission!TypeOK, Adm!IInv, Adm!Disciplined, Admission!Lease, Adm!Lease,
         Admission!LeaseState, Adm!LeaseState, Admission!QueuedRequest, Adm!QueuedRequest
<1> QED BY <1>1, PreviewInductive, PTL

\* For any number of GETs of a session, however their takeovers, retries, restarts
\* and teardowns overlap: never two FFmpeg run for it (resolveStreamTakeover,
\* startAttempt, PreviewProcessRegistry).
THEOREM NeverTwoProcesses == Spec => []OneProcessPerSession
<1>1. ASSUME IInv PROVE OneProcessPerSession
  <2>1. ASSUME NEW s \in Session PROVE Cardinality(Running(proc[s])) <= 1
    <3>1. \A g, h \in Running(proc[s]) : g = h
      <4>1. Running(proc[s]) \subseteq Alive(proc[s])
        BY DEF Running, Alive
      <4> QED BY <1>1, <4>1 DEF IInv, SessionOK, Shape
    <3>2. CASE Running(proc[s]) = {}
      BY <3>2, FS_EmptySet
    <3>3. CASE Running(proc[s]) # {}
      <4>1. PICK g \in Running(proc[s]) : Running(proc[s]) = {g}
        BY <3>1, <3>3
      <4>2. Cardinality({g}) = 1
        BY FS_Singleton
      <4> QED BY <4>1, <4>2
    <3> QED BY <3>2, <3>3
  <2> QED BY <2>1 DEF OneProcessPerSession
<1>2. IInv => OneProcessPerSession
  BY <1>1
<1> QED BY <1>2, PreviewInductive, PTL

\* Whatever runs without owning the stream has been told to stop (the takeover,
\* onClientGone and terminatePreviewSession leave no orphan).
THEOREM OrphansAreToldToStop == Spec => []OrphansAreKilled
<1>1. ASSUME IInv PROVE OrphansAreKilled
  <2>1. ASSUME NEW s \in Session, NEW g \in Running(proc[s])
        PROVE  Owner(s, g) \/ proc[s][g].killed
    BY <1>1, <2>1 DEF IInv, SessionOK, Shape, Owner
  <2> QED BY <2>1 DEF OrphansAreKilled
<1>2. IInv => OrphansAreKilled
  BY <1>1
<1> QED BY <1>2, PreviewInductive, PTL

\* An FFmpeg that runs has its lease from its spawn to its exit, unless a wait of
\* its session ran out (acquire, markConsumed, releasePlaybackLeaseAfterExit).
THEOREM ProcessesAreLeased == Spec => []ProcessHoldsLease
<1>1. ASSUME IInv PROVE ProcessHoldsLease
  <2>1. ASSUME NEW s \in Session, Running(proc[s]) # {}, ~overdue[s] PROVE s \in Leased
    <3>1. lease[s].state # "free"
      BY <1>1, <2>1 DEF IInv, SessionOK, Covered
    <3> QED BY <3>1 DEF Leased, Admission!Leased
  <2> QED BY <2>1 DEF ProcessHoldsLease
<1>2. IInv => ProcessHoldsLease
  BY <1>1
<1> QED BY <1>2, PreviewInductive, PTL

\* A lease whose stream was opened always has somebody who gives it back: no path
\* of finish, the takeover, the retries or the teardown drops it.
THEOREM LeasesComeBack == Spec => []NoLeakedLease
<1>1. ASSUME IInv PROVE NoLeakedLease
  <2>1. ASSUME NEW s \in Leased, lease[s].consumed, ~overdue[s]
        PROVE  awaited[s] # {} \/ stuck[s] \/ Held(session[s], generation[s], handler[s], proc[s])
    <3>1. s \in Session
      BY DEF Leased, Admission!Leased
    <3> QED BY <1>1, <2>1, <3>1 DEF IInv, SessionOK, Covered
  <2> QED BY <2>1, Zenon DEF NoLeakedLease, Held
<1>2. IInv => NoLeakedLease
  BY <1>1
<1> QED BY <1>2, PreviewInductive, PTL

\* No step gives a lease back, and so lets the queue in, while an FFmpeg of its
\* session runs (finish, CloseOn453, the teardown, the sweep, reconcile).
THEOREM NoLeaseOverAProcess == Spec => LeaseOutlivesProcess
<1>1. ASSUME IInv, [Next]_vars
      PROVE  \A s \in Leased \ Admission!Leased(lease') : Running(proc'[s]) = {}
  <2>1. ASSUME NEW s \in Leased \ Admission!Leased(lease') PROVE Running(proc'[s]) = {}
    <3>1. s \in Session /\ lease[s].state # "free" /\ lease'[s].state = "free"
      BY <2>1 DEF Leased, Admission!Leased
    <3> QED BY <1>1, <3>1, EveryStep DEF GoodStep, ReleasedAfterExit
  <2> QED BY <2>1
<1>2. IInv /\ [Next]_vars =>
        [\A s \in Leased \ Admission!Leased(lease') : Running(proc'[s]) = {}]_vars
  BY <1>1
<1> QED BY <1>2, PreviewInductive, PTL DEF Spec, LeaseOutlivesProcess

\* Whatever retry or restart an older request had pending, only the newest one of
\* an open session starts a process (isOwner and canContinue before startAttempt).
THEOREM OldRequestsSpawnNothing == Spec => OnlyTheOwnerSpawns
<1>1. ASSUME IInv, [Next]_vars
      PROVE  \A s \in Session, g \in Get :
               (/\ proc[s][g].state \in {"none", "exited"}
                /\ proc'[s][g].state \in {"waiting", "unspawned"})
                 => generation'[s] = g /\ session'[s] = "open"
  BY <1>1, EveryStep DEF GoodStep, SpawnedByOwner
<1>2. IInv /\ [Next]_vars =>
        [\A s \in Session, g \in Get :
           (proc[s][g].state \in {"none", "exited"} /\ proc'[s][g].state \in {"waiting", "unspawned"})
             => generation'[s] = g /\ session'[s] = "open"]_vars
  BY <1>1
<1> QED BY <1>2, PreviewInductive, PTL DEF Spec, OnlyTheOwnerSpawns

\* The sessions drive the controller as it expects to be driven: with all their
\* steps, the sweep's batch too, its queue stays disciplined.
THEOREM PreviewsKeepTheQueue == Spec => []Admission!QueueIsDisciplined
<1>1. ASSUME IInv PROVE Admission!QueueIsDisciplined
  <2>1. /\ Adm!Disciplined(lease, queue) /\ DOMAIN queue = 1 .. Len(queue)
        /\ \A t \in Adm!Waiting(queue) : t \in Session /\ lease[t].state = "free"
    BY <1>1, LeaseFacts DEF IInv
  <2>2. Admission!Waiting(queue) = Adm!Waiting(queue) /\ Admission!Leased(lease) = Adm!Leased(lease)
    BY SameLeases
  <2>3. Admission!Waiting(queue) \cap Admission!Leased(lease) = {}
    BY <2>1, <2>2 DEF Adm!Leased
  <2>4. Admission!NoSessionTwice
    BY <2>1, <2>3 DEF Adm!Disciplined, Admission!NoSessionTwice
  <2>5. Admission!ContinuityFirst
    BY <2>1 DEF Adm!Disciplined, Admission!ContinuityFirst
  <2>6. Admission!OneClaimWaiting
    BY <2>1 DEF Adm!Disciplined, Admission!OneClaimWaiting
  <2> QED BY <2>4, <2>5, <2>6 DEF Admission!QueueIsDisciplined
<1>2. IInv => Admission!QueueIsDisciplined
  BY <1>1
<1> QED BY <1>2, PreviewInductive, PTL
=============================================================================
