---------------------- MODULE PlaybackAdmissionProofs ----------------------
(***************************************************************************)
(* Proofs about PlaybackAdmission: its type invariant, the discipline of   *)
(* the queue, and that no lease is granted beyond the limit or ahead of    *)
(* the queue.  Every lemma about the code's operators is stated for any    *)
(* leases l and queue q, because acquire works on those that its reconcile *)
(* leaves and not on the variables.                                        *)
(***************************************************************************)
EXTENDS PlaybackAdmission, FiniteSetTheorems, SequenceTheorems, TLAPS

----------------------------------------------------------------------------
(* Sequences *)

LEMMA InsertAtFacts ==
  ASSUME NEW S, NEW q \in Seq(S), NEW at \in 1 .. Len(q) + 1, NEW e \in S
  PROVE  /\ InsertAt(q, at, e) \in Seq(S)
         /\ Len(InsertAt(q, at, e)) = Len(q) + 1
         /\ \A i \in 1 .. Len(q) + 1 :
              InsertAt(q, at, e)[i] =
                IF i < at THEN q[i] ELSE IF i = at THEN e ELSE q[i - 1]
<1> DEFINE a == SubSeq(q, 1, at - 1)
           b == SubSeq(q, at, Len(q))
           c == a \o <<e>>
<1>0. Len(q) \in Nat /\ \A i \in 1 .. Len(q) : q[i] \in S
  BY LenProperties, ElementOfSeq
<1>1. /\ a \in Seq(S) /\ Len(a) = at - 1
      /\ \A i \in 1 .. at - 1 : a[i] = q[i]
  <2>1. \A i \in 1 .. at - 1 : q[i] \in S
    BY <1>0
  <2> QED BY <1>0, <2>1, SubSeqProperties
<1>2. /\ b \in Seq(S) /\ Len(b) = Len(q) - at + 1
      /\ \A i \in 1 .. Len(q) - at + 1 : b[i] = q[at + i - 1]
  <2>1. \A i \in at .. Len(q) : q[i] \in S
    BY <1>0
  <2> QED BY <1>0, <2>1, SubSeqProperties
<1>3. <<e>> \in Seq(S) /\ Len(<<e>>) = 1 /\ <<e>>[1] = e
  OBVIOUS
<1>4. /\ c \in Seq(S) /\ Len(c) = at
      /\ \A i \in 1 .. at : c[i] = IF i < at THEN q[i] ELSE e
  <2> HIDE DEF a
  <2>1. /\ c \in Seq(S) /\ Len(c) = Len(a) + 1
        /\ \A i \in 1 .. Len(a) + 1 : c[i] = IF i <= Len(a) THEN a[i] ELSE <<e>>[i - Len(a)]
    BY <1>1, <1>3, ConcatProperties
  <2> QED BY <1>1, <1>3, <2>1
<1> HIDE DEF a, b, c
<1>5. /\ c \o b \in Seq(S) /\ Len(c \o b) = Len(c) + Len(b)
      /\ \A i \in 1 .. Len(c) + Len(b) : (c \o b)[i] = IF i <= Len(c) THEN c[i] ELSE b[i - Len(c)]
  BY <1>2, <1>4, ConcatProperties
<1>6. InsertAt(q, at, e) = c \o b
  BY DEF InsertAt, a, b, c
<1>7. ASSUME NEW i \in 1 .. Len(q) + 1
      PROVE (c \o b)[i] = IF i < at THEN q[i] ELSE IF i = at THEN e ELSE q[i - 1]
  <2>0. i \in Int /\ at \in Int
    BY <1>0
  <2>1. CASE i <= at
    BY <2>1, <1>0, <1>2, <1>4, <1>5
  <2>2. CASE i > at
    <3>1. i - at \in 1 .. Len(q) - at + 1 /\ at + (i - at) - 1 = i - 1
      BY <2>2, <1>0
    <3>2. (c \o b)[i] = b[i - at]
      BY SMTT(30), <2>2, <1>0, <1>2, <1>4, <1>5
    <3>3. (c \o b)[i] = q[i - 1]
      BY <3>1, <3>2, <1>2
    <3> QED BY <2>0, <2>2, <3>3
  <2>3. i <= at \/ i > at
    BY <2>0
  <2> QED BY <2>1, <2>2, <2>3, Zenon
<1> QED BY <1>0, <1>2, <1>4, <1>5, <1>6, <1>7

LEMMA RemoveAtFacts ==
  ASSUME NEW S, NEW q \in Seq(S), NEW at \in 1 .. Len(q)
  PROVE  /\ RemoveAt(q, at) \in Seq(S)
         /\ Len(RemoveAt(q, at)) = Len(q) - 1
         /\ \A i \in 1 .. Len(q) - 1 :
              RemoveAt(q, at)[i] = IF i < at THEN q[i] ELSE q[i + 1]
<1> DEFINE a == SubSeq(q, 1, at - 1)
           b == SubSeq(q, at + 1, Len(q))
<1>0. Len(q) \in Nat /\ \A i \in 1 .. Len(q) : q[i] \in S
  BY LenProperties, ElementOfSeq
<1>1. /\ a \in Seq(S) /\ Len(a) = at - 1
      /\ \A i \in 1 .. at - 1 : a[i] = q[i]
  <2>1. \A i \in 1 .. at - 1 : q[i] \in S
    BY <1>0
  <2> QED BY <1>0, <2>1, SubSeqProperties
<1>2. /\ b \in Seq(S) /\ Len(b) = Len(q) - at
      /\ \A i \in 1 .. Len(q) - at : b[i] = q[at + i]
  <2>1. \A i \in at + 1 .. Len(q) : q[i] \in S
    BY <1>0
  <2>2. /\ b \in Seq(S) /\ Len(b) = IF at + 1 <= Len(q) THEN Len(q) - (at + 1) + 1 ELSE 0
        /\ \A i \in 1 .. Len(q) - (at + 1) + 1 : b[i] = q[(at + 1) + i - 1]
    BY <1>0, <2>1, SubSeqProperties
  <2> HIDE DEF b
  <2> QED BY <1>0, <2>2
<1> HIDE DEF a, b
<1>3. /\ a \o b \in Seq(S) /\ Len(a \o b) = Len(a) + Len(b)
      /\ \A i \in 1 .. Len(a) + Len(b) : (a \o b)[i] = IF i <= Len(a) THEN a[i] ELSE b[i - Len(a)]
  BY <1>1, <1>2, ConcatProperties
<1>4. RemoveAt(q, at) = a \o b
  BY DEF RemoveAt, a, b
<1>5. ASSUME NEW i \in 1 .. Len(q) - 1
      PROVE (a \o b)[i] = IF i < at THEN q[i] ELSE q[i + 1]
  <2>0. i \in Int /\ at \in Int
    BY <1>0
  <2>1. CASE i < at
    BY <2>1, <1>0, <1>1, <1>2, <1>3
  <2>2. CASE i >= at
    <3>1. i - (at - 1) \in 1 .. Len(q) - at /\ at + (i - (at - 1)) = i + 1
      BY <2>2, <1>0
    <3>2. (a \o b)[i] = b[i - (at - 1)]
      BY <2>2, <1>0, <1>1, <1>2, <1>3
    <3>3. (a \o b)[i] = q[i + 1]
      BY <3>1, <3>2, <1>2
    <3> QED BY <2>0, <2>2, <3>3
  <2>3. i < at \/ i >= at
    BY <2>0
  <2> QED BY <2>1, <2>2, <2>3, Zenon
<1> QED BY <1>0, <1>1, <1>2, <1>3, <1>4, <1>5

----------------------------------------------------------------------------
(* The queue discipline of a pair of leases and queue *)

Disciplined(l, q) ==
  /\ l \in [Session -> Lease]
  /\ q \in Seq(QueuedRequest)
  /\ \A i, j \in 1 .. Len(q) : q[i].session = q[j].session => i = j
  /\ \A i \in 1 .. Len(q) : l[q[i].session].state = "free"
  /\ \A i, j \in 1 .. Len(q) :
       (i < j /\ q[j].queueClass = "continuity") => q[i].queueClass = "continuity"
  /\ \A i, j \in 1 .. Len(q) :
       (/\ q[i].queueClass = "continuity" /\ q[j].queueClass = "continuity"
        /\ q[i].continuityOf = q[j].continuityOf) => i = j

\* The lease of one session, as LeaseAgreesWithStream says it.
Agrees(r) ==
  /\ r.firstByte => r.consumed
  /\ r.state \in {"free", "reserved"} => ~r.consumed
  /\ r.state \in {"attached", "active"} => r.consumed
  /\ r.state = "active" => r.firstByte

LEMMA QueueElement ==
  ASSUME NEW q \in Seq(QueuedRequest), NEW i \in 1 .. Len(q)
  PROVE  /\ q[i] \in QueuedRequest
         /\ q[i].session \in Session
<1>1. q[i] \in QueuedRequest
  BY ElementOfSeq
<1> QED BY <1>1 DEF QueuedRequest

LEMMA NoLeaseFacts ==
  /\ NoLease \in Lease /\ NoLease.state = "free" /\ Agrees(NoLease)
  /\ Reservation \in Lease /\ Reservation.state = "reserved" /\ Agrees(Reservation)
BY DEF NoLease, Reservation, Lease, LeaseState, Agrees

LEMMA RoomFacts ==
  ASSUME NEW l, NEW limit \in Nat
  PROVE  /\ IsFiniteSet(Leased(l)) /\ Cardinality(Leased(l)) \in Nat
         /\ Room(l, limit) \in Nat
         /\ Room(l, limit) > 0 => Cardinality(Leased(l)) + Room(l, limit) = limit
<1>1. IsFiniteSet(Leased(l))
  BY SessionAssumption, FS_Subset DEF Leased
<1>2. Cardinality(Leased(l)) \in Nat
  BY <1>1, FS_CardinalityType
<1> QED BY <1>1, <1>2 DEF Room

LEMMA FitsFacts ==
  ASSUME NEW l, NEW q \in Seq(QueuedRequest), NEW limit \in Nat
  PROVE  /\ Fits(l, q, limit) \in 0 .. Len(q)
         /\ Fits(l, q, limit) <= Room(l, limit)
         /\ Fits(l, q, limit) = Len(q) \/ Fits(l, q, limit) = Room(l, limit)
BY RoomFacts, LenProperties DEF Fits

LEMMA RestFacts ==
  ASSUME NEW l, NEW q \in Seq(QueuedRequest), NEW limit \in Nat
  PROVE  LET n == Fits(l, q, limit)
             r == RestOfQueue(l, q, limit)
         IN /\ r \in Seq(QueuedRequest)
            /\ Len(r) = Len(q) - n
            /\ \A i \in 1 .. Len(q) - n : r[i] = q[n + i]
<1> DEFINE n == Fits(l, q, limit)
<1>1. n \in 0 .. Len(q) /\ Len(q) \in Nat
  BY FitsFacts, LenProperties
<1>2. \A i \in n + 1 .. Len(q) : q[i] \in QueuedRequest
  BY <1>1, ElementOfSeq
<1> DEFINE r == SubSeq(q, n + 1, Len(q))
<1>3. r = RestOfQueue(l, q, limit)
  BY DEF RestOfQueue
<1> HIDE DEF n
<1>4. /\ r \in Seq(QueuedRequest)
      /\ Len(r) = IF n + 1 <= Len(q) THEN Len(q) - (n + 1) + 1 ELSE 0
      /\ \A i \in 1 .. Len(q) - (n + 1) + 1 : r[i] = q[(n + 1) + i - 1]
  BY <1>1, <1>2, SubSeqProperties
<1> HIDE DEF r
<1>5. /\ Len(r) = Len(q) - n
      /\ \A i \in 1 .. Len(q) - n : r[i] = q[n + i]
  BY <1>1, <1>4
<1> QED BY <1>3, <1>4, <1>5 DEF n

LEMMA PromotedFacts ==
  ASSUME NEW l \in [Session -> Lease], NEW q \in Seq(QueuedRequest), NEW limit \in Nat
  PROVE  LET n == Fits(l, q, limit)
             p == PromotedLeases(l, q, limit)
         IN /\ p \in [Session -> Lease]
            /\ \A s \in Session :
                 \/ \E i \in 1 .. n : q[i].session = s /\ p[s] = Reservation
                 \/ (\A i \in 1 .. n : q[i].session # s) /\ p[s] = l[s]
BY NoLeaseFacts DEF PromotedLeases

LEMMA PromoteKeepsDiscipline ==
  ASSUME NEW l, NEW q, NEW limit \in Nat, Disciplined(l, q)
  PROVE  Disciplined(PromotedLeases(l, q, limit), RestOfQueue(l, q, limit))
<1> DEFINE n == Fits(l, q, limit)
           r == RestOfQueue(l, q, limit)
           p == PromotedLeases(l, q, limit)
<1>1. l \in [Session -> Lease] /\ q \in Seq(QueuedRequest)
  BY DEF Disciplined
<1>2. n \in 0 .. Len(q) /\ Len(q) \in Nat
  BY <1>1, FitsFacts, LenProperties
<1>3. /\ r \in Seq(QueuedRequest) /\ Len(r) = Len(q) - n
      /\ \A i \in 1 .. Len(q) - n : r[i] = q[n + i]
  BY <1>1, RestFacts
<1>4. /\ p \in [Session -> Lease]
      /\ \A s \in Session :
           \/ \E i \in 1 .. n : q[i].session = s /\ p[s] = Reservation
           \/ (\A i \in 1 .. n : q[i].session # s) /\ p[s] = l[s]
  BY <1>1, PromotedFacts
<1> HIDE DEF n, r, p
<1>5. \A i, j \in 1 .. Len(r) : r[i].session = r[j].session => i = j
  <2>1. SUFFICES ASSUME NEW i \in 1 .. Len(r), NEW j \in 1 .. Len(r),
                        r[i].session = r[j].session
                 PROVE  i = j
    OBVIOUS
  <2>2. n + i \in 1 .. Len(q) /\ n + j \in 1 .. Len(q) /\ r[i] = q[n + i] /\ r[j] = q[n + j]
    BY <1>2, <1>3
  <2>3. n + i = n + j
    BY <2>1, <2>2 DEF Disciplined
  <2> QED BY <2>3, <1>2
<1>6. ASSUME NEW i \in 1 .. Len(r)
      PROVE  p[r[i].session].state = "free"
  <2>1. n + i \in 1 .. Len(q) /\ r[i] = q[n + i] /\ r[i].session \in Session
    BY <1>1, <1>2, <1>3, QueueElement
  <2>2. \A k \in 1 .. n : q[k].session # r[i].session
    BY <1>2, <2>1 DEF Disciplined
  <2>3. p[r[i].session] = l[r[i].session]
    BY <1>4, <2>1, <2>2
  <2>4. l[q[n + i].session].state = "free"
    BY <2>1 DEF Disciplined
  <2> QED BY <2>1, <2>3, <2>4
<1>7. \A i, j \in 1 .. Len(r) :
        (i < j /\ r[j].queueClass = "continuity") => r[i].queueClass = "continuity"
  <2>1. SUFFICES ASSUME NEW i \in 1 .. Len(r), NEW j \in 1 .. Len(r),
                        i < j, r[j].queueClass = "continuity"
                 PROVE  r[i].queueClass = "continuity"
    OBVIOUS
  <2>2. n + i \in 1 .. Len(q) /\ n + j \in 1 .. Len(q) /\ r[i] = q[n + i] /\ r[j] = q[n + j]
    BY <1>2, <1>3
  <2>3. n + i < n + j
    BY <1>2, <2>1
  <2> QED BY <2>1, <2>2, <2>3 DEF Disciplined
<1>8. \A i, j \in 1 .. Len(r) :
       (/\ r[i].queueClass = "continuity" /\ r[j].queueClass = "continuity"
        /\ r[i].continuityOf = r[j].continuityOf) => i = j
  <2>1. SUFFICES ASSUME NEW i \in 1 .. Len(r), NEW j \in 1 .. Len(r),
                        r[i].queueClass = "continuity", r[j].queueClass = "continuity",
                        r[i].continuityOf = r[j].continuityOf
                 PROVE  i = j
    OBVIOUS
  <2>2. n + i \in 1 .. Len(q) /\ n + j \in 1 .. Len(q) /\ r[i] = q[n + i] /\ r[j] = q[n + j]
    BY <1>2, <1>3
  <2>3. n + i = n + j
    BY <2>1, <2>2 DEF Disciplined
  <2> QED BY <2>3, <1>2
<1> QED BY <1>3, <1>4, <1>5, <1>6, <1>7, <1>8 DEF Disciplined, r, p

LEMMA LeasesKeepDiscipline ==
  ASSUME NEW l, NEW q, Disciplined(l, q),
         NEW m \in [Session -> Lease],
         \A i \in 1 .. Len(q) : m[q[i].session].state = "free"
  PROVE  Disciplined(m, q)
BY DEF Disciplined

LEMMA FreedKeepsDiscipline ==
  ASSUME NEW l, NEW q, Disciplined(l, q),
         NEW m \in [Session -> Lease], \A s \in Session : m[s] = NoLease \/ m[s] = l[s]
  PROVE  Disciplined(m, q)
<1>1. ASSUME NEW i \in 1 .. Len(q) PROVE m[q[i].session].state = "free"
  <2>1. q[i].session \in Session /\ l[q[i].session].state = "free"
    BY QueueElement DEF Disciplined
  <2> QED BY <2>1, NoLeaseFacts
<1> QED BY <1>1, LeasesKeepDiscipline

LEMMA RemoveKeepsDiscipline ==
  ASSUME NEW l, NEW q, Disciplined(l, q), NEW at \in 1 .. Len(q)
  PROVE  Disciplined(l, RemoveAt(q, at))
<1> DEFINE r == RemoveAt(q, at)
           from == [i \in Int |-> IF i < at THEN i ELSE i + 1]
<1>1. q \in Seq(QueuedRequest) /\ Len(q) \in Nat
  BY LenProperties DEF Disciplined
<1>2. /\ r \in Seq(QueuedRequest) /\ Len(r) = Len(q) - 1
      /\ \A i \in 1 .. Len(q) - 1 : r[i] = IF i < at THEN q[i] ELSE q[i + 1]
  BY <1>1, RemoveAtFacts
<1> HIDE DEF r
<1>3. \A i \in 1 .. Len(r) : from[i] \in 1 .. Len(q) /\ r[i] = q[from[i]]
  BY <1>1, <1>2
<1> HIDE DEF from
<1>5. ASSUME NEW i \in 1 .. Len(r), NEW j \in 1 .. Len(r), r[i].session = r[j].session
      PROVE  i = j
  <2>1. /\ from[i] \in 1 .. Len(q) /\ r[i] = q[from[i]]
        /\ from[j] \in 1 .. Len(q) /\ r[j] = q[from[j]]
    BY <1>3
  <2>2. from[i] = from[j]
    BY <1>5, <2>1 DEF Disciplined
  <2> QED BY <1>1, <1>2, <2>2 DEF from
<1>6. \A i \in 1 .. Len(r) : l[r[i].session].state = "free"
  BY <1>3 DEF Disciplined
<1>7. ASSUME NEW i \in 1 .. Len(r), NEW j \in 1 .. Len(r), i < j, r[j].queueClass = "continuity"
      PROVE  r[i].queueClass = "continuity"
  <2>1. /\ from[i] \in 1 .. Len(q) /\ r[i] = q[from[i]]
        /\ from[j] \in 1 .. Len(q) /\ r[j] = q[from[j]]
    BY <1>3
  <2>2. from[i] < from[j]
    BY <1>1, <1>2, <1>7 DEF from
  <2> QED BY <1>7, <2>1, <2>2 DEF Disciplined
<1>8. ASSUME NEW i \in 1 .. Len(r), NEW j \in 1 .. Len(r),
             r[i].queueClass = "continuity", r[j].queueClass = "continuity",
             r[i].continuityOf = r[j].continuityOf
      PROVE  i = j
  <2>1. /\ from[i] \in 1 .. Len(q) /\ r[i] = q[from[i]]
        /\ from[j] \in 1 .. Len(q) /\ r[j] = q[from[j]]
    BY <1>3
  <2>2. from[i] = from[j]
    BY <1>8, <2>1 DEF Disciplined
  <2> QED BY <1>1, <1>2, <2>2 DEF from
<1>9. l \in [Session -> Lease]
  BY DEF Disciplined
<1> QED BY <1>2, <1>5, <1>6, <1>7, <1>8, <1>9 DEF Disciplined, r

LEMMA InsertKeepsDiscipline ==
  ASSUME NEW l, NEW q, Disciplined(l, q),
         NEW s \in Session, NEW p \in Session \cup {NoSession},
         l[s].state = "free",
         \A i \in 1 .. Len(q) : q[i].session # s,
         NEW at \in 1 .. Len(q) + 1, IsPlace(q, QueueClass(l, q, s, p), at)
  PROVE  Disciplined(l, InsertAt(q, at, Request(s, QueueClass(l, q, s, p), p)))
<1> DEFINE class == QueueClass(l, q, s, p)
           e == Request(s, class, p)
           r == InsertAt(q, at, e)
           from == [i \in Int |-> IF i < at THEN i ELSE i - 1]
<1>1. q \in Seq(QueuedRequest) /\ Len(q) \in Nat /\ DOMAIN q = 1 .. Len(q)
  BY LenProperties DEF Disciplined
<1>2. class \in {"continuity", "normal"}
  BY DEF QueueClass
<1>3. class = "continuity" =>
        \A i \in 1 .. Len(q) : ~(q[i].queueClass = "continuity" /\ q[i].continuityOf = p)
  BY <1>1 DEF QueueClass
<1>4. IsPlace(q, class, at)
  OBVIOUS
<1> HIDE DEF class
<1>5. /\ e \in QueuedRequest /\ e.session = s /\ e.queueClass = class
      /\ class = "continuity" => e.continuityOf = p
  BY <1>2 DEF Request, QueuedRequest
<1> HIDE DEF e
<1>6. /\ r \in Seq(QueuedRequest) /\ Len(r) = Len(q) + 1
      /\ \A i \in 1 .. Len(q) + 1 :
           r[i] = IF i < at THEN q[i] ELSE IF i = at THEN e ELSE q[i - 1]
  BY <1>1, <1>5, InsertAtFacts
<1> HIDE DEF r
<1>7. \A i \in 1 .. Len(r) : i # at => from[i] \in 1 .. Len(q) /\ r[i] = q[from[i]]
  BY <1>1, <1>6
<1>8. r[at] = e
  BY <1>1, <1>6
<1>9. \A i, j \in 1 .. Len(r) : (i # at /\ j # at) =>
         /\ from[i] = from[j] => i = j
         /\ i < j => from[i] < from[j]
  BY <1>1, <1>6
<1>10. \A i \in 1 .. Len(r) : /\ i < at => from[i] < at
                             /\ i > at => from[i] >= at
  BY <1>1, <1>6
<1>11. class = "normal" => at = Len(q) + 1
  BY <1>4 DEF IsPlace
<1>12. class = "continuity" => \A i \in 1 .. at - 1 : q[i].queueClass # "normal"
  BY <1>4 DEF IsPlace
<1>13. class = "continuity" /\ at <= Len(q) => q[at].queueClass = "normal"
  BY <1>4 DEF IsPlace
<1> HIDE DEF from
<1>14. \A i \in 1 .. Len(q) : q[i].queueClass \in {"continuity", "normal"}
  BY <1>1, QueueElement DEF QueuedRequest
<1>15. \A i, j \in 1 .. Len(r) : r[i].session = r[j].session => i = j
  BY SMTT(30), <1>1, <1>5, <1>6, <1>7, <1>8, <1>9 DEF Disciplined
<1>16. \A i \in 1 .. Len(r) : l[r[i].session].state = "free"
  BY <1>5, <1>7, <1>8 DEF Disciplined
<1>17. ASSUME NEW i \in 1 .. Len(r), NEW j \in 1 .. Len(r),
              i < j, r[j].queueClass = "continuity"
       PROVE  r[i].queueClass = "continuity"
  <2>1. CASE i # at /\ j # at
    <3>1. /\ from[i] \in 1 .. Len(q) /\ r[i] = q[from[i]]
          /\ from[j] \in 1 .. Len(q) /\ r[j] = q[from[j]]
          /\ from[i] < from[j]
      BY <2>1, <1>7, <1>9, <1>17
    <3> QED BY <3>1, <1>17 DEF Disciplined
  <2>2. CASE j = at
    <3>0. i < at /\ i # at
      BY <2>2, <1>17
    <3>1. class = "continuity"
      BY <2>2, <1>5, <1>8, <1>17
    <3>2. from[i] \in 1 .. Len(q) /\ r[i] = q[from[i]]
      BY <3>0, <1>7
    <3>3. from[i] < at
      BY <1>1, <1>6, <3>0 DEF from
    <3>4. q[from[i]].queueClass # "normal"
      BY <3>1, <3>2, <3>3, <1>12
    <3> QED BY <3>2, <3>4, <1>14
  <2>3. CASE i = at
    <3>1. j > at /\ from[j] \in 1 .. Len(q) /\ from[j] >= at /\ q[from[j]].queueClass = "continuity"
      BY <2>3, <1>7, <1>10, <1>17
    <3>2. at <= Len(q)
      BY <3>1, <1>1
    <3>3. CASE class = "continuity"
      <4>1. q[at].queueClass = "normal" /\ at \in 1 .. Len(q)
        BY <3>2, <3>3, <1>13
      <4>2. from[j] = at \/ at < from[j]
        BY <3>1, <1>1
      <4>3. from[j] # at
        BY <3>1, <4>1
      <4>4. q[at].queueClass = "continuity"
        BY <3>1, <4>1, <4>2, <4>3 DEF Disciplined
      <4> QED BY <4>1, <4>4
    <3>4. CASE class = "normal"
      BY <3>2, <3>4, <1>1, <1>11
    <3> QED BY <3>3, <3>4, <1>2
  <2> QED BY <2>1, <2>2, <2>3
<1>18. ASSUME NEW i \in 1 .. Len(r), NEW j \in 1 .. Len(r),
              r[i].queueClass = "continuity", r[j].queueClass = "continuity",
              r[i].continuityOf = r[j].continuityOf
       PROVE  i = j
  <2>1. CASE i # at /\ j # at
    <3>1. /\ from[i] \in 1 .. Len(q) /\ r[i] = q[from[i]]
          /\ from[j] \in 1 .. Len(q) /\ r[j] = q[from[j]]
      BY <2>1, <1>7
    <3>2. from[i] = from[j]
      BY <3>1, <1>18 DEF Disciplined
    <3> QED BY <2>1, <3>2, <1>9
  <2>2. CASE i # at /\ j = at
    BY <2>2, <1>3, <1>5, <1>7, <1>8, <1>18
  <2>3. CASE i = at /\ j # at
    BY <2>3, <1>3, <1>5, <1>7, <1>8, <1>18
  <2> QED BY <2>1, <2>2, <2>3, Zenon
<1>19. l \in [Session -> Lease]
  BY DEF Disciplined
<1>20. Disciplined(l, r)
  BY <1>6, <1>15, <1>16, <1>17, <1>18, <1>19 DEF Disciplined
<1> QED BY <1>20 DEF r, e, class

----------------------------------------------------------------------------
(* The limit *)

LEMMA PromotedWithinLimit ==
  ASSUME NEW l \in [Session -> Lease], NEW q \in Seq(QueuedRequest), NEW limit \in Nat
  PROVE  LET p == PromotedLeases(l, q, limit)
         IN Leased(p) \subseteq Leased(l) \/ Cardinality(Leased(p)) <= limit
<1> DEFINE n == Fits(l, q, limit)
           p == PromotedLeases(l, q, limit)
           M == {q[i].session : i \in 1 .. n}
<1>1. n \in Nat /\ n <= Room(l, limit)
  BY FitsFacts, LenProperties
<1>2. Leased(p) \subseteq Leased(l) \cup M
  <2>1. SUFFICES ASSUME NEW s \in Session, p[s].state # "free", s \notin M
                 PROVE  l[s].state # "free"
    BY DEF Leased
  <2>2. p[s] = l[s]
    BY <2>1, PromotedFacts
  <2> QED BY <2>1, <2>2
<1>3. CASE n = 0
  <2>1. M = {}
    BY <1>3
  <2> QED BY <1>2, <2>1
<1>4. CASE n > 0
  <2>1. /\ IsFiniteSet(Leased(l)) /\ Cardinality(Leased(l)) \in Nat
        /\ Cardinality(Leased(l)) + Room(l, limit) = limit
        /\ Room(l, limit) \in Nat
    BY <1>1, <1>4, RoomFacts
  <2> DEFINE f == [i \in 1 .. n |-> q[i].session]
  <2>2. f \in Surjection(1 .. n, M)
    BY DEF Surjection
  <2>3. IsFiniteSet(1 .. n) /\ Cardinality(1 .. n) = n
    BY <1>1, <1>4, FS_Interval
  <2>4. IsFiniteSet(M) /\ Cardinality(M) <= n
    BY <2>2, <2>3, FS_Surjection
  <2> HIDE DEF f, M
  <2>5. /\ IsFiniteSet(Leased(l) \cup M)
        /\ Cardinality(Leased(l) \cup M) =
             Cardinality(Leased(l)) + Cardinality(M) - Cardinality(Leased(l) \cap M)
    BY <2>1, <2>4, FS_Union
  <2>6. /\ IsFiniteSet(Leased(l) \cap M)
        /\ Cardinality(Leased(l) \cap M) \in Nat /\ Cardinality(M) \in Nat
    <3>1. Leased(l) \cap M \in SUBSET M
      OBVIOUS
    <3>2. IsFiniteSet(Leased(l) \cap M)
      BY <2>4, <3>1, FS_Subset
    <3> QED BY <2>4, <3>2, FS_CardinalityType
  <2>7. Cardinality(Leased(p)) <= Cardinality(Leased(l) \cup M) /\ Cardinality(Leased(p)) \in Nat
    <3>1. IsFiniteSet(Leased(p)) /\ Cardinality(Leased(p)) <= Cardinality(Leased(l) \cup M)
      BY <1>2, <2>5, FS_Subset
    <3> QED BY <3>1, FS_CardinalityType
  <2> HIDE DEF n, p
  <2>8. Cardinality(Leased(p)) <= limit
    BY <1>1, <2>1, <2>4, <2>5, <2>6, <2>7
  <2> QED BY <2>8 DEF p
<1> QED BY <1>1, <1>3, <1>4

LEMMA OneMoreWithinLimit ==
  ASSUME NEW l \in [Session -> Lease], NEW s \in Session, NEW r \in Lease,
         NEW limit \in Nat, Room(l, limit) > 0
  PROVE  Cardinality(Leased([l EXCEPT ![s] = r])) <= limit
<1> DEFINE m == [l EXCEPT ![s] = r]
<1>1. Leased(m) \in SUBSET (Leased(l) \cup {s})
  BY DEF Leased
<1>2. /\ IsFiniteSet(Leased(l)) /\ Cardinality(Leased(l)) \in Nat
      /\ Room(l, limit) \in Nat
      /\ Cardinality(Leased(l)) + Room(l, limit) = limit
  BY RoomFacts
<1>3. /\ IsFiniteSet(Leased(l) \cup {s})
      /\ Cardinality(Leased(l) \cup {s}) <= Cardinality(Leased(l)) + 1
      /\ Cardinality(Leased(l) \cup {s}) \in Nat
  <2>1. /\ IsFiniteSet(Leased(l) \cup {s})
        /\ Cardinality(Leased(l) \cup {s}) =
             IF s \in Leased(l) THEN Cardinality(Leased(l)) ELSE Cardinality(Leased(l)) + 1
    BY <1>2, FS_AddElement
  <2> QED BY <1>2, <2>1
<1>4. IsFiniteSet(Leased(m)) /\ Cardinality(Leased(m)) <= Cardinality(Leased(l) \cup {s})
  BY <1>1, <1>3, FS_Subset
<1>5. Cardinality(Leased(m)) \in Nat
  BY <1>4, FS_CardinalityType
<1> HIDE DEF m
<1>6. Cardinality(Leased(m)) <= limit
  BY <1>2, <1>3, <1>4, <1>5
<1> QED BY <1>6 DEF m

LEMMA PromoteKeepsAgreement ==
  ASSUME NEW l \in [Session -> Lease], NEW q \in Seq(QueuedRequest), NEW limit \in Nat,
         \A s \in Session : Agrees(l[s])
  PROVE  \A s \in Session : Agrees(PromotedLeases(l, q, limit)[s])
<1>1. SUFFICES ASSUME NEW s \in Session
               PROVE  Agrees(PromotedLeases(l, q, limit)[s])
  OBVIOUS
<1>2. \/ PromotedLeases(l, q, limit)[s] = Reservation
      \/ PromotedLeases(l, q, limit)[s] = l[s]
  BY PromotedFacts
<1> QED BY <1>2, NoLeaseFacts

\* Room is left after promote only when it served the whole queue.
LEMMA RoomMeansNobodyWaits ==
  ASSUME NEW l \in [Session -> Lease], NEW q \in Seq(QueuedRequest), NEW limit \in Nat,
         Room(PromotedLeases(l, q, limit), limit) > 0,
         \A i, j \in 1 .. Len(q) : q[i].session = q[j].session => i = j,
         \A i \in 1 .. Len(q) : l[q[i].session].state = "free"
  PROVE  RestOfQueue(l, q, limit) = <<>>
<1> DEFINE n == Fits(l, q, limit)
           p == PromotedLeases(l, q, limit)
           M == {q[i].session : i \in 1 .. n}
           f == [i \in 1 .. n |-> q[i].session]
<1>1. n \in 0 .. Len(q) /\ Len(q) \in Nat /\ (n = Len(q) \/ n = Room(l, limit))
  BY FitsFacts, LenProperties
<1>2. SUFFICES n = Len(q)
  <2>1. ASSUME n = Len(q) PROVE RestOfQueue(l, q, limit) = <<>>
    <3>1. RestOfQueue(l, q, limit) \in Seq(QueuedRequest) /\ Len(RestOfQueue(l, q, limit)) = 0
      BY <1>1, <2>1, RestFacts
    <3> QED BY <3>1, EmptySeq
  <2> QED BY <2>1
<1>3. SUFFICES ASSUME n # Len(q) PROVE FALSE
  OBVIOUS
<1>4. n = Room(l, limit)
  BY <1>1, <1>3
<1>5. IsFiniteSet(M) /\ Cardinality(M) = n
  <2>1. f \in Surjection(1 .. n, M)
    BY DEF Surjection
  <2>2. f \in Injection(1 .. n, M)
    <3>1. ASSUME NEW i \in 1 .. n, NEW j \in 1 .. n, f[i] = f[j]
          PROVE  i = j
      <4>1. i \in 1 .. Len(q) /\ j \in 1 .. Len(q) /\ q[i].session = q[j].session
        BY <1>1, <3>1
      <4> QED BY <4>1
    <3>2. f \in [1 .. n -> M]
      OBVIOUS
    <3> HIDE DEF f, M, n
    <3> QED BY <3>1, <3>2 DEF Injection, IsInjective
  <2>3. IsFiniteSet(1 .. n) /\ Cardinality(1 .. n) = n
    BY <1>1, FS_Interval
  <2> QED BY <2>1, <2>2, <2>3, FS_Surjection
<1>6. Leased(p) = Leased(l) \cup M /\ Leased(l) \cap M = {}
  <2>1. M \subseteq Session /\ \A s \in M : l[s].state = "free" /\ p[s] = Reservation
    <3>1. SUFFICES ASSUME NEW i \in 1 .. n
                   PROVE  /\ q[i].session \in Session
                          /\ l[q[i].session].state = "free"
                          /\ p[q[i].session] = Reservation
      OBVIOUS
    <3>2. i \in 1 .. Len(q)
      BY <1>1
    <3> QED BY <3>2, QueueElement, PromotedFacts
  <2>2. \A s \in Session \ M : p[s] = l[s]
    BY PromotedFacts
  <2> HIDE DEF M, p
  <2> QED BY <2>1, <2>2, NoLeaseFacts DEF Leased
<1> HIDE DEF M, f
<1>7. /\ IsFiniteSet(Leased(l)) /\ Cardinality(Leased(l)) \in Nat
      /\ IsFiniteSet(Leased(p)) /\ Cardinality(Leased(p)) \in Nat
  BY RoomFacts
<1>8. Cardinality(Leased(p)) = Cardinality(Leased(l)) + n
  <2>1. Cardinality(Leased(l) \cup M) =
          Cardinality(Leased(l)) + Cardinality(M) - Cardinality(Leased(l) \cap M)
    BY <1>5, <1>7, FS_Union
  <2>2. Cardinality(Leased(l) \cap M) = 0
    BY <1>6, FS_EmptySet
  <2> HIDE DEF n, p
  <2> QED BY <1>1, <1>5, <1>6, <1>7, <2>1, <2>2
<1>9. Room(p, limit) \in Nat /\ Cardinality(Leased(p)) < limit
  BY <1>7 DEF Room
<1> HIDE DEF n, p
<1> QED BY <1>1, <1>4, <1>7, <1>8, <1>9 DEF Room

----------------------------------------------------------------------------
(* The inductive invariant: TypeOK and the state properties, in the terms  *)
(* of the lemmas above.  Disciplined adds to the three properties of the   *)
(* queue that a waiting session holds no lease, as the lemmas need it.     *)

IInv ==
  /\ configuredLimit \in Limits
  /\ globalDefaultLimit \in Limits
  /\ reducedLimit \in Nat
  /\ cooldown \in {"none", "running", "elapsed"}
  /\ ReductionIsTemporary
  /\ Disciplined(lease, queue)
  /\ \A s \in Session : Agrees(lease[s])

\* What GrantsWithinLimit and NobodyOvertakesTheQueue say of one step.
Granted ==
  Leased(lease') \subseteq Leased(lease) \/ Cardinality(Leased(lease')) <= EffectiveLimit

NotOvertaken ==
  \A s \in Leased(lease') \ Leased(lease) : s \in Waiting(queue) \/ queue' = <<>>

LEMMA LimitIsNat ==
  ASSUME IInv
  PROVE  EffectiveLimit \in Nat
<1>1. Base \in Nat
  BY LimitsAssumption, SafeDefaultAssumption DEF IInv, Base
<1> QED BY <1>1 DEF IInv, EffectiveLimit, Reduction

LEMMA RestoreKeepsSettings ==
  ASSUME IInv, RestoreCapacityIfElapsed, UNCHANGED limitVars,
         Disciplined(lease', queue'), \A s \in Session : Agrees(lease'[s])
  PROVE  IInv'
<1>1. /\ configuredLimit' \in Limits /\ globalDefaultLimit' \in Limits
      /\ reducedLimit' \in Nat
      /\ cooldown' \in {"none", "running", "elapsed"}
  BY DEF IInv, limitVars, RestoreCapacityIfElapsed, Reduction
<1>2. ReductionIsTemporary'
  BY DEF IInv, ReductionIsTemporary, RestoreCapacityIfElapsed, Reduction
<1> QED BY <1>1, <1>2 DEF IInv, Disciplined, Agrees

LEMMA LeaseChangeStep ==
  ASSUME IInv, UNCHANGED <<limitVars, reducedLimit, cooldown, queue>>,
         NEW s \in Session, NEW r \in Lease,
         lease' = [lease EXCEPT ![s] = r],
         lease[s].state # "free", r.state # "free", Agrees(r)
  PROVE  IInv' /\ Leased(lease') = Leased(lease)
<1>1. lease \in [Session -> Lease] /\ queue \in Seq(QueuedRequest) /\ Disciplined(lease, queue)
  BY DEF IInv, Disciplined
<1>2. lease' \in [Session -> Lease]
  BY <1>1
<1>3. \A t \in Session : lease'[t] = IF t = s THEN r ELSE lease[t]
  BY <1>1
<1>4. \A i \in 1 .. Len(queue) : queue[i].session # s
  BY DEF IInv, Disciplined
<1>5. \A i \in 1 .. Len(queue) : lease'[queue[i].session].state = "free"
  BY <1>1, <1>3, <1>4, QueueElement DEF Disciplined
<1>6. Disciplined(lease', queue)
  BY <1>1, <1>2, <1>5, LeasesKeepDiscipline
<1>7. \A t \in Session : Agrees(lease'[t])
  BY <1>3 DEF IInv
<1>8. Leased(lease') = Leased(lease)
  BY <1>3 DEF Leased
<1>9. Disciplined(lease', queue')
  BY <1>6
<1>10. ReductionIsTemporary'
  BY DEF IInv, ReductionIsTemporary
<1> QED BY <1>7, <1>8, <1>9, <1>10 DEF IInv, limitVars, Disciplined, Agrees

LEMMA PromoteStep ==
  ASSUME IInv, NEW l, Disciplined(l, queue),
         \A s \in Session : Agrees(l[s]),
         \A s \in Session : lease[s].state = "free" => l[s].state = "free",
         Promote(l, queue), UNCHANGED limitVars
  PROVE  IInv' /\ Granted /\ NotOvertaken
<1>0. l \in [Session -> Lease] /\ queue \in Seq(QueuedRequest) /\ EffectiveLimit \in Nat
  BY LimitIsNat DEF Disciplined
<1> DEFINE p == PromotedLeases(l, queue, EffectiveLimit)
           r == RestOfQueue(l, queue, EffectiveLimit)
           n == Fits(l, queue, EffectiveLimit)
<1>1. lease' = p /\ queue' = r /\ RestoreCapacityIfElapsed
  BY DEF Promote
<1>2. Disciplined(p, r)
  BY <1>0, PromoteKeepsDiscipline
<1>3. \A s \in Session : Agrees(p[s])
  BY <1>0, PromoteKeepsAgreement
<1>4. IInv'
  <2> HIDE DEF p, r
  <2> QED BY <1>1, <1>2, <1>3, RestoreKeepsSettings
<1>5. Leased(l) \subseteq Leased(lease)
  BY DEF Leased
<1>6. Granted
  <2>1. Leased(p) \subseteq Leased(l) \/ Cardinality(Leased(p)) <= EffectiveLimit
    BY <1>0, PromotedWithinLimit
  <2> QED BY <1>1, <1>5, <2>1 DEF Granted
<1>7. NotOvertaken
  <2>1. SUFFICES ASSUME NEW s \in Session, p[s].state # "free", lease[s].state = "free"
                 PROVE  s \in Waiting(queue)
    BY <1>1 DEF NotOvertaken, Leased
  <2>2. l[s].state = "free"
    BY <2>1
  <2>3. \E i \in 1 .. n : queue[i].session = s
    <3>1. \/ \E i \in 1 .. n : queue[i].session = s /\ p[s] = Reservation
          \/ p[s] = l[s]
      BY <1>0, PromotedFacts
    <3> HIDE DEF n, p
    <3> QED BY <2>1, <2>2, <3>1
  <2>4. n \in 0 .. Len(queue) /\ Len(queue) \in Nat
    BY <1>0, FitsFacts, LenProperties
  <2> HIDE DEF n
  <2>5. DOMAIN queue = 1 .. Len(queue)
    BY <1>0, LenProperties
  <2> QED BY <2>3, <2>4, <2>5 DEF Waiting
<1> QED BY <1>4, <1>6, <1>7

----------------------------------------------------------------------------
(* One lemma per operation of the controller *)

\* Both acquires start with a reconcile: what it leaves them to work on.
LEMMA ReconciledFirst ==
  ASSUME IInv
  PROVE  LET l == PromotedLeases(lease, queue, EffectiveLimit)
             q == RestOfQueue(lease, queue, EffectiveLimit)
         IN /\ Disciplined(l, q)
            /\ \A t \in Session : Agrees(l[t])
            /\ Leased(l) \subseteq Leased(lease) \/ Cardinality(Leased(l)) <= EffectiveLimit
            /\ \A t \in Leased(l) \ Leased(lease) : t \in Waiting(queue)
            /\ Room(l, EffectiveLimit) > 0 => q = <<>>
<1>0. /\ lease \in [Session -> Lease] /\ queue \in Seq(QueuedRequest)
      /\ Disciplined(lease, queue) /\ EffectiveLimit \in Nat
  BY LimitIsNat DEF IInv, Disciplined
<1> DEFINE l == PromotedLeases(lease, queue, EffectiveLimit)
           q == RestOfQueue(lease, queue, EffectiveLimit)
<1>1. Disciplined(l, q) /\ \A t \in Session : Agrees(l[t])
  BY <1>0, PromoteKeepsDiscipline, PromoteKeepsAgreement DEF IInv
<1>2. Leased(l) \subseteq Leased(lease) \/ Cardinality(Leased(l)) <= EffectiveLimit
  BY <1>0, PromotedWithinLimit
<1>3. \A t \in Leased(l) \ Leased(lease) : t \in Waiting(queue)
  <2> DEFINE n == Fits(lease, queue, EffectiveLimit)
  <2>1. SUFFICES ASSUME NEW t \in Session, l[t].state # "free", lease[t].state = "free"
                 PROVE  t \in Waiting(queue)
    BY DEF Leased
  <2>2. \E i \in 1 .. n : queue[i].session = t
    <3>1. \/ \E i \in 1 .. n : queue[i].session = t /\ l[t] = Reservation
          \/ l[t] = lease[t]
      BY <1>0, PromotedFacts
    <3> HIDE DEF n, l
    <3> QED BY <2>1, <3>1
  <2>3. n \in 0 .. Len(queue) /\ Len(queue) \in Nat /\ DOMAIN queue = 1 .. Len(queue)
    BY <1>0, FitsFacts, LenProperties
  <2> HIDE DEF n
  <2> QED BY <2>2, <2>3 DEF Waiting
<1>4. Room(l, EffectiveLimit) > 0 => q = <<>>
  BY <1>0, RoomMeansNobodyWaits DEF Disciplined
<1> QED BY <1>1, <1>2, <1>3, <1>4

LEMMA GrantedAtOnceStep ==
  ASSUME IInv, NEW l, Disciplined(l, <<>>), \A t \in Session : Agrees(l[t]),
         NEW s \in Session, NEW r \in Lease, Agrees(r), Room(l, EffectiveLimit) > 0,
         lease' = [l EXCEPT ![s] = r], queue' = <<>>,
         RestoreCapacityIfElapsed, UNCHANGED limitVars
  PROVE  IInv' /\ Granted /\ NotOvertaken
<1>1. l \in [Session -> Lease] /\ lease' \in [Session -> Lease] /\ EffectiveLimit \in Nat
  BY LimitIsNat DEF Disciplined
<1>2. Disciplined(lease', queue')
  BY <1>1 DEF Disciplined
<1>3. \A t \in Session : Agrees(lease'[t])
  BY <1>1
<1>4. IInv'
  BY <1>2, <1>3, RestoreKeepsSettings
<1>5. Granted
  BY <1>1, OneMoreWithinLimit DEF Granted
<1> QED BY <1>4, <1>5 DEF NotOvertaken

LEMMA AcquireStep ==
  ASSUME IInv, NEW s \in Session, Acquire(s)
  PROVE  IInv' /\ Granted /\ NotOvertaken
<1> DEFINE l == PromotedLeases(lease, queue, EffectiveLimit)
           q == RestOfQueue(lease, queue, EffectiveLimit)
<1>1. /\ Disciplined(l, q)
      /\ \A t \in Session : Agrees(l[t])
      /\ Leased(l) \subseteq Leased(lease) \/ Cardinality(Leased(l)) <= EffectiveLimit
      /\ \A t \in Leased(l) \ Leased(lease) : t \in Waiting(queue)
      /\ Room(l, EffectiveLimit) > 0 => q = <<>>
  BY ReconciledFirst
<1>2. RestoreCapacityIfElapsed /\ UNCHANGED limitVars
  BY DEF Acquire
<1>3. \/ lease' = l /\ queue' = q
      \/ /\ Room(l, EffectiveLimit) > 0
         /\ lease' = [l EXCEPT ![s] = Reservation] /\ queue' = q
      \/ /\ s \notin Leased(l) \cup Waiting(q) /\ lease' = l
         /\ \E p \in Session \cup {NoSession} : Insert(q, s, QueueClass(l, q, s, p), p)
  BY DEF Acquire
<1> HIDE DEF l, q
<1>4. CASE lease' = l /\ queue' = q
  <2>1. IInv'
    BY <1>1, <1>2, <1>4, RestoreKeepsSettings
  <2> QED BY <1>1, <1>4, <2>1 DEF Granted, NotOvertaken
<1>5. CASE /\ Room(l, EffectiveLimit) > 0
           /\ lease' = [l EXCEPT ![s] = Reservation] /\ queue' = q
  BY <1>1, <1>2, <1>5, NoLeaseFacts, GrantedAtOnceStep
<1>6. CASE /\ s \notin Leased(l) \cup Waiting(q) /\ lease' = l
           /\ \E p \in Session \cup {NoSession} : Insert(q, s, QueueClass(l, q, s, p), p)
  <2>1. PICK p \in Session \cup {NoSession} : Insert(q, s, QueueClass(l, q, s, p), p)
    BY <1>6
  <2> DEFINE class == QueueClass(l, q, s, p)
  <2>2. PICK at \in 1 .. Len(q) + 1 :
           IsPlace(q, class, at) /\ queue' = InsertAt(q, at, Request(s, class, p))
    BY <2>1 DEF Insert
  <2>3. l[s].state = "free" /\ \A i \in 1 .. Len(q) : q[i].session # s
    <3>1. DOMAIN q = 1 .. Len(q)
      BY <1>1, LenProperties DEF Disciplined
    <3> QED BY <1>6, <3>1 DEF Leased, Waiting
  <2>4. Disciplined(l, queue')
    BY <1>1, <2>2, <2>3, InsertKeepsDiscipline
  <2>5. IInv'
    BY <1>1, <1>2, <1>6, <2>4, RestoreKeepsSettings
  <2> QED BY <1>1, <1>6, <2>5 DEF Granted, NotOvertaken
<1> QED BY <1>3, <1>4, <1>5, <1>6

LEMMA AcquireDiagnosticStep ==
  ASSUME IInv, NEW s \in Session, AcquireDiagnostic(s)
  PROVE  IInv' /\ Granted /\ NotOvertaken
<1> DEFINE l == PromotedLeases(lease, queue, EffectiveLimit)
           q == RestOfQueue(lease, queue, EffectiveLimit)
           r == [state |-> "attached", leaseType |-> "diagnostic",
                 consumed |-> TRUE, firstByte |-> FALSE]
<1>1. /\ Disciplined(l, q)
      /\ \A t \in Session : Agrees(l[t])
      /\ Leased(l) \subseteq Leased(lease) \/ Cardinality(Leased(l)) <= EffectiveLimit
      /\ \A t \in Leased(l) \ Leased(lease) : t \in Waiting(queue)
      /\ Room(l, EffectiveLimit) > 0 => q = <<>>
  BY ReconciledFirst
<1>2. RestoreCapacityIfElapsed /\ UNCHANGED limitVars /\ queue' = q
  BY DEF AcquireDiagnostic
<1>3. \/ lease' = l
      \/ Room(l, EffectiveLimit) > 0 /\ lease' = [l EXCEPT ![s] = r]
  BY DEF AcquireDiagnostic
<1>4. r \in Lease /\ Agrees(r)
  BY DEF Lease, LeaseState, Agrees
<1> HIDE DEF l, q, r
<1>5. CASE lease' = l
  <2>1. IInv'
    BY <1>1, <1>2, <1>5, RestoreKeepsSettings
  <2> QED BY <1>1, <1>5, <2>1 DEF Granted, NotOvertaken
<1>6. CASE Room(l, EffectiveLimit) > 0 /\ lease' = [l EXCEPT ![s] = r]
  BY <1>1, <1>2, <1>4, <1>6, GrantedAtOnceStep
<1> QED BY <1>3, <1>5, <1>6

LEMMA LeaveQueueStep ==
  ASSUME IInv, NEW s \in Session, LeaveQueue(s)
  PROVE  IInv' /\ Granted /\ NotOvertaken
<1>1. PICK at \in DOMAIN queue : queue' = RemoveAt(queue, at)
  BY DEF LeaveQueue
<1>2. at \in 1 .. Len(queue) /\ Disciplined(lease, queue)
  BY LenProperties DEF IInv, Disciplined
<1>3. Disciplined(lease, queue') /\ lease' = lease
  BY <1>1, <1>2, RemoveKeepsDiscipline DEF LeaveQueue
<1>4. UNCHANGED <<limitVars, reducedLimit, cooldown>>
  BY DEF LeaveQueue
<1>5. ReductionIsTemporary'
  BY <1>4 DEF IInv, ReductionIsTemporary
<1>6. Disciplined(lease', queue')
  BY <1>3
<1>7. \A t \in Session : Agrees(lease'[t])
  BY <1>3 DEF IInv
<1>8. IInv'
  BY <1>4, <1>5, <1>6, <1>7 DEF IInv, limitVars, Disciplined, Agrees
<1> QED BY <1>3, <1>8 DEF Granted, NotOvertaken

LEMMA ReleaseLeaseStep ==
  ASSUME IInv, NEW s \in Session, ReleaseLease(s)
  PROVE  IInv' /\ Granted /\ NotOvertaken
<1> DEFINE l == [lease EXCEPT ![s] = NoLease]
<1>1. lease \in [Session -> Lease] /\ queue \in Seq(QueuedRequest) /\ Disciplined(lease, queue)
  BY DEF IInv, Disciplined
<1>2. /\ l \in [Session -> Lease]
      /\ \A t \in Session : l[t] = IF t = s THEN NoLease ELSE lease[t]
  BY <1>1, NoLeaseFacts
<1>3. Promote(l, queue) /\ UNCHANGED limitVars
  BY DEF ReleaseLease
<1> HIDE DEF l
<1>4. \A i \in 1 .. Len(queue) : l[queue[i].session].state = "free"
  BY <1>1, <1>2, NoLeaseFacts, QueueElement DEF Disciplined
<1>5. Disciplined(l, queue)
  BY <1>1, <1>2, <1>4, LeasesKeepDiscipline
<1>6. \A t \in Session : Agrees(l[t])
  BY <1>2, NoLeaseFacts DEF IInv
<1>7. \A t \in Session : lease[t].state = "free" => l[t].state = "free"
  BY <1>2, NoLeaseFacts
<1> QED BY <1>3, <1>5, <1>6, <1>7, PromoteStep

LEMMA ExpireStep ==
  ASSUME IInv, NEW aged, ExpireUnconsumedLeases(aged)
  PROVE  IInv' /\ Granted /\ NotOvertaken
<1> DEFINE l == [s \in Session |-> IF s \in aged THEN NoLease ELSE lease[s]]
<1>1. lease \in [Session -> Lease] /\ queue \in Seq(QueuedRequest) /\ Disciplined(lease, queue)
  BY DEF IInv, Disciplined
<1>2. /\ l \in [Session -> Lease]
      /\ \A t \in Session : l[t] = NoLease \/ l[t] = lease[t]
  BY <1>1, NoLeaseFacts
<1>3. Promote(l, queue) /\ UNCHANGED limitVars
  BY DEF ExpireUnconsumedLeases
<1> HIDE DEF l
<1>4. \A i \in 1 .. Len(queue) : l[queue[i].session].state = "free"
  <2>1. SUFFICES ASSUME NEW i \in 1 .. Len(queue)
                 PROVE  l[queue[i].session].state = "free"
    OBVIOUS
  <2>2. queue[i].session \in Session /\ lease[queue[i].session].state = "free"
    BY <1>1, QueueElement DEF Disciplined
  <2> QED BY <1>2, <2>2, NoLeaseFacts
<1>5. Disciplined(l, queue)
  BY <1>1, <1>2, <1>4, LeasesKeepDiscipline
<1>6. \A t \in Session : Agrees(l[t])
  BY <1>2, NoLeaseFacts DEF IInv
<1>7. \A t \in Session : lease[t].state = "free" => l[t].state = "free"
  BY <1>2, NoLeaseFacts
<1> QED BY <1>3, <1>5, <1>6, <1>7, PromoteStep

LEMMA MarkStep ==
  ASSUME IInv, NEW s \in Session,
         MarkConsumed(s) \/ MarkFirstByte(s) \/ \E stuck \in BOOLEAN : MarkTerminating(s, stuck)
  PROVE  IInv' /\ Granted /\ NotOvertaken
<1>1. PICK r : UpdateLease(s, r) /\ r \in Lease /\ r.state # "free" /\ Agrees(r)
  <2>0. lease[s] \in Lease /\ Agrees(lease[s])
    BY DEF IInv, Disciplined
  <2>1. CASE MarkConsumed(s)
    <3> DEFINE r == [lease[s] EXCEPT !.consumed = TRUE,
                                     !.state = IF @ = "reserved" THEN "attached" ELSE @]
    <3>1. UpdateLease(s, r) /\ lease[s].state # "free"
      BY <2>1 DEF MarkConsumed, UpdateLease, Leased
    <3>2. r \in Lease /\ r.state # "free" /\ Agrees(r)
      BY <2>0, <3>1 DEF Lease, LeaseState, Agrees
    <3> QED BY <3>1, <3>2
  <2>2. CASE MarkFirstByte(s)
    <3> DEFINE r == [lease[s] EXCEPT !.consumed = TRUE, !.firstByte = TRUE,
                          !.state = IF @ \in {"reserved", "attached"} THEN "active" ELSE @]
    <3>1. UpdateLease(s, r) /\ lease[s].state # "free"
      BY <2>2 DEF MarkFirstByte, UpdateLease, Leased
    <3>2. r \in Lease /\ r.state # "free" /\ Agrees(r)
      BY <2>0, <3>1 DEF Lease, LeaseState, Agrees
    <3> QED BY <3>1, <3>2
  <2>3. CASE \E stuck \in BOOLEAN : MarkTerminating(s, stuck)
    <3>1. PICK stuck \in BOOLEAN : MarkTerminating(s, stuck)
      BY <2>3
    <3> DEFINE r == [lease[s] EXCEPT !.state = IF stuck THEN "stuck" ELSE "terminating"]
    <3>2. UpdateLease(s, r)
      BY <3>1 DEF MarkTerminating
    <3>3. r \in Lease /\ r.state # "free" /\ Agrees(r)
      BY <2>0 DEF Lease, LeaseState, Agrees
    <3> QED BY <3>2, <3>3
  <2> QED BY <2>1, <2>2, <2>3
<1>2. IInv' /\ Leased(lease') = Leased(lease)
  BY <1>1, LeaseChangeStep DEF UpdateLease, Leased
<1> QED BY <1>2 DEF Granted, NotOvertaken

LEMMA SettingsStep ==
  ASSUME IInv, UNCHANGED <<lease, queue>>,
         \/ \E s \in Session : Report453(s)
         \/ ReadEffectiveLimit
         \/ CooldownElapses
         \/ \E limit \in Limits : ConfigureNvr(limit) \/ SetGlobalDefaultLimit(limit)
  PROVE  IInv' /\ Granted /\ NotOvertaken
<1>1. /\ configuredLimit' \in Limits /\ globalDefaultLimit' \in Limits
      /\ reducedLimit' \in Nat
      /\ cooldown' \in {"none", "running", "elapsed"}
      /\ ReductionIsTemporary'
  <2>1. CASE \E s \in Session : Report453(s)
    <3>1. PICK s \in Session : Report453(s)
      BY <2>1
    <3> DEFINE playing == {t \in Leased(lease) : t # s /\ lease[t].firstByte}
               healthy == Cardinality(playing)
               target == IF healthy < 1 THEN 1 ELSE healthy
    <3>2. healthy \in Nat
      <4>1. playing \in SUBSET Session
        BY DEF Leased
      <4>2. IsFiniteSet(playing)
        BY <4>1, SessionAssumption, FS_Subset
      <4> QED BY <4>2, FS_CardinalityType
    <3>3. /\ reducedLimit' = IF Reduction # 0 /\ Reduction < target THEN Reduction ELSE target
          /\ cooldown' = "running" /\ UNCHANGED limitVars
      BY <3>1 DEF Report453, ReductionAfter453
    <3> HIDE DEF playing, healthy
    <3>4. target \in Nat \ {0} /\ Reduction \in Nat
      BY <3>2 DEF IInv, Reduction
    <3> HIDE DEF target
    <3> QED BY <3>3, <3>4 DEF IInv, ReductionIsTemporary, limitVars
  <2>2. CASE ReadEffectiveLimit
    BY <2>2 DEF IInv, ReadEffectiveLimit, RestoreCapacityIfElapsed, Reduction,
                ReductionIsTemporary, limitVars
  <2>3. CASE CooldownElapses
    BY <2>3 DEF IInv, CooldownElapses, ReductionIsTemporary, limitVars
  <2>4. CASE \E limit \in Limits : ConfigureNvr(limit) \/ SetGlobalDefaultLimit(limit)
    BY <2>4 DEF IInv, ConfigureNvr, SetGlobalDefaultLimit, ReductionIsTemporary, limitVars
  <2> QED BY <2>1, <2>2, <2>3, <2>4
<1>2. Disciplined(lease', queue') /\ \A s \in Session : Agrees(lease'[s])
  BY DEF IInv
<1>3. IInv'
  BY <1>1, <1>2 DEF IInv, Disciplined, Agrees
<1> QED BY <1>3 DEF Granted, NotOvertaken

----------------------------------------------------------------------------
(* The invariant holds, and every step from it grants as it should *)

LEMMA InitEstablishes == Init => IInv
<1> SUFFICES ASSUME Init PROVE IInv
  OBVIOUS
<1>1. /\ configuredLimit \in Limits /\ globalDefaultLimit \in Limits
      /\ reducedLimit \in Nat /\ cooldown \in {"none", "running", "elapsed"}
      /\ ReductionIsTemporary
  BY LimitsAssumption DEF Init, ReductionIsTemporary
<1>2. Disciplined(lease, queue)
  BY NoLeaseFacts DEF Init, Disciplined
<1>3. \A s \in Session : Agrees(lease[s])
  BY NoLeaseFacts DEF Init
<1> QED BY <1>1, <1>2, <1>3 DEF IInv

LEMMA EveryStep ==
  ASSUME IInv, [Next]_vars
  PROVE  IInv' /\ Granted /\ NotOvertaken
<1>1. CASE UNCHANGED vars
  <2>1. IInv'
    BY <1>1 DEF IInv, vars, ReductionIsTemporary, Disciplined, Agrees
  <2> QED BY <1>1, <2>1 DEF vars, Granted, NotOvertaken
<1>2. ASSUME NEW s \in Session, SessionStep(s)
      PROVE  IInv' /\ Granted /\ NotOvertaken
  <2>1. CASE Acquire(s)
    BY <2>1, AcquireStep
  <2>2. CASE AcquireDiagnostic(s)
    BY <2>2, AcquireDiagnosticStep
  <2>3. CASE ReleaseLease(s)
    BY <2>3, ReleaseLeaseStep
  <2>4. CASE LeaveQueue(s)
    BY <2>4, LeaveQueueStep
  <2>5. CASE MarkConsumed(s) \/ MarkFirstByte(s) \/ \E stuck \in BOOLEAN : MarkTerminating(s, stuck)
    BY <2>5, MarkStep
  <2>6. CASE Report453(s)
    BY <2>6, SettingsStep DEF Report453
  <2> QED BY <1>2, <2>1, <2>2, <2>3, <2>4, <2>5, <2>6 DEF SessionStep, Release, CancelQueued
<1>3. CASE NvrStep
  <2>1. CASE Reconcile
    <3>1. Disciplined(lease, queue) /\ \A s \in Session : Agrees(lease[s])
      BY DEF IInv
    <3> QED BY <2>1, <3>1, PromoteStep DEF Reconcile
  <2>2. CASE \E aged \in SUBSET Unconsumed(lease) : ExpireUnconsumedLeases(aged)
    BY <2>2, ExpireStep
  <2>3. CASE ReadEffectiveLimit
    BY <2>3, SettingsStep DEF ReadEffectiveLimit
  <2>4. CASE CooldownElapses
    BY <2>4, SettingsStep DEF CooldownElapses
  <2>5. CASE \E limit \in Limits : ConfigureNvr(limit) \/ SetGlobalDefaultLimit(limit)
    <3>1. UNCHANGED <<lease, queue>>
      BY <2>5 DEF ConfigureNvr, SetGlobalDefaultLimit
    <3> QED BY <2>5, <3>1, SettingsStep
  <2> QED BY <1>3, <2>1, <2>2, <2>3, <2>4, <2>5 DEF NvrStep
<1> QED BY <1>1, <1>2, <1>3 DEF Next

\* The inductive invariant holds in every reachable state.
THEOREM Inductive == Spec => []IInv
<1>1. IInv /\ [Next]_vars => IInv'
  BY EveryStep
<1> QED BY InitEstablishes, <1>1, PTL DEF Spec

\* Every variable keeps its type through every operation of the controller.
THEOREM TypeCorrect == Spec => []TypeOK
<1>1. IInv => TypeOK
  BY DEF IInv, Disciplined, TypeOK
<1> QED BY <1>1, Inductive, PTL

\* For any number of sessions and any limits: nobody waits twice or beside a
\* lease, continuity waits before normal openings, and each predecessor has at
\* most one waiting heir (acquire, promote and queueClassFor together).
THEOREM QueueDiscipline == Spec => []QueueIsDisciplined
<1>1. ASSUME IInv PROVE QueueIsDisciplined
  <2>1. Disciplined(lease, queue) /\ queue \in Seq(QueuedRequest)
    BY <1>1 DEF IInv, Disciplined
  <2>0. DOMAIN queue = 1 .. Len(queue)
    BY <2>1, LenProperties
  <2>2. NoSessionTwice
    BY <2>0, <2>1 DEF Disciplined, NoSessionTwice, Waiting, Leased
  <2>3. ContinuityFirst /\ OneClaimWaiting
    BY <2>0, <2>1 DEF Disciplined, ContinuityFirst, OneClaimWaiting
  <2> QED BY <2>2, <2>3 DEF QueueIsDisciplined
<1>2. IInv => QueueIsDisciplined
  BY <1>1
<1> QED BY <1>2, Inductive, PTL

\* What a 453 narrows is always given back: no reduction is without a cooldown
\* (report453 and restoreCapacityIfElapsed).
THEOREM ReductionEnds == Spec => []ReductionIsTemporary
<1>1. IInv => ReductionIsTemporary
  BY DEF IInv
<1> QED BY <1>1, Inductive, PTL

\* The state of a lease agrees with what its stream did, in every order of the
\* marks (markConsumed, markFirstByte, markTerminating).
THEOREM LeasesAgree == Spec => []LeaseAgreesWithStream
<1>1. IInv => LeaseAgreesWithStream
  BY DEF IInv, Agrees, LeaseAgreesWithStream
<1> QED BY <1>1, Inductive, PTL

\* No step grants a lease beyond the limit then in force (promote, acquire).
THEOREM NeverBeyondTheLimit == Spec => GrantsWithinLimit
<1>1. IInv /\ [Next]_vars =>
        [Leased(lease') \subseteq Leased(lease) \/ Cardinality(Leased(lease')) <= EffectiveLimit]_vars
  BY EveryStep DEF Granted
<1> QED BY <1>1, Inductive, PTL DEF Spec, GrantsWithinLimit

\* No step gives a lease past the waiting requests (acquire after its reconcile).
THEOREM NeverOvertaken == Spec => NobodyOvertakesTheQueue
<1>1. IInv /\ [Next]_vars =>
        [\A s \in Leased(lease') \ Leased(lease) : s \in Waiting(queue) \/ queue' = <<>>]_vars
  BY EveryStep DEF NotOvertaken
<1> QED BY <1>1, Inductive, PTL DEF Spec, NobodyOvertakesTheQueue

----------------------------------------------------------------------------
(* First come, first served: what a step does to the order of the queue    *)

\* FifoWithinClass for the queue q before a step, the queue r and the leases l
\* after it.
OrderKept(q, r) ==
  \A k, m \in 1 .. Len(r) :
    (/\ k < m /\ r[k].queueClass = r[m].queueClass
     /\ \E a \in 1 .. Len(q) : q[a].session = r[m].session)
    => \E i, j \in 1 .. Len(q) : i < j /\ q[i] = r[k] /\ q[j] = r[m]

NotServedBefore(q, r, l) ==
  \A i, j \in 1 .. Len(q) :
    (/\ i < j /\ q[i].queueClass = q[j].queueClass
     /\ \E k \in 1 .. Len(r) : r[k].session = q[i].session)
    => l[q[j].session].state = "free"

Fifo(q, r, l) == OrderKept(q, r) /\ NotServedBefore(q, r, l)

LEMMA SameQueueIsFifo ==
  ASSUME NEW q, NEW l, \A i \in 1 .. Len(q) : l[q[i].session].state = "free"
  PROVE  Fifo(q, q, l)
BY DEF Fifo, OrderKept, NotServedBefore

LEMMA NobodyLeftIsFifo ==
  ASSUME NEW q, NEW l
  PROVE  Fifo(q, <<>>, l)
BY DEF Fifo, OrderKept, NotServedBefore

LEMMA RemoveIsFifo ==
  ASSUME NEW l, NEW q, Disciplined(l, q), NEW at \in 1 .. Len(q)
  PROVE  Fifo(q, RemoveAt(q, at), l)
<1> DEFINE r == RemoveAt(q, at)
           from == [i \in Int |-> IF i < at THEN i ELSE i + 1]
<1>1. q \in Seq(QueuedRequest) /\ Len(q) \in Nat
  BY LenProperties DEF Disciplined
<1>2. /\ r \in Seq(QueuedRequest) /\ Len(r) = Len(q) - 1
      /\ \A i \in 1 .. Len(q) - 1 : r[i] = IF i < at THEN q[i] ELSE q[i + 1]
  BY <1>1, RemoveAtFacts
<1> HIDE DEF r
<1>3. \A i \in 1 .. Len(r) : from[i] \in 1 .. Len(q) /\ r[i] = q[from[i]]
  BY <1>1, <1>2
<1>4. \A k, m \in 1 .. Len(r) : k < m => from[k] < from[m]
  BY <1>1, <1>2
<1> HIDE DEF from
<1>5. OrderKept(q, r)
  BY <1>3, <1>4 DEF OrderKept
<1>6. NotServedBefore(q, r, l)
  BY DEF Disciplined, NotServedBefore
<1> QED BY <1>5, <1>6 DEF Fifo, r

LEMMA PromoteIsFifo ==
  ASSUME NEW l, NEW q, NEW limit \in Nat, Disciplined(l, q)
  PROVE  /\ Fifo(q, RestOfQueue(l, q, limit), PromotedLeases(l, q, limit))
         /\ \A i \in 1 .. Len(q) :
              \/ PromotedLeases(l, q, limit)[q[i].session].state # "free"
              \/ \E k \in 1 .. Len(RestOfQueue(l, q, limit)) :
                    RestOfQueue(l, q, limit)[k] = q[i]
<1> DEFINE n == Fits(l, q, limit)
           r == RestOfQueue(l, q, limit)
           p == PromotedLeases(l, q, limit)
<1>1. l \in [Session -> Lease] /\ q \in Seq(QueuedRequest)
  BY DEF Disciplined
<1>2. n \in 0 .. Len(q) /\ Len(q) \in Nat
  BY <1>1, FitsFacts, LenProperties
<1>3. /\ r \in Seq(QueuedRequest) /\ Len(r) = Len(q) - n
      /\ \A i \in 1 .. Len(q) - n : r[i] = q[n + i]
  BY <1>1, RestFacts
<1>4. \A s \in Session :
           \/ \E i \in 1 .. n : q[i].session = s /\ p[s] = Reservation
           \/ (\A i \in 1 .. n : q[i].session # s) /\ p[s] = l[s]
  BY <1>1, PromotedFacts
<1> HIDE DEF n, r, p
<1>5. OrderKept(q, r)
  <2>1. SUFFICES ASSUME NEW k \in 1 .. Len(r), NEW m \in 1 .. Len(r), k < m
                 PROVE  \E i, j \in 1 .. Len(q) : i < j /\ q[i] = r[k] /\ q[j] = r[m]
    BY DEF OrderKept
  <2>2. /\ n + k \in 1 .. Len(q) /\ n + m \in 1 .. Len(q) /\ n + k < n + m
        /\ r[k] = q[n + k] /\ r[m] = q[n + m]
    BY <1>2, <1>3, <2>1
  <2> QED BY <2>2
<1>6. NotServedBefore(q, r, p)
  <2>1. SUFFICES ASSUME NEW i \in 1 .. Len(q), NEW j \in 1 .. Len(q), i < j,
                        NEW k \in 1 .. Len(r), r[k].session = q[i].session
                 PROVE  p[q[j].session].state = "free"
    BY DEF NotServedBefore
  <2>2. n + k \in 1 .. Len(q) /\ r[k] = q[n + k]
    BY <1>2, <1>3
  <2>3. i = n + k
    BY <2>1, <2>2 DEF Disciplined
  <2>4. \A h \in 1 .. n : q[h].session # q[j].session
    BY <1>2, <2>1, <2>3 DEF Disciplined
  <2>5. q[j].session \in Session /\ l[q[j].session].state = "free"
    BY <1>1, QueueElement DEF Disciplined
  <2> QED BY <1>4, <2>4, <2>5
<1>7. ASSUME NEW i \in 1 .. Len(q)
      PROVE  p[q[i].session].state # "free" \/ \E k \in 1 .. Len(r) : r[k] = q[i]
  <2>1. q[i].session \in Session /\ l[q[i].session].state = "free"
    BY <1>1, QueueElement DEF Disciplined
  <2>2. CASE i <= n
    <3>1. \E h \in 1 .. n : q[h].session = q[i].session
      BY <1>2, <2>2
    <3>2. p[q[i].session] = Reservation
      BY <1>4, <2>1, <3>1
    <3> QED BY <3>2, NoLeaseFacts
  <2>3. CASE ~(i <= n)
    <3>1. i - n \in 1 .. Len(r) /\ r[i - n] = q[n + (i - n)] /\ n + (i - n) = i
      BY <1>2, <1>3, <2>3
    <3>2. r[i - n] = q[i]
      BY <3>1
    <3> QED BY <3>1, <3>2
  <2> QED BY <2>2, <2>3
<1> QED BY <1>5, <1>6, <1>7 DEF Fifo, r, p

\* A request that takes its place in what is left of q stands behind all of its
\* class.
LEMMA InsertIsFifo ==
  ASSUME NEW l, NEW q \in Seq(QueuedRequest), NEW r, Disciplined(l, r), Fifo(q, r, l),
         \A i \in 1 .. Len(q) :
            l[q[i].session].state # "free" \/ \E k \in 1 .. Len(r) : r[k] = q[i],
         NEW s \in Session, NEW class \in {"continuity", "normal"}, NEW p \in Session \cup {NoSession},
         l[s].state = "free", \A k \in 1 .. Len(r) : r[k].session # s,
         class = "continuity" => p \in Session,
         NEW at \in 1 .. Len(r) + 1, IsPlace(r, class, at)
  PROVE  Fifo(q, InsertAt(r, at, Request(s, class, p)), l)
<1> DEFINE e == Request(s, class, p)
           t == InsertAt(r, at, e)
           from == [i \in Int |-> IF i < at THEN i ELSE i - 1]
<1>1. r \in Seq(QueuedRequest) /\ Len(r) \in Nat
  BY LenProperties DEF Disciplined
<1>2. e \in QueuedRequest /\ e.session = s /\ e.queueClass = class
  BY DEF Request, QueuedRequest
<1> HIDE DEF e
<1>3. /\ Len(t) = Len(r) + 1
      /\ \A i \in 1 .. Len(r) + 1 :
           t[i] = IF i < at THEN r[i] ELSE IF i = at THEN e ELSE r[i - 1]
  BY <1>1, <1>2, InsertAtFacts
<1> HIDE DEF t
<1>4. t[at] = e /\ \A i \in 1 .. Len(t) : i # at => from[i] \in 1 .. Len(r) /\ t[i] = r[from[i]]
  BY <1>1, <1>3
<1>5. \A k, m \in 1 .. Len(t) : (k < m /\ k # at /\ m # at) => from[k] < from[m]
  BY <1>1, <1>3
<1>6. \A m \in 1 .. Len(t) : m > at => from[m] >= at /\ at <= Len(r)
  BY <1>1, <1>3
<1> HIDE DEF from
<1>7. \A i \in 1 .. Len(q) : q[i].session # s
  BY DEF Fifo
<1>8. ASSUME NEW k \in 1 .. Len(t), NEW m \in 1 .. Len(t), k < m,
             t[k].queueClass = t[m].queueClass,
             NEW a \in 1 .. Len(q), q[a].session = t[m].session
      PROVE  \E i, j \in 1 .. Len(q) : i < j /\ q[i] = t[k] /\ q[j] = t[m]
  <2>1. m # at
    BY <1>2, <1>4, <1>7, <1>8
  <2>2. k # at
    <3>1. SUFFICES ASSUME k = at PROVE FALSE
      OBVIOUS
    <3>2. from[m] >= at /\ at <= Len(r) /\ from[m] \in 1 .. Len(r) /\ t[m] = r[from[m]]
      BY <1>4, <1>6, <1>8, <2>1, <3>1
    <3>3. class = "continuity" /\ r[at].queueClass = "normal"
      BY <1>1, <3>2 DEF IsPlace
    <3>4. r[from[m]].queueClass = "continuity"
      BY <1>2, <1>4, <1>8, <3>1, <3>2, <3>3
    <3>5. r[at].queueClass = "continuity"
      BY <3>2, <3>4 DEF Disciplined
    <3> QED BY <3>3, <3>5
  <2>3. /\ from[k] \in 1 .. Len(r) /\ from[m] \in 1 .. Len(r) /\ from[k] < from[m]
        /\ t[k] = r[from[k]] /\ t[m] = r[from[m]]
    BY <1>4, <1>5, <1>8, <2>1, <2>2
  <2>4. OrderKept(q, r)
    BY DEF Fifo
  <2>5. \E a1 \in 1 .. Len(q) : q[a1].session = r[from[m]].session
    BY <1>8, <2>3
  <2>6. r[from[k]].queueClass = r[from[m]].queueClass
    BY <1>8, <2>3
  <2>7. \E i, j \in 1 .. Len(q) : i < j /\ q[i] = r[from[k]] /\ q[j] = r[from[m]]
    BY <2>3, <2>4, <2>5, <2>6 DEF OrderKept
  <2> QED BY <2>3, <2>7
<1>9. OrderKept(q, t)
  BY <1>8 DEF OrderKept
<1>10. NotServedBefore(q, t, l)
  <2>1. SUFFICES ASSUME NEW i \in 1 .. Len(q), NEW j \in 1 .. Len(q), i < j,
                        q[i].queueClass = q[j].queueClass,
                        NEW k \in 1 .. Len(t), t[k].session = q[i].session
                 PROVE  l[q[j].session].state = "free"
    BY DEF NotServedBefore
  <2>2. k # at
    BY <1>2, <1>4, <1>7, <2>1
  <2>3. from[k] \in 1 .. Len(r) /\ r[from[k]].session = q[i].session
    BY <1>4, <2>1, <2>2
  <2> QED BY <2>1, <2>3 DEF Fifo, NotServedBefore
<1> QED BY <1>9, <1>10 DEF Fifo, t, e

LEMMA PromoteServesInOrder ==
  ASSUME IInv, NEW l, Disciplined(l, queue), Promote(l, queue)
  PROVE  Fifo(queue, queue', lease')
BY LimitIsNat, PromoteIsFifo DEF Promote

LEMMA AcquireServesInOrder ==
  ASSUME IInv, NEW s \in Session, Acquire(s) \/ AcquireDiagnostic(s)
  PROVE  Fifo(queue, queue', lease')
<1> DEFINE l == PromotedLeases(lease, queue, EffectiveLimit)
           q == RestOfQueue(lease, queue, EffectiveLimit)
<1>1. /\ Disciplined(l, q)
      /\ Room(l, EffectiveLimit) > 0 => q = <<>>
  BY ReconciledFirst
<1>2. /\ queue \in Seq(QueuedRequest) /\ Disciplined(lease, queue) /\ EffectiveLimit \in Nat
  BY LimitIsNat DEF IInv, Disciplined
<1>3. /\ Fifo(queue, q, l)
      /\ \A i \in 1 .. Len(queue) :
           l[queue[i].session].state # "free" \/ \E k \in 1 .. Len(q) : q[k] = queue[i]
  BY <1>2, PromoteIsFifo
<1>4. \/ lease' = l /\ queue' = q
      \/ Room(l, EffectiveLimit) > 0 /\ queue' = q
      \/ /\ s \notin Leased(l) \cup Waiting(q) /\ lease' = l
         /\ \E p \in Session \cup {NoSession} : Insert(q, s, QueueClass(l, q, s, p), p)
  BY DEF Acquire, AcquireDiagnostic
<1> HIDE DEF l, q
<1>5. CASE lease' = l /\ queue' = q
  BY <1>3, <1>5
<1>6. CASE Room(l, EffectiveLimit) > 0 /\ queue' = q
  BY <1>1, <1>6, NobodyLeftIsFifo
<1>7. CASE /\ s \notin Leased(l) \cup Waiting(q) /\ lease' = l
           /\ \E p \in Session \cup {NoSession} : Insert(q, s, QueueClass(l, q, s, p), p)
  <2>1. PICK p \in Session \cup {NoSession} : Insert(q, s, QueueClass(l, q, s, p), p)
    BY <1>7
  <2> DEFINE class == QueueClass(l, q, s, p)
  <2>2. PICK at \in 1 .. Len(q) + 1 :
           IsPlace(q, class, at) /\ queue' = InsertAt(q, at, Request(s, class, p))
    BY <2>1 DEF Insert
  <2>3. l[s].state = "free" /\ \A k \in 1 .. Len(q) : q[k].session # s
    <3>1. DOMAIN q = 1 .. Len(q)
      BY <1>1, LenProperties DEF Disciplined
    <3> QED BY <1>7, <3>1 DEF Leased, Waiting
  <2>4. class \in {"continuity", "normal"} /\ (class = "continuity" => p \in Session)
    BY DEF QueueClass
  <2> HIDE DEF class
  <2> QED BY <1>1, <1>2, <1>3, <1>7, <2>2, <2>3, <2>4, InsertIsFifo
<1> QED BY <1>4, <1>5, <1>6, <1>7

LEMMA EveryStepServesInOrder ==
  ASSUME IInv, [Next]_vars
  PROVE  Fifo(queue, queue', lease')
<1>1. /\ Disciplined(lease, queue) /\ lease \in [Session -> Lease]
      /\ queue \in Seq(QueuedRequest)
  BY DEF IInv, Disciplined
<1>2. CASE UNCHANGED <<lease, queue>>
  BY <1>1, <1>2, SameQueueIsFifo DEF Disciplined
<1>3. ASSUME NEW s \in Session, LeaveQueue(s)
      PROVE  Fifo(queue, queue', lease')
  <2>1. PICK at \in DOMAIN queue : queue' = RemoveAt(queue, at)
    BY <1>3 DEF LeaveQueue
  <2>2. at \in 1 .. Len(queue) /\ lease' = lease
    BY <1>1, <1>3, LenProperties DEF LeaveQueue
  <2> QED BY <1>1, <2>1, <2>2, RemoveIsFifo
<1>4. ASSUME NEW s \in Session, NEW r, UpdateLease(s, r)
      PROVE  Fifo(queue, queue', lease')
  <2>1. queue' = queue /\ lease' = [lease EXCEPT ![s] = r] /\ lease[s].state # "free"
    BY <1>4 DEF UpdateLease, Leased
  <2>2. ASSUME NEW i \in 1 .. Len(queue) PROVE lease'[queue[i].session].state = "free"
    <3>1. queue[i].session \in Session /\ lease[queue[i].session].state = "free"
      BY <1>1, QueueElement DEF Disciplined
    <3> QED BY <1>1, <2>1, <3>1
  <2> QED BY <2>1, <2>2, SameQueueIsFifo
<1>5. ASSUME NEW s \in Session, ReleaseLease(s)
      PROVE  Fifo(queue, queue', lease')
  <2> DEFINE l == [lease EXCEPT ![s] = NoLease]
  <2>1. l \in [Session -> Lease] /\ \A t \in Session : l[t] = NoLease \/ l[t] = lease[t]
    BY <1>1, NoLeaseFacts
  <2>2. Promote(l, queue)
    BY <1>5 DEF ReleaseLease
  <2> HIDE DEF l
  <2>3. Disciplined(l, queue)
    BY <1>1, <2>1, FreedKeepsDiscipline
  <2> QED BY <2>2, <2>3, PromoteServesInOrder
<1>6. ASSUME NEW aged, ExpireUnconsumedLeases(aged)
      PROVE  Fifo(queue, queue', lease')
  <2> DEFINE l == [s \in Session |-> IF s \in aged THEN NoLease ELSE lease[s]]
  <2>1. l \in [Session -> Lease] /\ \A t \in Session : l[t] = NoLease \/ l[t] = lease[t]
    BY <1>1, NoLeaseFacts
  <2>2. Promote(l, queue)
    BY <1>6 DEF ExpireUnconsumedLeases
  <2> HIDE DEF l
  <2>3. Disciplined(l, queue)
    BY <1>1, <2>1, FreedKeepsDiscipline
  <2> QED BY <2>2, <2>3, PromoteServesInOrder
<1>7. ASSUME NEW s \in Session, SessionStep(s)
      PROVE  Fifo(queue, queue', lease')
  <2>1. CASE MarkConsumed(s) \/ MarkFirstByte(s) \/ \E stuck \in BOOLEAN : MarkTerminating(s, stuck)
    BY <1>4, <2>1 DEF MarkConsumed, MarkFirstByte, MarkTerminating
  <2>2. CASE Report453(s)
    BY <1>2, <2>2 DEF Report453
  <2> QED BY <1>3, <1>5, <1>7, <2>1, <2>2, AcquireServesInOrder
        DEF SessionStep, Release, CancelQueued
<1>8. CASE NvrStep
  <2>1. CASE Reconcile
    BY <1>1, <2>1, PromoteServesInOrder DEF Reconcile
  <2>2. CASE \/ ReadEffectiveLimit \/ CooldownElapses
             \/ \E limit \in Limits : ConfigureNvr(limit) \/ SetGlobalDefaultLimit(limit)
    <3>1. UNCHANGED <<lease, queue>>
      BY <2>2 DEF ReadEffectiveLimit, CooldownElapses, ConfigureNvr, SetGlobalDefaultLimit
    <3> QED BY <1>2, <3>1
  <2> QED BY <1>6, <1>8, <2>1, <2>2 DEF NvrStep
<1>9. CASE UNCHANGED vars
  BY <1>2, <1>9 DEF vars
<1> QED BY <1>7, <1>8, <1>9 DEF Next

\* Within a class the queue is first come, first served, whoever is inserted,
\* promoted or withdrawn (acquire, promote, cancelQueued).
THEOREM FirstComeFirstServed == Spec => FifoWithinClass
<1>1. ASSUME IInv, [Next]_vars
      PROVE  /\ \A k, m \in DOMAIN queue' :
                  (/\ k < m /\ queue'[k].queueClass = queue'[m].queueClass
                   /\ queue'[m].session \in Waiting(queue))
                  => \E i, j \in DOMAIN queue : i < j /\ queue[i] = queue'[k] /\ queue[j] = queue'[m]
             /\ \A i, j \in DOMAIN queue :
                  (/\ i < j /\ queue[i].queueClass = queue[j].queueClass
                   /\ queue[i].session \in Waiting(queue'))
                  => queue[j].session \notin Leased(lease')
  <2>1. Fifo(queue, queue', lease')
    BY <1>1, EveryStepServesInOrder
  <2>2. queue \in Seq(QueuedRequest) /\ queue' \in Seq(QueuedRequest)
    BY <1>1, EveryStep DEF IInv, Disciplined
  <2>3. DOMAIN queue = 1 .. Len(queue) /\ DOMAIN queue' = 1 .. Len(queue')
    BY <2>2, LenProperties
  <2>4. /\ \A t \in Waiting(queue) : \E a \in 1 .. Len(queue) : queue[a].session = t
        /\ \A t \in Waiting(queue') : \E a \in 1 .. Len(queue') : queue'[a].session = t
    BY <2>3 DEF Waiting
  <2>5. ASSUME NEW k \in DOMAIN queue', NEW m \in DOMAIN queue',
               k < m, queue'[k].queueClass = queue'[m].queueClass,
               queue'[m].session \in Waiting(queue)
        PROVE  \E i, j \in DOMAIN queue : i < j /\ queue[i] = queue'[k] /\ queue[j] = queue'[m]
    <3>1. \E a \in 1 .. Len(queue) : queue[a].session = queue'[m].session
      BY <2>4, <2>5
    <3>2. OrderKept(queue, queue') /\ k \in 1 .. Len(queue') /\ m \in 1 .. Len(queue')
      BY <2>1, <2>3 DEF Fifo
    <3>3. \E i, j \in 1 .. Len(queue) : i < j /\ queue[i] = queue'[k] /\ queue[j] = queue'[m]
      BY <2>5, <3>1, <3>2 DEF OrderKept
    <3> QED BY <2>3, <3>3
  <2>6. ASSUME NEW i \in DOMAIN queue, NEW j \in DOMAIN queue,
               i < j, queue[i].queueClass = queue[j].queueClass,
               queue[i].session \in Waiting(queue')
        PROVE  queue[j].session \notin Leased(lease')
    <3>1. \E k \in 1 .. Len(queue') : queue'[k].session = queue[i].session
      BY <2>4, <2>6
    <3>2. lease'[queue[j].session].state = "free"
      BY <2>1, <2>3, <2>6, <3>1 DEF Fifo, NotServedBefore
    <3> QED BY <3>2 DEF Leased
  <2> QED BY <2>5, <2>6
<1>2. IInv /\ [Next]_vars =>
        [/\ \A k, m \in DOMAIN queue' :
              (/\ k < m /\ queue'[k].queueClass = queue'[m].queueClass
               /\ queue'[m].session \in Waiting(queue))
              => \E i, j \in DOMAIN queue : i < j /\ queue[i] = queue'[k] /\ queue[j] = queue'[m]
         /\ \A i, j \in DOMAIN queue :
              (/\ i < j /\ queue[i].queueClass = queue[j].queueClass
               /\ queue[i].session \in Waiting(queue'))
              => queue[j].session \notin Leased(lease')]_vars
  BY <1>1
<1> QED BY <1>2, Inductive, PTL DEF Spec, FifoWithinClass
============================================================================
