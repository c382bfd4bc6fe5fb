------------------------ MODULE LiveTranscodeProofs ------------------------
(***************************************************************************)
(* What holds of the live stream manager for any views and any bounds.     *)
(*                                                                         *)
(* The invariant has two halves.  RequestsOK is about the requests, the    *)
(* sessions, the close marks and the flight: every view's session is newer *)
(* than its mark (Marked), a waiter waits for a start that has answered or *)
(* still runs (Waits), and who owns a flight that is starting has not      *)
(* begun to give the path up (Starts).  ProcessOK is about the process,    *)
(* its numbers and its retentions.  Each action is proved to keep the two  *)
(* halves apart; what the actions share (a request that moves on, a        *)
(* session that is registered, a path that is judged) is a lemma.          *)
(*                                                                         *)
(* Without picks elements of a sequence by counting them; that it picks    *)
(* the ones meant rests on the order of the naturals (LeastElement).       *)
(***************************************************************************)
EXTENDS LiveTranscode, FiniteSetTheorems, SequenceTheorems, WellFoundedInduction, TLAPS

(* A set of naturals has a least element.                                  *)
LEMMA LeastElement ==
  ASSUME NEW S \in SUBSET Nat, S # {}
  PROVE  \E m \in S : \A k \in S : m <= k
<1>1. PICK m \in S : \A k \in S : <<k, m>> \notin OpToRel(<, Nat)
  BY NatLessThanWellFounded, WFMin, Zenon
<1>2. ASSUME NEW k \in S PROVE ~(k < m)
  <2>1. <<k, m>> \in Nat \X Nat
    OBVIOUS
  <2>2. SUFFICES ASSUME k < m PROVE FALSE
    OBVIOUS
  <2>3. <<k, m>> \in OpToRel(<, Nat)
    BY <2>1, <2>2 DEF OpToRel
  <2> QED
    BY <2>3, <1>1
<1> QED
  BY <1>2

(* The elements of a set of naturals are counted in order.                 *)
LEMMA CountedInOrder ==
  ASSUME NEW S \in SUBSET Nat, IsFiniteSet(S), NEW k \in 1..Cardinality(S)
  PROVE  \E i \in S : Cardinality({j \in S : j <= i}) = k
<1> DEFINE Count(i) == Cardinality({j \in S : j <= i})
           Missing == {c \in 1..Cardinality(S) : ~\E i \in S : Count(i) = c}
<1>1. Cardinality(S) \in Nat
  BY FS_CardinalityType
<1>2. SUFFICES ASSUME Missing # {} PROVE FALSE
  OBVIOUS
<1>3. PICK c \in Missing : \A d \in Missing : c <= d
  <2>1. Missing \in SUBSET Nat
    BY <1>1
  <2> QED
    BY <2>1, <1>2, LeastElement
<1>4. c \in 1..Cardinality(S) /\ c \in Nat /\ ~\E i \in S : Count(i) = c
  BY <1>3, <1>1
(* The elements that come after the c - 1 first ones.                      *)
<1>5. PICK low \in SUBSET S : /\ Cardinality(low) = c - 1
                              /\ \A i \in S \ low, j \in low : j < i
  <2>1. CASE c = 1
    <3>1. {} \in SUBSET S /\ Cardinality({}) = c - 1
      BY <2>1, FS_EmptySet
    <3> QED
      BY <3>1
  <2>2. CASE c # 1
    <3>1. c - 1 \in 1..Cardinality(S) /\ c - 1 \notin Missing
      BY <2>2, <1>3, <1>4, <1>1
    <3>2. PICK i \in S : Count(i) = c - 1
      BY <3>1
    <3>3. \A a \in S \ {j \in S : j <= i}, b \in {j \in S : j <= i} : b < a
      OBVIOUS
    <3> QED
      BY <3>2, <3>3
  <2> QED
    BY <2>1, <2>2
<1>6. IsFiniteSet(low)
  BY <1>5, FS_Subset
<1>7. S \ low # {}
  <2>1. SUFFICES ASSUME S \ low = {} PROVE FALSE
    OBVIOUS
  <2>2. S = low
    BY <2>1
  <2>3. Cardinality(S) = c - 1
    BY <2>2, <1>5
  <2> QED
    BY <2>3, <1>4, <1>1
<1>8. PICK m \in S \ low : \A k1 \in S \ low : m <= k1
  <2>1. S \ low \in SUBSET Nat
    OBVIOUS
  <2> QED
    BY <2>1, <1>7, LeastElement
<1>9. {j \in S : j <= m} = low \cup {m}
  <2>1. ASSUME NEW j \in S, j <= m PROVE j \in low \cup {m}
    <3>1. CASE j \notin low
      <4>1. j \in Nat /\ m \in Nat /\ m <= j
        BY <3>1, <1>8
      <4> QED
        BY <4>1, <2>1
    <3> QED
      BY <3>1
  <2>2. ASSUME NEW j \in low PROVE j \in S /\ j <= m
    <3>1. j \in Nat /\ m \in Nat /\ j < m
      BY <1>8, <1>5
    <3> QED
      BY <3>1
  <2>3. m \in {j \in S : j <= m}
    OBVIOUS
  <2> QED
    BY <2>1, <2>2, <2>3
<1>10. Cardinality(low \cup {m}) = c
  <2>1. Cardinality(low \cup {m}) = Cardinality(low) + 1
    BY <1>6, FS_AddElement
  <2> QED
    BY <2>1, <1>5, <1>4
<1>11. m \in S /\ Count(m) = c
  BY <1>9, <1>10
<1> QED
  BY <1>4, <1>11

(***************************************************************************)
(* What the operators on retentions return.                                *)
(***************************************************************************)

(* What is left of a sequence without the elements at I.                   *)
LEMMA WithoutKeepsTheRest ==
  ASSUME NEW R, NEW rs \in Seq(R), NEW I
  PROVE  /\ Without(rs, I) \in Seq(R)
         /\ \A k \in DOMAIN Without(rs, I) :
               \E i \in DOMAIN rs : i \notin I /\ Without(rs, I)[k] = rs[i]
<1> DEFINE left == {i \in DOMAIN rs : i \notin I}
           place(k) == CHOOSE i \in left : Cardinality({j \in left : j <= i}) = k
<1>1. DOMAIN rs = 1..Len(rs) /\ Len(rs) \in Nat
  BY LenProperties
<1>2. IsFiniteSet(left) /\ left \in SUBSET Nat /\ Cardinality(left) \in Nat
  <2>1. IsFiniteSet(1..Len(rs))
    BY <1>1, FS_Interval
  <2>2. left \in SUBSET (1..Len(rs))
    BY <1>1
  <2>3. IsFiniteSet(left)
    BY <2>1, <2>2, FS_Subset
  <2> QED
    BY <2>2, <2>3, FS_CardinalityType
<1>3. \A k \in 1..Cardinality(left) : place(k) \in left
  <2>1. TAKE k \in 1..Cardinality(left)
  <2>2. \E i \in left : Cardinality({j \in left : j <= i}) = k
    BY <1>2, CountedInOrder
  <2> QED
    BY <2>2
<1>4. Without(rs, I) = [k \in 1..Cardinality(left) |-> rs[place(k)]]
  BY DEF Without
<1>5. \A k \in 1..Cardinality(left) : rs[place(k)] \in R
  BY <1>3, <1>1, ElementOfSeq
<1>6. [k \in 1..Cardinality(left) |-> rs[place(k)]] \in Seq(R)
  <2>1. [k \in 1..Cardinality(left) |-> rs[place(k)]] \in [1..Cardinality(left) -> R]
    BY <1>5
  <2> QED
    BY <2>1, <1>2, SeqDef
<1>7. DOMAIN Without(rs, I) = 1..Cardinality(left)
  BY <1>4
<1>8. ASSUME NEW k \in 1..Cardinality(left)
      PROVE  \E i \in DOMAIN rs : i \notin I /\ Without(rs, I)[k] = rs[i]
  <2>1. place(k) \in left /\ Without(rs, I)[k] = rs[place(k)]
    BY <1>3, <1>4
  <2> QED
    BY <2>1
<1> HIDE DEF left, place
<1> QED
  BY <1>4, <1>6, <1>7, <1>8

(***************************************************************************)
(* The inductive invariant.                                                *)
(***************************************************************************)

Working(r) == r.kind = "start" /\ r.on = 0 /\ r.phase \in StartPhases \ ReleasePhases
Flying(r) == r.kind = "start" /\ r.on = 0 /\ r.phase \in StartPhases

(* What a request may be in, and that only a waiter waits for another one. *)
PhaseOK(r) ==
  /\ r.kind = "close" => r.phase \in {"arrived", "closing", "done"}
  /\ r.kind = "stop" => r.phase \in {"arrived", "done"}
  /\ r.kind = "start" => r.phase # "closing"
  /\ r.phase \in {"arrived", "closing"} \cup (StartPhases \ ReleasePhases) => r.on = 0

RequestsTyped ==
  /\ requests \in Seq(Request) /\ Len(requests) <= MaxRequests
  /\ DOMAIN sessions \subseteq Views /\ sessions \in [DOMAIN sessions -> Session]
  /\ closedAt \in [Views -> 0..MaxRequests]
  /\ flight \in [state : {"none", "starting", "ready", "failed"}, owner : 0..MaxRequests]

Phased == \A n \in Tickets : PhaseOK(requests[n])

(* A session is newer than every close of its view, and a close that was   *)
(* handled left its mark.                                                  *)
Marked ==
  /\ \A v \in DOMAIN sessions : closedAt[v] < sessions[v].seq
  /\ \A n \in Tickets : Handled(n) /\ requests[n].kind = "close"
                           => n <= closedAt[requests[n].view]

Waits ==
  \A n \in Tickets : requests[n].phase = "waiting" =>
     /\ requests[n].on \in Tickets
     /\ requests[requests[n].on].answer # "none" \/ Flying(requests[requests[n].on])

(* Who owns a flight that is starting has not begun to give the path up.   *)
Starts ==
  flight.state = "starting" => flight.owner \in Tickets /\ Working(requests[flight.owner])

RequestsOK == RequestsTyped /\ Phased /\ Marked /\ Waits /\ Starts

(* Retentions of the processes there have been.                            *)
RetentionUpTo(k) == {r \in Retention : r.inst <= k}

ProcessOK ==
  /\ {proc, instance, spawned} \subseteq 0..MaxSpawns /\ proc \in {0, instance}
  /\ instance <= spawned
  /\ refusals \in 0..MaxRefusals /\ restarts \in 0..MaxRestarts /\ timers \in Nat
  /\ retentions \in Seq(RetentionUpTo(spawned))
  /\ {published, source, registered, onServer, deleting} \subseteq BOOLEAN
  /\ removals \in Nat
  /\ RetainedIsUnwatched

IInv == RequestsOK /\ ProcessOK

(***************************************************************************)
(* Requests that move from one phase to another.                           *)
(***************************************************************************)

(* The request n becomes r, the others stay.                               *)
Moved(n, r) ==
  /\ requests' \in Seq(Request) /\ Len(requests') = Len(requests)
  /\ DOMAIN requests' = DOMAIN requests
  /\ requests'[n] = r
  /\ \A m \in Tickets \ {n} : requests'[m] = requests[m]

Turned(n, phase, answer) == [requests[n] EXCEPT !.phase = phase, !.answer = answer]

Answers == {"none", "ok", "failed"}

LEMMA TicketsAreNumbers ==
  ASSUME RequestsTyped
  PROVE  /\ Tickets = 1..Len(requests) /\ Len(requests) \in Nat /\ MaxRequests \in Nat
         /\ \A n \in Tickets : /\ n \in 1..MaxRequests
                               /\ requests[n] \in Request
<1>1. Tickets = 1..Len(requests) /\ Len(requests) \in Nat
  BY LenProperties DEF Tickets, RequestsTyped
<1>2. \A n \in Tickets : requests[n] \in Request
  BY <1>1, ElementOfSeq DEF RequestsTyped
<1>3. MaxRequests \in Nat
  BY BoundsAssumption
<1> QED
  BY <1>1, <1>2, <1>3 DEF RequestsTyped

LEMMA MovedByExcept ==
  ASSUME RequestsTyped, NEW n \in Tickets, NEW r \in Request,
         requests' = [requests EXCEPT ![n] = r]
  PROVE  Moved(n, r)
<1>1. requests \in Seq(Request) /\ n \in 1..Len(requests)
  BY TicketsAreNumbers DEF RequestsTyped
<1>2. /\ requests' \in Seq(Request) /\ Len(requests') = Len(requests)
      /\ \A j \in 1..Len(requests) : requests'[j] = IF j = n THEN r ELSE requests[j]
  BY <1>1, ExceptSeq
<1>3. DOMAIN requests' = DOMAIN requests
  OBVIOUS
<1> QED
  BY <1>1, <1>2, <1>3, TicketsAreNumbers DEF Moved, Tickets

LEMMA TurnedTyped ==
  ASSUME RequestsTyped, NEW n \in Tickets, NEW phase \in Phases, NEW answer \in Answers
  PROVE  /\ Turned(n, phase, answer) \in Request
         /\ Turned(n, phase, answer).phase = phase /\ Turned(n, phase, answer).answer = answer
         /\ Turned(n, phase, answer).kind = requests[n].kind
         /\ Turned(n, phase, answer).view = requests[n].view
         /\ Turned(n, phase, answer).on = requests[n].on
BY TicketsAreNumbers DEF Turned, Request, Answers

(* The three ways in which the actions write it.                           *)
LEMMA TurnedByExcept ==
  ASSUME RequestsTyped, NEW n \in Tickets, NEW phase \in Phases, NEW answer \in Answers
  PROVE  /\ requests' = [requests EXCEPT ![n].phase = phase, ![n].answer = answer]
              => Moved(n, Turned(n, phase, answer))
         /\ requests' = [requests EXCEPT ![n].answer = answer, ![n].phase = phase]
              => Moved(n, Turned(n, phase, answer))
         /\ requests' = [requests EXCEPT ![n].phase = phase]
              => Moved(n, Turned(n, phase, requests[n].answer))
<1>1. /\ n \in DOMAIN requests /\ requests[n] \in Request
      /\ requests = [m \in DOMAIN requests |-> requests[m]]
  BY TicketsAreNumbers, LenProperties DEF Tickets, RequestsTyped
<1>2. requests[n].answer \in Answers
  BY <1>1 DEF Request, Answers
<1>3. /\ Turned(n, phase, answer) \in Request
      /\ Turned(n, phase, requests[n].answer) \in Request
  BY <1>2, TurnedTyped
<1>4. ASSUME requests' = [requests EXCEPT ![n].phase = phase, ![n].answer = answer]
      PROVE  requests' = [requests EXCEPT ![n] = Turned(n, phase, answer)]
  BY <1>1, <1>4 DEF Turned
<1>5. ASSUME requests' = [requests EXCEPT ![n].answer = answer, ![n].phase = phase]
      PROVE  requests' = [requests EXCEPT ![n] = Turned(n, phase, answer)]
  BY <1>1, <1>5 DEF Turned, Request
<1>6. ASSUME requests' = [requests EXCEPT ![n].phase = phase]
      PROVE  requests' = [requests EXCEPT ![n] = Turned(n, phase, requests[n].answer)]
  BY <1>1, <1>6 DEF Turned, Request
<1> QED
  BY <1>3, <1>4, <1>5, <1>6, MovedByExcept

(* What a step that moves n to r owes for each part of the invariant.      *)
MarksKept ==
  /\ closedAt' \in [Views -> 0..MaxRequests]
  /\ \A v \in Views : closedAt[v] <= closedAt'[v]

SessionsKept ==
  /\ DOMAIN sessions' \subseteq Views /\ sessions' \in [DOMAIN sessions' -> Session]
  /\ \A v \in DOMAIN sessions' : closedAt'[v] < sessions'[v].seq

FlightTyped == flight' \in [state : {"none", "starting", "ready", "failed"}, owner : 0..MaxRequests]

(* The flight is nobody's who leaves, or n's who works.                    *)
FlightKept(n, r) ==
  flight'.state = "starting" =>
     \/ Working(r) /\ flight'.owner = n
     \/ flight.state = "starting" /\ flight'.owner = flight.owner /\ flight.owner # n

(* Whoever waits for n has an answer or goes on waiting for one that flies.*)
AnswerKept(n, r) ==
  Flying(requests[n]) \/ requests[n].answer # "none" => Flying(r) \/ r.answer # "none"

WaitsForFlying(n, r) ==
  r.phase = "waiting" => \/ requests[n].phase = "waiting" /\ r.on = requests[n].on
                         \/ r.on \in Tickets \ {n} /\ Flying(requests[r.on])

LEMMA MovingRequests ==
  ASSUME RequestsOK, NEW n \in Tickets, NEW r \in Request, Moved(n, r),
         r.kind = requests[n].kind, r.view = requests[n].view, PhaseOK(r),
         MarksKept, SessionsKept, FlightTyped,
         FlightKept(n, r), AnswerKept(n, r), WaitsForFlying(n, r),
         r.kind = "close" /\ r.phase \in {"closing", "done"} => n <= closedAt'[r.view]
  PROVE  RequestsOK'
<1>1. DOMAIN requests' = Tickets /\ Tickets' = Tickets /\ requests'[n] = r
  BY DEF Moved, Tickets
<1>2. \A m \in Tickets : m # n => requests'[m] = requests[m]
  BY DEF Moved
<1>3. RequestsTyped'
  BY DEF Moved, RequestsOK, RequestsTyped, MarksKept, SessionsKept, FlightTyped
<1>4. Phased'
  BY <1>1, <1>2 DEF Phased, RequestsOK
<1>5. Marked'
  <2>1. ASSUME NEW m \in Tickets, Handled(m)', requests'[m].kind = "close"
        PROVE  m <= closedAt'[requests'[m].view]
    <3>1. CASE m = n
      BY <3>1, <2>1, <1>1 DEF Handled
    <3>2. CASE m # n
      <4>1. Handled(m) /\ requests[m].kind = "close" /\ requests'[m].view = requests[m].view
        BY <3>2, <2>1, <1>2 DEF Handled
      <4>2. m <= closedAt[requests[m].view]
        BY <4>1 DEF RequestsOK, Marked
      <4>3. requests[m].view \in Views /\ m \in Nat
        BY TicketsAreNumbers DEF Request, RequestsOK
      <4>4. closedAt[requests[m].view] \in Nat /\ closedAt'[requests[m].view] \in Nat
        BY <4>3, BoundsAssumption DEF RequestsOK, RequestsTyped, MarksKept
      <4>5. closedAt[requests[m].view] <= closedAt'[requests[m].view]
        BY <4>3 DEF MarksKept
      <4> QED
        BY <4>1, <4>2, <4>3, <4>4, <4>5
    <3> QED
      BY <3>1, <3>2
  <2> QED
    BY <2>1, <1>1 DEF Marked, SessionsKept
<1>6. Waits'
  <2>1. ASSUME NEW m \in Tickets, requests'[m].phase = "waiting"
        PROVE  /\ requests'[m].on \in Tickets
               /\ requests'[requests'[m].on].answer # "none" \/ Flying(requests'[requests'[m].on])
    <3>1. CASE m = n /\ ~(requests[n].phase = "waiting" /\ r.on = requests[n].on)
      <4>1. r.on \in Tickets \ {n} /\ Flying(requests[r.on])
        BY <3>1, <2>1, <1>1 DEF WaitsForFlying
      <4> QED
        BY <4>1, <3>1, <1>1, <1>2
    <3>2. CASE m # n \/ (requests[n].phase = "waiting" /\ r.on = requests[n].on)
      <4>1. requests[m].phase = "waiting" /\ requests'[m].on = requests[m].on
        BY <3>2, <2>1, <1>1, <1>2
      <4>2. /\ requests[m].on \in Tickets
            /\ requests[requests[m].on].answer # "none" \/ Flying(requests[requests[m].on])
        BY <4>1 DEF RequestsOK, Waits
      <4>3. CASE requests[m].on = n
        BY <4>1, <4>2, <4>3, <1>1 DEF AnswerKept
      <4>4. CASE requests[m].on # n
        BY <4>1, <4>2, <4>4, <1>2
      <4> QED
        BY <4>3, <4>4
    <3> QED
      BY <3>1, <3>2
  <2> QED
    BY <2>1, <1>1 DEF Waits
<1>7. Starts'
  <2>1. SUFFICES ASSUME flight'.state = "starting"
                 PROVE  flight'.owner \in Tickets /\ Working(requests'[flight'.owner])
    BY <1>1 DEF Starts
  <2>2. CASE Working(r) /\ flight'.owner = n
    BY <2>2, <1>1
  <2>3. CASE flight.state = "starting" /\ flight'.owner = flight.owner /\ flight.owner # n
    BY <2>3, <1>2 DEF RequestsOK, Starts
  <2> QED
    BY <2>1, <2>2, <2>3 DEF FlightKept
<1> QED
  BY <1>3, <1>4, <1>5, <1>6, <1>7 DEF RequestsOK

(* A step that leaves the requests alone.                                  *)
LEMMA StandingRequests ==
  ASSUME RequestsOK, requests' = requests, closedAt' = closedAt, SessionsKept, FlightTyped,
         flight'.state = "starting" => flight.state = "starting" /\ flight'.owner = flight.owner
  PROVE  RequestsOK'
<1>1. RequestsTyped'
  BY DEF RequestsOK, RequestsTyped, SessionsKept, FlightTyped
<1>2. Phased' /\ Waits'
  BY DEF RequestsOK, Phased, Waits, Tickets
<1>3. Marked'
  BY DEF RequestsOK, Marked, SessionsKept, Tickets, Handled
<1>4. Starts'
  BY DEF RequestsOK, Starts, Tickets
<1> QED
  BY <1>1, <1>2, <1>3, <1>4 DEF RequestsOK

(* What does not touch the sessions or the close marks.                    *)
LEMMA SessionsStand ==
  ASSUME RequestsOK, sessions' = sessions, closedAt' = closedAt
  PROVE  MarksKept /\ SessionsKept
<1>1. MarksKept
  BY BoundsAssumption DEF RequestsOK, RequestsTyped, MarksKept
<1>2. SessionsKept
  BY DEF RequestsOK, RequestsTyped, Marked, SessionsKept
<1> QED
  BY <1>1, <1>2

(* The sessions that remain are some of those there were.                  *)
LEMMA FewerSessions ==
  ASSUME RequestsOK, closedAt' = closedAt, DOMAIN sessions' \subseteq DOMAIN sessions,
         sessions' = [v \in DOMAIN sessions' |-> sessions[v]]
  PROVE  MarksKept /\ SessionsKept
<1>1. MarksKept
  BY BoundsAssumption DEF RequestsOK, RequestsTyped, MarksKept
<1>2. \A v \in DOMAIN sessions' : sessions'[v] = sessions[v] /\ sessions[v] \in Session /\ v \in Views
  BY DEF RequestsOK, RequestsTyped
<1>3. sessions' \in [DOMAIN sessions' -> Session]
  BY <1>2
<1>4. SessionsKept
  BY <1>2, <1>3 DEF RequestsOK, Marked, SessionsKept
<1> QED
  BY <1>1, <1>4

(***************************************************************************)
(* The requests: each action keeps their part of the invariant.            *)
(***************************************************************************)

FlightRecords == [state : {"none", "starting", "ready", "failed"}, owner : 0..MaxRequests]

(* A flight that n may leave behind: it is not n's while it starts.        *)
LeavesFlight(f, n) ==
  /\ f \in FlightRecords
  /\ f.state = "starting" => flight.state = "starting" /\ f.owner = flight.owner /\ flight.owner # n

LEMMA NoFlightIsLeft ==
  ASSUME RequestsOK, NEW n
  PROVE  NoFlight \in FlightRecords /\ LeavesFlight(NoFlight, n)
BY BoundsAssumption DEF NoFlight, FlightRecords, LeavesFlight

(* A flight that n sets is n's in that state, or stays with its owner.     *)
LEMMA OwnedFlightIs ==
  ASSUME RequestsOK, NEW n \in Tickets, NEW f \in FlightRecords,
         NEW state \in {"none", "starting", "ready", "failed"}
  PROVE  /\ OwnedFlight(f, n, state) \in FlightRecords
         /\ \/ OwnedFlight(f, n, state) = [state |-> state, owner |-> n]
            \/ OwnedFlight(f, n, state) = f /\ f.owner # n
<1>1. n \in 0..MaxRequests
  BY TicketsAreNumbers DEF RequestsOK
<1> QED
  BY <1>1 DEF OwnedFlight, FlightRecords

LEMMA FlightIsTyped ==
  ASSUME RequestsOK
  PROVE  flight \in FlightRecords /\ Unfailed \in FlightRecords
BY NoFlightIsLeft DEF RequestsOK, RequestsTyped, FlightRecords, Unfailed

LEMMA ArrivedIsNew ==
  ASSUME RequestsOK, NEW n \in Tickets, requests[n].phase \in {"arrived", "closing"}
  PROVE  /\ ~Flying(requests[n]) /\ requests[n].on = 0
         /\ flight.state = "starting" => flight.owner # n
<1>1. ~Flying(requests[n]) /\ ~Working(requests[n])
  BY DEF Flying, Working, StartPhases, ReleasePhases
<1>2. requests[n].on = 0
  BY DEF RequestsOK, Phased, PhaseOK
<1> QED
  BY <1>1, <1>2 DEF RequestsOK, Starts

(* A request comes in.                                                     *)
LEMMA ReceiveRequests ==
  ASSUME RequestsOK, NEW v \in Views, NEW kind \in {"start", "stop", "close"},
         NEW kill \in BOOLEAN, NEW lease \in 0..Len(requests), Receive(kind, v, kill, lease)
  PROVE  RequestsOK'
<1> DEFINE new == [kind |-> kind, view |-> v, kill |-> kill, lease |-> lease,
                   phase |-> "arrived", on |-> 0, answer |-> "none"]
<1>1. Tickets = 1..Len(requests) /\ Len(requests) \in Nat /\ MaxRequests \in Nat
  BY TicketsAreNumbers DEF RequestsOK
<1>2. /\ Len(requests) < MaxRequests /\ requests' = Append(requests, new)
      /\ UNCHANGED <<sessions, closedAt, flight>>
  BY DEF Receive
<1>3. new \in Request
  BY <1>1, <1>2 DEF Request, Phases
<1>4. /\ requests' \in Seq(Request) /\ Len(requests') = Len(requests) + 1
      /\ \A i \in 1..Len(requests) : requests'[i] = requests[i]
      /\ requests'[Len(requests) + 1] = new
  BY <1>2, <1>3, AppendProperties DEF RequestsOK, RequestsTyped
<1>5. Tickets' = 1..(Len(requests) + 1)
  BY <1>4, LenProperties DEF Tickets
<1>6. \A m \in Tickets' : (m \in Tickets /\ requests'[m] = requests[m]) \/ requests'[m] = new
  BY <1>1, <1>4, <1>5
<1>7. \A m \in Tickets : m \in Tickets' /\ requests'[m] = requests[m]
  BY <1>1, <1>4, <1>5
<1>8. new.phase = "arrived" /\ new.on = 0 /\ new.kind = kind
  OBVIOUS
<1> HIDE DEF new
<1>9. RequestsTyped'
  BY <1>1, <1>2, <1>4 DEF RequestsOK, RequestsTyped
<1>10. Phased'
  BY <1>6, <1>8 DEF RequestsOK, Phased, PhaseOK
<1>11. Marked'
  BY <1>2, <1>6, <1>8 DEF RequestsOK, Marked, Handled
<1>12. Waits'
  BY <1>6, <1>7, <1>8 DEF RequestsOK, Waits
<1>13. Starts'
  BY <1>2, <1>7 DEF RequestsOK, Starts
<1> QED
  BY <1>9, <1>10, <1>11, <1>12, <1>13 DEF RequestsOK

(* A request of an arrived start, or of a waiter, is done with an answer.  *)
LEMMA AnsweredRequests ==
  ASSUME RequestsOK, NEW n \in Tickets, NEW answer \in {"ok", "failed"},
         requests[n].kind = "start", Moved(n, Turned(n, "done", answer)),
         MarksKept, SessionsKept, LeavesFlight(flight', n)
  PROVE  RequestsOK'
<1> DEFINE r == Turned(n, "done", answer)
<1>1. /\ r \in Request /\ r.phase = "done" /\ r.answer = answer
      /\ r.kind = requests[n].kind /\ r.view = requests[n].view
  BY TurnedTyped DEF RequestsOK, Phases, Answers
<1> HIDE DEF r
<1>2. PhaseOK(r) /\ AnswerKept(n, r) /\ WaitsForFlying(n, r)
  BY <1>1 DEF PhaseOK, StartPhases, ReleasePhases, AnswerKept, WaitsForFlying
<1>3. FlightKept(n, r) /\ FlightTyped
  BY DEF LeavesFlight, FlightKept, FlightTyped, FlightRecords
<1>4. Moved(n, r)
  BY DEF r
<1> QED
  BY <1>1, <1>2, <1>3, <1>4, MovingRequests

(* A stop or close goes on to `phase`.                                     *)
LEMMA ClosingRequests ==
  ASSUME RequestsOK, NEW n \in Tickets, requests[n].phase \in {"arrived", "closing"},
         requests[n].kind \in {"stop", "close"},
         NEW phase \in {"closing", "done"}, phase = "closing" => requests[n].kind = "close",
         requests' = [requests EXCEPT ![n].phase = phase],
         MarksKept, SessionsKept, flight' \in {flight, NoFlight},
         requests[n].kind = "close" => n <= closedAt'[requests[n].view]
  PROVE  RequestsOK'
<1> DEFINE r == Turned(n, phase, requests[n].answer)
<1>1. requests[n].answer \in Answers /\ phase \in Phases
  BY TicketsAreNumbers DEF RequestsOK, Request, Answers, Phases
<1>2. /\ r \in Request /\ r.phase = phase /\ r.answer = requests[n].answer
      /\ r.kind = requests[n].kind /\ r.view = requests[n].view /\ r.on = requests[n].on
  BY <1>1, TurnedTyped DEF RequestsOK
<1>3. Moved(n, r)
  BY <1>1, TurnedByExcept DEF RequestsOK
<1> HIDE DEF r
<1>4. ~Flying(requests[n]) /\ requests[n].on = 0 /\ LeavesFlight(flight', n)
  BY ArrivedIsNew, NoFlightIsLeft, FlightIsTyped DEF LeavesFlight
<1>5. PhaseOK(r) /\ AnswerKept(n, r) /\ WaitsForFlying(n, r)
  BY <1>2, <1>4 DEF PhaseOK, StartPhases, ReleasePhases, AnswerKept, WaitsForFlying
<1>6. FlightKept(n, r) /\ FlightTyped
  BY <1>4 DEF LeavesFlight, FlightKept, FlightTyped, FlightRecords
<1> QED
  BY <1>2, <1>3, <1>5, <1>6, MovingRequests

(***************************************************************************)
(* The sessions and the close marks.                                       *)
(***************************************************************************)

(* A request that was not cancelled affirms its view's session with its    *)
(* own ticket or a newer one.                                              *)
LEMMA RegisteredSessions ==
  ASSUME RequestsOK, NEW n \in Tickets, ~Cancelled(n, closedAt),
         closedAt' = closedAt, sessions' = Registered(n)
  PROVE  MarksKept /\ SessionsKept /\ DOMAIN sessions' # {}
<1> DEFINE v == requests[n].view
           new == [seq |-> n, attempts |-> {n}, fresh |-> TRUE]
           joined == [sessions[v] EXCEPT !.attempts = @ \cup {n}, !.fresh = TRUE]
<1>1. /\ n \in 1..MaxRequests /\ MaxRequests \in Nat /\ v \in Views
  BY TicketsAreNumbers DEF RequestsOK, Request
<1>2. closedAt[v] < n
  BY <1>1 DEF Cancelled, RequestsOK, RequestsTyped
<1>3. new \in Session /\ new.seq = n
  BY <1>1 DEF Session
<1>4. ASSUME v \in DOMAIN sessions
      PROVE  joined \in Session /\ joined.seq = sessions[v].seq
  <2>1. sessions[v] \in Session
    BY <1>4 DEF RequestsOK, RequestsTyped
  <2> QED
    BY <2>1, <1>1 DEF Session
<1>5. MarksKept
  BY BoundsAssumption DEF RequestsOK, RequestsTyped, MarksKept
<1>6. /\ DOMAIN sessions' = DOMAIN sessions \cup {v}
      /\ sessions' = [w \in DOMAIN sessions' |-> sessions'[w]]
      /\ \A w \in DOMAIN sessions \ {v} : sessions'[w] = sessions[w]
      /\ \/ sessions'[v] = new
         \/ v \in DOMAIN sessions /\ sessions'[v] = joined
  <2>1. CASE v \in DOMAIN sessions /\ sessions[v].seq > n
    <3>1. sessions' = [sessions EXCEPT ![v].attempts = @ \cup {n}, ![v].fresh = TRUE]
      BY <2>1 DEF Registered
    <3>2. sessions = [w \in DOMAIN sessions |-> sessions[w]]
      BY DEF RequestsOK, RequestsTyped
    <3> QED
      BY <2>1, <3>1, <3>2
  <2>2. CASE ~(v \in DOMAIN sessions /\ sessions[v].seq > n)
    <3>1. sessions' = [w \in DOMAIN sessions \cup {v} |-> IF w = v THEN new ELSE sessions[w]]
      BY <2>2 DEF Registered
    <3> QED
      BY <3>1
  <2> QED
    BY <2>1, <2>2
<1> HIDE DEF new, joined
<1>7. ASSUME NEW w \in DOMAIN sessions'
      PROVE  w \in Views /\ sessions'[w] \in Session /\ closedAt'[w] < sessions'[w].seq
  <2>1. CASE w = v
    BY <2>1, <1>1, <1>2, <1>3, <1>4, <1>6 DEF RequestsOK, Marked
  <2>2. CASE w # v
    BY <2>2, <1>6 DEF RequestsOK, RequestsTyped, Marked
  <2> QED
    BY <2>1, <2>2
<1>8. SessionsKept
  BY <1>6, <1>7 DEF SessionsKept
<1> QED
  BY <1>5, <1>6, <1>8

(* A session that changes stays a session that no close has overtaken.     *)
LEMMA ChangedSession ==
  ASSUME RequestsOK, closedAt' = closedAt, NEW v \in DOMAIN sessions, NEW s \in Session,
         sessions' = [sessions EXCEPT ![v] = s], sessions[v].seq <= s.seq
  PROVE  MarksKept /\ SessionsKept
<1>1. MarksKept
  BY BoundsAssumption DEF RequestsOK, RequestsTyped, MarksKept
<1>2. /\ sessions \in [DOMAIN sessions -> Session] /\ DOMAIN sessions \subseteq Views
      /\ closedAt \in [Views -> 0..MaxRequests]
      /\ \A w \in DOMAIN sessions : closedAt[w] < sessions[w].seq
  BY DEF RequestsOK, RequestsTyped, Marked
<1>3. /\ DOMAIN sessions' = DOMAIN sessions /\ sessions' \in [DOMAIN sessions -> Session]
      /\ sessions'[v] = s /\ \A w \in DOMAIN sessions \ {v} : sessions'[w] = sessions[w]
  BY <1>2
<1>4. closedAt[v] < s.seq
  <2>1. closedAt[v] \in 0..MaxRequests /\ sessions[v].seq \in 1..MaxRequests /\ s.seq \in 1..MaxRequests
    BY <1>2 DEF Session
  <2>2. closedAt[v] < sessions[v].seq
    BY <1>2
  <2> QED
    BY <2>1, <2>2, BoundsAssumption
<1>5. SessionsKept
  BY <1>2, <1>3, <1>4 DEF SessionsKept
<1> QED
  BY <1>1, <1>5

(* A close leaves its mark and no session that is not newer.               *)
LEMMA ClosedSessions ==
  ASSUME RequestsOK, NEW n \in Tickets, MarkClosed(n),
         DOMAIN sessions' \subseteq DOMAIN sessions,
         sessions' = [v \in DOMAIN sessions' |-> sessions[v]],
         requests[n].view \in DOMAIN sessions' => n < sessions[requests[n].view].seq
  PROVE  MarksKept /\ SessionsKept /\ n <= closedAt'[requests[n].view]
<1> DEFINE v == requests[n].view
<1>1. n \in 1..MaxRequests /\ MaxRequests \in Nat /\ v \in Views
  BY TicketsAreNumbers DEF RequestsOK, Request
<1>2. closedAt \in [Views -> 0..MaxRequests] /\ closedAt' = [closedAt EXCEPT ![v] = Top(closedAt[v], n)]
  BY DEF RequestsOK, RequestsTyped, MarkClosed
<1>3. /\ Top(closedAt[v], n) \in {closedAt[v], n}
      /\ closedAt[v] <= Top(closedAt[v], n) /\ n <= Top(closedAt[v], n)
      /\ Top(closedAt[v], n) \in 0..MaxRequests
  BY <1>1, <1>2 DEF Top
<1>4. MarksKept /\ n <= closedAt'[v]
  BY <1>1, <1>2, <1>3 DEF MarksKept
<1>5. ASSUME NEW w \in DOMAIN sessions'
      PROVE  w \in Views /\ sessions'[w] \in Session /\ closedAt'[w] < sessions'[w].seq
  <2>1. sessions'[w] = sessions[w] /\ sessions[w] \in Session /\ w \in Views /\ closedAt[w] < sessions[w].seq
    BY DEF RequestsOK, RequestsTyped, Marked
  <2>2. CASE w = v
    <3>1. n < sessions[w].seq
      BY <2>2
    <3>2. closedAt'[w] \in {closedAt[w], n}
      BY <2>2, <1>1, <1>2, <1>3
    <3> QED
      BY <2>1, <3>1, <3>2
  <2>3. CASE w # v
    BY <2>1, <2>3, <1>2
  <2> QED
    BY <2>1, <2>2, <2>3
<1>6. SessionsKept
  BY <1>5 DEF SessionsKept
<1> QED
  BY <1>4, <1>6

(* Drop leaves the other sessions.                                         *)
LEMMA DroppedSession ==
  ASSUME NEW v, sessions' = Drop(v)
  PROVE  /\ DOMAIN sessions' = DOMAIN sessions \ {v}
         /\ sessions' = [w \in DOMAIN sessions' |-> sessions[w]]
BY DEF Drop

(***************************************************************************)
(* Starts.                                                                 *)
(***************************************************************************)

LEMMA ArrivedStart ==
  ASSUME RequestsOK, NEW n \in Tickets, Arrived(n)
  PROVE  /\ ~Flying(requests[n]) /\ requests[n].on = 0 /\ requests[n].kind = "start"
         /\ LeavesFlight(flight, n) /\ LeavesFlight(Unfailed, n)
<1>1. /\ ~Flying(requests[n]) /\ requests[n].on = 0 /\ requests[n].kind = "start"
      /\ flight.state = "starting" => flight.owner # n
  BY ArrivedIsNew DEF Arrived
<1>2. LeavesFlight(flight, n)
  BY <1>1, FlightIsTyped DEF LeavesFlight
<1>3. LeavesFlight(Unfailed, n)
  BY <1>2, NoFlightIsLeft DEF Unfailed
<1> QED
  BY <1>1, <1>2, <1>3

LEMMA AnswerMoves ==
  ASSUME RequestsOK, NEW n \in Tickets, NEW answer \in {"ok", "failed"}, Answer(n, answer)
  PROVE  Moved(n, Turned(n, "done", answer)) /\ closedAt' = closedAt
BY TurnedByExcept DEF Answer, RequestsOK, Phases, Answers

LEMMA RefusedStarts ==
  ASSUME RequestsOK, NEW n \in Tickets, StartCancelledEarly(n) \/ NoPlace(n)
  PROVE  RequestsOK'
<1>1. Arrived(n) /\ Answer(n, "failed") /\ sessions' = sessions /\ flight' \in {flight, Unfailed}
  BY DEF StartCancelledEarly, NoPlace
<1>2. MarksKept /\ SessionsKept
  BY <1>1, AnswerMoves, SessionsStand
<1> QED
  BY <1>1, <1>2, AnswerMoves, ArrivedStart, AnsweredRequests

LEMMA ReuseSessionRequests ==
  ASSUME RequestsOK, NEW n \in Tickets, ReuseSession(n)
  PROVE  RequestsOK'
<1> DEFINE v == requests[n].view
           s == [seq |-> Top(sessions[v].seq, n), attempts |-> sessions[v].attempts \cup {n},
                 fresh |-> TRUE]
<1>1. /\ Arrived(n) /\ Answer(n, "ok") /\ flight' = flight /\ v \in DOMAIN sessions
      /\ sessions' = [sessions EXCEPT ![v] = s]
  BY DEF ReuseSession, HasSession
<1>2. sessions[v] \in Session /\ n \in 1..MaxRequests /\ MaxRequests \in Nat
  BY <1>1, TicketsAreNumbers DEF RequestsOK, RequestsTyped
<1>3. s \in Session /\ sessions[v].seq <= s.seq
  BY <1>2 DEF Session, Top
<1> HIDE DEF s
<1>4. MarksKept /\ SessionsKept
  BY <1>1, <1>3, AnswerMoves, ChangedSession
<1> QED
  BY <1>1, <1>4, AnswerMoves, ArrivedStart, AnsweredRequests

(* A start, or a waiter, registers.                                        *)
LEMMA RegisterRequests ==
  ASSUME RequestsOK, NEW n \in Tickets, NEW f \in FlightRecords, Register(n, f),
         requests[n].kind = "start", f.state = "starting" => f = flight
  PROVE  RequestsOK' /\ DOMAIN sessions' # {}
<1>1. MarksKept /\ SessionsKept /\ DOMAIN sessions' # {}
  BY RegisteredSessions DEF Register
<1>2. Moved(n, Turned(n, "done", "ok"))
  BY TurnedByExcept DEF Register, RequestsOK, Phases, Answers
<1>3. flight' = OwnedFlight(f, n, "ready")
  BY DEF Register
<1>4. LeavesFlight(flight', n)
  <2>1. /\ flight' \in FlightRecords
        /\ flight' = [state |-> "ready", owner |-> n] \/ (flight' = f /\ f.owner # n)
    BY <1>3, OwnedFlightIs
  <2>2. CASE flight' = [state |-> "ready", owner |-> n]
    BY <2>1, <2>2 DEF LeavesFlight
  <2>3. CASE flight' = f /\ f.owner # n
    BY <2>1, <2>3 DEF LeavesFlight
  <2> QED
    BY <2>1, <2>2, <2>3
<1> QED
  BY <1>1, <1>2, <1>4, AnsweredRequests

LEMMA RegisteringStarts ==
  ASSUME RequestsOK, NEW n \in Tickets, AdoptProcess(n) \/ Ready(n)
  PROVE  RequestsOK'
<1>1. CASE AdoptProcess(n)
  <2>1. Unfailed \in FlightRecords /\ (Unfailed.state = "starting" => Unfailed = flight)
    BY FlightIsTyped DEF Unfailed, NoFlight
  <2> QED
    BY <1>1, <2>1, RegisterRequests DEF AdoptProcess, Arrived
<1>2. CASE Ready(n)
  <2>1. requests[n].phase = "warming" /\ Register(n, flight)
    BY <1>2 DEF Ready
  <2>2. requests[n].kind = "start"
    BY <2>1, TicketsAreNumbers DEF RequestsOK, Phased, PhaseOK, Request
  <2> QED
    BY <2>1, <2>2, FlightIsTyped, RegisterRequests
<1> QED
  BY <1>1, <1>2

LEMMA AwaitFlightRequests ==
  ASSUME RequestsOK, NEW n \in Tickets, AwaitFlight(n)
  PROVE  RequestsOK'
<1> DEFINE r == [requests[n] EXCEPT !.phase = "waiting", !.on = flight.owner]
<1>1. /\ Arrived(n) /\ flight.state = "starting"
      /\ requests' = [requests EXCEPT ![n].phase = "waiting", ![n].on = flight.owner]
      /\ UNCHANGED <<sessions, closedAt, flight>>
  BY DEF AwaitFlight
<1>2. requests[n] \in Request /\ flight \in FlightRecords
  BY TicketsAreNumbers, FlightIsTyped DEF RequestsOK
<1>3. /\ r \in Request /\ r.phase = "waiting" /\ r.on = flight.owner /\ r.kind = requests[n].kind
      /\ r.view = requests[n].view /\ r.answer = requests[n].answer
  BY <1>2 DEF Request, Phases, FlightRecords
<1>4. requests' = [requests EXCEPT ![n] = r]
  <2>1. n \in DOMAIN requests /\ requests = [m \in DOMAIN requests |-> requests[m]]
    BY LenProperties DEF Tickets, RequestsOK, RequestsTyped
  <2> QED
    BY <1>1, <1>2, <2>1 DEF Request
<1>5. Moved(n, r)
  BY <1>3, <1>4, MovedByExcept DEF RequestsOK
<1> HIDE DEF r
<1>6. flight.owner \in Tickets \ {n} /\ Flying(requests[flight.owner])
  BY <1>1, ArrivedIsNew DEF RequestsOK, Starts, Working, Flying, Arrived
<1>7. ~Flying(requests[n]) /\ requests[n].kind = "start" /\ LeavesFlight(flight, n)
  BY <1>1, ArrivedStart
<1>8. PhaseOK(r) /\ AnswerKept(n, r) /\ WaitsForFlying(n, r)
  BY <1>3, <1>6, <1>7 DEF PhaseOK, StartPhases, ReleasePhases, AnswerKept, WaitsForFlying
<1>9. FlightKept(n, r) /\ FlightTyped /\ MarksKept /\ SessionsKept
  BY <1>1, <1>7, SessionsStand DEF LeavesFlight, FlightKept, FlightTyped, FlightRecords
<1> QED
  BY <1>3, <1>5, <1>7, <1>8, <1>9, MovingRequests

LEMMA ClaimRequests ==
  ASSUME RequestsOK, NEW n \in Tickets, Claim(n)
  PROVE  RequestsOK'
<1> DEFINE r == Turned(n, "publishing", requests[n].answer)
           f == IF FlightIsStale(flight, 0) THEN NoFlight ELSE flight
<1>1. /\ Arrived(n) /\ flight.state # "starting" /\ flight' = OwnedFlight(f, n, "starting")
      /\ requests' = [requests EXCEPT ![n].phase = "publishing"]
      /\ UNCHANGED <<sessions, closedAt>>
  BY DEF Claim
<1>2. requests[n].answer \in Answers /\ "publishing" \in Phases
  BY TicketsAreNumbers DEF RequestsOK, Request, Answers, Phases, StartPhases
<1>3. /\ r \in Request /\ r.phase = "publishing" /\ r.kind = requests[n].kind
      /\ r.view = requests[n].view /\ r.on = requests[n].on /\ r.answer = requests[n].answer
      /\ Moved(n, r)
  BY <1>1, <1>2, TurnedTyped, TurnedByExcept DEF RequestsOK
<1> HIDE DEF r
<1>4. ~Flying(requests[n]) /\ requests[n].on = 0 /\ requests[n].kind = "start"
  BY <1>1, ArrivedStart
<1>5. Working(r) /\ PhaseOK(r) /\ AnswerKept(n, r) /\ WaitsForFlying(n, r)
  BY <1>3, <1>4
  DEF Working, PhaseOK, StartPhases, ReleasePhases, AnswerKept, WaitsForFlying
<1>6. f \in FlightRecords /\ f.state # "starting"
  BY <1>1, FlightIsTyped, NoFlightIsLeft DEF NoFlight
<1> HIDE DEF f
<1>7. /\ flight' \in FlightRecords
      /\ flight' = [state |-> "starting", owner |-> n] \/ flight' = f
  BY <1>1, <1>6, OwnedFlightIs
<1>8. FlightKept(n, r) /\ FlightTyped /\ MarksKept /\ SessionsKept
  BY <1>1, <1>5, <1>6, <1>7, SessionsStand DEF FlightKept, FlightTyped, FlightRecords
<1> QED
  BY <1>3, <1>4, <1>5, <1>8, MovingRequests

(* A start goes on to its next phase.                                      *)
LEMMA SteppingRequests ==
  ASSUME RequestsOK, NEW n \in Tickets, NEW phase \in StartPhases,
         requests[n].phase \in StartPhases,
         requests[n].phase \in ReleasePhases => phase \in ReleasePhases,
         requests[n].phase \notin ReleasePhases => phase \notin ReleasePhases,
         requests' = [requests EXCEPT ![n].phase = phase],
         UNCHANGED <<sessions, closedAt, flight>>
  PROVE  RequestsOK'
<1> DEFINE r == Turned(n, phase, requests[n].answer)
<1>1. requests[n].answer \in Answers /\ phase \in Phases /\ requests[n].kind \in {"start", "stop", "close"}
  BY TicketsAreNumbers DEF RequestsOK, Request, Answers, Phases
<1>2. /\ r \in Request /\ r.phase = phase /\ r.kind = requests[n].kind
      /\ r.view = requests[n].view /\ r.on = requests[n].on /\ r.answer = requests[n].answer
      /\ Moved(n, r)
  BY <1>1, TurnedTyped, TurnedByExcept DEF RequestsOK
<1> HIDE DEF r
<1>3. requests[n].kind = "start" /\ PhaseOK(requests[n])
  BY <1>1 DEF RequestsOK, Phased, PhaseOK, StartPhases, ReleasePhases
<1>4. /\ Flying(requests[n]) => Flying(r)
      /\ Working(requests[n]) <=> Working(r)
  BY <1>2 DEF Flying, Working
<1>5. PhaseOK(r) /\ AnswerKept(n, r) /\ WaitsForFlying(n, r)
  BY <1>2, <1>3, <1>4 DEF PhaseOK, StartPhases, ReleasePhases, AnswerKept, WaitsForFlying
<1>6. FlightKept(n, r) /\ FlightTyped /\ MarksKept /\ SessionsKept
  BY <1>4, SessionsStand DEF FlightKept, FlightTyped, FlightRecords, RequestsOK, RequestsTyped, Starts
<1> QED
  BY <1>2, <1>3, <1>5, <1>6, MovingRequests

LEMMA SteppingStarts ==
  ASSUME RequestsOK, NEW n \in Tickets,
         Publish(n) \/ Spawn(n) \/ BeginRemoval(n) \/ EndRemoval(n)
  PROVE  RequestsOK'
<1>1. UNCHANGED <<sessions, closedAt, flight>>
  BY DEF Publish, Spawn, BeginRemoval, EndRemoval
<1>2. CASE Publish(n)
  <2>1. /\ requests[n].phase = "publishing"
        /\ \E phase \in {"spawning", "refused"} : requests' = [requests EXCEPT ![n].phase = phase]
    BY <1>2 DEF Publish
  <2> QED
    BY <1>1, <2>1, SteppingRequests DEF StartPhases, ReleasePhases
<1>3. CASE Spawn(n)
  <2>1. requests[n].phase = "spawning" /\ requests' = [requests EXCEPT ![n].phase = "warming"]
    BY <1>3 DEF Spawn
  <2> QED
    BY <1>1, <2>1, SteppingRequests DEF StartPhases, ReleasePhases
<1>4. CASE BeginRemoval(n)
  <2>1. /\ requests[n].phase = "removing"
        /\ \E phase \in {"deleting", "leaving"} : requests' = [requests EXCEPT ![n].phase = phase]
    BY <1>4 DEF BeginRemoval
  <2> QED
    BY <1>1, <2>1, SteppingRequests DEF StartPhases, ReleasePhases
<1>5. CASE EndRemoval(n)
  <2>1. requests[n].phase = "deleting" /\ requests' = [requests EXCEPT ![n].phase = "leaving"]
    BY <1>5 DEF EndRemoval
  <2> QED
    BY <1>1, <2>1, SteppingRequests DEF StartPhases, ReleasePhases
<1> QED
  BY <1>2, <1>3, <1>4, <1>5

(***************************************************************************)
(* Starts that end without a session, and waiters that resume.             *)
(***************************************************************************)

Releasing(n, answer) ==
  /\ requests[n].kind = "start" /\ requests[n].phase \notin {"arrived", "done"}
  /\ answer = "none" => requests[n].on = 0 \/ requests[n].answer = "none"

(* n leaves a flight that is not its own, or overwrites it.                *)
LEMMA LeavingRequests ==
  ASSUME RequestsOK, NEW n \in Tickets, NEW answer \in Answers, Releasing(n, answer),
         NEW usable \in BOOLEAN, NEW f, Leave(n, answer, usable, f),
         LeavesFlight(f, n) \/ (answer = "none" /\ requests[n].on = 0),
         UNCHANGED <<sessions, closedAt>>
  PROVE  RequestsOK'
<1> DEFINE aborted == requests[n].on = 0 /\ answer = "none"
           result == IF usable THEN "ok" ELSE "failed"
           given == IF aborted THEN result ELSE answer
           r == Turned(n, "done", given)
<1>1. /\ flight' = IF aborted THEN [state |-> IF usable THEN "ready" ELSE "failed", owner |-> 0] ELSE f
      /\ requests' = [requests EXCEPT ![n].phase = "done", ![n].answer = given]
  BY DEF Leave
<1>2. given \in Answers /\ "done" \in Phases
  BY DEF Answers, Phases
<1>3. given # "none" \/ (requests[n].on # 0 /\ requests[n].answer = "none")
  BY DEF Releasing
<1>4. LeavesFlight(flight', n)
  <2>1. CASE aborted
    <3>1. flight' = [state |-> IF usable THEN "ready" ELSE "failed", owner |-> 0]
      BY <2>1, <1>1
    <3> QED
      BY <3>1, BoundsAssumption DEF LeavesFlight, FlightRecords
  <2>2. CASE ~aborted
    BY <2>2, <1>1
  <2> QED
    BY <2>1, <2>2
<1> HIDE DEF given, aborted, result
<1>5. /\ r \in Request /\ r.phase = "done" /\ r.answer = given /\ r.kind = requests[n].kind
      /\ r.view = requests[n].view /\ Moved(n, r)
  <2>1. /\ r \in Request /\ r.phase = "done" /\ r.answer = given /\ r.kind = requests[n].kind
        /\ r.view = requests[n].view
    BY <1>2, TurnedTyped DEF RequestsOK
  <2>2. Moved(n, r)
    <3>1. requests' = [requests EXCEPT ![n].phase = "done", ![n].answer = given]
      BY <1>1
    <3> QED
      BY <3>1, <1>2, TurnedByExcept DEF RequestsOK
  <2> QED
    BY <2>1, <2>2
<1> HIDE DEF r
<1>6. PhaseOK(r) /\ AnswerKept(n, r) /\ WaitsForFlying(n, r)
  BY <1>3, <1>5
  DEF PhaseOK, StartPhases, ReleasePhases, AnswerKept, WaitsForFlying, Flying, Releasing
<1>7. FlightKept(n, r) /\ FlightTyped /\ MarksKept /\ SessionsKept
  BY <1>4, SessionsStand DEF LeavesFlight, FlightKept, FlightTyped, FlightRecords
<1> QED
  BY <1>5, <1>6, <1>7, MovingRequests DEF Releasing

LEMMA ReleasingRequests ==
  ASSUME RequestsOK, NEW n \in Tickets, NEW answer \in Answers, Releasing(n, answer),
         NEW f \in FlightRecords, NEW taken \in BOOLEAN, Release(n, answer, f, taken),
         LeavesFlight(f, n) \/ (answer = "none" /\ requests[n].on = 0)
  PROVE  RequestsOK'
<1>1. UNCHANGED <<sessions, closedAt>>
  BY DEF Release
<1>2. LeavesFlight(NoFlight, n)
  BY NoFlightIsLeft
<1>3. CASE \E usable \in BOOLEAN, g \in {NoFlight, f} : Leave(n, answer, usable, g)
  BY <1>1, <1>2, <1>3, LeavingRequests
<1>4. CASE /\ flight' = NoFlight
           /\ \E phase \in {"removing", "leaving"} :
                 requests' = [requests EXCEPT ![n].answer = answer, ![n].phase = phase]
  <2>1. PICK phase \in {"removing", "leaving"} :
               requests' = [requests EXCEPT ![n].answer = answer, ![n].phase = phase]
    BY <1>4
  <2> DEFINE r == Turned(n, phase, answer)
  <2>2. phase \in Phases /\ phase \in StartPhases /\ phase \in ReleasePhases
    BY DEF Phases, StartPhases, ReleasePhases
  <2>3. /\ r \in Request /\ r.phase = phase /\ r.answer = answer /\ r.kind = requests[n].kind
        /\ r.view = requests[n].view /\ r.on = requests[n].on /\ Moved(n, r)
    BY <2>1, <2>2, TurnedTyped, TurnedByExcept DEF RequestsOK
  <2> HIDE DEF r
  <2>4. PhaseOK(r) /\ WaitsForFlying(n, r)
    BY <2>2, <2>3 DEF PhaseOK, StartPhases, ReleasePhases, WaitsForFlying, Releasing
  <2>5. AnswerKept(n, r)
    BY <2>2, <2>3 DEF AnswerKept, Flying, Releasing
  <2>6. FlightKept(n, r) /\ FlightTyped /\ MarksKept /\ SessionsKept
    BY <1>1, <1>2, <1>4, SessionsStand DEF LeavesFlight, FlightKept, FlightTyped, FlightRecords, NoFlight
  <2> QED
    BY <2>3, <2>4, <2>5, <2>6, MovingRequests DEF Releasing
<1> QED
  <2>1. CASE HasOwner(sessions, closedAt, f, n)
    <3>1. Leave(n, answer, proc # 0, IF FlightIsStale(f, n) THEN NoFlight ELSE f)
      BY <2>1 DEF Release
    <3> QED
      BY <3>1, <1>3
  <2>2. CASE ~HasOwner(sessions, closedAt, f, n) /\ proc # 0 /\ ~taken
    <3>1. Leave(n, answer, FALSE, NoFlight)
      BY <2>2 DEF Release
    <3> QED
      BY <3>1, <1>3
  <2>3. CASE ~HasOwner(sessions, closedAt, f, n) /\ (proc = 0 \/ taken)
    <3>1. CASE ~published
      <4>1. Leave(n, answer, FALSE, NoFlight)
        BY <2>3, <3>1 DEF Release
      <4> QED
        BY <4>1, <1>3
    <3>2. CASE published
      <4>1. /\ flight' = NoFlight
            /\ requests' = [requests EXCEPT ![n].answer = answer, ![n].phase =
                       IF f # NoFlight \/ source \/ proc # 0 THEN "removing" ELSE "leaving"]
        BY <2>3, <3>2 DEF Release
      <4> QED
        BY <4>1, <1>4
    <3> QED
      BY <3>1, <3>2
  <2> QED
    BY <2>1, <2>2, <2>3

LEMMA StartPhaseIsAStart ==
  ASSUME RequestsOK, NEW n \in Tickets, requests[n].phase \in StartPhases \cup {"waiting"}
  PROVE  /\ requests[n].kind = "start" /\ PhaseOK(requests[n])
         /\ requests[n].phase \notin {"arrived", "done"}
         /\ requests[n].answer \in Answers
BY TicketsAreNumbers
DEF RequestsOK, Phased, PhaseOK, StartPhases, ReleasePhases, Request, Answers

LEMMA EndingStarts ==
  ASSUME RequestsOK, NEW n \in Tickets, NEW taken \in BOOLEAN,
         AbortStart(n, taken) \/ FailStart(n, taken) \/ EndRelease(n)
  PROVE  RequestsOK'
<1>1. CASE AbortStart(n, taken)
  <2>1. requests[n].phase = "warming" /\ Release(n, "none", flight, taken)
    BY <1>1 DEF AbortStart
  <2>2. requests[n].on = 0 /\ Releasing(n, "none")
    BY <2>1, StartPhaseIsAStart DEF PhaseOK, StartPhases, ReleasePhases, Releasing
  <2> QED
    BY <2>1, <2>2, FlightIsTyped, ReleasingRequests DEF Answers
<1>2. CASE FailStart(n, taken)
  <2> DEFINE f == OwnedFlight(flight, n, "failed")
  <2>1. requests[n].phase \in {"refused", "spawning", "warming"} /\ Release(n, "failed", f, taken)
    BY <1>2 DEF FailStart
  <2>2. Releasing(n, "failed")
    BY <2>1, StartPhaseIsAStart DEF StartPhases, Releasing
  <2>3. f \in FlightRecords /\ (f = [state |-> "failed", owner |-> n] \/ (f = flight /\ f.owner # n))
    BY FlightIsTyped, OwnedFlightIs
  <2>4. LeavesFlight(f, n)
    <3>1. CASE f = [state |-> "failed", owner |-> n]
      BY <3>1, <2>3 DEF LeavesFlight
    <3>2. CASE f = flight /\ f.owner # n
      BY <3>2, <2>3 DEF LeavesFlight
    <3> QED
      BY <3>1, <3>2, <2>3
  <2> HIDE DEF f
  <2> QED
    BY <2>1, <2>2, <2>3, <2>4, ReleasingRequests DEF Answers
<1>3. CASE EndRelease(n)
  <2>1. /\ requests[n].phase = "leaving" /\ Leave(n, requests[n].answer, FALSE, flight)
        /\ UNCHANGED <<sessions, closedAt>>
    BY <1>3 DEF EndRelease
  <2>2. Releasing(n, requests[n].answer) /\ requests[n].answer \in Answers
    BY <2>1, StartPhaseIsAStart DEF StartPhases, ReleasePhases, Releasing
  <2>3. LeavesFlight(flight, n)
    BY <2>1, FlightIsTyped DEF LeavesFlight, RequestsOK, Starts, Working, StartPhases, ReleasePhases
  <2> QED
    BY <2>1, <2>2, <2>3, LeavingRequests
<1> QED
  BY <1>1, <1>2, <1>3

LEMMA ResumeRequests ==
  ASSUME RequestsOK, NEW n \in Tickets, NEW taken \in BOOLEAN, Resume(n, taken)
  PROVE  RequestsOK'
<1>1. requests[n].phase = "waiting" /\ requests[n].kind = "start"
  BY StartPhaseIsAStart DEF Resume
<1>2. LeavesFlight(flight, n)
  BY <1>1, FlightIsTyped DEF LeavesFlight, RequestsOK, Starts, Working, StartPhases, ReleasePhases
<1>3. CASE Answer(n, "failed") /\ UNCHANGED <<sessions, flight>>
  <2>1. MarksKept /\ SessionsKept
    BY <1>3, AnswerMoves, SessionsStand
  <2> QED
    BY <1>1, <1>2, <1>3, <2>1, AnswerMoves, AnsweredRequests
<1>4. CASE /\ HasSession(n) /\ Answer(n, "ok") /\ UNCHANGED flight
           /\ sessions' = [sessions EXCEPT ![requests[n].view] =
                             [seq |-> Top(@.seq, n), attempts |-> @.attempts, fresh |-> TRUE]]
  <2> DEFINE v == requests[n].view
             s == [seq |-> Top(sessions[v].seq, n), attempts |-> sessions[v].attempts,
                   fresh |-> TRUE]
  <2>1. v \in DOMAIN sessions /\ sessions[v] \in Session /\ n \in 1..MaxRequests /\ MaxRequests \in Nat
    BY <1>4, TicketsAreNumbers DEF HasSession, RequestsOK, RequestsTyped
  <2>2. s \in Session /\ sessions[v].seq <= s.seq
    BY <2>1 DEF Session, Top
  <2>3. sessions' = [sessions EXCEPT ![v] = s]
    BY <1>4
  <2> HIDE DEF s
  <2>4. MarksKept /\ SessionsKept
    BY <1>4, <2>1, <2>2, <2>3, AnswerMoves, ChangedSession
  <2> QED
    BY <1>1, <1>2, <1>4, <2>4, AnswerMoves, AnsweredRequests
<1>5. CASE Register(n, flight)
  BY <1>1, <1>5, FlightIsTyped, RegisterRequests
<1>6. CASE Release(n, "failed", flight, taken)
  <2>1. Releasing(n, "failed")
    BY <1>1 DEF Releasing
  <2> QED
    BY <1>2, <1>6, <2>1, FlightIsTyped, ReleasingRequests DEF Answers
<1> QED
  BY <1>3, <1>4, <1>5, <1>6 DEF Resume

(***************************************************************************)
(* Stops, closes, time and the supervisor.                                 *)
(***************************************************************************)

(* What judges processes keeps the flight or forgets it.                   *)
LEMMA JudgedFlight ==
  /\ \A rs, I, taken : Finalize(rs, I, taken) => flight' \in {flight, NoFlight}
  /\ \A rs, views, attempts, taken, left :
        Terminate(rs, views, attempts, taken, left) => flight' \in {left, NoFlight}
BY DEF Finalize, Terminate, Cleared

LEMMA SameSessions ==
  ASSUME RequestsOK, sessions' = sessions
  PROVE  /\ DOMAIN sessions' \subseteq DOMAIN sessions
         /\ sessions' = [v \in DOMAIN sessions' |-> sessions[v]]
BY DEF RequestsOK, RequestsTyped

LEMMA EscalateStopRequests ==
  ASSUME RequestsOK, NEW n \in Tickets, NEW taken \in BOOLEAN, EscalateStop(n, taken)
  PROVE  RequestsOK'
<1>1. /\ requests[n].kind = "stop" /\ requests[n].phase = "arrived"
      /\ requests' = [requests EXCEPT ![n].phase = "done"]
      /\ UNCHANGED <<sessions, closedAt>>
  BY DEF EscalateStop, Arriving, Done
<1>2. flight' \in {flight, NoFlight}
  <2> DEFINE mine == {i \in DOMAIN retentions : Matches(n, retentions[i])}
  <2>1. CASE mine # {}
    <3>1. \E i \in mine : Finalize(retentions, {i}, taken)
      BY <2>1 DEF EscalateStop
    <3> QED
      BY <3>1, JudgedFlight
  <2>2. CASE mine = {}
    BY <2>2 DEF EscalateStop
  <2> QED
    BY <2>1, <2>2
<1>3. MarksKept /\ SessionsKept
  BY <1>1, SessionsStand
<1> QED
  BY <1>1, <1>2, <1>3, ClosingRequests

LEMMA StopWithoutSessionRequests ==
  ASSUME RequestsOK, NEW n \in Tickets, StopWithoutSession(n)
  PROVE  RequestsOK'
<1>1. /\ requests[n].kind = "stop" /\ requests[n].phase = "arrived"
      /\ requests' = [requests EXCEPT ![n].phase = "done"]
      /\ sessions' = sessions /\ flight' = flight /\ requests[n].view \notin DOMAIN sessions
      /\ MarkClosed(n) \/ closedAt' = closedAt
  BY DEF StopWithoutSession, Arriving, Done, HasSession
<1>2. MarksKept /\ SessionsKept
  <2>1. CASE MarkClosed(n)
    BY <1>1, <2>1, SameSessions, ClosedSessions
  <2>2. CASE closedAt' = closedAt
    BY <1>1, <2>2, SessionsStand
  <2> QED
    BY <1>1, <2>1, <2>2
<1> QED
  BY <1>1, <1>2, ClosingRequests

LEMMA StopKeepsSessionRequests ==
  ASSUME RequestsOK, NEW n \in Tickets, StopKeepsSession(n)
  PROVE  RequestsOK'
<1> DEFINE v == requests[n].view
           s(l) == [sessions[v] EXCEPT !.attempts = @ \ {l}]
<1>1. /\ requests[n].kind = "stop" /\ requests[n].phase = "arrived" /\ v \in DOMAIN sessions
      /\ requests' = [requests EXCEPT ![n].phase = "done"]
      /\ closedAt' = closedAt /\ flight' = flight
      /\ sessions' = sessions \/ sessions' = [sessions EXCEPT ![v].attempts = @ \ {requests[n].lease}]
  BY DEF StopKeepsSession, Arriving, Done, HasSession
<1>2. MarksKept /\ SessionsKept
  <2>1. CASE sessions' = sessions
    BY <1>1, <2>1, SessionsStand
  <2>2. CASE sessions' = [sessions EXCEPT ![v].attempts = @ \ {requests[n].lease}]
    <3>1. sessions[v] \in Session
      BY <1>1 DEF RequestsOK, RequestsTyped
    <3>2. s(requests[n].lease) \in Session /\ s(requests[n].lease).seq = sessions[v].seq
      BY <3>1 DEF Session
    <3>3. sessions[v].seq <= s(requests[n].lease).seq
      BY <3>1, <3>2 DEF Session
    <3>4. sessions' = [sessions EXCEPT ![v] = s(requests[n].lease)]
      BY <2>2
    <3> HIDE DEF s
    <3> QED
      BY <1>1, <3>2, <3>3, <3>4, ChangedSession
  <2> QED
    BY <1>1, <2>1, <2>2
<1> QED
  BY <1>1, <1>2, ClosingRequests

LEMMA StopSessionRequests ==
  ASSUME RequestsOK, NEW n \in Tickets, NEW taken \in BOOLEAN, StopSession(n, taken)
  PROVE  RequestsOK'
<1> DEFINE v == requests[n].view
<1>1. /\ requests[n].kind = "stop" /\ requests[n].phase = "arrived" /\ v \in DOMAIN sessions
      /\ requests' = [requests EXCEPT ![n].phase = "done"]
      /\ MarkClosed(n) /\ sessions' = Drop(v)
  BY DEF StopSession, Arriving, Done, HasSession
<1>2. flight' \in {flight, NoFlight}
  <2>1. CASE requests[n].kill
    <3>1. Terminate(retentions, {v}, Leases(n), taken, NoFlight)
      BY <2>1 DEF StopSession
    <3> QED
      BY <3>1, JudgedFlight
  <2>2. CASE ~requests[n].kill
    BY <2>2 DEF StopSession, Cleared
  <2> QED
    BY <2>1, <2>2
<1>3. MarksKept /\ SessionsKept
  BY <1>1, DroppedSession, ClosedSessions
<1> QED
  BY <1>1, <1>2, <1>3, ClosingRequests

LEMMA CloseViewRequests ==
  ASSUME RequestsOK, NEW n \in Tickets, NEW taken \in BOOLEAN, CloseView(n, taken)
  PROVE  RequestsOK'
<1> DEFINE v == requests[n].view
           dropped == HasSession(n) /\ sessions[v].seq <= n
<1>1. /\ requests[n].kind = "close" /\ requests[n].phase = "arrived" /\ MarkClosed(n)
      /\ sessions' = IF dropped THEN Drop(v) ELSE sessions
  BY DEF CloseView, Arriving
<1>2. \/ requests' = [requests EXCEPT ![n].phase = "closing"] /\ flight' = flight
      \/ /\ requests' = [requests EXCEPT ![n].phase = "done"]
         /\ Finalize(retentions, OfView(retentions, v), taken)
  BY DEF CloseView, Done
<1>3. flight' \in {flight, NoFlight}
  BY <1>2, JudgedFlight
<1>4. MarksKept /\ SessionsKept /\ n <= closedAt'[v]
  <2>1. CASE dropped
    <3>1. sessions' = Drop(v)
      BY <1>1, <2>1
    <3> QED
      BY <1>1, <3>1, DroppedSession, ClosedSessions
  <2>2. CASE ~dropped
    <3>1. sessions' = sessions
      BY <1>1, <2>2
    <3>2. v \in DOMAIN sessions => n < sessions[v].seq
      <4>1. SUFFICES ASSUME v \in DOMAIN sessions PROVE n < sessions[v].seq
        OBVIOUS
      <4>2. sessions[v].seq \in Nat /\ n \in Nat
        BY <4>1, TicketsAreNumbers DEF RequestsOK, RequestsTyped, Session
      <4>3. ~(sessions[v].seq <= n)
        BY <2>2, <4>1 DEF HasSession
      <4> QED
        BY <4>2, <4>3
    <3> QED
      BY <1>1, <3>1, <3>2, SameSessions, ClosedSessions
  <2> QED
    BY <2>1, <2>2
<1> QED
  BY <1>1, <1>2, <1>3, <1>4, ClosingRequests

LEMMA EndCloseRequests ==
  ASSUME RequestsOK, NEW n \in Tickets, NEW taken \in BOOLEAN, EndClose(n, taken)
  PROVE  RequestsOK'
<1>1. /\ requests[n].phase = "closing" /\ requests' = [requests EXCEPT ![n].phase = "done"]
      /\ UNCHANGED <<sessions, closedAt>>
  BY DEF EndClose, Done
<1>2. flight' \in {flight, NoFlight}
  BY DEF EndClose, Cleared
<1>3. MarksKept /\ SessionsKept
  BY <1>1, SessionsStand
<1>4. requests[n].kind = "close"
  BY <1>1, TicketsAreNumbers DEF RequestsOK, Phased, PhaseOK, Request
<1>5. n <= closedAt'[requests[n].view]
  BY <1>1, <1>4 DEF RequestsOK, Marked, Handled
<1> QED
  BY <1>1, <1>2, <1>3, <1>4, <1>5, ClosingRequests

(* Time passes: heartbeats, and what expires.                              *)
LEMMA TimeRequests ==
  ASSUME RequestsOK,
         \/ \E v \in Views : Lapse(v) \/ Touch(v)
         \/ \E old \in 0..Len(retentions), views \in SUBSET DOMAIN sessions, taken \in BOOLEAN :
               Expire(old, views, taken)
  PROVE  RequestsOK'
<1>1. ASSUME NEW v \in Views, Lapse(v) \/ Touch(v) PROVE RequestsOK'
  <2>1. PICK b \in BOOLEAN : sessions' = [sessions EXCEPT ![v].fresh = b]
    BY <1>1 DEF Lapse, Touch
  <2> DEFINE s == [sessions[v] EXCEPT !.fresh = b]
  <2>2. v \in DOMAIN sessions /\ UNCHANGED <<requests, closedAt, flight>>
    BY <1>1 DEF Lapse, Touch
  <2>3. sessions[v] \in Session
    BY <2>2 DEF RequestsOK, RequestsTyped
  <2>4. s \in Session /\ s.seq = sessions[v].seq
    BY <2>3 DEF Session
  <2>5. sessions[v].seq <= s.seq
    BY <2>3, <2>4 DEF Session
  <2>6. sessions' = [sessions EXCEPT ![v] = s]
    BY <2>1
  <2> HIDE DEF s
  <2>7. MarksKept /\ SessionsKept
    BY <2>2, <2>4, <2>5, <2>6, ChangedSession
  <2> QED
    BY <2>2, <2>7, FlightIsTyped, StandingRequests DEF FlightTyped, FlightRecords
<1>2. ASSUME NEW old \in 0..Len(retentions), NEW views \in SUBSET DOMAIN sessions,
             NEW taken \in BOOLEAN, Expire(old, views, taken)
      PROVE  RequestsOK'
  <2>1. UNCHANGED <<requests, closedAt>> /\ sessions' = [v \in DOMAIN sessions \ views |-> sessions[v]]
    BY <1>2 DEF Expire
  <2>2. flight' \in {flight, NoFlight}
    BY <1>2, JudgedFlight DEF Expire
  <2>3. MarksKept /\ SessionsKept
    <3>1. DOMAIN sessions' = DOMAIN sessions \ views
      BY <2>1
    <3> QED
      BY <2>1, <3>1, FewerSessions
  <2> QED
    BY <2>1, <2>2, <2>3, FlightIsTyped, NoFlightIsLeft, StandingRequests
    DEF FlightTyped, FlightRecords, NoFlight
<1> QED
  BY <1>1, <1>2

LEMMA SupervisorRequests ==
  ASSUME RequestsOK,
         \/ BeginDetachedRemoval \/ EndDetachedRemoval \/ Restart
         \/ \E used \in 0..MaxRestarts : ProcessExits(used)
  PROVE  RequestsOK'
<1>1. UNCHANGED <<requests, closedAt>>
  BY DEF BeginDetachedRemoval, EndDetachedRemoval, Restart, ProcessExits
<1>2. \/ UNCHANGED <<sessions, flight>>
      \/ GiveUp
      \/ sessions' = sessions /\ flight' = [flight EXCEPT !.state = "ready"]
  BY DEF BeginDetachedRemoval, EndDetachedRemoval, Restart, ProcessExits
<1>3. CASE UNCHANGED <<sessions, flight>>
  BY <1>1, <1>3, SessionsStand, FlightIsTyped, StandingRequests DEF FlightTyped, FlightRecords
<1>4. CASE GiveUp
  <2>1. DOMAIN sessions' = {} /\ sessions' = [v \in DOMAIN sessions' |-> sessions[v]]
    BY <1>4 DEF GiveUp
  <2>2. SessionsKept
    BY <1>1, <2>1, FewerSessions
  <2>3. FlightTyped /\ flight'.state # "starting"
    BY <1>4, BoundsAssumption DEF GiveUp, FlightTyped
  <2> QED
    BY <1>1, <2>2, <2>3, StandingRequests
<1>5. CASE sessions' = sessions /\ flight' = [flight EXCEPT !.state = "ready"]
  <2>1. FlightTyped /\ flight'.state # "starting"
    BY <1>5, FlightIsTyped DEF FlightTyped, FlightRecords
  <2> QED
    BY <1>1, <1>5, <2>1, SessionsStand, StandingRequests
<1> QED
  BY <1>2, <1>3, <1>4, <1>5

(***************************************************************************)
(* The process and its retentions.                                         *)
(***************************************************************************)

LEMMA RetentionsTyped ==
  ASSUME ProcessOK
  PROVE  /\ spawned \in Nat /\ retentions \in Seq(RetentionUpTo(spawned))
         /\ DOMAIN retentions = 1..Len(retentions)
         /\ \A i \in DOMAIN retentions : retentions[i] \in RetentionUpTo(spawned)
<1>1. spawned \in Nat /\ retentions \in Seq(RetentionUpTo(spawned))
  BY BoundsAssumption DEF ProcessOK
<1>2. DOMAIN retentions = 1..Len(retentions)
  BY <1>1, LenProperties
<1> QED
  BY <1>1, <1>2, ElementOfSeq

LEMMA RetainedTyped ==
  ASSUME ProcessOK, proc # 0, NEW v \in Views, NEW attempts \in SUBSET (1..MaxRequests)
  PROVE  Retained(v, attempts) \in RetentionUpTo(spawned)
<1>1. instance \in 1..MaxSpawns /\ instance <= spawned
  BY BoundsAssumption DEF ProcessOK
<1> QED
  BY <1>1 DEF Retained, RetentionUpTo, Retention

LEMMA RetainTyped ==
  ASSUME ProcessOK, proc # 0, NEW v \in Views, NEW attempts \in SUBSET (1..MaxRequests),
         NEW rs \in Seq(RetentionUpTo(spawned))
  PROVE  Retain(rs, v, attempts) \in Seq(RetentionUpTo(spawned))
<1>1. Retained(v, attempts) \in RetentionUpTo(spawned)
  BY RetainedTyped
<1>2. AtCap(rs) => rs # <<>>
  BY BoundsAssumption, EmptySeq DEF AtCap
<1>3. AtCap(rs) => Tail(rs) \in Seq(RetentionUpTo(spawned))
  BY <1>2, HeadTailProperties
<1>4. CASE AtCap(rs) /\ Head(rs).inst # instance
  <2>1. Retain(rs, v, attempts) = Append(Tail(rs), Retained(v, attempts))
    BY <1>4 DEF Retain
  <2> QED
    BY <2>1, <1>1, <1>3, <1>4, AppendProperties
<1>5. CASE ~(AtCap(rs) /\ Head(rs).inst # instance)
  <2>1. Retain(rs, v, attempts) = Append(rs, Retained(v, attempts))
    BY <1>5 DEF Retain
  <2> QED
    BY <2>1, <1>1, AppendProperties
<1> QED
  BY <1>4, <1>5

(* One retention for each of several views is what Retain gives for one.   *)
LEMMA RetainAllTyped ==
  ASSUME ProcessOK, NEW views \in SUBSET Views, NEW attempts \in SUBSET (1..MaxRequests),
         NEW rs \in Seq(RetentionUpTo(spawned)), NEW all \in RetainAll(rs, views, attempts)
  PROVE  all \in Seq(RetentionUpTo(spawned))
<1> DEFINE R == RetentionUpTo(spawned)
           added == Cardinality(views)
           kept == SubSeq(rs, Dropped(rs, added) + 1, Len(rs))
<1>1. CASE proc = 0
  BY <1>1 DEF RetainAll
<1>2. CASE proc # 0
  <2>1. PICK order \in SetToSeqs(views) :
              all = kept \o [k \in DOMAIN order |-> Retained(order[k], attempts)]
    BY <1>2 DEF RetainAll
  <2>2. IsFiniteSet(views) /\ added \in Nat
    BY BoundsAssumption, FS_Subset, FS_CardinalityType
  <2>3. order \in [1..added -> views]
    BY DEF SetToSeqs
  <2>4. [k \in DOMAIN order |-> Retained(order[k], attempts)] \in Seq(R)
    <3>1. \A k \in 1..added : Retained(order[k], attempts) \in R
      BY <1>2, <2>3, RetainedTyped
    <3>2. [k \in DOMAIN order |-> Retained(order[k], attempts)] \in [1..added -> R]
      BY <2>3, <3>1
    <3> QED
      BY <2>2, <3>2, SeqDef
  <2>5. Len(rs) \in Nat /\ DOMAIN rs = 1..Len(rs) /\ \A i \in 1..Len(rs) : rs[i] \in R
    BY LenProperties, ElementOfSeq
  <2>6. Leading(rs) \in Nat
    <3>1. IsFiniteSet(1..Len(rs))
      BY <2>5, FS_Interval
    <3>2. {i \in DOMAIN rs : \A j \in 1..i : rs[j].inst # instance} \in SUBSET (1..Len(rs))
      BY <2>5
    <3>3. IsFiniteSet({i \in DOMAIN rs : \A j \in 1..i : rs[j].inst # instance})
      BY <3>1, <3>2, FS_Subset
    <3> QED
      BY <3>3, FS_CardinalityType DEF Leading
  <2>7. Dropped(rs, added) \in Nat
    <3>1. MaxRetentions \in Nat
      BY BoundsAssumption
    <3>2. Room(rs) \in Nat
      BY <2>5, <3>1 DEF Room, AtCap
    <3> QED
      BY <2>2, <2>6, <3>2 DEF Dropped, Least
  <2>8. kept \in Seq(R)
    <3>1. \A i \in (Dropped(rs, added) + 1)..Len(rs) : rs[i] \in R
      BY <2>5, <2>7
    <3> QED
      BY <2>5, <2>7, <3>1, SubSeqProperties
  <2> QED
    BY <2>1, <2>4, <2>8, ConcatProperties
<1> QED
  BY <1>1, <1>2

(* Some of the retentions there were.                                      *)
Remaining(rs) == \A k \in DOMAIN rs : \E i \in DOMAIN retentions : rs[k] = retentions[i]

LEMMA WithoutRemains ==
  ASSUME ProcessOK, NEW I
  PROVE  /\ Without(retentions, I) \in Seq(RetentionUpTo(spawned))
         /\ Remaining(Without(retentions, I)) /\ Remaining(retentions)
BY RetentionsTyped, WithoutKeepsTheRest DEF Remaining

(* What a judgement does: it ends the process, with no session left, or    *)
(* leaves it; only a process that no view watches is retained by it.       *)
Judged ==
  /\ retentions' \in Seq(RetentionUpTo(spawned)) /\ refusals' \in 0..MaxRefusals
  /\ UNCHANGED <<spawned, timers, registered, onServer, deleting>>
  /\ \/ /\ proc' = 0 /\ instance' = 0 /\ restarts' = 0 /\ published' = FALSE /\ source' = FALSE
        /\ removals' = removals + 1 /\ DOMAIN sessions' = {}
     \/ UNCHANGED <<proc, instance, restarts, published, source, removals>>
  /\ DOMAIN sessions' # {} => Remaining(retentions')

LEMMA JudgedProcess ==
  ASSUME ProcessOK, Judged, DOMAIN sessions' # {} => DOMAIN sessions # {}
  PROVE  ProcessOK'
<1>1. {proc', instance', spawned'} \subseteq 0..MaxSpawns /\ proc' \in {0, instance'} /\ instance' <= spawned'
  BY BoundsAssumption DEF Judged, ProcessOK
<1>2. refusals' \in 0..MaxRefusals /\ restarts' \in 0..MaxRestarts /\ timers' \in Nat /\ removals' \in Nat
  BY BoundsAssumption DEF Judged, ProcessOK
<1>3. {published', source', registered', onServer', deleting'} \subseteq BOOLEAN
  <2>1. published' \in {published, FALSE} /\ source' \in {source, FALSE}
    BY DEF Judged
  <2> QED
    BY <2>1 DEF Judged, ProcessOK
<1>4. retentions' \in Seq(RetentionUpTo(spawned'))
  BY DEF Judged
<1>5. RetainedIsUnwatched'
  BY DEF Judged, ProcessOK, RetainedIsUnwatched, Remaining
<1> QED
  BY <1>1, <1>2, <1>3, <1>4, <1>5 DEF ProcessOK

LEMMA RefusalCounted ==
  ASSUME ProcessOK, NEW taken \in BOOLEAN, Kill(taken)
  PROVE  ~taken => refusals + 1 \in 0..MaxRefusals
BY BoundsAssumption DEF Kill, ProcessOK

LEMMA ClearedJudges ==
  ASSUME ProcessOK, Cleared, DOMAIN sessions' = {}, refusals' = refusals,
         retentions' \in Seq(RetentionUpTo(spawned))
  PROVE  Judged
BY DEF Cleared, Judged, ProcessOK

LEMMA NotClearedJudges ==
  ASSUME ProcessOK, NotCleared, refusals' \in 0..MaxRefusals,
         retentions' \in Seq(RetentionUpTo(spawned)),
         DOMAIN sessions' # {} => Remaining(retentions')
  PROVE  Judged
BY DEF NotCleared, publication, Judged, ProcessOK

LEMMA FinalizeJudges ==
  ASSUME ProcessOK, NEW taken \in BOOLEAN, Kill(taken), NEW I, Finalize(retentions, I, taken)
  PROVE  Judged
<1> DEFINE mine  == {i \in I : retentions[i].inst = instance}
           owned == HasOwner(sessions', closedAt', flight, 0)
           stay  == IF DOMAIN sessions' # {} THEN {}
                    ELSE IF owned \/ (proc # 0 /\ ~taken) THEN mine ELSE {}
           clear == mine # {} /\ DOMAIN sessions' = {} /\ ~owned /\ stay = {}
<1>1. /\ retentions' = Without(retentions, I \ stay)
      /\ refusals' = IF ~owned /\ stay # {} THEN refusals + 1 ELSE refusals
      /\ IF clear THEN Cleared ELSE NotCleared /\ UNCHANGED flight
  BY DEF Finalize
<1>2. retentions' \in Seq(RetentionUpTo(spawned)) /\ Remaining(retentions')
  BY <1>1, WithoutRemains
<1>3. ~owned /\ stay # {} => ~taken
  OBVIOUS
<1>4. refusals' \in 0..MaxRefusals
  <2>1. CASE ~owned /\ stay # {}
    <3>1. refusals' = refusals + 1 /\ ~taken
      BY <2>1, <1>1, <1>3
    <3> QED
      BY <3>1, RefusalCounted
  <2>2. CASE ~(~owned /\ stay # {})
    <3>1. refusals' = refusals
      BY <2>2, <1>1
    <3> QED
      BY <3>1 DEF ProcessOK
  <2> QED
    BY <2>1, <2>2
<1>5. CASE clear
  <2>1. refusals' = refusals /\ Cleared /\ DOMAIN sessions' = {}
    BY <1>5, <1>1
  <2> QED
    BY <2>1, <1>2, ClearedJudges
<1>6. CASE ~clear
  <2>1. NotCleared
    BY <1>6, <1>1
  <2> QED
    BY <2>1, <1>2, <1>4, NotClearedJudges
<1> QED
  BY <1>5, <1>6

LEMMA TerminateJudges ==
  ASSUME ProcessOK, NEW taken \in BOOLEAN, Kill(taken),
         NEW rs \in Seq(RetentionUpTo(spawned)), Remaining(rs),
         NEW views \in SUBSET Views, NEW attempts \in SUBSET (1..MaxRequests), NEW left,
         Terminate(rs, views, attempts, taken, left)
  PROVE  Judged
<1> DEFINE owned == HasOwner(sessions', closedAt', flight, 0)
<1>1. CASE views = {} \/ DOMAIN sessions' # {}
  <2>1. retentions' = rs /\ refusals' = refusals /\ NotCleared
    BY <1>1 DEF Terminate
  <2> QED
    BY <2>1, NotClearedJudges DEF ProcessOK
<1>2. CASE ~(views = {} \/ DOMAIN sessions' # {}) /\ (owned \/ (proc # 0 /\ ~taken))
  <2>1. /\ retentions' \in RetainAll(rs, views, attempts)
        /\ refusals' = (IF owned THEN refusals ELSE refusals + 1) /\ NotCleared
    BY <1>2 DEF Terminate
  <2>2. retentions' \in Seq(RetentionUpTo(spawned))
    BY <2>1, RetainAllTyped
  <2>3. refusals' \in 0..MaxRefusals
    <3>1. refusals' = refusals \/ (refusals' = refusals + 1 /\ ~taken)
      BY <2>1, <1>2
    <3> QED
      BY <3>1, RefusalCounted DEF ProcessOK
  <2> QED
    BY <1>2, <2>1, <2>2, <2>3, NotClearedJudges
<1>3. CASE ~(views = {} \/ DOMAIN sessions' # {}) /\ ~(owned \/ (proc # 0 /\ ~taken))
  <2>1. retentions' = rs /\ refusals' = refusals /\ Cleared
    BY <1>3 DEF Terminate
  <2> QED
    BY <1>3, <2>1, ClearedJudges
<1> QED
  BY <1>1, <1>2, <1>3

(***************************************************************************)
(* The process: each action keeps its part of the invariant, and none but  *)
(* the exit of the process itself ends it while a view has a session.      *)
(***************************************************************************)

Spared == proc # 0 /\ proc' = 0 => DOMAIN sessions' = {}

LEMMA JudgedSpares ==
  ASSUME ProcessOK, Judged
  PROVE  Spared
BY DEF Judged, Spared

(* A step that leaves process and retentions alone.                        *)
LEMMA StandingProcess ==
  ASSUME ProcessOK, UNCHANGED <<process, retentions>>,
         {published', source', registered', onServer', deleting'} \subseteq BOOLEAN,
         removals' \in Nat, DOMAIN sessions' # {} => DOMAIN sessions # {}
  PROVE  ProcessOK' /\ Spared
<1>1. UNCHANGED <<proc, instance, spawned, refusals, restarts, timers>>
  BY DEF process
<1> QED
  BY <1>1 DEF ProcessOK, RetainedIsUnwatched, Spared

LEMMA StillTyped ==
  ASSUME ProcessOK
  PROVE  /\ published \in BOOLEAN /\ source \in BOOLEAN /\ registered \in BOOLEAN
         /\ onServer \in BOOLEAN /\ deleting \in BOOLEAN /\ removals \in Nat
BY DEF ProcessOK

LEMMA StandingActions ==
  ASSUME RequestsOK, ProcessOK, NEW n \in Tickets,
         \/ StartCancelledEarly(n) \/ ReuseSession(n) \/ AwaitFlight(n) \/ NoPlace(n) \/ Claim(n)
         \/ Publish(n) \/ BeginRemoval(n) \/ EndRemoval(n) \/ EndRelease(n)
         \/ StopWithoutSession(n) \/ StopKeepsSession(n)
  PROVE  ProcessOK' /\ Spared
<1>1. UNCHANGED <<process, retentions>>
  BY DEF StartCancelledEarly, ReuseSession, AwaitFlight, NoPlace, Claim, Publish, BeginRemoval,
         EndRemoval, EndRelease, StopWithoutSession, StopKeepsSession, Answer, process, retained
<1>2. DOMAIN sessions' # {} => DOMAIN sessions # {}
  <2>1. DOMAIN sessions' = DOMAIN sessions
    BY DEF StartCancelledEarly, ReuseSession, AwaitFlight, NoPlace, Claim, Publish, BeginRemoval,
           EndRemoval, EndRelease, StopWithoutSession, StopKeepsSession
  <2> QED
    BY <2>1
<1>3. {published', source', registered', onServer', deleting'} \subseteq BOOLEAN /\ removals' \in Nat
  <2>1. CASE Publish(n)
    BY <2>1, StillTyped DEF Publish
  <2>2. CASE BeginRemoval(n)
    BY <2>2, StillTyped DEF BeginRemoval
  <2>3. CASE EndRemoval(n)
    BY <2>3, StillTyped DEF EndRemoval
  <2>4. CASE ~(Publish(n) \/ BeginRemoval(n) \/ EndRemoval(n))
    <3>1. UNCHANGED <<published, source, registered, onServer, deleting, removals>>
      BY <2>4 DEF StartCancelledEarly, ReuseSession, AwaitFlight, NoPlace, Claim,
             EndRelease, StopWithoutSession, StopKeepsSession, Answer, publication
    <3> QED
      BY <3>1, StillTyped
  <2> QED
    BY <2>1, <2>2, <2>3, <2>4
<1> QED
  BY <1>1, <1>2, <1>3, StandingProcess

LEMMA StandingWorld ==
  ASSUME RequestsOK, ProcessOK,
         \/ Receives \/ BeginDetachedRemoval \/ EndDetachedRemoval
         \/ \E v \in Views : Lapse(v) \/ Touch(v)
  PROVE  ProcessOK' /\ Spared
<1>1. UNCHANGED <<process, retentions>>
  BY DEF Receives, Receive, BeginDetachedRemoval, EndDetachedRemoval, Lapse, Touch, process, retained
<1>2. DOMAIN sessions' = DOMAIN sessions
  BY DEF Receives, Receive, BeginDetachedRemoval, EndDetachedRemoval, Lapse, Touch
<1>3. {published', source', registered', onServer', deleting'} \subseteq BOOLEAN /\ removals' \in Nat
  <2>1. CASE BeginDetachedRemoval
    <3>1. UNCHANGED <<published, source, onServer>>
      BY <2>1 DEF BeginDetachedRemoval
    <3>2. \/ registered' = FALSE /\ deleting' = TRUE
          \/ UNCHANGED <<registered, deleting>>
      BY <2>1 DEF BeginDetachedRemoval
    <3>3. removals > 0 /\ removals' = removals - 1
      BY <2>1 DEF BeginDetachedRemoval
    <3>4. removals' \in Nat
      BY <3>3, StillTyped
    <3>5. {published', source', registered', onServer', deleting'} \subseteq BOOLEAN
      BY <3>1, <3>2, StillTyped
    <3> QED
      BY <3>4, <3>5
  <2>2. CASE EndDetachedRemoval
    BY <2>2, StillTyped DEF EndDetachedRemoval
  <2>3. CASE Receives \/ \E v \in Views : Lapse(v) \/ Touch(v)
    <3>1. UNCHANGED <<published, source, registered, onServer, deleting, removals>>
      BY <2>3 DEF Receives, Receive, Lapse, Touch, publication
    <3> QED
      BY <3>1, StillTyped
  <2> QED
    BY <2>1, <2>2, <2>3
<1> QED
  BY <1>1, <1>2, <1>3, StandingProcess

(* A start that registers adopts the retentions of its process.            *)
LEMMA RegisterProcess ==
  ASSUME RequestsOK, ProcessOK, NEW n \in Tickets, NEW f, Register(n, f)
  PROVE  ProcessOK' /\ Spared
<1>1. /\ UNCHANGED <<proc, instance, spawned, refusals, restarts, timers>>
      /\ UNCHANGED <<published, source, registered, onServer, deleting, removals>>
      /\ retentions' = Without(retentions, Adopted)
  BY DEF Register, AdoptRetentions, process, publication
<1>2. retentions' \in Seq(RetentionUpTo(spawned))
  BY <1>1, WithoutRemains
<1>3. ASSUME NEW k \in DOMAIN retentions' PROVE retentions'[k].inst # instance
  <2>1. PICK i \in DOMAIN retentions : i \notin Adopted /\ retentions'[k] = retentions[i]
    BY <1>1, RetentionsTyped, WithoutKeepsTheRest
  <2>2. retentions[i].inst \in 1..MaxSpawns
    BY RetentionsTyped DEF RetentionUpTo, Retention
  <2>3. instance = 0 \/ retentions[i].inst # instance
    BY <2>1 DEF Adopted
  <2> QED
    BY <2>1, <2>2, <2>3, BoundsAssumption
<1>4. RetainedIsUnwatched'
  BY <1>1, <1>3 DEF RetainedIsUnwatched
<1> QED
  BY <1>1, <1>2, <1>4 DEF ProcessOK, Spared

(* A new process has no retention yet.                                     *)
LEMMA SpawnedProcess ==
  ASSUME ProcessOK, Spawned, UNCHANGED <<refusals, restarts, retentions, published, publication>>,
         timers' \in Nat, source' \in BOOLEAN
  PROVE  ProcessOK' /\ Spared
<1>1. /\ spawned < MaxSpawns /\ spawned' = spawned + 1 /\ proc' = spawned + 1
      /\ instance' = spawned + 1
  BY DEF Spawned
<1>2. MaxSpawns \in Nat /\ spawned \in 0..MaxSpawns
  BY BoundsAssumption DEF ProcessOK
<1>3. retentions' \in Seq(RetentionUpTo(spawned'))
  <2>1. RetentionUpTo(spawned) \subseteq RetentionUpTo(spawned')
    BY <1>1, <1>2 DEF RetentionUpTo, Retention
  <2> QED
    BY <2>1, RetentionsTyped, SeqMonotonic
<1>4. \A i \in DOMAIN retentions : retentions[i].inst # spawned + 1
  <2>1. ASSUME NEW i \in DOMAIN retentions PROVE retentions[i].inst # spawned + 1
    <3>1. retentions[i].inst \in 1..MaxSpawns /\ retentions[i].inst <= spawned
      BY RetentionsTyped DEF RetentionUpTo, Retention
    <3> QED
      BY <3>1, <1>2
  <2> QED
    BY <2>1
<1>5. RetainedIsUnwatched'
  BY <1>1, <1>4 DEF RetainedIsUnwatched
<1>6. {proc', instance', spawned'} \subseteq 0..MaxSpawns /\ proc' \in {0, instance'} /\ instance' <= spawned'
  BY <1>1, <1>2
<1>7. /\ refusals' \in 0..MaxRefusals /\ restarts' \in 0..MaxRestarts /\ removals' \in Nat
      /\ {published', source', registered', onServer', deleting'} \subseteq BOOLEAN
  BY StillTyped DEF ProcessOK, publication
<1>8. proc' # 0
  BY <1>1, <1>2
<1> QED
  BY <1>3, <1>5, <1>6, <1>7, <1>8 DEF ProcessOK, Spared

(* A path that is given up: its process is only stopped when nobody has a  *)
(* session, and retained only if it does not take the signal.              *)
LEMMA ReleaseProcess ==
  ASSUME RequestsOK, ProcessOK, NEW n \in Tickets, NEW answer, NEW f, NEW taken \in BOOLEAN,
         Kill(taken), Release(n, answer, f, taken)
  PROVE  ProcessOK' /\ Spared
<1> DEFINE owned == HasOwner(sessions, closedAt, f, n)
<1>1. /\ sessions' = sessions
      /\ UNCHANGED <<spawned, timers, registered, onServer, removals, deleting>>
  BY DEF Release, publication
<1>2. ~owned => DOMAIN sessions = {}
  BY DEF HasOwner
<1>3. CASE owned
  <2>1. UNCHANGED <<proc, instance, refusals, restarts, retentions, published, source>>
    BY <1>3 DEF Release, retained
  <2> QED
    BY <1>1, <2>1, StillTyped, StandingProcess DEF process
<1>4. CASE ~owned /\ proc # 0 /\ ~taken
  <2>1. /\ UNCHANGED <<proc, instance, restarts, published, source>> /\ refusals' = refusals + 1
        /\ retentions' = IF n \in InFlight
                           THEN Retain(retentions, requests[n].view, {n}) ELSE retentions
    BY <1>4 DEF Release
  <2>2. requests[n].view \in Views /\ {n} \in SUBSET (1..MaxRequests)
    BY TicketsAreNumbers DEF RequestsOK, Request
  <2>3. retentions' \in Seq(RetentionUpTo(spawned))
    <3>1. Retain(retentions, requests[n].view, {n}) \in Seq(RetentionUpTo(spawned))
      BY <1>4, <2>2, RetentionsTyped, RetainTyped
    <3> QED
      BY <2>1, <3>1, RetentionsTyped
  <2>4. refusals' \in 0..MaxRefusals
    BY <1>4, <2>1, RefusalCounted
  <2>5. RetainedIsUnwatched'
    BY <1>1, <1>2, <1>4 DEF RetainedIsUnwatched
  <2> QED
    BY <1>1, <2>1, <2>3, <2>4, <2>5 DEF ProcessOK, Spared
<1>5. CASE ~owned /\ (proc = 0 \/ taken)
  <2>1. /\ proc' = 0 /\ instance' = IF proc = 0 THEN instance ELSE 0
        /\ restarts' = 0 /\ source' = FALSE /\ published' = FALSE
        /\ UNCHANGED <<refusals, retentions>>
    BY <1>5 DEF Release, retained
  <2>2. {proc', instance', spawned'} \subseteq 0..MaxSpawns /\ proc' \in {0, instance'} /\ instance' <= spawned'
    BY <1>1, <2>1, BoundsAssumption DEF ProcessOK
  <2>3. restarts' \in 0..MaxRestarts
    BY <2>1, BoundsAssumption
  <2>4. RetainedIsUnwatched'
    BY <1>1, <1>2, <1>5 DEF RetainedIsUnwatched
  <2>5. DOMAIN sessions' = {}
    BY <1>1, <1>2, <1>5
  <2> QED
    BY <1>1, <2>1, <2>2, <2>3, <2>4, <2>5 DEF ProcessOK, Spared
<1> QED
  BY <1>3, <1>4, <1>5

LEMMA StartProcess ==
  ASSUME RequestsOK, ProcessOK, NEW n \in Tickets, NEW taken \in BOOLEAN, Kill(taken),
         StartStep(n, taken)
  PROVE  ProcessOK' /\ Spared
<1>1. CASE Spawn(n)
  <2>1. /\ Spawned /\ source' = TRUE
        /\ UNCHANGED <<refusals, restarts, timers, retentions, published, publication>>
    BY <1>1 DEF Spawn, retained
  <2> QED
    BY <2>1, SpawnedProcess DEF ProcessOK
<1>2. CASE Resume(n, taken)
  <2>1. CASE \/ Answer(n, "failed") /\ UNCHANGED sessions
             \/ /\ Answer(n, "ok")
                /\ sessions' = [sessions EXCEPT ![requests[n].view] =
                      [seq |-> Top(@.seq, n), attempts |-> @.attempts, fresh |-> TRUE]]
    <3>1. /\ UNCHANGED <<process, retentions, published, source>>
          /\ UNCHANGED <<registered, onServer, removals, deleting>>
          /\ DOMAIN sessions' = DOMAIN sessions
      BY <2>1 DEF Answer, retained, publication
    <3> QED
      BY <3>1, StillTyped, StandingProcess
  <2>2. CASE Register(n, flight)
    BY <2>2, RegisterProcess
  <2>3. CASE Release(n, "failed", flight, taken)
    BY <2>3, ReleaseProcess
  <2> QED
    BY <1>2, <2>1, <2>2, <2>3 DEF Resume
<1> QED
  BY <1>1, <1>2, StandingActions, RegisterProcess, ReleaseProcess
  DEF StartStep, AdoptProcess, Ready, AbortStart, FailStart

LEMMA StopSessionProcess ==
  ASSUME RequestsOK, ProcessOK, NEW n \in Tickets, NEW taken \in BOOLEAN, Kill(taken),
         StopSession(n, taken)
  PROVE  ProcessOK' /\ Spared
<1> DEFINE v == requests[n].view
           owned == HasOwner(sessions', closedAt', flight, 0)
<1>1. v \in DOMAIN sessions /\ v \in Views
  BY DEF StopSession, Arriving, HasSession, RequestsOK, RequestsTyped
<1>2. {v} \in SUBSET Views /\ Leases(n) \in SUBSET (1..MaxRequests)
  BY <1>1 DEF Leases, RequestsOK, RequestsTyped, Session
<1>3. Judged
  <2>1. CASE requests[n].kill
    <3>1. Terminate(retentions, {v}, Leases(n), taken, NoFlight)
      BY <2>1 DEF StopSession
    <3> QED
      BY <1>2, <3>1, RetentionsTyped, WithoutRemains, TerminateJudges
  <2>2. CASE ~requests[n].kill /\ (proc = 0 \/ owned)
    <3>1. NotCleared /\ UNCHANGED <<refusals, retentions>>
      BY <2>2 DEF StopSession, retained
    <3> QED
      BY <3>1, RetentionsTyped, WithoutRemains, NotClearedJudges DEF ProcessOK
  <2>3. CASE ~requests[n].kill /\ ~(proc = 0 \/ owned)
    <3>1. DOMAIN sessions' = {}
      BY <2>3 DEF HasOwner
    <3>2. CASE CapKills(retentions, taken)
      <4>1. retentions' = Tail(retentions) /\ Cleared /\ refusals' = refusals
        BY <2>3, <3>2 DEF StopSession
      <4>2. retentions # <<>>
        BY <3>2, BoundsAssumption, EmptySeq DEF CapKills, AtCap
      <4>3. retentions' \in Seq(RetentionUpTo(spawned))
        BY <4>1, <4>2, RetentionsTyped, HeadTailProperties
      <4> QED
        BY <3>1, <4>1, <4>3, ClearedJudges
    <3>3. CASE ~CapKills(retentions, taken)
      <4>1. /\ retentions' = Retain(retentions, v, Leases(n)) /\ NotCleared
            /\ refusals' = IF CapRefused(retentions, taken) THEN refusals + 1 ELSE refusals
        BY <2>3, <3>3 DEF StopSession
      <4>2. retentions' \in Seq(RetentionUpTo(spawned))
        BY <1>1, <1>2, <2>3, <4>1, RetentionsTyped, RetainTyped
      <4>3. refusals' \in 0..MaxRefusals
        <5>1. refusals' = refusals \/ (refusals' = refusals + 1 /\ ~taken)
          BY <4>1 DEF CapRefused
        <5> QED
          BY <5>1, RefusalCounted DEF ProcessOK
      <4> QED
        BY <3>1, <4>1, <4>2, <4>3, NotClearedJudges
    <3> QED
      BY <3>2, <3>3
  <2> QED
    BY <2>1, <2>2, <2>3
<1> QED
  BY <1>1, <1>3, JudgedProcess, JudgedSpares

LEMMA EndCloseProcess ==
  ASSUME RequestsOK, ProcessOK, NEW n \in Tickets, NEW taken \in BOOLEAN, Kill(taken),
         EndClose(n, taken)
  PROVE  ProcessOK' /\ Spared
<1> DEFINE v == requests[n].view
           owned == HasOwner(sessions, closedAt, flight, 0)
           rs == IF proc = 0 THEN retentions ELSE Retain(retentions, v, {})
           others == {i \in OfView(rs, v) : rs[i].inst # instance}
<1>1. sessions' = sessions /\ v \in Views
  BY TicketsAreNumbers DEF EndClose, RequestsOK, Request
<1>2. rs \in Seq(RetentionUpTo(spawned))
  BY <1>1, RetentionsTyped, RetainTyped
<1>3. Judged
  <2>1. CASE DOMAIN sessions # {}
    <3>1. /\ retentions' = Without(retentions, OfView(retentions, v))
          /\ NotCleared /\ refusals' = refusals
      BY <2>1 DEF EndClose
    <3> QED
      BY <3>1, WithoutRemains, NotClearedJudges DEF ProcessOK
  <2>2. CASE DOMAIN sessions = {} /\ (owned \/ (proc # 0 /\ ~taken))
    <3>1. /\ retentions' = Without(rs, others)
          /\ refusals' = (IF owned THEN refusals ELSE refusals + 1) /\ NotCleared
      BY <2>2 DEF EndClose
    <3>2. retentions' \in Seq(RetentionUpTo(spawned))
      BY <1>2, <3>1, WithoutKeepsTheRest
    <3>3. refusals' \in 0..MaxRefusals
      <4>1. refusals' = refusals \/ (refusals' = refusals + 1 /\ ~taken)
        BY <2>2, <3>1
      <4> QED
        BY <4>1, RefusalCounted DEF ProcessOK
    <3> QED
      BY <1>1, <2>2, <3>1, <3>2, <3>3, NotClearedJudges
  <2>3. CASE DOMAIN sessions = {} /\ ~(owned \/ (proc # 0 /\ ~taken))
    <3>1. retentions' = Without(retentions, OfView(retentions, v)) /\ Cleared /\ refusals' = refusals
      BY <2>3 DEF EndClose
    <3> QED
      BY <1>1, <2>3, <3>1, WithoutRemains, ClearedJudges
  <2> QED
    BY <2>1, <2>2, <2>3
<1> QED
  BY <1>1, <1>3, JudgedProcess, JudgedSpares

LEMMA CloseProcess ==
  ASSUME RequestsOK, ProcessOK, NEW n \in Tickets, NEW taken \in BOOLEAN, Kill(taken),
         CloseStep(n, taken)
  PROVE  ProcessOK' /\ Spared
<1>1. CASE EscalateStop(n, taken)
  <2> DEFINE mine == {i \in DOMAIN retentions : Matches(n, retentions[i])}
  <2>1. sessions' = sessions
    BY <1>1 DEF EscalateStop
  <2>2. CASE mine # {}
    <3>1. \E i \in mine : Finalize(retentions, {i}, taken)
      BY <1>1, <2>2 DEF EscalateStop
    <3> QED
      BY <2>1, <3>1, FinalizeJudges, JudgedProcess, JudgedSpares
  <2>3. CASE mine = {}
    <3>1. /\ UNCHANGED <<process, retentions, published, source>>
          /\ UNCHANGED <<registered, onServer, removals, deleting>>
      BY <1>1, <2>3 DEF EscalateStop, retained, publication
    <3> QED
      BY <2>1, <3>1, StillTyped, StandingProcess
  <2> QED
    BY <2>2, <2>3
<1>2. CASE CloseView(n, taken)
  <2> DEFINE v == requests[n].view
  <2>1. DOMAIN sessions' # {} => DOMAIN sessions # {}
    <3>1. sessions' = sessions \/ sessions' = Drop(v)
      BY <1>2 DEF CloseView
    <3> QED
      BY <3>1, DroppedSession
  <2>2. CASE Finalize(retentions, OfView(retentions, v), taken)
    BY <2>1, <2>2, FinalizeJudges, JudgedProcess, JudgedSpares
  <2>3. CASE UNCHANGED <<flight, process, retained, published, source, publication>>
    <3>1. /\ UNCHANGED <<process, retentions, published, source>>
          /\ UNCHANGED <<registered, onServer, removals, deleting>>
      BY <2>3 DEF retained, publication
    <3> QED
      BY <2>1, <3>1, StillTyped, StandingProcess
  <2> QED
    BY <1>2, <2>2, <2>3 DEF CloseView
<1> QED
  BY <1>1, <1>2, StandingActions, StopSessionProcess, EndCloseProcess DEF CloseStep

LEMMA ExpireProcess ==
  ASSUME RequestsOK, ProcessOK, NEW old \in 0..Len(retentions),
         NEW views \in SUBSET DOMAIN sessions, NEW taken \in BOOLEAN, Kill(taken),
         Expire(old, views, taken)
  PROVE  ProcessOK' /\ Spared
<1>1. DOMAIN sessions' # {} => DOMAIN sessions # {}
  BY DEF Expire
<1>2. Judged
  <2>1. CASE views = {}
    <3>1. Finalize(retentions, 1..old, taken)
      BY <2>1 DEF Expire
    <3> QED
      BY <3>1, FinalizeJudges
  <2>2. CASE views # {}
    <3>1. Terminate(Without(retentions, 1..old), views, {}, taken, flight)
      BY <2>2 DEF Expire
    <3>2. views \in SUBSET Views /\ {} \in SUBSET (1..MaxRequests)
      BY DEF RequestsOK, RequestsTyped
    <3> QED
      BY <3>1, <3>2, WithoutRemains, TerminateJudges
  <2> QED
    BY <2>1, <2>2
<1> QED
  BY <1>1, <1>2, JudgedProcess, JudgedSpares

LEMMA RestartProcess ==
  ASSUME ProcessOK, Restart
  PROVE  ProcessOK' /\ Spared
<1>1. /\ timers' = timers - 1 /\ timers > 0
      /\ UNCHANGED <<refusals, restarts, retentions, published, source, publication>>
  BY DEF Restart, retained
<1>2. timers' \in Nat
  BY <1>1 DEF ProcessOK
<1>3. CASE Spawned
  BY <1>1, <1>2, <1>3, StillTyped, SpawnedProcess
<1>4. CASE UNCHANGED <<proc, instance, spawned>>
  <2>1. DOMAIN sessions' # {} => DOMAIN sessions # {}
    BY DEF Restart, GiveUp
  <2>2. RetainedIsUnwatched'
    BY <1>1, <1>4, <2>1 DEF ProcessOK, RetainedIsUnwatched
  <2> QED
    BY <1>1, <1>2, <1>4, <2>2 DEF ProcessOK, publication, Spared
<1> QED
  BY <1>3, <1>4 DEF Restart

LEMMA ExitProcess ==
  ASSUME ProcessOK, NEW used \in 0..MaxRestarts, ProcessExits(used)
  PROVE  ProcessOK'
<1>1. /\ proc' = 0
      /\ UNCHANGED <<instance, spawned, refusals, retentions, published, source, publication>>
  BY DEF ProcessExits, retained
<1>2. timers' \in Nat
  BY DEF ProcessExits, ProcessOK
<1>3. restarts' \in 0..MaxRestarts
  <2>1. \/ restarts' = 0 \/ restarts' = used
        \/ used < MaxRestarts /\ restarts' = used + 1
    BY DEF ProcessExits
  <2> QED
    BY <2>1, BoundsAssumption
<1>4. DOMAIN sessions' # {} => DOMAIN sessions # {}
  BY DEF ProcessExits, GiveUp
<1>5. RetainedIsUnwatched'
  BY <1>1, <1>4 DEF ProcessOK, RetainedIsUnwatched
<1>6. {proc', instance', spawned'} \subseteq 0..MaxSpawns /\ proc' \in {0, instance'} /\ instance' <= spawned'
  BY <1>1, BoundsAssumption DEF ProcessOK
<1> QED
  BY <1>1, <1>2, <1>3, <1>5, <1>6 DEF ProcessOK, publication

(***************************************************************************)
(* The theorems.                                                           *)
(***************************************************************************)

LEMMA InitOK ==
  ASSUME Init
  PROVE  IInv
<1>1. /\ requests = <<>> /\ sessions = <<>> /\ closedAt = [v \in Views |-> 0]
      /\ flight = NoFlight /\ proc = 0 /\ instance = 0 /\ spawned = 0 /\ refusals = 0
      /\ restarts = 0 /\ timers = 0 /\ retentions = <<>> /\ removals = 0
      /\ published = FALSE /\ source = FALSE /\ registered = FALSE /\ onServer = FALSE
      /\ deleting = FALSE
  BY DEF Init
<1>2. Tickets = {} /\ DOMAIN sessions = {} /\ sessions \in [DOMAIN sessions -> Session]
  BY <1>1 DEF Tickets
<1>3. requests \in Seq(Request) /\ Len(requests) = 0 /\ retentions \in Seq(RetentionUpTo(spawned))
  BY <1>1, EmptySeq
<1>4. RequestsTyped
  BY <1>1, <1>2, <1>3, BoundsAssumption DEF RequestsTyped, NoFlight
<1>5. Phased /\ Marked /\ Waits /\ Starts
  BY <1>1, <1>2 DEF Phased, Marked, Waits, Starts, NoFlight
<1>6. ProcessOK
  <2>1. RetainedIsUnwatched
    BY <1>2 DEF RetainedIsUnwatched
  <2>2. /\ {proc, instance, spawned} \subseteq 0..MaxSpawns /\ proc \in {0, instance}
        /\ instance <= spawned /\ refusals \in 0..MaxRefusals
        /\ restarts \in 0..MaxRestarts /\ timers \in Nat /\ removals \in Nat
    BY <1>1, BoundsAssumption
  <2>3. {published, source, registered, onServer, deleting} \subseteq BOOLEAN
    BY <1>1
  <2> QED
    BY <1>3, <2>1, <2>2, <2>3 DEF ProcessOK
<1> QED
  BY <1>4, <1>5, <1>6 DEF IInv, RequestsOK

LEMMA NextRequests ==
  ASSUME IInv, Next
  PROVE  RequestsOK'
<1>1. RequestsOK
  BY DEF IInv
<1>2. CASE Receives
  <2>1. PICK v \in Views :
           \/ Receive("start", v, FALSE, 0) \/ Receive("close", v, FALSE, 0)
           \/ \E kill \in BOOLEAN, lease \in 0..Len(requests) : Receive("stop", v, kill, lease)
    BY <1>2 DEF Receives
  <2>2. 0 \in 0..Len(requests)
    BY <1>1, TicketsAreNumbers DEF RequestsOK
  <2>3. CASE Receive("start", v, FALSE, 0)
    BY <1>1, <2>2, <2>3, ReceiveRequests
  <2>4. CASE Receive("close", v, FALSE, 0)
    BY <1>1, <2>2, <2>4, ReceiveRequests
  <2>5. CASE \E kill \in BOOLEAN, lease \in 0..Len(requests) : Receive("stop", v, kill, lease)
    BY <1>1, <2>5, ReceiveRequests
  <2> QED
    BY <2>1, <2>3, <2>4, <2>5
<1>3. ASSUME NEW n \in Tickets, NoPlace(n) PROVE RequestsOK'
  BY <1>1, <1>3, RefusedStarts
<1>4. ASSUME NEW n \in Tickets, NEW taken \in BOOLEAN, StartStep(n, taken) PROVE RequestsOK'
  BY <1>1, <1>4, RefusedStarts, ReuseSessionRequests, AwaitFlightRequests, RegisteringStarts,
     ClaimRequests, SteppingStarts, EndingStarts, ResumeRequests DEF StartStep
<1>5. ASSUME NEW n \in Tickets, NEW taken \in BOOLEAN, CloseStep(n, taken) PROVE RequestsOK'
  BY <1>1, <1>5, EscalateStopRequests, StopWithoutSessionRequests, StopKeepsSessionRequests,
     StopSessionRequests, CloseViewRequests, EndCloseRequests DEF CloseStep
<1> QED
  BY <1>1, <1>2, <1>3, <1>4, <1>5, TimeRequests, SupervisorRequests DEF Next

LEMMA NextProcess ==
  ASSUME IInv, Next
  PROVE  ProcessOK' /\ (Spared \/ \E used \in 0..MaxRestarts : ProcessExits(used))
<1>1. RequestsOK /\ ProcessOK
  BY DEF IInv
<1> QED
  BY <1>1, StandingWorld, StandingActions, StartProcess, CloseProcess, ExpireProcess,
     RestartProcess, ExitProcess DEF Next

LEMMA StandStill ==
  ASSUME IInv, UNCHANGED vars
  PROVE  IInv' /\ Spared
<1>1. /\ UNCHANGED <<requests, sessions, closedAt, flight>>
      /\ UNCHANGED <<proc, instance, spawned, refusals, restarts, timers, retentions>>
      /\ UNCHANGED <<published, source, registered, onServer, removals, deleting>>
  BY DEF vars, process, retained, publication
<1>2. RequestsOK'
  BY <1>1 DEF IInv, RequestsOK, RequestsTyped, Phased, Marked, Waits, Starts, Tickets, Handled
<1>3. ProcessOK'
  BY <1>1 DEF IInv, ProcessOK, RetainedIsUnwatched
<1> QED
  BY <1>1, <1>2, <1>3 DEF IInv, Spared

(* The inductive invariant holds in every state the manager reaches: the   *)
(* properties below follow from it.                                        *)
THEOREM LiveInductive == Spec => []IInv
<1>1. Init => IInv
  BY InitOK
<1>2. IInv /\ [Next]_vars => IInv'
  BY NextRequests, NextProcess, StandStill DEF IInv
<1> QED
  BY <1>1, <1>2, PTL DEF Spec

(* The state of the stream manager is well typed, and the process that     *)
(* lives is the one whose instance is registered (processInstances).       *)
THEOREM LiveTyped == Spec => []TypeOK
<1>1. IInv => TypeOK
  <2>1. SUFFICES ASSUME IInv PROVE TypeOK
    OBVIOUS
  <2>2. RequestsTyped /\ ProcessOK
    BY <2>1 DEF IInv, RequestsOK
  <2>3. retentions \in Seq(Retention)
    <3>1. RetentionUpTo(spawned) \subseteq Retention
      BY DEF RetentionUpTo
    <3> QED
      BY <2>2, <3>1, SeqMonotonic DEF ProcessOK
  <2> QED
    BY <2>2, <2>3 DEF RequestsTyped, ProcessOK, TypeOK
<1> QED
  BY <1>1, LiveInductive, PTL

(* A view that was closed stays closed: whatever starts, waiters and stops *)
(* are still under way when its close is handled, only a newer request has *)
(* a session of it (registerSessionMonotonic, the close marks).            *)
THEOREM ClosedViewsStayClosed == Spec => []ClosedStaysClosed
<1>1. IInv => ClosedStaysClosed
  <2>1. SUFFICES ASSUME IInv,
                        NEW n \in Tickets, Handled(n), requests[n].kind = "close",
                        SessionOlderThan(n)
                 PROVE  FALSE
    BY DEF ClosedStaysClosed
  <2>2. RequestsTyped /\ Marked
    BY <2>1 DEF IInv, RequestsOK
  <2> DEFINE v == requests[n].view
  <2>3. v \in DOMAIN sessions /\ sessions[v].seq <= n
    BY <2>1 DEF SessionOlderThan
  <2>4. closedAt[v] < sessions[v].seq /\ n <= closedAt[v]
    BY <2>1, <2>2, <2>3 DEF Marked
  <2>5. n \in Nat /\ closedAt[v] \in Nat /\ sessions[v].seq \in Nat
    <3>1. n \in Nat
      BY <2>1, <2>2, TicketsAreNumbers
    <3>2. v \in Views /\ sessions[v] \in Session
      BY <2>2, <2>3 DEF RequestsTyped
    <3>3. closedAt[v] \in 0..MaxRequests
      BY <2>2, <3>2 DEF RequestsTyped
    <3> QED
      BY <3>1, <3>2, <3>3 DEF Session
  <2> QED
    BY <2>3, <2>4, <2>5
<1> QED
  BY <1>1, LiveInductive, PTL

(* Whoever waits for a start waits for one that has answered or still      *)
(* runs, and a flight that is starting belongs to a start that runs        *)
(* (transcodeInFlight, resolveInFlightSafe).                               *)
THEOREM WaitersAreAnswered == Spec => []NobodyWaitsForNothing
<1>1. IInv => NobodyWaitsForNothing
  <2>1. SUFFICES ASSUME IInv PROVE NobodyWaitsForNothing
    OBVIOUS
  <2>2. Waits /\ Starts
    BY <2>1 DEF IInv, RequestsOK
  <2>3. ASSUME NEW n \in At("waiting") PROVE Answered(n) \/ requests[n].on \in InFlight
    <3>1. n \in Tickets /\ requests[n].phase = "waiting"
      BY <2>3 DEF At, Tickets
    <3> QED
      BY <2>2, <3>1 DEF Waits, Answered, Flying, InFlight, Tickets
  <2>4. flight.state = "starting" => flight.owner \in InFlight
    BY <2>2 DEF Starts, Working, InFlight, Tickets
  <2> QED
    BY <2>3, <2>4 DEF NobodyWaitsForNothing
<1> QED
  BY <1>1, LiveInductive, PTL

(* No view watches a process that is retained: a start that registers      *)
(* adopts the retentions of its process (adoptRegisteredRetentions).       *)
THEOREM RetainedProcessesAreUnwatched == Spec => []RetainedIsUnwatched
<1>1. IInv => RetainedIsUnwatched
  BY DEF IInv, ProcessOK
<1> QED
  BY <1>1, LiveInductive, PTL

(* No step of the manager ends an FFmpeg whose path a view watches         *)
(* (pathHasOwner, decideProcessTermination): it only exits by itself.      *)
THEOREM ViewersKeepTheirProcess == Spec => NoKillUnderAViewer
<1>1. IInv /\ [Next]_vars =>
        [proc # 0 /\ proc' = 0 /\ DOMAIN sessions' # {}
           => \E used \in 0..MaxRestarts : ProcessExits(used)]_vars
  BY NextProcess DEF Spared
<1> QED
  BY <1>1, LiveInductive, PTL DEF Spec, NoKillUnderAViewer

=============================================================================
