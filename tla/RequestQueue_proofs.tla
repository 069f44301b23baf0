------------------------- MODULE RequestQueue_proofs -------------------------
(***************************************************************************)
(* Proofs about RequestQueue, for any number of producers, any length of   *)
(* the second and any bounds.                                              *)
(*                                                                         *)
(* Types, wake-ups and the order of the requests are inductive given the   *)
(* types.  The times of the events need EventInv: the abstime of an event  *)
(* stands for the instant its caller asked for (TimesOK), and the list is  *)
(* in the order of timespec_cmp (OrderOK).  LaterTicks carries the one     *)
(* over to the other.                                                      *)
(***************************************************************************)
EXTENDS RequestQueue, TLAPS, SequenceTheorems, WellFoundedInduction

-----------------------------------------------------------------------------
(***************************************************************************)
(* Times.                                                                  *)
(***************************************************************************)

\* The clock's reading is a timespec with less than a second of nanoseconds.
LEMMA ClockTimeType ==
    ASSUME NEW n \in Nat
    PROVE  /\ ClockTime(n) \in Timespec
           /\ ClockTime(n).nsec < NsecPerSec
           /\ Ticks(ClockTime(n)) = n
<1>1. n \div NsecPerSec \in Nat /\ n % NsecPerSec \in 0 .. NsecPerSec - 1
  BY TimeAssumption
<1>2. n = NsecPerSec * (n \div NsecPerSec) + (n % NsecPerSec)
  BY TimeAssumption
<1> QED BY <1>1, <1>2, TimeAssumption DEF ClockTime, Timespec, Ticks

\* An abstime is the instant its caller asked for, with at most one second of
\* nanoseconds.
LEMMA AbsTimeType ==
    ASSUME NEW n \in Nat, NEW delay \in Delays
    PROVE  /\ AbsTime(n, delay) \in Timespec
           /\ AbsTime(n, delay).nsec <= NsecPerSec
           /\ Ticks(AbsTime(n, delay)) = n + Ticks(delay)
           /\ n + Ticks(delay) \in Nat
<1> DEFINE c == ClockTime(n)
<1>1. /\ c.sec \in Nat /\ c.nsec \in Nat /\ c.nsec < NsecPerSec
      /\ c.sec * NsecPerSec + c.nsec = n
  BY ClockTimeType DEF Timespec, Ticks
<1>2. delay.sec \in Nat /\ delay.nsec \in 0 .. NsecPerSec - 1
  BY TimeAssumption
<1>3. NsecPerSec \in Nat
  BY TimeAssumption
<1> HIDE DEF c
<1> DEFINE ns == c.nsec + delay.nsec
           s == c.sec + delay.sec
<1>4. s \in Nat /\ ns \in Nat /\ ns < 2 * NsecPerSec
  BY <1>1, <1>2, <1>3
<1>5. AbsTime(n, delay) = IF ns > NsecPerSec THEN [sec |-> s + 1, nsec |-> ns - NsecPerSec]
                          ELSE [sec |-> s, nsec |-> ns]
  BY DEF AbsTime, c
<1>6. /\ delay.sec * NsecPerSec \in Nat
      /\ c.sec * NsecPerSec \in Nat
      /\ s * NsecPerSec = c.sec * NsecPerSec + delay.sec * NsecPerSec
      /\ (s + 1) * NsecPerSec = s * NsecPerSec + NsecPerSec
  BY <1>1, <1>2, <1>3
<1>7. Ticks(delay) = delay.sec * NsecPerSec + delay.nsec /\ n + Ticks(delay) \in Nat
  BY <1>2, <1>6 DEF Ticks
<1>8. s * NsecPerSec + ns = n + Ticks(delay)
  BY <1>1, <1>2, <1>3, <1>6, <1>7
<1> HIDE DEF ns, s
<1>9. CASE ns > NsecPerSec
  <2>1. AbsTime(n, delay) = [sec |-> s + 1, nsec |-> ns - NsecPerSec]
    BY <1>5, <1>9
  <2>2. (s + 1) * NsecPerSec + (ns - NsecPerSec) = s * NsecPerSec + ns
    BY <1>3, <1>4, <1>6
  <2> QED BY <2>1, <2>2, <1>3, <1>4, <1>7, <1>8, <1>9 DEF Timespec, Ticks
<1>10. CASE ~(ns > NsecPerSec)
  <2>1. AbsTime(n, delay) = [sec |-> s, nsec |-> ns]
    BY <1>5, <1>10
  <2> QED BY <2>1, <1>3, <1>4, <1>7, <1>8, <1>10 DEF Timespec, Ticks
<1> QED BY <1>9, <1>10

\* Comparing seconds first never contradicts the order of the instants, as long
\* as no tv_nsec exceeds one second.
LEMMA LaterTicks ==
    ASSUME NEW a \in Timespec, NEW b \in Timespec,
           a.nsec <= NsecPerSec, b.nsec <= NsecPerSec
    PROVE  Later(a, b) => Ticks(a) >= Ticks(b)
<1> SUFFICES ASSUME Later(a, b) PROVE Ticks(a) >= Ticks(b)
  OBVIOUS
<1>1. /\ a.sec \in Nat /\ a.nsec \in Nat /\ b.sec \in Nat /\ b.nsec \in Nat
      /\ NsecPerSec \in Nat
  BY TimeAssumption DEF Timespec
<1>2. CASE a.sec = b.sec
  BY <1>1, <1>2 DEF Later, Ticks
<1>3. CASE a.sec # b.sec
  <2>1. a.sec >= b.sec + 1
    BY <1>1, <1>3 DEF Later
  <2>2. a.sec * NsecPerSec >= (b.sec + 1) * NsecPerSec
    BY <1>1, <2>1
  <2>3. (b.sec + 1) * NsecPerSec = b.sec * NsecPerSec + NsecPerSec
    BY <1>1
  <2>4. a.sec * NsecPerSec \in Nat /\ b.sec * NsecPerSec \in Nat
    BY <1>1
  <2> QED BY <1>1, <2>2, <2>3, <2>4 DEF Ticks
<1> QED BY <1>2, <1>3

\* Not being later is transitive, and total.
LEMMA LaterOrder ==
    ASSUME NEW a \in Timespec, NEW b \in Timespec, NEW c \in Timespec
    PROVE  /\ ~Later(a, b) /\ ~Later(b, c) => ~Later(a, c)
           /\ Later(a, b) => ~Later(b, a)
           /\ ~Later(a, b) /\ ~Later(b, a) => a = b
  BY DEF Later, Timespec

-----------------------------------------------------------------------------
(***************************************************************************)
(* Lists.                                                                  *)
(***************************************************************************)

\* A non-empty set of natural numbers has a least element.
LEMMA LeastElement ==
    ASSUME NEW T \in SUBSET Nat, T # {}
    PROVE  \E m \in T : \A k \in T : m <= k
<1>1. PICK m \in T : \A y \in T : <<y, m>> \notin OpToRel(<, Nat)
  BY NatLessThanWellFounded, WFMin
<1>2. ASSUME NEW k \in T PROVE m <= k
  <2>1. <<k, m>> \in Nat \X Nat
    OBVIOUS
  <2>2. ~(k < m)
    BY <1>1, <2>1 DEF OpToRel
  <2> QED BY <2>2
<1> QED BY <1>2

\* The place of an event always exists.
LEMMA PlaceProperties ==
    ASSUME NEW list \in Seq(Event), NEW e \in Event
    PROVE  /\ Place(list, e) \in 1 .. Len(list) + 1
           /\ Place(list, e) <= Len(list)
                => Later(list[Place(list, e)].abstime, e.abstime)
           /\ \A i \in 1 .. Place(list, e) - 1 : ~Later(list[i].abstime, e.abstime)
<1> DEFINE T == {k \in 1 .. Len(list) + 1 :
                    k <= Len(list) => Later(list[k].abstime, e.abstime)}
<1>1. Len(list) \in Nat
  OBVIOUS
<1>2. T \in SUBSET Nat /\ Len(list) + 1 \in T
  BY <1>1
<1> HIDE DEF T
<1>3. PICK m \in T : \A k \in T : m <= k
  BY <1>2, LeastElement
<1> USE DEF T
<1>4. /\ m \in 1 .. Len(list) + 1
      /\ m <= Len(list) => Later(list[m].abstime, e.abstime)
  BY <1>3
<1>5. ASSUME NEW i \in 1 .. m - 1 PROVE ~Later(list[i].abstime, e.abstime)
  <2>1. i \in 1 .. Len(list) + 1 /\ i < m
    BY <1>1, <1>4
  <2>2. i \notin T
    BY <1>1, <1>3, <1>4, <2>1
  <2> QED BY <2>1, <2>2
<1> HIDE DEF T
<1> QED BY <1>4, <1>5 DEF Place

\* InsertAt makes room for one element.
LEMMA InsertAtProperties ==
    ASSUME NEW S, NEW s \in Seq(S), NEW e \in S, NEW k \in 1 .. Len(s) + 1
    PROVE  /\ InsertAt(s, k, e) \in Seq(S)
           /\ Len(InsertAt(s, k, e)) = Len(s) + 1
           /\ \A i \in 1 .. Len(s) + 1 :
                InsertAt(s, k, e)[i] =
                    IF i < k THEN s[i] ELSE IF i = k THEN e ELSE s[i - 1]
<1> DEFINE a == SubSeq(s, 1, k - 1)
           b == SubSeq(s, k, Len(s))
<1>1. Len(s) \in Nat /\ \A i \in 1 .. Len(s) : s[i] \in S
  OBVIOUS
<1>2. /\ a \in Seq(S) /\ Len(a) = k - 1
      /\ \A i \in 1 .. k - 1 : a[i] = s[i]
  BY <1>1, SubSeqProperties
<1>3. /\ b \in Seq(S) /\ Len(b) = (Len(s) - k) + 1
      /\ \A i \in 1 .. (Len(s) - k) + 1 : b[i] = s[k + i - 1]
  BY <1>1, SubSeqProperties
<1> HIDE DEF a, b
<1>4. <<e>> \in Seq(S) /\ Len(<<e>>) = 1 /\ <<e>>[1] = e
  OBVIOUS
<1> DEFINE ae == a \o <<e>>
<1>5. /\ ae \in Seq(S) /\ Len(ae) = k
      /\ \A i \in 1 .. k : ae[i] = IF i < k THEN s[i] ELSE e
  BY <1>1, <1>2, <1>4, ConcatProperties
<1> HIDE DEF ae
<1> DEFINE r == ae \o b
<1>6. /\ r \in Seq(S) /\ Len(r) = Len(s) + 1
      /\ \A i \in 1 .. Len(s) + 1 : r[i] = IF i <= k THEN ae[i] ELSE b[i - k]
  <2>1. Len(ae) + Len(b) = Len(s) + 1
    BY <1>1, <1>3, <1>5
  <2>2. /\ r \in Seq(S) /\ Len(r) = Len(ae) + Len(b)
        /\ \A i \in 1 .. Len(ae) + Len(b) :
              r[i] = IF i <= Len(ae) THEN ae[i] ELSE b[i - Len(ae)]
    BY <1>3, <1>5, ConcatProperties
  <2> QED BY <1>5, <2>1, <2>2
<1>7. InsertAt(s, k, e) = r
  BY DEF InsertAt, r, ae, a, b
<1> HIDE DEF r
<1>8. ASSUME NEW i \in 1 .. Len(s) + 1
      PROVE  r[i] = IF i < k THEN s[i] ELSE IF i = k THEN e ELSE s[i - 1]
  <2>1. CASE i <= k
    BY <1>1, <1>5, <1>6, <2>1
  <2>2. CASE i > k
    <3>1. i - k \in 1 .. (Len(s) - k) + 1 /\ k + (i - k) - 1 = i - 1
      BY <1>1, <2>2
    <3>2. b[i - k] = s[i - 1]
      BY <1>3, <3>1
    <3>3. r[i] = b[i - k]
      BY <1>1, <1>6, <2>2
    <3>4. ~(i < k) /\ i # k
      BY <1>1, <2>2
    <3> QED BY <3>2, <3>3, <3>4
  <2> QED BY <1>1, <2>1, <2>2
<1> QED BY <1>6, <1>7, <1>8

-----------------------------------------------------------------------------
(***************************************************************************)
(* Types.                                                                  *)
(***************************************************************************)

\* What enqueueRILEventName puts into the list.
NewEvent(p) == [id |-> inserted + 1, abstime |-> stamped[p].abstime, due |-> stamped[p].due]

LEMMA NewEventType ==
    ASSUME TypeOK, NEW p \in Producers, stamped[p] # NoEvent
    PROVE  /\ NewEvent(p) \in Event
           /\ stamped[p] \in StampedEvent
<1>1. stamped[p] \in StampedEvent
  BY DEF TypeOK
<1>2. inserted + 1 \in Nat \ {0}
  BY DEF TypeOK
<1> QED BY <1>1, <1>2 DEF NewEvent, Event, StampedEvent

LEMMA InitType == Init => TypeOK
<1> SUFFICES ASSUME Init PROVE TypeOK
  OBVIOUS
<1>1. << >> \in Seq(Nat \ {0}) /\ << >> \in Seq(Event)
  OBVIOUS
<1>2. 0 \in Nat /\ ClockTime(0) \in Timespec
  BY ClockTimeType
<1> QED BY <1>1, <1>2 DEF Init, TypeOK, RunnerPcs

LEMMA NextType == TypeOK /\ [Next]_vars => TypeOK'
<1> SUFFICES ASSUME TypeOK, [Next]_vars PROVE TypeOK'
  OBVIOUS
<1> USE DEF TypeOK, RunnerPcs
<1>1. CASE OpenQueue \/ InitFails \/ InitSucceeds \/ Break \/ Wait \/ WokenClosed
  <2>1. pc \in {"open", "init", "top", "wokenWait", "wokenTimed"}
    BY <1>1 DEF OpenQueue, InitFails, InitSucceeds, Break, Wait, WokenClosed, Looking
  <2>2. event = NoEvent /\ request = 0 /\ UNCHANGED <<event, request>>
    BY <1>1, <2>1 DEF OpenQueue, InitFails, InitSucceeds, Break, Wait, WokenClosed,
       takenVars
  <2>3. pc' \in {"open", "init", "top", "wait"} /\ closed' \in BOOLEAN
    BY <1>1 DEF OpenQueue, InitFails, InitSucceeds, Break, Wait, WokenClosed
  <2>4. failures' \in Nat
    BY <1>1 DEF OpenQueue, InitFails, InitSucceeds, Break, Wait, WokenClosed, boundVars
  <2>5. UNCHANGED <<listVars, armed, stamped, now, ghostVars, enqueued, closes, spurious>>
    BY <1>1 DEF OpenQueue, InitFails, InitSucceeds, Break, Wait, WokenClosed, takenVars,
       boundVars
  <2> QED BY <2>2, <2>3, <2>4, <2>5 DEF listVars, ghostVars
<1>2. CASE TimedWait
  <2>1. Head(eventList) \in Event
    BY <1>2 DEF TimedWait
  <2>2. armed' \in Timespec
    BY <1>2, <2>1 DEF TimedWait, Event
  <2> QED BY <1>2, <2>2 DEF TimedWait, Looking, listVars, ghostVars, boundVars
<1>3. CASE TimeOut \/ SpuriousWakeUp \/ Tick \/ signalClose
  <2>1. CASE TimeOut
    BY <2>1 DEF TimeOut, listVars, takenVars, ghostVars, boundVars
  <2>2. CASE SpuriousWakeUp
    BY <2>2 DEF SpuriousWakeUp, WakeUp, listVars, takenVars, ghostVars, boundVars
  <2>3. CASE Tick
    BY <2>3 DEF Tick, listVars, takenVars, ghostVars, boundVars
  <2>4. CASE signalClose
    BY <2>4 DEF signalClose, WakeUp, listVars, takenVars, ghostVars, boundVars
  <2> QED BY <1>3, <2>1, <2>2, <2>3, <2>4
<1>4. CASE Take
  <2>1. requestList # << >> =>
          Head(requestList) \in Nat \ {0} /\ Tail(requestList) \in Seq(Nat \ {0})
    OBVIOUS
  <2>2. eventList # << >> => Head(eventList) \in Event /\ Tail(eventList) \in Seq(Event)
    OBVIOUS
  <2>3. /\ request' \in Nat
        /\ requestList' \in Seq(Nat \ {0})
    BY <1>4, <2>1 DEF Take
  <2>4. event' \in Event \cup {NoEvent} /\ eventList' \in Seq(Event)
    BY <1>4, <2>2 DEF Take, EventDue
  <2> QED BY <1>4, <2>3, <2>4 DEF Take, AfterTake, ghostVars, boundVars
<1>5. CASE RunEvent
  <2>1. event \in Event
    BY <1>5 DEF RunEvent
  <2>2. event.id \in Nat \ {0}
    BY <2>1 DEF Event
  <2> QED BY <1>5, <2>2 DEF RunEvent, AfterEvent, listVars, boundVars
<1>6. CASE RunRequest
  BY <1>6 DEF RunRequest, listVars, boundVars
<1>7. CASE onRequest
  <2>1. requestList' \in Seq(Nat \ {0})
    BY <1>7 DEF onRequest, AtEnd
  <2> QED BY <1>7, <2>1 DEF onRequest, WakeUp, takenVars, boundVars
<1>8. ASSUME NEW p \in Producers, StampEvent(p) PROVE TypeOK'
  <2>1. PICK delay \in Delays :
           stamped' = [stamped EXCEPT ![p] =
                         [abstime |-> AbsTime(now, delay), due |-> now + Ticks(delay)]]
    BY <1>8 DEF StampEvent
  <2>2. [abstime |-> AbsTime(now, delay), due |-> now + Ticks(delay)] \in StampedEvent
    BY AbsTimeType DEF StampedEvent
  <2>3. stamped' \in [Producers -> StampedEvent \cup {NoEvent}]
    BY <2>1, <2>2
  <2> QED BY <1>8, <2>3 DEF StampEvent, listVars, takenVars, ghostVars
<1>9. ASSUME NEW p \in Producers, InsertEvent(p) PROVE TypeOK'
  <2>1. NewEvent(p) \in Event
    BY <1>9, NewEventType DEF InsertEvent
  <2>2. eventList' = InsertAt(eventList, Place(eventList, NewEvent(p)), NewEvent(p))
    BY <1>9 DEF InsertEvent, InsertInOrder, NewEvent
  <2>3. eventList' \in Seq(Event)
    BY <2>1, <2>2, PlaceProperties, InsertAtProperties
  <2>4. stamped' \in [Producers -> StampedEvent \cup {NoEvent}]
    BY <1>9 DEF InsertEvent
  <2> QED BY <1>9, <2>3, <2>4 DEF InsertEvent, WakeUp, takenVars, boundVars
<1>10. CASE UNCHANGED vars
  BY <1>10 DEF vars, listVars, takenVars, ghostVars, boundVars
<1>11. CASE Quiescent
  BY <1>10, <1>11 DEF Quiescent
<1> QED
  BY <1>1, <1>2, <1>3, <1>4, <1>5, <1>6, <1>7, <1>8, <1>9, <1>10, <1>11
  DEF Next, Runner

\* The queue keeps its types: in particular the runner never calls through a
\* NULL event and never processes a NULL request.
THEOREM TypeCorrect == Spec => []TypeOK
<1>1. Init => TypeOK
  BY InitType
<1>2. TypeOK /\ [Next]_vars => TypeOK'
  BY NextType
<1> QED BY <1>1, <1>2, PTL DEF Spec

-----------------------------------------------------------------------------
(***************************************************************************)
(* Wake-ups and the order of the requests.                                 *)
(***************************************************************************)

LEMMA InitQueue == Init => NeverSleepsOnWork /\ RequestsInOrder
  BY DEF Init, NeverSleepsOnWork, RequestsInOrder, InHand

LEMMA NextSleep ==
    TypeOK /\ NeverSleepsOnWork /\ [Next]_vars => NeverSleepsOnWork'
<1> SUFFICES ASSUME TypeOK, NeverSleepsOnWork, [Next]_vars PROVE NeverSleepsOnWork'
  OBVIOUS
<1> USE DEF NeverSleepsOnWork
<1>1. CASE OpenQueue \/ InitFails \/ InitSucceeds \/ Break \/ TimeOut \/ WokenClosed
           \/ RunEvent \/ RunRequest
  BY <1>1 DEF OpenQueue, InitFails, InitSucceeds, Break, TimeOut, WokenClosed, RunEvent,
     RunRequest, AfterEvent, listVars, takenVars
<1>2. CASE Wait \/ TimedWait
  BY <1>2 DEF Wait, TimedWait, Looking, NothingQueued, listVars, takenVars
<1>3. CASE Take
  BY <1>3 DEF Take, AfterTake
<1>4. CASE SpuriousWakeUp \/ signalClose \/ onRequest
  BY <1>4 DEF SpuriousWakeUp, signalClose, onRequest, WakeUp, listVars, takenVars
<1>5. CASE Tick
  BY <1>5 DEF Tick, listVars, takenVars
<1>6. ASSUME NEW p \in Producers, StampEvent(p) \/ InsertEvent(p)
      PROVE  NeverSleepsOnWork'
  BY <1>6 DEF StampEvent, InsertEvent, WakeUp, listVars, takenVars
<1>7. CASE UNCHANGED vars
  BY <1>7 DEF vars, listVars, takenVars
<1>8. CASE Quiescent
  BY <1>7, <1>8 DEF Quiescent
<1> QED
  BY <1>1, <1>2, <1>3, <1>4, <1>5, <1>6, <1>7, <1>8 DEF Next, Runner

\* The runner never sleeps through a request, an event or a close.
THEOREM NeverSleepsThroughWork == Spec => []NeverSleepsOnWork
<1>1. Init => NeverSleepsOnWork
  BY InitQueue
<1>2. TypeOK /\ NeverSleepsOnWork /\ [Next]_vars => NeverSleepsOnWork'
  BY NextSleep
<1> QED BY <1>1, <1>2, TypeCorrect, PTL DEF Spec

LEMMA NextOrder ==
    TypeOK /\ RequestsInOrder /\ [Next]_vars => RequestsInOrder'
<1> SUFFICES ASSUME TypeOK, RequestsInOrder, [Next]_vars PROVE RequestsInOrder'
  OBVIOUS
<1>0. /\ Len(requestList) \in Nat /\ requestList \in Seq(Nat \ {0})
      /\ served \in Nat /\ requests \in Nat /\ request \in Nat
      /\ request # 0 => pc \in {"event", "request"}
      /\ pc = "request" => request # 0
  BY DEF TypeOK
<1>1. CASE UNCHANGED <<requestList, request, served, requests>>
  BY <1>1 DEF RequestsInOrder, InHand
<1>2. CASE OpenQueue \/ InitFails \/ InitSucceeds \/ Break \/ TimeOut \/ WokenClosed
           \/ RunEvent \/ Wait \/ TimedWait \/ SpuriousWakeUp \/ signalClose \/ Tick
           \/ Quiescent \/ UNCHANGED vars
  <2>1. UNCHANGED <<requestList, request, served, requests>>
    BY <1>2 DEF OpenQueue, InitFails, InitSucceeds, Break, TimeOut, WokenClosed, RunEvent,
       Wait, TimedWait, SpuriousWakeUp, signalClose, Tick, Quiescent, vars, listVars,
       takenVars, ghostVars
  <2> QED BY <1>1, <2>1
<1>3. ASSUME NEW p \in Producers, StampEvent(p) \/ InsertEvent(p)
      PROVE  RequestsInOrder'
  <2>1. UNCHANGED <<requestList, request, served, requests>>
    BY <1>3 DEF StampEvent, InsertEvent, listVars, takenVars, ghostVars
  <2> QED BY <1>1, <2>1
<1>4. CASE onRequest
  <2>1. /\ requestList' = Append(requestList, requests + 1)
        /\ requests' = requests + 1
        /\ UNCHANGED <<request, served>>
    BY <1>4 DEF onRequest, AtEnd, takenVars
  <2>2. /\ Len(requestList') = Len(requestList) + 1
        /\ \A i \in 1 .. Len(requestList) : requestList'[i] = requestList[i]
        /\ requestList'[Len(requestList) + 1] = requests + 1
    BY <1>0, <2>1
  <2>3. /\ served + InHand + Len(requestList) = requests
        /\ InHand \in Nat /\ InHand' = InHand
    BY <2>1 DEF RequestsInOrder, InHand
  <2>4. served' + InHand' + Len(requestList') = requests'
    BY <1>0, <2>1, <2>2, <2>3
  <2>5. ASSUME NEW i \in 1 .. Len(requestList')
        PROVE  requestList'[i] = served' + InHand' + i
    <3>1. CASE i = Len(requestList) + 1
      BY <1>0, <2>1, <2>2, <2>3, <3>1
    <3>2. CASE i # Len(requestList) + 1
      <4>1. i \in 1 .. Len(requestList)
        BY <1>0, <2>2, <3>2
      <4> QED BY <2>1, <2>2, <2>3, <4>1 DEF RequestsInOrder
    <3> QED BY <3>1, <3>2
  <2> QED BY <2>1, <2>4, <2>5 DEF RequestsInOrder
<1>5. CASE Take
  <2>1. request = 0 /\ UNCHANGED <<served, requests>>
    BY <1>0, <1>5 DEF Take, ghostVars
  <2>2. CASE requestList = << >>
    <3>1. UNCHANGED <<requestList, request>>
      BY <1>5, <2>1, <2>2 DEF Take
    <3> QED BY <1>1, <2>1, <3>1
  <2>3. CASE requestList # << >>
    <3>1. request' = Head(requestList) /\ requestList' = Tail(requestList)
      BY <1>5, <2>3 DEF Take
    <3>2. /\ Len(requestList') = Len(requestList) - 1
          /\ \A i \in 1 .. Len(requestList') : requestList'[i] = requestList[i + 1]
          /\ request' = requestList[1] /\ 1 \in 1 .. Len(requestList)
      BY <1>0, <2>3, <3>1, HeadTailProperties
    <3>3. InHand = 0 /\ requestList[1] = served + 1 /\ request' = served + 1
      BY <1>0, <2>1, <3>2 DEF RequestsInOrder, InHand
    <3>4. InHand' = 1
      BY <1>0, <3>3 DEF InHand
    <3>5. ASSUME NEW i \in 1 .. Len(requestList')
          PROVE  requestList'[i] = served' + InHand' + i
      <4>1. i + 1 \in 1 .. Len(requestList) /\ requestList'[i] = requestList[i + 1]
        BY <1>0, <3>2
      <4>2. requestList[i + 1] = served + (i + 1)
        BY <1>0, <3>3, <4>1 DEF RequestsInOrder
      <4> QED BY <1>0, <2>1, <3>2, <3>4, <4>1, <4>2
    <3>6. served' + InHand' + Len(requestList') = requests'
      <4>1. served + Len(requestList) = requests
        BY <1>0, <3>3 DEF RequestsInOrder
      <4>2. served' = served /\ requests' = requests
        BY <2>1
      <4>3. Len(requestList') = Len(requestList) - 1
        BY <3>2
      <4> QED BY <1>0, <3>4, <4>1, <4>2, <4>3
    <3> QED BY <2>1, <3>3, <3>5, <3>6 DEF RequestsInOrder
  <2> QED BY <2>2, <2>3
<1>6. CASE RunRequest
  <2>1. /\ request # 0 /\ served' = served + 1 /\ request' = 0
        /\ UNCHANGED <<requestList, requests>>
    BY <1>0, <1>6 DEF RunRequest, listVars
  <2> QED BY <1>0, <2>1 DEF RequestsInOrder, InHand
<1> QED
  BY <1>2, <1>3, <1>4, <1>5, <1>6 DEF Next, Runner

\* Requests are processed once each, in the order they were made, through any
\* number of channel failures.
THEOREM RequestsProcessedInOrder == Spec => []RequestsInOrder
<1>1. Init => RequestsInOrder
  BY InitQueue
<1>2. TypeOK /\ RequestsInOrder /\ [Next]_vars => RequestsInOrder'
  BY NextOrder
<1> QED BY <1>1, <1>2, TypeCorrect, PTL DEF Spec

-----------------------------------------------------------------------------
(***************************************************************************)
(* The order and the times of the events.                                  *)
(***************************************************************************)

\* The abstime of an event stands for the instant its caller asked for.
InTime(e) == e.abstime.nsec <= NsecPerSec /\ Ticks(e.abstime) = e.due

TimesOK ==
    /\ \A i \in 1 .. Len(eventList) : InTime(eventList[i])
    /\ event # NoEvent => InTime(event)
    /\ \A p \in Producers : stamped[p] # NoEvent => InTime(stamped[p])

\* a may stand before b.
Before(a, b) == /\ ~Later(a.abstime, b.abstime)
                /\ a.abstime = b.abstime => a.id < b.id

OrderOK ==
    /\ \A i \in 1 .. Len(eventList) : eventList[i].id <= inserted
    /\ \A i, j \in 1 .. Len(eventList) : i < j => Before(eventList[i], eventList[j])

EventInv == TypeOK /\ TimesOK /\ OrderOK /\ NeverEarly

LEMMA InitEvents == Init => EventInv
<1> SUFFICES ASSUME Init PROVE EventInv
  OBVIOUS
<1>1. Len(eventList) = 0 /\ event = NoEvent /\ \A p \in Producers : stamped[p] = NoEvent
  BY DEF Init
<1>2. OrderOK
  BY <1>1 DEF OrderOK
<1>3. TimesOK /\ NeverEarly
  BY <1>1 DEF TimesOK, NeverEarly
<1> QED BY <1>2, <1>3, InitType DEF EventInv

\* Inserting an event at its place keeps the list in order.
LEMMA InsertKeepsOrder ==
    ASSUME NEW list \in Seq(Event), NEW e \in Event,
           \A i \in 1 .. Len(list) : list[i].id < e.id,
           \A i, j \in 1 .. Len(list) : i < j => Before(list[i], list[j])
    PROVE  LET r == InsertAt(list, Place(list, e), e)
           IN  \A i, j \in 1 .. Len(r) : i < j => Before(r[i], r[j])
<1> DEFINE k == Place(list, e)
           r == InsertAt(list, k, e)
<1>1. /\ k \in 1 .. Len(list) + 1
      /\ k <= Len(list) => Later(list[k].abstime, e.abstime)
      /\ \A i \in 1 .. k - 1 : ~Later(list[i].abstime, e.abstime)
  BY PlaceProperties
<1> HIDE DEF k
<1>2. /\ Len(r) = Len(list) + 1
      /\ \A i \in 1 .. Len(list) + 1 :
            r[i] = IF i < k THEN list[i] ELSE IF i = k THEN e ELSE list[i - 1]
  BY <1>1, InsertAtProperties
<1> HIDE DEF r
<1>3. Len(list) \in Nat
  OBVIOUS
<1>4. /\ e.abstime \in Timespec
      /\ \A i \in 1 .. Len(list) : list[i].abstime \in Timespec
  <2>1. \A i \in 1 .. Len(list) : list[i] \in Event
    OBVIOUS
  <2> QED BY <2>1 DEF Event
<1>5. ASSUME NEW i \in 1 .. Len(list) + 1, NEW j \in 1 .. Len(list) + 1, i < j
      PROVE  Before(r[i], r[j])
  <2>1. CASE j < k
    <3>1. i \in 1 .. Len(list) /\ j \in 1 .. Len(list) /\ i < k
      BY <1>1, <1>3, <1>5, <2>1
    <3> QED BY <1>2, <1>5, <2>1, <3>1
  <2>2. CASE j = k
    <3>1. i \in 1 .. Len(list) /\ i \in 1 .. k - 1 /\ i < k
      BY <1>1, <1>3, <1>5, <2>2
    <3>2. r[i] = list[i] /\ r[j] = e
      BY <1>2, <2>2, <3>1
    <3> QED BY <1>1, <3>1, <3>2 DEF Before
  <2>3. CASE j > k
    <3>1. j - 1 \in 1 .. Len(list) /\ k \in 1 .. Len(list) /\ k <= j - 1
      BY <1>1, <1>3, <2>3
    <3>2. r[j] = list[j - 1]
      BY <1>1, <1>2, <2>3
    <3>3. CASE i < k
      <4>1. i \in 1 .. Len(list) /\ i < j - 1
        BY <1>1, <1>3, <3>1, <3>3
      <4>2. r[i] = list[i]
        BY <1>2, <3>3
      <4> QED BY <3>1, <3>2, <4>1, <4>2
    <3>4. CASE i = k
      <4>1. r[i] = e
        BY <1>2, <3>4
      <4>2. Later(list[k].abstime, e.abstime)
        BY <1>1, <3>1
      <4>3. ~Later(list[k].abstime, list[j - 1].abstime)
        <5>1. CASE k = j - 1
          BY <1>4, <3>1, <5>1 DEF Later, Timespec
        <5>2. CASE k < j - 1
          BY <3>1, <5>2 DEF Before
        <5> QED BY <1>3, <3>1, <5>1, <5>2
      <4>4. ~Later(e.abstime, list[j - 1].abstime)
        BY <1>4, <3>1, <4>2, <4>3, LaterOrder
      <4>5. e.abstime # list[j - 1].abstime
        BY <4>2, <4>3
      <4> QED BY <3>2, <4>1, <4>4, <4>5 DEF Before
    <3>5. CASE i > k
      <4>1. i - 1 \in 1 .. Len(list) /\ i - 1 < j - 1
        BY <1>1, <1>3, <1>5, <3>5
      <4>2. r[i] = list[i - 1]
        BY <1>1, <1>2, <3>5
      <4> QED BY <3>1, <3>2, <4>1, <4>2
    <3> QED BY <1>1, <1>3, <3>3, <3>4, <3>5
  <2> QED BY <1>1, <1>3, <2>1, <2>2, <2>3
<1> QED BY <1>2, <1>5 DEF r, k

LEMMA NextEvents == EventInv /\ [Next]_vars => EventInv'
<1> SUFFICES ASSUME EventInv, [Next]_vars PROVE EventInv'
  OBVIOUS
<1>1. TypeOK /\ TypeOK'
  BY NextType DEF EventInv
<1>2. TimesOK /\ OrderOK /\ NeverEarly
  BY DEF EventInv
<1>3. SUFFICES TimesOK' /\ OrderOK' /\ NeverEarly'
  BY <1>1 DEF EventInv
<1>4. CASE UNCHANGED <<eventList, event, stamped, now, inserted>>
  BY <1>2, <1>4 DEF TimesOK, OrderOK, NeverEarly
<1>5. CASE OpenQueue \/ InitFails \/ InitSucceeds \/ Break \/ TimeOut \/ WokenClosed
           \/ RunRequest \/ Wait \/ TimedWait \/ SpuriousWakeUp \/ signalClose
           \/ onRequest \/ Quiescent \/ UNCHANGED vars
  <2>1. UNCHANGED <<eventList, event, stamped, now, inserted>>
    BY <1>5 DEF OpenQueue, InitFails, InitSucceeds, Break, TimeOut, WokenClosed,
       RunRequest, Wait, TimedWait, SpuriousWakeUp, signalClose, onRequest, Quiescent,
       vars, listVars, takenVars, ghostVars
  <2> QED BY <1>4, <2>1
<1>6. CASE Tick
  <2>1. /\ now' = now + 1 /\ now \in Nat /\ event \in Event \cup {NoEvent}
        /\ UNCHANGED <<eventList, event, stamped, inserted>>
    BY <1>1, <1>6 DEF Tick, listVars, takenVars, ghostVars, TypeOK
  <2>2. NeverEarly'
    BY <1>2, <2>1 DEF NeverEarly, Event
  <2> QED BY <1>2, <2>1, <2>2 DEF TimesOK, OrderOK
<1>7. CASE RunEvent
  <2>1. event' = NoEvent /\ UNCHANGED <<eventList, stamped, now, inserted>>
    BY <1>7 DEF RunEvent, listVars
  <2> QED BY <1>2, <2>1 DEF TimesOK, OrderOK, NeverEarly
<1>8. CASE Take
  <2>1. UNCHANGED <<stamped, now, inserted>> /\ now \in Nat
    BY <1>1, <1>8 DEF Take, ghostVars, TypeOK
  <2>2. CASE ~EventDue
    BY <1>2, <1>8, <2>1, <2>2 DEF Take, TimesOK, OrderOK, NeverEarly
  <2>3. CASE EventDue
    <3>1. /\ event' = Head(eventList) /\ eventList' = Tail(eventList)
          /\ eventList # << >> /\ eventList \in Seq(Event)
          /\ Later(ClockTime(now), Head(eventList).abstime)
      BY <1>1, <1>8, <2>3 DEF Take, EventDue, TypeOK
    <3>2. /\ Len(eventList) \in Nat
          /\ Len(eventList') = Len(eventList) - 1
          /\ \A i \in 1 .. Len(eventList') : eventList'[i] = eventList[i + 1]
          /\ event' = eventList[1] /\ 1 \in 1 .. Len(eventList)
          /\ eventList[1] \in Event
      BY <3>1, HeadTailProperties
    <3>3. \A i \in 1 .. Len(eventList') : i + 1 \in 1 .. Len(eventList)
      BY <3>2
    <3>4. OrderOK'
      BY <1>2, <2>1, <3>2, <3>3 DEF OrderOK
    <3>5. TimesOK'
      BY <1>2, <2>1, <3>2, <3>3 DEF TimesOK
    <3>6. NeverEarly'
      <4>1. InTime(eventList[1])
        BY <1>2, <3>2 DEF TimesOK
      <4>2. /\ ClockTime(now) \in Timespec /\ ClockTime(now).nsec <= NsecPerSec
            /\ Ticks(ClockTime(now)) = now
        BY <2>1, ClockTimeType, TimeAssumption DEF Timespec
      <4>3. eventList[1].abstime \in Timespec
        BY <3>2 DEF Event
      <4>4. Ticks(ClockTime(now)) >= Ticks(eventList[1].abstime)
        BY <3>1, <3>2, <4>1, <4>2, <4>3, LaterTicks DEF InTime
      <4> QED BY <2>1, <3>2, <4>1, <4>2, <4>4 DEF NeverEarly, InTime
    <3> QED BY <3>4, <3>5, <3>6
  <2> QED BY <2>2, <2>3
<1>9. ASSUME NEW p \in Producers, StampEvent(p)
      PROVE  TimesOK' /\ OrderOK' /\ NeverEarly'
  <2>1. UNCHANGED <<eventList, event, now, inserted>>
    BY <1>9 DEF StampEvent, listVars, takenVars, ghostVars
  <2>2. PICK delay \in Delays :
           stamped' = [stamped EXCEPT ![p] =
                         [abstime |-> AbsTime(now, delay), due |-> now + Ticks(delay)]]
    BY <1>9 DEF StampEvent
  <2>3. now \in Nat /\ stamped \in [Producers -> StampedEvent \cup {NoEvent}]
    BY <1>1 DEF TypeOK
  <2>4. InTime(stamped'[p])
    BY <2>2, <2>3, AbsTimeType DEF InTime
  <2>5. \A q \in Producers : q # p => stamped'[q] = stamped[q]
    BY <2>2, <2>3
  <2> QED BY <1>2, <2>1, <2>4, <2>5 DEF TimesOK, OrderOK, NeverEarly
<1>10. ASSUME NEW p \in Producers, InsertEvent(p)
       PROVE  TimesOK' /\ OrderOK' /\ NeverEarly'
  <2> DEFINE e == NewEvent(p)
  <2>1. /\ inserted' = inserted + 1 /\ inserted \in Nat
        /\ UNCHANGED <<event, now>>
        /\ eventList \in Seq(Event) /\ Len(eventList) \in Nat
        /\ stamped \in [Producers -> StampedEvent \cup {NoEvent}]
        /\ stamped' = [stamped EXCEPT ![p] = NoEvent]
        /\ stamped[p] # NoEvent
    BY <1>1, <1>10 DEF InsertEvent, takenVars, TypeOK
  <2>2. eventList' = InsertAt(eventList, Place(eventList, e), e)
    BY <1>10 DEF InsertEvent, InsertInOrder, NewEvent
  <2>3. e \in Event /\ e.id = inserted + 1 /\ InTime(e)
    BY <1>1, <1>2, <2>1, NewEventType DEF NewEvent, TimesOK, InTime
  <2> HIDE DEF e
  <2>4. /\ Len(eventList') = Len(eventList) + 1
        /\ \A i \in 1 .. Len(eventList) + 1 :
              \/ eventList'[i] = e
              \/ \E n \in 1 .. Len(eventList) : eventList'[i] = eventList[n]
    <3> DEFINE k == Place(eventList, e)
    <3>1. k \in 1 .. Len(eventList) + 1
      BY <2>1, <2>3, PlaceProperties
    <3> HIDE DEF k
    <3>2. /\ Len(eventList') = Len(eventList) + 1
          /\ \A i \in 1 .. Len(eventList) + 1 :
                eventList'[i] = IF i < k THEN eventList[i]
                                ELSE IF i = k THEN e ELSE eventList[i - 1]
      BY <2>1, <2>2, <2>3, <3>1, InsertAtProperties DEF k
    <3>3. ASSUME NEW i \in 1 .. Len(eventList) + 1
          PROVE  \/ eventList'[i] = e
                 \/ \E n \in 1 .. Len(eventList) : eventList'[i] = eventList[n]
      <4>1. CASE i < k
        <5>1. i \in 1 .. Len(eventList)
          BY <2>1, <3>1, <4>1
        <5> QED BY <3>2, <4>1, <5>1
      <4>2. CASE i = k
        BY <3>2, <4>2
      <4>3. CASE i > k
        <5>1. i - 1 \in 1 .. Len(eventList) /\ ~(i < k) /\ i # k
          BY <2>1, <3>1, <4>3
        <5> QED BY <3>2, <5>1
      <4> QED BY <2>1, <3>1, <4>1, <4>2, <4>3
    <3> QED BY <3>2, <3>3
  <2>5. \A i \in 1 .. Len(eventList) : eventList[i].id < e.id
    <3>1. \A i \in 1 .. Len(eventList) : eventList[i].id \in Nat
      <4>1. \A i \in 1 .. Len(eventList) : eventList[i] \in Event
        BY <2>1
      <4> QED BY <4>1 DEF Event
    <3> QED BY <1>2, <2>1, <2>3, <3>1 DEF OrderOK
  <2>6. \A i, j \in 1 .. Len(eventList') : i < j => Before(eventList'[i], eventList'[j])
    BY <1>2, <2>1, <2>2, <2>3, <2>5, InsertKeepsOrder DEF OrderOK
  <2>7. \A i \in 1 .. Len(eventList') : eventList'[i].id <= inserted'
    <3>1. \A i \in 1 .. Len(eventList) : eventList[i].id \in Nat
      <4>1. \A i \in 1 .. Len(eventList) : eventList[i] \in Event
        BY <2>1
      <4> QED BY <4>1 DEF Event
    <3> QED BY <2>1, <2>3, <2>4, <2>5, <3>1
  <2>8. TimesOK'
    <3>1. \A i \in 1 .. Len(eventList') : InTime(eventList'[i])
      BY <1>2, <2>3, <2>4 DEF TimesOK
    <3>2. \A q \in Producers : stamped'[q] # NoEvent => InTime(stamped'[q])
      BY <1>2, <2>1 DEF TimesOK
    <3> QED BY <1>2, <2>1, <3>1, <3>2 DEF TimesOK
  <2>9. NeverEarly'
    BY <1>2, <2>1 DEF NeverEarly
  <2> QED BY <2>6, <2>7, <2>8, <2>9 DEF OrderOK
<1> QED
  BY <1>5, <1>6, <1>7, <1>8, <1>9, <1>10 DEF Next, Runner

LEMMA EventInvCorrect == Spec => []EventInv
<1>1. Init => EventInv
  BY InitEvents
<1>2. EventInv /\ [Next]_vars => EventInv'
  BY NextEvents
<1> QED BY <1>1, <1>2, PTL DEF Spec

\* No event fires before the instant its caller asked for, whatever the delays
\* and however many nanoseconds make a second.
THEOREM EventsNeverEarly == Spec => []NeverEarly
<1>1. EventInv => NeverEarly
  BY DEF EventInv
<1> QED BY <1>1, EventInvCorrect, PTL

\* The list of events is always in the order of their instants, events of the
\* same abstime in the order in which they were enqueued.
THEOREM EventListSorted == Spec => []EventsSorted
<1>1. EventInv => EventsSorted
  <2> SUFFICES ASSUME EventInv,
                      NEW i \in 1 .. Len(eventList), NEW j \in 1 .. Len(eventList), i < j
               PROVE  /\ ~Later(eventList[i].abstime, eventList[j].abstime)
                      /\ eventList[i].due <= eventList[j].due
                      /\ eventList[i].abstime = eventList[j].abstime
                           => eventList[i].id < eventList[j].id
    BY DEF EventsSorted
  <2> DEFINE a == eventList[i]
             b == eventList[j]
  <2>1. a \in Event /\ b \in Event
    BY DEF EventInv, TypeOK
  <2>2. Before(a, b) /\ InTime(a) /\ InTime(b)
    BY DEF EventInv, OrderOK, TimesOK
  <2> HIDE DEF a, b
  <2>3. a.abstime \in Timespec /\ b.abstime \in Timespec /\ a.due \in Nat /\ b.due \in Nat
    BY <2>1 DEF Event
  <2>4. a.due <= b.due
    <3>1. CASE Later(b.abstime, a.abstime)
      BY <2>2, <2>3, <3>1, LaterTicks DEF InTime
    <3>2. CASE ~Later(b.abstime, a.abstime)
      <4>1. a.abstime = b.abstime
        BY <2>2, <2>3, <3>2, LaterOrder DEF Before
      <4> QED BY <2>2, <2>3, <4>1 DEF InTime
    <3> QED BY <3>1, <3>2
  <2> QED BY <2>2, <2>4 DEF Before, a, b
<1> QED BY <1>1, EventInvCorrect, PTL

(***************************************************************************)
(* The invariant of the runner and its lists: types, no sleep through      *)
(* work, requests in order and events sorted, in every behaviour.          *)
(***************************************************************************)
THEOREM QueueCorrect == Spec => []QueueInv
<1>1. TypeOK /\ NeverSleepsOnWork /\ RequestsInOrder /\ EventsSorted => QueueInv
  BY DEF QueueInv
<1> QED BY <1>1, TypeCorrect, NeverSleepsThroughWork, RequestsProcessedInOrder,
           EventListSorted, PTL

-----------------------------------------------------------------------------
(***************************************************************************)
(* Every event is in one place.                                            *)
(***************************************************************************)

\* The elements of a list after an insertion: those it had, each where the
\* other insertions left it, and the new one.
LEMMA InsertElements ==
    ASSUME NEW list \in Seq(Event), NEW e \in Event
    PROVE  LET r == InsertInOrder(list, e)
           IN  /\ \A i \in 1 .. Len(r) :
                      r[i] = e \/ \E n \in 1 .. Len(list) : r[i] = list[n]
               /\ \A n \in 1 .. Len(list) : \E i \in 1 .. Len(r) : r[i] = list[n]
               /\ \E i \in 1 .. Len(r) : r[i] = e
<1> DEFINE k == Place(list, e)
           r == InsertInOrder(list, e)
<1>1. k \in 1 .. Len(list) + 1 /\ Len(list) \in Nat
  BY PlaceProperties
<1> HIDE DEF k
<1>2. /\ Len(r) = Len(list) + 1
      /\ \A i \in 1 .. Len(list) + 1 :
            r[i] = IF i < k THEN list[i] ELSE IF i = k THEN e ELSE list[i - 1]
  BY <1>1, InsertAtProperties DEF InsertInOrder, k
<1> HIDE DEF r
<1> DEFINE Old(i) == IF i < k THEN i ELSE i - 1
<1>3. ASSUME NEW i \in 1 .. Len(r), i # k
      PROVE  Old(i) \in 1 .. Len(list) /\ r[i] = list[Old(i)]
  BY <1>1, <1>2, <1>3
<1>4. r[k] = e /\ k \in 1 .. Len(r)
  BY <1>1, <1>2
<1>5. ASSUME NEW n \in 1 .. Len(list)
      PROVE  \E i \in 1 .. Len(r) : r[i] = list[n]
  <2>1. CASE n < k
    BY <1>1, <1>2, <2>1
  <2>2. CASE ~(n < k)
    <3>1. n + 1 \in 1 .. Len(list) + 1 /\ ~(n + 1 < k) /\ n + 1 # k /\ (n + 1) - 1 = n
      BY <1>1, <2>2
    <3> QED BY <1>2, <3>1
  <2> QED BY <2>1, <2>2
<1> QED BY <1>3, <1>4, <1>5 DEF r

\* An insertion of a new identity leaves the identities distinct.
LEMMA InsertDistinct ==
    ASSUME NEW list \in Seq(Event), NEW e \in Event,
           \A n \in 1 .. Len(list) : list[n].id # e.id,
           \A m, n \in 1 .. Len(list) : list[m].id = list[n].id => m = n
    PROVE  LET r == InsertInOrder(list, e)
           IN  \A i, j \in 1 .. Len(r) : r[i].id = r[j].id => i = j
<1> DEFINE k == Place(list, e)
           r == InsertInOrder(list, e)
<1>1. k \in 1 .. Len(list) + 1 /\ Len(list) \in Nat
  BY PlaceProperties
<1> HIDE DEF k
<1>2. /\ Len(r) = Len(list) + 1
      /\ \A i \in 1 .. Len(list) + 1 :
            r[i] = IF i < k THEN list[i] ELSE IF i = k THEN e ELSE list[i - 1]
  BY <1>1, InsertAtProperties DEF InsertInOrder, k
<1> HIDE DEF r
<1> DEFINE Old(i) == IF i < k THEN i ELSE i - 1
<1>3. ASSUME NEW i \in 1 .. Len(r), i # k
      PROVE  Old(i) \in 1 .. Len(list) /\ r[i] = list[Old(i)]
  BY <1>1, <1>2, <1>3
<1>4. r[k] = e
  BY <1>1, <1>2
<1>5. ASSUME NEW i \in 1 .. Len(r), NEW j \in 1 .. Len(r), r[i].id = r[j].id
      PROVE  i = j
  <2>1. CASE i = k \/ j = k
    BY <1>3, <1>4, <1>5, <2>1
  <2>2. CASE i # k /\ j # k
    <3>1. Old(i) = Old(j)
      BY <1>3, <1>5, <2>2
    <3> QED BY <1>1, <1>2, <2>2, <3>1
  <2> QED BY <2>1, <2>2
<1> QED BY <1>5 DEF r

LEMMA NextAccounted ==
    TypeOK /\ EventsAccounted /\ [Next]_vars => EventsAccounted'
<1> SUFFICES ASSUME TypeOK, EventsAccounted, [Next]_vars PROVE EventsAccounted'
  OBVIOUS
<1>1. CASE UNCHANGED <<eventList, event, inserted, fired>>
  BY <1>1 DEF EventsAccounted, Held, Listed
<1>2. ASSUME \/ OpenQueue \/ InitFails \/ InitSucceeds \/ Break \/ Wait \/ TimedWait
             \/ TimeOut \/ WokenClosed \/ RunRequest \/ SpuriousWakeUp \/ onRequest
             \/ signalClose \/ Tick \/ Quiescent \/ UNCHANGED vars
             \/ \E p \in Producers : StampEvent(p)
      PROVE  UNCHANGED <<eventList, event, inserted, fired>>
  BY <1>2 DEF OpenQueue, InitFails, InitSucceeds, Break, Wait, TimedWait, TimeOut,
     WokenClosed, RunRequest, SpuriousWakeUp, onRequest, signalClose, Tick, Quiescent,
     StampEvent, vars, listVars, takenVars, ghostVars
<1>3. CASE RunEvent
  <2>1. /\ event # NoEvent /\ event' = NoEvent /\ fired' = fired \cup {event.id}
        /\ UNCHANGED <<eventList, inserted>>
    BY <1>3 DEF RunEvent, TypeOK, listVars
  <2> QED BY <2>1 DEF EventsAccounted, Held, Listed
<1>4. CASE Take
  <2>1. event = NoEvent /\ UNCHANGED <<inserted, fired>>
    BY <1>4 DEF Take, TypeOK, ghostVars
  <2>2. CASE ~EventDue
    <3>1. UNCHANGED <<eventList, event>>
      BY <1>4, <2>1, <2>2 DEF Take
    <3> QED BY <1>1, <2>1, <3>1
  <2>3. CASE EventDue
    <3>1. /\ event' = Head(eventList) /\ eventList' = Tail(eventList) /\ eventList # << >>
          /\ eventList \in Seq(Event)
      BY <1>4, <2>3 DEF Take, EventDue, TypeOK
    <3>2. /\ Len(eventList) \in Nat /\ 1 \in 1 .. Len(eventList)
          /\ event' = eventList[1] /\ eventList[1] \in Event
          /\ Len(eventList') = Len(eventList) - 1
          /\ \A i \in 1 .. Len(eventList) - 1 : eventList'[i] = eventList[i + 1]
      BY <3>1, HeadTailProperties
    <3>3. event' # NoEvent
      BY <3>2, NoEventAssumption DEF Event
    <3>4. Listed' = Listed \ {eventList[1].id}
      <4>1. ASSUME NEW i \in 1 .. Len(eventList')
            PROVE  /\ eventList'[i].id \in Listed
                   /\ eventList'[i].id # eventList[1].id
        <5>1. i + 1 \in 1 .. Len(eventList) /\ i + 1 # 1 /\ eventList'[i] = eventList[i + 1]
          BY <3>2
        <5> QED BY <3>2, <5>1 DEF Listed, EventsAccounted
      <4>2. ASSUME NEW n \in 1 .. Len(eventList), n # 1
            PROVE  eventList[n].id \in Listed'
        <5>1. n - 1 \in 1 .. Len(eventList') /\ eventList'[n - 1] = eventList[n]
          BY <3>2, <4>2
        <5> QED BY <5>1 DEF Listed
      <4> QED BY <4>1, <4>2 DEF Listed
    <3>5. \A i, j \in 1 .. Len(eventList') : eventList'[i].id = eventList'[j].id => i = j
      <4>1. ASSUME NEW i \in 1 .. Len(eventList'), NEW j \in 1 .. Len(eventList'),
                   eventList'[i].id = eventList'[j].id
            PROVE  i = j
        <5>1. /\ i + 1 \in 1 .. Len(eventList) /\ eventList'[i] = eventList[i + 1]
              /\ j + 1 \in 1 .. Len(eventList) /\ eventList'[j] = eventList[j + 1]
          BY <3>2
        <5>2. i + 1 = j + 1
          BY <4>1, <5>1 DEF EventsAccounted
        <5> QED BY <3>2, <5>2
      <4> QED BY <4>1
    <3>6. Held = {} /\ Held' = {eventList[1].id} /\ eventList[1].id \in Listed
      BY <2>1, <3>2, <3>3 DEF Held, Listed
    <3> QED BY <2>1, <3>4, <3>5, <3>6 DEF EventsAccounted
  <2> QED BY <2>2, <2>3
<1>5. ASSUME NEW p \in Producers, InsertEvent(p) PROVE EventsAccounted'
  <2> DEFINE e == NewEvent(p)
  <2>1. /\ e \in Event /\ e.id = inserted + 1 /\ inserted \in Nat
        /\ eventList \in Seq(Event)
        /\ inserted' = inserted + 1 /\ UNCHANGED <<event, fired>>
    BY <1>5, NewEventType DEF InsertEvent, NewEvent, TypeOK, takenVars
  <2>2. eventList' = InsertInOrder(eventList, e)
    BY <1>5 DEF InsertEvent, NewEvent
  <2> HIDE DEF e
  <2>3. Listed \subseteq 1 .. inserted /\ inserted + 1 \notin 1 .. inserted
    BY <2>1 DEF EventsAccounted
  <2>4. \A n \in 1 .. Len(eventList) : eventList[n].id # e.id
    BY <2>1, <2>3 DEF Listed
  <2>5. Listed' = Listed \cup {inserted + 1}
    <3>1. /\ \A i \in 1 .. Len(eventList') :
                  eventList'[i] = e \/ \E n \in 1 .. Len(eventList) : eventList'[i] = eventList[n]
          /\ \A n \in 1 .. Len(eventList) :
                  \E i \in 1 .. Len(eventList') : eventList'[i] = eventList[n]
          /\ \E i \in 1 .. Len(eventList') : eventList'[i] = e
      <4>1. e \in Event /\ eventList \in Seq(Event)
        BY <2>1
      <4> QED BY <4>1, <2>2, InsertElements
    <3>2. e.id = inserted + 1
      BY <2>1
    <3>3. \A x \in Listed' : x \in Listed \cup {e.id}
      BY <3>1 DEF Listed
    <3>4. \A x \in Listed \cup {e.id} : x \in Listed'
      BY <3>1 DEF Listed
    <3> QED BY <3>2, <3>3, <3>4
  <2>6. \A i, j \in 1 .. Len(eventList') : eventList'[i].id = eventList'[j].id => i = j
    BY <2>1, <2>2, <2>4, InsertDistinct DEF EventsAccounted
  <2>7. 1 .. inserted' = (1 .. inserted) \cup {inserted + 1}
    BY <2>1
  <2>8. UNCHANGED Held
    BY <2>1 DEF Held
  <2> QED BY <2>1, <2>3, <2>5, <2>6, <2>7, <2>8 DEF EventsAccounted
<1> QED
  BY <1>1, <1>2, <1>3, <1>4, <1>5 DEF Next, Runner

\* Every event that was enqueued is in one place, once, and none is held before
\* its instant: queueRunner neither loses, repeats nor hurries a callback.
THEOREM EventsKept == Spec => []EventsOnTime
<1>1. Init => EventsAccounted
  BY DEF Init, EventsAccounted, Held, Listed
<1>2. Spec => []EventsAccounted
  BY <1>1, NextAccounted, TypeCorrect, PTL DEF Spec
<1>3. EventsAccounted /\ NeverEarly => EventsOnTime
  BY DEF EventsOnTime
<1> QED BY <1>2, <1>3, EventsNeverEarly, PTL

-----------------------------------------------------------------------------
(***************************************************************************)
(* The queue implements DeferredWork: the initial state maps to an initial *)
(* state and every step to one step or none.  The runner's Take chooses    *)
(* the callback DeferredWork would because the list is in the order of its *)
(* instants, and takes it out of the set because no event is listed twice. *)
(***************************************************************************)

\* An event is enqueued for an instant the clock can reach.
DueInReach ==
    \A p \in Producers : stamped[p] # NoEvent => stamped[p].due \in 0 .. MaxTicks

WorkInv == EventInv /\ EventsAccounted /\ RequestsInOrder /\ DueInReach

LEMMA WorkInvCorrect == Spec => []WorkInv
<1>1. Init => DueInReach
  BY DEF Init, DueInReach
<1>2. TypeOK /\ DueInReach /\ [Next]_vars => DueInReach'
  <2> SUFFICES ASSUME TypeOK, DueInReach, [Next]_vars PROVE DueInReach'
    OBVIOUS
  <2>1. CASE UNCHANGED stamped
    BY <2>1 DEF DueInReach
  <2>2. ASSUME NEW p \in Producers, StampEvent(p) PROVE DueInReach'
    <3>1. PICK delay \in Delays :
             /\ now + Ticks(delay) < MaxTicks
             /\ stamped' = [stamped EXCEPT ![p] =
                              [abstime |-> AbsTime(now, delay), due |-> now + Ticks(delay)]]
      BY <2>2 DEF StampEvent
    <3>2. stamped \in [Producers -> StampedEvent \cup {NoEvent}] /\ now \in Nat
      BY DEF TypeOK
    <3>3. now + Ticks(delay) \in 0 .. MaxTicks
      BY <3>1, <3>2, AbsTimeType, BoundAssumption
    <3>4. \A q \in Producers : stamped'[q] = IF q = p THEN [abstime |-> AbsTime(now, delay),
                                                           due |-> now + Ticks(delay)]
                                             ELSE stamped[q]
      BY <3>1, <3>2
    <3> QED BY <3>3, <3>4 DEF DueInReach
  <2>3. ASSUME NEW p \in Producers, InsertEvent(p) PROVE DueInReach'
    <3>1. \A q \in Producers : stamped'[q] = IF q = p THEN NoEvent ELSE stamped[q]
      BY <2>3 DEF InsertEvent, TypeOK
    <3> QED BY <3>1 DEF DueInReach
  <2>4. ASSUME \/ Runner \/ SpuriousWakeUp \/ onRequest \/ signalClose \/ Tick
               \/ Quiescent \/ UNCHANGED vars
        PROVE  UNCHANGED stamped
    BY <2>4 DEF Runner, OpenQueue, InitFails, InitSucceeds, Break, Wait, TimedWait, TimeOut,
       WokenClosed, Take, RunEvent, RunRequest, SpuriousWakeUp, onRequest, signalClose, Tick,
       Quiescent, vars
  <2> QED BY <2>1, <2>2, <2>3, <2>4 DEF Next
<1>3. EventInv => TypeOK
  BY DEF EventInv
<1>4. Spec => []DueInReach
  BY <1>1, <1>2, TypeCorrect, PTL DEF Spec
<1>5. EventInv /\ EventsOnTime /\ RequestsInOrder /\ DueInReach => WorkInv
  BY DEF WorkInv, EventsOnTime
<1> QED BY <1>4, <1>5, EventInvCorrect, EventsKept, RequestsProcessedInOrder, PTL

LEMMA InitWork == Init => Work!Init
  BY DEF Init, Work!Init, Waiting, Chosen

\* What leaves the lists, the counts and the clock alone changes nothing promised.
LEMMA StutterWork ==
    ASSUME UNCHANGED <<requests, served, inserted, eventList, event, fired, now>>
    PROVE  UNCHANGED Work!vars
  BY DEF Work!vars, Waiting, Chosen

LEMMA InsertWork ==
    ASSUME WorkInv, NEW p \in Producers, InsertEvent(p)
    PROVE  Work!Schedule
<1> DEFINE e == NewEvent(p)
<1>1. /\ e \in Event /\ eventList \in Seq(Event)
      /\ Promised(e) = [id |-> inserted + 1, due |-> stamped[p].due]
      /\ stamped[p].due \in 0 .. MaxTicks
  BY NewEventType DEF WorkInv, EventInv, TypeOK, InsertEvent, DueInReach, NewEvent, Promised
<1>2. eventList' = InsertInOrder(eventList, e)
  BY DEF InsertEvent, NewEvent
<1>3. Waiting' = Waiting \cup {Promised(e)}
  <2> HIDE DEF e
  <2>1. /\ \A i \in 1 .. Len(eventList') :
                eventList'[i] = e \/ \E n \in 1 .. Len(eventList) : eventList'[i] = eventList[n]
        /\ \A n \in 1 .. Len(eventList) :
                \E i \in 1 .. Len(eventList') : eventList'[i] = eventList[n]
        /\ \E i \in 1 .. Len(eventList') : eventList'[i] = e
    BY <1>1, <1>2, InsertElements
  <2> QED BY <2>1 DEF Waiting, Promised
<1>4. UNCHANGED <<requests, served, event, fired, now>> /\ inserted' = inserted + 1
  BY DEF InsertEvent, takenVars
<1>5. UNCHANGED Chosen
  BY <1>4 DEF Chosen
<1> QED BY <1>1, <1>3, <1>4, <1>5 DEF Work!Schedule, Work!requestVars

\* The head of the list is the earliest, and is not listed again.
LEMMA HeadIsEarliest ==
    ASSUME WorkInv, eventList # << >>
    PROVE  LET h == Head(eventList)
           IN  /\ h \in Event /\ Promised(h) \in Waiting
               /\ \A d \in Waiting : h.due <= d.due
               /\ {Promised(Tail(eventList)[i]) : i \in 1 .. Len(Tail(eventList))} =
                    Waiting \ {Promised(h)}
<1> DEFINE h == Head(eventList)
           n == Len(eventList)
<1>1. /\ n \in Nat /\ 1 \in 1 .. n /\ h = eventList[1] /\ h \in Event
      /\ \A i \in 1 .. n : eventList[i] \in Event
      /\ Len(Tail(eventList)) = n - 1
      /\ \A i \in 1 .. n - 1 : Tail(eventList)[i] = eventList[i + 1]
  BY HeadTailProperties DEF WorkInv, EventInv, TypeOK
<1>2. \A i \in 1 .. n : InTime(eventList[i])
  BY DEF WorkInv, EventInv, TimesOK
<1> HIDE DEF h
<1>3. ASSUME NEW i \in 1 .. n, i # 1
      PROVE  h.due <= eventList[i].due /\ h.id # eventList[i].id
  <2>0. h.id # eventList[i].id
    BY <1>1, <1>3 DEF WorkInv, EventsAccounted
  <2>1. 1 < i /\ InTime(h) /\ InTime(eventList[i])
    BY <1>1, <1>2, <1>3
  <2>2. Before(h, eventList[i])
    BY <1>1, <2>1 DEF WorkInv, EventInv, OrderOK
  <2>3. /\ h.abstime \in Timespec /\ eventList[i].abstime \in Timespec
        /\ h.due \in Nat /\ eventList[i].due \in Nat
    BY <1>1 DEF Event
  <2>4. CASE h.abstime = eventList[i].abstime
    BY <2>0, <2>1, <2>3, <2>4 DEF InTime
  <2>5. CASE h.abstime # eventList[i].abstime
    <3>1. Later(eventList[i].abstime, h.abstime)
      BY <2>2, <2>3, <2>5, LaterOrder DEF Before
    <3>2. Ticks(eventList[i].abstime) >= Ticks(h.abstime)
      BY <2>1, <2>3, <3>1, LaterTicks DEF InTime
    <3> QED BY <2>0, <2>1, <2>3, <3>2 DEF InTime
  <2> QED BY <2>0, <2>4, <2>5
<1>4. h.due \in Nat
  BY <1>1 DEF Event
<1>5. \A d \in Waiting : h.due <= d.due
  BY <1>1, <1>3, <1>4 DEF Waiting, Promised
<1> DEFINE T == {Promised(Tail(eventList)[i]) : i \in 1 .. Len(Tail(eventList))}
<1>6. ASSUME NEW i \in 1 .. n - 1
      PROVE  /\ Promised(Tail(eventList)[i]) \in Waiting
             /\ Promised(Tail(eventList)[i]) # Promised(h)
  <2>1. i + 1 \in 1 .. n /\ i + 1 # 1 /\ Tail(eventList)[i] = eventList[i + 1]
    BY <1>1
  <2>2. eventList[i + 1].id # h.id
    BY <1>3, <2>1
  <2> QED BY <2>1, <2>2 DEF Waiting, Promised
<1>7. ASSUME NEW m \in 1 .. n, m # 1 PROVE Promised(eventList[m]) \in T
  <2>1. m - 1 \in 1 .. n - 1 /\ (m - 1) + 1 = m
    BY <1>1, <1>7
  <2>2. Tail(eventList)[m - 1] = eventList[m]
    BY <1>1, <2>1
  <2> QED BY <1>1, <2>1, <2>2
<1>8. T = Waiting \ {Promised(h)}
  BY <1>1, <1>6, <1>7 DEF Waiting
<1>9. Promised(h) \in Waiting
  BY <1>1 DEF Waiting
<1> QED BY <1>1, <1>5, <1>8, <1>9 DEF h

LEMMA TakeWork ==
    ASSUME WorkInv, Take PROVE Work!Choose \/ UNCHANGED Work!vars
<1>1. event = NoEvent /\ UNCHANGED <<requests, served, inserted, fired, now>>
  BY DEF WorkInv, EventInv, TypeOK, Take, ghostVars
<1>2. CASE ~EventDue
  <2>1. UNCHANGED <<eventList, event>>
    BY <1>1, <1>2 DEF Take
  <2> QED BY <1>1, <2>1, StutterWork
<1>3. CASE EventDue
  <2> DEFINE h == Head(eventList)
  <2>1. event' = h /\ eventList' = Tail(eventList) /\ eventList # << >>
    BY <1>3 DEF Take, EventDue
  <2>2. /\ h \in Event /\ Promised(h) \in Waiting
        /\ \A d \in Waiting : h.due <= d.due
        /\ {Promised(Tail(eventList)[i]) : i \in 1 .. Len(Tail(eventList))} =
              Waiting \ {Promised(h)}
    BY <2>1, HeadIsEarliest
  <2>3. h # NoEvent /\ h.due <= now
    <3>1. NeverEarly'
      BY NextEvents DEF WorkInv, EventInv, Next, Runner
    <3>2. h # NoEvent
      BY <2>2, NoEventAssumption DEF Event
    <3> QED BY <1>1, <2>1, <2>2, <3>1, <3>2 DEF NeverEarly, WorkInv, EventInv, TypeOK, Event
  <2> HIDE DEF h
  <2>4. Chosen = {} /\ Chosen' = {Promised(h)}
    BY <1>1, <2>1, <2>3 DEF Chosen, Promised
  <2>5. Waiting' = Waiting \ {Promised(h)}
    BY <2>1, <2>2 DEF Waiting, Promised
  <2>6. Promised(h).due = h.due
    BY DEF Promised
  <2> QED BY <1>1, <2>2, <2>3, <2>4, <2>5, <2>6 DEF Work!Choose, Work!requestVars
<1> QED BY <1>2, <1>3

LEMMA NextWork == WorkInv /\ [Next]_vars => [Work!Next]_(Work!vars)
<1> SUFFICES ASSUME WorkInv, [Next]_vars PROVE Work!Next \/ UNCHANGED Work!vars
  OBVIOUS
<1>0. TypeOK /\ RequestsInOrder
  BY DEF WorkInv, EventInv
<1>1. CASE \/ OpenQueue \/ InitFails \/ InitSucceeds \/ Break \/ Wait \/ TimedWait
           \/ TimeOut \/ WokenClosed \/ SpuriousWakeUp \/ signalClose \/ Quiescent
           \/ (\E p \in Producers : StampEvent(p)) \/ UNCHANGED vars
  <2>1. UNCHANGED <<requests, served, inserted, eventList, event, fired, now>>
    BY <1>1 DEF OpenQueue, InitFails, InitSucceeds, Break, Wait, TimedWait, TimeOut,
       WokenClosed, SpuriousWakeUp, signalClose, Quiescent, StampEvent, vars, listVars,
       takenVars, ghostVars
  <2> QED BY <2>1, StutterWork
<1>2. CASE Take
  BY <1>2, TakeWork DEF Work!Next
<1>3. ASSUME NEW p \in Producers, InsertEvent(p) PROVE Work!Next
  BY <1>3, InsertWork DEF Work!Next
<1>4. CASE RunEvent
  <2>1. /\ event # NoEvent /\ event' = NoEvent /\ fired' = fired \cup {event.id}
        /\ UNCHANGED <<eventList, requests, served, inserted, now>>
    BY <1>0, <1>4 DEF RunEvent, TypeOK, listVars
  <2>2. Chosen = {Promised(event)} /\ Chosen' = {} /\ UNCHANGED Waiting
    BY <2>1 DEF Chosen, Waiting
  <2>3. Promised(event).id = event.id
    BY DEF Promised
  <2> QED BY <2>1, <2>2, <2>3 DEF Work!Next, Work!Fire, Work!requestVars
<1>5. CASE RunRequest
  <2>1. /\ request # 0 /\ served' = served + 1
        /\ UNCHANGED <<eventList, event, requests, inserted, fired, now>>
    BY <1>0, <1>5 DEF RunRequest, TypeOK, listVars
  <2>2. served < requests
    BY <1>0, <2>1 DEF RequestsInOrder, InHand, TypeOK
  <2>3. UNCHANGED <<Waiting, Chosen>>
    BY <2>1 DEF Waiting, Chosen
  <2> QED BY <2>1, <2>2, <2>3 DEF Work!Next, Work!Serve, Work!eventVars
<1>6. CASE onRequest
  <2>1. /\ requests' = requests + 1
        /\ UNCHANGED <<eventList, event, served, inserted, fired, now>>
    BY <1>6 DEF onRequest, takenVars
  <2>2. UNCHANGED <<Waiting, Chosen>>
    BY <2>1 DEF Waiting, Chosen
  <2> QED BY <2>1, <2>2 DEF Work!Next, Work!Submit, Work!eventVars
<1>7. CASE Tick
  <2>1. /\ now' = now + 1
        /\ UNCHANGED <<eventList, event, requests, served, inserted, fired>>
    BY <1>7 DEF Tick, listVars, takenVars, ghostVars
  <2>2. UNCHANGED <<Waiting, Chosen>>
    BY <2>1 DEF Waiting, Chosen
  <2> QED BY <2>1, <2>2 DEF Work!Next, Work!Tick, Work!requestVars, Work!eventVars
<1> QED
  BY <1>1, <1>2, <1>3, <1>4, <1>5, <1>6, <1>7 DEF Next, Runner

\* Every behaviour of the queue, seen through the refinement mapping, is one of
\* DeferredWork (its safety part; the fairness is checked by TLC).
THEOREM ImplementsWork == Spec => Work!SafeSpec
  BY InitWork, NextWork, WorkInvCorrect, PTL DEF Spec, Work!SafeSpec
=============================================================================
