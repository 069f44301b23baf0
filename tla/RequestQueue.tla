---------------------------- MODULE RequestQueue ----------------------------
(***************************************************************************)
(* One RequestQueue of the RIL (mbm-ril/u300-ril.c): a list of requests    *)
(* and a list of timed events, filled by any thread (onRequest and         *)
(* enqueueRILEventName), emptied by the one thread that runs queueRunner,  *)
(* and closed by whoever finds the AT channel dead (signalCloseQueues).    *)
(*                                                                         *)
(* A step is a section run under queueMutex, or the code between two of    *)
(* them.  What queueRunner does outside its inner loop is reduced to       *)
(* opening (the queue is not served) and initialising (closed was cleared, *)
(* the loop is not entered yet); ChannelRecovery has the details.          *)
(*                                                                         *)
(* Requests and events are numbered in the order in which they enter their *)
(* list.  A time is a timespec whose second has NsecPerSec nanoseconds.    *)
(***************************************************************************)
EXTENDS Integers, Sequences, SequencesExt

CONSTANTS
    Producers,      \* threads that call enqueueRILEventName
    NoEvent,        \* a NULL RILEvent pointer
    NsecPerSec,     \* 1000000000
    Delays,         \* the relativeTime arguments, as timespecs
    MaxRequests,    \* bound: requests the framework makes
    MaxEvents,      \* bound: calls of enqueueRILEventName
    MaxTicks,       \* bound: the last instant, in nanoseconds
    MaxCloses,      \* bound: calls of signalCloseQueues
    MaxInitFailures, \* bound: failed initialisations of the channel
    MaxSpurious     \* bound: spurious wake-ups

Timespec == [sec : Nat, nsec : Nat]

ASSUME TimeAssumption ==
    /\ NsecPerSec \in Nat \ {0}
    /\ Delays \subseteq [sec : Nat, nsec : 0 .. NsecPerSec - 1]
ASSUME NoEventAssumption ==
    /\ NoEvent \notin [id : Nat \ {0}, abstime : Timespec, due : Nat]
    /\ NoEvent \notin [abstime : Timespec, due : Nat]
ASSUME BoundAssumption ==
    {MaxRequests, MaxEvents, MaxTicks, MaxCloses, MaxInitFailures, MaxSpurious}
        \subseteq Nat

VARIABLES
    pc,             \* where queueRunner is
    closed,         \* q->closed
    requestList,    \* q->requestList
    eventList,      \* q->eventList
    armed,          \* the abstime of the timed wait
    event,          \* the event the runner popped (e)
    request,        \* the request it popped (r), 0 for NULL
    stamped,        \* per producer: the event it has not inserted yet
    now,            \* CLOCK_MONOTONIC, in nanoseconds
    requests,       \* requests made so far
    served,         \* requests processed so far
    enqueued,       \* calls of enqueueRILEventName so far
    inserted,       \* events inserted so far
    fired,          \* the events whose callback returned
    closes, failures, spurious

listVars == <<requestList, eventList>>
takenVars == <<armed, event, request>>
ghostVars == <<requests, served, inserted, fired>>
boundVars == <<enqueued, closes, failures, spurious>>
vars == <<pc, closed, listVars, takenVars, stamped, now, ghostVars, boundVars>>

(***************************************************************************)
(* Times.                                                                  *)
(***************************************************************************)
Ticks(t) == t.sec * NsecPerSec + t.nsec

ClockTime(n) == [sec |-> n \div NsecPerSec, nsec |-> n % NsecPerSec]

\* Defect: nanoseconds first.
LaterInNanoseconds(a, b) == IF a.nsec = b.nsec THEN a.sec > b.sec ELSE a.nsec > b.nsec

\* timespec_cmp(a, b, >): seconds first.
Later(a, b) == IF a.sec = b.sec THEN a.nsec > b.nsec ELSE a.sec > b.sec

\* The abstime of an event enqueued at instant n.  A sum of exactly one second
\* is not carried ("> 1000000000").
AbsTime(n, delay) ==
    LET sec  == ClockTime(n).sec + delay.sec
        nsec == ClockTime(n).nsec + delay.nsec
    IN  IF nsec > NsecPerSec
        THEN [sec |-> sec + 1, nsec |-> nsec - NsecPerSec]
        ELSE [sec |-> sec, nsec |-> nsec]

(***************************************************************************)
(* An event: its place in the order of insertion, the abstime computed for *)
(* it and (ghost) the instant its caller asked for.                        *)
(***************************************************************************)
Event == [id : Nat \ {0}, abstime : Timespec, due : Nat]
StampedEvent == [abstime : Timespec, due : Nat]

\* The place of e: before the first element with a later abstime.
Place(list, e) ==
    CHOOSE k \in 1 .. Len(list) + 1 :
        /\ k <= Len(list) => Later(list[k].abstime, e.abstime)
        /\ \A i \in 1 .. k - 1 : ~Later(list[i].abstime, e.abstime)

\* Defect: the old head is not linked behind a new one.
InsertUnlinked(list, e) ==
    IF Place(list, e) = 1 THEN <<e>> ELSE InsertAt(list, Place(list, e), e)

InsertInOrder(list, e) == InsertAt(list, Place(list, e), e)

RunnerPcs == {"open", "init", "top", "wait", "wokenWait", "timedwait",
              "wokenTimed", "event", "request"}

\* s_requestQueue before RIL_Init starts the runner: closed, and empty.
Init ==
    /\ pc = "open"
    /\ closed = TRUE
    /\ requestList = << >>
    /\ eventList = << >>
    /\ armed = ClockTime(0)
    /\ event = NoEvent
    /\ request = 0
    /\ stamped = [p \in Producers |-> NoEvent]
    /\ now = 0
    /\ requests = 0
    /\ served = 0
    /\ enqueued = 0
    /\ inserted = 0
    /\ fired = {}
    /\ closes = 0
    /\ failures = 0
    /\ spurious = 0

-----------------------------------------------------------------------------
(***************************************************************************)
(* The threads that fill the queue.  pthread_cond_broadcast and            *)
(* pthread_cond_signal wake the runner, the only waiter.                   *)
(***************************************************************************)
\* Defect: the runner is not woken.
LostWakeUp == pc

WakeUp ==
    CASE pc = "wait"      -> "wokenWait"
      [] pc = "timedwait" -> "wokenTimed"
      [] OTHER            -> pc

AtEnd(list, r) == Append(list, r)

onRequest ==
    /\ requests < MaxRequests
    /\ requests' = requests + 1
    /\ requestList' = AtEnd(requestList, requests + 1)
    /\ pc' = WakeUp
    /\ UNCHANGED <<closed, eventList, takenVars, stamped, now, served, inserted,
                   fired, boundVars>>

\* enqueueRILEventName reads the clock before it takes queueMutex.
StampEvent(p) ==
    /\ stamped[p] = NoEvent
    /\ enqueued < MaxEvents
    /\ enqueued' = enqueued + 1
    /\ \E delay \in Delays :
           /\ now + Ticks(delay) < MaxTicks
           /\ stamped' = [stamped EXCEPT ![p] =
                            [abstime |-> AbsTime(now, delay), due |-> now + Ticks(delay)]]
    /\ UNCHANGED <<pc, closed, listVars, takenVars, now, ghostVars, closes,
                   failures, spurious>>

InsertEvent(p) ==
    LET e == [id      |-> inserted + 1,
              abstime |-> stamped[p].abstime,
              due     |-> stamped[p].due]
    IN  /\ stamped[p] # NoEvent
        /\ inserted' = inserted + 1
        /\ eventList' = InsertInOrder(eventList, e)
        /\ stamped' = [stamped EXCEPT ![p] = NoEvent]
        /\ pc' = WakeUp
        /\ UNCHANGED <<closed, requestList, takenVars, now, requests, served,
                       fired, boundVars>>

\* One queue's turn in signalCloseQueues.
signalClose ==
    /\ closes < MaxCloses
    /\ closes' = closes + 1
    /\ closed' = TRUE
    /\ pc' = WakeUp
    /\ UNCHANGED <<listVars, takenVars, stamped, now, ghostVars, enqueued,
                   failures, spurious>>

Tick ==
    /\ now < MaxTicks
    /\ now' = now + 1
    /\ UNCHANGED <<pc, closed, listVars, takenVars, stamped, ghostVars, boundVars>>

-----------------------------------------------------------------------------
(***************************************************************************)
(* queueRunner.                                                            *)
(***************************************************************************)
\* The channel is open and initializeCommon succeeded: q->closed = 0, written
\* without queueMutex.
OpenQueue ==
    /\ pc = "open"
    /\ closed' = FALSE
    /\ pc' = "init"
    /\ UNCHANGED <<listVars, takenVars, stamped, now, ghostVars, boundVars>>

\* initializeChannel or initializePrioChannel fails: at_close, and start over.
InitFails ==
    /\ pc = "init"
    /\ failures < MaxInitFailures
    /\ failures' = failures + 1
    /\ pc' = "open"
    /\ UNCHANGED <<closed, listVars, takenVars, stamped, now, ghostVars, enqueued,
                   closes, spurious>>

\* Defect: closed is cleared on entry to the loop.
InitSucceedsClears ==
    /\ pc = "init"
    /\ pc' = "top"
    /\ closed' = FALSE
    /\ UNCHANGED <<listVars, takenVars, stamped, now, ghostVars, boundVars>>

InitSucceeds ==
    /\ pc = "init"
    /\ pc' = "top"
    /\ UNCHANGED <<closed, listVars, takenVars, stamped, now, ghostVars, boundVars>>

\* The top of the loop finds the queue closed and leaves it.
Break ==
    /\ pc = "top"
    /\ closed
    /\ pc' = "open"
    /\ UNCHANGED <<closed, listVars, takenVars, stamped, now, ghostVars, boundVars>>

\* Under queueMutex, before the timed wait.
Looking == pc \in {"top", "wokenWait"} /\ ~closed

NothingQueued == requestList = << >> /\ eventList = << >>

Wait ==
    /\ Looking
    /\ NothingQueued
    /\ pc' = "wait"
    /\ UNCHANGED <<closed, listVars, takenVars, stamped, now, ghostVars, boundVars>>

\* Only events: wait for the first one's time.
TimedWait ==
    /\ Looking
    /\ requestList = << >>
    /\ eventList # << >>
    /\ armed' = Head(eventList).abstime
    /\ pc' = "timedwait"
    /\ UNCHANGED <<closed, listVars, event, request, stamped, now, ghostVars,
                   boundVars>>

TimeOut ==
    /\ pc = "timedwait"
    /\ ~Later(armed, ClockTime(now))
    /\ pc' = "wokenTimed"
    /\ UNCHANGED <<closed, listVars, takenVars, stamped, now, ghostVars, boundVars>>

SpuriousWakeUp ==
    /\ pc \in {"wait", "timedwait"}
    /\ spurious < MaxSpurious
    /\ spurious' = spurious + 1
    /\ pc' = WakeUp
    /\ UNCHANGED <<closed, listVars, takenVars, stamped, now, ghostVars, enqueued,
                   closes, failures>>

\* Closed while it waited: "Catch the closed bit at the top of the loop".
WokenClosed ==
    /\ pc \in {"wokenWait", "wokenTimed"}
    /\ closed
    /\ pc' = "top"
    /\ UNCHANGED <<closed, listVars, takenVars, stamped, now, ghostVars, boundVars>>

EventDue == eventList # << >> /\ Later(ClockTime(now), Head(eventList).abstime)

AfterTake(e, r) ==
    IF e # NoEvent THEN "event" ELSE IF r # 0 THEN "request" ELSE "top"

\* One due event and one request leave their lists together.
Take ==
    /\ pc = "wokenTimed" \/ (pc \in {"top", "wokenWait"} /\ requestList # << >>)
    /\ ~closed
    /\ IF EventDue
       THEN event' = Head(eventList) /\ eventList' = Tail(eventList)
       ELSE event' = NoEvent /\ UNCHANGED eventList
    /\ IF requestList # << >>
       THEN request' = Head(requestList) /\ requestList' = Tail(requestList)
       ELSE request' = 0 /\ UNCHANGED requestList
    /\ pc' = AfterTake(event', request')
    /\ UNCHANGED <<closed, armed, stamped, now, ghostVars, boundVars>>

AfterEvent == IF request # 0 THEN "request" ELSE "top"

\* The callback of the event returns; what it enqueues is a producer's step.
RunEvent ==
    /\ pc = "event"
    /\ fired' = fired \cup {event.id}
    /\ event' = NoEvent
    /\ pc' = AfterEvent
    /\ UNCHANGED <<closed, listVars, armed, request, stamped, now, requests, served,
                   inserted, boundVars>>

\* processRequest completes the request, with or without success.
RunRequest ==
    /\ pc = "request"
    /\ served' = served + 1
    /\ request' = 0
    /\ pc' = "top"
    /\ UNCHANGED <<closed, listVars, armed, event, stamped, now, requests, inserted,
                   fired, boundVars>>

Runner ==
    \/ OpenQueue \/ InitFails \/ InitSucceeds
    \/ Break \/ Wait \/ TimedWait \/ TimeOut \/ WokenClosed \/ Take
    \/ RunEvent \/ RunRequest

\* Every bound is used up and the runner waits for ever: the model stops here.
Quiescent ==
    /\ pc = "wait"
    /\ requests = MaxRequests
    /\ now = MaxTicks
    /\ UNCHANGED vars

Next ==
    \/ Runner \/ SpuriousWakeUp
    \/ onRequest \/ signalClose \/ Tick
    \/ \E p \in Producers : StampEvent(p) \/ InsertEvent(p)
    \/ Quiescent

Spec == Init /\ [][Next]_vars

\* The scheduler runs the runner, and time passes.
LiveSpec == Spec /\ WF_vars(Runner) /\ WF_vars(Tick)

-----------------------------------------------------------------------------
(***************************************************************************)
(* Properties.                                                             *)
(***************************************************************************)
\* Types, and the pointers queueRunner follows without a test of its own are
\* not NULL where it follows them.
TypeOK ==
    /\ pc \in RunnerPcs
    /\ closed \in BOOLEAN
    /\ requestList \in Seq(Nat \ {0})
    /\ eventList \in Seq(Event)
    /\ armed \in Timespec
    /\ event \in Event \cup {NoEvent}
    /\ request \in Nat
    /\ stamped \in [Producers -> StampedEvent \cup {NoEvent}]
    /\ {now, requests, served, enqueued, inserted, closes, failures, spurious}
         \subseteq Nat
    /\ fired \subseteq Nat \ {0}
    /\ event # NoEvent <=> pc = "event"
    /\ pc = "request" => request # 0
    /\ request # 0 => pc \in {"event", "request"}

\* The runner never sleeps through work: while it is in pthread_cond_wait the
\* queue is open and both lists are empty, and while it is in the timed wait no
\* request waits and the wait ends at the time of the first event.  (The
\* producers and signalCloseQueues change the lists and the closed bit under
\* queueMutex, and wake the runner before they release it.)
NeverSleepsOnWork ==
    /\ pc = "wait" => ~closed /\ requestList = << >> /\ eventList = << >>
    /\ pc = "timedwait" =>
         /\ ~closed
         /\ requestList = << >>
         /\ eventList # << >>
         /\ armed = Head(eventList).abstime

\* The requests taken and not yet processed.
InHand == IF request = 0 THEN 0 ELSE 1

\* Requests are processed once each and in the order the framework made them,
\* through any number of closed channels: those processed, the one in the
\* runner's hands and those in the list follow each other without a gap.
RequestsInOrder ==
    /\ served + InHand + Len(requestList) = requests
    /\ request # 0 => request = served + 1
    /\ \A i \in 1 .. Len(requestList) : requestList[i] = served + InHand + i

\* The event in the runner's hands, and those in the list.
Held == IF event = NoEvent THEN {} ELSE {event.id}
Listed == {eventList[i].id : i \in 1 .. Len(eventList)}

\* An event is in exactly one place: its callback returned, or the runner has
\* it, or it is in the list, once; the list loses none, whatever happens to
\* the channel.
EventsAccounted ==
    /\ fired \cup Held \cup Listed = 1 .. inserted
    /\ fired \cap Held = {} /\ fired \cap Listed = {} /\ Held \cap Listed = {}
    /\ \A i, j \in 1 .. Len(eventList) :
           eventList[i].id = eventList[j].id => i = j

\* "eventList is prioritized, smallest abstime first", and events with the same
\* abstime keep the order in which they were enqueued.  The order is that of
\* the instants the callers asked for, although tv_nsec may be left at one
\* second and the comparison looks at the seconds first.
EventsSorted ==
    \A i, j \in 1 .. Len(eventList) : i < j =>
        /\ ~Later(eventList[i].abstime, eventList[j].abstime)
        /\ eventList[i].due <= eventList[j].due
        /\ eventList[i].abstime = eventList[j].abstime => eventList[i].id < eventList[j].id

\* The runner never holds an event before the instant its caller asked for
\* (the delays pace polling and retries of the SIM, the network and the SMS
\* storage).
NeverEarly == event # NoEvent => now >= event.due

\* What holds at every moment of the runner and its two lists.
QueueInv == TypeOK /\ NeverSleepsOnWork /\ RequestsInOrder /\ EventsSorted

\* Each event is accounted for, once, and none is early.
EventsOnTime == EventsAccounted /\ NeverEarly

(***************************************************************************)
(* The queue implements DeferredWork: seen from outside, where the lists   *)
(* are sets and the locks, waits and closed channels are steps that change *)
(* nothing, the runner does one piece of promised work after another, and  *)
(* does it all, whatever else is pending and however often the channel is  *)
(* closed, as long as it is opened again.                                  *)
(***************************************************************************)
Promised(e) == [id |-> e.id, due |-> e.due]
Waiting == {Promised(eventList[i]) : i \in 1 .. Len(eventList)}
Chosen == IF event = NoEvent THEN {} ELSE {Promised(event)}

Work == INSTANCE DeferredWork
            WITH Horizon <- MaxTicks, scheduled <- inserted, waiting <- Waiting,
                 chosen <- Chosen

ImplementsDeferredWork == Work!Spec

\* A close signalled to a runner that is in its loop, or about to enter it,
\* makes it leave the loop and open the channel again.
CloseIsSeen == closed /\ pc # "open" ~> pc = "open"
=============================================================================
