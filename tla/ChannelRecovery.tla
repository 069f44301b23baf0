--------------------------- MODULE ChannelRecovery ---------------------------
(***************************************************************************)
(* How the RIL loses and reopens its AT channels (mbm-ril/u300-ril.c, with *)
(* at_open, at_close and the reader thread of mbm-ril/atchannel.c).        *)
(*                                                                         *)
(* One runner per queue opens its device, initialises the channel and      *)
(* serves its queue; at_open starts a reader thread for every session.     *)
(* When the device goes away the reader calls onATReaderClosed; when a     *)
(* command gets no answer the runner calls onATTimeout.  Both close the    *)
(* channel of their own context and mark BOTH queues closed, in steps      *)
(* between which the other threads run.                                    *)
(*                                                                         *)
(* The queues are reduced to their closed bits (RequestQueue has the       *)
(* lists), a command to its outcome (AtChannel has the protocol), at_close *)
(* to one step.  A context survives its sessions, and so do its kick pipe  *)
(* and any reader thread that has not noticed that its session is over.    *)
(***************************************************************************)
EXTENDS Integers, Sequences, FiniteSets

CONSTANTS
    Limits          \* bounds, for a daemon without and with a prio queue:
                    \*   readers   reader threads of a context alive at a time
                    \*   faults    kinds of faults that happen, each once
                    \*   kicks     kicks the pipe is told apart by

AllQueues == {"normal", "prio"}

\* A device goes away; the modem leaves a command without an answer; it refuses
\* one, or does not send EMRDY; a SIM is inserted.
FaultKinds == {"death", "timeout", "failure", "hotswap"}

ASSUME ConstantAssumption ==
    Limits \in [BOOLEAN -> [readers : Nat \ {0}, faults : Nat, kicks : Nat \ {0}]]

\* The threads of a context: reader threads, and the runner.
ReaderIds == 1 .. (IF Limits[TRUE].readers > Limits[FALSE].readers
                   THEN Limits[TRUE].readers ELSE Limits[FALSE].readers)
Runner == 0

VARIABLES
    prio,           \* -x was given: there is a prio queue and its runner
    pc,             \* per runner: where queueRunner is
    tty,            \* per runner: its local fd, before at_open
    present,        \* per queue: the device node is there
    fd,             \* per context: ac->fd, "hung" when its device went away
    readerClosed,   \* per context: ac->readerClosed
    onReaderClosed, \* per context: the callback is set
    kicks,          \* per context: bytes in the pipe readerCmdFds
    reader,         \* per context and id: a reader thread
    todo,           \* per thread: what is left of the callback it is in
    closed,         \* per queue: q->closed
    radio,          \* sState
    pending_hotswap,
    faults          \* the kinds of faults that have happened

contextVars == <<fd, readerClosed, onReaderClosed, kicks, reader>>
boundVars == <<prio, faults>>
stateVars == <<radio, pending_hotswap>>
vars == <<pc, tty, present, contextVars, todo, closed, stateVars, boundVars>>

RunnerPcs == {"open", "select", "opened", "common", "clear", "radioOff", "channel",
              "prioInit", "loop", "work", "closing", "gone"}
FileStates == {"none", "up", "hung"}
Threads == AllQueues \X (ReaderIds \cup {Runner})

\* A reader thread.  It polls the file of the current session or a stale one.
NoReader == [at |-> "none", current |-> FALSE, hung |-> FALSE]
Readers == [at : {"none", "start", "poll", "ended", "lock", "callback"},
            current : BOOLEAN, hung : BOOLEAN]

Init ==
    /\ prio \in BOOLEAN
    /\ pc = [q \in AllQueues |-> IF q = "normal" \/ prio THEN "open" ELSE "gone"]
    /\ tty = [q \in AllQueues |-> "none"]
    /\ present = [q \in AllQueues |-> TRUE]
    /\ fd = [q \in AllQueues |-> "none"]
    /\ readerClosed = [q \in AllQueues |-> FALSE]
    /\ onReaderClosed = [q \in AllQueues |-> FALSE]
    /\ kicks = [q \in AllQueues |-> 0]
    /\ reader = [q \in AllQueues |-> [r \in ReaderIds |-> NoReader]]
    /\ todo = [t \in Threads |-> << >>]
    /\ closed = [q \in AllQueues |-> TRUE]
    /\ radio = "UNAVAILABLE"
    /\ pending_hotswap = FALSE
    /\ faults = {}

\* The queues that have a runner, as RIL_Init starts them.
Queues == IF prio THEN AllQueues ELSE {"normal"}

Fault(kind) ==
    /\ kind \notin faults
    /\ Cardinality(faults) < Limits[prio].faults
    /\ faults' = faults \cup {kind}

Goto(q, label) == pc' = [pc EXCEPT ![q] = label]

\* The runner is not inside a callback.
RunnerAt(q, label) == pc[q] = label /\ todo[<<q, Runner>>] = << >>

-----------------------------------------------------------------------------
(***************************************************************************)
(* at_close, on the context of the thread that calls it.                   *)
(***************************************************************************)
AtClose(q) ==
    IF fd[q] = "none"
    THEN UNCHANGED contextVars
    ELSE /\ fd' = [fd EXCEPT ![q] = "none"]
         /\ readerClosed' = [readerClosed EXCEPT ![q] = TRUE]
         /\ kicks' = [kicks EXCEPT ![q] = IF @ < Limits[prio].kicks THEN @ + 1 ELSE @]
         /\ reader' = [reader EXCEPT ![q] =
                         [r \in ReaderIds |-> [reader[q][r] EXCEPT !.current = FALSE]]]
         /\ UNCHANGED onReaderClosed

\* Defect: the queues are closed before the radio is reported unavailable.
CallbackSignalsFirst(radioStep) == <<"close", "normal", "prio", radioStep>>

\* What onATReaderClosed and onATTimeout do, one section after the other.
Callback(radioStep) == <<"close", radioStep, "normal", "prio">>

onATReaderClosed == Callback("radioUnlessHotswap")

onATTimeout == Callback("radio")

\* Defect: only the queue whose channel failed is closed.
MarkOwnClosed(t, q) == closed' = [closed EXCEPT ![q] = @ \/ t[1] = q]

MarkClosed(t, q) == closed' = [closed EXCEPT ![q] = TRUE]

CallbackStep(t) ==
    /\ todo[t] # << >>
    /\ todo' = [todo EXCEPT ![t] = Tail(@)]
    /\ LET step == Head(todo[t])
       IN  \/ /\ step = "close"
              /\ AtClose(t[1])
              /\ UNCHANGED <<closed, radio>>
           \/ /\ step \in {"radio", "radioUnlessHotswap"}
              /\ radio' = IF step = "radio" \/ ~pending_hotswap THEN "UNAVAILABLE" ELSE radio
              /\ UNCHANGED <<closed, contextVars>>
           \/ /\ step \in AllQueues
              /\ MarkClosed(t, step)
              /\ UNCHANGED <<contextVars, radio>>
    /\ UNCHANGED <<pc, tty, present, pending_hotswap, boundVars>>

-----------------------------------------------------------------------------
(***************************************************************************)
(* queueRunner.                                                            *)
(***************************************************************************)
\* open() succeeds once the device is there; until then, sleep and retry.
OpenDevice(q) ==
    /\ RunnerAt(q, "open")
    /\ present[q]
    /\ tty' = [tty EXCEPT ![q] = "up"]
    /\ Goto(q, "select")
    /\ UNCHANGED <<present, contextVars, todo, closed, stateVars, boundVars>>

\* The device sends something else than EMRDY.
NotEmrdy(q) ==
    /\ RunnerAt(q, "select")
    /\ Fault("failure")
    /\ tty' = [tty EXCEPT ![q] = "none"]
    /\ Goto(q, "open")
    /\ UNCHANGED <<present, contextVars, todo, closed, stateVars, prio>>

\* select() fails: "return NULL", the thread ends.
SelectFails(q) ==
    /\ RunnerAt(q, "select")
    /\ Goto(q, "gone")
    /\ UNCHANGED <<tty, present, contextVars, todo, closed, stateVars, boundVars>>

\* EMRDY, or none in time: at_open, which starts the reader of the session.
AtOpen(q) ==
    /\ RunnerAt(q, "select")
    /\ \E r \in 1 .. Limits[prio].readers :
           /\ reader[q][r] = NoReader
           /\ \A i \in 1 .. r - 1 : reader[q][i] # NoReader
           /\ reader' = [reader EXCEPT ![q][r] =
                            [at |-> "start", current |-> FALSE, hung |-> FALSE]]
    /\ fd' = [fd EXCEPT ![q] = tty[q]]
    /\ tty' = [tty EXCEPT ![q] = "none"]
    /\ readerClosed' = [readerClosed EXCEPT ![q] = FALSE]
    /\ Goto(q, "opened")
    /\ UNCHANGED <<present, onReaderClosed, kicks, todo, closed, stateVars, boundVars>>

\* The callbacks are set; initializeCommon clears pending_hotswap first.
SetCallbacks(q) ==
    /\ RunnerAt(q, "opened")
    /\ onReaderClosed' = [onReaderClosed EXCEPT ![q] = TRUE]
    /\ pending_hotswap' = FALSE
    /\ Goto(q, "common")
    /\ UNCHANGED <<tty, present, fd, readerClosed, kicks, reader, todo, closed, radio,
                   boundVars>>

\* Some reader passes the modem's answers on.
IsRead(q) ==
    \E r \in ReaderIds : \/ reader[q][r].at = "start"
                         \/ reader[q][r].at = "poll" /\ reader[q][r].current

ChannelUp(q) == fd[q] = "up" /\ ~readerClosed[q]

Initialising == {"common", "channel", "prioInit"}

\* Defect: the closed bit is cleared when the loop is entered.
AfterInitClearsLast(q) ==
    CASE pc[q] = "common" -> IF q = "normal" THEN "radioOff" ELSE "prioInit"
      [] pc[q] = "channel" -> IF prio THEN "clear" ELSE "prioInit"
      [] pc[q] = "prioInit" -> "clear"
      [] pc[q] = "clear" -> "loop"

\* Defect: the closed bit is never cleared.
AfterInitLeavesClosed(q) ==
    CASE pc[q] = "common" -> IF q = "normal" THEN "radioOff" ELSE "prioInit"
      [] pc[q] = "channel" -> IF prio THEN "loop" ELSE "prioInit"
      [] pc[q] = "prioInit" -> "loop"

\* Where the runner goes from one part of the initialisation to the next.
AfterInit(q) ==
    CASE pc[q] = "common" -> "clear"
      [] pc[q] = "clear" -> IF q = "normal" THEN "radioOff" ELSE "prioInit"
      [] pc[q] = "channel" -> IF prio THEN "loop" ELSE "prioInit"
      [] pc[q] = "prioInit" -> "loop"

\* The last command of this part was answered.  initializeChannel ends with
\* setRadioState if the radio is on.
InitSucceeds(q) ==
    /\ \E label \in Initialising : RunnerAt(q, label)
    /\ ChannelUp(q)
    /\ IsRead(q)
    /\ radio' \in IF pc[q] = "channel" THEN {radio, "AVAILABLE"} ELSE {radio}
    /\ Goto(q, AfterInit(q))
    /\ UNCHANGED <<tty, present, contextVars, todo, closed, pending_hotswap, boundVars>>

\* A command fails: at once on a dead channel, or the modem refuses it.
InitFails(q) ==
    /\ \E label \in Initialising : RunnerAt(q, label)
    /\ IF ChannelUp(q) THEN Fault("failure") ELSE UNCHANGED faults
    /\ Goto(q, "closing")
    /\ UNCHANGED <<tty, present, contextVars, todo, closed, stateVars, prio>>

\* A command is not answered: onATTimeout, on the runner.
TimesOut(q) ==
    /\ \E label \in Initialising \cup {"work"} : RunnerAt(q, label)
    /\ ~readerClosed[q]
    /\ IF IsRead(q) THEN Fault("timeout") ELSE UNCHANGED faults
    /\ todo' = [todo EXCEPT ![<<q, Runner>>] = onATTimeout]
    /\ Goto(q, IF pc[q] = "work" THEN "loop" ELSE "closing")
    /\ UNCHANGED <<tty, present, contextVars, closed, stateVars, prio>>

\* q->closed = 0, without queueMutex.
ClearClosed(q) ==
    /\ RunnerAt(q, "clear")
    /\ closed' = [closed EXCEPT ![q] = FALSE]
    /\ Goto(q, AfterInit(q))
    /\ UNCHANGED <<tty, present, contextVars, todo, stateVars, boundVars>>

\* initializeChannel begins with setRadioState(RADIO_STATE_OFF).
RadioOff(q) ==
    /\ RunnerAt(q, "radioOff")
    /\ radio' = "AVAILABLE"
    /\ Goto(q, "channel")
    /\ UNCHANGED <<tty, present, contextVars, todo, closed, pending_hotswap, boundVars>>

\* The queue is open and something is in it: an event or a request.
TakeWork(q) ==
    /\ RunnerAt(q, "loop")
    /\ ~closed[q]
    /\ Goto(q, "work")
    /\ UNCHANGED <<tty, present, contextVars, todo, closed, stateVars, boundVars>>

\* It is done, with success or an error.  Several handlers set the radio state
\* (pollSIMState, requestRadioPower).
FinishWork(q) ==
    /\ RunnerAt(q, "work")
    /\ radio' \in {radio, "AVAILABLE"}
    /\ Goto(q, "loop")
    /\ UNCHANGED <<tty, present, contextVars, todo, closed, pending_hotswap, boundVars>>

\* "AT Channel error, attempting to recover.."
LeaveLoop(q) ==
    /\ RunnerAt(q, "loop")
    /\ closed[q]
    /\ Goto(q, "closing")
    /\ UNCHANGED <<tty, present, contextVars, todo, closed, stateVars, boundVars>>

\* at_close after the loop, or after a failed initialisation, and start over.
CloseAndRetry(q) ==
    /\ RunnerAt(q, "closing")
    /\ AtClose(q)
    /\ Goto(q, "open")
    /\ UNCHANGED <<tty, present, todo, closed, stateVars, boundVars>>

RunnerStep(q) ==
    \/ OpenDevice(q) \/ NotEmrdy(q) \/ SelectFails(q) \/ AtOpen(q) \/ SetCallbacks(q)
    \/ InitSucceeds(q) \/ InitFails(q) \/ TimesOut(q) \/ ClearClosed(q) \/ RadioOff(q)
    \/ TakeWork(q) \/ FinishWork(q) \/ LeaveLoop(q) \/ CloseAndRetry(q)
    \/ CallbackStep(<<q, Runner>>)

-----------------------------------------------------------------------------
(***************************************************************************)
(* Reader threads.  A reader looks at ac->fd before it polls, and polls    *)
(* the file it saw there even when the context moves on.                   *)
(***************************************************************************)
ReaderIs(q, r, new) == reader' = [reader EXCEPT ![q][r] = new]

ReaderEnds(q, r) == ReaderIs(q, r, [at |-> "ended", current |-> FALSE, hung |-> FALSE])

\* "If our fd is invalid, we are probably closed. Return."  Otherwise poll it.
LookAtFd(q, r) ==
    IF fd[q] = "none"
    THEN ReaderEnds(q, r)
    ELSE ReaderIs(q, r, [at |-> "poll", current |-> TRUE, hung |-> fd[q] = "hung"])

ReaderStarts(q, r) ==
    /\ reader[q][r].at = "start"
    /\ LookAtFd(q, r)
    /\ UNCHANGED <<pc, tty, present, fd, readerClosed, onReaderClosed, kicks, todo, closed,
                   stateVars, boundVars>>

\* A line arrives; onUnsolicited may learn from it that a SIM was inserted.
ReaderReadsLine(q, r) ==
    /\ reader[q][r].at = "poll"
    /\ reader[q][r].current
    /\ fd[q] = "up"
    /\ \/ UNCHANGED <<faults, pending_hotswap>>
       \/ /\ Fault("hotswap")
          /\ radio # "UNAVAILABLE"
          /\ pending_hotswap' = TRUE
    /\ ReaderIs(q, r, [at |-> "start", current |-> FALSE, hung |-> FALSE])
    /\ UNCHANGED <<pc, tty, present, fd, readerClosed, onReaderClosed, kicks, todo, closed,
                   radio, prio>>

\* "Just drain it. We don't care, this is just for waking up": the reader that
\* gets the byte looks at ac->fd again, whichever session it was kicked for.
ReaderKicked(q, r) ==
    /\ reader[q][r].at = "poll"
    /\ kicks[q] > 0
    /\ kicks' = [kicks EXCEPT ![q] = @ - 1]
    /\ LookAtFd(q, r)
    /\ UNCHANGED <<pc, tty, present, fd, readerClosed, onReaderClosed, todo, closed, stateVars,
                   boundVars>>

\* The polled file hangs up.  POLLERR ends the reader; otherwise it reads from
\* ac->fd, which fails unless that is a new session by now.
ReaderHangsUp(q, r) ==
    /\ reader[q][r].at = "poll"
    /\ reader[q][r].hung
    /\ \/ ReaderEnds(q, r)
       \/ fd[q] = "up" /\ ReaderIs(q, r, [at |-> "start", current |-> FALSE, hung |-> FALSE])
    /\ UNCHANGED <<pc, tty, present, fd, readerClosed, onReaderClosed, kicks, todo, closed,
                   stateVars, boundVars>>

\* onReaderClosed tests ac->readerClosed without the mutex...
ReaderTests(q, r) ==
    /\ reader[q][r].at = "ended"
    /\ ReaderIs(q, r, IF onReaderClosed[q] /\ ~readerClosed[q]
                      THEN [reader[q][r] EXCEPT !.at = "lock"] ELSE NoReader)
    /\ UNCHANGED <<pc, tty, present, fd, readerClosed, onReaderClosed, kicks, todo, closed,
                   stateVars, boundVars>>

\* ... sets it under the mutex, and calls onATReaderClosed.
ReaderCalls(q, r) ==
    /\ reader[q][r].at = "lock"
    /\ readerClosed' = [readerClosed EXCEPT ![q] = TRUE]
    /\ ReaderIs(q, r, [reader[q][r] EXCEPT !.at = "callback"])
    /\ todo' = [todo EXCEPT ![<<q, r>>] = onATReaderClosed]
    /\ UNCHANGED <<pc, tty, present, fd, onReaderClosed, kicks, closed, stateVars, boundVars>>

ReaderExits(q, r) ==
    /\ reader[q][r].at = "callback"
    /\ todo[<<q, r>>] = << >>
    /\ ReaderIs(q, r, NoReader)
    /\ UNCHANGED <<pc, tty, present, fd, readerClosed, onReaderClosed, kicks, todo, closed,
                   stateVars, boundVars>>

ReaderStep(q, r) ==
    \/ ReaderStarts(q, r) \/ ReaderKicked(q, r) \/ ReaderHangsUp(q, r)
    \/ ReaderTests(q, r) \/ ReaderCalls(q, r) \/ ReaderExits(q, r)
    \/ CallbackStep(<<q, r>>)

-----------------------------------------------------------------------------
(***************************************************************************)
(* The devices.                                                            *)
(***************************************************************************)
Hang(file) == IF file = "up" THEN "hung" ELSE file

DeviceDies(q) ==
    /\ present[q]
    /\ Fault("death")
    /\ present' = [present EXCEPT ![q] = FALSE]
    /\ tty' = [tty EXCEPT ![q] = Hang(@)]
    /\ fd' = [fd EXCEPT ![q] = Hang(@)]
    /\ reader' = [reader EXCEPT ![q] =
                    [r \in ReaderIds |->
                        [reader[q][r] EXCEPT !.hung = @ \/ reader[q][r].at = "poll"]]]
    /\ UNCHANGED <<pc, readerClosed, onReaderClosed, kicks, todo, closed, stateVars,
                   prio>>

DeviceReturns(q) ==
    /\ ~present[q]
    /\ present' = [present EXCEPT ![q] = TRUE]
    /\ UNCHANGED <<pc, tty, contextVars, todo, closed, stateVars, boundVars>>

\* Every runner has ended.
AllGone ==
    /\ \A q \in Queues : pc[q] = "gone"
    /\ UNCHANGED vars

Next ==
    \/ \E q \in Queues :
           \/ RunnerStep(q) \/ DeviceDies(q) \/ DeviceReturns(q)
           \/ \E r \in ReaderIds : ReaderStep(q, r) \/ ReaderReadsLine(q, r)
    \/ AllGone

Spec == Init /\ [][Next]_vars

\* The scheduler runs every thread, and a device that went away comes back.
Fairness ==
    \A q \in AllQueues :
        /\ WF_vars(RunnerStep(q))
        /\ WF_vars(DeviceReturns(q))
        /\ \A r \in ReaderIds : WF_vars(ReaderStep(q, r))

LiveSpec == Spec /\ Fairness

-----------------------------------------------------------------------------
(***************************************************************************)
(* Properties.                                                             *)
(***************************************************************************)
TypeOK ==
    /\ pc \in [AllQueues -> RunnerPcs]
    /\ tty \in [AllQueues -> FileStates]
    /\ present \in [AllQueues -> BOOLEAN]
    /\ fd \in [AllQueues -> FileStates]
    /\ readerClosed \in [AllQueues -> BOOLEAN]
    /\ onReaderClosed \in [AllQueues -> BOOLEAN]
    /\ kicks \in [AllQueues -> 0 .. Limits[prio].kicks]
    /\ reader \in [AllQueues -> [ReaderIds -> Readers]]
    /\ todo \in [Threads -> Seq(AllQueues \cup {"close", "radio", "radioUnlessHotswap"})]
    /\ closed \in [AllQueues -> BOOLEAN]
    /\ radio \in {"UNAVAILABLE", "AVAILABLE"}
    /\ pending_hotswap \in BOOLEAN
    /\ prio \in BOOLEAN
    /\ faults \subseteq FaultKinds

Serving(q) == pc[q] \in {"loop", "work"}

\* Some thread is in a callback that has yet to close queue q.
CloseOnItsWay(q) ==
    \E t \in Threads : \E i \in 1 .. Len(todo[t]) : todo[t][i] = q

\* A runner that serves an open queue has a channel that works, or somebody is
\* on the way to close the queue: the unlocked q->closed = 0 never loses the
\* close that belongs to the runner's own session.
NoLostClose ==
    \A q \in AllQueues :
        Serving(q) /\ ~closed[q] /\ readerClosed[q] => CloseOnItsWay(q)

\* Types, and no close lost.
RecoveryInv == TypeOK /\ NoLostClose

\* The framework is never left with RADIO_UNAVAILABLE (and every request but
\* one refused) while the normal queue is served on a working channel: whoever
\* set that state late, for an older session or for the other channel, is also
\* about to close the queue, and the reopening sets the state again.
RadioSetAfterRecovery ==
    Serving("normal") /\ ~closed["normal"] /\ radio = "UNAVAILABLE"
        => CloseOnItsWay("normal")

\* A failure of either channel makes both runners start over, they share one
\* modem: a runner that serves its queue when its channel is dead, or when
\* somebody is about to close its queue, goes back to open its device.
FailureReopens ==
    \A q \in AllQueues :
        Serving(q) /\ (readerClosed[q] \/ CloseOnItsWay(q)) ~> pc[q] = "open"

\* Reader threads of two sessions share the context.
Overlap(q) == Cardinality({r \in ReaderIds : reader[q][r] # NoReader}) > 1

Healthy(q) == Serving(q) /\ ~closed[q] /\ ChannelUp(q) /\ IsRead(q)

\* Once the devices stay and the modem answers, every runner that has not ended
\* serves its queue for good, on a channel that works.  The one thing that can
\* keep it from that is a reader that outlives its session, again and again: it
\* takes the next session's channel for its own and closes it.
RecoversForGood ==
    \A q \in AllQueues : <>[]Healthy(q) \/ []<>Overlap(q) \/ <>(pc[q] = "gone")
=============================================================================
