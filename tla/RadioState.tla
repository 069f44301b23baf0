------------------------------ MODULE RadioState ------------------------------
(***************************************************************************)
(* The radio state of the RIL and the state of its SIM: setRadioState and  *)
(* requestRadioPower (mbm-ril/u300-ril-device.c), the poll of the SIM, its *)
(* reports and hot swap (mbm-ril/u300-ril-sim.c), and what the runners and *)
(* the reader thread do to them when the channel opens and closes          *)
(* (mbm-ril/u300-ril.c).                                                   *)
(*                                                                         *)
(* Every thread runs handlers; todo[t] is what is left of the handler t is *)
(* in, and other threads run between its elements.  One element is one     *)
(* section under s_state_mutex, one unlocked read of sState with what      *)
(* depends on it, one AT command, or one call of enqueueRILEvent.          *)
(*                                                                         *)
(* The queues are reduced to the events of this component (RequestQueue    *)
(* has the rest): those due at once in their order, and those with a delay *)
(* in a bag from which the runner takes one when its time has come.  One   *)
(* reader thread is modelled, which hears everything the modem reports; a  *)
(* restart finds the channel open.  Readers of several sessions, channels  *)
(* that die while they are opened, and timeouts are in ChannelRecovery.    *)
(***************************************************************************)
EXTENDS Integers, Sequences, FiniteSets

CONSTANTS
    HasPrio,        \* -x was given: there is a prio queue and its runner
    Scenarios,      \* what happens in one behaviour, and how often (bounds)
    MaxRepolls      \* bound: delayed events of a kind told apart

ASSUME ConstantAssumption ==
    /\ HasPrio \in BOOLEAN
    /\ Scenarios \subseteq [maxSimChanges : Nat, maxPowers : Nat, maxDeaths : Nat,
                            maxFailures : Nat]
    /\ MaxRepolls \in Nat \ {0}

Runners == IF HasPrio THEN {"normal", "prio"} ELSE {"normal"}
Threads == Runners \cup {"reader"}
PrioQueue == IF HasPrio THEN "prio" ELSE "normal"

RadioStates == {"UNAVAILABLE", "OFF", "SIM_NOT_READY", "SIM_LOCKED_OR_ABSENT", "SIM_READY"}
SimStates == {"SIM_NOT_READY", "SIM_ABSENT", "SIM_PIN", "SIM_READY"}

VARIABLES
    sState,
    todo,           \* per thread: what is left of its handler
    eventList,      \* per runner: events due, oldest first
    delayed,        \* events of the prio queue with a delay: how many of each
    closed,         \* per runner: its queue is closed
    open,           \* per runner: its channel works; else every AT command fails
    down,           \* the modem is away
    sim_hotswap, s_simRemoved, s_simResetting,
    enabled,        \* setPollSIMState's static
    known,          \* (ghost) the radio state the framework was told
    prepared,       \* (ghost) onSIMReady ran since the radio became SIM_READY
    sim,            \* the SIM, as the modem would answer AT+CPIN?
    esimsr,         \* the modem reports SIM states
    urcs,           \* unsolicited lines on their way
    scenario,       \* the scenario of this behaviour: it never changes
    simChanges, powers, deaths, failures    \* what happened so far

radioVars == <<sState, known, prepared>>
queueVars == <<eventList, delayed, closed, open>>
simVars == <<sim_hotswap, s_simRemoved, s_simResetting, enabled>>
modemVars == <<down, sim, esimsr, urcs>>
boundVars == <<scenario, simChanges, powers, deaths, failures>>
allButTodo == <<radioVars, queueVars, simVars, modemVars, boundVars>>
vars == <<todo, allButTodo>>

Init ==
    /\ sState = "UNAVAILABLE" /\ known = "UNAVAILABLE" /\ prepared = FALSE
    /\ todo = [t \in Threads |-> << >>]
    /\ eventList = [q \in Runners |-> << >>]
    /\ delayed = [e \in {"poll", "storage"} |-> 0]
    /\ closed = [q \in Runners |-> TRUE] /\ open = [q \in Runners |-> FALSE]
    /\ sim_hotswap = FALSE /\ s_simRemoved = FALSE /\ s_simResetting = FALSE
    /\ enabled = FALSE
    /\ down = FALSE /\ sim \in SimStates /\ esimsr = FALSE /\ urcs = << >>
    /\ scenario \in Scenarios
    /\ simChanges = 0 /\ powers = 0 /\ deaths = 0 /\ failures = 0

Step(op, arg) == [op |-> op, arg |-> arg]
Do(op) == <<Step(op, "")>>

Idle(t) == todo[t] = << >>

\* The operation thread t executes next, and its argument.
At(t, op) == ~Idle(t) /\ Head(todo[t]).op = op
Arg(t) == Head(todo[t]).arg

Start(t, steps) == Idle(t) /\ todo' = [todo EXCEPT ![t] = steps]

\* Thread t is done with an operation, which leads to these.
Continue(t, steps) == todo' = [todo EXCEPT ![t] = steps \o Tail(@)]

\* An operation that decides what comes next and changes nothing else.
Branch(t, op, steps) == At(t, op) /\ Continue(t, steps) /\ UNCHANGED allButTodo

Enqueue(q, event) ==
    /\ eventList' = [eventList EXCEPT ![q] = Append(@, event)]
    /\ UNCHANGED <<radioVars, delayed, closed, open, simVars, modemVars, boundVars>>

EnqueueLater(e) == delayed' = [delayed EXCEPT ![e] = IF @ < MaxRepolls THEN @ + 1 ELSE @]

-----------------------------------------------------------------------------
(***************************************************************************)
(* setRadioState.  sState is written under s_state_mutex; every test after *)
(* that reads it again, outside.                                           *)
(***************************************************************************)
setRadioState(new) == <<Step("set", new)>>

SetState(t) ==
    /\ At(t, "set")
    /\ sState' = Arg(t)
    /\ prepared' = (prepared /\ (Arg(t) = sState \/ Arg(t) # "SIM_READY"))
    /\ Continue(t, <<Step("changed?", sState)>>)
    /\ UNCHANGED <<known, queueVars, simVars, modemVars, boundVars>>

\* Defect: only a change between a state and SIM_READY counts.
ChangedReadiness(old) == (sState = "SIM_READY") # (old = "SIM_READY")

Changed(old) == sState # old

Announce == Do("notify") \o Do("ready?")

\* "sState != oldState || sState == RADIO_STATE_SIM_LOCKED_OR_ABSENT"
TestState(t) ==
    \/ Branch(t, "changed?", IF Changed(Arg(t)) THEN Announce ELSE Do("locked?"))
    \/ Branch(t, "locked?", IF sState = "SIM_LOCKED_OR_ABSENT" THEN Announce ELSE << >>)

\* RIL_UNSOL_RESPONSE_RADIO_STATE_CHANGED: the framework asks getRadioState.
Notify(t) ==
    /\ At(t, "notify")
    /\ known' = sState
    /\ Continue(t, << >>)
    /\ UNCHANGED <<sState, prepared, queueVars, simVars, modemVars, boundVars>>

Then(event) == <<Step("enqueue", event)>>

\* Defect: onSIMReady is not repeated when the radio becomes ready again.
EventsOnFirstReady == Then("storage") \o (IF enabled THEN << >> ELSE Then("simReady"))

EventsOnReady == Then("storage") \o Then("simReady")

FollowUp(t) ==
    \/ Branch(t, "ready?", IF sState = "SIM_READY" THEN EventsOnReady ELSE Do("notReady?"))
    \/ sState # "SIM_NOT_READY" /\ Branch(t, "notReady?", << >>)
    \/ /\ At(t, "notReady?")
       /\ sState = "SIM_NOT_READY"
       /\ Continue(t, << >>)
       /\ Enqueue("normal", "poll")

\* enqueueRILEvent(RIL_EVENT_QUEUE_PRIO, ...)
EnqueueEvent(t) ==
    /\ At(t, "enqueue")
    /\ Continue(t, << >>)
    /\ Enqueue(PrioQueue, Arg(t))

-----------------------------------------------------------------------------
(***************************************************************************)
(* pollSIMState and getSIMStatus.                                          *)
(***************************************************************************)
\* Defect: the poll ends when the SIM is not ready yet.
AfterPollGivesUp(status) ==
    CASE status = "SIM_NOT_READY" -> << >>
      [] status = "SIM_READY"     -> setRadioState("SIM_READY") \o Then("report")
      [] OTHER                    -> setRadioState("SIM_LOCKED_OR_ABSENT") \o Then("report")

AfterPoll(status) ==
    CASE status = "SIM_NOT_READY" -> Do("pollLater")
      [] status = "SIM_READY"     -> setRadioState("SIM_READY") \o Then("report")
      [] status = "SIM_ABSENT"    -> setRadioState("SIM_LOCKED_OR_ABSENT") \o Then("noReport")
      [] OTHER                    -> setRadioState("SIM_LOCKED_OR_ABSENT") \o Then("report")

\* Defect: the SIM is not asked while the radio waits for it.
MayAskWhenSettled == sState \in {"SIM_LOCKED_OR_ABSENT", "SIM_READY"}

MayAsk == sState \notin {"OFF", "UNAVAILABLE"}

\* With param NULL the poll is "no longer valid" unless the first or the second
\* read finds a state it is for; with param 1 it begins with getSIMStatus.
PollSIMState(t) ==
    \/ Branch(t, "poll", IF sState = "SIM_NOT_READY" THEN Do("getSIMStatus") ELSE Do("locked2?"))
    \/ Branch(t, "locked2?", IF sState = "SIM_LOCKED_OR_ABSENT" THEN Do("getSIMStatus")
                             ELSE << >>)
    \/ Branch(t, "getSIMStatus", IF s_simRemoved THEN AfterPoll("SIM_ABSENT")
                                 ELSE IF MayAsk THEN Do("AT+CPIN?")
                                 ELSE AfterPoll("SIM_NOT_READY"))
    \/ Branch(t, "AT+CPIN?", AfterPoll(IF open[t] THEN sim ELSE "SIM_NOT_READY"))

PollLater(t) ==
    /\ At(t, "pollLater")
    /\ Continue(t, << >>)
    /\ EnqueueLater("poll")
    /\ UNCHANGED <<radioVars, eventList, closed, open, simVars, modemVars, boundVars>>

-----------------------------------------------------------------------------
(***************************************************************************)
(* The other events, and RIL_REQUEST_RADIO_POWER.                          *)
(***************************************************************************)
\* setPollSIMState: nobody looks at the result of its command.
SetPollSIMState(t, on) ==
    /\ At(t, IF on THEN "report" ELSE "noReport")
    /\ enabled' = on
    /\ esimsr' = IF enabled = on \/ ~open[t] THEN esimsr ELSE on
    /\ Continue(t, << >>)
    /\ UNCHANGED <<radioVars, queueVars, sim_hotswap, s_simRemoved, s_simResetting, down, sim,
                   urcs, boundVars>>

\* A command fails on a dead channel, or because the modem refuses it.
Fails(t) ==
    /\ failures' = IF open[t] THEN failures + 1 ELSE failures
    /\ failures' <= scenario.maxFailures
    /\ UNCHANGED <<scenario, simChanges, powers, deaths>>

\* checkMessageStorageReady
CheckStorage(t) ==
    \/ (sState # "SIM_READY" \/ open[t]) /\ Branch(t, "storage", << >>)
    \/ /\ At(t, "storage")
       /\ sState = "SIM_READY"
       /\ Fails(t)
       /\ Continue(t, << >>)
       /\ EnqueueLater("storage")
       /\ UNCHANGED <<radioVars, eventList, closed, open, simVars, modemVars>>

\* onSIMReady begins with checkMessageStorageReady; nobody looks at the results of
\* its commands.
OnSIMReady(t) ==
    /\ At(t, "simReady")
    /\ prepared' = TRUE
    /\ Continue(t, Do("storage"))
    /\ UNCHANGED <<sState, known, queueVars, simVars, modemVars, boundVars>>

\* "shutdown" is "off" with the property sys.shutdown.requested set.
Powered(request) == [on |-> "SIM_NOT_READY", off |-> "OFF", shutdown |-> "UNAVAILABLE"][request]

\* requestRadioPower: "on" is for the state OFF and "off" for all others.
RequestRadioPower(t) ==
    \/ Branch(t, "power", IF (sState = "OFF") = (Arg(t) = "on") THEN <<Step("AT+CFUN", Arg(t))>>
                          ELSE << >>)
    \/ open[t] /\ Branch(t, "AT+CFUN", setRadioState(Powered(Arg(t))))
    \/ /\ At(t, "AT+CFUN")
       /\ Fails(t)
       /\ Continue(t, << >>)
       /\ UNCHANGED <<radioVars, queueVars, simVars, modemVars>>

-----------------------------------------------------------------------------
(***************************************************************************)
(* The channel: initializeCommon and, on the normal queue,                 *)
(* initializeChannel; onATReaderClosed.                                    *)
(***************************************************************************)
InitializeCommon(q) ==
    /\ At(q, "common")
    /\ sim_hotswap' = FALSE
    /\ Continue(q, Do("clear"))
    /\ UNCHANGED <<radioVars, queueVars, s_simRemoved, s_simResetting, enabled, modemVars,
                   boundVars>>

\* A command of initializeCommon failed, or q->closed = 0.
ClearClosed(q) ==
    /\ At(q, "clear")
    /\ closed' = [closed EXCEPT ![q] = ~open[q]]
    /\ Continue(q, IF q # "normal" \/ ~open[q] THEN << >>
                   ELSE Do("resetHotswap") \o setRadioState("OFF") \o Do("AT+CFUN?"))
    /\ UNCHANGED <<radioVars, eventList, delayed, open, simVars, modemVars, boundVars>>

ResetHotswap(q) ==
    /\ At(q, "resetHotswap")
    /\ s_simRemoved' = FALSE
    /\ Continue(q, << >>)
    /\ UNCHANGED <<radioVars, queueVars, sim_hotswap, s_simResetting, enabled, modemVars,
                   boundVars>>

\* "Assume radio is off on error."
IsRadioOn(q) ==
    \/ Branch(q, "AT+CFUN?", << >>)
    \/ open[q] /\ Branch(q, "AT+CFUN?", setRadioState("SIM_NOT_READY"))

\* The state survives a hot swap.
CloseRadio ==
    Branch("reader", "closeRadio", IF sim_hotswap THEN << >> ELSE setRadioState("UNAVAILABLE"))

SignalCloseQueues ==
    /\ At("reader", "closeQueues")
    /\ closed' = [q \in Runners |-> TRUE]
    /\ Continue("reader", << >>)
    /\ UNCHANGED <<radioVars, eventList, delayed, open, simVars, modemVars, boundVars>>

-----------------------------------------------------------------------------
(***************************************************************************)
(* What starts a handler.                                                  *)
(***************************************************************************)
OpenChannel(q) ==
    /\ closed[q]
    /\ ~down
    /\ Start(q, Do("common"))
    /\ open' = [open EXCEPT ![q] = TRUE]
    /\ UNCHANGED <<radioVars, eventList, delayed, closed, simVars, modemVars, boundVars>>

\* "pollAnyway" is pollSIMState with param 1.
Handler(event) == IF event = "pollAnyway" THEN Do("getSIMStatus") ELSE Do(event)

RunEvent(q) ==
    /\ ~closed[q]
    /\ eventList[q] # << >>
    /\ Start(q, Handler(Head(eventList[q])))
    /\ eventList' = [eventList EXCEPT ![q] = Tail(@)]
    /\ UNCHANGED <<radioVars, delayed, closed, open, simVars, modemVars, boundVars>>

RunDelayed(e) ==
    /\ ~closed[PrioQueue]
    /\ delayed[e] > 0
    /\ Start(PrioQueue, Handler(e))
    /\ delayed' = [delayed EXCEPT ![e] = @ - 1]
    /\ UNCHANGED <<radioVars, eventList, closed, open, simVars, modemVars, boundVars>>

\* processRequest refuses it while the radio is UNAVAILABLE.
RadioPower ==
    /\ ~closed["normal"]
    /\ powers < scenario.maxPowers
    /\ powers' = powers + 1
    /\ sState # "UNAVAILABLE"
    /\ \E onOff \in {"on", "off", "shutdown"} : Start("normal", <<Step("power", onOff)>>)
    /\ UNCHANGED <<radioVars, queueVars, simVars, modemVars, scenario, simChanges, deaths,
                   failures>>

Locked == setRadioState("SIM_LOCKED_OR_ABSENT")
NotReadyFirst == setRadioState("SIM_NOT_READY")

\* onSimStateChanged, onSimHotswap, and the lines that poll the SIM.
UrcHandler(line) ==
    CASE line = "removed"  -> NotReadyFirst \o Locked \o Then("noReport")
      [] line = "inserted" -> Then("report")
      [] line = "pinEvent" -> Then("pollAnyway")
      [] line = "pacsp"    -> setRadioState("SIM_READY")
      [] s_simRemoved      -> << >>
      [] line \in {"poweredOff", "blocked"} -> Locked
      [] s_simResetting    -> NotReadyFirst \o
                              (IF line = "active" THEN setRadioState("SIM_READY") ELSE Locked)
      [] OTHER             -> << >>

\* s_simResetting after an *ESIMSR line: "used to coordinate state changes during
\* sim resetting".
Resetting(line) ==
    \/ line = "poweredOff"
    \/ (s_simResetting /\ line \notin {"waitsForPin", "active"})

onUnsolicited ==
    /\ ~down
    /\ urcs # << >>
    /\ urcs' = Tail(urcs)
    /\ IF sState = "UNAVAILABLE"
       THEN Idle("reader") /\ UNCHANGED <<todo, s_simRemoved, sim_hotswap, s_simResetting>>
       ELSE LET line == Head(urcs)
            IN  /\ Start("reader", UrcHandler(line))
                /\ s_simRemoved' = (line = "removed" \/ (s_simRemoved /\ line # "inserted"))
                /\ sim_hotswap' = (sim_hotswap \/ line = "inserted")
                /\ s_simResetting' = IF s_simRemoved THEN s_simResetting ELSE Resetting(line)
    /\ UNCHANGED <<radioVars, queueVars, enabled, down, sim, esimsr, boundVars>>

-----------------------------------------------------------------------------
(***************************************************************************)
(* The modem.                                                              *)
(***************************************************************************)
Report(line) == IF esimsr THEN <<line>> ELSE << >>

\* A SIM becomes ready, or asks for its PIN, some time after it is powered.
SimStarts ==
    /\ ~down
    /\ sim = "SIM_NOT_READY"
    /\ \/ sim' = "SIM_PIN" /\ urcs' = urcs \o Report("waitsForPin")
       \/ sim' = "SIM_READY" /\ urcs' \in {urcs \o Report("active"),
                                           urcs \o Report("active") \o <<"pacsp">>}
    /\ UNCHANGED <<todo, radioVars, queueVars, simVars, down, esimsr, boundVars>>

\* The PIN is entered (or the data connection reports) or blocked, the SIM is reset, removed or inserted.
SimChange(from, to, lines) == sim \in from /\ sim' = to /\ urcs' = urcs \o lines

SimChanges ==
    /\ ~down
    /\ simChanges < scenario.maxSimChanges
    /\ simChanges' = simChanges + 1
    /\ \/ SimChange({"SIM_PIN", "SIM_READY"}, "SIM_READY", <<"pinEvent">>)
       \/ SimChange({"SIM_PIN"}, "SIM_PIN", Report("blocked"))
       \/ SimChange({"SIM_PIN", "SIM_READY"}, "SIM_NOT_READY", Report("poweredOff"))
       \/ SimChange(SimStates \ {"SIM_ABSENT"}, "SIM_ABSENT", <<"removed">>)
       \/ SimChange({"SIM_ABSENT"}, "SIM_NOT_READY", <<"inserted">>)
    /\ UNCHANGED <<todo, radioVars, queueVars, simVars, down, esimsr, scenario, powers,
                   deaths, failures>>

\* The modem restarts: the reader thread runs onATReaderClosed.
ModemRestarts ==
    /\ ~down
    /\ deaths < scenario.maxDeaths
    /\ deaths' = deaths + 1
    /\ ~closed["normal"]
    /\ Start("reader", Do("closeRadio") \o Do("closeQueues"))
    /\ down' = TRUE
    /\ open' = [q \in Runners |-> FALSE]
    /\ esimsr' = FALSE
    /\ urcs' = << >>
    /\ UNCHANGED <<radioVars, eventList, delayed, closed, simVars, sim, scenario, simChanges,
                   powers, failures>>

ModemReturns ==
    /\ down
    /\ Idle("reader")
    /\ down' = FALSE
    /\ sim' = IF sim = "SIM_ABSENT" THEN sim ELSE "SIM_NOT_READY"
    /\ UNCHANGED <<todo, radioVars, queueVars, simVars, esimsr, urcs, boundVars>>

-----------------------------------------------------------------------------
SetRadioState(t) == SetState(t) \/ TestState(t) \/ Notify(t) \/ FollowUp(t) \/ EnqueueEvent(t)

RunnerStep(q) ==
    \/ SetRadioState(q) \/ PollSIMState(q) \/ PollLater(q)
    \/ SetPollSIMState(q, TRUE) \/ SetPollSIMState(q, FALSE)
    \/ CheckStorage(q) \/ OnSIMReady(q) \/ RequestRadioPower(q)
    \/ InitializeCommon(q) \/ ClearClosed(q) \/ ResetHotswap(q) \/ IsRadioOn(q)
    \/ OpenChannel(q) \/ RunEvent(q)

ReaderStep == SetRadioState("reader") \/ CloseRadio \/ SignalCloseQueues \/ onUnsolicited

\* Nothing is left to do and no bound allows more: the model stops here.
Quiescent ==
    /\ \A t \in Threads : Idle(t)
    /\ \A q \in Runners : ~closed[q] /\ eventList[q] = << >>
    /\ ~down /\ urcs = << >> /\ sim # "SIM_NOT_READY"
    /\ UNCHANGED vars

Next ==
    \/ \E q \in Runners : RunnerStep(q)
    \/ \E e \in {"poll", "storage"} : RunDelayed(e)
    \/ RadioPower
    \/ ReaderStep
    \/ SimStarts \/ SimChanges \/ ModemRestarts \/ ModemReturns
    \/ Quiescent

Spec == Init /\ [][Next]_vars

\* The scheduler runs every thread, an event whose delay is over is not passed over
\* for ever, a SIM does not stay between power-up and its first answer, and a
\* modem that restarts comes back.
Fairness ==
    /\ \A q \in Runners : WF_vars(RunnerStep(q))
    /\ SF_vars(RunDelayed("poll")) /\ SF_vars(RunDelayed("storage"))
    /\ WF_vars(ReaderStep)
    /\ WF_vars(SimStarts) /\ WF_vars(ModemReturns)

LiveSpec == Spec /\ Fairness

-----------------------------------------------------------------------------
(***************************************************************************)
(* Properties.                                                             *)
(***************************************************************************)
Events == {"poll", "pollAnyway", "storage", "simReady", "report", "noReport"}
Operations == Events \cup {"set", "changed?", "locked?", "notify", "ready?", "notReady?",
                           "enqueue", "locked2?", "getSIMStatus", "AT+CPIN?", "pollLater",
                           "power", "AT+CFUN", "common", "clear", "resetHotswap", "AT+CFUN?",
                           "closeRadio", "closeQueues"}
Lines == {"pinEvent", "pacsp", "removed", "inserted", "poweredOff", "waitsForPin", "active",
          "blocked"}

TypeOK ==
    /\ sState \in RadioStates
    /\ todo \in [Threads -> Seq([op : Operations,
                                 arg : RadioStates \cup Events \cup {"", "on", "off", "shutdown"}])]
    /\ eventList \in [Runners -> Seq(Events)]
    /\ delayed \in [{"poll", "storage"} -> 0 .. MaxRepolls]
    /\ {closed, open} \subseteq [Runners -> BOOLEAN]
    /\ {down, sim_hotswap, s_simRemoved, s_simResetting, enabled, prepared, esimsr}
         \subseteq BOOLEAN
    /\ known \in RadioStates
    /\ sim \in SimStates
    /\ urcs \in Seq(Lines)
    /\ {simChanges, powers, deaths, failures} \subseteq Nat

\* A thread that changed the state has yet to test it, or found it changed and
\* has yet to do what op stands for.
Announcing(op) ==
    \E t \in Threads :
        \/ At(t, op)
        \/ At(t, "notify")
        \/ At(t, "changed?") /\ Arg(t) # sState

\* The framework knows the radio state, or will be told: however the writers of
\* sState overlap, and although they test it outside the mutex, the last change
\* is announced.
FrameworkInformed == known # sState => Announcing("notify")

\* This event or step is somewhere ahead.
Ahead(ops) ==
    \/ \E q \in Runners : \E i \in 1 .. Len(eventList[q]) : eventList[q][i] \in ops
    \/ \E t \in Threads : \E i \in 1 .. Len(todo[t]) :
          todo[t][i].op \in ops \/ (todo[t][i].op = "enqueue" /\ todo[t][i].arg \in ops)

\* A radio that waits for its SIM is always about to poll it, whatever was
\* removed, reset or restarted meanwhile: no chain of polls ends while the state
\* is SIM_NOT_READY.
NotReadyIsPolled ==
    sState = "SIM_NOT_READY" =>
        \/ Ahead({"poll", "pollAnyway", "getSIMStatus", "AT+CPIN?", "pollLater"})
        \/ delayed["poll"] > 0
        \/ Announcing("ready?") \/ Announcing("notReady?")
        \/ \E t \in Threads : At(t, "set") /\ Arg(t) # "SIM_NOT_READY"

\* Types, and a poll for a radio that waits.
RadioInv == TypeOK /\ NotReadyIsPolled

\* Whenever the radio has become ready the SIM-dependent settings are made, or
\* are about to be: no entry into SIM_READY goes without onSIMReady.
ReadyIsPrepared ==
    sState = "SIM_READY" => prepared \/ Ahead({"simReady"}) \/ Announcing("ready?")

\* Nothing is on its way.
Settled ==
    /\ \A t \in Threads : Idle(t)
    /\ \A q \in Runners : ~closed[q] /\ eventList[q] = << >>
    /\ delayed["poll"] = 0
    /\ ~down /\ urcs = << >>

\* "SIM ready means any commands that access the SIM will work": when nothing is
\* on its way any more, a radio that is SIM_READY has its SIM.
ReadyMeansSimPresent == Settled /\ sState = "SIM_READY" => sim # "SIM_ABSENT"

\* The radio does not stay SIM_NOT_READY: the SIM answers in the end.
SimSettles == sState = "SIM_NOT_READY" ~> sState # "SIM_NOT_READY"
=============================================================================
