------------------------------- MODULE Network -------------------------------
(***************************************************************************)
(* Network registration and the screen state (mbm-ril/u300-ril-network.c,  *)
(* and the screen state of u300-ril.c).                                    *)
(*                                                                         *)
(* While the screen is on, the modem reports every change of registration  *)
(* and the requests of the framework are answered from what the reader     *)
(* threads cached.  While it is off, a request subscribes, asks the modem, *)
(* and unsubscribes.  s_screen_state_mutex keeps the two regimes apart; it *)
(* is held across AT commands, by the normal runner (requests) and by the  *)
(* prio runner (onSIMReady).  Nothing guards the cache itself.             *)
(*                                                                         *)
(* The daemon has a prio queue (-x).  Each channel has subscriptions of    *)
(* its own and a reader thread that handles its reports in order.  A       *)
(* command is one step: it is answered when the reader thread of its       *)
(* channel has handled everything the modem sent before the answer.        *)
(* LAC and CID are one value, the cell; the technology, the neighbouring   *)
(* cells and the network time only pass through and are left out.          *)
(***************************************************************************)
EXTENDS Integers, Sequences, FiniteSets

CONSTANTS
    Scenarios,      \* bounds: what framework, modem and network do in one behaviour
    MaxLoops,       \* REPOLL_OPERATOR_SELECTED
    MaxLines        \* bound: the modem does nothing while a channel has so many reports

Domains == {"cs", "ps"}
Runners == {"normal", "prio"}
Channels == Runners
Cells == {1, 2}
NoCell == 0
Stats == {"none", "searching", "home", "denied", "unknown"}
Regs == [stat : Stats, cell : Cells \cup {NoCell}]
RequestKinds == {"cs", "ps", "operator", "screenOn", "screenOff", "automatic", "manual",
                 "strength"}
ChangeKinds == {"sim", "registration", "cell", "capability", "signal", "data", "traffic"}
Asked == {"cs", "ps", "operator"}

ASSUME ConstantAssumption ==
    /\ Scenarios \subseteq
         [requests : SUBSET RequestKinds, changes : SUBSET ChangeKinds,
          maxRequests : Nat, maxChanges : Nat, maxFaults : Nat,
          booted : BOOLEAN]     \* from the start, or after the first onSIMReady
    /\ MaxLoops \in Nat /\ MaxLines \in Nat

VARIABLES
    s_screenState,
    lock,               \* s_screen_state_mutex: the runner that holds it, or "free"
    s_reg,              \* s_creg_stat/lac/cid and s_cgreg_stat/lac/cid
    s_reg_change,
    old_response,       \* the operator that requestOperator buffers
    s_status,           \* s_cs_status, s_ps_status
    old_resp,           \* the restriction that the framework was told
    s_registrationDeniedReason,
    s_cops_mode,
    rssi_queue,
    s_umts_rinfo, old_umts_rinfo,
    asked_umts_rinfo,   \* old_umts_rinfo of getNetworkType
    fd,                 \* fast dormancy: dormant, old_rx_packets, chains of polls
    pc, req,            \* per runner: where it is, and its locals
    events,             \* enqueued: onSIMReady and pollSignalStrength, both PRIO
    selection,          \* pollOperatorSelected: its queue and its loopcount
    lines,              \* per channel: reports not handled yet
    readerPc,           \* per channel: where its reader thread is in a handler
    radio,              \* SIM_READY, or no SIM
    modem,
    fw,                 \* ghost: what the framework was told, and may rely on
    scenario, requests, changes, faults

cacheVars == <<s_reg, s_reg_change, old_response>>
statusVars == <<s_status, old_resp>>
rinfoVars == <<s_umts_rinfo, old_umts_rinfo, asked_umts_rinfo>>
screenVars == <<s_screenState, lock>>
selectVars == <<selection, s_cops_mode, s_registrationDeniedReason>>
signalVars == <<rssi_queue, events>>
runnerVars == <<pc, req>>
readerVars == <<lines, readerPc>>
boundVars == <<scenario, requests, changes, faults>>
vars == <<cacheVars, statusVars, rinfoVars, screenVars, selectVars, signalVars, fd, runnerVars,
          readerVars, radio, modem, fw, boundVars>>

-----------------------------------------------------------------------------
(***************************************************************************)
(* The modem.                                                              *)
(***************************************************************************)
Home(r) == r.stat = "home"

Other(d) == IF d = "cs" THEN "ps" ELSE "cs"

\* +COPS?: there is an operator while one domain is registered.
Operator ==
    IF \E d \in Domains : Home(modem.reg[d]) THEN modem.cell ELSE NoCell

\* *E2REG: the status of a domain follows its registration.
StatusOf(stat) ==
    CASE stat = "home" -> "registered"
      [] stat = "searching" -> "in progress"
      [] stat = "denied" -> "illegal ME"
      [] OTHER -> "unknown"

StatusReport(reg) == [d \in Domains |-> StatusOf(reg[d].stat)]

Init ==
    /\ s_screenState = 1 /\ lock = "free"
    /\ s_reg = [d \in Domains |-> [stat |-> "unknown", cell |-> NoCell]]
    /\ s_reg_change = 0 /\ old_response = NoCell
    /\ s_status = [d \in Domains |-> "unknown"] /\ old_resp = {"unset"}
    /\ s_registrationDeniedReason = "default" /\ s_cops_mode = "unknown"
    /\ rssi_queue = 0
    /\ s_umts_rinfo = 0 /\ old_umts_rinfo = -1 /\ asked_umts_rinfo = -1
    /\ fd = [dormant |-> FALSE, old_rx |-> 0, chains |-> 0]
    /\ pc = [r \in Runners |-> "idle"]
    /\ req = [r \in Runners |-> [kind |-> "none", reg |-> s_reg["cs"], screen |-> 1]]
    /\ events = [sim |-> 0, signal |-> 0]
    /\ selection = [queue |-> "none", loops |-> 0]
    /\ lines = [c \in Channels |-> << >>] /\ readerPc = [c \in Channels |-> "idle"]
    /\ scenario \in Scenarios
    /\ radio = IF scenario.booted THEN "SIM_READY" ELSE "SIM_ABSENT"
    /\ modem = [reg |-> [d \in Domains |-> [stat |-> "none", cell |-> NoCell]], cell |-> 1,
                sub |-> [c \in Channels |->
                            IF scenario.booted /\ c = "prio"
                            THEN {"e2reg", "cs", "ps", "signal"} ELSE {}],
                umts |-> 0, level |-> 1, mode |-> "automatic",
                connected |-> FALSE, rx |-> 0]
    /\ fw = [reg |-> s_reg, operator |-> NoCell, stale |-> Asked, fresh |-> {}, told |-> {},
             level |-> 1, unsure |-> {}]
    /\ requests = 0 /\ changes = 0 /\ faults = 0

Change(kind) ==
    /\ kind \in scenario.changes
    /\ changes < scenario.maxChanges
    /\ \A c \in Channels : Len(lines[c]) < MaxLines
    /\ changes' = changes + 1
    /\ UNCHANGED <<cacheVars, statusVars, rinfoVars, screenVars, selectVars, rssi_queue,
                   runnerVars, readerPc, scenario, requests, faults>>

Report(kind, val) == [kind |-> kind, val |-> val]

\* What channel c has to handle after one more report: those it subscribed to.
Adds(c, line, queue) == IF line.kind \in modem.sub[c] THEN Append(queue, line) ELSE queue

Subscribed(kind) == \E c \in Channels : kind \in modem.sub[c]

\* Registration changes, or what is cached of it, and nobody is told.
Unreported == [fw EXCEPT !.told = {}, !.unsure = @ \cup {"operator"}]

\* fresh: the domains whose registration was reported when it last changed, and
\* whose cache only reports wrote since.
RegistrationBecomes(reg, changed) ==
    /\ fw' = [(IF \A d \in changed : Subscribed(d) THEN fw ELSE Unreported)
                 EXCEPT !.fresh = (@ \ changed) \cup {d \in changed : Subscribed(d)}]
    /\ \E first \in Domains :
          LET Tells(c, d, queue) ==
                  IF d \in changed THEN Adds(c, Report(d, reg[d]), queue) ELSE queue
          IN  lines' = [c \in Channels |->
                           Adds(c, Report("e2reg", StatusReport(reg)),
                                Tells(c, Other(first), Tells(c, first, lines[c])))]

RegistrationChanges ==
    /\ Change("registration")
    /\ radio = "SIM_READY"
    /\ \E d \in Domains, stat \in {"searching", "home", "denied"} :
          LET reg == [modem.reg EXCEPT
                         ![d] = [stat |-> stat,
                                 cell |-> IF stat = "home" THEN modem.cell ELSE NoCell]]
          IN  /\ reg # modem.reg
              /\ modem' = [modem EXCEPT !.reg = reg]
              /\ RegistrationBecomes(reg, {d})
    /\ UNCHANGED <<events, fd, radio>>

CellChanges ==
    /\ Change("cell")
    /\ LET cell == 3 - modem.cell
           homes == {d \in Domains : Home(modem.reg[d])}
           reg == [d \in Domains |-> IF d \in homes THEN [modem.reg[d] EXCEPT !.cell = cell]
                                     ELSE modem.reg[d]]
       IN  /\ homes # {}
           /\ modem' = [modem EXCEPT !.reg = reg, !.cell = cell]
           /\ RegistrationBecomes(reg, homes)
    /\ UNCHANGED <<events, fd, radio>>

\* A SIM that is ready (RadioState has the steps) enqueues onSIMReady.
SimChanges ==
    /\ Change("sim")
    /\ IF radio = "SIM_ABSENT"
       THEN /\ radio' = "SIM_READY"
            /\ events' = [events EXCEPT !.sim = @ + 1]
            /\ UNCHANGED <<modem, fw, lines>>
       ELSE LET reg == [d \in Domains |-> [stat |-> "none", cell |-> NoCell]]
            IN  /\ radio' = "SIM_ABSENT"
                /\ modem' = [modem EXCEPT !.reg = reg]
                /\ RegistrationBecomes(reg, {d \in Domains : modem.reg[d] # reg[d]})
                /\ UNCHANGED events
    /\ UNCHANGED fd

CapabilityChanges ==
    /\ Change("capability")
    /\ modem' = [modem EXCEPT !.umts = 1 - @]
    /\ lines' = [c \in Channels |-> Append(lines[c], Report("erinfo", 1 - modem.umts))]
    /\ UNCHANGED <<events, fd, radio, fw>>

SignalChanges ==
    /\ Change("signal")
    /\ modem' = [modem EXCEPT !.level = @ + 1]
    /\ lines' = [c \in Channels |-> Adds(c, Report("signal", 0), lines[c])]
    /\ fw' = [fw EXCEPT !.unsure = IF Subscribed("signal") THEN @ \ {"level"}
                                    ELSE @ \cup {"level"}]
    /\ UNCHANGED <<events, fd, radio>>

\* A connection starts or ends (PdpContext has the steps): startPollFastDormancy.
startPollFastDormancy ==
    /\ Change("data")
    /\ pc["normal"] = "idle"
    /\ modem' = [modem EXCEPT !.connected = ~@]
    /\ fd' = IF modem.connected THEN fd ELSE [fd EXCEPT !.old_rx = modem.rx, !.chains = @ + 1]
    /\ UNCHANGED <<events, radio, lines, fw>>

PacketReceived ==
    /\ Change("traffic")
    /\ modem.connected
    /\ modem' = [modem EXCEPT !.rx = @ + 1]
    /\ UNCHANGED <<events, radio, lines, fw, fd>>

ModemStep ==
    \/ RegistrationChanges \/ CellChanges \/ SimChanges \/ CapabilityChanges \/ SignalChanges
    \/ startPollFastDormancy \/ PacketReceived

-----------------------------------------------------------------------------
(***************************************************************************)
(* onUnsolicited, on the reader thread of channel c.                       *)
(***************************************************************************)
\* The framework asks for registration and operator again when it is told.
\* RIL_UNSOL_RESPONSE_VOICE_NETWORK_STATE_CHANGED
NetworkStateChanged == [fw EXCEPT !.stale = Asked]

\* told: the fresh domains of whose cached registration the framework was told.
TellsOf(d, reg) ==
    [NetworkStateChanged EXCEPT
        !.told = IF d \in fw.fresh /\ s_reg[d] = reg THEN @ \cup {d} ELSE @,
        !.unsure = @ \ {"operator"}]

\* A cell that is no news may be that of a domain the framework was not told of.
TellsNothingOf(d, reg) ==
    IF /\ s_reg[d].cell # reg.cell /\ s_reg[Other(d)].cell = reg.cell
       /\ Other(d) \notin fw.told
    THEN [fw EXCEPT !.told = @ \ {d}, !.unsure = @ \cup {"operator"}] ELSE fw

Handles(c, at, kinds) ==
    /\ readerPc[c] = at
    /\ lines[c] # << >>
    /\ Head(lines[c]).kind \in kinds
    /\ UNCHANGED <<selectVars, asked_umts_rinfo, fd, screenVars, runnerVars, radio, modem,
                   boundVars>>

Proceeds(c, to) ==
    /\ readerPc' = [readerPc EXCEPT ![c] = to]
    /\ lines' = IF to = "idle" THEN [lines EXCEPT ![c] = Tail(@)] ELSE lines

\* Defect: the cell is not compared with that of the other domain but with its
\* own again.
UpdatesWithoutCell(d, reg) == s_reg[d].stat # reg.stat

\* "LAC and CID will be the same in both domains": a new cell that the other
\* domain has already is no update.
Updates(d, reg) ==
    \/ s_reg[d].stat # reg.stat
    \/ s_reg[d].cell # reg.cell /\ s_reg[Other(d)].cell # reg.cell

onRegistrationStatusChanged(c) ==
    \/ /\ Handles(c, "idle", Domains)
       /\ LET d == Head(lines[c]).kind
              reg == Head(lines[c]).val
          IN  /\ s_reg' = [s_reg EXCEPT ![d] = reg]
              /\ Proceeds(c, IF Updates(d, reg) THEN "inform" ELSE "idle")
              /\ fw' = IF Updates(d, reg) THEN fw ELSE TellsNothingOf(d, reg)
       /\ UNCHANGED <<s_reg_change, old_response, statusVars, s_umts_rinfo, old_umts_rinfo,
                      signalVars>>
    \/ /\ Handles(c, "inform", Domains)
       /\ s_reg_change' = 1
       /\ fw' = TellsOf(Head(lines[c]).kind, Head(lines[c]).val)
       /\ Proceeds(c, "idle")
       /\ UNCHANGED <<s_reg, old_response, statusVars, s_umts_rinfo, old_umts_rinfo, signalVars>>

\* "s_gsm_rinfo = s_umts_rinfo = 0" before the report is parsed; no need to
\* update when the screen is off.
onNetworkCapabilityChanged(c) ==
    /\ \/ /\ Handles(c, "idle", {"erinfo"})
          /\ s_umts_rinfo' = 0
          /\ Proceeds(c, "parse")
          /\ UNCHANGED <<old_umts_rinfo, fw>>
       \/ /\ Handles(c, "parse", {"erinfo"})
          /\ s_umts_rinfo' = Head(lines[c]).val
          /\ old_umts_rinfo' = Head(lines[c]).val
          /\ fw' = IF old_umts_rinfo # Head(lines[c]).val /\ s_screenState = 1
                   THEN NetworkStateChanged ELSE fw
          /\ Proceeds(c, "idle")
    /\ UNCHANGED <<cacheVars, statusVars, signalVars>>

Restricted(status) == {d \in Domains : status[d] = "illegal ME"}
Registered(status) == \E d \in Domains : status[d] = "registered"

\* Both statuses are unknown while the report is parsed.  A registered modem
\* has its signal polled, or with the screen off the framework informed.
onNetworkStatusChanged(c) ==
    \/ /\ Handles(c, "idle", {"e2reg"})
       /\ s_status' = [d \in Domains |-> "unknown"]
       /\ Proceeds(c, "parse")
       /\ UNCHANGED <<cacheVars, old_resp, s_umts_rinfo, old_umts_rinfo, signalVars, fw>>
    \/ /\ Handles(c, "parse", {"e2reg"})
       /\ LET status == Head(lines[c]).val
          IN  /\ s_status' = status
              /\ old_resp' = Restricted(status)
              /\ events' = IF Registered(status) /\ s_screenState = 1
                           THEN [events EXCEPT !.signal = @ + 1] ELSE events
              /\ fw' = IF Registered(status) /\ s_screenState = 0
                       THEN NetworkStateChanged ELSE fw
       /\ Proceeds(c, "idle")
       /\ UNCHANGED <<cacheVars, s_umts_rinfo, old_umts_rinfo, rssi_queue>>

\* rssi_queue is tested in one step and raised in another.
onSignalStrengthChanged(c) ==
    /\ \/ /\ Handles(c, "idle", {"signal"})
          /\ Proceeds(c, IF rssi_queue = 0 THEN "raise" ELSE "idle")
          /\ UNCHANGED signalVars
       \/ /\ Handles(c, "raise", {"signal"})
          /\ rssi_queue' = rssi_queue + 1
          /\ events' = [events EXCEPT !.signal = @ + 1]
          /\ Proceeds(c, "idle")
    /\ UNCHANGED <<cacheVars, statusVars, s_umts_rinfo, old_umts_rinfo, fw>>

ReaderStep(c) ==
    \/ onRegistrationStatusChanged(c) \/ onNetworkCapabilityChanged(c)
    \/ onNetworkStatusChanged(c) \/ onSignalStrengthChanged(c)

-----------------------------------------------------------------------------
(***************************************************************************)
(* The runners.                                                            *)
(***************************************************************************)
At(r, label) == pc[r] = label
Goto(r, label) == pc' = [pc EXCEPT ![r] = label]

\* What a step of runner r does to its own place only.
Runs(r) == UNCHANGED <<fd, readerVars, radio, scenario, requests, changes>>

Idle(r) == At(r, "idle")

\* A command is answered, or refused.
Answered(r) == lines[r] = << >> /\ UNCHANGED faults
Refused == faults < scenario.maxFaults /\ faults' = faults + 1

\* The modem learns of a subscription, whose answer nobody looks at.
Subscribe(r, kinds, on) ==
    \/ /\ Answered(r)
       /\ modem' = [modem EXCEPT !.sub[r] = IF on THEN @ \cup kinds ELSE @ \ kinds]
       /\ UNCHANGED fw
    \/ /\ Refused
       /\ fw' = [fw EXCEPT !.unsure = @ \cup kinds]
       /\ UNCHANGED modem

Request(kind, label) ==
    LET r == IF kind = "strength" THEN "prio" ELSE "normal"
    IN  /\ kind \in scenario.requests
        /\ requests < scenario.maxRequests
        /\ Idle(r)
        /\ requests' = requests + 1
        /\ req' = [req EXCEPT ![r].kind = kind]
        /\ Goto(r, label)
        /\ fw' = [fw EXCEPT !.stale = @ \ {kind}]
        /\ UNCHANGED <<cacheVars, statusVars, rinfoVars, screenVars, selectVars, signalVars, fd,
                       readerVars, radio, modem, scenario, changes, faults>>

\* getScreenStateLock and releaseScreenStateLock.
getScreenStateLock(r) == lock = "free" /\ lock' = r
releaseScreenStateLock == lock' = "free"

-----------------------------------------------------------------------------
(***************************************************************************)
(* requestRegistrationState and requestGprsRegistrationState, of one       *)
(* domain, on the normal runner.                                           *)
(***************************************************************************)
RegistrationUnchanged ==
    UNCHANGED <<old_response, statusVars, s_umts_rinfo, old_umts_rinfo, signalVars, selection,
                s_cops_mode>>

\* With the screen on the answer is cached: "we only allow polling if
\* screenstate is off".
RequestLocks(d) ==
    /\ At("normal", "lock")
    /\ getScreenStateLock("normal")
    /\ IF s_screenState = 1
       THEN Goto("normal", "answer") /\ req' = [req EXCEPT !["normal"].reg = s_reg[d]]
       ELSE Goto("normal", "subscribe") /\ UNCHANGED req
    /\ RegistrationUnchanged /\ Runs("normal")
    /\ UNCHANGED <<s_screenState, s_reg, s_reg_change, asked_umts_rinfo,
                   s_registrationDeniedReason, modem, fw, faults>>

RequestSubscribes(d) ==
    /\ At("normal", "subscribe")
    /\ Subscribe("normal", {d}, TRUE)
    /\ Goto("normal", "query")
    /\ RegistrationUnchanged /\ Runs("normal")
    /\ UNCHANGED <<screenVars, s_reg, s_reg_change, asked_umts_rinfo,
                   s_registrationDeniedReason, req>>

\* A request that fails leaves the framework where it was.
Fails(d) == [fw EXCEPT !.stale = @ \cup {d}]

\* AT+CREG? or AT+CGREG?.  Without a SIM the answer is all zeros; a refusal
\* fails the request, which then still unsubscribes and unlocks.
RequestQueries(d) ==
    /\ At("normal", "query")
    /\ \/ /\ Answered("normal")
          /\ LET reg == IF radio = "SIM_READY" THEN modem.reg[d]
                        ELSE [stat |-> "none", cell |-> NoCell]
             IN  /\ req' = [req EXCEPT !["normal"].reg = reg]
                 /\ Goto("normal", CASE radio # "SIM_READY" -> "answer"
                                     [] radio = "SIM_READY" /\ reg.stat = "denied"
                                           -> "reason"
                                     [] OTHER -> "write")
          /\ s_registrationDeniedReason' =
                 IF d = "cs" /\ radio = "SIM_READY" THEN "default" ELSE s_registrationDeniedReason
          /\ UNCHANGED fw
       \/ /\ Refused
          /\ Goto("normal", "end")
          /\ fw' = Fails(d)
          /\ UNCHANGED <<req, s_registrationDeniedReason>>
    /\ RegistrationUnchanged /\ Runs("normal")
    /\ UNCHANGED <<screenVars, s_reg, s_reg_change, asked_umts_rinfo, modem>>

\* AT*E2REG?: why a domain is denied; only the CS one is kept.
RequestAsksReason(d) ==
    /\ At("normal", "reason")
    /\ \/ /\ Answered("normal")
          /\ s_registrationDeniedReason' =
                 IF d = "cs" THEN StatusReport(modem.reg)[d] ELSE s_registrationDeniedReason
          /\ Goto("normal", "write")
          /\ UNCHANGED fw
       \/ /\ Refused
          /\ Goto("normal", "end")
          /\ fw' = Fails(d)
          /\ UNCHANGED s_registrationDeniedReason
    /\ RegistrationUnchanged /\ Runs("normal")
    /\ UNCHANGED <<screenVars, s_reg, s_reg_change, asked_umts_rinfo, modem, req>>

\* A request writes the cache of domain d, and nobody is told.
Overwritten(d, other) == IF other THEN [Unreported EXCEPT !.fresh = @ \ {d}] ELSE fw

\* The cache takes the answer, whatever a reader thread wrote in the meantime.
RequestWrites(d) ==
    /\ At("normal", "write")
    /\ s_reg' = [s_reg EXCEPT ![d] = req["normal"].reg]
    /\ s_reg_change' = IF s_reg[d] # req["normal"].reg THEN 1 ELSE s_reg_change
    /\ fw' = Overwritten(d, s_reg[d] # req["normal"].reg)
    /\ Goto("normal", "answer")
    /\ RegistrationUnchanged /\ Runs("normal")
    /\ UNCHANGED <<screenVars, asked_umts_rinfo, s_registrationDeniedReason, modem, req, faults>>

\* getNetworkType: AT+CGEQNEG once per capability, and only while connected; it
\* is not asked again if that fails.
getNetworkType(reg) ==
    IF Home(reg) /\ s_umts_rinfo > 0 /\ modem.connected /\ asked_umts_rinfo # s_umts_rinfo
    THEN asked_umts_rinfo' = s_umts_rinfo /\ (Answered("normal") \/ Refused)
    ELSE UNCHANGED <<asked_umts_rinfo, faults>>

RequestAnswers(d) ==
    /\ At("normal", "answer")
    /\ getNetworkType(req["normal"].reg)
    /\ fw' = [fw EXCEPT !.reg[d] = req["normal"].reg]
    /\ Goto("normal", "end")
    /\ RegistrationUnchanged /\ Runs("normal")
    /\ UNCHANGED <<screenVars, s_reg, s_reg_change, s_registrationDeniedReason, modem, req>>

\* Defect: the subscription ends with every request.
EndsAlways == TRUE

\* "if (!getScreenState())"
EndsSubscription == s_screenState = 0

\* "finally:"
RequestEnds(d) ==
    /\ At("normal", "end")
    /\ IF EndsSubscription THEN Subscribe("normal", {d}, FALSE) ELSE UNCHANGED <<modem, fw, faults>>
    /\ Goto("normal", "unlock")
    /\ RegistrationUnchanged /\ Runs("normal")
    /\ UNCHANGED <<screenVars, s_reg, s_reg_change, asked_umts_rinfo,
                   s_registrationDeniedReason, req>>

\* Defect: the lock is not released.
KeepLock == UNCHANGED lock

Release == releaseScreenStateLock

Unlock(r) ==
    /\ At(r, "unlock")
    /\ Release
    /\ Goto(r, "idle")
    /\ RegistrationUnchanged /\ Runs(r)
    /\ UNCHANGED <<s_screenState, s_reg, s_reg_change, asked_umts_rinfo,
                   s_registrationDeniedReason, modem, req, fw, faults>>

RegistrationStep ==
    \E d \in Domains \cap {req["normal"].kind} :
        \/ RequestLocks(d) \/ RequestSubscribes(d) \/ RequestQueries(d) \/ RequestAsksReason(d)
        \/ RequestWrites(d) \/ RequestAnswers(d) \/ RequestEnds(d)

-----------------------------------------------------------------------------
(***************************************************************************)
(* The screen state: requestScreenState on the normal runner, onSIMReady   *)
(* on the prio one, and setScreenState on both.                            *)
(***************************************************************************)
ScreenUnchanged ==
    UNCHANGED <<cacheVars, statusVars, rinfoVars, selectVars>>

\* "No point of enabling unsolicited if radio is off or SIM is locked": success,
\* and the new state is forgotten.
requestScreenState ==
    /\ At("normal", "screen")
    /\ getScreenStateLock("normal")
    /\ IF radio = "SIM_READY"
       THEN /\ s_screenState' = IF req["normal"].kind = "screenOn" THEN 1 ELSE 0
            /\ req' = [req EXCEPT !["normal"].screen = s_screenState']
            /\ Goto("normal", "set cs")
       ELSE Goto("normal", "unlock") /\ UNCHANGED <<s_screenState, req>>
    /\ ScreenUnchanged /\ Runs("normal")
    /\ UNCHANGED <<signalVars, modem, fw, faults>>

\* "AT*E2REG=1", then "Make sure currect screenstate is set".
onSIMReady ==
    /\ \/ /\ Idle("prio") /\ events.sim > 0
          /\ events' = [events EXCEPT !.sim = @ - 1]
          /\ Goto("prio", "e2reg")
          /\ UNCHANGED <<lock, req, modem, fw, faults>>
       \/ /\ At("prio", "e2reg")
          /\ Subscribe("prio", {"e2reg"}, TRUE)
          /\ Goto("prio", "sim lock")
          /\ UNCHANGED <<lock, req, events>>
       \/ /\ At("prio", "sim lock")
          /\ getScreenStateLock("prio")
          /\ req' = [req EXCEPT !["prio"].screen = s_screenState]
          /\ Goto("prio", "set cs")
          /\ UNCHANGED <<events, modem, fw, faults>>
    /\ ScreenUnchanged /\ Runs("prio")
    /\ UNCHANGED <<s_screenState, rssi_queue>>

\* AT+CREG, AT+CGREG, and AT+CMER, which turns the signal reports on after the
\* signal was polled.
setScreenState(r) ==
    LET on == req[r].screen = 1
        Sets(from, kinds, to) == At(r, from) /\ Subscribe(r, kinds, on) /\ Goto(r, to)
    IN  /\ \/ Sets("set cs", {"cs"}, "set ps")
           \/ Sets("set ps", {"ps"}, IF on THEN "set poll" ELSE "set signal")
           \/ Sets("set signal", {"signal"}, "unlock")
        /\ ScreenUnchanged /\ Runs(r)
        /\ UNCHANGED <<screenVars, signalVars, req>>

\* Defect: rssi_queue is reset at the end of a poll.
RssiAtEnd(step) == IF step = "end" THEN 0 ELSE rssi_queue

\* pollSignalStrength resets rssi_queue before it asks, not after it.
RssiAt(step) == IF step = "start" THEN 0 ELSE rssi_queue

Strength(level) == [fw EXCEPT !.level = level, !.unsure = @ \ {"level"}]

\* getSignalStrength: AT+CSQ, or AT+CIND? if that fails or does not know.
getSignalStrength(r) ==
    \/ Answered(r) /\ fw' = Strength(modem.level)
    \/ Refused /\ fw' = [fw EXCEPT !.unsure = @ \cup {"level"}]

\* As an event of the prio queue, and called by setScreenState.
pollSignalStrength(r) ==
    /\ \/ /\ r = "prio" /\ Idle(r) /\ events.signal > 0
          /\ events' = [events EXCEPT !.signal = @ - 1]
          /\ rssi_queue' = RssiAt("start")
          /\ Goto(r, "csq")
          /\ UNCHANGED <<fw, faults>>
       \/ /\ At(r, "set poll")
          /\ rssi_queue' = RssiAt("start")
          /\ Goto(r, "set csq")
          /\ UNCHANGED <<events, fw, faults>>
       \/ /\ pc[r] \in {"csq", "set csq"}
          /\ getSignalStrength(r)
          /\ Goto(r, IF pc[r] = "csq" THEN "told" ELSE "set told")
          /\ UNCHANGED signalVars
       \/ /\ pc[r] \in {"told", "set told"}
          /\ rssi_queue' = RssiAt("end")
          /\ Goto(r, IF pc[r] = "told" THEN "idle" ELSE "set signal")
          /\ UNCHANGED <<events, fw, faults>>
    /\ ScreenUnchanged /\ Runs(r)
    /\ UNCHANGED <<screenVars, modem, req>>

requestSignalStrength ==
    /\ At("prio", "strength")
    /\ \/ Answered("prio") /\ fw' = Strength(modem.level)
       \/ Refused /\ UNCHANGED fw
    /\ Goto("prio", "idle")
    /\ ScreenUnchanged /\ Runs("prio")
    /\ UNCHANGED <<screenVars, signalVars, modem, req>>

-----------------------------------------------------------------------------
(***************************************************************************)
(* The operator and its selection.                                         *)
(***************************************************************************)
OperatorUnchanged == UNCHANGED <<statusVars, rinfoVars, screenVars, signalVars, req>>

\* "s_reg_change = 0" comes before AT+COPS?, not after it.
RegChangeAt(step) == IF step = "start" THEN 0 ELSE s_reg_change

\* The buffered operator is answered while "no change in state".
requestOperator ==
    /\ \/ /\ At("normal", "operator")
          /\ LET registered == \E d \in Domains : Home(s_reg[d])
                 buffered == s_reg_change = 0 /\ old_response # NoCell
             IN  IF registered /\ ~buffered
                 THEN /\ s_reg_change' = RegChangeAt("start")
                      /\ Goto("normal", "cops")
                      /\ UNCHANGED fw
                 ELSE /\ fw' = [fw EXCEPT !.operator = IF registered THEN old_response ELSE NoCell]
                      /\ Goto("normal", "idle")
                      /\ UNCHANGED s_reg_change
          /\ UNCHANGED <<old_response, faults>>
       \/ /\ At("normal", "cops")
          /\ \/ /\ Answered("normal")
                /\ old_response' = IF radio = "SIM_READY" THEN Operator ELSE old_response
                /\ fw' = [fw EXCEPT !.operator = Operator]
             \/ /\ Refused
                /\ fw' = [fw EXCEPT !.unsure = @ \cup {"operator"}]
                /\ UNCHANGED old_response
          /\ Goto("normal", "cops read")
          /\ UNCHANGED s_reg_change
       \/ /\ At("normal", "cops read")
          /\ s_reg_change' = RegChangeAt("end")
          /\ Goto("normal", "idle")
          /\ UNCHANGED <<old_response, fw, faults>>
    /\ OperatorUnchanged /\ Runs("normal")
    /\ UNCHANGED <<s_reg, selectVars, modem>>

\* A command of the selection: answered, it goes on as given and the mode becomes
\* known; refused, the request fails.
Asks(from, to, mode) ==
    /\ At("normal", from)
    /\ \/ Answered("normal") /\ Goto("normal", to) /\ s_cops_mode' = mode
       \/ Refused /\ Goto("normal", "idle") /\ UNCHANGED s_cops_mode

Succeeds == UNCHANGED faults

\* requestSetNetworkSelectionAutomatic.  In automatic mode and without operator
\* the modem is left to scan, unless one of its domains has stopped.
SelectionAsksMode ==
    /\ Asks("automatic", IF modem.mode = "automatic" /\ Operator = NoCell THEN "scan cs"
                         ELSE "cops=0", modem.mode)
    /\ UNCHANGED <<s_reg, modem, selection, fw>>

\* AT+CREG? and AT+CGREG?; what they say is written to the cache, though the
\* screen may be on, and nobody is told.
SelectionAsksRegistration ==
    \/ \E d \in Domains :
          /\ Asks(IF d = "cs" THEN "scan cs" ELSE "scan ps",
                  IF d = "cs" THEN "scanned cs" ELSE "scanned ps", s_cops_mode)
          /\ req' = [req EXCEPT !["normal"].reg = modem.reg[d]]
          /\ UNCHANGED <<s_reg, fw>>
    \/ \E d \in Domains :
          /\ At("normal", IF d = "cs" THEN "scanned cs" ELSE "scanned ps")
          /\ s_reg' = [s_reg EXCEPT ![d].stat = req["normal"].reg.stat]
          /\ fw' = Overwritten(d, s_reg[d].stat # req["normal"].reg.stat)
          /\ Goto("normal", CASE req["normal"].reg.stat = "none" -> "cops=0"
                              [] req["normal"].reg.stat # "none" /\ d = "cs" -> "scan ps"
                              [] OTHER -> "enqueue")
          /\ UNCHANGED <<req, s_cops_mode, faults>>

SelectionRestarts ==
    /\ Asks("cops=0", "enqueue", "automatic")
    /\ modem' = IF Succeeds THEN [modem EXCEPT !.mode = "automatic"] ELSE modem
    /\ UNCHANGED <<s_reg, selection, fw>>

SelectionEnqueues ==
    /\ At("normal", "enqueue")
    /\ selection' = [queue |-> "normal", loops |-> 0]
    /\ Goto("normal", "idle")
    /\ UNCHANGED <<s_reg, modem, s_cops_mode, fw, faults>>

requestSetNetworkSelectionAutomatic ==
    /\ \/ (SelectionAsksMode \/ SelectionRestarts \/ SelectionEnqueues) /\ UNCHANGED req
       \/ SelectionAsksRegistration /\ UNCHANGED <<modem, selection>>
    /\ Runs("normal")
    /\ UNCHANGED <<s_reg_change, old_response, statusVars, rinfoVars, screenVars, signalVars,
                   s_registrationDeniedReason>>

\* AT+COPS=1.
requestSetNetworkSelectionManual ==
    /\ Asks("manual", "idle", "manual")
    /\ modem' = IF Succeeds THEN [modem EXCEPT !.mode = "manual"] ELSE modem
    /\ OperatorUnchanged /\ Runs("normal")
    /\ UNCHANGED <<cacheVars, selection, s_registrationDeniedReason, fw>>

CountsEvery == selection.loops + 1

Repoll == selection' = [queue |-> "prio", loops |-> CountsEvery]
SelectionDone == selection' = [queue |-> "none", loops |-> 0]

InProgress(status) == status \in {"unknown", "in progress"}

\* pollOperatorSelected: first on the normal queue, then on the prio one.  It asks
\* the modem unless both domains are in progress.
pollOperatorSelected(r) ==
    /\ \/ /\ Idle(r) /\ selection.queue = r
          /\ CASE selection.loops >= MaxLoops -> SelectionDone /\ UNCHANGED pc
               [] selection.loops < MaxLoops /\ \A d \in Domains : InProgress(s_status[d])
                     -> Repoll /\ UNCHANGED pc
               [] OTHER -> Goto(r, "cops?") /\ UNCHANGED selection
          /\ UNCHANGED faults
       \/ /\ At(r, "cops?")
          /\ \/ /\ Answered(r)
                /\ IF \/ Operator # NoCell
                      \/ s_registrationDeniedReason = "illegal ME"
                   THEN SelectionDone ELSE Repoll
             \/ Refused /\ SelectionDone
          /\ Goto(r, "idle")
    /\ OperatorUnchanged /\ Runs(r)
    /\ UNCHANGED <<cacheVars, s_cops_mode, s_registrationDeniedReason, modem, fw>>

-----------------------------------------------------------------------------
(***************************************************************************)
(* Fast dormancy.                                                          *)
(***************************************************************************)
\* Defect: a poll that finds the connection lost is enqueued again.
NeverEnds == TRUE

StillConnected == modem.connected

\* The conditions of a poll; otherwise it is enqueued for later, slowly.
MayBeDormant ==
    /\ Registered(s_status)
    /\ \E d \in Domains : Home(s_reg[d])
    /\ s_umts_rinfo > 0

\* One poll; only AT*EFDORM takes more than a step.  A chain of polls ends with
\* the connection, with a refusal or when ifc_statistics does not find the
\* interface (counted like a refusal), otherwise it is enqueued again.  The
\* transmitted packets are not looked at, and dormant outlives a connection.
pollFastDormancy ==
    /\ \/ /\ Idle("normal") /\ fd.chains > 0
          /\ LET silent == fd.old_rx = modem.rx
             IN  CASE ~StillConnected -> fd' = [fd EXCEPT !.chains = @ - 1] /\ UNCHANGED pc
                   [] StillConnected /\ MayBeDormant /\ silent /\ ~fd.dormant
                         -> Goto("normal", "efdorm") /\ UNCHANGED fd
                   [] StillConnected /\ MayBeDormant /\ ~silent
                         -> /\ fd' = [fd EXCEPT !.dormant = FALSE, !.old_rx = modem.rx]
                            /\ UNCHANGED pc
                   [] OTHER -> UNCHANGED <<fd, pc>>
          /\ UNCHANGED faults
       \/ /\ Idle("normal") /\ fd.chains > 0 /\ StillConnected /\ MayBeDormant
          /\ Refused
          /\ fd' = [fd EXCEPT !.chains = @ - 1]
          /\ UNCHANGED pc
       \/ /\ At("normal", "efdorm")
          /\ \/ Answered("normal") /\ fd' = [fd EXCEPT !.dormant = TRUE]
             \/ Refused /\ fd' = [fd EXCEPT !.chains = @ - 1]
          /\ Goto("normal", "idle")
    /\ UNCHANGED <<cacheVars, statusVars, rinfoVars, screenVars, selectVars, signalVars, req,
                   readerVars, radio, modem, fw, scenario, requests, changes>>

-----------------------------------------------------------------------------
FrameworkStep ==
    \/ \E d \in Domains : Request(d, "lock")
    \/ \E kind \in {"operator", "manual", "strength"} : Request(kind, kind)
    \/ \E kind \in {"screenOn", "screenOff"} : Request(kind, "screen")
    \/ Request("automatic", "automatic") /\ selection.queue = "none"

RunnerStep(r) ==
    \/ r = "normal" /\ (RegistrationStep \/ requestScreenState \/ requestOperator
                          \/ requestSetNetworkSelectionAutomatic
                          \/ requestSetNetworkSelectionManual \/ pollFastDormancy)
    \/ r = "prio" /\ (onSIMReady \/ requestSignalStrength)
    \/ setScreenState(r) \/ pollSignalStrength(r) \/ Unlock(r) \/ pollOperatorSelected(r)

\* Framework and modem may do nothing more.
Quiescent ==
    /\ \A r \in Runners : Idle(r)
    /\ UNCHANGED vars

Next ==
    \/ FrameworkStep \/ ModemStep
    \/ \E r \in Runners : RunnerStep(r)
    \/ \E c \in Channels : ReaderStep(c)
    \/ Quiescent

Spec == Init /\ [][Next]_vars

\* Runners and reader threads are scheduled; the mutex is not fair, but who asks
\* for it has no rival that does so again and again.
LiveSpec ==
    /\ Spec
    /\ \A r \in Runners : WF_vars(RunnerStep(r))
    /\ \A c \in Channels : WF_vars(ReaderStep(c))

-----------------------------------------------------------------------------
(***************************************************************************)
(* Properties.                                                             *)
(***************************************************************************)
RequestLabels ==
    {"lock", "subscribe", "query", "reason", "write", "answer", "end", "scan cs", "scan ps",
     "scanned cs", "scanned ps", "set cs", "set ps", "screen", "set poll", "set csq", "set told",
     "set signal", "unlock", "operator", "cops", "cops read", "automatic", "cops=0", "enqueue",
     "manual", "efdorm", "cops?", "csq", "told", "e2reg", "sim lock", "strength", "idle"}

Locked ==
    {"subscribe", "query", "reason", "write", "answer", "end", "set cs", "set ps", "set poll",
     "set csq", "set told", "set signal", "unlock"}

TypeOK ==
    /\ s_screenState \in {0, 1} /\ lock \in Runners \cup {"free"}
    /\ s_reg \in [Domains -> Regs] /\ s_reg_change \in {0, 1}
    /\ old_response \in Cells \cup {NoCell}
    /\ s_status \in [Domains -> {"unknown", "in progress", "registered", "illegal ME"}]
    /\ old_resp \subseteq Domains \cup {"unset"}
    /\ s_registrationDeniedReason \in {"default", "illegal ME", "in progress", "registered", "unknown"}
    /\ s_cops_mode \in {"unknown", "automatic", "manual"}
    /\ rssi_queue \in 0..Cardinality(Channels)
    /\ s_umts_rinfo \in {0, 1} /\ {old_umts_rinfo, asked_umts_rinfo} \subseteq {-1, 0, 1}
    /\ pc \in [Runners -> RequestLabels]
    /\ selection \in [queue : Runners \cup {"none"}, loops : 0..MaxLoops]
    /\ events \in [sim : Nat, signal : Nat]
    /\ readerPc \in [Channels -> {"idle", "inform", "parse", "raise"}]
    /\ fd.chains \in Nat

\* A runner is in a critical section if and only if it has the lock.
LockDiscipline == \A r \in Runners : lock = r <=> pc[r] \in Locked

\* Once onSIMReady has run, and unless a subscription was refused, the modem
\* reports registration on some channel whenever the screen is on: whatever
\* requests of the screen and of registration came in between, and on which of
\* the two runners.
ReportsWhileOn ==
    /\ lock = "free" /\ s_screenState = 1
    /\ "e2reg" \in modem.sub["prio"] /\ pc["prio"] # "sim lock"
    => \A d \in Domains \ fw.unsure : Subscribed(d)

NetworkInv == TypeOK /\ LockDiscipline /\ ReportsWhileOn

\* Nothing is on its way.
Quiet ==
    /\ \A r \in Runners : Idle(r)
    /\ \A c \in Channels : lines[c] = << >>
    /\ events.sim = 0 /\ events.signal = 0

\* When everything is quiet, what is cached of a domain is the modem's registration,
\* unless its last change was not reported or a request wrote the cache since.  And
\* the framework, once told of the domain, knows the cached registration or was told
\* to ask again.  A cell is known in one of the domains: a new cell that the other
\* domain has already is no news.
FrameworkSeesRegistration ==
    Quiet =>
        /\ \A d \in fw.fresh : s_reg[d] = modem.reg[d]
        /\ \A d \in fw.told \ fw.stale : fw.reg[d].stat = s_reg[d].stat
        /\ Domains \cap fw.stale = {} =>
              \A d \in fw.told : Home(s_reg[d]) =>
                  \E e \in Domains : fw.reg[e].cell = s_reg[d].cell

\* Nor does the buffered operator outlive the registration it was read in, unless,
\* since the framework was last told, reading it failed or a request wrote the cache.
FrameworkSeesOperator ==
    /\ Quiet
    /\ \A d \in Domains : Home(modem.reg[d]) \/ Home(s_reg[d]) => d \in fw.told
    => "operator" \in fw.stale \cup fw.unsure \/ fw.operator = Operator

\* A change of signal strength is never lost: the poll that a report asks for
\* starts after it, however many polls, requests and reader threads there are.
FrameworkSeesSignal == Quiet => "level" \in fw.unsure \/ fw.level = modem.level

FrameworkSeesNews == FrameworkSeesOperator /\ FrameworkSeesSignal

\* Every request returns, and every automatic selection is answered, although the
\* lock of the screen state is held across commands ("this can dead lock?!?!?").
RequestsReturn ==
    /\ \A r \in Runners : []<>Idle(r)
    /\ []<>(selection.queue = "none")

\* However connections came and went, no poll for fast dormancy outlives the
\* last of them.
DormancyEnds == []<>(modem.connected \/ fd.chains = 0)
=============================================================================
