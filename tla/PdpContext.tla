------------------------------ MODULE PdpContext ------------------------------
(***************************************************************************)
(* The packet data connection (mbm-ril/u300-ril-pdp.c, net-utils.c).       *)
(*                                                                         *)
(* The runner of the normal queue sets the connection up and tears it      *)
(* down: it sends AT*ENAP and polls s_e2napState, which a reader thread    *)
(* writes when the modem sends *E2NAP.  The reader thread also brings the  *)
(* interface down and enqueues a report for the framework, unless          *)
(* s_DeactCalled says that the framework asked for the disconnection.      *)
(* Reader and runner share s_e2napState, s_e2napCause, s_lastPdpFailCause, *)
(* s_DeactCalled and the socket of net-utils.c.  The only mutex is around  *)
(* the writing of the first two by a reader; everybody reads them without. *)
(*                                                                         *)
(* With a prio queue both channels subscribe to *E2NAP, so that two reader *)
(* threads handle every report, and the prio runner reports to the         *)
(* framework while the normal one serves a request.                        *)
(*                                                                         *)
(* A command is one step: it is answered when its reader thread has        *)
(* handled everything the modem sent before the answer.                    *)
(***************************************************************************)
EXTENDS Integers, Sequences, FiniteSets

CONSTANTS
    Profiles,       \* data profiles of the framework, 0 is the default one
    MaxRequests,    \* bound: requests, for a daemon without and with a prio queue
    MaxFaults       \* bound: kinds of faults, each once, likewise

\* The network ends the connection; the modem refuses a command, or sends a
\* report that cannot be parsed; the channels are lost; socket() fails.
FaultKinds == {"drop", "refusal", "garbled", "loss", "socket"}

ASSUME ConstantAssumption ==
    /\ 0 \in Profiles /\ Profiles \subseteq Nat
    /\ MaxRequests \in [BOOLEAN -> Nat]
    /\ MaxFaults \in [BOOLEAN -> Nat]

AllChannels == {"normal", "prio"}
Threads == AllChannels \cup {"runner"}
Cids == {prof + 1 : prof \in Profiles}
NoCid == -1
E2napStates == {"UNKNOWN", "DISCONNECTED", "CONNECTED", "CONNECTING"}
Causes == {"UNKNOWN", "rejected", "other"}
FailCauses == {"NONE", "UNSPECIFIED", "REJECTED"}

\* What the framework was told: no connection, or that something failed after
\* which it cannot know.
None == 0
Unsure == -2

VARIABLES
    prio,           \* -x was given
    dual,           \* reports have a second part, for a context nobody uses
    s_e2napState, s_e2napCause, s_lastPdpFailCause, s_DeactCalled, s_ActiveCID,
    e2napCause,     \* per thread: the local of mbm_check_error_cause
    status,         \* response.status of the setup
    ifc_ctl_sock,   \* the socket is open
    iface,          \* the interface: down, up, or up with its address
    pc,             \* the normal runner: where it is in a request
    req,            \* the request: its kind and its cid
    seen,           \* per runner: its local e2napState
    prioPc,         \* the prio runner
    events,         \* onPDPContextListChanged events enqueued
    readerPc,       \* per channel: where its reader thread is in the handler
    lines,          \* per channel: reports not handled yet
    chan,           \* per channel: it works
    radio,          \* sState
    net,            \* the modem: the connection
    told,           \* ghost: the cid the framework takes for active
    overtaken,      \* ghost: another thread came between the last setup and its news
    wasUp,          \* ghost: a CONNECTED was there during the last setup
    rejected,       \* ghost: a rejection was, that its AT*ENAP=1 has not cleared
    requests, faults

rilVars == <<s_e2napState, s_e2napCause, s_lastPdpFailCause, s_DeactCalled, s_ActiveCID,
             e2napCause, status>>
ifcVars == <<ifc_ctl_sock, iface>>
runnerVars == <<pc, req, seen, prioPc, events>>
readerVars == <<readerPc, lines>>
modemVars == <<chan, radio, net>>
ghostVars == <<told, overtaken, wasUp, rejected>>
boundVars == <<prio, dual, requests, faults>>
vars == <<rilVars, ifcVars, runnerVars, readerVars, modemVars, ghostVars, boundVars>>

Channels == IF prio THEN AllChannels ELSE {"normal"}

NoRequest == [kind |-> "none", cid |-> NoCid]

Init ==
    /\ prio \in BOOLEAN /\ dual \in BOOLEAN
    /\ s_e2napState = "UNKNOWN" /\ s_e2napCause = "UNKNOWN"
    /\ s_lastPdpFailCause = "UNSPECIFIED"
    /\ s_DeactCalled = FALSE /\ s_ActiveCID = NoCid
    /\ e2napCause = [t \in Threads |-> "UNKNOWN"] /\ status = "NONE"
    /\ ifc_ctl_sock = FALSE /\ iface = "down"
    /\ pc = "idle" /\ req = NoRequest /\ prioPc = "idle" /\ events = 0
    /\ seen = [c \in AllChannels |-> "UNKNOWN"]
    /\ readerPc = [c \in AllChannels |-> "idle"]
    /\ lines = [c \in AllChannels |-> << >>]
    /\ chan = [c \in AllChannels |-> TRUE]
    /\ radio = "AVAILABLE" /\ net = "down"
    /\ told = None /\ overtaken = FALSE /\ wasUp = FALSE /\ rejected = FALSE
    /\ requests = 0 /\ faults = {}

Fault(kind) ==
    /\ kind \notin faults
    /\ Cardinality(faults) < MaxFaults[prio]
    /\ faults' = faults \cup {kind}

\* ifc_down; without the socket it fails.
TakeDown == iface' = IF ifc_ctl_sock THEN "down" ELSE iface

\* A command on channel c is answered, after everything sent before.
Answered(c) == chan[c] /\ lines[c] = << >> /\ readerPc[c] = "idle"

\* It fails: on a dead channel, or the modem refuses it.
Fails(c) ==
    \/ ~chan[c] /\ UNCHANGED faults
    \/ Answered(c) /\ Fault("refusal")

-----------------------------------------------------------------------------
(***************************************************************************)
(* The modem and the network.                                              *)
(***************************************************************************)
Report(state, cause) ==
    lines' = [c \in AllChannels |->
                 IF c \in Channels /\ chan[c]
                 THEN Append(lines[c], [state |-> state, cause |-> cause])
                 ELSE lines[c]]

NetworkConnects ==
    /\ net = "connecting"
    /\ net' = "up"
    /\ Report("CONNECTED", "UNKNOWN")
    /\ UNCHANGED <<rilVars, ifcVars, runnerVars, readerPc, chan, radio, ghostVars, boundVars>>

NetworkRejects ==
    /\ net = "connecting"
    /\ net' = "down"
    /\ \E cause \in Causes : Report("DISCONNECTED", cause)
    /\ UNCHANGED <<rilVars, ifcVars, runnerVars, readerPc, chan, radio, ghostVars, boundVars>>

NetworkDrops ==
    /\ net = "up"
    /\ Fault("drop")
    /\ net' = "down"
    /\ \E cause \in Causes : Report("DISCONNECTED", cause)
    /\ UNCHANGED <<rilVars, ifcVars, runnerVars, readerPc, chan, radio, ghostVars, prio, dual,
                   requests>>

Garbled ==
    /\ Fault("garbled")
    /\ Report("invalid", "UNKNOWN")
    /\ UNCHANGED <<rilVars, ifcVars, runnerVars, readerPc, modemVars, ghostVars, prio, dual,
                   requests>>

\* The channels are lost; ChannelRecovery has the steps.  The modem may keep the
\* connection.
ChannelsLost ==
    /\ radio = "AVAILABLE"
    /\ Fault("loss")
    /\ chan' = [c \in AllChannels |-> FALSE]
    /\ lines' = [c \in AllChannels |->
                    IF readerPc[c] = "written" THEN <<Head(lines[c])>> ELSE << >>]
    /\ radio' = "UNAVAILABLE"
    /\ net' \in {net, "down"}
    /\ told' = None
    /\ UNCHANGED <<rilVars, ifcVars, runnerVars, readerPc, overtaken, wasUp, rejected, prio,
                   dual, requests>>

-----------------------------------------------------------------------------
(***************************************************************************)
(* onConnectionStateChanged, on the reader thread of channel c.            *)
(***************************************************************************)
\* mbm_check_error_cause.
FailCauseOf(state, cause, last) ==
    IF state = "CONNECTED" THEN "NONE"
    ELSE CASE cause = "UNKNOWN" -> "UNSPECIFIED"
           [] cause = "rejected" -> "REJECTED"
           [] cause = "other" -> last

\* mbm_check_error_cause reads the cause first, and then the state.
ReadCause(t) == e2napCause' = [e2napCause EXCEPT ![t] = s_e2napCause]

SetFailCause(t) ==
    /\ s_lastPdpFailCause' = FailCauseOf(s_e2napState, e2napCause[t], s_lastPdpFailCause)
    /\ e2napCause' = [e2napCause EXCEPT ![t] = "UNKNOWN"]

\* Defect: a part that is disconnected makes the whole report a disconnection.
ReportedStateOfEither(line) == IF dual THEN "DISCONNECTED" ELSE line.state

\* "m_state == CONNECTED ... else if m_state2 == CONNECTED": the second part is
\* that of a context that is down.
ReportedState(line) == line.state

\* Defect: the cause is only written when there is one.
ReportedCauseIfAny(line) == IF line.state = "DISCONNECTED" THEN line.cause ELSE s_e2napCause

\* The cause is that of the part that is disconnected; a report of two parts
\* leaves it alone while connecting.
ReportedCause(line) ==
    CASE line.state = "DISCONNECTED" -> line.cause
      [] line.state = "CONNECTED" -> IF dual THEN "other" ELSE "UNKNOWN"
      [] OTHER -> IF dual THEN s_e2napCause ELSE "UNKNOWN"

ValidState(line) == line.state \in E2napStates

BringsDown(state) == state = "DISCONNECTED"

ReaderGoto(c, label) == readerPc' = [readerPc EXCEPT ![c] = label]

WriteState(line) == s_e2napState' = ReportedState(line) /\ UNCHANGED s_e2napCause
WriteCause(line) == s_e2napCause' = ReportedCause(line) /\ UNCHANGED s_e2napState

\* A rejection is on record until the report of the AT*ENAP=1 of a setup overwrites
\* it: a report without a second part, before the setup makes up its answer, and
\* with no other reader that may still write the old one.
Answering == {"judge", "status", "restore", "waitRestored", "failed"}
Rejects(line) == line.state = "DISCONNECTED" /\ line.cause = "rejected"
Overwritten(line) == line.state = "CONNECTING" /\ ~dual /\ ~prio /\ pc \notin Answering

NoteReport(line, overwritten) ==
    /\ wasUp' = (wasUp \/ s_e2napState' = "CONNECTED")
    /\ rejected' = (Rejects(line) \/ (rejected /\ ~overwritten))

\* onUnsolicited ignores everything while the radio is unavailable.  With the
\* mutex the state and the cause are written, in this order unless the report
\* has two parts.
TakeReport(c) ==
    /\ readerPc[c] = "idle"
    /\ lines[c] # << >>
    /\ LET line == Head(lines[c])
       IN  IF radio = "AVAILABLE" /\ ValidState(line)
           THEN /\ \A d \in AllChannels : readerPc[d] # "written"
                /\ IF dual THEN WriteCause(line) ELSE WriteState(line)
                /\ NoteReport(line, FALSE)
                /\ ReaderGoto(c, "written")
                /\ UNCHANGED lines
           ELSE /\ lines' = [lines EXCEPT ![c] = Tail(@)]
                /\ UNCHANGED <<s_e2napState, s_e2napCause, wasUp, rejected, readerPc>>
    /\ UNCHANGED <<s_lastPdpFailCause, s_DeactCalled, s_ActiveCID, e2napCause, status, ifcVars,
                   runnerVars, modemVars, told, overtaken, boundVars>>

FinishReport(c) ==
    /\ readerPc[c] = "written"
    /\ lines' = [lines EXCEPT ![c] = Tail(@)]
    /\ LET line == Head(lines[c])
       IN  /\ IF dual THEN WriteState(line) ELSE WriteCause(line)
           /\ NoteReport(line, Overwritten(line))
           /\ ReaderGoto(c, IF BringsDown(line.state) THEN "lookDown" ELSE "look")
    /\ UNCHANGED <<s_lastPdpFailCause, s_DeactCalled, s_ActiveCID, e2napCause, status, ifcVars,
                   runnerVars, modemVars, told, overtaken, boundVars>>

ReaderChecksCause(c) ==
    /\ \/ /\ readerPc[c] \in {"look", "lookDown"}
          /\ ReadCause(c)
          /\ ReaderGoto(c, IF readerPc[c] = "look" THEN "check" ELSE "checkDown")
          /\ UNCHANGED s_lastPdpFailCause
       \/ /\ readerPc[c] \in {"check", "checkDown"}
          /\ SetFailCause(c)
          /\ ReaderGoto(c, IF readerPc[c] = "check" THEN "reset" ELSE "ifcInit")
    /\ UNCHANGED <<s_e2napState, s_e2napCause, s_DeactCalled, s_ActiveCID, status, ifcVars,
                   runnerVars, lines, modemVars, ghostVars, boundVars>>

\* ifc_init: a socket that is open is kept.
OpenSocket == ifc_ctl_sock' = TRUE /\ UNCHANGED faults
SocketFails == ~ifc_ctl_sock /\ Fault("socket") /\ UNCHANGED ifc_ctl_sock

\* "Bring down the interface as well": ifc_init, and if that succeeds ifc_down
\* and ifc_close.
ReaderIfc(c) ==
    /\ \/ /\ readerPc[c] = "ifcInit"
          /\ \/ OpenSocket /\ ReaderGoto(c, "ifcDown")
             \/ SocketFails /\ ReaderGoto(c, "test")
          /\ UNCHANGED iface
       \/ /\ readerPc[c] = "ifcDown"
          /\ TakeDown
          /\ ReaderGoto(c, "ifcClose")
          /\ UNCHANGED <<ifc_ctl_sock, faults>>
       \/ /\ readerPc[c] = "ifcClose"
          /\ ifc_ctl_sock' = FALSE
          /\ ReaderGoto(c, "test")
          /\ UNCHANGED <<iface, faults>>
    /\ UNCHANGED <<rilVars, runnerVars, lines, modemVars, ghostVars, prio, dual, requests>>

\* A disconnection the framework did not ask for is reported to it.
ReaderReports(c) ==
    /\ readerPc[c] = "test"
    /\ events' = IF s_DeactCalled THEN events ELSE events + 1
    /\ ReaderGoto(c, "reset")
    /\ UNCHANGED <<rilVars, ifcVars, pc, req, seen, prioPc, lines, modemVars, ghostVars,
                   boundVars>>

\* Defect: s_DeactCalled outlives the disconnection it was set for.
ResetNothing == UNCHANGED s_DeactCalled

ResetDeactCalled == s_DeactCalled' = FALSE

ReaderResets(c) ==
    /\ readerPc[c] = "reset"
    /\ ResetDeactCalled
    /\ ReaderGoto(c, "idle")
    /\ UNCHANGED <<s_e2napState, s_e2napCause, s_lastPdpFailCause, s_ActiveCID, e2napCause, status,
                   ifcVars, runnerVars, lines, modemVars, ghostVars, boundVars>>

ReaderStep(c) ==
    \/ TakeReport(c) \/ FinishReport(c) \/ ReaderChecksCause(c) \/ ReaderIfc(c)
    \/ ReaderReports(c) \/ ReaderResets(c)

-----------------------------------------------------------------------------
(***************************************************************************)
(* requestOrSendPDPContextList, on the runner of queue q.                  *)
(***************************************************************************)
\* AT*E2IPCFG?: the modem has addresses to tell while the connection is up, and
\* an answer without any counts as a failure.
TellsAddresses(q) == Answered(q) /\ net = "up" /\ UNCHANGED faults
TellsNone(q) == Answered(q) /\ net # "up" /\ UNCHANGED faults

\* A failure is reported as an empty list; with a token, only the request fails.
ContextList(q, solicited) ==
    \/ /\ Fails(q) \/ (seen[q] = "CONNECTED" /\ TellsNone(q))
       /\ told' = IF solicited THEN told ELSE None
    \/ /\ seen[q] = "CONNECTED" /\ TellsAddresses(q)
       /\ told' = IF told \in {s_ActiveCID, Unsure} THEN told ELSE None
    \/ /\ seen[q] # "CONNECTED" /\ Answered(q) /\ UNCHANGED faults
       /\ told' = None

SendContextList(q, solicited) ==
    /\ ContextList(q, solicited)
    /\ overtaken' = (overtaken \/ pc = "complete")
    /\ UNCHANGED <<wasUp, rejected>>

\* onPDPContextListChanged on the prio runner.
PrioTakesEvent ==
    /\ prio /\ chan["prio"]
    /\ prioPc = "idle" /\ events > 0
    /\ events' = events - 1
    /\ seen' = [seen EXCEPT !["prio"] = s_e2napState]
    /\ prioPc' = "list"
    /\ UNCHANGED <<rilVars, ifcVars, pc, req, readerVars, modemVars, ghostVars, boundVars>>

PrioSendsList ==
    /\ prioPc = "list"
    /\ SendContextList("prio", FALSE)
    /\ prioPc' = "idle"
    /\ UNCHANGED <<rilVars, ifcVars, pc, req, seen, events, readerVars, modemVars, prio, dual,
                   requests>>

\* Where a setup has yet to find out that it was disconnected.
Configuring ==
    {"parse", "check1", "configure", "ifcUp", "ifcAddr", "ifcUndo", "ifcClose", "check2"}

\* initializeCommon forgets the state, on either runner; the normal one then
\* turns the radio available and tells the framework it is off.  By that time a
\* reader that was between two assignments has done the second one.
InitializeCommon(q) ==
    /\ q \in Channels /\ ~chan[q]
    /\ \A c \in AllChannels : readerPc[c] # "written"
    /\ IF q = "normal" THEN pc = "idle" ELSE prioPc = "idle"
    /\ chan' = [chan EXCEPT ![q] = TRUE]
    /\ s_e2napState' = "UNKNOWN"
    /\ s_e2napCause' = "UNKNOWN"
    /\ IF q = "normal" THEN radio' = "AVAILABLE" /\ told' = None ELSE UNCHANGED <<radio, told>>
    /\ overtaken' = (overtaken \/ pc \in Configuring)
    /\ UNCHANGED <<s_lastPdpFailCause, s_DeactCalled, s_ActiveCID, e2napCause, status, ifcVars,
                   runnerVars, readerVars, net, wasUp, rejected, boundVars>>

-----------------------------------------------------------------------------
(***************************************************************************)
(* The requests, on the normal runner.                                     *)
(***************************************************************************)
At(label) == pc = label
Goto(label) == pc' = label
Connected(state) == state \in {"CONNECTED", "CONNECTING"}

\* A step that only goes on, after a look at what it shares with the reader.
OnlyGoto(from, to) ==
    /\ At(from)
    /\ Goto(to)
    /\ UNCHANGED <<rilVars, ifcVars, req, seen, prioPc, events, readerVars, modemVars,
                   ghostVars, boundVars>>

\* The request is answered; the framework learns this from it.
Complete(learned) ==
    /\ Goto("idle")
    /\ req' = NoRequest
    /\ told' = learned
    /\ status' = "NONE"
    /\ UNCHANGED <<s_e2napState, s_e2napCause, s_lastPdpFailCause, s_DeactCalled, s_ActiveCID,
                   e2napCause, ifcVars, seen, prioPc, events, readerVars, modemVars, overtaken,
                   wasUp, rejected, prio, dual, requests>>

\* What the framework knows of an active connection when a request failed half
\* way: nothing.
AfterFailure == IF told # None THEN Unsure ELSE None

\* processRequest serves the framework only while the radio is available.
Request(kind, cid, label) ==
    /\ At("idle")
    /\ chan["normal"]
    /\ requests < MaxRequests[prio]
    /\ requests' = requests + 1
    /\ req' = [kind |-> kind, cid |-> cid]
    /\ seen' = [seen EXCEPT !["normal"] = s_e2napState]
    /\ Goto(label)
    /\ UNCHANGED <<s_e2napState, s_e2napCause, s_DeactCalled, s_ActiveCID, e2napCause, status,
                   ifcVars, prioPc, events, readerVars, modemVars, told, prio, dual, faults>>

ResetFailCause == s_lastPdpFailCause' = "UNSPECIFIED"

\* A second connection is refused, unless its profile is not the default one:
\* that one takes the place of the first.
requestSetupDefaultPDP(prof) ==
    /\ Request("setup", prof + 1,
               IF ~Connected(s_e2napState) THEN "down"
               ELSE IF prof > 0 THEN "setDeact" ELSE "deny")
    /\ ResetFailCause
    /\ overtaken' = (overtaken /\ pc' = "deny")
    /\ wasUp' = (s_e2napState = "CONNECTED")
    /\ rejected' = (s_e2napCause = "rejected" \/ \E t \in Threads : e2napCause[t] = "rejected")

Deny == At("deny") /\ Complete(told) /\ UNCHANGED faults

requestDeactivateDefaultPDP(cid) ==
    /\ Request("deactivate", cid, IF cid = s_ActiveCID THEN "setDeact" ELSE "deactivated")
    /\ UNCHANGED <<s_lastPdpFailCause, overtaken, wasUp, rejected>>

requestPDPContextList ==
    /\ Request("list", NoCid, "list")
    /\ UNCHANGED <<s_lastPdpFailCause, overtaken, wasUp, rejected>>

\* onPDPContextListChanged, when there is no prio queue.
TakeEvent ==
    /\ ~prio /\ chan["normal"]
    /\ At("idle") /\ events > 0
    /\ events' = events - 1
    /\ req' = [NoRequest EXCEPT !.kind = "event"]
    /\ seen' = [seen EXCEPT !["normal"] = s_e2napState]
    /\ Goto("list")
    /\ UNCHANGED <<rilVars, ifcVars, prioPc, readerVars, modemVars, ghostVars, boundVars>>

SendList ==
    /\ At("list")
    /\ SendContextList("normal", req.kind = "list")
    /\ IF req.kind = "setup" THEN Goto("down") /\ UNCHANGED req
                             ELSE Goto("idle") /\ req' = NoRequest
    /\ UNCHANGED <<rilVars, ifcVars, seen, prioPc, events, readerVars, modemVars, prio, dual,
                   requests>>

\* "s_DeactCalled = 1"; a deactivation that saw the connection down is done.
SetDeactCalled ==
    /\ At("setDeact")
    /\ s_DeactCalled' = TRUE
    /\ Goto(IF seen["normal"] = "DISCONNECTED" THEN "deactivated" ELSE "disconnect")
    /\ UNCHANGED <<s_e2napState, s_e2napCause, s_lastPdpFailCause, s_ActiveCID, e2napCause, status,
                   ifcVars, req, seen, prioPc, events, readerVars, modemVars, ghostVars,
                   boundVars>>

Deactivated ==
    /\ At("deactivated")
    /\ Complete(IF told \in {req.cid, Unsure} THEN None ELSE told)
    /\ UNCHANGED faults

DeactivateFails ==
    /\ At("deactivateFails")
    /\ Complete(AfterFailure)
    /\ UNCHANGED faults

-----------------------------------------------------------------------------
(***************************************************************************)
(* disconnect: of a deactivation, of a teardown for another profile, and   *)
(* of a setup that failed.                                                 *)
(***************************************************************************)
\* Where a disconnection is called from.
Disconnecting == {"disconnect", "restore"}

AfterCommandFails ==
    IF pc = "restore" THEN "failed" ELSE IF req.kind = "setup" THEN "down" ELSE "deactivateFails"

\* AT*ENAP=0; "err != AT_NOERROR && at_get_error_type(err) != CME_ERROR".  The
\* modem answers a CME error if there is nothing to disconnect.
Disconnect ==
    /\ pc \in Disconnecting
    /\ \/ /\ Answered("normal")
          /\ net' = "down"
          /\ IF net = "down" THEN UNCHANGED lines ELSE Report("DISCONNECTED", "other")
          /\ Goto(IF pc = "restore" THEN "waitRestored" ELSE "waitDown")
          /\ UNCHANGED faults
       \/ /\ Fails("normal")
          /\ Goto(AfterCommandFails)
          /\ UNCHANGED <<net, lines>>
    /\ UNCHANGED <<rilVars, ifcVars, req, seen, prioPc, events, readerPc, chan, radio,
                   ghostVars, prio, dual, requests>>

\* The loop ends with the state, with the radio, or after 60 s.
DisconnectWaits ==
    \/ OnlyGoto("waitDown", "afterDown")
    \/ OnlyGoto("waitRestored", "failed")

TeardownFails == IF req.kind = "setup" THEN "error" ELSE "deactivateFails"

\* Only a state of DISCONNECTED is success.
AfterDown ==
    OnlyGoto("afterDown", IF s_e2napState = "DISCONNECTED" THEN "downInit" ELSE TeardownFails)

\* ifc_init, ifc_down and ifc_close after a teardown, and without the last one
\* before a setup.  An ioctl on a socket that the reader closed fails.
IfcInit ==
    /\ pc \in {"downInit", "setupInit"}
    /\ \/ OpenSocket /\ Goto(IF pc = "downInit" THEN "downIfc" ELSE "setupIfc")
       \/ SocketFails /\ Goto(IF pc = "downInit" THEN TeardownFails ELSE "setupFails")
    /\ UNCHANGED <<rilVars, iface, req, seen, prioPc, events, readerVars, modemVars, ghostVars,
                   prio, dual, requests>>

IfcDown ==
    /\ pc \in {"downIfc", "setupIfc"}
    /\ TakeDown
    /\ Goto(CASE ifc_ctl_sock -> IF pc = "downIfc" THEN "downClose" ELSE "define"
              [] ~ifc_ctl_sock /\ pc = "setupIfc" -> "setupFails"
              [] OTHER -> TeardownFails)
    /\ UNCHANGED <<rilVars, ifc_ctl_sock, req, seen, prioPc, events, readerVars, modemVars,
                   ghostVars, boundVars>>

\* A teardown for another profile tells the framework, with the state it has now.
IfcClose ==
    /\ At("downClose")
    /\ ifc_ctl_sock' = FALSE
    /\ IF req.kind = "setup"
       THEN Goto("list") /\ seen' = [seen EXCEPT !["normal"] = s_e2napState]
       ELSE Goto("deactivated") /\ UNCHANGED seen
    /\ UNCHANGED <<rilVars, iface, req, prioPc, events, readerVars, modemVars, ghostVars,
                   boundVars>>

-----------------------------------------------------------------------------
(***************************************************************************)
(* The rest of requestSetupDefaultPDP.                                     *)
(***************************************************************************)
\* "down:", setE2napState without the mutex.
ForgetState ==
    /\ At("down")
    /\ s_e2napState' = "UNKNOWN"
    /\ Goto("setupInit")
    /\ UNCHANGED <<s_e2napCause, s_lastPdpFailCause, s_DeactCalled, s_ActiveCID, e2napCause, status,
                   ifcVars, req, seen, prioPc, events, readerVars, modemVars, ghostVars,
                   boundVars>>

\* A step that is one command, or several of which the first failure counts.
Command(from, done, failed) ==
    /\ At(from)
    /\ \/ Answered("normal") /\ Goto(done) /\ UNCHANGED faults
       \/ Fails("normal") /\ Goto(failed)
    /\ UNCHANGED <<rilVars, ifcVars, req, seen, prioPc, events, readerVars, modemVars,
                   ghostVars, prio, dual, requests>>

DefineContext == Command("define", "auth", "setupFails")
networkAuth == Command("auth", "activate", "setupFails")

parse_ip_information ==
    /\ At("parse")
    /\ \/ TellsAddresses("normal") /\ Goto("check1")
       \/ (Fails("normal") \/ TellsNone("normal")) /\ Goto("error")
    /\ UNCHANGED <<rilVars, ifcVars, req, seen, prioPc, events, readerVars, modemVars,
                   ghostVars, prio, dual, requests>>

SetupFails ==
    /\ At("setupFails")
    /\ Complete(AfterFailure)
    /\ UNCHANGED faults

\* AT*ENAP=1: refused if there is a connection.
Activate ==
    /\ At("activate")
    /\ \/ /\ Answered("normal") /\ net = "down"
          /\ net' = "connecting"
          /\ Report("CONNECTING", "UNKNOWN")
          /\ Goto("waitUp")
          /\ UNCHANGED faults
       \/ /\ \/ Fails("normal")
             \/ Answered("normal") /\ net # "down" /\ UNCHANGED faults
          /\ Goto("error")
          /\ UNCHANGED <<net, lines>>
    /\ UNCHANGED <<rilVars, ifcVars, req, seen, prioPc, events, readerPc, chan, radio,
                   ghostVars, prio, dual, requests>>

\* Defect: the loop has no end of its own.
WaitUpForEver ==
    /\ s_e2napState \in {"CONNECTED", "DISCONNECTED"} \/ radio = "UNAVAILABLE"
    /\ OnlyGoto("waitUp", "afterUp")

\* The loop ends with the state, with the radio, or after 180 s.
WaitUp == OnlyGoto("waitUp", "afterUp")

AfterUp == OnlyGoto("afterUp", IF s_e2napState = "CONNECTED" THEN "parse" ELSE "error")

\* Defect: the setup does not look at the state again.
StillUpUnseen(from, to) == OnlyGoto(from, to)

\* "we got disconnected", before and after the interface is configured.
StillUp(from, to) ==
    OnlyGoto(from, IF s_e2napState = "DISCONNECTED" THEN "error" ELSE to)

\* ifc_configure: ifc_init, whose failure is not looked at, ifc_up, the address
\* and the mask, ifc_close.  If one fails the rest is skipped, after an ifc_down if
\* it was not the first; the setup goes on.
Configure ==
    /\ \/ At("configure") /\ (OpenSocket \/ SocketFails) /\ Goto("ifcUp") /\ UNCHANGED iface
       \/ /\ At("ifcUp")
          /\ iface' = IF ifc_ctl_sock THEN "up" ELSE iface
          /\ Goto(IF ifc_ctl_sock THEN "ifcAddr" ELSE "ifcClose")
          /\ UNCHANGED <<ifc_ctl_sock, faults>>
       \/ /\ At("ifcAddr")
          /\ iface' = IF ifc_ctl_sock /\ iface = "up" THEN "configured" ELSE iface
          /\ Goto(IF ifc_ctl_sock THEN "ifcClose" ELSE "ifcUndo")
          /\ UNCHANGED <<ifc_ctl_sock, faults>>
       \/ /\ At("ifcUndo")
          /\ TakeDown
          /\ Goto("ifcClose")
          /\ UNCHANGED <<ifc_ctl_sock, faults>>
       \/ /\ At("ifcClose")
          /\ ifc_ctl_sock' = FALSE
          /\ Goto("check2")
          /\ UNCHANGED <<iface, faults>>
    /\ UNCHANGED <<rilVars, req, seen, prioPc, events, readerVars, modemVars, ghostVars, prio,
                   dual, requests>>

SetupSucceeds ==
    /\ At("complete")
    /\ s_ActiveCID' = req.cid
    /\ told' = req.cid
    /\ Goto("idle")
    /\ req' = NoRequest
    /\ UNCHANGED <<s_e2napState, s_e2napCause, s_lastPdpFailCause, s_DeactCalled, e2napCause,
                   status, ifcVars, seen, prioPc, events, readerVars, modemVars, overtaken, wasUp,
                   rejected, boundVars>>

\* "error:" is mbm_check_error_cause, and the answer is made before the state of
\* the modem is restored.
SetupErrs ==
    /\ At("error")
    /\ ReadCause("runner")
    /\ Goto("judge")
    /\ UNCHANGED <<s_e2napState, s_e2napCause, s_lastPdpFailCause, s_DeactCalled, s_ActiveCID,
                   status, ifcVars, req, seen, prioPc, events, readerVars, modemVars, ghostVars,
                   boundVars>>

JudgeFailure ==
    /\ At("judge")
    /\ SetFailCause("runner")
    /\ Goto("status")
    /\ UNCHANGED <<s_e2napState, s_e2napCause, s_DeactCalled, s_ActiveCID, status, ifcVars, req,
                   seen, prioPc, events, readerVars, modemVars, ghostVars, boundVars>>

TakeStatus ==
    /\ At("status")
    /\ status' = s_lastPdpFailCause
    /\ Goto("restore")
    /\ UNCHANGED <<s_e2napState, s_e2napCause, s_lastPdpFailCause, s_DeactCalled, s_ActiveCID,
                   e2napCause, ifcVars, req, seen, prioPc, events, readerVars, modemVars,
                   ghostVars, boundVars>>

SetupFailed ==
    /\ At("failed")
    /\ Complete(AfterFailure)
    /\ UNCHANGED faults

RunnerStep ==
    \/ Deny \/ SetDeactCalled \/ Deactivated \/ DeactivateFails \/ SendList
    \/ Disconnect \/ DisconnectWaits \/ AfterDown \/ IfcInit \/ IfcDown \/ IfcClose
    \/ ForgetState \/ Activate \/ WaitUp \/ AfterUp \/ Configure
    \/ DefineContext \/ networkAuth \/ parse_ip_information
    \/ StillUp("check1", "configure") \/ StillUp("check2", "complete")
    \/ SetupFails \/ SetupSucceeds \/ SetupErrs \/ JudgeFailure \/ TakeStatus \/ SetupFailed
    \/ TakeEvent \/ InitializeCommon("normal")

PrioStep == PrioTakesEvent \/ PrioSendsList \/ InitializeCommon("prio")

FrameworkStep ==
    \/ \E prof \in Profiles : requestSetupDefaultPDP(prof)
    \/ \E cid \in Cids : requestDeactivateDefaultPDP(cid)
    \/ requestPDPContextList

ModemStep ==
    NetworkConnects \/ NetworkRejects \/ NetworkDrops \/ Garbled \/ ChannelsLost

\* The framework may ask for nothing more.
Quiescent ==
    /\ At("idle") /\ requests = MaxRequests[prio]
    /\ UNCHANGED vars

Next ==
    \/ RunnerStep \/ PrioStep \/ FrameworkStep \/ ModemStep
    \/ \E c \in AllChannels : ReaderStep(c)
    \/ Quiescent

Spec == Init /\ [][Next]_vars

\* The scheduler runs every thread.  Neither the network nor the framework has
\* to do anything.
LiveSpec ==
    /\ Spec
    /\ WF_vars(RunnerStep)
    /\ WF_vars(PrioStep)
    /\ \A c \in AllChannels : WF_vars(ReaderStep(c))

-----------------------------------------------------------------------------
(***************************************************************************)
(* Properties.                                                             *)
(***************************************************************************)
RunnerPcs ==
    {"idle", "deny", "setDeact", "deactivated", "deactivateFails", "list", "disconnect",
     "restore", "waitDown", "waitRestored", "afterDown", "downInit", "setupInit", "downIfc",
     "setupIfc", "downClose", "down", "define", "auth", "setupFails", "activate", "waitUp",
     "afterUp", "parse", "check1", "configure", "ifcUp", "ifcAddr", "ifcUndo", "ifcClose",
     "check2", "complete", "error", "judge", "status", "failed"}

\* Every variable has its type; the state that requests compare with is one the
\* modem reports, never the number of a line that was not understood.
TypeOK ==
    /\ {prio, dual, s_DeactCalled, ifc_ctl_sock, overtaken, wasUp, rejected} \subseteq BOOLEAN
    /\ iface \in {"down", "up", "configured"}
    /\ s_e2napState \in E2napStates /\ s_e2napCause \in Causes
    /\ s_lastPdpFailCause \in FailCauses /\ status \in FailCauses
    /\ e2napCause \in [Threads -> Causes]
    /\ s_ActiveCID \in Cids \cup {NoCid}
    /\ pc \in RunnerPcs /\ prioPc \in {"idle", "list"}
    /\ req \in [kind : {"none", "setup", "deactivate", "list", "event"},
                cid : Cids \cup {NoCid}]
    /\ seen \in [AllChannels -> E2napStates]
    /\ events \in Nat /\ requests \in Nat /\ faults \subseteq FaultKinds
    /\ readerPc \in [AllChannels -> {"idle", "written", "look", "lookDown", "check", "checkDown",
                                     "ifcInit", "ifcDown", "ifcClose", "test", "reset"}]
    /\ lines \in [AllChannels -> Seq([state : E2napStates \cup {"invalid"}, cause : Causes])]
    /\ chan \in [AllChannels -> BOOLEAN]
    /\ radio \in {"AVAILABLE", "UNAVAILABLE"}
    /\ net \in {"down", "connecting", "up"}
    /\ told \in Cids \cup {None, Unsure}

\* Nothing is on its way: no request, event or report.
Quiet ==
    /\ At("idle") /\ prioPc = "idle" /\ events = 0
    /\ \A c \in Channels : chan[c] /\ lines[c] = << >> /\ readerPc[c] = "idle"

\* The state that the next request, the dormancy poll and the context list rely
\* on is the modem's, or UNKNOWN: though setE2napState writes it without the
\* mutex and every report is handled by each reader thread.
StateMatchesNetwork ==
    Quiet => /\ s_e2napState = "CONNECTED" => net = "up"
             /\ s_e2napState = "DISCONNECTED" => net = "down"

\* The framework does not go on believing in a connection that is gone: whoever
\* ended it, and wherever a setup, a teardown or the suppression by s_DeactCalled
\* was at that time, it was told.  Left out are two steps of the prio runner: the
\* report that it sends between the last look of a setup at the state and its
\* answer, which then comes last, and an initializeCommon that makes a setup
\* forget that it was disconnected.
LossIsReported == Quiet /\ told \in Cids => net = "up" \/ overtaken

\* A connection the framework takes for active has its interface up, although
\* reader and runner share one socket and the reader brings the interface down.
\* With a prio queue the second reader can do so after the setup; and a setup
\* ignores that it could not have a socket.
ActiveIsConfigured ==
    Quiet /\ ~prio /\ "socket" \notin faults /\ told \in Cids => iface = "configured"

\* Types, and what holds at every moment of an active connection.
PdpInv == TypeOK /\ ActiveIsConfigured

\* What the answer to a failed setup says.  That nothing failed only if the
\* connection was up in its course, which is what mbm_check_error_cause takes for
\* success.  A rejection only if one was written in its course, or was on record
\* from an earlier setup and not overwritten by the report of its own AT*ENAP=1:
\* requestSetupDefaultPDP resets s_e2napState but not s_e2napCause.  In between
\* the reader threads write what it reads without the mutex.
FailedSetupHasCause ==
    [][SetupFailed => /\ status = "NONE" => wasUp
                      /\ status = "REJECTED" => rejected]_vars

\* Every request is answered, whatever becomes of the modem and the channel.
RequestReturns == pc # "idle" ~> pc = "idle"
=============================================================================
