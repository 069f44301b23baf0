----------------------------- MODULE GpsControl -----------------------------
(***************************************************************************)
(* The GPS library: sessions, recovery and configuration                   *)
(* (libmbm-gps/src/mbm_gps.c, gpsctrl/gps_ctrl.c, gpsctrl/supl.c).         *)
(*                                                                         *)
(* main_loop opens the AT and the NMEA channel, configures the modem,      *)
(* restores the session and then runs the callbacks that the other threads *)
(* ask for with bytes in a socket pair.  The framework starts and stops    *)
(* sessions and finally cleans up.  A report of the modem about a SUPL     *)
(* failure is handled by a thread of its own.  Each of the three sends AT  *)
(* commands; `mutex` guards the sessions, nothing guards the readiness,    *)
(* the status that the callback hands out, or the SUPL configuration.      *)
(*                                                                         *)
(* An AT command is one step, answered while the channel is open.  The     *)
(* interval, the aiding data and the extended ephemeris are left out.      *)
(***************************************************************************)
EXTENDS Integers, Sequences, FiniteSets

CONSTANTS
    Scenarios,      \* bounds: what framework, service and modem do in one behaviour
    Events          \* threads for *E2GPSSTAT (enqueue_event): bound on how many at once

Modes == {"standalone", "pgps", "supl"}
Settings == {"server", "apn"}
Flags == {"data_enabled", "background_data_allowed", "data_roaming_allowed"}
CallKinds == {"start", "stop", "mode", "server", "network"}
Statuses == {"none", "ENGINE_ON", "ENGINE_OFF", "SESSION_BEGIN", "SESSION_END"}
Commands == {"STATUS_CB", "NI_CB", "AT_LOST", "QUIT"}
Callers == {"main", "fw"} \cup Events       \* who starts and stops

ASSUME ConstantAssumption ==
    /\ Scenarios \subseteq
         [calls : SUBSET CallKinds, pref : Modes, allowed : BOOLEAN, cleanup : BOOLEAN,
          maxCalls : Nat, maxSettings : Nat, maxLosses : Nat, maxFailures : Nat,
          maxRefusals : Nat, maxNi : Nat]
    /\ {"main", "fw", "free", "service"} \cap Events = {}
    /\ IsFiniteSet(Events)

VARIABLES
    is_ready, fallback, pref_mode, supl_initialized,
    supl_config,            \* supl_server and apn; each value is a number, 0 the first
    flags, is_roaming,      \* what the MBM service and the framework said of the data service
    gps_started, gps_should_start, gps_status,
    current_ni_request, notification,
    gps_initiated, cleanup_requested,
    cmds,                   \* cmd_fd: the bytes in the socket pair
    mutex,                  \* context->mutex: the caller that holds it, or "free"
    step, mode,             \* of the holder: where it is in starting or stopping, the mode
    mainPc, arg,            \* main_loop, and the value it is sending
    fwPc, fwArg, servicePc, serviceArg,
    at, nmea,               \* the channels: none, open, hup (hung up), closed (the reader ended)
    closing,                \* reader threads that are about to report the end
    niPc,                   \* the reader thread in mbm_gps_ni_request
    event,                  \* per event thread: none, or the report that it handles
    modem,
    asked,                  \* ghost: the framework wants a session
    told,                   \* ghost: the last status and notification told, and the engine
    excused, raced,         \* ghost: a command failed or was not sent; see the properties
    scenario, calls, settings, losses, failures, refusals, nis

readyVars == <<is_ready, fallback, pref_mode, supl_initialized>>
configVars == <<supl_config, flags, is_roaming>>
sessionVars == <<gps_started, gps_should_start>>
niVars == <<current_ni_request, notification, niPc, nis>>
lockVars == <<mutex, step, mode>>
channelVars == <<at, nmea, closing>>
cleanupVars == <<gps_initiated, cleanup_requested>>
mainVars == <<mainPc, arg>>
fwVars == <<fwPc, fwArg, asked>>
serviceVars == <<servicePc, serviceArg>>
ghostVars == <<excused, raced>>
boundVars == <<scenario, calls, settings, losses, failures, refusals>>
vars == <<readyVars, configVars, sessionVars, niVars, lockVars, channelVars, cleanupVars, mainVars,
          fwVars, serviceVars, ghostVars, boundVars, gps_status, cmds, event, modem, told>>

-----------------------------------------------------------------------------
Init ==
    /\ is_ready = FALSE /\ fallback = FALSE /\ pref_mode = "standalone"
    /\ supl_initialized = FALSE /\ supl_config = [s \in Settings |-> 0]
    /\ scenario \in Scenarios
    /\ flags = [f \in Flags |-> scenario.allowed] /\ is_roaming = FALSE
    /\ gps_started = FALSE /\ gps_should_start = FALSE /\ gps_status = "none"
    /\ current_ni_request = 0 /\ notification = 0
    /\ gps_initiated = TRUE /\ cleanup_requested = FALSE
    /\ cmds = << >> /\ mutex = "free" /\ step = "none" /\ mode = "standalone"
    /\ mainPc = "open" /\ arg = 0
    /\ fwPc = "idle" /\ fwArg = 0 /\ servicePc = "idle" /\ serviceArg = 0
    /\ at = "none" /\ nmea = "none" /\ closing = 0 /\ niPc = "idle"
    /\ event = [e \in Events |-> "none"]
    /\ modem = [up |-> TRUE, mode |-> "off", stat |-> FALSE,
                set |-> [s \in Settings |-> -1]]
    /\ asked = FALSE
    /\ told = [status |-> "none", ni |-> 0]
    /\ excused = FALSE /\ raced = FALSE
    /\ calls = 0 /\ settings = 0 /\ losses = 0 /\ failures = 0 /\ refusals = 0 /\ nis = 0

add_pending_command(cmd) == cmds' = Append(cmds, cmd)

\* An AT command is answered with OK, or with an error that the modem may choose.
Answers == at = "open" /\ UNCHANGED <<refusals, excused>>
Refuses ==
    \/ at # "open" /\ excused' = (excused \/ modem.mode # "off") /\ UNCHANGED refusals
    \/ /\ at = "open" /\ refusals < scenario.maxRefusals
       /\ refusals' = refusals + 1 /\ excused' = TRUE

-----------------------------------------------------------------------------
(***************************************************************************)
(* The modem, and the reader thread of the AT channel.                     *)
(***************************************************************************)
\* The modem disappears with its devices and forgets everything.
ModemLost ==
    /\ modem.up /\ losses < scenario.maxLosses
    /\ losses' = losses + 1
    /\ modem' = [up |-> FALSE, mode |-> "off", stat |-> FALSE, set |-> [s \in Settings |-> -1]]
    /\ at' = IF at = "open" THEN "hup" ELSE at
    /\ nmea' = IF nmea = "open" THEN "hup" ELSE nmea
    /\ UNCHANGED <<readyVars, configVars, sessionVars, niVars, lockVars, closing, cleanupVars,
                   mainVars, fwVars, serviceVars, ghostVars, gps_status, cmds, event, told,
                   scenario, calls, settings, failures, refusals>>

ModemReturns ==
    /\ ~modem.up
    /\ modem' = [modem EXCEPT !.up = TRUE]
    /\ UNCHANGED <<readyVars, configVars, sessionVars, niVars, lockVars, channelVars, cleanupVars,
                   mainVars, fwVars, serviceVars, ghostVars, boundVars, gps_status, cmds, event,
                   told>>

\* A SUPL session fails: *E2GPSSTAT with an error, or with mode and status 0.
SuplFails ==
    /\ modem.mode = "supl" /\ modem.stat /\ at = "open" /\ failures < scenario.maxFailures
    /\ failures' = failures + 1
    /\ modem' = [modem EXCEPT !.mode = "off"]
    /\ \E e \in Events, report \in {"failed", "zero"} :
         /\ event[e] = "none"
         /\ event' = [event EXCEPT ![e] = report]
    /\ UNCHANGED <<readyVars, configVars, sessionVars, niVars, lockVars, channelVars, cleanupVars,
                   mainVars, fwVars, serviceVars, ghostVars, gps_status, cmds, told,
                   scenario, calls, settings, losses, refusals>>

\* The reader thread: the end of the file, readerClosed, and then onATReaderClosed.
ReaderEnds ==
    /\ at = "hup"
    /\ at' = "closed" /\ closing' = closing + 1
    /\ UNCHANGED <<readyVars, configVars, sessionVars, niVars, lockVars, nmea, cleanupVars, mainVars,
                   fwVars, serviceVars, ghostVars, boundVars, gps_status, cmds, event, modem, told>>

onATReaderClosed ==
    /\ closing > 0
    /\ closing' = closing - 1
    /\ add_pending_command("AT_LOST")
    /\ UNCHANGED <<readyVars, configVars, sessionVars, niVars, lockVars, at, nmea, cleanupVars,
                   mainVars, fwVars, serviceVars, ghostVars, boundVars, gps_status, event, modem,
                   told>>

\* *E2GPSSUPLNI, on the reader thread: the request and the notification are filled ...
mbm_gps_ni_request ==
    /\ niPc = "idle" /\ at = "open" /\ nis < scenario.maxNi
    /\ nis' = nis + 1
    /\ current_ni_request' = nis' /\ notification' = nis'
    /\ niPc' = "adds"
    /\ UNCHANGED <<readyVars, configVars, sessionVars, lockVars, channelVars, cleanupVars, mainVars,
                   fwVars, serviceVars, ghostVars, boundVars, gps_status, cmds, event, modem, told>>

\* ... and the callback is asked for.
NiAdds ==
    /\ niPc = "adds"
    /\ niPc' = "idle"
    /\ add_pending_command("NI_CB")
    /\ UNCHANGED <<current_ni_request, notification, nis, readyVars, configVars, sessionVars,
                   lockVars, channelVars, cleanupVars, mainVars, fwVars, serviceVars, ghostVars,
                   boundVars, gps_status, event, modem, told>>

-----------------------------------------------------------------------------
(***************************************************************************)
(* Starting and stopping, by the holder of the mutex.                      *)
(***************************************************************************)
\* Defect: the early return forgets the mutex.
KeepsMutex == step' = "none" /\ UNCHANGED <<mutex, mode>>

Unlock == mutex' = "free" /\ step' = "none" /\ UNCHANGED mode

\* What the callers do when mbm_gps_start or gpsctrl_start_fallback returns.
Returns(t, ok) ==
    /\ mainPc' = IF t = "main" THEN "loop" ELSE mainPc
    /\ fwPc' = IF t = "fw" THEN "idle" ELSE fwPc
    /\ asked' = IF t = "fw" THEN ok ELSE asked
    /\ event' = [e \in Events |-> IF t = e THEN "none" ELSE event[e]]

NoReturn == UNCHANGED <<mainPc, fwPc, asked, event>>

startVars == <<configVars, supl_initialized, pref_mode, niVars, channelVars, cleanupVars, arg, fwArg,
               serviceVars, raced, told, scenario, calls, settings, losses, failures>>

\* Under the mutex: a start is deferred while the device is not ready.
mbm_gps_start(t) ==
    /\ mutex = t /\ step = "start"
    /\ IF is_ready
       THEN step' = "mode" /\ NoReturn /\ UNCHANGED <<gps_should_start, mutex, mode>>
       ELSE gps_should_start' = TRUE /\ Unlock /\ Returns(t, TRUE)
    /\ UNCHANGED <<startVars, is_ready, fallback, gps_started, gps_status, cmds, modem, excused,
                   refusals>>

DataAllowed ==
    /\ flags["data_enabled"] /\ flags["background_data_allowed"]
    /\ is_roaming => flags["data_roaming_allowed"]

\* gpsctrl_start: the mode of this start.  A fallback is for one start only.
ModeOfStart == IF fallback \/ (pref_mode = "supl" /\ ~DataAllowed) THEN "standalone" ELSE pref_mode

gpsctrl_start(t) ==
    /\ mutex = t /\ step = "mode"
    /\ mode' = ModeOfStart /\ fallback' = FALSE
    /\ step' = "reports"
    /\ NoReturn
    /\ UNCHANGED <<startVars, is_ready, gps_started, gps_should_start, gps_status, cmds, mutex, modem,
                   excused, refusals>>

\* The NMEA port is activated and, for SUPL, the reports *E2GPSSTAT are turned on.
StartReports(t) ==
    /\ mutex = t /\ step = "reports"
    /\ \/ /\ nmea = "open"
          /\ IF mode = "supl" THEN Answers /\ modem' = [modem EXCEPT !.stat = TRUE]
             ELSE UNCHANGED <<modem, refusals, excused>>
          /\ step' = "control" /\ NoReturn /\ UNCHANGED <<mutex, mode>>
       \/ /\ nmea = "open" /\ mode = "supl" /\ Refuses
          /\ Unlock /\ Returns(t, FALSE) /\ UNCHANGED modem
       \/ /\ nmea # "open"
          /\ Unlock /\ Returns(t, FALSE) /\ UNCHANGED <<modem, refusals, excused>>
    /\ UNCHANGED <<startVars, is_ready, fallback, gps_started, gps_should_start, gps_status, cmds>>

\* AT*E2GPSCTL.  A fallback starts only the receiver: the session goes on.
StartControl(t) ==
    /\ mutex = t /\ step = "control"
    /\ \/ /\ Answers
          /\ modem' = [modem EXCEPT !.mode = mode]
          /\ IF t \in Events THEN Unlock /\ Returns(t, TRUE)
             ELSE step' = "begin" /\ NoReturn /\ UNCHANGED <<mutex, mode>>
       \/ Refuses /\ Unlock /\ Returns(t, FALSE) /\ UNCHANGED modem
    /\ UNCHANGED <<startVars, is_ready, fallback, gps_started, gps_should_start, gps_status, cmds>>

SessionBegins(t) ==
    /\ mutex = t /\ step = "begin"
    /\ gps_started' = TRUE /\ gps_status' = "SESSION_BEGIN"
    /\ step' = "tell"
    /\ NoReturn
    /\ UNCHANGED <<startVars, is_ready, fallback, gps_should_start, mutex, mode, cmds, modem,
                   excused, refusals>>

\* The end of mbm_gps_start and of mbm_gps_stop: the callback is asked for.
Tells(t) ==
    /\ mutex = t /\ step \in {"tell", "tellEnd"}
    /\ add_pending_command("STATUS_CB")
    /\ Unlock /\ Returns(t, step = "tell")
    /\ UNCHANGED <<startVars, is_ready, fallback, gps_started, gps_should_start, gps_status, modem,
                   excused, refusals>>

\* A stop sends nothing while the device is not ready ...
mbm_gps_stop ==
    /\ mutex = "fw" /\ step = "stop"
    /\ step' = IF is_ready THEN "stopReports" ELSE "end"
    /\ excused' = (excused \/ (~is_ready /\ modem.mode # "off"))
    /\ NoReturn
    /\ UNCHANGED <<startVars, is_ready, fallback, gps_started, gps_should_start, gps_status, cmds,
                   mutex, mode, modem, refusals>>

\* ... and otherwise turns the reports off first: a report of the stop would be a failure.
gpsctrl_stop ==
    /\ mutex = "fw"
    /\ \/ /\ step = "stopReports" /\ step' = "stopControl"
          /\ \/ Answers /\ modem' = [modem EXCEPT !.stat = FALSE]
             \/ Refuses /\ UNCHANGED modem
       \/ /\ step = "stopControl" /\ step' = "end"
          /\ \/ Answers /\ modem' = [modem EXCEPT !.mode = "off"]
             \/ Refuses /\ UNCHANGED modem
    /\ NoReturn
    /\ UNCHANGED <<startVars, is_ready, fallback, gps_started, gps_should_start, gps_status, cmds,
                   mutex, mode>>

SessionEnds ==
    /\ mutex = "fw" /\ step = "end"
    /\ gps_started' = FALSE /\ gps_should_start' = FALSE /\ gps_status' = "SESSION_END"
    /\ step' = "tellEnd"
    /\ NoReturn
    /\ UNCHANGED <<startVars, is_ready, fallback, mutex, mode, cmds, modem, excused, refusals>>

\* onGpsStatusChange and supl_fail, on a thread of their own.
supl_fail(e) ==
    /\ event[e] \in {"failed", "zero"}
    /\ IF event[e] = "zero" /\ pref_mode # "supl"
       THEN event' = [event EXCEPT ![e] = "none"] /\ UNCHANGED <<mutex, step, fallback>>
       ELSE /\ mutex = "free"
            /\ IF gps_started
               THEN /\ mutex' = e /\ fallback' = TRUE /\ step' = "mode"
                    /\ event' = [event EXCEPT ![e] = "holds"]
               ELSE event' = [event EXCEPT ![e] = "none"] /\ UNCHANGED <<mutex, step, fallback>>
    /\ UNCHANGED <<startVars, is_ready, gps_started, gps_should_start, gps_status, cmds, mode, modem,
                   mainPc, fwPc, asked, excused, refusals>>

-----------------------------------------------------------------------------
(***************************************************************************)
(* main_loop.                                                              *)
(***************************************************************************)
mainSame == UNCHANGED <<fallback, configVars, sessionVars, niVars, cleanupVars, fwVars, serviceVars,
                        scenario, calls, settings, losses, failures, event>>

\* open_at_channel waits for the device, then gpsctrl_open starts the reader thread.
open_at_channel ==
    /\ mainPc = "open"
    /\ \/ cleanup_requested /\ mainPc' = "exit" /\ UNCHANGED <<at, pref_mode>>
       \/ /\ ~cleanup_requested /\ modem.up
          /\ at' = "open" /\ pref_mode' = "standalone"
          /\ mainPc' = "handshake"
    /\ mainSame
    /\ UNCHANGED <<is_ready, supl_initialized, gps_status, cmds, lockVars, arg, nmea, closing, modem,
                   told, ghostVars, refusals>>

\* The first commands, and the NMEA channel.
gpsctrl_open ==
    /\ mainPc = "handshake"
    /\ \/ Answers /\ nmea' = "open" /\ mainPc' = "engine"
       \/ Refuses /\ mainPc' = "cleanup" /\ UNCHANGED nmea
    /\ mainSame
    /\ UNCHANGED <<readyVars, gps_status, cmds, lockVars, arg, at, closing, modem, told, raced>>

\* Defect: the status is set and the callback not asked for.
EngineOnUntold ==
    /\ mainPc = "engine"
    /\ gps_status' = "ENGINE_ON" /\ mainPc' = "ready"
    /\ mainSame
    /\ UNCHANGED <<cmds, readyVars, lockVars, arg, channelVars, modem, told, ghostVars, refusals>>

EngineOn ==
    /\ mainPc = "engine"
    /\ gps_status' = "ENGINE_ON" /\ add_pending_command("STATUS_CB")
    /\ mainPc' = "ready"
    /\ mainSame
    /\ UNCHANGED <<readyVars, lockVars, arg, channelVars, modem, told, ghostVars, refusals>>

\* The device is ready for the other threads before it is configured.
gpsctrl_set_device_is_ready ==
    /\ mainPc = "ready"
    /\ is_ready' = TRUE
    /\ raced' = FALSE /\ excused' = (excused /\ modem.mode # "off")
    /\ mainPc' = "mode"
    /\ mainSame
    /\ UNCHANGED <<pref_mode, supl_initialized, gps_status, cmds, lockVars, arg, channelVars, modem,
                   told, refusals>>

gpsctrl_set_position_mode ==
    /\ mainPc = "mode"
    /\ pref_mode' = scenario.pref
    /\ mainPc' = "apn"
    /\ mainSame
    /\ UNCHANGED <<is_ready, supl_initialized, gps_status, cmds, lockVars, arg, channelVars, modem,
                   told, ghostVars, refusals>>

\* supl_init: the APN and then the server, each read before its command is sent.
supl_init ==
    /\ mainPc \in Settings
    /\ arg' = supl_config[mainPc]
    /\ mainPc' = IF mainPc = "apn" THEN "apnSends" ELSE "serverSends"
    /\ mainSame
    /\ UNCHANGED <<readyVars, gps_status, cmds, lockVars, channelVars, modem, told, ghostVars,
                   refusals>>

SuplSends ==
    /\ mainPc \in {"apnSends", "serverSends"}
    /\ LET s == IF mainPc = "apnSends" THEN "apn" ELSE "server" IN
         \/ /\ Answers
            /\ modem' = [modem EXCEPT !.set[s] = arg]
            /\ mainPc' = IF s = "apn" THEN "server" ELSE "restore"
            /\ supl_initialized' = (supl_initialized \/ s = "server")
         \/ /\ Refuses
            /\ mainPc' = "restore" /\ UNCHANGED <<modem, supl_initialized>>
    /\ mainSame
    /\ UNCHANGED <<is_ready, pref_mode, gps_status, cmds, lockVars, arg, channelVars, told, raced>>

\* Defect: only a session that was lost is started.
RestoresStarted == gps_started

\* Under the mutex: a session that is deferred or was lost is started.
ShouldRestore == gps_should_start \/ gps_started

Restores ==
    /\ mainPc = "restore" /\ mutex = "free"
    /\ IF ShouldRestore
       THEN mutex' = "main" /\ step' = "start" /\ mainPc' = "restoring"
       ELSE mainPc' = "loop" /\ UNCHANGED <<mutex, step>>
    /\ mainSame
    /\ UNCHANGED <<readyVars, gps_status, cmds, mode, arg, channelVars, modem, told, ghostVars,
                   refusals>>

\* One byte of the socket pair.
HandlesCommand ==
    /\ mainPc = "loop" /\ cmds # << >>
    /\ cmds' = Tail(cmds)
    /\ CASE Head(cmds) = "STATUS_CB" ->
              told' = [told EXCEPT !.status = gps_status] /\ UNCHANGED <<mainPc, at, is_ready>>
         [] Head(cmds) = "NI_CB" ->
              told' = [told EXCEPT !.ni = notification] /\ UNCHANGED <<mainPc, at, is_ready>>
         [] Head(cmds) = "AT_LOST" ->
              at' = "none" /\ is_ready' = FALSE /\ mainPc' = "lost" /\ UNCHANGED told
         [] Head(cmds) = "QUIT" -> mainPc' = "exit" /\ UNCHANGED <<at, is_ready, told>>
    /\ mainSame
    /\ UNCHANGED <<pref_mode, supl_initialized, gps_status, lockVars, arg, nmea, closing, modem,
                   ghostVars, refusals>>

NmeaLost ==
    /\ mainPc = "loop" /\ nmea = "hup"
    /\ mainPc' = "lost"
    /\ mainSame
    /\ UNCHANGED <<readyVars, gps_status, cmds, lockVars, arg, channelVars, modem, told, ghostVars,
                   refusals>>

NotReady ==
    /\ mainPc \in {"lost", "exit"}
    /\ is_ready' = FALSE
    /\ mainPc' = IF mainPc = "lost" THEN "cleanup" ELSE "exitCleanup"
    /\ mainSame
    /\ UNCHANGED <<pref_mode, supl_initialized, gps_status, cmds, lockVars, arg, channelVars, modem,
                   told, ghostVars, refusals>>

\* gpsctrl_cleanup closes both channels; the engine is off.
gpsctrl_cleanup ==
    /\ mainPc \in {"cleanup", "exitCleanup"}
    /\ at' = "none" /\ nmea' = "none"
    /\ gps_status' = "ENGINE_OFF"
    /\ mainPc' = IF gps_status # "ENGINE_OFF"
                 THEN IF mainPc = "cleanup" THEN "tellsOff" ELSE "exitTells"
                 ELSE IF mainPc = "cleanup" THEN "removed" ELSE "signal"
    /\ mainSame
    /\ UNCHANGED <<readyVars, cmds, lockVars, arg, closing, modem, told, ghostVars, refusals>>

EngineOff ==
    /\ mainPc \in {"tellsOff", "exitTells"}
    /\ told' = [told EXCEPT !.status = gps_status]
    /\ mainPc' = IF mainPc = "tellsOff" THEN "removed" ELSE "signal"
    /\ mainSame
    /\ UNCHANGED <<readyVars, gps_status, cmds, lockVars, arg, channelVars, modem, ghostVars,
                   refusals>>

\* The devices are gone, or still there after TIMEOUT_DEVICE_REMOVED seconds.
DevicesRemoved ==
    /\ mainPc = "removed"
    /\ mainPc' = "open"
    /\ mainSame
    /\ UNCHANGED <<readyVars, gps_status, cmds, lockVars, arg, channelVars, modem, told, ghostVars,
                   refusals>>

\* Defect: the signal is given without the mutex.
SignalsUnlocked == TRUE

\* The signal is given under cleanup_mutex, and is lost unless somebody waits.
CleanupMutexFree == fwPc \notin {"quit", "request"}

Signals ==
    /\ mainPc = "signal" /\ CleanupMutexFree
    /\ mainPc' = "done"
    /\ fwPc' = IF fwPc = "wait" THEN "stopped" ELSE fwPc
    /\ UNCHANGED <<readyVars, configVars, sessionVars, niVars, lockVars, channelVars, cleanupVars,
                   arg, fwArg, asked, serviceVars, ghostVars, boundVars, gps_status, cmds, event,
                   modem, told>>

-----------------------------------------------------------------------------
(***************************************************************************)
(* The framework: one call at a time, and the cleanup at the end.          *)
(***************************************************************************)
callVars == <<readyVars, niVars, channelVars, arg, serviceVars, gps_status, gps_started, event, modem,
              told, scenario, losses, failures>>

Calls(kind) ==
    /\ fwPc = "idle" /\ kind \in scenario.calls /\ calls < scenario.maxCalls
    /\ calls' = calls + 1

\* The framework starts while it has no session, and stops while it has one.
LocksToStartOrStop(kind) ==
    /\ Calls(kind) /\ mutex = "free" /\ (kind = "stop" <=> asked)
    /\ mutex' = "fw" /\ step' = kind /\ fwPc' = "holds"
    /\ UNCHANGED <<callVars, configVars, gps_should_start, cmds, cleanupVars, mode, fwArg, mainPc,
                   asked, ghostVars, settings, refusals>>

\* mbm_gps_set_position_mode, before a start: what the property prefers, or stand alone.
mbm_gps_set_position_mode ==
    /\ Calls("mode") /\ ~asked
    /\ pref_mode' \in {scenario.pref, "standalone"}
    /\ UNCHANGED <<is_ready, fallback, supl_initialized, configVars, sessionVars, niVars, lockVars,
                   channelVars, cleanupVars, mainVars, fwVars, serviceVars, ghostVars, scenario,
                   settings, losses, failures, refusals, gps_status, cmds, event, modem, told>>

mbm_agpsril_update_network_state ==
    /\ Calls("network") /\ gps_initiated
    /\ is_roaming' = ~is_roaming
    /\ UNCHANGED <<callVars, supl_config, flags, gps_should_start, cmds, cleanupVars, lockVars, fwVars,
                   mainPc, ghostVars, settings, refusals>>

\* A setter stores the value, and sends it while the device is ready.
BeingConfigured == mainPc \in {"mode", "apn", "apnSends", "server", "serverSends"}

Stores(s) ==
    /\ supl_config' = [supl_config EXCEPT ![s] = @ + 1]
    /\ settings < scenario.maxSettings /\ settings' = settings + 1
    /\ raced' = (raced \/ BeingConfigured)

\* Defect: a server is only stored, and sent when the device is opened next.
ServerIsStored == FALSE

ServerIsSent == is_ready

gpsctrl_set_supl_server ==
    /\ Calls("server") /\ Stores("server")
    /\ fwArg' = supl_config'["server"]
    /\ fwPc' = IF ServerIsSent THEN "sends" ELSE "idle"
    /\ UNCHANGED <<callVars, flags, is_roaming, gps_should_start, cmds, cleanupVars, lockVars, mainPc,
                   asked, excused, refusals>>

supl_set_server ==
    /\ fwPc = "sends"
    /\ \/ Answers /\ modem' = [modem EXCEPT !.set["server"] = fwArg]
       \/ Refuses /\ UNCHANGED modem
    /\ fwPc' = "idle"
    /\ UNCHANGED <<readyVars, niVars, channelVars, mainVars, serviceVars, gps_status, sessionVars,
                   event, told, scenario, calls, settings, losses, failures, configVars,
                   cmds, cleanupVars, lockVars, fwArg, asked, raced>>

\* mbm_gps_cleanup: QUIT and the request under cleanup_mutex, then one wait without a condition.
mbm_gps_cleanup ==
    /\ fwPc = "idle" /\ scenario.cleanup
    /\ gps_initiated' = FALSE /\ fwPc' = "quit"
    /\ UNCHANGED <<callVars, configVars, gps_should_start, lockVars, mainPc, fwArg, asked, ghostVars,
                   calls, settings, refusals, cmds, cleanup_requested>>

CleanupStep ==
    /\ \/ /\ fwPc = "quit"
          /\ add_pending_command("QUIT")
          /\ fwPc' = "request" /\ UNCHANGED cleanupVars
       \/ /\ fwPc = "request"
          /\ cleanup_requested' = TRUE
          /\ fwPc' = "wait" /\ UNCHANGED <<cmds, gps_initiated>>
       \/ /\ fwPc = "stopped"
          /\ fwPc' = "returned" /\ UNCHANGED <<cmds, cleanupVars>>
    /\ UNCHANGED <<callVars, configVars, gps_should_start, lockVars, mainPc, fwArg, asked, ghostVars,
                   calls, settings, refusals>>

-----------------------------------------------------------------------------
(***************************************************************************)
(* The thread of the MBM service's socket.                                 *)
(***************************************************************************)
serviceSame == UNCHANGED <<readyVars, niVars, channelVars, mainVars, fwVars, gps_status, sessionVars,
                           event, told, scenario, calls, losses, failures, cmds, cleanupVars,
                           lockVars, is_roaming>>

SetsFlag ==
    /\ servicePc = "idle" /\ settings < scenario.maxSettings /\ scenario.pref = "supl"
    /\ settings' = settings + 1
    /\ \E f \in Flags : flags' = [flags EXCEPT ![f] = ~@]
    /\ serviceSame
    /\ UNCHANGED <<supl_config, modem, serviceVars, ghostVars, refusals>>

gpsctrl_set_apn_info ==
    /\ servicePc = "idle" /\ Stores("apn")
    /\ serviceArg' = supl_config'["apn"]
    /\ servicePc' = IF supl_initialized /\ is_ready THEN "sends" ELSE "idle"
    /\ serviceSame
    /\ UNCHANGED <<flags, modem, excused, refusals>>

supl_set_apn_info ==
    /\ servicePc = "sends"
    /\ \/ Answers /\ modem' = [modem EXCEPT !.set["apn"] = serviceArg]
       \/ Refuses /\ UNCHANGED modem
    /\ servicePc' = "idle"
    /\ serviceSame
    /\ UNCHANGED <<supl_config, flags, serviceArg, raced, settings>>

-----------------------------------------------------------------------------
ModemStep == ModemLost \/ ModemReturns \/ SuplFails
ReaderStep == ReaderEnds \/ onATReaderClosed \/ NiAdds
SessionStep(t) ==
    \/ mbm_gps_start(t) \/ gpsctrl_start(t) \/ StartReports(t) \/ StartControl(t)
    \/ SessionBegins(t) \/ Tells(t)
MainStep ==
    \/ open_at_channel \/ gpsctrl_open \/ EngineOn \/ gpsctrl_set_device_is_ready
    \/ gpsctrl_set_position_mode \/ supl_init \/ SuplSends \/ Restores
    \/ HandlesCommand \/ NmeaLost \/ NotReady \/ gpsctrl_cleanup \/ EngineOff \/ DevicesRemoved
    \/ Signals
FrameworkCalls ==
    \/ \E kind \in {"start", "stop"} : LocksToStartOrStop(kind)
    \/ mbm_gps_set_position_mode \/ mbm_agpsril_update_network_state \/ gpsctrl_set_supl_server
    \/ mbm_gps_cleanup
FrameworkStep == mbm_gps_stop \/ gpsctrl_stop \/ SessionEnds \/ supl_set_server \/ CleanupStep
ServiceStep == SetsFlag \/ gpsctrl_set_apn_info

Next ==
    \/ ModemStep \/ ReaderStep \/ mbm_gps_ni_request
    \/ \E t \in Callers : SessionStep(t)
    \/ \E e \in Events : supl_fail(e)
    \/ MainStep \/ FrameworkCalls \/ FrameworkStep
    \/ ServiceStep \/ supl_set_apn_info

\* Threads run, the modem comes back; nobody has to call, and nothing has to fail.
Fairness ==
    /\ WF_vars(ModemReturns) /\ WF_vars(ReaderStep)
    /\ \A t \in Callers : WF_vars(SessionStep(t))
    /\ \A e \in Events : SF_vars(supl_fail(e))
    /\ WF_vars(MainStep) /\ SF_vars(Restores)
    /\ WF_vars(FrameworkStep) /\ WF_vars(supl_set_apn_info)

Spec == Init /\ [][Next]_vars /\ Fairness

-----------------------------------------------------------------------------
(***************************************************************************)
(* Properties.                                                             *)
(***************************************************************************)
MainPcs == {"open", "handshake", "engine", "ready", "mode", "apn", "apnSends", "server",
            "serverSends", "restore", "restoring", "loop", "lost", "cleanup", "tellsOff", "removed",
            "exit", "exitCleanup", "exitTells", "signal", "done"}

TypeOK ==
    /\ is_ready \in BOOLEAN /\ fallback \in BOOLEAN /\ pref_mode \in Modes
    /\ supl_initialized \in BOOLEAN /\ supl_config \in [Settings -> Nat]
    /\ flags \in [Flags -> BOOLEAN] /\ is_roaming \in BOOLEAN
    /\ gps_started \in BOOLEAN /\ gps_should_start \in BOOLEAN /\ gps_status \in Statuses
    /\ current_ni_request \in Nat /\ notification \in Nat /\ niPc \in {"idle", "adds"}
    /\ gps_initiated \in BOOLEAN /\ cleanup_requested \in BOOLEAN
    /\ cmds \in Seq(Commands)
    /\ mutex \in Callers \cup {"free"} /\ mode \in Modes
    /\ step \in {"none", "start", "mode", "reports", "control", "begin", "tell",
                 "stop", "stopReports", "stopControl", "end", "tellEnd"}
    /\ mainPc \in MainPcs /\ arg \in Nat
    /\ fwPc \in {"idle", "holds", "sends", "quit", "request", "wait", "stopped", "returned"}
    /\ fwArg \in Nat /\ servicePc \in {"idle", "sends"} /\ serviceArg \in Nat
    /\ at \in {"none", "open", "hup", "closed"} /\ nmea \in {"none", "open", "hup"}
    /\ closing \in Nat
    /\ event \in [Events -> {"none", "failed", "zero", "holds"}]
    /\ modem \in [up : BOOLEAN, mode : Modes \cup {"off"}, stat : BOOLEAN,
                  set : [Settings -> Nat \cup {-1}]]
    /\ asked \in BOOLEAN /\ told \in [status : Statuses, ni : Nat]
    /\ excused \in BOOLEAN /\ raced \in BOOLEAN
    /\ scenario \in Scenarios
    /\ calls \in Nat /\ settings \in Nat /\ losses \in Nat /\ failures \in Nat
    /\ refusals \in Nat /\ nis \in Nat

\* The holder of the mutex is where it can hold it, and nobody else is there.
MutexDiscipline ==
    /\ mutex = "free" <=> step = "none"
    /\ mutex = "main" <=> mainPc = "restoring"
    /\ mutex = "fw" <=> fwPc = "holds"
    /\ \A e \in Events : mutex = e <=> event[e] = "holds"

\* The order to fall back is taken by the start that it was given for, not by a later session.
FallbackIsTaken == fallback => /\ mutex \in Events
                               /\ step = "mode"

\* The device is ready only while main_loop has a session with the modem.
ReadyInSession == is_ready => mainPc \notin {"open", "handshake", "engine", "ready", "cleanup",
                                             "tellsOff", "removed", "exitCleanup", "exitTells",
                                             "signal", "done"}

\* Types; the mutex of the sessions; a fallback does not outlive the failure that asked for it;
\* the other threads send commands only while a session with the modem is open.
GpsInv == TypeOK /\ MutexDiscipline /\ FallbackIsTaken /\ ReadyInSession

Quiet ==
    /\ mainPc = "loop" /\ cmds = << >> /\ mutex = "free" /\ fwPc = "idle" /\ servicePc = "idle"
    /\ niPc = "idle" /\ closing = 0 /\ at = "open" /\ nmea = "open"
    /\ \A e \in Events : event[e] = "none"

\* When all is quiet, the receiver runs exactly if the framework wants a session: a start before
\* the device was ready is made good, a session survives the loss of the modem and a SUPL
\* failure, a stop is not undone.  Excused are a refused command and a stop that met a modem
\* that runs while its channel is being reopened: it sends nothing ("device not ready").
RunsWhenAsked == Quiet /\ ~excused => (asked <=> modem.mode # "off")

\* When all is quiet, the framework was told the last status and the last request of the
\* network, although both are handed out from one buffer that any thread overwrites.
ToldTheLast ==
    Quiet => told = [status |-> gps_status, ni |-> current_ni_request]

\* When all is quiet, the modem has the SUPL server and the APN that were set last, whether the
\* device was ready for them or not.  Excused are refused commands, and values that are set
\* while main_loop configures the modem.
ConfiguredWithTheLast == Quiet /\ ~excused /\ ~raced => modem.set = supl_config

\* The cleanup returns: main_loop ends from wherever it is, and its signal is not lost.
CleanupReturns == fwPc = "quit" ~> fwPc = "returned"
=============================================================================
