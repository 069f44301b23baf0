# A TLA+ model of the MBM RIL

This directory holds TLA+ specifications of the vendor software for Ericsson
mobile broadband modules in this repository: the radio interface layer
(`mbm-ril/`), which Android's RIL daemon loads and which talks AT commands to the
modem over one or two serial devices, the GPS library (`libmbm-gps/`), and a
Java service (`mbmservice/`) that feeds the GPS library with settings. TLC checks
the specifications on small instances, and TLAPS proves the main invariants for
all values of the constants.

`tlc -config X.cfg M` runs a configuration (the table below pairs them), and
`tlapm M_proofs.tla` checks the proofs of a module.

## The system

| Component | State | Operations | Talks to |
|---|---|---|---|
| AT channel (`atchannel.c`) | an `atcontext`: file, pending command and its response, two mutexes with a condition each, kick pipe, `readerClosed`; one static `strbuf` for all contexts | `at_send_command_*`, `at_handshake`, `at_open`, `at_close`, the reader thread (`readerLoop`, `processLine`) | called by every component; calls back `onUnsolicited`, `onATReaderClosed`, `onATTimeout` |
| Request queues (`u300-ril.c`) | per queue a request list, a sorted list of timed events, `closed` | `onRequest`, `enqueueRILEventName`, `signalCloseQueues`, the loop of `queueRunner` | one runner thread per queue, with `-x` a second one for high priority |
| Channel life cycle (`u300-ril.c`) | where each runner is, its file, `closed` | open the device, wait for `EMRDY`, initialise, serve, close, wait for the device to go, again | AT channel, queues, radio state |
| Request dispatch (`u300-ril.c`) | none | `processRequest` refuses by radio state, then calls a handler | all handlers |
| Radio state (`u300-ril-device.c`) | `sState` under `s_state_mutex` | `setRadioState`, `requestRadioPower`, `onSIMReady` | enqueues events; tells the framework |
| SIM (`u300-ril-sim.c`) | `s_simRemoved`, `s_simResetting`, `sim_hotswap`, the static `enabled`, a cached path | polls, reports, hot swap, PIN, SIM IO | radio state, queues |
| SMS (`u300-ril-messaging.c`) | `s_outstanding_acknowledge`, the list of held PDUs | incoming messages (reader thread), `requestSMSAcknowledge` (runner), sending | framework |
| Packet data (`u300-ril-pdp.c`, `net-utils.c`) | `s_e2napState`, `s_ActiveCID`, `s_DeactCalled` | setup and teardown of a context, `*E2NAP` | network interface, network component |
| Network (`u300-ril-network.c`) | registration, operator and signal caches, fast dormancy | requests of the framework, unsolicited lines, polls | queues, packet data |
| SIM toolkit, OEM hook, request data, parsing | little | one request each | AT channel |
| GPS library (`mbm_gps.c`, `gpsctrl/`) | started, should start, ready, the SUPL configuration, a command socket pair; a sibling of the AT channel | start, stop, cleanup, a main loop that recovers an AT and an NMEA channel, a thread per `*E2GPSSTAT` | framework, modem, service socket |
| Service socket (`mbm_service_handler.c`) | one socket, the settings last received | `service_handler_init`, `stop`, `socket_loop`, messages both ways | GPS library, service |
| MBM service (`mbmservice/`, Java) | `Status`, static `localSocket` and `initDone`, one thread per `ServiceLoop` | connect, read commands, send settings | service socket |

Threads: the framework's thread (`onRequest`), one runner per queue, and per
session of an AT channel one reader thread, which runs all unsolicited handlers
and must not send commands. An error of any channel is found by a reader (end of
file) or by a runner (a command without an answer); it marks *both* queues closed,
and every runner closes and reopens its own channel.

What is hard:

* callers, the reader and closers meet in one `atcontext` with two mutexes and
  two conditions, and parts of it (`strbuf`, the file, `readerClosed`) are used
  without either;
* a reader thread can outlive its session and see the next one's file;
* `closed`, the radio state and the SIM flags are written by several threads,
  partly without a mutex, while the device disappears and returns;
* answers of the modem are used after the reader thread has handled newer news;
* timers are events in a queue, so a poll lives on only if it enqueues its
  successor.

What makes each component correct: a command gets its own answer or an error, in
bounded time once the channel is closed; a queue runs everything once, in order,
not early and in the end; after any failure the runners serve again; the
framework knows the radio state, and a radio that waits for its SIM is polled
until it has an answer; no SMS is lost, repeated, overtaken or held for nothing.
A data context that is lost is reported; an active one has its interface. The modem
reports whenever the screen is on, and a cached registration that only reports wrote is
the modem's. A GPS that should run
runs, also after the modem went away, and one that should not does not; cleanup
returns. The library has the settings of the service.

`PROJECT.json` lists the hazards with their lines.

## The modules

### AtChannel: commands and the reader thread

One `atcontext`, the threads that call it, its reader and the modem. `pc[t]`
is where a thread is; `commandmutex` and `requestmutex` are the holders of those
two resources (a pending response for the second); `type`, `response`, `fdOpen`
and `readerClosed` are the fields of the context. An action is one section under
`commandmutex`, cut where the code touches what the mutex does not cover: writing
`strbuf` (`LockAndFormat`), testing and invalidating the file in `at_close`
(`CloseTest`, `CloseFd`), the unlocked test of `readerClosed`. A line of the
modem is its kind, its prefix, and as ghosts the command it answers and its
position. `Lines` and the wrapper operators translate what `processLine` and the
`at_send_command_*` wrappers make of them.

A command that times out, or that `NO CARRIER` ends, leaves its own final line on
the wire; `desync` (a ghost) records it. From then on the code gives answers to
the wrong commands until the channel is reopened, so
`AnswersOwnCommandInSync` speaks of the time before. `at_handshake` sleeps "to
let the input buffer drain", but it does so with `commandmutex` held, which the
reader needs in `processLine`.

### RequestQueue: one queue and its runner

The two lists with their pointers' effect (`InsertInOrder` is the insertion of
`enqueueRILEventName`, with its comparison and its uncarried second), the
condition variable, `closed`, and the loop of `queueRunner` with its two waits. A
timed wait is armed with the first event's time *when the wait begins*. Time is
a counter; `ClockTime` splits it in seconds and "nanoseconds" of
`NsecPerSec`, so that the carry at `tv_nsec > 1000000000` is met.

### DeferredWork: what the queues promise

An abstract specification of three verbs: a request that is made is served, in turn; a
callback that is scheduled for an instant runs once, not before it; of those that
wait the earliest is chosen. `RequestQueue` instantiates it (`Work`) with a refinement
mapping that forgets the lists' order, the locks, the closes and the runner's
position: `waiting` is the set of listed events and, between two steps, `chosen` the one
in the runner's hands. TLC checks `ImplementsDeferredWork`, the specification with
its fairness; TLAPS proves the safety part (`ImplementsWork`).

### ChannelRecovery: losing and reopening the channels

Per queue a runner (`pc`), a context that survives its sessions, and the reader
threads of several sessions, each with its own position; `todo` is the rest of
the callback a thread is in, whose sections other threads interleave with. Here
are the windows of the recovery: `q->closed = 0` without the mutex, a callback of
an old session against a new one, a kick read by a reader that then looks at the
new file. `Overlap` names the states in which a context has more
than one reader, one of them of a finished session.

### RadioState: the radio, its SIM and their events

`sState` and the flags of the SIM, written by the reader thread and the runners.
Handlers are sequences of operations, `todo[t]`: a write under `s_state_mutex`, a
read of `sState` outside it with the decision that depends on it, one command, or
one `enqueueRILEvent`. So every place where `setRadioState`, `pollSIMState` or
`getSIMStatus` reads the state again is a place where another thread may have
written it. `known` (the state the framework was told) and `prepared` (`onSIMReady`
ran) are ghosts. The modem restarts, reports SIM states only while they are
enabled, and sends lines that may be handled late. The queues are reduced to due
events in order and delayed ones in a bag; `RequestQueue` checks that the real
ones serve that purpose.

### SmsAck: incoming messages and their acknowledgements

`s_outstanding_acknowledge` and the held PDUs, the three handlers of the reader
thread, `requestSMSAcknowledge` with its loop, and the refusal of the
acknowledgement by `processRequest` in a radio state in which it is not allowed,
after which the flag stays set.

### PdpContext: the data connection

`pc` is where the normal runner is in `requestSetupDefaultPDP`,
`requestDeactivateDefaultPDP` or a context list, `readerPc[c]` where the reader
thread of channel `c` is in `onConnectionStateChanged`, and `net` is the modem's
connection. Each read or write of `s_e2napState`, `s_e2napCause`, `s_DeactCalled`,
`s_lastPdpFailCause` and the socket `ifc_ctl_sock` is a step, because none of them
(but the two writes of the reader) is under a mutex: a reader writes the state, then the
cause (the other way round for a report of two parts: `TakeReport`, `FinishReport`), and
`mbm_check_error_cause` reads the cause, then the state (`ReadCause`, `SetFailCause`, the
copy in `e2napCause[t]`). The `status` of an answer is copied before the `disconnect()` of
the failed setup. A command is one
step, possible when its reader thread has handled all earlier lines. The waits
for `*E2NAP` may end at any time, which covers their timeouts, however long. `told`
is what the framework believes: the cid it takes for active, or `Unsure` once a
request failed while it believed in one.

Both channels of a daemon with `-x` subscribe to `*E2NAP` (`initializeCommon` runs
on both), so each report is handled twice, and a list sent by the prio runner can
overtake the answer to a setup. `LossIsReported` leaves out two steps of the prio
runner by `overtaken`: that list, when it comes after the setup's last look at the state,
and an `initializeCommon` of the prio channel in the course of a setup, which sets
`s_e2napState` to unknown, so that a disconnection the reader has just written there is
forgotten and the setup reported as active (found with two faults). A reader that works off
a report of the previous connection during the next setup is covered: the report it
enqueues is answered from the modem, which tells addresses (`AT*E2IPCFG?`) only while the
connection is up. But it takes the interface down after it was configured, so
`ActiveIsConfigured` speaks of one queue only. Other things that the properties do not
promise, and the code does not give:

* a deactivation that fails leaves `s_DeactCalled` set, so that a later loss is
  not reported (`Unsure` stands for it);
* a setup whose connection was up for a moment may fail with the status 0,
  `PDP_FAIL_NONE` (`wasUp` in `FailedSetupHasCause`);
* a setup may be answered with the rejection of an earlier one. It resets `s_e2napState`
  (`u300-ril-pdp.c:651`) and not `s_e2napCause`, so when its `AT*ENAP=1` is refused, or brings
  a report of two parts, which leaves the cause alone while connecting, the old cause is what
  `mbm_check_error_cause` finds. The comment of `requestLastPDPFailCause` speaks of "the most
  recently failed" setup. `FailedSetupHasCause` says what holds: the status is a rejection only if
  one is on record (`rejected`), and the report `CONNECTING` of a setup's own command takes
  it off the record, on one queue and in one part (with a prio queue the other reader may
  still be writing the old one);
* a teardown fails when the reader closes the socket between the runner's
  `ifc_init` and `ifc_down`, or when `socket()` fails; `ifc_configure` fails likewise and the
  setup goes on, so `ActiveIsConfigured` assumes that `socket()` did not fail;
* the interface may stay up after a setup that was disconnected while it was being
  configured.

### Network: registration, operator, signal, dormancy

While the screen is on, the modem reports changes and requests are answered from
`s_reg`, which the reader threads write; while it is off, a request subscribes, asks
and unsubscribes. `lock` is `s_screen_state_mutex`, held by the normal runner (a
request) or the prio runner (`onSIMReady`) across commands; nothing guards the cache.
`pc[r]` is where a runner is (its labels name the next command or
section), `lines[c]` and `readerPc[c]` are the reports of a channel and where its
reader thread is in handling one. `s_reg_change` and `old_response` are the
buffered operator, `rssi_queue` the counter of queued signal polls, `fd` the fast
dormancy, whose `chains` count the polls that enqueue themselves, `selection` the
chain of `pollOperatorSelected`. `fw` is what the framework knows: the last values it
was given, which of them it was told to ask for again (`stale`), and three ghosts that say
how far it may rely on them. `fresh` are the domains whose registration was reported when
it last changed and whose cache only reports wrote since; `told` those of them whose cached
registration the framework was told of; `unsure` names what a refused command or a silent
write left open. A report is told of in a step after the one that writes the cache, and a
cell that is no news (`Updates`) may be that of a domain the framework was never told of, so
the operator and the cells are promised for the domains in `told`, whatever the screen.

### GpsControl: sessions of the GPS

`mainPc` is where `main_loop` is between opening the channels, configuring the modem,
restoring the session and running commands; `cmds` are the bytes in its socket
pair; `mutex`, `step` and `mode` say who starts or stops a session and how far it is:
`mbm_gps_start` is called by the framework, by `main_loop` and by the event threads of a
SUPL failure. The channels hang up, the reader thread reports it later (`closing`), and
the modem forgets its mode and settings. `told` and `asked` are ghosts of what the
framework heard and wants.

### ServiceLink: library and Java service

The service's main thread (setters of `Status`, the receiver), its `ServiceLoop`s
with the static `localSocket` and `initDone`, the library's `socket_loop` threads (each
`mbm_gps_init` starts one and nothing ends it), and connections with two
ends and two directions. A message is one item; the three writes of a request for
PGPS data are not, so that another command can get in between. `quit` and `lost` are
ghosts: connections that were told to quit, and the races that may lose a setting.
Names that `GpsControl` has, too, begin with `Link` here: `Gps_proofs` extends both.

## The runs

| Run | cfg | Instance | Shows |
|---|---|---|---|
| `at_safety` | AtChannel (MCAtChannel) | one thread that uses every wrapper, 2 calls, 2 intermediate lines, 1 unsolicited or SMS line, a dying modem; or 2 threads that command and handshake, 2 calls, `NO CARRIER`, a spurious wake-up; or 2 threads, 3 calls; timeouts; symmetric callers | one pending command, mutexes as the labels say, no missed signal; own answer (with two threads, while in sync), complete and in order; own text written, unless a third call was formatted during a wait |
| `at_live` | AtChannelLive | 2 callers that may also close, 2 calls without timeout, dying modem, second context | a command returns, and the reader ends once the file is closed |
| `queue` | RequestQueue | 2 producers, 2 requests, 2 timed events, 5 ticks, 2 closes, a failed initialisation, a spurious wake-up | the queue's invariants, and that it implements `DeferredWork` with its fairness; a close is seen |
| `sms` | SmsAck | 6 PDUs, 4 radio changes | at most one unacknowledged, none lost or overtaken, each sent |
| `recovery` | ChannelRecovery | 1 queue: 2 readers alive, 3 of: vanished device, unanswered command, failure, SIM insertion, each once; 2 queues: 1 reader each, any one of them | no lost close, the radio state after a recovery, a failure of either channel brings both back, recovery for good |
| `radio_two_queues` | RadioState (MCRadioState) | 2 runners; a change of the SIM, or 2 power requests and a refused command | a radio that waits is about to poll, and does not wait for ever |
| `radio_restart` | RadioRestart | 1 runner, any one change of the SIM, 1 restart of the modem | polled while not ready, prepared when ready, informed |
| `pdp` | PdpContext | 2 profiles; 1 queue: 2 requests, 1 of: network ends the connection, refused command, garbled report, failing `socket()`, lost channels; 2 queues: 1 request, 1 of them; reports of one part and of two | the state settles on the modem's, losses are reported, an active connection has its interface, a failed setup does not say that nothing failed, nor a rejection that is off the record, requests return |
| `network` | Network | eleven mixes of up to 3 requests, 4 changes of the modem, 1 refused command, on 2 runners and 2 channels, before or after the first `onSIMReady` | reports are on whenever the screen is, cache and operator are the modem's and the framework knows, no signal report is lost, requests return, dormancy ends |
| `gps` | GpsControl | eight mixes of up to 4 calls, 2 SUPL failures in 2 threads, a loss of the modem, a refused command, 2 settings, 2 network requests, the cleanup | the receiver runs exactly if it is wanted, the framework is told the last, the modem has the last settings, cleanup returns |
| `service` | ServiceLink | five mixes of 2 changes of settings, GPS off and on, a request for data, a second loop; 2 loops, 2 `socket_loop`s | one server and one loop per connection, settings arrive, a stop ends the link |

A second caller, session, queue or command is what nearly every property here needs to
be broken; a third adds none of its own, since the state a thread leaves behind
is a flag or a list whose length the code never looks at. The exception is the shared
text buffer, where a third call can overwrite the text of a second that waits for the
first: one scenario of `at_safety` has three calls. `AtChannel`, `RadioState`,
`Network`, `GpsControl` and `ServiceLink` take their bounds from a set of scenarios in
their MC modules, each a mix of events that meet in the code: the actions are the same in
all, and a scenario (a variable that never changes) only says how often each may happen. With a prio queue `pdp`
allows one request: a second one multiplies the states by more than fifty, and its new
behaviours are those of a reader that lags behind; the proofs cover any number of them.
Where order in a longer list matters (`QueueInv`, `EventsOnTime`, `KeptInOrder`) the
proofs cover all lengths. The bounds are the constants named `Max...`, `Retries`, the
sizes of `Events`, `Loops` and `Handlers`, and the fields `calls` and `max...` of a scenario; a
spurious wake-up, a refusal and a change of the SIM are each counted by one of them.
`CHECK_DEADLOCK FALSE` is said of the GPS library and the service, which stop when
nobody calls.

One run shows a disagreement of the code with what it says of itself:
`radio_stale`. `pollSIMState` sets `SIM_READY` from an answer that is older than the
removal of the SIM. `onSimHotswap` has set `SIM_LOCKED_OR_ABSENT` in between; the poll it
enqueued finds the radio `SIM_READY` and returns, `*ESIMSR` is ignored while
`s_simRemoved`, and the radio stays ready without a SIM.

## Observations

What the properties leave out, because the code does not give it. Each was met in
a counterexample or in translating the lines.

AT channel and queues:

* `at_send_command_full` formats into one static buffer under `commandmutex`, and the wait
  for `requestcond` releases that mutex. When a command ends and its thread, or a third,
  formats the next one before the waiting thread runs, the waiter writes the other's text:
  three calls of two threads on one channel (`reformatted` in `WritesOwnCommand`), although
  the wait is there "to prevent future problems due to calls from other threads". In the RIL
  a channel has one command thread; the GPS library's has several. With two channels
  (`SharedStrbuf = TRUE`) no wait is needed.
* After a command that was given up, answers go to the wrong commands until the channel
  is reopened.
* `RecoversForGood` excuses a runner that ended (an error of `select` ends it for ever)
  and endless `Overlap`; without the excuse a reader of an old session closes each
  new one.

Radio and SMS:

* The static `enabled` of `setPollSIMState` outlives the modem's subscription, and
  after a restart SIM states are reported no more.
* `EveryPduSent` assumes that no acknowledgement is refused; one refusal
  holds all later messages.

Network:

* `requestSetNetworkSelectionAutomatic` writes the cached registration with the screen
  on and tells nobody (`Overwritten` takes the domain from `fresh` and empties `told`); a
  later report of the same registration is then no news.
* `requestOperator` resets `s_reg_change` before it asks; when `AT+COPS?` fails, the old
  operator is served until the next change (`unsure`).
* A screen request before the radio is ready is refused, and its value forgotten.
* `s_registrationDeniedReason` is only reset with the screen off. Two chains of
  dormancy polls share `old_rx_packets`, and the transmitted packets are never
  compared, so a connection that only sends counts as dormant. `getNetworkType`
  remembers a value that it failed to set.
* A screen that goes off unsubscribes the channel of its runner only, and a new cell
  that the other domain reported already is no update, so the framework may know a cell in
  one of the domains only.

GPS:

* `mbm_gps_stop` sends nothing while the device is not ready. When the AT channel was
  lost but the receiver still runs (a channel is being reopened, or a late
  `CMD_AT_LOST` is read in the next session), nothing stops it later, although the
  function's comment says "Stops navigating." `excused` in `RunsWhenAsked` stands for it.
* An APN that is set while `main_loop` configures the modem is lost: not sent yet since
  `supl_initialized` is false, and not resent since `old_info` knows it (`raced`).
* A start that fails after it was deferred leaves `gps_should_start` set.
* `mbm_gps_ni_respond` reads `current_ni_request` again; a second request overwrites the
  first. An event thread may lock `mutex` after cleanup destroyed it. Both are outside
  the model.

Service:

* Any `PROVIDERS_CHANGED` while the GPS is enabled starts a second loop, which replaces
  `localSocket`; the end of one resets `initDone` for both and closes the other's socket
  (`two loops` in `lost`).
* `sendAllInfo` composes a text before `sendMessage` is entered, so an older value can
  overtake a newer one; `SEND_ALL_INFO` may land inside a request for data; settings that
  arrive before `gpsctrl_init` are forgotten.
* `NO_APN_DEFINED` is ignored: the library keeps the APN it had. A loop gives up after
  its attempts, and nothing starts another until a provider changes.
* The low byte of a length is a `char`: from 128 on it is negative where `char` is
  signed, and the link breaks. A message that arrives in parts is taken for complete.
  Both are about bytes, and outside the model.

## Fairness

Every thread is scheduled (weak fairness per thread), as POSIX threads are. In
`AtChannel` that includes callers inside a call, and the modem takes and answers
commands while it is there, which is the assumption of a channel without a timeout.
In `RequestQueue` the runner and time are fair, and a
timed wait ends in the end. In `ChannelRecovery` a device that left returns, which
nothing guarantees, but nothing works without. `RadioState` adds strong fairness
for a delayed event: the queue is sorted by time, so one that is due is not
overtaken for ever; and a SIM that is powered answers in the end. In `SmsAck` the framework
acknowledges what it is sent, as the RIL interface demands of it. In `PdpContext` and `Network` the runners and reader
threads are fair, the network is not. In `GpsControl` threads run and a modem that left
comes back; `main_loop`'s restoring and an event thread ask for a mutex that others take a
bounded number of times, hence strong fairness. In `ServiceLink` the threads of both
processes run, and the framework initialises the library when the GPS is enabled and
cleans up when it is disabled. No other action of a user is fair.

## The proofs

From the named assumptions on the constants only (`ThreadAssumption`,
`ApiAssumption`, `BoundAssumption` and their like), so for any number of threads,
messages and delays.

* `AtChannel_proofs`: `LocksCorrect` is `Spec => []LockInv`, and `OnePendingCommand`,
  `SectionsExclusive` and `NobodySleepsThroughASignal` say its parts. The invariant is
  `LockInv == TypeOK /\ PendingDiscipline /\ MutexDiscipline /\ NoMissedSignal`:
  the type invariant needs to know that a response exists while a command is
  pending, that needs mutual exclusion, and that needs to know which waiters a
  signal can reach. `AnswersMatch` adds `SyncInv`: the serial numbers grow from the line in
  `processLine` through the buffer to the descriptor (`StreamInv`), and while nothing put the
  channel out of step all that is under way belongs to the command that waits, and nothing is
  when none waits (`StepInv`, `Executes`); where one thread has the channel for itself, the
  close in `onTimeout` leaves it no way to write again. `AnswersComplete` adds `HandInv`: each
  line the modem sent in answer to the text of the waiting command is in the response or still
  under way with the prefix asked for (`GatherInv`), its lines are stored latest first
  (`InfosInv`), and `readline` drops no line but the second of an SMS report (`ReadInv`).
  The attempt corrected the property: it counted every line of the answer, which a command
  whose text was formatted over by another's, with another prefix, does not get.
* `ChannelRecovery_proofs`: `RecoveryCorrect` and `RadioIsSet`. What is left of a callback
  that marked a channel dead or the radio unavailable still contains both closes
  (`NoLostClose`, `NoLateUnavailable` over the tails in `Rests`), for one queue or two and
  any number of readers and faults.
* `Gps_proofs`: of `GpsControl`, `SessionsCorrect`, `LastIsTold`, `ReceiverFollowsFramework`
  and `ModemIsConfigured`. `GpsInv` is inductive as it stands: `main_loop` is at
  `restoring` exactly while it holds the mutex, so nobody else moves it there; a start takes
  the order to fall back before it unlocks; and a session with the modem is left only
  through the two places that mark the device as not ready. The others speak of the quiet
  library, so each has an invariant for the busy one. `Telling`: what the framework was not told
  has its callback asked for, or a caller about to ask. `RunInv`: what each holder of the mutex
  finds at each step (`HolderInv`), and the two halves of `RunsWhenAsked` (`OffUnlessAsked`,
  `RunsIfAsked`), where a receiver that a SUPL failure stopped counts as running while a thread
  is on its way to start it; that this thread will not drop a report with mode and status 0
  needs `PreferenceInv`: while SUPL runs in a configured session, SUPL is preferred.
  `ConfigInv`: a setter about to send has the value set last, and so has `main_loop` unless it
  was overtaken; and the APN's setter finds SUPL initialized.
  Of `ServiceLink`, `LinkCorrect` and `SettingsAreKnown`, for any number of loops and threads.
  `AcceptedOnce`: a connection is made once, waits in one backlog and is accepted once, and no
  command is written to it before. `LoopsInv`: until a second loop is made, the loop that is
  alive owns `localSocket` and `initDone`. While none of the four races has happened,
  `OrderInv` says that a request for data and its address follow each other in a connection, so
  that `SEND_ALL_INFO` is not taken for a length, and that a loop whose connection is open at
  the library has not ended; `OldInfo` that the APN `parse_message` compares with is the
  one that `GpsCtrlContext` has; and `CoverInv` names, for each setting and a thread that reads,
  why it is or will be known: the loop has all or this one to send, the main thread has it, it
  is the last of its kind in the connection, or it has arrived. The model has no fifth race.
* `Network_proofs`: `NetworkCorrect`, `RegistrationIsSeen` and `NewsAreSeen` (the operator and
  the signal). `Base` has the types, what each place of a request holds, and the lock;
  `Applied` adds that what the screen asks for is set, or the runner that sets it is still on
  its way. `SignalFollows`: a change of the signal that was not told waits in a line, in a
  reader, in an event, or before the command of a poll. For registration, `StepsSeen` sorts the
  steps into twelve classes by what they do to the cache, to the waiting reports and to what the
  framework was told, and three invariants are kept by each: `CacheFollows` (a fresh domain
  is as the modem has it, or that waits in a report, as the last one of a domain on
  each channel does: `Latest`), `RegistrationKnown` (for each domain in `told` a telling is
  coming, or the framework will ask, or it knows, where a cell may be known in the
  other domain), and `OperatorKnown` (the buffered and the told operator are that of every
  cell in `told`, or a report that waits will make the framework ask again). Writing these
  down showed that two of the run's properties held only for its scenarios: they
  relied on the screen, while a cell could be known of neither domain after a silent write, and
  the operator be served from before it. They now speak of `told`, and a scenario was added.
* `PdpContext_proofs`: `PdpCorrect`, `StateSettlesOnNetwork`, `LossesAreReported` and
  `FailedSetupsHaveCauses`. What the properties say of a quiet moment is carried through the
  others by `PdpInvariant`. `Wires`: the last valid report on each channel is of the state the
  modem is in, and when none is left `s_e2napState` is that state or unknown; `Held`: a line
  that a reader has begun to write stays the first. `CauseOK`: whoever reads the cause and the
  state to find that nothing failed, or that a rejection did, has a connection or a rejection
  for it, at each place between the two reads (`Locals`, `NothingFailed`, `NoRejection`).
  `FlagGoes` and `FlagIsGone`: an `s_DeactCalled` left by a teardown is reset by the report of
  the setup's own `AT*ENAP=1`, before the modem has addresses to tell. `News`: a connection that
  the framework believes in, or is about to be told of, is up, or a disconnection is in a line,
  in a reader, an event or a list that is yet to be sent. `Interface`: while it is up, no
  reader thread is on its way to take the interface down, at each place of `ifc_configure`.
* `RadioState_proofs`: `RadioCorrect`, `WaitingRadioIsPolled`, `FrameworkIsInformed` and
  `ReadyRadioIsPrepared`, for any number of repolls and any scenarios. Handlers are sequences, so
  the invariant speaks of what each thread's rest begins with and contains: `HandlersOK` (the
  framework is never informed without the test for a new state after it), and for each promise
  a rest that keeps it (`Informed`, `Polled`, `Prepared`), which a thread that writes `sState`
  hands over to itself.
* `RequestQueue_proofs`: `QueueCorrect` and `EventsKept`, and their parts under the names
  of what they promise. Requests: made = processed, taken and queued, in this order.
  Events: `EventInv` carries the relation of each event's stamp to the instant its
  caller asked for, with lemmas about insertion into a sorted sequence and about
  the order of uncarried times; `EventsAccounted` adds that the numbers 1 to the last
  are the listed, the held and the fired, each once. `ImplementsWork` maps each step of
  the queue to a step of `DeferredWork` or a stutter.
* `SmsAck_proofs`: `AckCorrect`, and `MessagesKeptInOrder` with lemmas about filtering and
  removing from a sequence.

Only model-checked: all liveness (fairness and ENABLED are beyond the prover), and the action
property `WritesOwnCommand`. Every invariant of a passing run is proved.

## What is abstracted

Texts, parsing and logging; a command's arguments; the length of delays (an event
with a delay runs some time later) except in `RequestQueue`; failing memory
allocation; errors of `pthread_*`. A line that does not parse is dropped by the code and
absent from the models, except where its prefix alone changes state. Per module:

* `AtChannel`: the Android build, whose timed wait takes a relative time; the other
  `pthread_cond_timeout_np` does not normalise `tv_nsec`.
* `RequestQueue`: one queue. `RIL_EVENT_QUEUE_ALL`, which would insert an event in both, has
  no caller.
* `ChannelRecovery`: `at_close` is one step (and several in `AtChannel`). `at_open` does not
  fail: it does so only without memory or descriptors, before the first session of a thread.
  The escape sequence of `onATTimeout` and the cold boot after the second one happen outside:
  a modem that restarts is one whose device dies (`DeviceDies`).
* Above these modules a command is one step or fails.
* `RadioState`: one reader thread, which hears every report, and a modem that restarts only
  while the normal queue is open.
* `PdpContext`: one context in use, a network that refuses with three kinds of cause (none, one
  with a `PDP_FAIL_` value, one without), the recovery of the channels in one step; reading
  the state in `mbm_check_error_cause` and writing `s_lastPdpFailCause` are one step.
* `Network`: LAC and CID are one value, written together with the registration; the
  technology (`s_cgreg_act`) is left out. Channels stay open (`ChannelRecovery` closes
  them). The daemon has a prio queue; in `setScreenState` the subscription `AT+CGEREP` and
  the question for the SMS storage are left out, which change nothing the others read.
* `GpsControl`: two event threads at a time; no interval, aiding data or extended ephemeris;
  of SUPL's four groups of settings the two that can change (APN and server). An opening that
  meets an error instead of `EMRDY` is a later opening. A request of the network is written to
  the buffers in one step, so a notification is the old or the new one, never parts of
  both. `main_loop` takes one event at a time: a loss of the NMEA channel and a
  command from one `epoll_wait` are handled in the order command, loss. The reports
  `*E2GPSSTAT` come from the modem's own failures; `gpsctrl_stop` turns them off first, so that
  its own stop causes none, and no property depends on that order.
* `ServiceLink`: numbers for settings, an APN and one flag; messages are whole and parse. A
  connection is made and `initDone` set in one step, and `service_handler_init` binds
  and listens in one, without failure. A descriptor that is closed twice was not taken in
  between. A server thread that is not in its `read` when its connection is closed, with nothing
  queued, leaves when the service's end is closed, where the code's `read` fails at once.

## Not modelled

* `u300-ril-requestdatahandler.c`, `u300-ril-error.c`: copies and tables.
* `u300-ril-oem.c`, PIN entry, SIM IO, sending SMS, the SMS storage, the lists of
  networks and neighbouring cells: a command or a few of one runner and their answer,
  with no state that another thread reads. `AtChannel` is their model.
* `u300-ril-stk.c`, `at_tok.c`, `fcp_parser.c`, `misc.c`, `nmea_reader.c`,
  `nmea_tokenizer.c`: parsers and encoders that run on one thread to their end. Their
  hazards are those of bytes in a buffer, which unit tests reach and a model of
  abstract values does not.
* `gpsctrl/atchannel.c` beyond what `GpsControl` has of it: the sibling of the AT channel
  in `AtChannel`, with the same mutexes and conditions.
* `patches/`: changes to other repositories.
