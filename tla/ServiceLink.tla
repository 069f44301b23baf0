----------------------------- MODULE ServiceLink -----------------------------
(***************************************************************************)
(* The link between the GPS library and the MBM service                    *)
(* (libmbm-gps/src/mbm_service_handler.c, mbm_gps.c,                       *)
(* mbmservice: MbmService, MbmServiceReceiver, Status, ServiceLoop).       *)
(*                                                                         *)
(* The library listens on a socket in a thread that service_handler_init   *)
(* starts and nothing ends: socket_loop accepts a connection, asks for all *)
(* settings, and reads messages until the connection ends.  The service    *)
(* tries to connect when the GPS is enabled, in a ServiceLoop that reads   *)
(* commands; localSocket and initDone are shared by all the loops and by   *)
(* the main thread, which sends each setting when it changes.              *)
(*                                                                         *)
(* A message is one item in its connection: sendMessage is synchronized,   *)
(* and the library reads the bytes of one.  A descriptor that is closed    *)
(* twice stays closed (its number is not taken in between).                *)
(***************************************************************************)
EXTENDS Integers, Sequences, FiniteSets, SequencesExt

CONSTANTS
    Loops,          \* 1..n: ServiceLoops that may be made, and their connections
    Handlers,       \* 1..n: socket_loop threads that service_handler_init may start
    LinkSettings,   \* what the library understands, in the order of sendAllInfo
    Retries,        \* bound on the attempts to connect (15, and a pause of 5 s, in the code)
    LinkScenarios   \* what happens in one behaviour

\* APN_INFO is a number, 0 if none is defined; the three flags are handled alike.
AllSettings ==
    <<"APN_INFO", "BACKGROUND_DATA_SETTING", "MOBILE_DATA_ALLOWED", "ROAMING_ALLOWED">>
Keys == Range(LinkSettings)

ASSUME LinkAssumption ==
    /\ IsFiniteSet(Loops) /\ Loops = 1..Cardinality(Loops) /\ Loops # {}
    /\ IsFiniteSet(Handlers) /\ Handlers = 1..Cardinality(Handlers) /\ Handlers # {}
    /\ Retries \in Nat
    /\ LinkSettings \in Seq(Range(AllSettings))
    /\ \E T \in SUBSET Range(AllSettings) :
          LinkSettings = SelectSeq(AllSettings, LAMBDA k : k \in T)
    /\ LinkScenarios \subseteq [booted : BOOLEAN, before : 0..1, keys : SUBSET Keys,
                                maxChanges : Nat, maxToggles : Nat, others : Nat,
                                maxRequests : Nat]

VARIABLES
    \* The service.
    status,                 \* per setting its value; APN 0: none defined
    provider,               \* the GPS provider is enabled
    broadcasts,             \* PROVIDERS_CHANGED that the receiver has not handled
    mainText,               \* the message that the main thread is about to send
    pc, retries, todo, text,    \* per loop: where it is, its attempts, sendAllInfo
    localSocket, initDone,
    \* The connections, one per loop.
    ours, theirs,           \* the ends of the service and of the library are open
    up, down,               \* messages to the library, commands to the service
    \* The library.
    libPc,                  \* mbm_gps_init: off, half (before gpsctrl_init), on
    listener,               \* the thread whose socket has the name in the file system
    thread, serving, backlog,   \* per socket_loop
    socket,                 \* context->socket, 0 none
    service,                \* ServiceContext and old_info
    gps,                    \* the settings in GpsCtrlContext
    request,                \* the modem's request for PGPS data: how far it is written
    \* Ghosts, and bounds.
    quit,                   \* connections that CMD_SERVICE_QUIT was written to
    lost,                   \* what happened that may lose a setting (see SettingsArrive)
    linkScenario, changes, toggles, requests

statusVars == <<status, mainText, changes>>
providerVars == <<provider, broadcasts, toggles>>
loopVars == <<pc, retries, todo, text>>
sharedVars == <<localSocket, initDone>>
ends == <<ours, theirs>>
threadVars == <<listener, thread, serving, backlog>>
libVars == <<service, gps>>
requestVars == <<request, requests>>
linkVars == <<statusVars, providerVars, loopVars, sharedVars, ends, up, down, libPc, threadVars,
              socket, libVars, requestVars, quit, lost, linkScenario>>

None == [key |-> "none", val |-> 0]
Initially == [k \in Keys |-> 0]

LinkInit ==
    /\ linkScenario \in LinkScenarios
    \* The receiver may have set the status before the service is created.
    /\ status = [k \in Keys |-> linkScenario.before] /\ mainText = None /\ changes = 0
    /\ provider = linkScenario.booted /\ broadcasts = 0 /\ toggles = 0
    \* onCreate: the first loop is started if the GPS is enabled.
    /\ pc = [l \in Loops |-> IF l = 1 /\ provider THEN "init" ELSE "none"]
    /\ retries = [l \in Loops |-> 0]
    /\ todo = [l \in Loops |-> << >>] /\ text = [l \in Loops |-> None]
    /\ localSocket = 0 /\ initDone = FALSE
    /\ ours = [l \in Loops |-> FALSE] /\ theirs = [l \in Loops |-> FALSE]
    /\ up = [l \in Loops |-> << >>] /\ down = [l \in Loops |-> << >>]
    /\ libPc = "off" /\ listener = 0
    /\ thread = [h \in Handlers |-> "none"] /\ serving = [h \in Handlers |-> 0]
    /\ backlog = [h \in Handlers |-> << >>]
    /\ socket = 0
    /\ service = Initially /\ gps = Initially
    /\ request = "none" /\ requests = 0
    /\ quit = {} /\ lost = {}

-----------------------------------------------------------------------------
(***************************************************************************)
(* The service: the receiver on the main thread.                           *)
(***************************************************************************)
\* The library's end of a connection is gone when it is closed and no thread still reads it.
Gone(l) == ~theirs[l] /\ \A h \in Handlers : serving[h] # l

\* ServiceLoop.sendMessage: to whatever socket the last attempt to connect has left.
sendMessage(msg) ==
    up' = IF initDone /\ localSocket # 0 /\ ours[localSocket] /\ ~Gone(localSocket)
          THEN [up EXCEPT ![localSocket] = Append(@, msg)] ELSE up

\* A setter of Status stores the value ...
Changes(k) ==
    /\ mainText = None /\ k \in linkScenario.keys /\ changes < linkScenario.maxChanges
    /\ changes' = changes + 1
    /\ \E v \in (IF k = "APN_INFO" THEN 0..2 ELSE 0..1) \ {status[k]} :
         /\ status' = [status EXCEPT ![k] = v]
         /\ mainText' = [key |-> k, val |-> v]
    /\ UNCHANGED <<providerVars, loopVars, sharedVars, ends, up, down, libPc, threadVars, socket,
                   libVars, requestVars, quit, lost, linkScenario>>

\* ... and sends it, also when nobody listens.
Sends ==
    /\ mainText # None
    /\ sendMessage(mainText)
    /\ mainText' = None
    /\ UNCHANGED <<status, changes, providerVars, loopVars, sharedVars, ends, down, libPc, threadVars,
                   socket, libVars, requestVars, quit, lost, linkScenario>>

\* The GPS is enabled or disabled, or another provider is (PROVIDERS_CHANGED is about any).
ProviderChanges ==
    /\ toggles < linkScenario.maxToggles
    /\ provider' = ~provider
    /\ broadcasts' = broadcasts + 1 /\ toggles' = toggles + 1
    /\ UNCHANGED <<statusVars, loopVars, sharedVars, ends, up, down, libPc, threadVars, socket,
                   libVars, requestVars, quit, lost, linkScenario>>

OtherProviderChanges ==
    /\ toggles < linkScenario.others
    /\ broadcasts' = broadcasts + 1 /\ toggles' = toggles + 1
    /\ UNCHANGED <<provider, statusVars, loopVars, sharedVars, ends, up, down, libPc, threadVars,
                   socket, libVars, requestVars, quit, lost, linkScenario>>

\* onLocationProviderChanged and startServiceLoop: a loop more, if the GPS is enabled by now.
startServiceLoop ==
    /\ mainText = None /\ broadcasts > 0
    /\ broadcasts' = broadcasts - 1
    /\ IF provider
       THEN \E l \in Loops : /\ pc[l] = "none" /\ \A m \in 1..(l - 1) : pc[m] # "none"
                            /\ pc' = [pc EXCEPT ![l] = "init"]
       ELSE UNCHANGED pc
    /\ UNCHANGED <<statusVars, provider, toggles, retries, todo, text, sharedVars, ends, up, down,
                   libPc, threadVars, socket, libVars, requestVars, quit, lost, linkScenario>>

-----------------------------------------------------------------------------
(***************************************************************************)
(* A ServiceLoop.                                                          *)
(***************************************************************************)
Alive == {l \in Loops : pc[l] \in {"connected", "run", "sendAll", "download", "ending", "closing"}}

\* init: the connection waits in the backlog of whoever has the name.
init(l) ==
    /\ pc[l] = "init" /\ listener # 0
    /\ localSocket' = l /\ initDone' = TRUE
    /\ ours' = [ours EXCEPT ![l] = TRUE] /\ theirs' = [theirs EXCEPT ![l] = TRUE]
    /\ backlog' = [backlog EXCEPT ![listener] = Append(@, l)]
    /\ pc' = [pc EXCEPT ![l] = "connected"]
    /\ lost' = IF Alive # {} THEN lost \cup {"two loops"} ELSE lost
    /\ UNCHANGED <<statusVars, providerVars, retries, todo, text, up, down, libPc, listener, thread,
                   serving, socket, libVars, requestVars, quit, linkScenario>>

\* Nobody listens yet: the socket stays unconnected, and the loop tries again or gives up.
initFails(l) ==
    /\ pc[l] = "init" /\ listener = 0
    /\ localSocket' = 0
    /\ retries' = [retries EXCEPT ![l] = @ + 1]
    /\ pc' = IF retries[l] < Retries THEN pc ELSE [pc EXCEPT ![l] = "done"]
    /\ UNCHANGED <<statusVars, providerVars, todo, text, initDone, ends, up, down, libPc, threadVars,
                   socket, libVars, requestVars, quit, lost, linkScenario>>

\* The thread runs; without initDone it returns, and its connection stays open.
runs(l) ==
    /\ pc[l] = "connected"
    /\ pc' = [pc EXCEPT ![l] = IF initDone THEN "run" ELSE "done"]
    /\ UNCHANGED <<statusVars, providerVars, retries, todo, text, sharedVars, ends, up, down, libPc,
                   threadVars, socket, libVars, requestVars, quit, lost, linkScenario>>

\* A command; nothing is written to a connection between the first byte and the next command.
ReadsCommand(l) ==
    /\ pc[l] = "run" /\ ours[l] /\ down[l] # << >>
    /\ down' = [down EXCEPT ![l] = Tail(@)]
    /\ LET cmd == Head(down[l])
       IN /\ pc' = [pc EXCEPT ![l] = CASE cmd = "SEND_ALL_INFO" -> "sendAll"
                                       [] cmd = "SERVICE_QUIT" -> "ending"
                                       [] cmd = "DOWNLOAD_PGPS_DATA" -> "download"
                                       [] OTHER -> "run"]
          /\ todo' = [todo EXCEPT ![l] = IF cmd = "SEND_ALL_INFO" THEN LinkSettings ELSE << >>]
    /\ UNCHANGED <<statusVars, providerVars, retries, text, sharedVars, ends, up, libPc, threadVars,
                   socket, libVars, requestVars, quit, lost, linkScenario>>

\* The end of the file, or an exception: somebody else has closed localSocket.
ReadEnds(l) ==
    /\ pc[l] = "run" /\ (ours[l] => down[l] = << >> /\ Gone(l))
    /\ pc' = [pc EXCEPT ![l] = "ending"]
    /\ UNCHANGED <<statusVars, providerVars, retries, todo, text, sharedVars, ends, up, down, libPc,
                   threadVars, socket, libVars, requestVars, quit, lost, linkScenario>>

\* sendAllInfo: the text of a setting is put together ...
Composes(l) ==
    /\ pc[l] = "sendAll" /\ text[l] = None /\ todo[l] # << >>
    /\ text' = [text EXCEPT ![l] = [key |-> Head(todo[l]), val |-> status[Head(todo[l])]]]
    /\ UNCHANGED <<statusVars, providerVars, pc, retries, todo, sharedVars, ends, up, down, libPc,
                   threadVars, socket, libVars, requestVars, quit, lost, linkScenario>>

\* ... and sent, maybe after a setter has sent a newer one.
sendAllInfo(l) ==
    /\ pc[l] = "sendAll" /\ text[l] # None
    /\ sendMessage(text[l])
    /\ text' = [text EXCEPT ![l] = None]
    /\ todo' = [todo EXCEPT ![l] = Tail(@)]
    /\ pc' = IF Len(todo[l]) = 1 THEN [pc EXCEPT ![l] = "run"] ELSE pc
    /\ lost' = IF text[l].val # status[text[l].key] /\ mainText.key # text[l].key
               THEN lost \cup {"overtaken"} ELSE lost
    /\ UNCHANGED <<statusVars, providerVars, retries, sharedVars, ends, down, libPc, threadVars,
                   socket, libVars, requestVars, quit, linkScenario>>

\* downloadPgpsData: the address follows; of another command that got between the first byte is
\* taken for a length, and as many are read, or as there are: that is at most one command more.
downloadPgpsData(l) ==
    /\ pc[l] = "download" /\ (ours[l] => down[l] # << >> \/ Gone(l))
    /\ IF ours[l] /\ down[l] # << >> /\ Head(down[l]) = "URL"
       THEN /\ down' = [down EXCEPT ![l] = Tail(@)]
            /\ \E result \in 0..1 : sendMessage([key |-> "PGPS_DATA", val |-> result])
       ELSE /\ down' = [down EXCEPT ![l] = SubSeq(@, 3, Len(@))]
            /\ sendMessage([key |-> "PGPS_DATA", val |-> 0])
    /\ pc' = [pc EXCEPT ![l] = "run"]
    /\ UNCHANGED <<statusVars, providerVars, retries, todo, text, sharedVars, ends, libPc, threadVars,
                   socket, libVars, requestVars, quit, lost, linkScenario>>

\* Defect: the loop goes without a word.
LeavesDone == UNCHANGED initDone

ResetsDone == initDone' = FALSE

\* The end of run: for all the loops, initDone is reset ...
Ends(l) ==
    /\ pc[l] = "ending"
    /\ ResetsDone
    /\ pc' = [pc EXCEPT ![l] = "closing"]
    /\ UNCHANGED <<statusVars, providerVars, retries, todo, text, localSocket, ends, up, down, libPc,
                   threadVars, socket, libVars, requestVars, quit, lost, linkScenario>>

\* ... and localSocket is closed, whoever has made it.
Closes(l) ==
    /\ pc[l] = "closing"
    /\ ours' = [m \in Loops |-> ours[m] /\ m \notin {l, localSocket}]
    /\ pc' = [pc EXCEPT ![l] = "done"]
    /\ UNCHANGED <<statusVars, providerVars, retries, todo, text, sharedVars, theirs, up, down, libPc,
                   threadVars, socket, libVars, requestVars, quit, lost, linkScenario>>

-----------------------------------------------------------------------------
(***************************************************************************)
(* The library: mbm_gps_init and mbm_gps_cleanup, called by the framework. *)
(***************************************************************************)
\* Defect: old_info survives, and an APN that is known is not passed on.
KeepsContext == UNCHANGED service

initializeServiceContext == service' = Initially

\* service_handler_init: the context is forgotten, and a new thread started.
service_handler_init ==
    /\ libPc = "off" /\ provider
    /\ \E h \in Handlers :
         /\ thread[h] = "none" /\ \A g \in 1..(h - 1) : thread[g] # "none"
         /\ thread' = [thread EXCEPT ![h] = "init"]
    /\ initializeServiceContext /\ socket' = 0
    /\ libPc' = "half"
    /\ UNCHANGED <<statusVars, providerVars, loopVars, sharedVars, ends, up, down, listener, serving,
                   backlog, gps, requestVars, quit, lost, linkScenario>>

\* gpsctrl_init comes after it, and forgets what has arrived in between.
gpsctrl_init ==
    /\ libPc = "half"
    /\ gps' = Initially
    /\ libPc' = "on"
    /\ UNCHANGED <<statusVars, providerVars, loopVars, sharedVars, ends, up, down, threadVars, socket,
                   service, requestVars, quit, lost, linkScenario>>

\* service_handler_send_message, to the connection of context->socket.
Writes(cmd) ==
    down' = IF socket # 0 /\ theirs[socket] /\ ours[socket]
            THEN [down EXCEPT ![socket] = Append(@, cmd)] ELSE down

\* Defect: the service is not told.
StopsSilently == UNCHANGED down

TellsQuit == Writes("SERVICE_QUIT")

\* The connection is closed, but the thread stays in its read until the peer closes, too.
service_handler_stop ==
    /\ libPc = "on" /\ ~provider
    /\ TellsQuit
    /\ quit' = IF socket # 0 /\ theirs[socket] THEN quit \cup {socket} ELSE quit
    /\ theirs' = [l \in Loops |-> theirs[l] /\ l # socket]
    /\ libPc' = "off"
    /\ UNCHANGED <<statusVars, providerVars, loopVars, sharedVars, ours, up, threadVars, socket,
                   libVars, requestVars, lost, linkScenario>>

\* A thread of the AT channel passes a request for PGPS data on: the command, then the address.
DownloadRequest ==
    /\ \/ /\ libPc = "on" /\ request = "none" /\ requests < linkScenario.maxRequests
          /\ Writes("DOWNLOAD_PGPS_DATA")
          /\ request' = "command" /\ requests' = requests + 1
       \/ /\ request = "command"
          /\ Writes("URL")
          /\ request' = "none" /\ UNCHANGED requests
    /\ UNCHANGED <<statusVars, providerVars, loopVars, sharedVars, ends, up, libPc, threadVars, socket,
                   libVars, quit, lost, linkScenario>>

-----------------------------------------------------------------------------
(***************************************************************************)
(* socket_loop.                                                            *)
(***************************************************************************)
\* internal_init: the name is taken from the thread before.
internal_init(h) ==
    /\ thread[h] = "init"
    /\ listener' = h
    /\ thread' = [thread EXCEPT ![h] = "accept"]
    /\ UNCHANGED <<statusVars, providerVars, loopVars, sharedVars, ends, up, down, libPc, serving,
                   backlog, socket, libVars, requestVars, quit, lost, linkScenario>>

Accepts(h) ==
    /\ thread[h] = "accept" /\ backlog[h] # << >>
    /\ backlog' = [backlog EXCEPT ![h] = Tail(@)]
    /\ serving' = [serving EXCEPT ![h] = Head(backlog[h])]
    /\ socket' = Head(backlog[h])
    /\ thread' = [thread EXCEPT ![h] = "ask"]
    /\ UNCHANGED <<statusVars, providerVars, loopVars, sharedVars, ends, up, down, libPc, listener,
                   libVars, requestVars, quit, lost, linkScenario>>

Asks(h) ==
    /\ thread[h] = "ask"
    /\ Writes("SEND_ALL_INFO")
    /\ lost' = IF socket # serving[h] \/ request = "command"
               THEN lost \cup {"asked in vain"} ELSE lost
    /\ thread' = [thread EXCEPT ![h] = IF theirs[serving[h]] THEN "read" ELSE "fails"]
    /\ UNCHANGED <<statusVars, providerVars, loopVars, sharedVars, ends, up, libPc, listener, serving,
                   backlog, socket, libVars, requestVars, quit, linkScenario>>

\* Flags are passed on each time; an APN that is old_info is not, and none is unknown.
parse_message(msg) ==
    /\ service' = IF msg.key \in Keys /\ (msg.key = "APN_INFO" => msg.val # 0)
                  THEN [service EXCEPT ![msg.key] = msg.val] ELSE service
    /\ gps' = IF msg.key \in Keys /\ (msg.key = "APN_INFO" => msg.val \notin {0, service[msg.key]})
              THEN [gps EXCEPT ![msg.key] = msg.val] ELSE gps
    /\ lost' = IF libPc = "half" THEN lost \cup {"before gpsctrl_init"} ELSE lost

ReadsMessage(h) ==
    /\ thread[h] = "read" /\ theirs[serving[h]] /\ up[serving[h]] # << >>
    /\ parse_message(Head(up[serving[h]]))
    /\ up' = [up EXCEPT ![serving[h]] = Tail(@)]
    /\ UNCHANGED <<statusVars, providerVars, loopVars, sharedVars, ends, down, libPc, threadVars,
                   socket, requestVars, quit, linkScenario>>

\* The end of the file; for a thread whose descriptor was closed an error, after any byte if it
\* was reading.
EndOfFile(h) ==
    /\ thread[h] \in {"read", "fails"}
    /\ \/ thread[h] = "fails"
       \/ ~ours[serving[h]] /\ (theirs[serving[h]] => up[serving[h]] = << >>)
       \/ ~theirs[serving[h]] /\ up[serving[h]] # << >>
    /\ theirs' = [theirs EXCEPT ![serving[h]] = FALSE]
    /\ serving' = [serving EXCEPT ![h] = 0]
    /\ thread' = [thread EXCEPT ![h] = "accept"]
    /\ UNCHANGED <<statusVars, providerVars, loopVars, sharedVars, ours, up, down, libPc, listener,
                   backlog, socket, libVars, requestVars, quit, lost, linkScenario>>

-----------------------------------------------------------------------------
MainThread == Sends \/ startServiceLoop
LoopStep(l) ==
    \/ init(l) \/ initFails(l) \/ runs(l) \/ ReadsCommand(l) \/ ReadEnds(l) \/ Composes(l)
    \/ sendAllInfo(l) \/ downloadPgpsData(l) \/ Ends(l) \/ Closes(l)
Framework == service_handler_init \/ gpsctrl_init \/ service_handler_stop
HandlerStep(h) == internal_init(h) \/ Accepts(h) \/ Asks(h) \/ ReadsMessage(h) \/ EndOfFile(h)

LinkNext ==
    \/ \E k \in Keys : Changes(k)
    \/ ProviderChanges \/ OtherProviderChanges \/ DownloadRequest
    \/ MainThread \/ Framework
    \/ \E l \in Loops : LoopStep(l)
    \/ \E h \in Handlers : HandlerStep(h)

\* Threads run; nothing has to change.
LinkFairness ==
    /\ WF_linkVars(MainThread) /\ WF_linkVars(Framework)
    /\ \A l \in Loops : WF_linkVars(LoopStep(l))
    /\ \A h \in Handlers : WF_linkVars(HandlerStep(h))
    /\ WF_linkVars(request = "command" /\ DownloadRequest)

LinkSpec == LinkInit /\ [][LinkNext]_linkVars /\ LinkFairness

-----------------------------------------------------------------------------
(***************************************************************************)
(* Properties.                                                             *)
(***************************************************************************)
Messages == [key : Keys \cup {"PGPS_DATA", "none"}, val : Nat]

LinkTypeOK ==
    /\ status \in [Keys -> Nat] /\ mainText \in Messages /\ changes \in Nat
    /\ provider \in BOOLEAN /\ broadcasts \in Nat /\ toggles \in Nat
    /\ pc \in [Loops -> {"none", "init", "connected", "run", "sendAll", "download", "ending",
                         "closing", "done"}]
    /\ retries \in [Loops -> Nat]
    /\ todo \in [Loops -> Seq(Keys)] /\ text \in [Loops -> Messages]
    /\ localSocket \in Loops \cup {0} /\ initDone \in BOOLEAN
    /\ ours \in [Loops -> BOOLEAN] /\ theirs \in [Loops -> BOOLEAN]
    /\ up \in [Loops -> Seq(Messages)]
    /\ down \in [Loops -> Seq({"SEND_ALL_INFO", "SERVICE_QUIT", "DOWNLOAD_PGPS_DATA", "URL"})]
    /\ libPc \in {"off", "half", "on"} /\ listener \in Handlers \cup {0}
    /\ thread \in [Handlers -> {"none", "init", "accept", "ask", "read", "fails"}]
    /\ serving \in [Handlers -> Loops \cup {0}] /\ backlog \in [Handlers -> Seq(Loops)]
    /\ socket \in Loops \cup {0}
    /\ service \in [Keys -> Nat] /\ gps \in [Keys -> Nat]
    /\ request \in {"none", "command"} /\ requests \in Nat
    /\ quit \subseteq Loops
    /\ lost \subseteq {"two loops", "overtaken", "asked in vain", "before gpsctrl_init"}
    /\ linkScenario \in LinkScenarios

\* One thread serves a connection, and it is in nobody's backlog any more.
OneServer ==
    \A l \in Loops :
        /\ \A g, h \in Handlers : serving[g] = l /\ serving[h] = l => g = h
        /\ \A h \in Handlers : serving[h] = l => \A g \in Handlers : ~Contains(backlog[g], l)

\* Without a second loop, messages go to the connection whose commands are being read.
SendsWhereItReads ==
    "two loops" \notin lost /\ initDone =>
        /\ localSocket \in Alive /\ Cardinality(Alive) = 1
        /\ ours[localSocket]

\* Types; one server for a connection; one connection for messages and commands.
ServiceInv == LinkTypeOK /\ OneServer /\ SendsWhereItReads

\* The connection of the loop is served by the thread of the last service_handler_init.
Linked(l, h) ==
    /\ libPc = "on" /\ thread[h] = "read" /\ \A g \in Handlers : g > h => thread[g] = "none"
    /\ serving[h] = l /\ theirs[l] /\ pc[l] = "run" /\ initDone

\* When a link is idle the library has the settings of the service, through refused connections,
\* changes during sendAllInfo, and new libraries with an old service.  The code loses a setting
\* in four races only: two loops share localSocket; sendAllInfo is overtaken by a setter;
\* SEND_ALL_INFO goes to the connection of another thread or into the middle of a request for
\* data; a message comes before gpsctrl_init.
SettingsArrive ==
    \A l \in Loops, h \in Handlers :
        Linked(l, h) /\ lost = {} /\ mainText = None /\ up[l] = << >> /\ down[l] = << >> =>
            \A k \in Keys : gps[k] = status[k] \/ (k = "APN_INFO" /\ status[k] = 0)

\* A stop ends the link: the loop reads the QUIT, or the end of the file, even in the middle of
\* a request for data, and its close lets the thread of the library go.
QuitEndsLink ==
    \A l \in Loops :
        l \in quit ~> \/ pc[l] = "done" /\ \A h \in Handlers : serving[h] # l
                      \/ "two loops" \in lost
=============================================================================
