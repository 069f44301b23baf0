-------------------------- MODULE PdpContext_proofs --------------------------
(***************************************************************************)
(* Proofs about PdpContext, for any data profiles, any number of requests  *)
(* and faults, with and without a prio queue.                              *)
(*                                                                         *)
(* The invariant has four layers, each of which is kept by every step if   *)
(* those before it hold: types and what a place in a request says of the   *)
(* request; the reports on their way against the modem (Wires); the cause  *)
(* of a failure (CauseOK); and what covers a connection that the framework *)
(* believes in (News, Interface).                                          *)
(***************************************************************************)
EXTENDS PdpContext, SequenceTheorems, TLAPS

-----------------------------------------------------------------------------
(***************************************************************************)
(* Types, and the place in a request.                                      *)
(***************************************************************************)
Reports == [state : {"CONNECTED", "CONNECTING", "DISCONNECTED", "invalid"}, cause : Causes]
Requests == [kind : {"none", "setup", "deactivate", "list", "event"}, cid : Cids \cup {NoCid}]
ReaderPcs ==
    {"idle", "written", "look", "lookDown", "check", "checkDown", "ifcInit", "ifcDown", "ifcClose",
     "test", "reset"}

TypeInv ==
    /\ prio \in BOOLEAN /\ dual \in BOOLEAN /\ s_DeactCalled \in BOOLEAN
    /\ ifc_ctl_sock \in BOOLEAN /\ overtaken \in BOOLEAN
    /\ wasUp \in BOOLEAN /\ rejected \in BOOLEAN
    /\ iface \in {"down", "up", "configured"}
    /\ s_e2napState \in E2napStates /\ s_e2napCause \in Causes
    /\ s_lastPdpFailCause \in FailCauses /\ status \in FailCauses
    /\ e2napCause \in [Threads -> Causes]
    /\ s_ActiveCID \in Cids \cup {NoCid}
    /\ pc \in RunnerPcs /\ prioPc \in {"idle", "list"}
    /\ req \in Requests
    /\ seen \in [AllChannels -> E2napStates]
    /\ events \in Nat /\ requests \in Nat /\ faults \subseteq FaultKinds
    /\ readerPc \in [AllChannels -> ReaderPcs]
    /\ lines \in [AllChannels -> Seq(Reports)]
    /\ chan \in [AllChannels -> BOOLEAN]
    /\ radio \in {"AVAILABLE", "UNAVAILABLE"}
    /\ net \in {"down", "connecting", "up"}
    /\ told \in Cids \cup {None, Unsure}

\* The places where the request is a setup, is a deactivation, and is one of both.
Established ==
    {"check1", "configure", "ifcUp", "ifcAddr", "ifcUndo", "ifcClose", "check2", "complete"}
Activated == {"waitUp", "afterUp", "parse"}
SetupPcs ==
    {"deny", "down", "setupInit", "setupIfc", "define", "auth", "activate", "setupFails", "error",
     "judge", "status", "restore", "waitRestored", "failed"} \cup Activated \cup Established
TeardownPcs ==
    {"setDeact", "disconnect", "waitDown", "afterDown", "downInit", "downIfc", "downClose"}

RequestOK ==
    /\ pc = "idle" => req = NoRequest
    /\ pc \in SetupPcs => req.kind = "setup"
    /\ pc \in TeardownPcs => req.kind \in {"setup", "deactivate"}
    /\ pc \in {"deactivated", "deactivateFails"} => req.kind = "deactivate"
    /\ pc = "list" => req.kind \in {"list", "event", "setup"}
    /\ req.kind \in {"setup", "deactivate"} => req.cid \in Cids
    /\ pc \in TeardownPcs \cup {"deactivateFails"} /\ req.kind = "deactivate"
         => req.cid = s_ActiveCID
    /\ pc = "setDeact" /\ req.kind = "setup" => seen["normal"] # "DISCONNECTED"
    /\ told \in Cids => told = s_ActiveCID

\* The prio queue: nobody does its work where there is none.
PrioOK ==
    /\ prioPc = "list" => prio
    /\ req.kind = "event" => ~prio
    /\ overtaken => prio
    /\ ~prio => readerPc["prio"] = "idle"

USE DEF rilVars, ifcVars, runnerVars, readerVars, modemVars, ghostVars, boundVars

LEMMA CidsAreCids ==
    /\ Cids \subseteq Nat \ {0}
    /\ None \notin Cids /\ Unsure \notin Cids /\ NoCid \notin Cids
  BY ConstantAssumption DEF Cids, None, Unsure, NoCid

LEMMA ReportTypes ==
    ASSUME TypeInv, NEW state \in {"CONNECTED", "CONNECTING", "DISCONNECTED", "invalid"},
           NEW cause \in Causes, Report(state, cause)
    PROVE  /\ lines' \in [AllChannels -> Seq(Reports)]
           /\ \E r \in Reports :
                 /\ r.state = state
                 /\ \A c \in AllChannels :
                       lines'[c] = IF c \in Channels /\ chan[c] THEN Append(lines[c], r)
                                   ELSE lines[c]
<1> DEFINE r == [state |-> state, cause |-> cause]
<1>1. r \in Reports /\ r.state = state
  BY DEF Reports
<1>2. lines' = [c \in AllChannels |-> IF c \in Channels /\ chan[c] THEN Append(lines[c], r)
                                     ELSE lines[c]]
  BY DEF Report
<1> HIDE DEF r
<1>3. \A c \in AllChannels : lines[c] \in Seq(Reports) /\ Append(lines[c], r) \in Seq(Reports)
  BY <1>1 DEF TypeInv
<1> QED BY <1>1, <1>2, <1>3

LEMMA FaultTypes ==
    ASSUME TypeInv, NEW kind \in FaultKinds, Fault(kind)
    PROVE  faults' \subseteq FaultKinds
  BY DEF TypeInv, Fault

LEMMA FailsTypes ==
    ASSUME TypeInv, NEW c, Fails(c)
    PROVE  faults' \subseteq FaultKinds
  BY FaultTypes DEF TypeInv, Fails, FaultKinds

LEMMA SocketTypes ==
    ASSUME TypeInv, OpenSocket \/ SocketFails
    PROVE  faults' \subseteq FaultKinds /\ ifc_ctl_sock' \in BOOLEAN
  BY FaultTypes DEF TypeInv, OpenSocket, SocketFails, FaultKinds

LayerOne == TypeInv /\ RequestOK /\ PrioOK

\* The report that a reader has begun to write is the first of its lines, and only
\* one reader has the mutex.
Held ==
    /\ \A c \in AllChannels :
          readerPc[c] = "written" =>
              /\ lines[c] # << >> /\ Head(lines[c]).state # "invalid"
              /\ chan["normal"] => chan[c]
              /\ chan[c] \/ Tail(lines[c]) = << >>
              /\ ~dual => s_e2napState \in {"UNKNOWN", Head(lines[c]).state}
    /\ \A c, d \in AllChannels : readerPc[c] = "written" /\ readerPc[d] = "written" => c = d

LEMMA ModemKeepsOne ==
    ASSUME LayerOne, Held, ModemStep
    PROVE  LayerOne'
<1>1. ASSUME NEW state \in {"CONNECTED", "CONNECTING", "DISCONNECTED", "invalid"},
             NEW cause \in Causes, Report(state, cause)
      PROVE  lines' \in [AllChannels -> Seq(Reports)]
  BY <1>1, ReportTypes DEF LayerOne
<1>2. CASE NetworkConnects
  BY <1>1, <1>2 DEF NetworkConnects, LayerOne, TypeInv, RequestOK, PrioOK, Causes
<1>3. CASE NetworkRejects
  BY <1>1, <1>3 DEF NetworkRejects, LayerOne, TypeInv, RequestOK, PrioOK, Causes
<1>4. CASE NetworkDrops
  BY <1>1, <1>4, FaultTypes
  DEF NetworkDrops, LayerOne, TypeInv, RequestOK, PrioOK, Causes, FaultKinds
<1>5. CASE Garbled
  BY <1>1, <1>5, FaultTypes DEF Garbled, LayerOne, TypeInv, RequestOK, PrioOK, Causes, FaultKinds
<1>6. CASE ChannelsLost
  <2>1. ASSUME NEW c \in AllChannels
        PROVE  lines'[c] \in Seq(Reports)
    <3>1. lines[c] \in Seq(Reports) /\ (readerPc[c] = "written" => lines[c] # << >>)
      BY DEF LayerOne, TypeInv, Held
    <3>2. lines[c] # << >> => <<Head(lines[c])>> \in Seq(Reports)
      BY <3>1
    <3> QED BY <1>6, <3>1, <3>2, EmptySeq DEF ChannelsLost
  <2>2. lines' \in [AllChannels -> Seq(Reports)] /\ faults' \subseteq FaultKinds
    BY <1>6, <2>1, FaultTypes DEF ChannelsLost, LayerOne, FaultKinds
  <2>3. TypeInv'
    BY <1>6, <2>2 DEF ChannelsLost, LayerOne, TypeInv
  <2>4. RequestOK'
    BY <1>6, CidsAreCids DEF ChannelsLost, LayerOne, RequestOK
  <2> QED BY <1>6, <2>3, <2>4 DEF ChannelsLost, LayerOne, PrioOK
<1> QED BY <1>2, <1>3, <1>4, <1>5, <1>6 DEF ModemStep

LEMMA WrittenTypes ==
    ASSUME TypeInv, NEW line \in Reports, line.state # "invalid", NEW overwritten \in BOOLEAN,
           WriteState(line) \/ WriteCause(line), NoteReport(line, overwritten)
    PROVE  /\ s_e2napState' \in E2napStates /\ s_e2napCause' \in Causes
           /\ wasUp' \in BOOLEAN /\ rejected' \in BOOLEAN
<1>1. line.state \in E2napStates /\ line.cause \in Causes
  BY DEF Reports, E2napStates
<1>2. s_e2napState' \in E2napStates /\ s_e2napCause' \in Causes
  BY <1>1 DEF WriteState, WriteCause, ReportedState, ReportedCause, TypeInv, Causes
<1> QED BY <1>2 DEF NoteReport, TypeInv

LEMMA ReportKeepsOne ==
    ASSUME LayerOne, Held, NEW c \in AllChannels, lines[c] # << >> => c \in Channels,
           TakeReport(c) \/ FinishReport(c)
    PROVE  LayerOne'
<1> DEFINE h == Head(lines[c])
<1>1. lines[c] \in Seq(Reports) /\ lines[c] # << >>
  BY DEF TakeReport, FinishReport, LayerOne, TypeInv, Held
<1>2. h \in Reports /\ Tail(lines[c]) \in Seq(Reports)
  BY <1>1
<1> HIDE DEF h
<1>3. /\ s_e2napState' \in E2napStates /\ s_e2napCause' \in Causes
      /\ wasUp' \in BOOLEAN /\ rejected' \in BOOLEAN
      /\ lines' \in [AllChannels -> Seq(Reports)]
      /\ \/ readerPc' = readerPc
         \/ \E label \in ReaderPcs : ReaderGoto(c, label)
  <2>1. CASE TakeReport(c)
    <3>1. CASE radio = "AVAILABLE" /\ ValidState(h)
      <4>1. h.state # "invalid"
        BY <3>1 DEF ValidState, E2napStates
      <4>2. /\ WriteState(h) \/ WriteCause(h)
            /\ NoteReport(h, FALSE) /\ ReaderGoto(c, "written") /\ UNCHANGED lines
        BY <2>1, <3>1 DEF TakeReport, h
      <4>3. lines' \in [AllChannels -> Seq(Reports)] /\ "written" \in ReaderPcs
        BY <4>2 DEF LayerOne, TypeInv, ReaderPcs
      <4> QED BY <1>2, <4>1, <4>2, <4>3, WrittenTypes DEF LayerOne
    <3>2. CASE ~(radio = "AVAILABLE" /\ ValidState(h))
      <4>1. /\ lines' = [lines EXCEPT ![c] = Tail(@)]
            /\ UNCHANGED <<s_e2napState, s_e2napCause, wasUp, rejected, readerPc>>
        BY <2>1, <3>2 DEF TakeReport, h
      <4> QED BY <1>2, <4>1 DEF LayerOne, TypeInv
    <3> QED BY <3>1, <3>2
  <2>2. CASE FinishReport(c)
    <3>1. h.state # "invalid"
      BY <2>2 DEF FinishReport, Held, h
    <3>2. /\ WriteState(h) \/ WriteCause(h)
          /\ NoteReport(h, Overwritten(h))
          /\ ReaderGoto(c, IF BringsDown(h.state) THEN "lookDown" ELSE "look")
          /\ lines' = [lines EXCEPT ![c] = Tail(@)]
      BY <2>2 DEF FinishReport, h
    <3>3. Overwritten(h) \in BOOLEAN
      BY DEF Overwritten
    <3>4. lines' \in [AllChannels -> Seq(Reports)] /\ {"look", "lookDown"} \subseteq ReaderPcs
      BY <1>2, <3>2 DEF LayerOne, TypeInv, ReaderPcs
    <3> QED BY <1>2, <3>1, <3>2, <3>3, <3>4, WrittenTypes DEF LayerOne
  <2> QED BY <2>1, <2>2
<1>4. readerPc' \in [AllChannels -> ReaderPcs]
  BY <1>3 DEF ReaderGoto, LayerOne, TypeInv
<1>5. UNCHANGED <<s_lastPdpFailCause, s_DeactCalled, s_ActiveCID, e2napCause, status, ifcVars,
                  runnerVars, modemVars, told, overtaken, boundVars>>
  BY DEF TakeReport, FinishReport
<1>6. TypeInv' /\ RequestOK'
  BY <1>3, <1>4, <1>5 DEF LayerOne, TypeInv, RequestOK
<1>7. PrioOK'
  <2>1. ~prio => c = "normal"
    BY <1>1 DEF Channels
  <2>2. ~prio => readerPc'["prio"] = "idle"
    BY <1>3, <2>1 DEF LayerOne, PrioOK, ReaderGoto, TypeInv, AllChannels
  <2> QED BY <1>5, <2>2 DEF LayerOne, PrioOK
<1> QED BY <1>6, <1>7 DEF LayerOne

LEMMA CheckTypes ==
    ASSUME TypeInv, NEW t \in Threads
    PROVE  /\ ReadCause(t) => e2napCause' \in [Threads -> Causes]
           /\ SetFailCause(t)
                => s_lastPdpFailCause' \in FailCauses /\ e2napCause' \in [Threads -> Causes]
<1>1. e2napCause[t] \in {"UNKNOWN", "rejected", "other"} /\ "UNKNOWN" \in Causes
  BY DEF TypeInv, Causes
<1>2. FailCauseOf(s_e2napState, e2napCause[t], s_lastPdpFailCause) \in FailCauses
  BY <1>1 DEF FailCauseOf, FailCauses, TypeInv
<1> QED BY <1>1, <1>2 DEF ReadCause, SetFailCause, TypeInv

LEMMA ReaderKeepsOne ==
    ASSUME LayerOne, Held, NEW c \in AllChannels, ReaderStep(c), lines[c] # << >> => c \in Channels
    PROVE  LayerOne'
<1>1. CASE TakeReport(c) \/ FinishReport(c)
  BY <1>1, ReportKeepsOne
<1>2. readerPc[c] # "idle" => c = "normal" \/ prio
  BY DEF LayerOne, PrioOK, AllChannels
<1>3. ASSUME NEW label \in ReaderPcs, readerPc[c] # "idle", ReaderGoto(c, label), UNCHANGED prio
      PROVE  /\ readerPc' \in [AllChannels -> ReaderPcs]
             /\ ~prio' => readerPc'["prio"] = "idle"
  BY <1>2, <1>3 DEF ReaderGoto, LayerOne, TypeInv, PrioOK, AllChannels
<1>4. ASSUME ReaderChecksCause(c)
      PROVE  LayerOne'
  <2>1. s_lastPdpFailCause' \in FailCauses /\ e2napCause' \in [Threads -> Causes]
    BY <1>4, CheckTypes DEF ReaderChecksCause, LayerOne, TypeInv, Threads
  <2>2. readerPc' \in [AllChannels -> ReaderPcs] /\ (~prio' => readerPc'["prio"] = "idle")
    BY <1>3, <1>4 DEF ReaderChecksCause, ReaderPcs
  <2> QED BY <1>4, <2>1, <2>2 DEF ReaderChecksCause, LayerOne, TypeInv, RequestOK, PrioOK
<1>5. ASSUME ReaderIfc(c)
      PROVE  LayerOne'
  <2>1. readerPc' \in [AllChannels -> ReaderPcs] /\ (~prio' => readerPc'["prio"] = "idle")
    BY <1>3, <1>5 DEF ReaderIfc, ReaderPcs
  <2>2. ifc_ctl_sock' \in BOOLEAN /\ iface' \in {"down", "up", "configured"}
    BY <1>5 DEF ReaderIfc, OpenSocket, SocketFails, LayerOne, TypeInv, TakeDown
  <2>3. faults' \subseteq FaultKinds
    BY <1>5, SocketTypes DEF ReaderIfc, LayerOne, TypeInv
  <2> QED BY <1>5, <2>1, <2>2, <2>3 DEF ReaderIfc, LayerOne, TypeInv, RequestOK, PrioOK
<1>6. ASSUME ReaderReports(c)
      PROVE  LayerOne'
  <2>1. readerPc' \in [AllChannels -> ReaderPcs] /\ (~prio' => readerPc'["prio"] = "idle")
    BY <1>3, <1>6 DEF ReaderReports, ReaderPcs
  <2> QED BY <1>6, <2>1 DEF ReaderReports, LayerOne, TypeInv, RequestOK, PrioOK
<1>7. ASSUME ReaderResets(c)
      PROVE  LayerOne'
  <2>1. readerPc' \in [AllChannels -> ReaderPcs] /\ (~prio' => readerPc'["prio"] = "idle")
    BY <1>3, <1>7 DEF ReaderResets, ReaderPcs
  <2>2. s_DeactCalled' \in BOOLEAN
    BY <1>7 DEF ReaderResets, ResetDeactCalled
  <2> QED BY <1>7, <2>1, <2>2 DEF ReaderResets, LayerOne, TypeInv, RequestOK, PrioOK
<1> QED BY <1>1, <1>4, <1>5, <1>6, <1>7 DEF ReaderStep

LEMMA ListTypes ==
    ASSUME LayerOne, NEW q, NEW solicited, ContextList(q, solicited)
    PROVE  told' \in {told, None} /\ faults' \subseteq FaultKinds
  BY FailsTypes DEF ContextList, LayerOne, TypeInv, TellsNone, TellsAddresses

LEMMA InitializeCommonKeepsOne ==
    ASSUME LayerOne, NEW q \in AllChannels, InitializeCommon(q)
    PROVE  LayerOne'
<1>1. overtaken' => prio
  <2>1. CASE q = "normal"
    BY <2>1 DEF InitializeCommon, LayerOne, PrioOK, Configuring
  <2>2. CASE q = "prio"
    BY <2>2 DEF InitializeCommon, Channels
  <2> QED BY <2>1, <2>2 DEF AllChannels
<1>2. overtaken' \in BOOLEAN /\ chan' \in [AllChannels -> BOOLEAN] /\ told' \in {told, None}
  BY DEF InitializeCommon, LayerOne, TypeInv
<1>3. TypeInv'
  BY <1>2 DEF InitializeCommon, LayerOne, TypeInv, E2napStates, Causes
<1>4. RequestOK'
  BY <1>2, CidsAreCids DEF InitializeCommon, LayerOne, RequestOK
<1> QED BY <1>1, <1>3, <1>4 DEF InitializeCommon, LayerOne, PrioOK

LEMMA PrioKeepsOne ==
    ASSUME LayerOne, PrioStep
    PROVE  LayerOne'
<1>1. CASE PrioTakesEvent
  <2>1. seen' \in [AllChannels -> E2napStates] /\ seen'["normal"] = seen["normal"]
    BY <1>1 DEF PrioTakesEvent, LayerOne, TypeInv, AllChannels
  <2>2. TypeInv'
    BY <1>1, <2>1 DEF PrioTakesEvent, LayerOne, TypeInv
  <2> QED BY <1>1, <2>1, <2>2 DEF PrioTakesEvent, LayerOne, RequestOK, PrioOK
<1>2. CASE PrioSendsList
  <2>1. told' \in {told, None} /\ faults' \subseteq FaultKinds
    BY <1>2, ListTypes DEF PrioSendsList, SendContextList
  <2>2. overtaken' \in BOOLEAN /\ prio
    BY <1>2 DEF PrioSendsList, SendContextList, LayerOne, TypeInv, PrioOK
  <2>3. TypeInv'
    BY <1>2, <2>1, <2>2 DEF PrioSendsList, SendContextList, LayerOne, TypeInv
  <2>4. RequestOK'
    BY <1>2, <2>1, CidsAreCids DEF PrioSendsList, SendContextList, LayerOne, RequestOK
  <2> QED BY <1>2, <2>2, <2>3, <2>4 DEF PrioSendsList, SendContextList, LayerOne, PrioOK
<1>3. CASE InitializeCommon("prio")
  BY <1>3, InitializeCommonKeepsOne DEF AllChannels
<1> QED BY <1>1, <1>2, <1>3 DEF PrioStep

LEMMA FrameworkKeepsOne ==
    ASSUME LayerOne, FrameworkStep
    PROVE  LayerOne'
<1>1. ASSUME NEW prof \in Profiles, requestSetupDefaultPDP(prof)
      PROVE  LayerOne'
  <2>1. prof + 1 \in Cids
    BY DEF Cids
  <2>2. /\ pc' \in {"down", "setDeact", "deny"} /\ req' = [kind |-> "setup", cid |-> prof + 1]
        /\ seen' = [seen EXCEPT !["normal"] = s_e2napState]
        /\ pc' = "setDeact" => s_e2napState \in {"CONNECTED", "CONNECTING"}
    BY <1>1 DEF requestSetupDefaultPDP, Request, Goto, Connected
  <2>3. req' \in Requests /\ req'.kind = "setup" /\ req'.cid \in Cids
    BY <2>1, <2>2 DEF Requests
  <2>4. /\ seen' \in [AllChannels -> E2napStates] /\ seen'["normal"] = s_e2napState
        /\ requests' \in Nat
    BY <1>1, <2>2 DEF requestSetupDefaultPDP, Request, LayerOne, TypeInv, AllChannels
  <2>5. overtaken' \in BOOLEAN /\ wasUp' \in BOOLEAN /\ s_lastPdpFailCause' \in FailCauses
        /\ rejected' \in BOOLEAN /\ (overtaken' => overtaken)
    BY <1>1 DEF requestSetupDefaultPDP, ResetFailCause, FailCauses, LayerOne, TypeInv
  <2>6. TypeInv'
    BY <1>1, <2>2, <2>3, <2>4, <2>5
    DEF requestSetupDefaultPDP, Request, LayerOne, TypeInv, RunnerPcs
  <2>7. RequestOK'
    BY <1>1, <2>2, <2>3, <2>4
    DEF requestSetupDefaultPDP, Request, LayerOne, RequestOK, SetupPcs, Activated, Established,
        TeardownPcs
  <2> QED BY <1>1, <2>3, <2>5, <2>6, <2>7 DEF requestSetupDefaultPDP, Request, LayerOne, PrioOK
<1>2. ASSUME NEW kind \in {"deactivate", "list"}, NEW cid \in Cids \cup {NoCid},
             NEW label \in {"setDeact", "deactivated", "list"}, Request(kind, cid, label),
             (kind = "list") <=> (label = "list"), kind = "deactivate" => cid \in Cids,
             label = "setDeact" => cid = s_ActiveCID,
             UNCHANGED <<s_lastPdpFailCause, overtaken, wasUp, rejected>>
      PROVE  LayerOne'
  <2>1. pc' = label /\ req' \in Requests /\ req'.kind = kind /\ req'.cid = cid
    BY <1>2 DEF Request, Goto, Requests
  <2>2. seen' \in [AllChannels -> E2napStates] /\ requests' \in Nat
    BY <1>2 DEF Request, LayerOne, TypeInv, AllChannels
  <2>3. TypeInv'
    BY <1>2, <2>1, <2>2 DEF Request, LayerOne, TypeInv, RunnerPcs
  <2>4. RequestOK'
    BY <1>2, <2>1 DEF Request, LayerOne, RequestOK, SetupPcs, Activated, Established, TeardownPcs
  <2> QED BY <1>2, <2>1, <2>3, <2>4 DEF Request, LayerOne, PrioOK
<1>3. ASSUME NEW cid \in Cids, requestDeactivateDefaultPDP(cid)
      PROVE  LayerOne'
  BY <1>2, <1>3 DEF requestDeactivateDefaultPDP
<1>4. ASSUME requestPDPContextList
      PROVE  LayerOne'
  BY <1>2, <1>4 DEF requestPDPContextList
<1> QED BY <1>1, <1>3, <1>4 DEF FrameworkStep

-----------------------------------------------------------------------------
(***************************************************************************)
(* The runner of the normal queue.                                         *)
(***************************************************************************)
\* A step from one place of a request to another, which leaves the request alone.
LEMMA PlaceStep ==
    ASSUME LayerOne, TypeInv', pc # "idle",
           UNCHANGED <<req, s_ActiveCID, prio, prioPc, readerPc>>,
           told' \in {told, None}, overtaken' => overtaken, pc' # "idle",
           pc' \in SetupPcs => req.kind = "setup",
           pc' \in TeardownPcs => pc \in TeardownPcs,
           pc' \in {"deactivated", "deactivateFails"} => req.kind = "deactivate",
           pc' = "deactivateFails" => pc \in TeardownPcs,
           pc' = "list" => req.kind \in {"list", "event", "setup"},
           pc' # "setDeact"
    PROVE  LayerOne'
<1>1. RequestOK'
  BY CidsAreCids DEF LayerOne, RequestOK
<1> QED BY <1>1 DEF LayerOne, PrioOK

\* The end of a request.
LEMMA EndStep ==
    ASSUME LayerOne, TypeInv', pc' = "idle", req' = NoRequest, told' \in {told, None, Unsure},
           UNCHANGED <<s_ActiveCID, prio, prioPc, readerPc, overtaken>>
    PROVE  LayerOne'
<1>1. RequestOK'
  BY CidsAreCids DEF LayerOne, RequestOK, NoRequest, SetupPcs, Activated, Established, TeardownPcs
<1> QED BY <1>1 DEF LayerOne, PrioOK, NoRequest

LEMMA CompleteKeepsOne ==
    ASSUME LayerOne, NEW learned \in {told, None, Unsure}, Complete(learned), UNCHANGED faults
    PROVE  LayerOne'
<1>1. TypeInv'
  BY DEF Complete, Goto, LayerOne, TypeInv, Requests, NoRequest, RunnerPcs, FailCauses
<1> QED BY <1>1, EndStep DEF Complete, Goto

LEMMA OnlyGotoKeepsOne ==
    ASSUME LayerOne, NEW from, NEW to \in RunnerPcs \ {"idle", "setDeact", "list"},
           OnlyGoto(from, to), from # "idle",
           to \in SetupPcs => req.kind = "setup",
           to \in TeardownPcs => from \in TeardownPcs,
           to \in {"deactivated", "deactivateFails"} => req.kind = "deactivate",
           to = "deactivateFails" => from \in TeardownPcs
    PROVE  LayerOne'
<1>1. pc = from /\ pc' = to
  BY DEF OnlyGoto, At, Goto
<1>2. TypeInv'
  BY <1>1 DEF OnlyGoto, LayerOne, TypeInv
<1> QED BY <1>1, <1>2, PlaceStep DEF OnlyGoto

\* The places of a request are told apart by name.
Places == {"idle", "list", "deactivated", "deactivateFails"} \cup TeardownPcs \cup SetupPcs

LEMMA RequestKind ==
    ASSUME LayerOne
    PROVE  /\ pc \in SetupPcs => req.kind = "setup"
           /\ pc \in TeardownPcs /\ req.kind # "setup" => req.kind = "deactivate"
           /\ RunnerPcs = Places
<1>1. RunnerPcs = Places
  BY DEF RunnerPcs, Places, SetupPcs, TeardownPcs, Activated, Established
<1> QED BY <1>1 DEF LayerOne, RequestOK

LEMMA CommandKeepsOne ==
    ASSUME LayerOne, NEW from \in SetupPcs, NEW done \in SetupPcs, NEW failed \in SetupPcs,
           At(from), pc' \in {done, failed}, faults' \subseteq FaultKinds,
           UNCHANGED <<rilVars, ifcVars, req, seen, prioPc, events, readerVars, modemVars,
                       ghostVars, prio, dual, requests>>
    PROVE  LayerOne'
<1>1. from # "idle" /\ pc' \in RunnerPcs /\ req.kind = "setup"
  BY RequestKind DEF Places, At, SetupPcs, Activated, Established
<1>2. TypeInv'
  BY <1>1 DEF LayerOne, TypeInv
<1>3. /\ pc' \notin {"idle", "list", "setDeact", "deactivated", "deactivateFails"}
      /\ pc' \notin TeardownPcs
  BY DEF SetupPcs, Activated, Established, TeardownPcs
<1> QED BY <1>1, <1>2, <1>3, PlaceStep DEF At

LEMMA TeardownKeepsOne ==
    ASSUME LayerOne,
           \/ SetDeactCalled \/ SendList \/ Disconnect \/ DisconnectWaits \/ AfterDown
           \/ IfcInit \/ IfcDown \/ IfcClose
    PROVE  LayerOne'
<1> USE DEF SetupPcs, TeardownPcs, Activated, Established
<1>1. CASE SetDeactCalled
  <2>1. /\ pc = "setDeact" /\ pc' \in {"deactivated", "disconnect"} /\ s_DeactCalled' \in BOOLEAN
        /\ pc' = "deactivated" => req.kind = "deactivate"
    BY <1>1 DEF SetDeactCalled, At, Goto, LayerOne, RequestOK
  <2>2. TypeInv'
    BY <1>1, <2>1 DEF SetDeactCalled, LayerOne, TypeInv, RunnerPcs
  <2> QED BY <1>1, <2>1, <2>2, PlaceStep DEF SetDeactCalled
<1>2. CASE SendList
  <2>1. told' \in {told, None} /\ faults' \subseteq FaultKinds
    BY <1>2, ListTypes DEF SendList, SendContextList
  <2>2. pc = "list" /\ overtaken' = overtaken
    BY <1>2 DEF SendList, SendContextList, At, LayerOne, TypeInv
  <2>3. CASE req.kind = "setup"
    <3>1. pc' = "down" /\ req' = req
      BY <1>2, <2>3 DEF SendList, Goto
    <3>2. TypeInv'
      BY <1>2, <2>1, <2>2, <3>1 DEF SendList, SendContextList, LayerOne, TypeInv, RunnerPcs
    <3> QED BY <1>2, <2>1, <2>2, <2>3, <3>1, <3>2, PlaceStep DEF SendList
  <2>4. CASE req.kind # "setup"
    <3>1. pc' = "idle" /\ req' = NoRequest
      BY <1>2, <2>4 DEF SendList, Goto
    <3>2. TypeInv'
      BY <1>2, <2>1, <2>2, <3>1
      DEF SendList, SendContextList, LayerOne, TypeInv, RunnerPcs, Requests, NoRequest
    <3> QED BY <1>2, <2>1, <2>2, <3>1, <3>2, EndStep DEF SendList
  <2> QED BY <2>3, <2>4
<1>3. CASE Disconnect
  <2>1. lines' \in [AllChannels -> Seq(Reports)]
    <3>1. UNCHANGED lines \/ Report("DISCONNECTED", "other")
      BY <1>3 DEF Disconnect
    <3> QED BY <3>1, ReportTypes DEF LayerOne, TypeInv, Causes
  <2>2. faults' \subseteq FaultKinds /\ net' \in {net, "down"}
    BY <1>3, FailsTypes DEF Disconnect, LayerOne, TypeInv
  <2>3. /\ pc \in {"disconnect", "restore"}
        /\ pc' \in {"waitRestored", "waitDown", "failed", "down", "deactivateFails"}
        /\ pc = "restore" => pc' \in {"waitRestored", "failed"}
        /\ pc' = "waitRestored" => pc = "restore"
        /\ pc' = "failed" => pc = "restore"
        /\ pc' = "down" => req.kind = "setup"
        /\ pc' = "deactivateFails" => req.kind # "setup"
    BY <1>3 DEF Disconnect, Disconnecting, Goto, AfterCommandFails
  <2>4. TypeInv'
    BY <1>3, <2>1, <2>2, <2>3 DEF Disconnect, LayerOne, TypeInv, RunnerPcs
  <2> QED BY <1>3, <2>3, <2>4, RequestKind, PlaceStep DEF Disconnect
<1>4. CASE DisconnectWaits
  <2>1. OnlyGoto("waitDown", "afterDown") \/ OnlyGoto("waitRestored", "failed")
    BY <1>4 DEF DisconnectWaits
  <2>2. pc = "waitRestored" => req.kind = "setup"
    BY RequestKind
  <2> QED BY <2>1, <2>2, OnlyGotoKeepsOne DEF RunnerPcs, OnlyGoto, At
<1>5. CASE AfterDown
  <2>1. pc = "afterDown" /\ req.kind \in {"setup", "deactivate"}
    BY <1>5 DEF AfterDown, OnlyGoto, At, LayerOne, RequestOK
  <2>2. PICK to \in {"downInit", "error", "deactivateFails"} :
               /\ OnlyGoto("afterDown", to)
               /\ to = "error" => req.kind = "setup"
               /\ to = "deactivateFails" => req.kind # "setup"
    BY <1>5 DEF AfterDown, TeardownFails
  <2> QED BY <2>1, <2>2, OnlyGotoKeepsOne DEF RunnerPcs
<1>6. CASE IfcInit
  <2>1. /\ pc \in {"downInit", "setupInit"}
        /\ pc' \in {"downIfc", "setupIfc", "error", "deactivateFails", "setupFails"}
        /\ pc = "setupInit" => pc' \in {"setupIfc", "setupFails"}
        /\ pc' \in {"setupIfc", "setupFails"} => pc = "setupInit"
        /\ pc' = "error" => req.kind = "setup"
        /\ pc' = "deactivateFails" => req.kind # "setup"
        /\ faults' \subseteq FaultKinds /\ ifc_ctl_sock' \in BOOLEAN
    BY <1>6, SocketTypes DEF IfcInit, Goto, TeardownFails, LayerOne
  <2>2. TypeInv'
    BY <1>6, <2>1 DEF IfcInit, LayerOne, TypeInv, RunnerPcs
  <2> QED BY <1>6, <2>1, <2>2, RequestKind, PlaceStep DEF IfcInit
<1>7. CASE IfcDown
  <2>1. /\ pc \in {"downIfc", "setupIfc"}
        /\ pc' \in {"downClose", "define", "setupFails", "error", "deactivateFails"}
        /\ pc = "setupIfc" => pc' \in {"define", "setupFails"}
        /\ pc' \in {"define", "setupFails"} => pc = "setupIfc"
        /\ pc' = "error" => req.kind = "setup"
        /\ pc' = "deactivateFails" => req.kind # "setup"
    BY <1>7 DEF IfcDown, Goto, TeardownFails
  <2>2. iface' \in {"down", "up", "configured"}
    BY <1>7 DEF IfcDown, TakeDown, LayerOne, TypeInv
  <2>3. TypeInv'
    BY <1>7, <2>1, <2>2 DEF IfcDown, LayerOne, TypeInv, RunnerPcs
  <2> QED BY <1>7, <2>1, <2>3, RequestKind, PlaceStep DEF IfcDown
<1>8. CASE IfcClose
  <2>1. /\ pc = "downClose" /\ pc' \in {"list", "deactivated"} /\ ifc_ctl_sock' \in BOOLEAN
        /\ pc' = "list" => req.kind = "setup"
        /\ pc' = "deactivated" => req.kind # "setup"
    BY <1>8 DEF IfcClose, Goto, At
  <2>2. seen' \in [AllChannels -> E2napStates]
    BY <1>8 DEF IfcClose, LayerOne, TypeInv
  <2>3. TypeInv'
    BY <1>8, <2>1, <2>2 DEF IfcClose, LayerOne, TypeInv, RunnerPcs
  <2> QED BY <1>8, <2>1, <2>3, RequestKind, PlaceStep DEF IfcClose
<1> QED BY <1>1, <1>2, <1>3, <1>4, <1>5, <1>6, <1>7, <1>8

LEMMA SetupKeepsOne ==
    ASSUME LayerOne,
           \/ ForgetState \/ Activate \/ WaitUp \/ AfterUp \/ Configure
           \/ DefineContext \/ networkAuth \/ parse_ip_information
           \/ StillUp("check1", "configure") \/ StillUp("check2", "complete")
           \/ SetupSucceeds \/ SetupErrs \/ JudgeFailure \/ TakeStatus
    PROVE  LayerOne'
<1> USE DEF SetupPcs, TeardownPcs, Activated, Established
<1>1. CASE ForgetState
  <2>1. pc = "down" /\ pc' = "setupInit"
    BY <1>1 DEF ForgetState, At, Goto
  <2>2. TypeInv'
    BY <1>1, <2>1 DEF ForgetState, LayerOne, TypeInv, RunnerPcs, E2napStates
  <2> QED BY <1>1, <2>1, <2>2, RequestKind, PlaceStep DEF ForgetState
<1>2. CASE Activate
  <2>1. lines' \in [AllChannels -> Seq(Reports)]
    <3>1. UNCHANGED lines \/ Report("CONNECTING", "UNKNOWN")
      BY <1>2 DEF Activate
    <3> QED BY <3>1, ReportTypes DEF LayerOne, TypeInv, Causes
  <2>2. faults' \subseteq FaultKinds /\ net' \in {net, "connecting"}
    BY <1>2, FailsTypes DEF Activate, LayerOne, TypeInv
  <2>3. pc = "activate" /\ pc' \in {"waitUp", "error"}
    BY <1>2 DEF Activate, At, Goto
  <2>4. TypeInv'
    BY <1>2, <2>1, <2>2, <2>3 DEF Activate, LayerOne, TypeInv, RunnerPcs
  <2> QED BY <1>2, <2>3, <2>4, RequestKind, PlaceStep DEF Activate
<1>3. ASSUME NEW from \in SetupPcs, NEW to \in SetupPcs, OnlyGoto(from, to)
      PROVE  LayerOne'
  <2>1. pc = from /\ req.kind = "setup"
    BY <1>3, RequestKind DEF OnlyGoto, At
  <2>2. to \in RunnerPcs \ {"idle", "setDeact", "list", "deactivated", "deactivateFails"}
        /\ to \notin TeardownPcs /\ from # "idle"
    BY DEF RunnerPcs
  <2> QED BY <1>3, <2>1, <2>2, OnlyGotoKeepsOne
<1>4. CASE WaitUp
  BY <1>3, <1>4 DEF WaitUp
<1>5. CASE AfterUp
  BY <1>3, <1>5 DEF AfterUp
<1>6. CASE StillUp("check1", "configure") \/ StillUp("check2", "complete")
  BY <1>3, <1>6 DEF StillUp
<1>7. CASE Configure
  <2>1. /\ pc \in {"configure", "ifcUp", "ifcAddr", "ifcUndo", "ifcClose"}
        /\ pc' \in {"ifcUp", "ifcAddr", "ifcClose", "ifcUndo", "check2"}
        /\ ifc_ctl_sock' \in BOOLEAN /\ iface' \in {"down", "up", "configured"}
        /\ faults' \subseteq FaultKinds
    BY <1>7, SocketTypes DEF Configure, At, Goto, TakeDown, LayerOne, TypeInv
  <2>2. TypeInv'
    BY <1>7, <2>1 DEF Configure, LayerOne, TypeInv, RunnerPcs
  <2> QED BY <1>7, <2>1, <2>2, RequestKind, PlaceStep DEF Configure
<1>8. CASE DefineContext
  BY <1>8, CommandKeepsOne, FailsTypes DEF DefineContext, Command, At, Goto, LayerOne, TypeInv
<1>9. CASE networkAuth
  BY <1>9, CommandKeepsOne, FailsTypes DEF networkAuth, Command, At, Goto, LayerOne, TypeInv
<1>10. CASE parse_ip_information
  BY <1>10, CommandKeepsOne, FailsTypes
  DEF parse_ip_information, TellsAddresses, TellsNone, At, Goto, LayerOne, TypeInv
<1>11. CASE SetupSucceeds
  <2>1. /\ pc = "complete" /\ pc' = "idle" /\ req' = NoRequest /\ req.cid \in Cids
        /\ s_ActiveCID' = req.cid /\ told' = req.cid
    BY <1>11, RequestKind DEF SetupSucceeds, At, Goto, LayerOne, RequestOK
  <2>2. TypeInv'
    BY <1>11, <2>1 DEF SetupSucceeds, LayerOne, TypeInv, RunnerPcs, Requests, NoRequest
  <2>3. RequestOK'
    BY <2>1 DEF RequestOK, NoRequest
  <2> QED BY <1>11, <2>1, <2>2, <2>3 DEF SetupSucceeds, LayerOne, PrioOK, NoRequest
<1>12. CASE SetupErrs \/ JudgeFailure \/ TakeStatus
  <2>1. /\ pc \in {"error", "judge", "status"} /\ pc' \in {"judge", "status", "restore"}
        /\ s_lastPdpFailCause' \in FailCauses /\ status' \in FailCauses
    BY <1>12, CheckTypes
    DEF SetupErrs, JudgeFailure, TakeStatus, At, Goto, LayerOne, TypeInv, Threads
  <2>2. e2napCause' \in [Threads -> Causes]
    BY <1>12, CheckTypes DEF SetupErrs, JudgeFailure, TakeStatus, LayerOne, TypeInv, Threads
  <2>3. TypeInv'
    BY <1>12, <2>1, <2>2 DEF SetupErrs, JudgeFailure, TakeStatus, LayerOne, TypeInv, RunnerPcs
  <2> QED BY <1>12, <2>1, <2>3, RequestKind, PlaceStep DEF SetupErrs, JudgeFailure, TakeStatus
<1> QED BY <1>1, <1>2, <1>4, <1>5, <1>6, <1>7, <1>8, <1>9, <1>10, <1>11, <1>12

LEMMA RunnerKeepsOne ==
    ASSUME LayerOne, RunnerStep
    PROVE  LayerOne'
<1>1. CASE Deny \/ Deactivated \/ DeactivateFails \/ SetupFails \/ SetupFailed
  BY <1>1, CompleteKeepsOne
  DEF Deny, Deactivated, DeactivateFails, SetupFails, SetupFailed, AfterFailure
<1>2. CASE TakeEvent
  <2>1. /\ pc = "idle" /\ pc' = "list" /\ req' = [NoRequest EXCEPT !.kind = "event"]
        /\ req' \in Requests /\ req'.kind = "event"
    BY <1>2 DEF TakeEvent, At, Goto, Requests, NoRequest
  <2>2. seen' \in [AllChannels -> E2napStates]
    BY <1>2 DEF TakeEvent, LayerOne, TypeInv
  <2>3. events' \in Nat
    BY <1>2 DEF TakeEvent, LayerOne, TypeInv
  <2>4. TypeInv'
    BY <1>2, <2>1, <2>2, <2>3 DEF TakeEvent, LayerOne, TypeInv, RunnerPcs
  <2>5. RequestOK'
    BY <1>2, <2>1 DEF TakeEvent, LayerOne, RequestOK, SetupPcs, TeardownPcs, Activated, Established
  <2> QED BY <1>2, <2>4, <2>5 DEF TakeEvent, LayerOne, PrioOK
<1>3. CASE InitializeCommon("normal")
  BY <1>3, InitializeCommonKeepsOne DEF AllChannels
<1> QED BY <1>1, <1>2, <1>3, TeardownKeepsOne, SetupKeepsOne DEF RunnerStep

-----------------------------------------------------------------------------
(***************************************************************************)
(* The reports on their way.  What the last valid one says is what the     *)
(* modem is in.                                                            *)
(***************************************************************************)
StateOf(n) == [up |-> "CONNECTED", connecting |-> "CONNECTING", down |-> "DISCONNECTED"][n]

ValidStates == {"CONNECTED", "CONNECTING", "DISCONNECTED"}

HasValid(l) == \E i \in 1 .. Len(l) : l[i].state # "invalid"
HasDown(l) == \E i \in 1 .. Len(l) : l[i].state = "DISCONNECTED"

\* The last valid report of l, if there is one, is of this state.
EndsIn(l, state) ==
    HasValid(l) =>
        \E i \in 1 .. Len(l) :
            l[i].state = state /\ \A j \in 1 .. Len(l) : j > i => l[j].state = "invalid"

LEMMA NoReports == \A state : ~HasValid(<< >>) /\ ~HasDown(<< >>) /\ EndsIn(<< >>, state)
  BY DEF HasValid, HasDown, EndsIn

LEMMA OneMore ==
    ASSUME NEW l \in Seq(Reports), NEW r \in Reports
    PROVE  /\ r.state # "invalid" => HasValid(Append(l, r)) /\ EndsIn(Append(l, r), r.state)
           /\ r.state = "DISCONNECTED" \/ HasDown(l) => HasDown(Append(l, r))
           /\ r.state = "invalid" /\ HasValid(Append(l, r)) => HasValid(l)
           /\ HasDown(Append(l, r)) /\ r.state # "DISCONNECTED" => HasDown(l)
           /\ HasValid(l) => HasValid(Append(l, r))
           /\ \A state : EndsIn(l, state) /\ r.state = "invalid" => EndsIn(Append(l, r), state)
<1> DEFINE m == Append(l, r)
<1>1. /\ Len(l) \in Nat /\ Len(m) = Len(l) + 1 /\ m[Len(l) + 1] = r
      /\ \A i \in 1 .. Len(l) : m[i] = l[i]
  OBVIOUS
<1> HIDE DEF m
<1>2. ASSUME r.state # "invalid"
      PROVE  HasValid(m) /\ EndsIn(m, r.state)
  <2>1. Len(l) + 1 \in 1 .. Len(m) /\ \A j \in 1 .. Len(m) : ~(j > Len(l) + 1)
    BY <1>1
  <2> QED BY <1>1, <1>2, <2>1 DEF HasValid, EndsIn
<1>3. r.state = "DISCONNECTED" \/ HasDown(l) => HasDown(m)
  <2>1. Len(l) + 1 \in 1 .. Len(m) /\ \A i \in 1 .. Len(l) : i \in 1 .. Len(m)
    BY <1>1
  <2> QED BY <1>1, <2>1 DEF HasDown
<1>4. r.state = "invalid" /\ HasValid(m) => HasValid(l)
  <2>1. \A i \in 1 .. Len(m) : i \in 1 .. Len(l) \/ i = Len(l) + 1
    BY <1>1
  <2> QED BY <1>1, <2>1 DEF HasValid
<1>5. HasDown(m) /\ r.state # "DISCONNECTED" => HasDown(l)
  <2>1. \A i \in 1 .. Len(m) : i \in 1 .. Len(l) \/ i = Len(l) + 1
    BY <1>1
  <2> QED BY <1>1, <2>1 DEF HasDown
<1>6. HasValid(l) => HasValid(m)
  <2>1. \A i \in 1 .. Len(l) : i \in 1 .. Len(m)
    BY <1>1
  <2> QED BY <1>1, <2>1 DEF HasValid
<1>7. ASSUME NEW state, EndsIn(l, state), r.state = "invalid"
      PROVE  EndsIn(m, state)
  <2>1. SUFFICES ASSUME HasValid(m)
                 PROVE  \E i \in 1 .. Len(m) : m[i].state = state
                          /\ \A j \in 1 .. Len(m) : j > i => m[j].state = "invalid"
    BY DEF EndsIn
  <2>2. PICK i \in 1 .. Len(l) :
               l[i].state = state /\ \A j \in 1 .. Len(l) : j > i => l[j].state = "invalid"
    BY <1>4, <1>7, <2>1 DEF EndsIn
  <2>3. i \in 1 .. Len(m) /\ m[i].state = state
    BY <1>1, <2>2
  <2>4. ASSUME NEW j \in 1 .. Len(m), j > i
        PROVE  m[j].state = "invalid"
    <3>1. j \in 1 .. Len(l) \/ j = Len(l) + 1
      BY <1>1
    <3> QED BY <1>1, <1>7, <2>2, <2>4, <3>1
  <2> QED BY <2>3, <2>4
<1> QED BY <1>2, <1>3, <1>4, <1>5, <1>6, <1>7 DEF m

LEMMA OneLess ==
    ASSUME NEW l \in Seq(Reports), l # << >>
    PROVE  /\ Head(l) \in Reports /\ Tail(l) \in Seq(Reports)
           /\ HasValid(Tail(l)) => HasValid(l)
           /\ HasDown(Tail(l)) => HasDown(l)
           /\ HasValid(l) => HasValid(Tail(l)) \/ Head(l).state # "invalid"
           /\ HasDown(l) => HasDown(Tail(l)) \/ Head(l).state = "DISCONNECTED"
           /\ \A state \in ValidStates : EndsIn(l, state) => EndsIn(Tail(l), state)
           /\ \A state \in ValidStates :
                 EndsIn(l, state) /\ ~HasValid(Tail(l)) /\ Head(l).state # "invalid"
                   => Head(l).state = state
           /\ Head(l).state = "DISCONNECTED" => HasDown(l)
           /\ Head(l).state # "invalid" => HasValid(l)
<1> DEFINE t == Tail(l)
           h == Head(l)
<1>1. Len(l) \in Nat \ {0}
  BY EmptySeq, LenProperties
<1>2. /\ h \in Reports /\ h = l[1] /\ t \in Seq(Reports) /\ Len(t) = Len(l) - 1
      /\ \A i \in 1 .. Len(t) : t[i] = l[i + 1]
  BY <1>1, HeadTailProperties
<1> HIDE DEF t, h
<1>3. \A i \in 1 .. Len(l) : i = 1 \/ (i - 1 \in 1 .. Len(t) /\ t[i - 1] = l[i])
  BY <1>1, <1>2
<1>4. (\A i \in 1 .. Len(t) : i + 1 \in 1 .. Len(l)) /\ 1 \in 1 .. Len(l)
  BY <1>1, <1>2
<1>5. HasValid(t) => HasValid(l)
  BY <1>2, <1>4 DEF HasValid
<1>6. HasDown(t) => HasDown(l)
  BY <1>2, <1>4 DEF HasDown
<1>7. HasValid(l) => HasValid(t) \/ h.state # "invalid"
  BY <1>2, <1>3 DEF HasValid
<1>8. HasDown(l) => HasDown(t) \/ h.state = "DISCONNECTED"
  BY <1>2, <1>3 DEF HasDown
<1>9. h.state = "DISCONNECTED" => HasDown(l)
  BY <1>2, <1>4 DEF HasDown
<1>10. h.state # "invalid" => HasValid(l)
  BY <1>2, <1>4 DEF HasValid
<1>11. ASSUME NEW state \in ValidStates, EndsIn(l, state), HasValid(l)
       PROVE  /\ HasValid(t) => \E i \in 1 .. Len(t) : t[i].state = state
                                   /\ \A j \in 1 .. Len(t) : j > i => t[j].state = "invalid"
              /\ ~HasValid(t) => h.state = state
  <2>1. PICK i \in 1 .. Len(l) :
               l[i].state = state /\ \A j \in 1 .. Len(l) : j > i => l[j].state = "invalid"
    BY <1>11 DEF EndsIn
  <2>2. \A j \in 1 .. Len(t) : j + 1 > i => t[j].state = "invalid"
    BY <1>2, <1>4, <2>1
  <2>3. CASE i = 1
    <3>1. \A j \in 1 .. Len(t) : t[j].state = "invalid"
      BY <2>2, <2>3
    <3> QED BY <1>2, <2>1, <2>3, <3>1 DEF HasValid
  <2>4. CASE i # 1
    <3>1. i - 1 \in 1 .. Len(t) /\ t[i - 1].state = state
      BY <1>3, <2>1, <2>4
    <3>2. \A j \in 1 .. Len(t) : j > i - 1 => t[j].state = "invalid"
      BY <2>2
    <3>3. state # "invalid"
      BY <1>11 DEF ValidStates
    <3> QED BY <3>1, <3>2, <3>3 DEF HasValid
  <2> QED BY <2>3, <2>4
<1> QED BY <1>2, <1>5, <1>6, <1>7, <1>8, <1>9, <1>10, <1>11 DEF t, h, EndsIn

Wires ==
    /\ Held
    /\ chan["normal"] <=> radio = "AVAILABLE"
    /\ \A c \in AllChannels :
          c \notin Channels \/ (~chan[c] /\ readerPc[c] # "written") => lines[c] = << >>
    /\ \A c \in Channels : chan[c] => EndsIn(lines[c], StateOf(net))
    /\ chan["normal"] /\ (\A c \in Channels : ~HasValid(lines[c]))
         => s_e2napState \in {"UNKNOWN", StateOf(net)}

LEMMA StateOfNet ==
    ASSUME TypeInv
    PROVE  /\ StateOf(net) \in ValidStates
           /\ net = "up" => StateOf(net) = "CONNECTED"
           /\ net = "connecting" => StateOf(net) = "CONNECTING"
           /\ net = "down" => StateOf(net) = "DISCONNECTED"
  BY DEF TypeInv, StateOf, ValidStates

\* The modem adds a report; what a reader has begun stays the first.
LEMMA ReportKeepsHeld ==
    ASSUME TypeInv, Wires, NEW r \in Reports,
           \A c \in AllChannels :
               lines'[c] = IF c \in Channels /\ chan[c] THEN Append(lines[c], r) ELSE lines[c],
           UNCHANGED <<chan, readerPc, dual, s_e2napState>>
    PROVE  Held'
<1> SUFFICES ASSUME NEW c \in AllChannels, readerPc[c] = "written"
             PROVE  /\ lines'[c] # << >> /\ Head(lines'[c]) = Head(lines[c])
                    /\ chan[c] \/ lines'[c] = lines[c]
  BY DEF Wires, Held
<1>1. lines[c] \in Seq(Reports) /\ lines[c] # << >>
  BY DEF TypeInv, Wires, Held
<1>2. Append(lines[c], r) # << >> /\ Head(Append(lines[c], r)) = Head(lines[c])
  BY <1>1
<1> QED BY <1>1, <1>2

\* The modem reports its new state.
LEMMA ReportKeepsWires ==
    ASSUME TypeInv, TypeInv', Wires, NEW cause \in Causes, Report(StateOf(net'), cause),
           UNCHANGED <<chan, radio, prio, dual, readerPc, s_e2napState>>
    PROVE  Wires'
<1>1. StateOf(net') \in ValidStates
  BY DEF TypeInv, StateOf, ValidStates
<1>2. PICK r \in Reports :
            /\ r.state = StateOf(net')
            /\ \A c \in AllChannels :
                  lines'[c] = IF c \in Channels /\ chan[c] THEN Append(lines[c], r) ELSE lines[c]
  BY <1>1, ReportTypes DEF ValidStates
<1>3. \A c \in AllChannels : lines[c] \in Seq(Reports)
  BY DEF TypeInv
<1>4. Channels' = Channels /\ Channels \subseteq AllChannels /\ "normal" \in Channels
  BY DEF Channels, AllChannels
<1>5. ASSUME NEW c \in AllChannels, c \notin Channels \/ (~chan[c] /\ readerPc[c] # "written")
      PROVE  lines'[c] = << >>
  BY <1>2, <1>5 DEF Wires
<1>6. ASSUME NEW c \in Channels, chan[c]
      PROVE  EndsIn(lines'[c], StateOf(net'))
  BY <1>1, <1>2, <1>3, <1>4, <1>6, OneMore DEF ValidStates
<1>7. chan["normal"] => HasValid(lines'["normal"])
  BY <1>1, <1>2, <1>3, <1>4, OneMore DEF ValidStates
<1>8. Held'
  BY <1>2, ReportKeepsHeld
<1> QED BY <1>4, <1>5, <1>6, <1>7, <1>8 DEF Wires

\* Nothing happens on the wires, and no reader begins or ends a report.
LEMMA SameWires ==
    ASSUME Wires, UNCHANGED <<chan, radio, prio, dual, lines, net>>,
           s_e2napState' \in {s_e2napState, "UNKNOWN"},
           \A c \in AllChannels : readerPc'[c] = "written" <=> readerPc[c] = "written"
    PROVE  Wires'
<1>1. Channels' = Channels
  BY DEF Channels
<1>2. Held'
  BY DEF Wires, Held
<1> QED BY <1>1, <1>2 DEF Wires

LEMMA ModemKeepsWires ==
    ASSUME TypeInv, TypeInv', Wires, ModemStep
    PROVE  Wires'
<1>1. CASE NetworkConnects
  <2>1. StateOf(net') = "CONNECTED" /\ "UNKNOWN" \in Causes
    BY <1>1 DEF NetworkConnects, StateOf, Causes
  <2> QED BY <1>1, <2>1, ReportKeepsWires DEF NetworkConnects
<1>2. CASE NetworkRejects
  <2>1. StateOf(net') = "DISCONNECTED"
    BY <1>2 DEF NetworkRejects, StateOf
  <2> QED BY <1>2, <2>1, ReportKeepsWires DEF NetworkRejects
<1>3. CASE NetworkDrops
  <2>1. StateOf(net') = "DISCONNECTED"
    BY <1>3 DEF NetworkDrops, StateOf
  <2> QED BY <1>3, <2>1, ReportKeepsWires DEF NetworkDrops
<1>4. CASE Garbled
  <2>1. /\ Report("invalid", "UNKNOWN")
        /\ UNCHANGED <<chan, radio, prio, dual, net, s_e2napState, readerPc>>
    BY <1>4 DEF Garbled
  <2>2. PICK r \in Reports :
              /\ r.state = "invalid"
              /\ \A c \in AllChannels :
                    lines'[c] = IF c \in Channels /\ chan[c] THEN Append(lines[c], r) ELSE lines[c]
    BY <2>1, ReportTypes DEF Causes
  <2>3. \A c \in AllChannels : lines[c] \in Seq(Reports)
    BY DEF TypeInv
  <2>4. Channels' = Channels /\ Channels \subseteq AllChannels
    BY <2>1 DEF Channels, AllChannels
  <2>5. \A c \in Channels : /\ chan[c] => EndsIn(lines'[c], StateOf(net))
                            /\ HasValid(lines[c]) => HasValid(lines'[c])
    BY <2>2, <2>3, <2>4, OneMore DEF Wires
  <2>6. Held'
    BY <2>1, <2>2, ReportKeepsHeld
  <2> QED BY <2>1, <2>2, <2>4, <2>5, <2>6 DEF Wires
<1>5. CASE ChannelsLost
  <2>1. /\ \A c \in AllChannels :
              /\ lines'[c] = IF readerPc[c] = "written" THEN <<Head(lines[c])>> ELSE << >>
              /\ chan'[c] = FALSE
        /\ radio' = "UNAVAILABLE"
        /\ UNCHANGED <<prio, dual, readerPc, s_e2napState>>
    BY <1>5 DEF ChannelsLost
  <2>2. Channels' = Channels /\ Channels' \subseteq AllChannels /\ "normal" \in AllChannels
    BY <2>1 DEF Channels, AllChannels
  <2>3. \A c \in AllChannels : readerPc[c] = "written" => c \in Channels
    BY DEF Wires, Held
  <2>4. \A c \in AllChannels : readerPc[c] = "written" =>
          /\ lines'[c] # << >> /\ Head(lines'[c]) = Head(lines[c]) /\ Tail(lines'[c]) = << >>
    <3>1. \A r \in Reports : <<r>> # << >> /\ Head(<<r>>) = r /\ Tail(<<r>>) = << >>
      OBVIOUS
    <3>2. ASSUME NEW c \in AllChannels, readerPc[c] = "written"
          PROVE  Head(lines[c]) \in Reports
      <4>1. lines[c] \in Seq(Reports) /\ lines[c] # << >>
        BY <3>2 DEF TypeInv, Wires, Held
      <4> QED BY <4>1
    <3> QED BY <2>1, <3>1, <3>2
  <2>5. Held'
    BY <2>1, <2>2, <2>4 DEF Wires, Held
  <2> QED BY <2>1, <2>2, <2>3, <2>5 DEF Wires
<1> QED BY <1>1, <1>2, <1>3, <1>4, <1>5 DEF ModemStep

LEMMA TakeReportKeepsWires ==
    ASSUME TypeInv, TypeInv', Wires, NEW c \in AllChannels, TakeReport(c)
    PROVE  Wires'
<1> DEFINE h == Head(lines[c])
<1>1. /\ lines[c] \in Seq(Reports) /\ lines[c] # << >> /\ readerPc[c] = "idle"
      /\ UNCHANGED <<chan, radio, prio, dual, net>>
  BY DEF TakeReport, TypeInv
<1>2. Channels' = Channels /\ Channels \subseteq AllChannels
  BY <1>1 DEF Channels, AllChannels
<1>3. c \in Channels /\ chan[c]
  BY <1>1 DEF Wires
<1>4. h \in Reports
  BY <1>1
<1> HIDE DEF h
<1>5. CASE radio = "AVAILABLE" /\ ValidState(h)
  <2>1. h.state # "invalid" /\ h.state \in E2napStates
    BY <1>5 DEF ValidState, E2napStates
  <2>2. /\ \A d \in AllChannels : readerPc[d] # "written"
        /\ ReaderGoto(c, "written") /\ UNCHANGED lines
        /\ ~dual => s_e2napState' = h.state
    BY <1>5 DEF TakeReport, WriteState, ReportedState, h
  <2>3. readerPc'[c] = "written" /\ \A d \in AllChannels : d # c => readerPc'[d] # "written"
    BY <2>2 DEF ReaderGoto, TypeInv
  <2>4. Held'
    BY <1>1, <1>3, <2>1, <2>2, <2>3 DEF Held, h
  <2>5. HasValid(lines[c])
    BY <1>1, <2>1, OneLess DEF h
  <2> QED BY <1>1, <1>2, <1>3, <2>2, <2>3, <2>4, <2>5 DEF Wires
<1>6. CASE ~(radio = "AVAILABLE" /\ ValidState(h))
  <2>1. lines' = [lines EXCEPT ![c] = Tail(@)] /\ UNCHANGED <<s_e2napState, readerPc>>
    BY <1>6 DEF TakeReport, h
  <2>2. lines'[c] = Tail(lines[c]) /\ \A d \in AllChannels : d # c => lines'[d] = lines[d]
    BY <2>1 DEF TypeInv
  <2>3. \A d \in Channels : chan[d] => EndsIn(lines'[d], StateOf(net))
    BY <1>1, <1>2, <2>2, OneLess, StateOfNet DEF Wires
  <2>4. radio # "AVAILABLE" \/ h.state = "invalid"
    BY <1>4, <1>6 DEF ValidState, Reports, E2napStates
  <2>5. ASSUME chan["normal"], \A d \in Channels : ~HasValid(lines'[d])
        PROVE  s_e2napState \in {"UNKNOWN", StateOf(net)}
    <3>1. h.state = "invalid"
      BY <2>4, <2>5 DEF Wires
    <3>2. \A d \in Channels : ~HasValid(lines[d])
      BY <1>1, <1>2, <2>2, <2>5, <3>1, OneLess DEF h
    <3> QED BY <2>5, <3>2 DEF Wires
  <2>6. Held'
    BY <1>1, <2>1, <2>2 DEF Wires, Held
  <2>7. \A d \in AllChannels : d \notin Channels \/ (~chan[d] /\ readerPc[d] # "written")
            => lines'[d] = << >>
    BY <1>3, <2>2 DEF Wires
  <2> QED BY <1>1, <1>2, <2>1, <2>3, <2>5, <2>6, <2>7 DEF Wires
<1> QED BY <1>5, <1>6

LEMMA FinishReportKeepsWires ==
    ASSUME TypeInv, TypeInv', Wires, NEW c \in AllChannels, FinishReport(c)
    PROVE  Wires'
<1> DEFINE h == Head(lines[c])
<1>1. /\ lines[c] \in Seq(Reports) /\ lines[c] # << >> /\ readerPc[c] = "written"
      /\ lines' = [lines EXCEPT ![c] = Tail(@)] /\ UNCHANGED <<chan, radio, prio, dual, net>>
      /\ h.state # "invalid"
  BY DEF FinishReport, TypeInv, Wires, Held
<1>2. Channels' = Channels /\ Channels \subseteq AllChannels /\ c \in Channels
  BY <1>1 DEF Channels, AllChannels, Wires
<1>3. lines'[c] = Tail(lines[c]) /\ \A d \in AllChannels : d # c => lines'[d] = lines[d]
  BY <1>1 DEF TypeInv
<1>4. \A d \in AllChannels : readerPc'[d] # "written"
  BY <1>1 DEF FinishReport, ReaderGoto, TypeInv, Wires, Held
<1>5. Held'
  BY <1>4 DEF Held
<1>6. \A d \in Channels : chan[d] => EndsIn(lines'[d], StateOf(net))
  BY <1>1, <1>2, <1>3, OneLess, StateOfNet DEF Wires
<1>7. ASSUME NEW d \in AllChannels, d \notin Channels \/ ~chan[d]
      PROVE  lines'[d] = << >>
  BY <1>1, <1>2, <1>3, <1>7 DEF Wires, Held
<1>8. ASSUME chan["normal"], \A d \in Channels : ~HasValid(lines'[d])
      PROVE  s_e2napState' \in {"UNKNOWN", StateOf(net)}
  <2>1. chan[c] /\ ~HasValid(Tail(lines[c]))
    BY <1>1, <1>2, <1>3, <1>8 DEF Wires, Held
  <2>2. h.state = StateOf(net)
    BY <1>1, <1>2, <2>1, OneLess, StateOfNet DEF Wires
  <2>3. CASE dual
    BY <2>2, <2>3 DEF FinishReport, WriteState, ReportedState
  <2>4. CASE ~dual
    BY <1>1, <2>2, <2>4 DEF FinishReport, WriteCause, Wires, Held
  <2> QED BY <2>3, <2>4
<1> QED BY <1>1, <1>2, <1>4, <1>5, <1>6, <1>7, <1>8 DEF Wires

LEMMA ReaderKeepsWires ==
    ASSUME TypeInv, TypeInv', Wires, NEW c \in AllChannels, ReaderStep(c)
    PROVE  Wires'
<1>1. CASE ReaderChecksCause(c) \/ ReaderIfc(c) \/ ReaderReports(c) \/ ReaderResets(c)
  <2>1. \A d \in AllChannels : readerPc'[d] = "written" <=> readerPc[d] = "written"
    BY <1>1 DEF ReaderChecksCause, ReaderIfc, ReaderReports, ReaderResets, ReaderGoto, TypeInv
  <2> QED BY <1>1, <2>1, SameWires DEF ReaderChecksCause, ReaderIfc, ReaderReports, ReaderResets
<1> QED BY <1>1, TakeReportKeepsWires, FinishReportKeepsWires DEF ReaderStep

LEMMA InitializeCommonKeepsWires ==
    ASSUME TypeInv, TypeInv', Wires, NEW q \in AllChannels, InitializeCommon(q)
    PROVE  Wires'
<1>1. /\ chan' = [chan EXCEPT ![q] = TRUE] /\ UNCHANGED <<prio, lines, net>>
      /\ s_e2napState' = "UNKNOWN" /\ ~chan[q]
      /\ q = "normal" => radio' = "AVAILABLE"
      /\ q # "normal" => radio' = radio
  BY DEF InitializeCommon
<1>2. chan'[q] = TRUE /\ \A c \in AllChannels : c # q => chan'[c] = chan[c]
  BY <1>1 DEF TypeInv
<1>3. Channels' = Channels /\ "normal" \in AllChannels /\ Channels \subseteq AllChannels
  BY <1>1 DEF Channels, AllChannels
<1>4. lines[q] = << >> /\ \A c \in AllChannels : readerPc'[c] # "written" /\ readerPc[c] # "written"
  BY <1>1 DEF InitializeCommon, Wires
<1>5. Held'
  BY <1>4 DEF Held
<1> QED BY <1>1, <1>2, <1>3, <1>4, <1>5, NoReports DEF Wires

LEMMA RunnerKeepsWires ==
    ASSUME TypeInv, TypeInv', Wires, RunnerStep
    PROVE  Wires'
<1>1. CASE Disconnect
  <2>1. CASE UNCHANGED <<net, lines>>
    BY <1>1, <2>1, SameWires DEF Disconnect
  <2>2. CASE Report("DISCONNECTED", "other") /\ net' = "down"
    <3>1. StateOf(net') = "DISCONNECTED" /\ "other" \in Causes
      BY <2>2 DEF StateOf, Causes
    <3> QED BY <1>1, <2>2, <3>1, ReportKeepsWires DEF Disconnect
  <2> QED BY <1>1, <2>1, <2>2 DEF Disconnect
<1>2. CASE Activate
  <2>1. CASE UNCHANGED <<net, lines>>
    BY <1>2, <2>1, SameWires DEF Activate
  <2>2. CASE Report("CONNECTING", "UNKNOWN") /\ net' = "connecting"
    <3>1. StateOf(net') = "CONNECTING" /\ "UNKNOWN" \in Causes
      BY <2>2 DEF StateOf, Causes
    <3> QED BY <1>2, <2>2, <3>1, ReportKeepsWires DEF Activate
  <2> QED BY <1>2, <2>1, <2>2 DEF Activate
<1>3. CASE InitializeCommon("normal")
  BY <1>3, InitializeCommonKeepsWires DEF AllChannels
<1>4. CASE \/ Deny \/ SetDeactCalled \/ Deactivated \/ DeactivateFails \/ SendList
           \/ DisconnectWaits \/ AfterDown \/ IfcInit \/ IfcDown \/ IfcClose
           \/ ForgetState \/ WaitUp \/ AfterUp \/ Configure
           \/ DefineContext \/ networkAuth \/ parse_ip_information
           \/ StillUp("check1", "configure") \/ StillUp("check2", "complete")
           \/ SetupFails \/ SetupSucceeds \/ SetupErrs \/ JudgeFailure \/ TakeStatus \/ SetupFailed
           \/ TakeEvent
  BY <1>4, SameWires
  DEF Deny, SetDeactCalled, Deactivated, DeactivateFails, SendList, DisconnectWaits, AfterDown,
      IfcInit, IfcDown, IfcClose, ForgetState, WaitUp, AfterUp, Configure, DefineContext,
      networkAuth, parse_ip_information, StillUp, SetupFails, SetupSucceeds, SetupErrs,
      JudgeFailure, TakeStatus, SetupFailed, TakeEvent, OnlyGoto, Command, Complete
<1> QED BY <1>1, <1>2, <1>3, <1>4 DEF RunnerStep

LEMMA OthersKeepWires ==
    ASSUME TypeInv, TypeInv', Wires, PrioStep \/ FrameworkStep
    PROVE  Wires'
<1>1. CASE InitializeCommon("prio")
  BY <1>1, InitializeCommonKeepsWires DEF AllChannels
<1>2. CASE PrioTakesEvent \/ PrioSendsList
  BY <1>2, SameWires DEF PrioTakesEvent, PrioSendsList
<1>3. CASE FrameworkStep
  BY <1>3, SameWires
  DEF FrameworkStep, requestSetupDefaultPDP, requestDeactivateDefaultPDP, requestPDPContextList,
      Request
<1> QED BY <1>1, <1>2, <1>3 DEF PrioStep

LEMMA WiresSettle ==
    ASSUME TypeInv, Wires
    PROVE  StateMatchesNetwork
<1> SUFFICES ASSUME Quiet
             PROVE  /\ s_e2napState = "CONNECTED" => net = "up"
                    /\ s_e2napState = "DISCONNECTED" => net = "down"
  BY DEF StateMatchesNetwork
<1>1. "normal" \in Channels
  BY DEF Channels, AllChannels
<1>2. s_e2napState \in {"UNKNOWN", StateOf(net)}
  BY <1>1, NoReports DEF Quiet, Wires
<1> QED BY <1>2, StateOfNet DEF TypeInv

-----------------------------------------------------------------------------
(***************************************************************************)
(* The answer to a failed setup.  A CONNECTED that could clear the cause   *)
(* was there in the course of this setup.  And once the CONNECTING of the  *)
(* setup has overwritten an earlier rejection nobody holds it any more:    *)
(* only s_lastPdpFailCause may, until the reader that wrote the CONNECTING *)
(* checks the cause itself, and the setup checks it before it answers.     *)
(***************************************************************************)
Restoring == {"restore", "waitRestored", "failed"}

\* The local variables of mbm_check_error_cause and of the answer.
Locals ==
    /\ \A c \in AllChannels : e2napCause[c] # "UNKNOWN" => readerPc[c] \in {"check", "checkDown"}
    /\ e2napCause["runner"] # "UNKNOWN" => pc = "judge"
    /\ status # "NONE" => pc \in Restoring

NothingFailed ==
    req.kind = "setup" =>
        /\ s_e2napState = "CONNECTED" \/ s_lastPdpFailCause = "NONE" => wasUp
        /\ pc \in Restoring /\ status = "NONE" => wasUp

\* The reader that overwrote the rejection has still to look.
Overwriter ==
    /\ ~prio /\ readerPc["normal"] \in {"look", "check"} /\ pc # "status"
    /\ s_e2napCause = "UNKNOWN" /\ \A t \in Threads : e2napCause[t] = "UNKNOWN"

NoRejection ==
    req.kind = "setup" /\ ~rejected =>
        /\ s_e2napCause # "rejected" /\ \A t \in Threads : e2napCause[t] # "rejected"
        /\ status # "REJECTED"
        /\ s_lastPdpFailCause = "REJECTED" => Overwriter

CauseOK == Locals /\ NothingFailed /\ NoRejection

LEMMA ThreadsAre == Threads = AllChannels \cup {"runner"} /\ "runner" \notin AllChannels
  BY DEF Threads, AllChannels

\* A step that has nothing to do with the cause of a failure.
LEMMA SameCause ==
    ASSUME CauseOK, req'.kind = "setup" => req.kind = "setup",
           UNCHANGED <<s_lastPdpFailCause, e2napCause, wasUp, rejected, prio>>,
           s_e2napState' \in {s_e2napState, "UNKNOWN"},
           s_e2napCause' \in {s_e2napCause, "UNKNOWN"},
           \A c \in AllChannels : \A label \in {"look", "check", "checkDown"} :
               readerPc'[c] = label <=> readerPc[c] = label,
           pc' = "status" => pc = "status", pc = "judge" => pc' = "judge",
           pc' \in Restoring => pc \in Restoring,
           \/ status' = "NONE" /\ pc' \notin Restoring
           \/ status' = status /\ (pc \in Restoring => pc' \in Restoring)
    PROVE  CauseOK'
<1>1. Locals'
  BY DEF CauseOK, Locals
<1>2. NothingFailed'
  BY DEF CauseOK, NothingFailed
<1>3. NoRejection'
  <2>1. Overwriter => Overwriter'
    BY DEF Overwriter, AllChannels
  <2> QED BY <2>1 DEF CauseOK, NoRejection
<1> QED BY <1>1, <1>2, <1>3 DEF CauseOK

\* The report of a reader, in either of its two steps.
LEMMA ReportKeepsCause ==
    ASSUME LayerOne, Held, CauseOK, NEW c \in AllChannels, lines[c] # << >> => c \in Channels,
           TakeReport(c) \/ FinishReport(c)
    PROVE  CauseOK'
<1> DEFINE h == Head(lines[c])
<1>1. /\ UNCHANGED <<req, pc, prio, s_lastPdpFailCause, e2napCause, status>>
      /\ readerPc[c] \in {"idle", "written"} /\ (~prio => c = "normal")
  <2>1. lines[c] # << >>
    BY DEF TakeReport, FinishReport, Held
  <2> QED BY <2>1 DEF TakeReport, FinishReport, Channels
<1>2. CASE UNCHANGED <<s_e2napState, s_e2napCause, wasUp, rejected, readerPc>>
  BY <1>1, <1>2, SameCause
<1>3. CASE ~UNCHANGED <<s_e2napState, s_e2napCause, wasUp, rejected, readerPc>>
  <2>1. PICK overwritten \in BOOLEAN :
              /\ WriteState(h) \/ WriteCause(h)
              /\ NoteReport(h, overwritten)
              /\ overwritten => Overwritten(h) /\ WriteCause(h) /\ readerPc'[c] = "look"
    <3>1. CASE TakeReport(c)
      BY <1>3, <3>1 DEF TakeReport
    <3>2. CASE FinishReport(c)
      <4>1. /\ IF dual THEN WriteState(h) ELSE WriteCause(h)
            /\ NoteReport(h, Overwritten(h))
            /\ readerPc'[c] = IF BringsDown(h.state) THEN "lookDown" ELSE "look"
        BY <3>2 DEF FinishReport, ReaderGoto, LayerOne, TypeInv
      <4>2. Overwritten(h) \in BOOLEAN /\ (Overwritten(h) => ~dual /\ ~BringsDown(h.state))
        BY DEF Overwritten, BringsDown
      <4> QED BY <4>1, <4>2
    <3> QED BY <3>1, <3>2
  <2> HIDE DEF h
  <2>2. \A d \in AllChannels : d # c => readerPc'[d] = readerPc[d]
    BY DEF TakeReport, FinishReport, ReaderGoto, LayerOne, TypeInv
  <2>3. readerPc[c] \notin {"look", "check", "checkDown"} /\ e2napCause[c] = "UNKNOWN"
    BY <1>1 DEF CauseOK, Locals
  <2>4. Locals'
    BY <1>1, <2>2, <2>3 DEF CauseOK, Locals
  <2>5. NothingFailed'
    <3>1. (wasUp => wasUp') /\ (s_e2napState' = "CONNECTED" => wasUp')
      BY <2>1 DEF NoteReport
    <3> QED BY <1>1, <3>1 DEF CauseOK, NothingFailed
  <2>6. NoRejection'
    <3> SUFFICES ASSUME req.kind = "setup", ~rejected'
                 PROVE  /\ s_e2napCause' # "rejected"
                        /\ \A t \in Threads : e2napCause[t] # "rejected"
                        /\ status # "REJECTED"
                        /\ s_lastPdpFailCause = "REJECTED" => Overwriter'
      BY <1>1 DEF NoRejection
    <3>1. ~Rejects(h) /\ (rejected => overwritten)
      BY <2>1 DEF NoteReport
    <3>3. CASE ~rejected
      <4>1. ~Overwriter
        BY <1>1, <2>3 DEF Overwriter
      <4>2. s_e2napCause' # "rejected"
        BY <2>1, <3>1, <3>3 DEF WriteState, WriteCause, ReportedCause, Rejects, CauseOK, NoRejection
      <4> QED BY <3>3, <4>1, <4>2 DEF CauseOK, NoRejection
    <3>4. CASE rejected
      <4>1. Overwritten(h) /\ WriteCause(h) /\ readerPc'[c] = "look"
        BY <2>1, <3>1, <3>4
      <4>2. /\ ~prio /\ c = "normal" /\ pc \notin {"judge", "status"} \cup Restoring
            /\ s_e2napCause' = "UNKNOWN"
        BY <1>1, <4>1 DEF Overwritten, Answering, Restoring, WriteCause, ReportedCause
      <4>3. \A t \in Threads : e2napCause[t] = "UNKNOWN"
        <5>1. readerPc["prio"] = "idle"
          BY <4>2 DEF LayerOne, PrioOK
        <5> QED BY <2>3, <4>2, <5>1, ThreadsAre DEF CauseOK, Locals, AllChannels
      <4>4. status = "NONE"
        BY <4>2 DEF CauseOK, Locals
      <4> QED BY <1>1, <4>1, <4>2, <4>3, <4>4 DEF Overwriter
    <3> QED BY <3>3, <3>4
  <2> QED BY <2>4, <2>5, <2>6 DEF CauseOK
<1> QED BY <1>2, <1>3

\* mbm_check_error_cause, on any thread.
LEMMA CheckKeepsCause ==
    ASSUME LayerOne, CauseOK, NEW t \in Threads, SetFailCause(t),
           UNCHANGED <<s_e2napState, s_e2napCause>>,
           UNCHANGED <<req, wasUp, rejected, status, prio>>,
           t = "runner" => pc = "judge" /\ pc' = "status" /\ UNCHANGED readerPc,
           t # "runner" => pc' = pc /\ readerPc[t] \in {"check", "checkDown"}
                           /\ \A c \in AllChannels : c # t => readerPc'[c] = readerPc[c]
    PROVE  CauseOK'
<1>1. /\ e2napCause'[t] = "UNKNOWN" /\ \A u \in Threads : u # t => e2napCause'[u] = e2napCause[u]
      /\ e2napCause[t] \in Causes
  BY DEF SetFailCause, LayerOne, TypeInv, Causes
<1>2. /\ s_lastPdpFailCause' = "NONE" => s_e2napState = "CONNECTED" \/ s_lastPdpFailCause = "NONE"
      /\ s_lastPdpFailCause' = "REJECTED" =>
            \/ e2napCause[t] = "rejected"
            \/ (e2napCause[t] = "other" /\ s_lastPdpFailCause = "REJECTED")
  BY <1>1 DEF SetFailCause, FailCauseOf, Causes
<1>3. (pc' \in Restoring <=> pc \in Restoring) /\ (t # "runner" => pc' = pc)
  BY DEF Restoring
<1>4. Locals'
  BY <1>1, <1>3, ThreadsAre DEF CauseOK, Locals
<1>5. NothingFailed'
  BY <1>2, <1>3 DEF CauseOK, NothingFailed
<1>6. NoRejection'
  <2> SUFFICES ASSUME req.kind = "setup", ~rejected
               PROVE  /\ \A u \in Threads : e2napCause'[u] # "rejected"
                      /\ s_lastPdpFailCause' # "REJECTED"
    BY DEF NoRejection, CauseOK
  <2>1. e2napCause[t] # "rejected" /\ (s_lastPdpFailCause = "REJECTED" => e2napCause[t] = "UNKNOWN")
    BY DEF CauseOK, NoRejection, Overwriter
  <2> QED BY <1>1, <1>2, <2>1 DEF CauseOK, NoRejection
<1> QED BY <1>4, <1>5, <1>6 DEF CauseOK

LEMMA LookKeepsCause ==
    ASSUME LayerOne, CauseOK, NEW t \in Threads, ReadCause(t),
           UNCHANGED <<s_e2napState, s_e2napCause, s_lastPdpFailCause>>,
           UNCHANGED <<req, wasUp, rejected, status, prio>>,
           t = "runner" => pc = "error" /\ pc' = "judge" /\ UNCHANGED readerPc,
           t # "runner" =>
               /\ pc' = pc
               /\ \/ readerPc[t] = "look" /\ readerPc'[t] = "check"
                  \/ readerPc[t] = "lookDown" /\ readerPc'[t] = "checkDown"
               /\ \A c \in AllChannels : c # t => readerPc'[c] = readerPc[c]
    PROVE  CauseOK'
<1>1. e2napCause'[t] = s_e2napCause /\ \A u \in Threads : u # t => e2napCause'[u] = e2napCause[u]
  BY DEF ReadCause, LayerOne, TypeInv
<1>2. (pc' \in Restoring <=> pc \in Restoring) /\ (pc' = "status" => pc = "status")
  BY DEF Restoring
<1>3. Locals'
  BY <1>1, <1>2, ThreadsAre DEF CauseOK, Locals
<1>4. NothingFailed'
  BY <1>2 DEF CauseOK, NothingFailed
<1>5. Overwriter => Overwriter'
  <2> SUFFICES ASSUME Overwriter
               PROVE  Overwriter'
    OBVIOUS
  <2>1. readerPc'["normal"] \in {"look", "check"}
    BY ThreadsAre DEF Overwriter, AllChannels
  <2> QED BY <1>1, <1>2, <2>1 DEF Overwriter
<1>6. NoRejection'
  BY <1>1, <1>5 DEF CauseOK, NoRejection
<1> QED BY <1>3, <1>4, <1>6 DEF CauseOK

LEMMA CauseKept ==
    ASSUME LayerOne, Wires, CauseOK, Next
    PROVE  CauseOK'
<1>1. CASE ModemStep
  BY <1>1, SameCause
  DEF ModemStep, NetworkConnects, NetworkRejects, NetworkDrops, Garbled, ChannelsLost
<1>2. ASSUME NEW c \in AllChannels, ReaderStep(c)
      PROVE  CauseOK'
  <2>1. CASE TakeReport(c) \/ FinishReport(c)
    BY <2>1, ReportKeepsCause DEF Wires
  <2>2. \A d \in AllChannels : d # c => readerPc'[d] = readerPc[d]
    BY <1>2
    DEF ReaderStep, TakeReport, FinishReport, ReaderChecksCause, ReaderIfc, ReaderReports,
        ReaderResets, ReaderGoto, LayerOne, TypeInv
  <2>3. CASE ReaderChecksCause(c)
    <3>1. /\ c \in Threads /\ c # "runner" /\ UNCHANGED <<s_e2napState, s_e2napCause>>
          /\ UNCHANGED <<req, wasUp, rejected, status, prio, pc>>
      BY <2>3, ThreadsAre DEF ReaderChecksCause
    <3>2. CASE readerPc[c] \in {"look", "lookDown"}
      <4>1. ReadCause(c) /\ UNCHANGED s_lastPdpFailCause
            /\ readerPc'[c] = IF readerPc[c] = "look" THEN "check" ELSE "checkDown"
        BY <2>3, <3>2 DEF ReaderChecksCause, ReaderGoto, LayerOne, TypeInv
      <4> QED BY <2>2, <3>1, <3>2, <4>1, LookKeepsCause
    <3>3. CASE readerPc[c] \in {"check", "checkDown"}
      <4>1. SetFailCause(c)
        BY <2>3, <3>3 DEF ReaderChecksCause
      <4> QED BY <2>2, <3>1, <3>3, <4>1, CheckKeepsCause
    <3> QED BY <2>3, <3>2, <3>3 DEF ReaderChecksCause
  <2>4. CASE ReaderIfc(c) \/ ReaderReports(c) \/ ReaderResets(c)
    <3>1. \A label \in {"look", "check", "checkDown"} : readerPc'[c] # label /\ readerPc[c] # label
      BY <2>4 DEF ReaderIfc, ReaderReports, ReaderResets, ReaderGoto, LayerOne, TypeInv
    <3> QED BY <2>2, <2>4, <3>1, SameCause DEF ReaderIfc, ReaderReports, ReaderResets
  <2> QED BY <1>2, <2>1, <2>3, <2>4 DEF ReaderStep
<1>3. CASE FrameworkStep
  <2>1. /\ pc = "idle" /\ pc' \notin {"judge", "status"} \cup Restoring
        /\ UNCHANGED <<e2napCause, status, readerPc, prio>>
    BY <1>3
    DEF FrameworkStep, requestSetupDefaultPDP, requestDeactivateDefaultPDP, requestPDPContextList,
        Request, At, Goto, Restoring
  <2>2. Locals' /\ status = "NONE"
    BY <2>1 DEF CauseOK, Locals, Restoring
  <2>3. ASSUME NEW prof \in Profiles, requestSetupDefaultPDP(prof)
        PROVE  CauseOK'
    BY <2>1, <2>2, <2>3
    DEF requestSetupDefaultPDP, Request, ResetFailCause, CauseOK, NothingFailed, NoRejection
  <2>4. ASSUME \/ requestPDPContextList
               \/ \E cid \in Cids : requestDeactivateDefaultPDP(cid)
        PROVE  CauseOK'
    <3>1. req'.kind # "setup"
      BY <2>4 DEF requestPDPContextList, requestDeactivateDefaultPDP, Request
    <3> QED BY <2>2, <3>1 DEF CauseOK, NothingFailed, NoRejection
  <2> QED BY <1>3, <2>3, <2>4 DEF FrameworkStep
<1>4. CASE PrioStep \/ InitializeCommon("normal")
  BY <1>4, SameCause DEF PrioStep, PrioTakesEvent, PrioSendsList, SendContextList, InitializeCommon
<1>5. CASE SetupErrs
  BY <1>5, LookKeepsCause, ThreadsAre DEF SetupErrs, At, Goto
<1>6. CASE JudgeFailure
  BY <1>6, CheckKeepsCause, ThreadsAre DEF JudgeFailure, At, Goto
<1>7. CASE TakeStatus
  <2>1. /\ pc = "status" /\ pc' = "restore" /\ status' = s_lastPdpFailCause
        /\ UNCHANGED <<s_e2napState, s_e2napCause, s_lastPdpFailCause, e2napCause, readerPc, prio,
                       req, wasUp, rejected>>
    BY <1>7 DEF TakeStatus, At, Goto
  <2>2. Locals' /\ NothingFailed'
    BY <2>1 DEF CauseOK, Locals, NothingFailed, Restoring
  <2>3. NoRejection'
    BY <2>1 DEF CauseOK, NoRejection, Overwriter
  <2> QED BY <2>2, <2>3 DEF CauseOK
<1>8. CASE \/ Deny \/ SetDeactCalled \/ Deactivated \/ DeactivateFails \/ SendList \/ Disconnect
           \/ DisconnectWaits \/ AfterDown \/ IfcInit \/ IfcDown \/ IfcClose
           \/ ForgetState \/ Activate \/ WaitUp \/ AfterUp \/ Configure
           \/ DefineContext \/ networkAuth \/ parse_ip_information
           \/ StillUp("check1", "configure") \/ StillUp("check2", "complete")
           \/ SetupFails \/ SetupSucceeds \/ SetupFailed \/ TakeEvent
  <2>1. /\ UNCHANGED <<s_lastPdpFailCause, e2napCause, wasUp, rejected, prio, readerPc,
                      s_e2napCause>>
        /\ s_e2napState' \in {s_e2napState, "UNKNOWN"}
        /\ req'.kind = "setup" => req.kind = "setup"
    BY <1>8
    DEF Deny, SetDeactCalled, Deactivated, DeactivateFails, SendList, Disconnect, DisconnectWaits,
        AfterDown, IfcInit, IfcDown, IfcClose, ForgetState, Activate, WaitUp, AfterUp, Configure,
        DefineContext, networkAuth, parse_ip_information, StillUp, SetupFails, SetupSucceeds,
        SetupFailed, TakeEvent, OnlyGoto, Command, Complete, NoRequest, SendContextList
  <2>2. /\ pc' # "status" /\ pc # "judge"
        /\ pc' \in Restoring => pc \in Restoring
        /\ \/ status' = "NONE" /\ pc' \notin Restoring
           \/ status' = status /\ (pc \in Restoring => pc' \in Restoring)
    BY <1>8
    DEF Deny, SetDeactCalled, Deactivated, DeactivateFails, SendList, Disconnect, DisconnectWaits,
        AfterDown, IfcInit, IfcDown, IfcClose, ForgetState, Activate, WaitUp, AfterUp, Configure,
        DefineContext, networkAuth, parse_ip_information, StillUp, SetupFails, SetupSucceeds,
        SetupFailed, TakeEvent, OnlyGoto, Command, Complete, At, Goto, Restoring, AfterCommandFails,
        TeardownFails, Disconnecting
  <2> QED BY <2>1, <2>2, SameCause
<1>9. CASE Quiescent
  BY <1>9, SameCause DEF Quiescent, vars
<1> QED BY <1>1, <1>2, <1>3, <1>4, <1>5, <1>6, <1>7, <1>8, <1>9 DEF Next, RunnerStep

LEMMA FailuresHaveCauses ==
    ASSUME LayerOne, CauseOK, SetupFailed
    PROVE  /\ status = "NONE" => wasUp
           /\ status = "REJECTED" => rejected
<1>1. pc = "failed"
  BY DEF SetupFailed, At
<1> QED BY <1>1, RequestKind DEF CauseOK, NothingFailed, NoRejection, Restoring, SetupPcs

-----------------------------------------------------------------------------
(***************************************************************************)
(* What covers a connection that the framework believes in, or is about to *)
(* be told of.  As long as the modem keeps it nothing undoes it: nobody    *)
(* suppresses the news of its end and no reader thread is on its way to    *)
(* take the interface down.  When the modem ends it the news is on its     *)
(* way, in one of the forms it takes.                                      *)
(***************************************************************************)
\* The request will replace what the framework believes.
Overwriting ==
    \/ req.kind = "setup" /\ pc # "deny"
    \/ req.kind = "deactivate" /\ req.cid = s_ActiveCID

Believed == told \in Cids /\ ~Overwriting

InUse == chan["normal"] /\ (pc \in Established \/ Believed)

SocketFailed == "socket" \in faults

\* The reader of this channel will take the interface down.
DownPcs == {"lookDown", "checkDown", "ifcInit", "ifcDown", "ifcClose", "test"}
GoingDown(c) == HasDown(lines[c]) \/ readerPc[c] \in DownPcs

\* A report to the framework is on its way.
Coming ==
    \/ \E c \in AllChannels : GoingDown(c)
    \/ events > 0 \/ prioPc = "list" \/ (pc = "list" /\ req.kind = "event")

\* An s_DeactCalled that a teardown left is gone before the setup goes on: the
\* report of its own AT*ENAP=1 resets it.
FlagGoes ==
    pc \in Activated /\ chan["normal"]
      => ~s_DeactCalled \/ HasValid(lines["normal"]) \/ readerPc["normal"] # "idle"

FlagIsGone == InUse => ~s_DeactCalled /\ net # "connecting"

\* The next look at the state tells a setup the truth.
StateIsKnown == pc \in Configuring /\ ~overtaken => s_e2napState # "UNKNOWN"

News ==
    chan["normal"] /\ ~overtaken /\ (pc = "complete" \/ Believed) => net = "up" \/ Coming

Interface ==
    ~prio /\ ~SocketFailed /\ InUse /\ net = "up" =>
        /\ ~GoingDown("normal")
        /\ pc \in {"ifcUp", "ifcAddr"} => ifc_ctl_sock
        /\ pc = "ifcAddr" => iface = "up"
        /\ pc # "ifcUndo"
        /\ pc \in {"ifcClose", "check2", "complete"} \/ pc \notin Established
             => iface = "configured"

Covered == FlagGoes /\ FlagIsGone /\ StateIsKnown /\ News /\ Interface

LEMMA FaultsStay ==
    ASSUME Next
    PROVE  SocketFailed => SocketFailed'
<1>1. ASSUME NEW kind, Fault(kind)
      PROVE  faults \subseteq faults'
  BY <1>1 DEF Fault
<1>2. ASSUME NEW c, Fails(c)
      PROVE  faults \subseteq faults'
  BY <1>1, <1>2 DEF Fails
<1>3. ASSUME OpenSocket \/ SocketFails
      PROVE  faults \subseteq faults'
  BY <1>1, <1>3 DEF OpenSocket, SocketFails
<1>4. CASE ModemStep
  BY <1>1, <1>4
  DEF ModemStep, NetworkConnects, NetworkRejects, NetworkDrops, Garbled, ChannelsLost, SocketFailed
<1>5. ASSUME NEW c \in AllChannels, ReaderStep(c)
      PROVE  faults \subseteq faults'
  BY <1>3, <1>5
  DEF ReaderStep, TakeReport, FinishReport, ReaderChecksCause, ReaderIfc, ReaderReports,
      ReaderResets
<1>6. ASSUME NEW q, NEW solicited, ContextList(q, solicited)
      PROVE  faults \subseteq faults'
  BY <1>2, <1>6 DEF ContextList, TellsAddresses, TellsNone
<1>7. CASE PrioStep
  BY <1>6, <1>7
  DEF PrioStep, PrioTakesEvent, PrioSendsList, SendContextList, InitializeCommon, SocketFailed
<1>8. CASE FrameworkStep
  BY <1>8
  DEF FrameworkStep, requestSetupDefaultPDP, requestDeactivateDefaultPDP, requestPDPContextList,
      Request, SocketFailed
<1>9. CASE RunnerStep
  <2>1. CASE Disconnect \/ Activate \/ parse_ip_information \/ DefineContext \/ networkAuth
    BY <1>2, <2>1
    DEF Disconnect, Activate, parse_ip_information, DefineContext, networkAuth, Command,
        TellsAddresses, TellsNone, SocketFailed
  <2>2. CASE IfcInit \/ Configure \/ SendList
    BY <1>3, <1>6, <2>2 DEF IfcInit, Configure, SendList, SendContextList, SocketFailed
  <2>3. CASE \/ Deny \/ SetDeactCalled \/ Deactivated \/ DeactivateFails
             \/ DisconnectWaits \/ AfterDown \/ IfcDown \/ IfcClose
             \/ ForgetState \/ WaitUp \/ AfterUp
             \/ StillUp("check1", "configure") \/ StillUp("check2", "complete")
             \/ SetupFails \/ SetupSucceeds \/ SetupErrs \/ JudgeFailure \/ TakeStatus
             \/ SetupFailed \/ TakeEvent \/ InitializeCommon("normal")
    BY <2>3
    DEF Deny, SetDeactCalled, Deactivated, DeactivateFails, DisconnectWaits, AfterDown, IfcDown,
        IfcClose, ForgetState, WaitUp, AfterUp, StillUp, SetupFails, SetupSucceeds, SetupErrs,
        JudgeFailure, TakeStatus, SetupFailed, TakeEvent, InitializeCommon, OnlyGoto, SocketFailed
  <2> QED BY <1>9, <2>1, <2>2, <2>3 DEF RunnerStep
<1> QED BY <1>4, <1>5, <1>7, <1>8, <1>9 DEF Next, Quiescent, vars, SocketFailed

LEMMA Overwrites ==
    ASSUME LayerOne
    PROVE  /\ pc \in TeardownPcs \cup (SetupPcs \ {"deny"}) => Overwriting
           /\ pc \in Established => Overwriting
           /\ pc = "idle" => ~Overwriting
<1>1. pc \in SetupPcs \ {"deny"} => Overwriting
  BY RequestKind DEF Overwriting
<1>2. pc \in TeardownPcs => Overwriting
  BY DEF LayerOne, RequestOK, Overwriting, TeardownPcs
<1>3. Established \subseteq SetupPcs \ {"deny"}
  BY DEF Established, SetupPcs
<1> QED BY <1>1, <1>2, <1>3 DEF LayerOne, RequestOK, Overwriting, NoRequest

\* After a step to a place where no connection is in use there is nothing to show.
LEMMA NotInUse ==
    ASSUME pc' \notin Activated \cup Established,
           told' \notin Cids \/ Overwriting'
    PROVE  Covered'
<1>1. pc' \notin Configuring /\ pc' # "complete"
  BY DEF Configuring, Activated, Established
<1>2. ~Believed' /\ ~InUse'
  BY DEF Believed, InUse
<1> QED BY <1>1, <1>2 DEF Covered, FlagGoes, FlagIsGone, StateIsKnown, News, Interface

\* A step of the runner that leaves the framework's belief alone.
LEMMA BeliefKept ==
    ASSUME LayerOne, Covered,
           pc' \notin Activated \cup Established,
           Believed' => Believed,
           UNCHANGED <<prio, lines, readerPc, net, chan, s_DeactCalled, ifcVars, overtaken>>,
           SocketFailed => SocketFailed',
           Believed' /\ Coming => Coming' \/ net = "up"
    PROVE  Covered'
<1>1. pc' \notin Configuring /\ pc' # "complete"
  BY DEF Configuring, Activated, Established
<1>2. Believed' => pc \notin Established
  BY Overwrites DEF Believed
<1>3. GoingDown("normal")' <=> GoingDown("normal")
  BY DEF GoingDown
<1>4. pc \notin Established => pc # "ifcUndo"
  BY DEF Established
<1>5. FlagGoes' /\ FlagIsGone' /\ StateIsKnown'
  BY <1>1 DEF FlagGoes, FlagIsGone, StateIsKnown, InUse, Covered
<1>6. News'
  BY <1>1 DEF News, Covered
<1>7. Interface'
  <2>1. pc' \notin {"ifcUp", "ifcAddr", "ifcUndo"}
    BY DEF Established
  <2> QED BY <1>2, <1>3, <2>1 DEF Interface, InUse, Covered
<1> QED BY <1>5, <1>6, <1>7 DEF Covered

\* A step of the prio runner.
LEMMA AnothersStep ==
    ASSUME Covered, SocketFailed => SocketFailed',
           UNCHANGED <<pc, req, s_ActiveCID, prio, lines, readerPc, net, s_DeactCalled, ifcVars>>,
           chan'["normal"] = chan["normal"],
           told' \in {told, None}, overtaken => overtaken',
           s_e2napState' = s_e2napState \/ (pc \in Configuring => overtaken'),
           ~overtaken' /\ Coming /\ (pc = "complete" \/ told' \in Cids) => Coming' \/ net = "up"
    PROVE  Covered'
<1>1. (Believed' => Believed) /\ (InUse' => InUse)
  BY CidsAreCids DEF Believed, InUse, Overwriting
<1>2. GoingDown("normal")' <=> GoingDown("normal")
  BY DEF GoingDown
<1>3. FlagGoes' /\ FlagIsGone' /\ StateIsKnown'
  BY <1>1 DEF FlagGoes, FlagIsGone, StateIsKnown, Covered
<1>4. News'
  BY <1>1 DEF News, Covered, Believed
<1>5. Interface'
  BY <1>1, <1>2 DEF Interface, Covered
<1> QED BY <1>3, <1>4, <1>5 DEF Covered

\* What a report of the modem adds.
LEMMA ReportAdds ==
    ASSUME TypeInv, NEW state \in {"CONNECTED", "CONNECTING", "DISCONNECTED", "invalid"},
           NEW cause \in Causes, Report(state, cause)
    PROVE  /\ HasValid(lines["normal"]) => HasValid(lines'["normal"])
           /\ \A c \in AllChannels : HasDown(lines[c]) => HasDown(lines'[c])
           /\ HasDown(lines'["normal"]) /\ state # "DISCONNECTED" => HasDown(lines["normal"])
           /\ chan["normal"] /\ state = "DISCONNECTED" => HasDown(lines'["normal"])
           /\ chan["normal"] /\ state # "invalid" => HasValid(lines'["normal"])
<1>1. PICK r \in Reports :
            /\ r.state = state
            /\ \A c \in AllChannels :
                  lines'[c] = IF c \in Channels /\ chan[c] THEN Append(lines[c], r) ELSE lines[c]
  BY ReportTypes
<1>2. "normal" \in Channels /\ Channels \subseteq AllChannels
  BY DEF Channels, AllChannels
<1>3. \A c \in AllChannels : lines[c] \in Seq(Reports)
  BY DEF TypeInv
<1> QED BY <1>1, <1>2, <1>3, OneMore

LEMMA ModemKeepsCovered ==
    ASSUME LayerOne, Covered, ModemStep, SocketFailed => SocketFailed'
    PROVE  Covered'
<1>1. /\ UNCHANGED <<pc, req, s_ActiveCID, prio, readerPc, s_DeactCalled, ifcVars, s_e2napState,
                     overtaken, events, prioPc>>
      /\ told' \in {told, None}
  BY DEF ModemStep, NetworkConnects, NetworkRejects, NetworkDrops, Garbled, ChannelsLost
<1>2. (Believed' => Believed) /\ StateIsKnown'
  BY <1>1, CidsAreCids DEF Believed, Overwriting, StateIsKnown, Covered
<1>3. ASSUME NEW state \in {"CONNECTED", "CONNECTING", "DISCONNECTED", "invalid"},
             NEW cause \in Causes, Report(state, cause), chan' = chan,
             \/ net = "connecting"
             \/ state = "DISCONNECTED" /\ net = "up" /\ net' = "down"
             \/ state = "invalid" /\ net' = net
      PROVE  Covered'
  <2>1. InUse' => InUse
    BY <1>1, <1>2, <1>3 DEF InUse
  <2>2. FlagGoes'
    BY <1>1, <1>3, ReportAdds DEF FlagGoes, Covered, LayerOne
  <2>3. InUse' => ~s_DeactCalled /\ net # "connecting"
    BY <2>1 DEF FlagIsGone, Covered
  <2>4. FlagIsGone'
    BY <1>1, <1>3, <2>3 DEF FlagIsGone
  <2>5. Coming => Coming'
    BY <1>1, <1>3, ReportAdds DEF Coming, GoingDown, LayerOne
  <2>6. pc = "complete" => pc \in Established
    BY DEF Established
  <2>7. News'
    <3> SUFFICES ASSUME chan'["normal"], ~overtaken', pc' = "complete" \/ Believed'
                 PROVE  net' = "up" \/ Coming'
      BY DEF News
    <3>1. net # "connecting" /\ (net = "up" \/ Coming)
      BY <1>1, <1>2, <1>3, <2>1, <2>3, <2>6 DEF News, Covered, InUse
    <3>2. CASE state = "DISCONNECTED"
      BY <1>1, <1>3, <3>2, ReportAdds DEF Coming, GoingDown, AllChannels, LayerOne
    <3> QED BY <1>3, <2>5, <3>1, <3>2
  <2>8. Interface'
    <3> SUFFICES ASSUME ~prio', ~SocketFailed', InUse', net' = "up"
                 PROVE  Interface'
      BY DEF Interface
    <3>1. state = "invalid" /\ net = "up"
      BY <1>3, <2>3
    <3>2. ~GoingDown("normal")'
      BY <1>1, <1>3, <2>1, <3>1, ReportAdds DEF GoingDown, Interface, Covered, LayerOne
    <3> QED BY <1>1, <2>1, <3>1, <3>2 DEF Interface, Covered
  <2> QED BY <1>2, <2>2, <2>4, <2>7, <2>8 DEF Covered
<1>4. CASE NetworkConnects
  BY <1>3, <1>4 DEF NetworkConnects, Causes
<1>5. CASE NetworkRejects
  BY <1>3, <1>5 DEF NetworkRejects
<1>6. CASE NetworkDrops
  BY <1>3, <1>6 DEF NetworkDrops
<1>7. CASE Garbled
  BY <1>3, <1>7 DEF Garbled, Causes
<1>8. CASE ChannelsLost
  <2>1. ~chan'["normal"]
    BY <1>8 DEF ChannelsLost, AllChannels
  <2> QED BY <1>2, <2>1 DEF Covered, FlagGoes, FlagIsGone, News, Interface, InUse
<1> QED BY <1>4, <1>5, <1>6, <1>7, <1>8 DEF ModemStep

\* A report is handled, and as much goes down after it as before.
LEMMA SameDirection ==
    ASSUME Covered, SocketFailed => SocketFailed',
           UNCHANGED <<pc, req, s_ActiveCID, prio, s_DeactCalled, ifcVars, overtaken, events,
                       prioPc, told, chan, net>>,
           s_e2napState' # "UNKNOWN" \/ s_e2napState' = s_e2napState,
           \A d \in AllChannels : GoingDown(d)' <=> GoingDown(d),
           \/ readerPc'["normal"] # "idle"
           \/ UNCHANGED <<lines["normal"], readerPc["normal"]>>
    PROVE  Covered'
<1>1. FlagGoes' /\ FlagIsGone' /\ StateIsKnown'
  BY DEF FlagGoes, FlagIsGone, StateIsKnown, Covered, InUse, Believed, Overwriting
<1>2. Coming => Coming'
  BY DEF Coming
<1>3. News' /\ Interface'
  BY <1>2 DEF News, Interface, Covered, InUse, Believed, Overwriting, AllChannels
<1> QED BY <1>1, <1>3 DEF Covered

\* A line that is not understood goes; a report is begun and stays the first.
LEMMA TakeReportKeepsCovered ==
    ASSUME LayerOne, Wires, Covered, NEW c \in AllChannels, TakeReport(c),
           SocketFailed => SocketFailed'
    PROVE  Covered'
<1>1. UNCHANGED <<pc, req, s_ActiveCID, prio, s_DeactCalled, ifcVars, overtaken, events, prioPc,
                  told, chan, net>>
  BY DEF TakeReport
<1>2. lines[c] \in Seq(Reports) /\ lines[c] # << >> /\ readerPc[c] = "idle"
  BY DEF TakeReport, LayerOne, TypeInv
<1> DEFINE h == Head(lines[c])
<1>3. h \in Reports
  BY <1>2, OneLess
<1>4. CASE h.state = "invalid" \/ radio # "AVAILABLE"
  <2>1. /\ UNCHANGED <<s_e2napState, readerPc>>
        /\ lines'[c] = Tail(lines[c]) /\ \A d \in AllChannels : d # c => lines'[d] = lines[d]
    BY <1>4 DEF TakeReport, ValidState, E2napStates, LayerOne, TypeInv
  <2>2. CASE radio = "AVAILABLE"
    <3>1. /\ HasValid(lines["normal"]) => HasValid(lines'["normal"])
          /\ \A d \in AllChannels : HasDown(lines'[d]) <=> HasDown(lines[d])
      <4>1. /\ HasValid(lines[c]) => HasValid(lines'[c])
            /\ HasDown(lines'[c]) <=> HasDown(lines[c])
        BY <1>2, <1>4, <2>1, <2>2, OneLess
      <4> QED BY <2>1, <4>1 DEF AllChannels
    <3>2. \A d \in AllChannels : GoingDown(d)' <=> GoingDown(d)
      BY <2>1, <3>1 DEF GoingDown
    <3>3. FlagGoes' /\ FlagIsGone' /\ StateIsKnown'
      BY <1>1, <2>1, <3>1
      DEF FlagGoes, FlagIsGone, StateIsKnown, Covered, InUse, Believed, Overwriting
    <3>4. Coming => Coming'
      BY <1>1, <3>2 DEF Coming
    <3>5. News' /\ Interface'
      BY <1>1, <3>2, <3>4 DEF News, Interface, Covered, InUse, Believed, Overwriting, AllChannels
    <3> QED BY <3>3, <3>5 DEF Covered
  <2>3. CASE radio # "AVAILABLE"
    <3>1. ~chan'["normal"]
      BY <1>1, <2>3 DEF Wires
    <3> QED BY <1>1, <2>1, <3>1
            DEF Covered, FlagGoes, FlagIsGone, News, Interface, InUse, StateIsKnown
  <2> QED BY <2>2, <2>3
<1>5. CASE h.state # "invalid" /\ radio = "AVAILABLE"
  <2>1. /\ s_e2napState' \in {h.state, s_e2napState} /\ h.state # "UNKNOWN"
        /\ lines' = lines
        /\ readerPc'[c] = "written" /\ \A d \in AllChannels : d # c => readerPc'[d] = readerPc[d]
    BY <1>3, <1>5
    DEF TakeReport, ValidState, E2napStates, WriteState, WriteCause, ReportedState, ReaderGoto,
        Reports, LayerOne, TypeInv
  <2>2. \A d \in AllChannels : GoingDown(d)' <=> GoingDown(d)
    BY <1>2, <2>1 DEF GoingDown, DownPcs
  <2>3. \/ readerPc'["normal"] # "idle"
        \/ UNCHANGED <<lines["normal"], readerPc["normal"]>>
    BY <2>1 DEF AllChannels
  <2>4. s_e2napState' # "UNKNOWN" \/ s_e2napState' = s_e2napState
    BY <2>1
  <2> QED BY <1>1, <2>2, <2>3, <2>4, SameDirection
<1> QED BY <1>4, <1>5

\* What goes down is what went down.
LEMMA FinishReportKeepsCovered ==
    ASSUME LayerOne, Wires, Covered, NEW c \in AllChannels, FinishReport(c),
           SocketFailed => SocketFailed'
    PROVE  Covered'
<1>1. UNCHANGED <<pc, req, s_ActiveCID, prio, s_DeactCalled, ifcVars, overtaken, events, prioPc,
                  told, chan, net>>
  BY DEF FinishReport
<1>2. /\ lines[c] \in Seq(Reports) /\ lines[c] # << >> /\ Head(lines[c]).state # "invalid"
      /\ readerPc[c] = "written"
  BY DEF FinishReport, LayerOne, TypeInv, Wires, Held
<1> DEFINE h == Head(lines[c])
<1>3. h \in Reports /\ h.state # "UNKNOWN"
  BY <1>2, OneLess DEF Reports
<1>4. /\ s_e2napState' \in {h.state, s_e2napState}
      /\ readerPc'[c] = IF h.state = "DISCONNECTED" THEN "lookDown" ELSE "look"
      /\ lines'[c] = Tail(lines[c])
      /\ \A d \in AllChannels : d # c => readerPc'[d] = readerPc[d] /\ lines'[d] = lines[d]
  BY DEF FinishReport, WriteState, WriteCause, ReportedState, BringsDown, ReaderGoto, LayerOne,
         TypeInv
<1>5. \A d \in AllChannels : GoingDown(d)' <=> GoingDown(d)
  BY <1>2, <1>4, OneLess DEF GoingDown, DownPcs
<1>6. \/ readerPc'["normal"] # "idle"
      \/ UNCHANGED <<lines["normal"], readerPc["normal"]>>
  BY <1>4 DEF AllChannels
<1> QED BY <1>1, <1>3, <1>4, <1>5, <1>6, SameDirection

LEMMA ReaderKeepsCovered ==
    ASSUME LayerOne, Wires, Covered, NEW c \in AllChannels, ReaderStep(c),
           SocketFailed => SocketFailed'
    PROVE  Covered'
<1>1. CASE TakeReport(c) \/ FinishReport(c)
  BY <1>1, TakeReportKeepsCovered, FinishReportKeepsCovered
<1>2. CASE ReaderChecksCause(c) \/ ReaderIfc(c) \/ ReaderReports(c) \/ ReaderResets(c)
  <2>1. UNCHANGED <<pc, req, s_ActiveCID, prio, overtaken, prioPc, told, chan, net, lines,
                    s_e2napState>>
    BY <1>2 DEF ReaderChecksCause, ReaderIfc, ReaderReports, ReaderResets
  <2>2. (s_DeactCalled' => s_DeactCalled) /\ readerPc[c] # "idle"
    BY <1>2 DEF ReaderChecksCause, ReaderIfc, ReaderReports, ReaderResets, ResetDeactCalled
  <2>3. /\ \A d \in AllChannels : d # c => readerPc'[d] = readerPc[d]
        /\ readerPc'[c] = "idle" => ~s_DeactCalled'
        /\ readerPc[c] \notin DownPcs => readerPc'[c] \notin DownPcs
        /\ readerPc[c] \in DownPcs /\ readerPc'[c] \notin DownPcs => readerPc[c] = "test"
    BY <1>2
    DEF ReaderChecksCause, ReaderIfc, ReaderReports, ReaderResets, ReaderGoto, ResetDeactCalled,
        DownPcs, LayerOne, TypeInv
  <2>4. /\ events' \in {events, events + 1}
        /\ readerPc[c] = "test" /\ ~s_DeactCalled => events' = events + 1
    BY <1>2 DEF ReaderChecksCause, ReaderIfc, ReaderReports, ReaderResets
  <2>5. FlagGoes' /\ FlagIsGone' /\ StateIsKnown'
    <3>1. readerPc'["normal"] = "idle" => ~s_DeactCalled' \/ readerPc["normal"] = "idle"
      BY <2>3 DEF AllChannels
    <3>2. FlagGoes'
      BY <2>1, <2>2, <3>1 DEF FlagGoes, Covered
    <3>3. FlagIsGone' /\ StateIsKnown'
      <4>1. (InUse' <=> InUse)
        BY <2>1 DEF InUse, Believed, Overwriting
      <4> QED BY <2>1, <2>2, <4>1 DEF FlagIsGone, StateIsKnown, Covered
    <3> QED BY <3>2, <3>3
  <2>6. InUse /\ Coming => Coming'
    <3>1. events \in Nat
      BY DEF LayerOne, TypeInv
    <3>2. CASE readerPc[c] = "test"
      BY <2>4, <3>1, <3>2 DEF Coming, FlagIsGone, Covered
    <3>3. CASE readerPc[c] # "test"
      BY <2>1, <2>3, <2>4, <3>1, <3>3 DEF Coming, GoingDown
    <3> QED BY <3>2, <3>3
  <2>7. News'
    BY <2>1, <2>6 DEF News, Covered, InUse, Believed, Overwriting, Established
  <2>8. Interface'
    <3> SUFFICES ASSUME ~prio, ~SocketFailed, InUse, net = "up"
                 PROVE  Interface'
      BY <2>1 DEF Interface, InUse, Believed, Overwriting
    <3>1. ~GoingDown("normal") /\ c = "normal"
      BY <2>2 DEF Interface, Covered, LayerOne, PrioOK, AllChannels
    <3>2. readerPc["normal"] \notin DownPcs
      BY <3>1 DEF GoingDown
    <3>3. ~GoingDown("normal")'
      BY <2>1, <2>3, <3>1, <3>2 DEF GoingDown
    <3>4. UNCHANGED ifcVars
      BY <1>2, <3>1, <3>2 DEF ReaderChecksCause, ReaderIfc, ReaderReports, ReaderResets, DownPcs
    <3> QED BY <2>1, <3>3, <3>4 DEF Interface, Covered
  <2> QED BY <2>5, <2>7, <2>8 DEF Covered
<1> QED BY <1>1, <1>2 DEF ReaderStep

\* An unsolicited context list leaves no belief in a connection that is gone.
LEMMA ListClears ==
    ASSUME NEW q, ContextList(q, FALSE)
    PROVE  told' \in Cids => net = "up"
  BY CidsAreCids DEF ContextList, TellsAddresses

LEMMA PrioKeepsCovered ==
    ASSUME LayerOne, Covered, PrioStep, SocketFailed => SocketFailed'
    PROVE  Covered'
<1>1. CASE PrioTakesEvent
  <2>1. Coming'
    BY <1>1 DEF PrioTakesEvent, Coming
  <2> QED BY <1>1, <2>1, AnothersStep DEF PrioTakesEvent
<1>2. CASE PrioSendsList
  <2>1. ContextList("prio", FALSE) /\ told' \in {told, None} /\ (told' \in Cids => net = "up")
    BY <1>2, ListTypes, ListClears DEF PrioSendsList, SendContextList
  <2>2. (overtaken => overtaken') /\ (pc = "complete" => overtaken')
    BY <1>2 DEF PrioSendsList, SendContextList
  <2> QED BY <1>2, <2>1, <2>2, AnothersStep DEF PrioSendsList
<1>3. CASE InitializeCommon("prio")
  <2>1. chan'["normal"] = chan["normal"] /\ told' = told
    BY <1>3 DEF InitializeCommon, LayerOne, TypeInv, AllChannels
  <2>2. (overtaken => overtaken') /\ (pc \in Configuring => overtaken')
    BY <1>3 DEF InitializeCommon
  <2>3. Coming => Coming'
    BY <1>3 DEF InitializeCommon, Coming, GoingDown
  <2> QED BY <1>3, <2>1, <2>2, <2>3, AnothersStep DEF InitializeCommon
<1> QED BY <1>1, <1>2, <1>3 DEF PrioStep

LEMMA FrameworkKeepsCovered ==
    ASSUME LayerOne, LayerOne', Covered, FrameworkStep, SocketFailed => SocketFailed'
    PROVE  Covered'
<1>1. PICK kind \in {"setup", "deactivate", "list"}, cid \in Cids \cup {NoCid},
           label \in {"down", "setDeact", "deny", "deactivated", "list"} :
        /\ Request(kind, cid, label)
        /\ label = "down" => kind = "setup"
        /\ label = "deny" => overtaken' = overtaken
        /\ kind # "setup" => overtaken' = overtaken
  <2>1. ASSUME NEW prof \in Profiles, requestSetupDefaultPDP(prof)
        PROVE  \E cid \in Cids, label \in {"down", "setDeact", "deny"} :
                  Request("setup", cid, label) /\ (label = "deny" => overtaken' = overtaken)
    <3>1. prof + 1 \in Cids
      BY DEF Cids
    <3>2. PICK label \in {"down", "setDeact", "deny"} : Request("setup", prof + 1, label)
      BY <2>1 DEF requestSetupDefaultPDP
    <3>3. label = "deny" => overtaken' = overtaken
      BY <2>1, <3>2 DEF requestSetupDefaultPDP, Request, Goto, LayerOne, TypeInv
    <3> QED BY <3>1, <3>2, <3>3
  <2>2. ASSUME NEW cid \in Cids, requestDeactivateDefaultPDP(cid)
        PROVE  \E label \in {"setDeact", "deactivated"} :
                  Request("deactivate", cid, label) /\ overtaken' = overtaken
    BY <2>2 DEF requestDeactivateDefaultPDP
  <2>3. ASSUME requestPDPContextList
        PROVE  Request("list", NoCid, "list") /\ overtaken' = overtaken
    BY <2>3 DEF requestPDPContextList
  <2> QED BY <2>1, <2>2, <2>3 DEF FrameworkStep
<1>2. /\ pc = "idle" /\ pc' = label /\ req' = [kind |-> kind, cid |-> cid] /\ told' = told
      /\ UNCHANGED <<s_ActiveCID, prio, lines, readerPc, net, chan, s_DeactCalled, ifcVars,
                     events, prioPc>>
  BY <1>1 DEF Request, At, Goto
<1>3. pc' \notin Activated \cup Established
  BY <1>2 DEF Activated, Established
<1>4. CASE kind = "setup" /\ label # "deny"
  BY <1>2, <1>3, <1>4, NotInUse DEF Overwriting
<1>5. CASE kind # "setup" \/ label = "deny"
  <2>1. overtaken' = overtaken
    BY <1>1, <1>5
  <2>2. Believed' => Believed
    BY <1>2, Overwrites DEF Believed
  <2>3. Coming => Coming'
    BY <1>2 DEF Coming, GoingDown
  <2> QED BY <1>2, <1>3, <2>1, <2>2, <2>3, BeliefKept
<1> QED BY <1>4, <1>5

\* A step of a teardown, or of a setup before the connection is there or after it
\* failed.
LEMMA StillOverwriting ==
    ASSUME Overwriting, UNCHANGED <<req, s_ActiveCID>>,
           pc' \notin Activated \cup Established \cup {"deny"}
    PROVE  Covered'
  BY NotInUse DEF Overwriting

LEMMA TeardownKeepsCovered ==
    ASSUME LayerOne, Covered,
           \/ SetDeactCalled \/ Disconnect \/ DisconnectWaits \/ AfterDown
           \/ IfcInit \/ IfcDown \/ IfcClose
           \/ ForgetState \/ DefineContext \/ networkAuth
           \/ SetupErrs \/ JudgeFailure \/ TakeStatus
    PROVE  Covered'
<1>1. UNCHANGED <<req, s_ActiveCID>>
  BY DEF SetDeactCalled, Disconnect, DisconnectWaits, AfterDown, IfcInit, IfcDown, IfcClose,
         ForgetState, DefineContext, networkAuth, SetupErrs, JudgeFailure, TakeStatus, OnlyGoto,
         Command
<1>2. pc \in TeardownPcs \cup (SetupPcs \ {"deny"})
  BY DEF SetDeactCalled, Disconnect, DisconnectWaits, AfterDown, IfcInit, IfcDown, IfcClose,
         ForgetState, DefineContext, networkAuth, SetupErrs, JudgeFailure, TakeStatus, OnlyGoto,
         Command, At, Disconnecting, TeardownPcs, SetupPcs
<1>3. pc' \notin Activated \cup Established \cup {"deny"}
  BY DEF SetDeactCalled, Disconnect, DisconnectWaits, AfterDown, IfcInit, IfcDown, IfcClose,
         ForgetState, DefineContext, networkAuth, SetupErrs, JudgeFailure, TakeStatus, OnlyGoto,
         Command, Goto, AfterCommandFails, TeardownFails, Activated, Established
<1> QED BY <1>1, <1>2, <1>3, Overwrites, StillOverwriting

\* The modem goes up: from AT*ENAP=1 to the answer that tells the addresses.
LEMMA ActivationKeepsCovered ==
    ASSUME LayerOne, Covered, Activate \/ WaitUp \/ AfterUp \/ parse_ip_information
    PROVE  Covered'
<1>1. /\ UNCHANGED <<req, s_ActiveCID, prio, readerPc, s_DeactCalled, ifcVars, s_e2napState,
                     overtaken, told, chan>>
      /\ pc \in {"activate"} \cup Activated
  BY DEF Activate, WaitUp, AfterUp, parse_ip_information, OnlyGoto, At, Activated
<1>2. Overwriting
  BY <1>1, Overwrites DEF SetupPcs, Activated
<1>3. CASE pc' = "error"
  BY <1>1, <1>2, <1>3, StillOverwriting DEF Activated, Established
<1>4. ASSUME pc' \in Activated, pc' = "parse" => s_e2napState # "UNKNOWN",
             \/ HasValid(lines'["normal"])
             \/ pc \in Activated /\ lines' = lines
      PROVE  Covered'
  <2>1. pc' \notin Established /\ pc' \notin {"complete", "deny"}
        /\ (pc' \in Configuring => pc' = "parse")
    BY <1>4 DEF Activated, Established, Configuring
  <2>2. ~InUse' /\ ~Believed'
    BY <1>1, <1>2, <2>1 DEF InUse, Believed, Overwriting
  <2>3. FlagGoes'
    BY <1>1, <1>4 DEF FlagGoes, Covered
  <2> QED BY <1>1, <1>4, <2>1, <2>2, <2>3 DEF Covered, FlagIsGone, StateIsKnown, News, Interface
<1>5. CASE Activate
  <2>1. CASE pc' = "error"
    BY <1>3, <2>1
  <2>2. CASE pc' # "error"
    <3>1. pc' = "waitUp" /\ Report("CONNECTING", "UNKNOWN") /\ chan["normal"]
      BY <1>5, <2>2 DEF Activate, Goto, Answered
    <3>2. HasValid(lines'["normal"])
      BY <3>1, ReportAdds DEF LayerOne, Causes
    <3> QED BY <1>4, <3>1, <3>2 DEF Activated
  <2> QED BY <2>1, <2>2
<1>6. CASE WaitUp
  BY <1>4, <1>6 DEF WaitUp, OnlyGoto, At, Goto, Activated
<1>7. CASE AfterUp
  <2>1. /\ pc = "afterUp" /\ lines' = lines /\ pc' \in {"parse", "error"}
        /\ pc' = "parse" => s_e2napState = "CONNECTED"
    BY <1>7 DEF AfterUp, OnlyGoto, At, Goto
  <2> QED BY <1>3, <1>4, <2>1 DEF Activated
<1>8. CASE parse_ip_information
  <2>1. pc = "parse" /\ pc' \in {"check1", "error"} /\ UNCHANGED <<lines, net>>
    BY <1>8 DEF parse_ip_information, At, Goto
  <2>2. CASE pc' = "check1"
    <3>1. TellsAddresses("normal")
      BY <1>8, <2>2 DEF parse_ip_information, Goto
    <3>2. /\ chan["normal"] /\ lines["normal"] = << >> /\ readerPc["normal"] = "idle"
          /\ net = "up"
      BY <3>1 DEF TellsAddresses, Answered
    <3>3. ~s_DeactCalled /\ ~GoingDown("normal")
      BY <2>1, <3>2, NoReports DEF FlagGoes, Covered, Activated, GoingDown, DownPcs
    <3>4. StateIsKnown'
      BY <1>1, <2>1 DEF StateIsKnown, Covered, Configuring
    <3>5. FlagGoes' /\ FlagIsGone' /\ News'
      BY <1>1, <2>1, <2>2, <3>2, <3>3 DEF FlagGoes, FlagIsGone, News, Activated
    <3>6. ~GoingDown("normal")' /\ "check1" \in Established
      BY <1>1, <2>1, <3>3 DEF GoingDown, Established
    <3>7. Interface'
      BY <2>2, <3>6 DEF Interface
    <3> QED BY <3>4, <3>5, <3>7 DEF Covered
  <2> QED BY <1>3, <2>1, <2>2
<1> QED BY <1>5, <1>6, <1>7, <1>8

\* A setup that saw a state other than DISCONNECTED, when nobody made it forget:
\* the modem is up, or the report that it is not is on its way.
LEMMA LastLook ==
    ASSUME TypeInv, Wires, FlagIsGone, StateIsKnown, pc = "check2", chan["normal"], ~overtaken,
           s_e2napState # "DISCONNECTED"
    PROVE  net = "up" \/ Coming
<1>1. net # "connecting" /\ s_e2napState # "UNKNOWN"
  BY DEF FlagIsGone, InUse, Established, StateIsKnown, Configuring
<1> SUFFICES ASSUME net = "down"
             PROVE  Coming
  BY <1>1 DEF TypeInv
<1>2. PICK c \in Channels : HasValid(lines[c])
  BY <1>1, StateOfNet DEF Wires
<1>3. EndsIn(lines[c], "DISCONNECTED")
  <2>1. c \in AllChannels /\ chan[c]
    BY <1>2, NoReports DEF Wires, Held, Channels, AllChannels
  <2> QED BY <2>1, StateOfNet DEF Wires
<1>4. HasDown(lines[c])
  BY <1>2, <1>3 DEF EndsIn, HasDown
<1> QED BY <1>4 DEF Coming, GoingDown, Channels, AllChannels

LEMMA EstablishedKeepsCovered ==
    ASSUME LayerOne, Wires, Covered, SocketFailed => SocketFailed',
           \/ StillUp("check1", "configure") \/ StillUp("check2", "complete") \/ Configure
    PROVE  Covered'
<1>1. /\ UNCHANGED <<req, s_ActiveCID, prio, readerPc, lines, net, s_DeactCalled, s_e2napState,
                     overtaken, told, chan, events, prioPc>>
      /\ pc \in Configuring /\ pc \in Established
  BY DEF StillUp, Configure, OnlyGoto, At, Configuring, Established
<1>2. Overwriting
  BY <1>1, Overwrites
<1>3. CASE pc' = "error"
  BY <1>1, <1>2, <1>3, StillOverwriting DEF Activated, Established
<1>4. CASE pc' \in Established
  <2>1. pc' \notin Activated /\ pc' # "deny"
    BY <1>4 DEF Established, Activated
  <2>2. ~Believed' /\ (InUse' => InUse)
    BY <1>1, <1>2, <2>1 DEF Believed, Overwriting, InUse
  <2>3. FlagGoes' /\ FlagIsGone' /\ StateIsKnown'
    BY <1>1, <2>1, <2>2 DEF FlagGoes, FlagIsGone, StateIsKnown, Covered
  <2>4. News'
    <3> SUFFICES ASSUME chan'["normal"], ~overtaken', pc' = "complete"
                 PROVE  net' = "up" \/ Coming'
      BY <2>2 DEF News
    <3>1. pc = "check2" /\ s_e2napState # "DISCONNECTED"
      BY DEF StillUp, Configure, OnlyGoto, At, Goto
    <3>2. net = "up" \/ Coming
      BY <1>1, <3>1, LastLook DEF Covered, LayerOne
    <3> QED BY <1>1, <3>1, <3>2 DEF Coming, GoingDown
  <2>5. Interface'
    <3> SUFFICES ASSUME ~prio, ~SocketFailed, ~SocketFailed', InUse, net = "up"
                 PROVE  Interface'
      BY <1>1, <2>2 DEF Interface
    <3>1. ~GoingDown("normal") /\ ~GoingDown("normal")'
      BY <1>1 DEF Interface, Covered, GoingDown
    <3>2. CASE StillUp("check1", "configure")
      BY <1>4, <3>1, <3>2 DEF Interface, StillUp, OnlyGoto, Goto, Established
    <3>3. CASE StillUp("check2", "complete")
      BY <1>4, <3>1, <3>3 DEF Interface, Covered, StillUp, OnlyGoto, At, Goto
    <3>4. CASE Configure
      <4>1. CASE pc = "configure"
        <5>1. ifc_ctl_sock' = TRUE
          BY <3>4, <4>1 DEF Configure, At, OpenSocket, SocketFails, Fault, SocketFailed
        <5> QED BY <1>4, <3>1, <3>4, <4>1, <5>1 DEF Interface, Configure, At, Goto
      <4>2. CASE pc = "ifcUp"
        BY <1>4, <3>1, <3>4, <4>2 DEF Interface, Covered, Configure, At, Goto
      <4>3. CASE pc = "ifcAddr"
        BY <1>4, <3>1, <3>4, <4>3 DEF Interface, Covered, Configure, At, Goto
      <4>4. CASE pc = "ifcClose"
        BY <1>4, <3>1, <3>4, <4>4 DEF Interface, Covered, Configure, At, Goto
      <4>5. pc # "ifcUndo"
        BY DEF Interface, Covered
      <4> QED BY <3>4, <4>1, <4>2, <4>3, <4>4, <4>5 DEF Configure, At
    <3> QED BY <3>2, <3>3, <3>4
  <2> QED BY <2>3, <2>4, <2>5 DEF Covered
<1>5. pc' \in Established \cup {"error"}
  BY DEF StillUp, Configure, OnlyGoto, Goto, Established
<1> QED BY <1>3, <1>4, <1>5

\* The framework takes over what the setup relied on.
LEMMA SuccessKeepsCovered ==
    ASSUME LayerOne, LayerOne', Covered, SetupSucceeds, SocketFailed => SocketFailed'
    PROVE  Covered'
<1>1. /\ pc = "complete" /\ pc' = "idle" /\ pc \in Established
      /\ UNCHANGED <<prio, readerPc, lines, net, s_DeactCalled, ifcVars, overtaken, chan, events,
                     prioPc>>
  BY DEF SetupSucceeds, At, Goto, Established
<1>2. pc' \notin Activated \cup Established \cup Configuring
  BY <1>1 DEF Activated, Established, Configuring
<1>3. FlagGoes' /\ FlagIsGone' /\ StateIsKnown'
  BY <1>1, <1>2 DEF FlagGoes, FlagIsGone, StateIsKnown, Covered, InUse
<1>4. Coming => Coming'
  BY <1>1 DEF Coming, GoingDown
<1>5. News'
  BY <1>1, <1>4 DEF News, Covered
<1>6. Interface'
  BY <1>1 DEF Interface, Covered, InUse, GoingDown
<1> QED BY <1>3, <1>5, <1>6 DEF Covered

LEMMA EndKeepsCovered ==
    ASSUME LayerOne, LayerOne', Covered, SocketFailed => SocketFailed',
           \/ Deny \/ Deactivated \/ DeactivateFails \/ SetupFails \/ SetupFailed
    PROVE  Covered'
<1>1. /\ pc' = "idle" /\ pc # "list" /\ req' = NoRequest
      /\ UNCHANGED <<prio, readerPc, lines, net, s_DeactCalled, ifcVars, overtaken, chan, events,
                     prioPc>>
  BY DEF Deny, Deactivated, DeactivateFails, SetupFails, SetupFailed, Complete, At, Goto
<1>2. pc' \notin Activated \cup Established
  BY <1>1 DEF Activated, Established
<1>3. CASE DeactivateFails \/ SetupFails \/ SetupFailed
  <2>1. told' \notin Cids
    BY <1>3, CidsAreCids DEF DeactivateFails, SetupFails, SetupFailed, Complete, AfterFailure
  <2> QED BY <1>2, <2>1, NotInUse
<1>4. CASE Deny \/ Deactivated
  <2>1. told' \in Cids => told \in Cids /\ ~Overwriting
    <3>1. CASE Deny
      BY <3>1 DEF Deny, Complete, At, Overwriting, LayerOne, RequestOK, SetupPcs
    <3>2. CASE Deactivated
      <4>1. pc = "deactivated" /\ req.kind = "deactivate" /\ (told \in Cids => told = s_ActiveCID)
        BY <3>2 DEF Deactivated, At, LayerOne, RequestOK
      <4>2. told' = IF told \in {req.cid, Unsure} THEN None ELSE told
        BY <3>2 DEF Deactivated, Complete
      <4> QED BY <4>1, <4>2, CidsAreCids DEF Overwriting
    <3> QED BY <1>4, <3>1, <3>2
  <2>2. Coming => Coming'
    BY <1>1 DEF Coming, GoingDown
  <2> QED BY <1>1, <1>2, <2>1, <2>2, BeliefKept DEF Believed
<1> QED BY <1>3, <1>4

LEMMA EventKeepsCovered ==
    ASSUME LayerOne, LayerOne', Covered, SendList \/ TakeEvent, SocketFailed => SocketFailed'
    PROVE  Covered'
<1>1. /\ pc \in {"idle", "list"} /\ pc' \in {"idle", "list", "down"}
      /\ UNCHANGED <<s_ActiveCID, prio, readerPc, lines, net, s_DeactCalled, ifcVars, chan, prioPc>>
  BY DEF SendList, SendContextList, TakeEvent, At, Goto
<1>2. pc' \notin Activated \cup Established \cup {"deny"}
  BY <1>1 DEF Activated, Established
<1>3. CASE SendList /\ req.kind = "setup"
  <2>1. req' = req /\ Overwriting
    BY <1>3 DEF SendList, At, Overwriting
  <2> QED BY <1>1, <1>2, <2>1, StillOverwriting
<1>4. CASE SendList /\ req.kind # "setup"
  <2>1. /\ pc = "list" /\ pc' = "idle" /\ overtaken' = overtaken /\ events' = events
        /\ ContextList("normal", req.kind = "list")
    BY <1>4 DEF SendList, SendContextList, At, Goto, LayerOne, TypeInv
  <2>2. told' \in {told, None} /\ req.kind \in {"list", "event"}
    BY <1>4, <2>1, ListTypes DEF LayerOne, RequestOK
  <2>3. Believed' => Believed
    BY <2>2, CidsAreCids DEF Believed, Overwriting
  <2>4. req.kind = "event" => (told' \in Cids => net = "up")
    BY <2>1, ListClears
  <2>5. Believed' /\ Coming => Coming' \/ net = "up"
    BY <1>1, <2>1, <2>2, <2>4 DEF Coming, GoingDown, Believed
  <2> QED BY <1>1, <1>2, <2>1, <2>3, <2>5, BeliefKept
<1>5. CASE TakeEvent
  <2>1. /\ pc = "idle" /\ pc' = "list" /\ req'.kind = "event" /\ told' = told
        /\ overtaken' = overtaken
    BY <1>5 DEF TakeEvent, At, Goto, NoRequest
  <2>2. (Believed' => Believed) /\ Coming'
    BY <2>1, Overwrites DEF Believed, Coming
  <2> QED BY <1>1, <1>2, <2>1, <2>2, BeliefKept
<1> QED BY <1>3, <1>4, <1>5

LEMMA RunnerKeepsCovered ==
    ASSUME LayerOne, LayerOne', Wires, Covered, RunnerStep, SocketFailed => SocketFailed'
    PROVE  Covered'
<1>1. CASE InitializeCommon("normal")
  <2>1. pc' = "idle" /\ told' = None
    BY <1>1 DEF InitializeCommon
  <2>2. pc' \notin Activated \cup Established
    BY <2>1 DEF Activated, Established
  <2> QED BY <2>1, <2>2, NotInUse, CidsAreCids
<1> QED BY <1>1, TeardownKeepsCovered, ActivationKeepsCovered, EstablishedKeepsCovered,
           SuccessKeepsCovered, EndKeepsCovered, EventKeepsCovered DEF RunnerStep

-----------------------------------------------------------------------------
(***************************************************************************)
(* The invariant, and what follows from it.                                *)
(***************************************************************************)
PdpInvariant == LayerOne /\ Wires /\ CauseOK /\ Covered

LEMMA InvariantInit == Init => PdpInvariant
<1> SUFFICES ASSUME Init
             PROVE  PdpInvariant
  OBVIOUS
<1>1. << >> \in Seq(Reports)
  BY EmptySeq
<1>2. LayerOne
  BY <1>1, CidsAreCids
  DEF Init, LayerOne, TypeInv, RequestOK, PrioOK, E2napStates, Causes, FailCauses, Requests,
      ReaderPcs, RunnerPcs, NoRequest, None, Unsure, NoCid, Threads, SetupPcs, TeardownPcs,
      Activated,
      Established, AllChannels
<1>3. Wires
  <2>1. \A c \in AllChannels : readerPc[c] = "idle"
    BY DEF Init
  <2> QED BY <2>1, NoReports DEF Init, Wires, Held, Channels, AllChannels
<1>4. CauseOK
  BY ThreadsAre
  DEF Init, CauseOK, Locals, NothingFailed, NoRejection, Overwriter, Restoring, NoRequest
<1>5. Covered
  <2>1. pc = "idle" /\ told \notin Cids
    BY CidsAreCids DEF Init
  <2> QED BY <2>1 DEF Covered, FlagGoes, FlagIsGone, StateIsKnown, News, Interface, InUse, Believed,
                      Activated, Established, Configuring
<1> QED BY <1>2, <1>3, <1>4, <1>5 DEF PdpInvariant

LEMMA InvariantKept ==
    ASSUME PdpInvariant, [Next]_vars
    PROVE  PdpInvariant'
<1>1. CASE ModemStep
  <2>1. LayerOne'
    BY <1>1, ModemKeepsOne DEF PdpInvariant, Wires
  <2> QED BY <1>1, <2>1, ModemKeepsWires, CauseKept, FaultsStay, ModemKeepsCovered
          DEF PdpInvariant, Next, LayerOne
<1>2. ASSUME NEW c \in AllChannels, ReaderStep(c)
      PROVE  PdpInvariant'
  <2>1. lines[c] # << >> => c \in Channels
    BY DEF PdpInvariant, Wires
  <2>2. LayerOne'
    BY <1>2, <2>1, ReaderKeepsOne DEF PdpInvariant, Wires
  <2>3. Next
    BY <1>2 DEF Next
  <2> QED BY <1>2, <2>2, <2>3, ReaderKeepsWires, CauseKept, FaultsStay, ReaderKeepsCovered
          DEF PdpInvariant, LayerOne
<1>3. CASE PrioStep
  <2>1. LayerOne'
    BY <1>3, PrioKeepsOne DEF PdpInvariant
  <2> QED BY <1>3, <2>1, OthersKeepWires, CauseKept, FaultsStay, PrioKeepsCovered
          DEF PdpInvariant, Next, LayerOne
<1>4. CASE FrameworkStep
  <2>1. LayerOne'
    BY <1>4, FrameworkKeepsOne DEF PdpInvariant
  <2> QED BY <1>4, <2>1, OthersKeepWires, CauseKept, FaultsStay, FrameworkKeepsCovered
          DEF PdpInvariant, Next, LayerOne
<1>5. CASE RunnerStep
  <2>1. LayerOne'
    BY <1>5, RunnerKeepsOne DEF PdpInvariant
  <2> QED BY <1>5, <2>1, RunnerKeepsWires, CauseKept, FaultsStay, RunnerKeepsCovered
          DEF PdpInvariant, Next, LayerOne
<1>6. CASE UNCHANGED vars
  <2>1. LayerOne'
    BY <1>6 DEF PdpInvariant, LayerOne, TypeInv, RequestOK, PrioOK, vars
  <2>2. Wires'
    BY <1>6, SameWires DEF PdpInvariant, vars
  <2>3. CauseOK'
    BY <1>6, SameCause DEF PdpInvariant, vars
  <2>4. Covered'
    BY <1>6 DEF PdpInvariant, Covered, FlagGoes, FlagIsGone, StateIsKnown, News, Interface, InUse,
                Believed, Overwriting, Coming, GoingDown, SocketFailed, vars
  <2> QED BY <2>1, <2>2, <2>3, <2>4 DEF PdpInvariant
<1> QED BY <1>1, <1>2, <1>3, <1>4, <1>5, <1>6 DEF Next, Quiescent

LEMMA InvariantHolds == Spec => []PdpInvariant
<1>1. PdpInvariant /\ [Next]_vars => PdpInvariant'
  BY InvariantKept
<1> QED BY InvariantInit, <1>1, PTL DEF Spec

LEMMA TypesAreOK ==
    ASSUME TypeInv
    PROVE  TypeOK
<1>1. lines \in [AllChannels -> Seq([state : E2napStates \cup {"invalid"}, cause : Causes])]
  <2>1. Reports \subseteq [state : E2napStates \cup {"invalid"}, cause : Causes]
    BY DEF Reports, E2napStates
  <2>2. ASSUME NEW c \in AllChannels
        PROVE  lines[c] \in Seq([state : E2napStates \cup {"invalid"}, cause : Causes])
    <3>1. lines[c] \in Seq(Reports)
      BY DEF TypeInv
    <3> QED BY <2>1, <3>1, SeqMonotonic
  <2> QED BY <2>2 DEF TypeInv
<1> QED BY <1>1 DEF TypeInv, TypeOK, Requests, ReaderPcs

LEMMA QuietPromises ==
    ASSUME PdpInvariant
    PROVE  LossIsReported /\ ActiveIsConfigured
<1>1. ASSUME Quiet, told \in Cids
      PROVE  Believed /\ InUse /\ ~Coming /\ pc = "idle"
  <2>1. pc = "idle" /\ "normal" \in Channels /\ prioPc = "idle" /\ events = 0
    BY <1>1 DEF Quiet, At, Channels, AllChannels
  <2>2. Believed /\ InUse
    BY <1>1, <2>1, Overwrites DEF PdpInvariant, Believed, InUse, Quiet
  <2>3. ASSUME NEW c \in AllChannels
        PROVE  ~GoingDown(c)
    <3>1. CASE c \in Channels
      BY <1>1, <3>1, NoReports DEF Quiet, GoingDown, DownPcs
    <3>2. CASE c \notin Channels
      BY <3>2, NoReports
      DEF GoingDown, DownPcs, PdpInvariant, Wires, LayerOne, PrioOK, Channels, AllChannels
    <3> QED BY <3>1, <3>2
  <2> QED BY <2>1, <2>2, <2>3 DEF Coming
<1>2. LossIsReported
  BY <1>1 DEF LossIsReported, PdpInvariant, Covered, News, InUse
<1>3. ActiveIsConfigured
  <2> SUFFICES ASSUME Quiet, ~prio, ~SocketFailed, told \in Cids
               PROVE  iface = "configured"
    BY DEF ActiveIsConfigured, SocketFailed
  <2>1. net = "up"
    BY <1>2 DEF LossIsReported, PdpInvariant, LayerOne, PrioOK
  <2> QED BY <1>1, <2>1 DEF PdpInvariant, Covered, Interface, Established
<1> QED BY <1>2, <1>3

\* Every variable keeps its type; and whenever nothing is on its way, a daemon
\* without a prio queue has the interface up for the connection it told the
\* framework of, if socket() never failed, wherever ifc_init, ifc_down and ifc_close
\* of the reader thread came between those of the setup.
THEOREM PdpCorrect == Spec => []PdpInv
<1>1. PdpInvariant => PdpInv
  BY TypesAreOK, QuietPromises DEF PdpInv, PdpInvariant, LayerOne
<1> QED BY InvariantHolds, <1>1, PTL

\* s_e2napState is the modem's state or UNKNOWN once every report is handled,
\* though two reader threads write it, and setups and initializeCommon reset it
\* without the mutex: the last report that a reader takes is the modem's last.
THEOREM StateSettlesOnNetwork == Spec => []StateMatchesNetwork
<1>1. PdpInvariant => StateMatchesNetwork
  BY WiresSettle DEF PdpInvariant, LayerOne
<1> QED BY InvariantHolds, <1>1, PTL

\* The framework is told of every connection that ends: s_DeactCalled of an
\* earlier teardown never swallows the report, and a setup that ends with success
\* after the disconnection has the report still to come.
THEOREM LossesAreReported == Spec => []LossIsReported
<1>1. PdpInvariant => LossIsReported
  BY QuietPromises
<1> QED BY InvariantHolds, <1>1, PTL

\* The answer to a setup that fails says that nothing failed only if the connection
\* was up in the course of the setup, and that it was rejected only if a rejection
\* was written since the report of its own AT*ENAP=1, or the one of an earlier setup
\* was not overwritten by that report: with any number of readers between the
\* writing of s_e2napCause and that of s_lastPdpFailCause.
THEOREM FailedSetupsHaveCauses == Spec => FailedSetupHasCause
<1>1. PdpInvariant /\ [Next]_vars
        => [SetupFailed => /\ status = "NONE" => wasUp
                           /\ status = "REJECTED" => rejected]_vars
  BY FailuresHaveCauses DEF PdpInvariant
<1> QED BY InvariantHolds, <1>1, PTL DEF Spec, FailedSetupHasCause

=============================================================================
