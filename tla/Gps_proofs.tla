----------------------------- MODULE Gps_proofs -----------------------------
(***************************************************************************)
(* Proofs about GpsControl, for any scenarios and any number of threads    *)
(* that handle *E2GPSSTAT, and about ServiceLink, for any scenarios and    *)
(* any number of loops and of socket_loop threads.                         *)
(*                                                                         *)
(* GpsInv is inductive: main_loop is at "restoring" exactly while it holds *)
(* the mutex, so nobody else moves it, and it leaves its session only      *)
(* through the places where the device is marked not ready.                *)
(*                                                                         *)
(* The three properties of the quiet library follow from invariants that   *)
(* hold while it is busy: Telling, RunInv and ConfigInv.  Each has a lemma *)
(* for the steps that do not concern it, the frame, and one for every step *)
(* that does.                                                              *)
(*                                                                         *)
(* The link has its invariants in the same way: AcceptedOnce for the       *)
(* connections, LoopsInv for the loop that owns the static fields, and,    *)
(* while no race has happened, OrderInv for the commands in a connection   *)
(* and CoverInv for the reason why a setting is, or will be, known.        *)
(***************************************************************************)
EXTENDS GpsControl, ServiceLink, TLAPS, FiniteSetTheorems, SequenceTheorems

\* TypeOK in three parts: the truth values that steps compute, the modem, and the rest.
TruthTypeOK ==
    /\ is_ready \in BOOLEAN /\ fallback \in BOOLEAN
    /\ supl_initialized \in BOOLEAN /\ is_roaming \in BOOLEAN
    /\ gps_started \in BOOLEAN /\ gps_should_start \in BOOLEAN
    /\ gps_initiated \in BOOLEAN /\ cleanup_requested \in BOOLEAN
    /\ asked \in BOOLEAN /\ excused \in BOOLEAN /\ raced \in BOOLEAN

ModemStates == [up : BOOLEAN, mode : Modes \cup {"off"}, stat : BOOLEAN,
                set : [Settings -> Nat \cup {-1}]]
ModemTypeOK == modem \in ModemStates

RestTypeOK ==
    /\ pref_mode \in Modes
    /\ supl_config \in [Settings -> Nat] /\ flags \in [Flags -> BOOLEAN]
    /\ gps_status \in Statuses
    /\ current_ni_request \in Nat /\ notification \in Nat /\ niPc \in {"idle", "adds"}
    /\ cmds \in Seq(Commands)
    /\ mutex \in Callers \cup {"free"} /\ mode \in Modes
    /\ step \in {"none", "start", "mode", "reports", "control", "begin", "tell",
                 "stop", "stopReports", "stopControl", "end", "tellEnd"}
    /\ mainPc \in MainPcs /\ arg \in Nat
    /\ fwPc \in {"idle", "holds", "sends", "quit", "request", "wait", "stopped", "returned"}
    /\ fwArg \in Nat /\ servicePc \in {"idle", "sends"} /\ serviceArg \in Nat
    /\ at \in {"none", "open", "hup", "closed"} /\ nmea \in {"none", "open", "hup"}
    /\ closing \in Nat
    /\ event \in [Events -> {"none", "failed", "zero", "holds"}]
    /\ told \in [status : Statuses, ni : Nat]
    /\ scenario \in Scenarios
    /\ calls \in Nat /\ settings \in Nat /\ losses \in Nat /\ failures \in Nat
    /\ refusals \in Nat /\ nis \in Nat

LEMMA TypeParts == TypeOK <=> TruthTypeOK /\ ModemTypeOK /\ RestTypeOK
  BY DEF TypeOK, TruthTypeOK, ModemTypeOK, ModemStates, RestTypeOK

LEMMA ConstantsTyped ==
    ASSUME scenario \in Scenarios
    PROVE  /\ scenario.calls \subseteq CallKinds /\ scenario.pref \in Modes
           /\ scenario.allowed \in BOOLEAN
           /\ {"main", "fw", "free", "service"} \cap Events = {}
<1>1. scenario \in [calls : SUBSET CallKinds, pref : Modes, allowed : BOOLEAN, cleanup : BOOLEAN,
          maxCalls : Nat, maxSettings : Nat, maxLosses : Nat, maxFailures : Nat,
          maxRefusals : Nat, maxNi : Nat]
  BY ConstantAssumption
<1> QED BY <1>1, ConstantAssumption

\* What a command leaves of the ghost and the counter it may touch.
LEMMA CommandTyped ==
    ASSUME TypeOK, Answers \/ Refuses
    PROVE  refusals' \in Nat /\ excused' \in BOOLEAN
<1>1. refusals' \in Nat
  BY DEF TypeOK, Answers, Refuses
<1>2. excused' \in BOOLEAN
  <2>1. excused \in BOOLEAN
    BY DEF TypeOK
  <2>2. CASE excused' = excused
    BY <2>1, <2>2
  <2>3. CASE excused' = (excused \/ modem.mode # "off")
    BY <2>1, <2>3, Zenon
  <2>4. CASE excused' = TRUE
    BY <2>4
  <2> QED BY <2>2, <2>3, <2>4 DEF Answers, Refuses
<1> QED BY <1>1, <1>2

\* What a command changes in the modem.
LEMMA ModemUpdates ==
    ASSUME ModemTypeOK
    PROVE  /\ [modem EXCEPT !.up = TRUE] \in ModemStates
           /\ \A m \in Modes \cup {"off"} : [modem EXCEPT !.mode = m] \in ModemStates
           /\ \A b \in BOOLEAN : [modem EXCEPT !.stat = b] \in ModemStates
           /\ \A s \in Settings : \A n \in Nat : [modem EXCEPT !.set[s] = n] \in ModemStates
<1>1. modem \in ModemStates
  BY DEF ModemTypeOK
<1>2. ASSUME NEW s \in Settings, NEW n \in Nat
      PROVE  [modem EXCEPT !.set[s] = n] \in ModemStates
  <2>1. modem.set \in [Settings -> Nat \cup {-1}]
    BY <1>1 DEF ModemStates
  <2>2. [modem.set EXCEPT ![s] = n] \in [Settings -> Nat \cup {-1}]
    BY <2>1
  <2>3. [modem EXCEPT !.set[s] = n] = [modem EXCEPT !.set = [modem.set EXCEPT ![s] = n]]
    BY <1>1 DEF ModemStates
  <2> QED BY <1>1, <2>2, <2>3 DEF ModemStates
<1> QED BY <1>1, <1>2 DEF ModemStates

-----------------------------------------------------------------------------
(***************************************************************************)
(* Each action keeps GpsInv.  Every lemma has the same steps: the parts of *)
(* the type invariant, then the mutex, then the fallback and readiness.    *)
(***************************************************************************)
USE DEF readyVars, configVars, sessionVars, niVars, lockVars, channelVars, cleanupVars, mainVars,
    fwVars, serviceVars, ghostVars, boundVars, mainSame, startVars, serviceSame, callVars

LEMMA ModemLostKeeps ==
    ASSUME GpsInv, ModemLost
    PROVE  GpsInv'
<1>1. /\ TruthTypeOK /\ ModemTypeOK /\ RestTypeOK
      /\ MutexDiscipline /\ FallbackIsTaken /\ ReadyInSession
  BY TypeParts DEF GpsInv
<1>2. TruthTypeOK'
  BY <1>1 DEF TruthTypeOK, ModemLost
<1>3. ModemTypeOK'
  BY <1>1 DEF ModemTypeOK, ModemStates, Modes, ModemLost
<1>4. RestTypeOK'
  BY <1>1, ConstantsTyped DEF RestTypeOK, Callers, MainPcs, Modes, Settings, Flags, Statuses,
      ModemLost
<1>5. MutexDiscipline'
  BY <1>1, ConstantsTyped DEF RestTypeOK, Callers, MutexDiscipline, ModemLost
<1>6. FallbackIsTaken' /\ ReadyInSession'
  BY <1>1, ConstantsTyped DEF RestTypeOK, Callers, MutexDiscipline, FallbackIsTaken,
      ReadyInSession, ModemLost
<1> QED BY <1>2, <1>3, <1>4, <1>5, <1>6 DEF GpsInv, TypeOK, TruthTypeOK, ModemTypeOK, ModemStates,
    RestTypeOK

LEMMA ModemReturnsKeeps ==
    ASSUME GpsInv, ModemReturns
    PROVE  GpsInv'
<1>1. /\ TruthTypeOK /\ ModemTypeOK /\ RestTypeOK
      /\ MutexDiscipline /\ FallbackIsTaken /\ ReadyInSession
  BY TypeParts DEF GpsInv
<1>2. TruthTypeOK'
  BY <1>1 DEF TruthTypeOK, ModemReturns
<1>3. ModemTypeOK'
  BY <1>1, ModemUpdates DEF ModemTypeOK, RestTypeOK, Modes, ModemReturns
<1>4. RestTypeOK'
  BY <1>1, ConstantsTyped DEF RestTypeOK, Callers, MainPcs, Modes, Settings, Flags, Statuses,
      ModemReturns
<1>5. MutexDiscipline'
  BY <1>1, ConstantsTyped DEF RestTypeOK, Callers, MutexDiscipline, ModemReturns
<1>6. FallbackIsTaken' /\ ReadyInSession'
  BY <1>1, ConstantsTyped DEF RestTypeOK, Callers, MutexDiscipline, FallbackIsTaken,
      ReadyInSession, ModemReturns
<1> QED BY <1>2, <1>3, <1>4, <1>5, <1>6 DEF GpsInv, TypeOK, TruthTypeOK, ModemTypeOK, ModemStates,
    RestTypeOK

LEMMA SuplFailsKeeps ==
    ASSUME GpsInv, SuplFails
    PROVE  GpsInv'
<1>1. /\ TruthTypeOK /\ ModemTypeOK /\ RestTypeOK
      /\ MutexDiscipline /\ FallbackIsTaken /\ ReadyInSession
  BY TypeParts DEF GpsInv
<1>2. TruthTypeOK'
  BY <1>1 DEF TruthTypeOK, SuplFails
<1>3. ModemTypeOK'
  BY <1>1, ModemUpdates DEF ModemTypeOK, RestTypeOK, Modes, SuplFails
<1>4. RestTypeOK'
  BY <1>1, ConstantsTyped DEF RestTypeOK, Callers, MainPcs, Modes, Settings, Flags, Statuses,
      SuplFails
<1>5. MutexDiscipline'
  BY <1>1, ConstantsTyped DEF RestTypeOK, Callers, MutexDiscipline, SuplFails
<1>6. FallbackIsTaken' /\ ReadyInSession'
  BY <1>1, ConstantsTyped DEF RestTypeOK, Callers, MutexDiscipline, FallbackIsTaken,
      ReadyInSession, SuplFails
<1> QED BY <1>2, <1>3, <1>4, <1>5, <1>6 DEF GpsInv, TypeOK, TruthTypeOK, ModemTypeOK, ModemStates,
    RestTypeOK

LEMMA ReaderEndsKeeps ==
    ASSUME GpsInv, ReaderEnds
    PROVE  GpsInv'
<1>1. /\ TruthTypeOK /\ ModemTypeOK /\ RestTypeOK
      /\ MutexDiscipline /\ FallbackIsTaken /\ ReadyInSession
  BY TypeParts DEF GpsInv
<1>2. TruthTypeOK'
  BY <1>1 DEF TruthTypeOK, ReaderEnds
<1>3. ModemTypeOK'
  BY <1>1, ModemUpdates DEF ModemTypeOK, RestTypeOK, Modes, ReaderEnds
<1>4. RestTypeOK'
  BY <1>1, ConstantsTyped DEF RestTypeOK, Callers, MainPcs, Modes, Settings, Flags, Statuses,
      ReaderEnds
<1>5. MutexDiscipline'
  BY <1>1, ConstantsTyped DEF RestTypeOK, Callers, MutexDiscipline, ReaderEnds
<1>6. FallbackIsTaken' /\ ReadyInSession'
  BY <1>1, ConstantsTyped DEF RestTypeOK, Callers, MutexDiscipline, FallbackIsTaken,
      ReadyInSession, ReaderEnds
<1> QED BY <1>2, <1>3, <1>4, <1>5, <1>6 DEF GpsInv, TypeOK, TruthTypeOK, ModemTypeOK, ModemStates,
    RestTypeOK

LEMMA onATReaderClosedKeeps ==
    ASSUME GpsInv, onATReaderClosed
    PROVE  GpsInv'
<1>1. /\ TruthTypeOK /\ ModemTypeOK /\ RestTypeOK
      /\ MutexDiscipline /\ FallbackIsTaken /\ ReadyInSession
  BY TypeParts DEF GpsInv
<1>2. TruthTypeOK'
  BY <1>1 DEF TruthTypeOK, onATReaderClosed, add_pending_command, Commands
<1>3. ModemTypeOK'
  BY <1>1, ModemUpdates DEF ModemTypeOK, RestTypeOK, Modes, onATReaderClosed, add_pending_command,
      Commands
<1>4. RestTypeOK'
  BY <1>1, ConstantsTyped DEF RestTypeOK, Callers, MainPcs, Modes, Settings, Flags, Statuses,
      onATReaderClosed, add_pending_command, Commands
<1>5. MutexDiscipline'
  BY <1>1, ConstantsTyped DEF RestTypeOK, Callers, MutexDiscipline, onATReaderClosed,
      add_pending_command, Commands
<1>6. FallbackIsTaken' /\ ReadyInSession'
  BY <1>1, ConstantsTyped DEF RestTypeOK, Callers, MutexDiscipline, FallbackIsTaken,
      ReadyInSession, onATReaderClosed, add_pending_command, Commands
<1> QED BY <1>2, <1>3, <1>4, <1>5, <1>6 DEF GpsInv, TypeOK, TruthTypeOK, ModemTypeOK, ModemStates,
    RestTypeOK

LEMMA NiAddsKeeps ==
    ASSUME GpsInv, NiAdds
    PROVE  GpsInv'
<1>1. /\ TruthTypeOK /\ ModemTypeOK /\ RestTypeOK
      /\ MutexDiscipline /\ FallbackIsTaken /\ ReadyInSession
  BY TypeParts DEF GpsInv
<1>2. TruthTypeOK'
  BY <1>1 DEF TruthTypeOK, NiAdds, add_pending_command, Commands
<1>3. ModemTypeOK'
  BY <1>1, ModemUpdates DEF ModemTypeOK, RestTypeOK, Modes, NiAdds, add_pending_command, Commands
<1>4. RestTypeOK'
  BY <1>1, ConstantsTyped DEF RestTypeOK, Callers, MainPcs, Modes, Settings, Flags, Statuses,
      NiAdds, add_pending_command, Commands
<1>5. MutexDiscipline'
  BY <1>1, ConstantsTyped DEF RestTypeOK, Callers, MutexDiscipline, NiAdds, add_pending_command,
      Commands
<1>6. FallbackIsTaken' /\ ReadyInSession'
  BY <1>1, ConstantsTyped DEF RestTypeOK, Callers, MutexDiscipline, FallbackIsTaken,
      ReadyInSession, NiAdds, add_pending_command, Commands
<1> QED BY <1>2, <1>3, <1>4, <1>5, <1>6 DEF GpsInv, TypeOK, TruthTypeOK, ModemTypeOK, ModemStates,
    RestTypeOK

LEMMA mbm_gps_ni_requestKeeps ==
    ASSUME GpsInv, mbm_gps_ni_request
    PROVE  GpsInv'
<1>1. /\ TruthTypeOK /\ ModemTypeOK /\ RestTypeOK
      /\ MutexDiscipline /\ FallbackIsTaken /\ ReadyInSession
  BY TypeParts DEF GpsInv
<1>2. TruthTypeOK'
  BY <1>1 DEF TruthTypeOK, mbm_gps_ni_request
<1>3. ModemTypeOK'
  BY <1>1, ModemUpdates DEF ModemTypeOK, RestTypeOK, Modes, mbm_gps_ni_request
<1>4. RestTypeOK'
  BY <1>1, ConstantsTyped DEF RestTypeOK, Callers, MainPcs, Modes, Settings, Flags, Statuses,
      mbm_gps_ni_request
<1>5. MutexDiscipline'
  BY <1>1, ConstantsTyped DEF RestTypeOK, Callers, MutexDiscipline, mbm_gps_ni_request
<1>6. FallbackIsTaken' /\ ReadyInSession'
  BY <1>1, ConstantsTyped DEF RestTypeOK, Callers, MutexDiscipline, FallbackIsTaken,
      ReadyInSession, mbm_gps_ni_request
<1> QED BY <1>2, <1>3, <1>4, <1>5, <1>6 DEF GpsInv, TypeOK, TruthTypeOK, ModemTypeOK, ModemStates,
    RestTypeOK

LEMMA open_at_channelKeeps ==
    ASSUME GpsInv, open_at_channel
    PROVE  GpsInv'
<1>1. /\ TruthTypeOK /\ ModemTypeOK /\ RestTypeOK
      /\ MutexDiscipline /\ FallbackIsTaken /\ ReadyInSession
  BY TypeParts DEF GpsInv
<1>2. TruthTypeOK'
  BY <1>1 DEF TruthTypeOK, open_at_channel
<1>3. ModemTypeOK'
  BY <1>1, ModemUpdates DEF ModemTypeOK, RestTypeOK, Modes, open_at_channel
<1>4. RestTypeOK'
  BY <1>1, ConstantsTyped DEF RestTypeOK, Callers, MainPcs, Modes, Settings, Flags, Statuses,
      open_at_channel
<1>5. MutexDiscipline'
  BY <1>1, ConstantsTyped DEF RestTypeOK, Callers, MutexDiscipline, open_at_channel
<1>6. FallbackIsTaken' /\ ReadyInSession'
  BY <1>1, ConstantsTyped DEF RestTypeOK, Callers, MutexDiscipline, FallbackIsTaken,
      ReadyInSession, open_at_channel
<1> QED BY <1>2, <1>3, <1>4, <1>5, <1>6 DEF GpsInv, TypeOK, TruthTypeOK, ModemTypeOK, ModemStates,
    RestTypeOK

LEMMA gpsctrl_openKeeps ==
    ASSUME GpsInv, gpsctrl_open
    PROVE  GpsInv'
<1>1. /\ TruthTypeOK /\ ModemTypeOK /\ RestTypeOK
      /\ MutexDiscipline /\ FallbackIsTaken /\ ReadyInSession
  BY TypeParts DEF GpsInv
<1>c. refusals' \in Nat /\ excused' \in BOOLEAN
  BY <1>1, CommandTyped, TypeParts DEF RestTypeOK, TruthTypeOK, gpsctrl_open
<1>2. TruthTypeOK'
  BY <1>c, <1>1 DEF TruthTypeOK, gpsctrl_open
<1>3. ModemTypeOK'
  BY <1>1, ModemUpdates DEF ModemTypeOK, RestTypeOK, Modes, gpsctrl_open
<1>4. RestTypeOK'
  BY <1>c, <1>1, ConstantsTyped DEF RestTypeOK, Callers, MainPcs, Modes, Settings, Flags,
      Statuses, gpsctrl_open
<1>5. MutexDiscipline'
  BY <1>1, ConstantsTyped DEF RestTypeOK, Callers, MutexDiscipline, gpsctrl_open
<1>6. FallbackIsTaken' /\ ReadyInSession'
  BY <1>1, ConstantsTyped DEF RestTypeOK, Callers, MutexDiscipline, FallbackIsTaken,
      ReadyInSession, gpsctrl_open
<1> QED BY <1>2, <1>3, <1>4, <1>5, <1>6 DEF GpsInv, TypeOK, TruthTypeOK, ModemTypeOK, ModemStates,
    RestTypeOK

LEMMA EngineOnKeeps ==
    ASSUME GpsInv, EngineOn
    PROVE  GpsInv'
<1>1. /\ TruthTypeOK /\ ModemTypeOK /\ RestTypeOK
      /\ MutexDiscipline /\ FallbackIsTaken /\ ReadyInSession
  BY TypeParts DEF GpsInv
<1>2. TruthTypeOK'
  BY <1>1 DEF TruthTypeOK, EngineOn, add_pending_command, Commands
<1>3. ModemTypeOK'
  BY <1>1, ModemUpdates DEF ModemTypeOK, RestTypeOK, Modes, EngineOn, add_pending_command, Commands
<1>4. RestTypeOK'
  BY <1>1, ConstantsTyped DEF RestTypeOK, Callers, MainPcs, Modes, Settings, Flags, Statuses,
      EngineOn, add_pending_command, Commands
<1>5. MutexDiscipline'
  BY <1>1, ConstantsTyped DEF RestTypeOK, Callers, MutexDiscipline, EngineOn, add_pending_command,
      Commands
<1>6. FallbackIsTaken' /\ ReadyInSession'
  BY <1>1, ConstantsTyped DEF RestTypeOK, Callers, MutexDiscipline, FallbackIsTaken,
      ReadyInSession, EngineOn, add_pending_command, Commands
<1> QED BY <1>2, <1>3, <1>4, <1>5, <1>6 DEF GpsInv, TypeOK, TruthTypeOK, ModemTypeOK, ModemStates,
    RestTypeOK

LEMMA gpsctrl_set_device_is_readyKeeps ==
    ASSUME GpsInv, gpsctrl_set_device_is_ready
    PROVE  GpsInv'
<1>1. /\ TruthTypeOK /\ ModemTypeOK /\ RestTypeOK
      /\ MutexDiscipline /\ FallbackIsTaken /\ ReadyInSession
  BY TypeParts DEF GpsInv
<1>2. TruthTypeOK'
  BY <1>1 DEF TruthTypeOK, gpsctrl_set_device_is_ready
<1>3. ModemTypeOK'
  BY <1>1, ModemUpdates DEF ModemTypeOK, RestTypeOK, Modes, gpsctrl_set_device_is_ready
<1>4. RestTypeOK'
  BY <1>1, ConstantsTyped DEF RestTypeOK, Callers, MainPcs, Modes, Settings, Flags, Statuses,
      gpsctrl_set_device_is_ready
<1>5. MutexDiscipline'
  BY <1>1, ConstantsTyped DEF RestTypeOK, Callers, MutexDiscipline, gpsctrl_set_device_is_ready
<1>6. FallbackIsTaken' /\ ReadyInSession'
  BY <1>1, ConstantsTyped DEF RestTypeOK, Callers, MutexDiscipline, FallbackIsTaken,
      ReadyInSession, gpsctrl_set_device_is_ready
<1> QED BY <1>2, <1>3, <1>4, <1>5, <1>6 DEF GpsInv, TypeOK, TruthTypeOK, ModemTypeOK, ModemStates,
    RestTypeOK

LEMMA gpsctrl_set_position_modeKeeps ==
    ASSUME GpsInv, gpsctrl_set_position_mode
    PROVE  GpsInv'
<1>1. /\ TruthTypeOK /\ ModemTypeOK /\ RestTypeOK
      /\ MutexDiscipline /\ FallbackIsTaken /\ ReadyInSession
  BY TypeParts DEF GpsInv
<1>2. TruthTypeOK'
  BY <1>1 DEF TruthTypeOK, gpsctrl_set_position_mode
<1>3. ModemTypeOK'
  BY <1>1, ModemUpdates DEF ModemTypeOK, RestTypeOK, Modes, gpsctrl_set_position_mode
<1>4. RestTypeOK'
  BY <1>1, ConstantsTyped DEF RestTypeOK, Callers, MainPcs, Modes, Settings, Flags, Statuses,
      gpsctrl_set_position_mode
<1>5. MutexDiscipline'
  BY <1>1, ConstantsTyped DEF RestTypeOK, Callers, MutexDiscipline, gpsctrl_set_position_mode
<1>6. FallbackIsTaken' /\ ReadyInSession'
  BY <1>1, ConstantsTyped DEF RestTypeOK, Callers, MutexDiscipline, FallbackIsTaken,
      ReadyInSession, gpsctrl_set_position_mode
<1> QED BY <1>2, <1>3, <1>4, <1>5, <1>6 DEF GpsInv, TypeOK, TruthTypeOK, ModemTypeOK, ModemStates,
    RestTypeOK

LEMMA supl_initKeeps ==
    ASSUME GpsInv, supl_init
    PROVE  GpsInv'
<1>1. /\ TruthTypeOK /\ ModemTypeOK /\ RestTypeOK
      /\ MutexDiscipline /\ FallbackIsTaken /\ ReadyInSession
  BY TypeParts DEF GpsInv
<1>2. TruthTypeOK'
  BY <1>1 DEF TruthTypeOK, supl_init
<1>3. ModemTypeOK'
  BY <1>1, ModemUpdates DEF ModemTypeOK, RestTypeOK, Modes, supl_init
<1>4. RestTypeOK'
  BY <1>1, ConstantsTyped DEF RestTypeOK, Callers, MainPcs, Modes, Settings, Flags, Statuses,
      supl_init
<1>5. MutexDiscipline'
  BY <1>1, ConstantsTyped DEF RestTypeOK, Callers, Settings, MutexDiscipline, supl_init
<1>6. FallbackIsTaken' /\ ReadyInSession'
  BY <1>1, ConstantsTyped DEF RestTypeOK, Callers, MutexDiscipline, FallbackIsTaken,
      ReadyInSession, supl_init
<1> QED BY <1>2, <1>3, <1>4, <1>5, <1>6 DEF GpsInv, TypeOK, TruthTypeOK, ModemTypeOK, ModemStates,
    RestTypeOK

LEMMA SuplSendsKeeps ==
    ASSUME GpsInv, SuplSends
    PROVE  GpsInv'
<1>1. /\ TruthTypeOK /\ ModemTypeOK /\ RestTypeOK
      /\ MutexDiscipline /\ FallbackIsTaken /\ ReadyInSession
  BY TypeParts DEF GpsInv
<1>c. refusals' \in Nat /\ excused' \in BOOLEAN
  BY <1>1, CommandTyped, TypeParts DEF RestTypeOK, TruthTypeOK, SuplSends
<1>2. TruthTypeOK'
  BY <1>c, <1>1 DEF TruthTypeOK, SuplSends
<1>3. ModemTypeOK'
  <2>1. \E s \in Settings : modem' \in {modem, [modem EXCEPT !.set[s] = arg]}
    BY DEF SuplSends, Settings
  <2>2. PICK s \in Settings : modem' \in {modem, [modem EXCEPT !.set[s] = arg]}
    BY <2>1
  <2>3. arg \in Nat
    BY <1>1 DEF RestTypeOK
  <2>4. [modem EXCEPT !.set[s] = arg] \in ModemStates
    BY <1>1, <2>3, ModemUpdates
  <2> QED BY <1>1, <2>2, <2>4 DEF ModemTypeOK
<1>4. RestTypeOK'
  BY <1>c, <1>1, ConstantsTyped DEF RestTypeOK, Callers, MainPcs, Modes, Settings, Flags,
      Statuses, SuplSends
<1>5. MutexDiscipline'
  BY <1>1, ConstantsTyped DEF RestTypeOK, Callers, MutexDiscipline, SuplSends
<1>6. FallbackIsTaken' /\ ReadyInSession'
  BY <1>1, ConstantsTyped DEF RestTypeOK, Callers, MutexDiscipline, FallbackIsTaken,
      ReadyInSession, SuplSends
<1> QED BY <1>2, <1>3, <1>4, <1>5, <1>6 DEF GpsInv, TypeOK, TruthTypeOK, ModemTypeOK, ModemStates,
    RestTypeOK

LEMMA RestoresKeeps ==
    ASSUME GpsInv, Restores
    PROVE  GpsInv'
<1>1. /\ TruthTypeOK /\ ModemTypeOK /\ RestTypeOK
      /\ MutexDiscipline /\ FallbackIsTaken /\ ReadyInSession
  BY TypeParts DEF GpsInv
<1>2. TruthTypeOK'
  BY <1>1 DEF TruthTypeOK, Restores, ShouldRestore
<1>3. ModemTypeOK'
  BY <1>1, ModemUpdates DEF ModemTypeOK, RestTypeOK, Modes, Restores, ShouldRestore
<1>4. RestTypeOK'
  BY <1>1, ConstantsTyped DEF RestTypeOK, Callers, MainPcs, Modes, Settings, Flags, Statuses,
      Restores, ShouldRestore
<1>5. MutexDiscipline'
  BY <1>1, ConstantsTyped DEF RestTypeOK, Callers, MutexDiscipline, Restores, ShouldRestore
<1>6. FallbackIsTaken' /\ ReadyInSession'
  BY <1>1, ConstantsTyped DEF RestTypeOK, Callers, MutexDiscipline, FallbackIsTaken,
      ReadyInSession, Restores, ShouldRestore
<1> QED BY <1>2, <1>3, <1>4, <1>5, <1>6 DEF GpsInv, TypeOK, TruthTypeOK, ModemTypeOK, ModemStates,
    RestTypeOK

LEMMA HandlesCommandKeeps ==
    ASSUME GpsInv, HandlesCommand
    PROVE  GpsInv'
<1>1. /\ TruthTypeOK /\ ModemTypeOK /\ RestTypeOK
      /\ MutexDiscipline /\ FallbackIsTaken /\ ReadyInSession
  BY TypeParts DEF GpsInv
<1>2. Head(cmds) \in Commands /\ Tail(cmds) \in Seq(Commands)
  BY <1>1 DEF RestTypeOK, HandlesCommand
<1>3. \/ /\ UNCHANGED <<mainPc, at, is_ready>>
         /\ told' \in {[told EXCEPT !.status = gps_status], [told EXCEPT !.ni = notification]}
      \/ mainPc' \in {"lost", "exit"} /\ told' = told /\ at' \in {at, "none"}
         /\ (UNCHANGED is_ready \/ ~is_ready')
  <2>1. CASE Head(cmds) = "STATUS_CB"
    BY <2>1 DEF HandlesCommand
  <2>2. CASE Head(cmds) = "NI_CB"
    BY <2>2 DEF HandlesCommand
  <2>3. CASE Head(cmds) = "AT_LOST"
    BY <2>3 DEF HandlesCommand
  <2>4. CASE Head(cmds) = "QUIT"
    BY <2>4 DEF HandlesCommand
  <2> QED BY <1>2, <2>1, <2>2, <2>3, <2>4 DEF Commands
<1>4. is_ready' \in BOOLEAN
  <2>1. CASE Head(cmds) = "AT_LOST"
    BY <2>1 DEF HandlesCommand
  <2>2. CASE Head(cmds) # "AT_LOST"
    BY <1>1, <1>2, <2>2 DEF HandlesCommand, Commands, TruthTypeOK
  <2> QED BY <2>1, <2>2
<1>5. TruthTypeOK' /\ ModemTypeOK'
  BY <1>1, <1>4 DEF TruthTypeOK, ModemTypeOK, HandlesCommand
<1>6. RestTypeOK'
  <2>1. told' \in [status : Statuses, ni : Nat]
    BY <1>1, <1>3 DEF RestTypeOK
  <2>2. mainPc' \in MainPcs /\ at' \in {"none", "open", "hup", "closed"}
    BY <1>1, <1>3 DEF RestTypeOK, MainPcs
  <2>3. cmds' \in Seq(Commands)
    BY <1>2 DEF HandlesCommand
  <2> QED BY <1>1, <2>1, <2>2, <2>3 DEF RestTypeOK, HandlesCommand
<1>7. MutexDiscipline'
  <2>1. mainPc # "restoring" /\ mainPc' # "restoring"
    BY <1>3 DEF HandlesCommand
  <2>2. UNCHANGED <<mutex, step, fwPc, event>>
    BY DEF HandlesCommand
  <2> QED BY <1>1, <2>1, <2>2 DEF MutexDiscipline
<1>8. FallbackIsTaken' /\ ReadyInSession'
  <2>1. UNCHANGED <<fallback, mutex, step>> /\ mainPc' \in {"loop", "lost", "exit"}
    BY <1>3 DEF HandlesCommand
  <2> QED BY <1>1, <2>1 DEF FallbackIsTaken, ReadyInSession
<1> QED BY <1>5, <1>6, <1>7, <1>8 DEF GpsInv, TypeOK, TruthTypeOK, ModemTypeOK, ModemStates,
    RestTypeOK

LEMMA NmeaLostKeeps ==
    ASSUME GpsInv, NmeaLost
    PROVE  GpsInv'
<1>1. /\ TruthTypeOK /\ ModemTypeOK /\ RestTypeOK
      /\ MutexDiscipline /\ FallbackIsTaken /\ ReadyInSession
  BY TypeParts DEF GpsInv
<1>2. TruthTypeOK'
  BY <1>1 DEF TruthTypeOK, NmeaLost
<1>3. ModemTypeOK'
  BY <1>1, ModemUpdates DEF ModemTypeOK, RestTypeOK, Modes, NmeaLost
<1>4. RestTypeOK'
  BY <1>1, ConstantsTyped DEF RestTypeOK, Callers, MainPcs, Modes, Settings, Flags, Statuses,
      NmeaLost
<1>5. MutexDiscipline'
  BY <1>1, ConstantsTyped DEF RestTypeOK, Callers, MutexDiscipline, NmeaLost
<1>6. FallbackIsTaken' /\ ReadyInSession'
  BY <1>1, ConstantsTyped DEF RestTypeOK, Callers, MutexDiscipline, FallbackIsTaken,
      ReadyInSession, NmeaLost
<1> QED BY <1>2, <1>3, <1>4, <1>5, <1>6 DEF GpsInv, TypeOK, TruthTypeOK, ModemTypeOK, ModemStates,
    RestTypeOK

LEMMA NotReadyKeeps ==
    ASSUME GpsInv, NotReady
    PROVE  GpsInv'
<1>1. /\ TruthTypeOK /\ ModemTypeOK /\ RestTypeOK
      /\ MutexDiscipline /\ FallbackIsTaken /\ ReadyInSession
  BY TypeParts DEF GpsInv
<1>2. TruthTypeOK'
  BY <1>1 DEF TruthTypeOK, NotReady
<1>3. ModemTypeOK'
  BY <1>1, ModemUpdates DEF ModemTypeOK, RestTypeOK, Modes, NotReady
<1>4. RestTypeOK'
  BY <1>1, ConstantsTyped DEF RestTypeOK, Callers, MainPcs, Modes, Settings, Flags, Statuses,
      NotReady
<1>5. MutexDiscipline'
  BY <1>1, ConstantsTyped DEF RestTypeOK, Callers, MutexDiscipline, NotReady
<1>6. FallbackIsTaken' /\ ReadyInSession'
  BY <1>1, ConstantsTyped DEF RestTypeOK, Callers, MutexDiscipline, FallbackIsTaken,
      ReadyInSession, NotReady
<1> QED BY <1>2, <1>3, <1>4, <1>5, <1>6 DEF GpsInv, TypeOK, TruthTypeOK, ModemTypeOK, ModemStates,
    RestTypeOK

LEMMA gpsctrl_cleanupKeeps ==
    ASSUME GpsInv, gpsctrl_cleanup
    PROVE  GpsInv'
<1>1. /\ TruthTypeOK /\ ModemTypeOK /\ RestTypeOK
      /\ MutexDiscipline /\ FallbackIsTaken /\ ReadyInSession
  BY TypeParts DEF GpsInv
<1>2. TruthTypeOK'
  BY <1>1 DEF TruthTypeOK, gpsctrl_cleanup
<1>3. ModemTypeOK'
  BY <1>1, ModemUpdates DEF ModemTypeOK, RestTypeOK, Modes, gpsctrl_cleanup
<1>4. RestTypeOK'
  BY <1>1, ConstantsTyped DEF RestTypeOK, Callers, MainPcs, Modes, Settings, Flags, Statuses,
      gpsctrl_cleanup
<1>5. MutexDiscipline'
  BY <1>1, ConstantsTyped DEF RestTypeOK, Callers, MutexDiscipline, gpsctrl_cleanup
<1>6. FallbackIsTaken' /\ ReadyInSession'
  BY <1>1, ConstantsTyped DEF RestTypeOK, Callers, MutexDiscipline, FallbackIsTaken,
      ReadyInSession, gpsctrl_cleanup
<1> QED BY <1>2, <1>3, <1>4, <1>5, <1>6 DEF GpsInv, TypeOK, TruthTypeOK, ModemTypeOK, ModemStates,
    RestTypeOK

LEMMA EngineOffKeeps ==
    ASSUME GpsInv, EngineOff
    PROVE  GpsInv'
<1>1. /\ TruthTypeOK /\ ModemTypeOK /\ RestTypeOK
      /\ MutexDiscipline /\ FallbackIsTaken /\ ReadyInSession
  BY TypeParts DEF GpsInv
<1>2. TruthTypeOK'
  BY <1>1 DEF TruthTypeOK, EngineOff
<1>3. ModemTypeOK'
  BY <1>1, ModemUpdates DEF ModemTypeOK, RestTypeOK, Modes, EngineOff
<1>4. RestTypeOK'
  BY <1>1, ConstantsTyped DEF RestTypeOK, Callers, MainPcs, Modes, Settings, Flags, Statuses,
      EngineOff
<1>5. MutexDiscipline'
  BY <1>1, ConstantsTyped DEF RestTypeOK, Callers, MutexDiscipline, EngineOff
<1>6. FallbackIsTaken' /\ ReadyInSession'
  BY <1>1, ConstantsTyped DEF RestTypeOK, Callers, MutexDiscipline, FallbackIsTaken,
      ReadyInSession, EngineOff
<1> QED BY <1>2, <1>3, <1>4, <1>5, <1>6 DEF GpsInv, TypeOK, TruthTypeOK, ModemTypeOK, ModemStates,
    RestTypeOK

LEMMA DevicesRemovedKeeps ==
    ASSUME GpsInv, DevicesRemoved
    PROVE  GpsInv'
<1>1. /\ TruthTypeOK /\ ModemTypeOK /\ RestTypeOK
      /\ MutexDiscipline /\ FallbackIsTaken /\ ReadyInSession
  BY TypeParts DEF GpsInv
<1>2. TruthTypeOK'
  BY <1>1 DEF TruthTypeOK, DevicesRemoved
<1>3. ModemTypeOK'
  BY <1>1, ModemUpdates DEF ModemTypeOK, RestTypeOK, Modes, DevicesRemoved
<1>4. RestTypeOK'
  BY <1>1, ConstantsTyped DEF RestTypeOK, Callers, MainPcs, Modes, Settings, Flags, Statuses,
      DevicesRemoved
<1>5. MutexDiscipline'
  BY <1>1, ConstantsTyped DEF RestTypeOK, Callers, MutexDiscipline, DevicesRemoved
<1>6. FallbackIsTaken' /\ ReadyInSession'
  BY <1>1, ConstantsTyped DEF RestTypeOK, Callers, MutexDiscipline, FallbackIsTaken,
      ReadyInSession, DevicesRemoved
<1> QED BY <1>2, <1>3, <1>4, <1>5, <1>6 DEF GpsInv, TypeOK, TruthTypeOK, ModemTypeOK, ModemStates,
    RestTypeOK

LEMMA SignalsKeeps ==
    ASSUME GpsInv, Signals
    PROVE  GpsInv'
<1>1. /\ TruthTypeOK /\ ModemTypeOK /\ RestTypeOK
      /\ MutexDiscipline /\ FallbackIsTaken /\ ReadyInSession
  BY TypeParts DEF GpsInv
<1>2. TruthTypeOK'
  BY <1>1 DEF TruthTypeOK, Signals, CleanupMutexFree
<1>3. ModemTypeOK'
  BY <1>1, ModemUpdates DEF ModemTypeOK, RestTypeOK, Modes, Signals, CleanupMutexFree
<1>4. RestTypeOK'
  BY <1>1, ConstantsTyped DEF RestTypeOK, Callers, MainPcs, Modes, Settings, Flags, Statuses,
      Signals, CleanupMutexFree
<1>5. MutexDiscipline'
  BY <1>1, ConstantsTyped DEF RestTypeOK, Callers, MutexDiscipline, Signals, CleanupMutexFree
<1>6. FallbackIsTaken' /\ ReadyInSession'
  BY <1>1, ConstantsTyped DEF RestTypeOK, Callers, MutexDiscipline, FallbackIsTaken,
      ReadyInSession, Signals, CleanupMutexFree
<1> QED BY <1>2, <1>3, <1>4, <1>5, <1>6 DEF GpsInv, TypeOK, TruthTypeOK, ModemTypeOK, ModemStates,
    RestTypeOK

LEMMA mbm_gps_set_position_modeKeeps ==
    ASSUME GpsInv, mbm_gps_set_position_mode
    PROVE  GpsInv'
<1>1. /\ TruthTypeOK /\ ModemTypeOK /\ RestTypeOK
      /\ MutexDiscipline /\ FallbackIsTaken /\ ReadyInSession
  BY TypeParts DEF GpsInv
<1>2. TruthTypeOK'
  BY <1>1 DEF TruthTypeOK, mbm_gps_set_position_mode, Calls
<1>3. ModemTypeOK'
  BY <1>1, ModemUpdates DEF ModemTypeOK, RestTypeOK, Modes, mbm_gps_set_position_mode, Calls
<1>4. RestTypeOK'
  BY <1>1, ConstantsTyped DEF RestTypeOK, Callers, MainPcs, Modes, Settings, Flags, Statuses,
      mbm_gps_set_position_mode, Calls
<1>5. MutexDiscipline'
  BY <1>1, ConstantsTyped DEF RestTypeOK, Callers, MutexDiscipline, mbm_gps_set_position_mode, Calls
<1>6. FallbackIsTaken' /\ ReadyInSession'
  BY <1>1, ConstantsTyped DEF RestTypeOK, Callers, MutexDiscipline, FallbackIsTaken,
      ReadyInSession, mbm_gps_set_position_mode, Calls
<1> QED BY <1>2, <1>3, <1>4, <1>5, <1>6 DEF GpsInv, TypeOK, TruthTypeOK, ModemTypeOK, ModemStates,
    RestTypeOK

LEMMA mbm_agpsril_update_network_stateKeeps ==
    ASSUME GpsInv, mbm_agpsril_update_network_state
    PROVE  GpsInv'
<1>1. /\ TruthTypeOK /\ ModemTypeOK /\ RestTypeOK
      /\ MutexDiscipline /\ FallbackIsTaken /\ ReadyInSession
  BY TypeParts DEF GpsInv
<1>2. TruthTypeOK'
  BY <1>1 DEF TruthTypeOK, mbm_agpsril_update_network_state, Calls
<1>3. ModemTypeOK'
  BY <1>1, ModemUpdates DEF ModemTypeOK, RestTypeOK, Modes, mbm_agpsril_update_network_state, Calls
<1>4. RestTypeOK'
  BY <1>1, ConstantsTyped DEF RestTypeOK, Callers, MainPcs, Modes, Settings, Flags, Statuses,
      mbm_agpsril_update_network_state, Calls
<1>5. MutexDiscipline'
  BY <1>1, ConstantsTyped DEF RestTypeOK, Callers, MutexDiscipline,
      mbm_agpsril_update_network_state, Calls
<1>6. FallbackIsTaken' /\ ReadyInSession'
  BY <1>1, ConstantsTyped DEF RestTypeOK, Callers, MutexDiscipline, FallbackIsTaken,
      ReadyInSession, mbm_agpsril_update_network_state, Calls
<1> QED BY <1>2, <1>3, <1>4, <1>5, <1>6 DEF GpsInv, TypeOK, TruthTypeOK, ModemTypeOK, ModemStates,
    RestTypeOK

LEMMA gpsctrl_set_supl_serverKeeps ==
    ASSUME GpsInv, gpsctrl_set_supl_server
    PROVE  GpsInv'
<1>1. /\ TruthTypeOK /\ ModemTypeOK /\ RestTypeOK
      /\ MutexDiscipline /\ FallbackIsTaken /\ ReadyInSession
  BY TypeParts DEF GpsInv
<1>2. TruthTypeOK'
  BY <1>1 DEF TruthTypeOK, gpsctrl_set_supl_server, Stores, ServerIsSent, Calls
<1>3. ModemTypeOK'
  BY <1>1, ModemUpdates DEF ModemTypeOK, RestTypeOK, Modes, gpsctrl_set_supl_server, Stores,
      ServerIsSent, Calls
<1>4. RestTypeOK'
  BY <1>1, ConstantsTyped DEF RestTypeOK, Callers, MainPcs, Modes, Settings, Flags, Statuses,
      gpsctrl_set_supl_server, Stores, ServerIsSent, Calls
<1>5. MutexDiscipline'
  BY <1>1, ConstantsTyped DEF RestTypeOK, Callers, MutexDiscipline, gpsctrl_set_supl_server,
      Stores, ServerIsSent, Calls
<1>6. FallbackIsTaken' /\ ReadyInSession'
  BY <1>1, ConstantsTyped DEF RestTypeOK, Callers, MutexDiscipline, FallbackIsTaken,
      ReadyInSession, gpsctrl_set_supl_server, Stores, ServerIsSent, Calls
<1> QED BY <1>2, <1>3, <1>4, <1>5, <1>6 DEF GpsInv, TypeOK, TruthTypeOK, ModemTypeOK, ModemStates,
    RestTypeOK

LEMMA mbm_gps_cleanupKeeps ==
    ASSUME GpsInv, mbm_gps_cleanup
    PROVE  GpsInv'
<1>1. /\ TruthTypeOK /\ ModemTypeOK /\ RestTypeOK
      /\ MutexDiscipline /\ FallbackIsTaken /\ ReadyInSession
  BY TypeParts DEF GpsInv
<1>2. TruthTypeOK'
  BY <1>1 DEF TruthTypeOK, mbm_gps_cleanup
<1>3. ModemTypeOK'
  BY <1>1, ModemUpdates DEF ModemTypeOK, RestTypeOK, Modes, mbm_gps_cleanup
<1>4. RestTypeOK'
  BY <1>1, ConstantsTyped DEF RestTypeOK, Callers, MainPcs, Modes, Settings, Flags, Statuses,
      mbm_gps_cleanup
<1>5. MutexDiscipline'
  BY <1>1, ConstantsTyped DEF RestTypeOK, Callers, MutexDiscipline, mbm_gps_cleanup
<1>6. FallbackIsTaken' /\ ReadyInSession'
  BY <1>1, ConstantsTyped DEF RestTypeOK, Callers, MutexDiscipline, FallbackIsTaken,
      ReadyInSession, mbm_gps_cleanup
<1> QED BY <1>2, <1>3, <1>4, <1>5, <1>6 DEF GpsInv, TypeOK, TruthTypeOK, ModemTypeOK, ModemStates,
    RestTypeOK

LEMMA mbm_gps_stopKeeps ==
    ASSUME GpsInv, mbm_gps_stop
    PROVE  GpsInv'
<1>1. /\ TruthTypeOK /\ ModemTypeOK /\ RestTypeOK
      /\ MutexDiscipline /\ FallbackIsTaken /\ ReadyInSession
  BY TypeParts DEF GpsInv
<1>2. TruthTypeOK'
  BY <1>1 DEF TruthTypeOK, mbm_gps_stop, NoReturn
<1>3. ModemTypeOK'
  BY <1>1, ModemUpdates DEF ModemTypeOK, RestTypeOK, Modes, mbm_gps_stop, NoReturn
<1>4. RestTypeOK'
  BY <1>1, ConstantsTyped DEF RestTypeOK, Callers, MainPcs, Modes, Settings, Flags, Statuses,
      mbm_gps_stop, NoReturn
<1>5. MutexDiscipline'
  BY <1>1, ConstantsTyped DEF RestTypeOK, Callers, MutexDiscipline, mbm_gps_stop, NoReturn
<1>6. FallbackIsTaken' /\ ReadyInSession'
  BY <1>1, ConstantsTyped DEF RestTypeOK, Callers, MutexDiscipline, FallbackIsTaken,
      ReadyInSession, mbm_gps_stop, NoReturn
<1> QED BY <1>2, <1>3, <1>4, <1>5, <1>6 DEF GpsInv, TypeOK, TruthTypeOK, ModemTypeOK, ModemStates,
    RestTypeOK

LEMMA gpsctrl_stopKeeps ==
    ASSUME GpsInv, gpsctrl_stop
    PROVE  GpsInv'
<1>1. /\ TruthTypeOK /\ ModemTypeOK /\ RestTypeOK
      /\ MutexDiscipline /\ FallbackIsTaken /\ ReadyInSession
  BY TypeParts DEF GpsInv
<1>c. refusals' \in Nat /\ excused' \in BOOLEAN
  BY <1>1, CommandTyped, TypeParts DEF RestTypeOK, TruthTypeOK, gpsctrl_stop, NoReturn
<1>2. TruthTypeOK'
  BY <1>c, <1>1 DEF TruthTypeOK, gpsctrl_stop, NoReturn
<1>3. ModemTypeOK'
  <2>1. modem' \in {modem, [modem EXCEPT !.stat = FALSE], [modem EXCEPT !.mode = "off"]}
    BY DEF gpsctrl_stop
  <2> QED BY <1>1, <2>1, ModemUpdates DEF ModemTypeOK
<1>4. RestTypeOK'
  BY <1>c, <1>1, ConstantsTyped DEF RestTypeOK, Callers, MainPcs, Modes, Settings, Flags,
      Statuses, gpsctrl_stop, NoReturn
<1>5. MutexDiscipline'
  BY <1>1, ConstantsTyped DEF RestTypeOK, Callers, MutexDiscipline, gpsctrl_stop, NoReturn
<1>6. FallbackIsTaken' /\ ReadyInSession'
  BY <1>1, ConstantsTyped DEF RestTypeOK, Callers, MutexDiscipline, FallbackIsTaken,
      ReadyInSession, gpsctrl_stop, NoReturn
<1> QED BY <1>2, <1>3, <1>4, <1>5, <1>6 DEF GpsInv, TypeOK, TruthTypeOK, ModemTypeOK, ModemStates,
    RestTypeOK

LEMMA SessionEndsKeeps ==
    ASSUME GpsInv, SessionEnds
    PROVE  GpsInv'
<1>1. /\ TruthTypeOK /\ ModemTypeOK /\ RestTypeOK
      /\ MutexDiscipline /\ FallbackIsTaken /\ ReadyInSession
  BY TypeParts DEF GpsInv
<1>2. TruthTypeOK'
  BY <1>1 DEF TruthTypeOK, SessionEnds, NoReturn
<1>3. ModemTypeOK'
  BY <1>1, ModemUpdates DEF ModemTypeOK, RestTypeOK, Modes, SessionEnds, NoReturn
<1>4. RestTypeOK'
  BY <1>1, ConstantsTyped DEF RestTypeOK, Callers, MainPcs, Modes, Settings, Flags, Statuses,
      SessionEnds, NoReturn
<1>5. MutexDiscipline'
  BY <1>1, ConstantsTyped DEF RestTypeOK, Callers, MutexDiscipline, SessionEnds, NoReturn
<1>6. FallbackIsTaken' /\ ReadyInSession'
  BY <1>1, ConstantsTyped DEF RestTypeOK, Callers, MutexDiscipline, FallbackIsTaken,
      ReadyInSession, SessionEnds, NoReturn
<1> QED BY <1>2, <1>3, <1>4, <1>5, <1>6 DEF GpsInv, TypeOK, TruthTypeOK, ModemTypeOK, ModemStates,
    RestTypeOK

LEMMA supl_set_serverKeeps ==
    ASSUME GpsInv, supl_set_server
    PROVE  GpsInv'
<1>1. /\ TruthTypeOK /\ ModemTypeOK /\ RestTypeOK
      /\ MutexDiscipline /\ FallbackIsTaken /\ ReadyInSession
  BY TypeParts DEF GpsInv
<1>c. refusals' \in Nat /\ excused' \in BOOLEAN
  BY <1>1, CommandTyped, TypeParts DEF RestTypeOK, TruthTypeOK, supl_set_server
<1>2. TruthTypeOK'
  BY <1>c, <1>1 DEF TruthTypeOK, supl_set_server
<1>3. ModemTypeOK'
  <2>1. modem' \in {modem, [modem EXCEPT !.set["server"] = fwArg]}
    BY DEF supl_set_server
  <2>2. "server" \in Settings /\ fwArg \in Nat
    BY <1>1 DEF RestTypeOK, Settings
  <2>3. [modem EXCEPT !.set["server"] = fwArg] \in ModemStates
    BY <1>1, <2>2, ModemUpdates
  <2> QED BY <1>1, <2>1, <2>3 DEF ModemTypeOK
<1>4. RestTypeOK'
  BY <1>c, <1>1, ConstantsTyped DEF RestTypeOK, Callers, MainPcs, Modes, Settings, Flags,
      Statuses, supl_set_server
<1>5. MutexDiscipline'
  BY <1>1, ConstantsTyped DEF RestTypeOK, Callers, MutexDiscipline, supl_set_server
<1>6. FallbackIsTaken' /\ ReadyInSession'
  BY <1>1, ConstantsTyped DEF RestTypeOK, Callers, MutexDiscipline, FallbackIsTaken,
      ReadyInSession, supl_set_server
<1> QED BY <1>2, <1>3, <1>4, <1>5, <1>6 DEF GpsInv, TypeOK, TruthTypeOK, ModemTypeOK, ModemStates,
    RestTypeOK

LEMMA CleanupStepKeeps ==
    ASSUME GpsInv, CleanupStep
    PROVE  GpsInv'
<1>1. /\ TruthTypeOK /\ ModemTypeOK /\ RestTypeOK
      /\ MutexDiscipline /\ FallbackIsTaken /\ ReadyInSession
  BY TypeParts DEF GpsInv
<1>2. TruthTypeOK'
  BY <1>1 DEF TruthTypeOK, CleanupStep, add_pending_command, Commands
<1>3. ModemTypeOK'
  BY <1>1, ModemUpdates DEF ModemTypeOK, RestTypeOK, Modes, CleanupStep, add_pending_command,
      Commands
<1>4. RestTypeOK'
  BY <1>1, ConstantsTyped DEF RestTypeOK, Callers, MainPcs, Modes, Settings, Flags, Statuses,
      CleanupStep, add_pending_command, Commands
<1>5. MutexDiscipline'
  BY <1>1, ConstantsTyped DEF RestTypeOK, Callers, MutexDiscipline, CleanupStep,
      add_pending_command, Commands
<1>6. FallbackIsTaken' /\ ReadyInSession'
  BY <1>1, ConstantsTyped DEF RestTypeOK, Callers, MutexDiscipline, FallbackIsTaken,
      ReadyInSession, CleanupStep, add_pending_command, Commands
<1> QED BY <1>2, <1>3, <1>4, <1>5, <1>6 DEF GpsInv, TypeOK, TruthTypeOK, ModemTypeOK, ModemStates,
    RestTypeOK

LEMMA SetsFlagKeeps ==
    ASSUME GpsInv, SetsFlag
    PROVE  GpsInv'
<1>1. /\ TruthTypeOK /\ ModemTypeOK /\ RestTypeOK
      /\ MutexDiscipline /\ FallbackIsTaken /\ ReadyInSession
  BY TypeParts DEF GpsInv
<1>2. TruthTypeOK'
  BY <1>1 DEF TruthTypeOK, SetsFlag
<1>3. ModemTypeOK'
  BY <1>1, ModemUpdates DEF ModemTypeOK, RestTypeOK, Modes, SetsFlag
<1>4. RestTypeOK'
  BY <1>1, ConstantsTyped DEF RestTypeOK, Callers, MainPcs, Modes, Settings, Flags, Statuses,
      SetsFlag
<1>5. MutexDiscipline'
  BY <1>1, ConstantsTyped DEF RestTypeOK, Callers, MutexDiscipline, SetsFlag
<1>6. FallbackIsTaken' /\ ReadyInSession'
  BY <1>1, ConstantsTyped DEF RestTypeOK, Callers, MutexDiscipline, FallbackIsTaken,
      ReadyInSession, SetsFlag
<1> QED BY <1>2, <1>3, <1>4, <1>5, <1>6 DEF GpsInv, TypeOK, TruthTypeOK, ModemTypeOK, ModemStates,
    RestTypeOK

LEMMA gpsctrl_set_apn_infoKeeps ==
    ASSUME GpsInv, gpsctrl_set_apn_info
    PROVE  GpsInv'
<1>1. /\ TruthTypeOK /\ ModemTypeOK /\ RestTypeOK
      /\ MutexDiscipline /\ FallbackIsTaken /\ ReadyInSession
  BY TypeParts DEF GpsInv
<1>2. TruthTypeOK'
  BY <1>1 DEF TruthTypeOK, gpsctrl_set_apn_info, Stores
<1>3. ModemTypeOK'
  BY <1>1, ModemUpdates DEF ModemTypeOK, RestTypeOK, Modes, gpsctrl_set_apn_info, Stores
<1>4. RestTypeOK'
  BY <1>1, ConstantsTyped DEF RestTypeOK, Callers, MainPcs, Modes, Settings, Flags, Statuses,
      gpsctrl_set_apn_info, Stores
<1>5. MutexDiscipline'
  BY <1>1, ConstantsTyped DEF RestTypeOK, Callers, MutexDiscipline, gpsctrl_set_apn_info, Stores
<1>6. FallbackIsTaken' /\ ReadyInSession'
  BY <1>1, ConstantsTyped DEF RestTypeOK, Callers, MutexDiscipline, FallbackIsTaken,
      ReadyInSession, gpsctrl_set_apn_info, Stores
<1> QED BY <1>2, <1>3, <1>4, <1>5, <1>6 DEF GpsInv, TypeOK, TruthTypeOK, ModemTypeOK, ModemStates,
    RestTypeOK

LEMMA supl_set_apn_infoKeeps ==
    ASSUME GpsInv, supl_set_apn_info
    PROVE  GpsInv'
<1>1. /\ TruthTypeOK /\ ModemTypeOK /\ RestTypeOK
      /\ MutexDiscipline /\ FallbackIsTaken /\ ReadyInSession
  BY TypeParts DEF GpsInv
<1>c. refusals' \in Nat /\ excused' \in BOOLEAN
  BY <1>1, CommandTyped, TypeParts DEF RestTypeOK, TruthTypeOK, supl_set_apn_info
<1>2. TruthTypeOK'
  BY <1>c, <1>1 DEF TruthTypeOK, supl_set_apn_info
<1>3. ModemTypeOK'
  <2>1. modem' \in {modem, [modem EXCEPT !.set["apn"] = serviceArg]}
    BY DEF supl_set_apn_info
  <2>2. "apn" \in Settings /\ serviceArg \in Nat
    BY <1>1 DEF RestTypeOK, Settings
  <2>3. [modem EXCEPT !.set["apn"] = serviceArg] \in ModemStates
    BY <1>1, <2>2, ModemUpdates
  <2> QED BY <1>1, <2>1, <2>3 DEF ModemTypeOK
<1>4. RestTypeOK'
  BY <1>c, <1>1, ConstantsTyped DEF RestTypeOK, Callers, MainPcs, Modes, Settings, Flags,
      Statuses, supl_set_apn_info
<1>5. MutexDiscipline'
  BY <1>1, ConstantsTyped DEF RestTypeOK, Callers, MutexDiscipline, supl_set_apn_info
<1>6. FallbackIsTaken' /\ ReadyInSession'
  BY <1>1, ConstantsTyped DEF RestTypeOK, Callers, MutexDiscipline, FallbackIsTaken,
      ReadyInSession, supl_set_apn_info
<1> QED BY <1>2, <1>3, <1>4, <1>5, <1>6 DEF GpsInv, TypeOK, TruthTypeOK, ModemTypeOK, ModemStates,
    RestTypeOK

\* The end of a start, for its caller and for the mutex.
LEMMA ReturnKeeps ==
    ASSUME GpsInv, NEW t \in Callers, NEW ok, mutex = t, Unlock, Returns(t, ok)
    PROVE  /\ mutex' \in Callers \cup {"free"} /\ mode' \in Modes /\ step' = "none"
           /\ mainPc' \in MainPcs
           /\ fwPc' \in {"idle", "holds", "sends", "quit", "request", "wait", "stopped", "returned"}
           /\ event' \in [Events -> {"none", "failed", "zero", "holds"}]
           /\ MutexDiscipline'
<1>1. TypeOK /\ MutexDiscipline
  BY DEF GpsInv
<1>2. {"main", "fw", "free"} \cap Events = {}
  BY ConstantAssumption
<1>3. MutexDiscipline'
  <2>1. mutex' = "free" /\ step' = "none"
    BY DEF Unlock
  <2>2. mainPc' # "restoring"
    BY <1>1, <1>2 DEF Returns, MutexDiscipline, Callers
  <2>3. fwPc' # "holds"
    BY <1>1, <1>2 DEF Returns, MutexDiscipline, Callers
  <2>4. \A e \in Events : event'[e] # "holds"
    BY <1>1, <1>2 DEF Returns, MutexDiscipline, Callers
  <2> QED BY <1>2, <2>1, <2>2, <2>3, <2>4 DEF MutexDiscipline
<1>4. mainPc' \in MainPcs /\ fwPc' \in {"idle", "holds", "sends", "quit", "request", "wait",
    "stopped", "returned"}
  BY <1>1 DEF TypeOK, Returns, MainPcs
<1>5. event' \in [Events -> {"none", "failed", "zero", "holds"}]
  BY <1>1 DEF TypeOK, Returns
<1> QED BY <1>1, <1>3, <1>4, <1>5 DEF TypeOK, Unlock

\* A step of a start that goes on.
LEMMA GoesOnKeeps ==
    ASSUME GpsInv, NEW t \in Callers, mutex = t, UNCHANGED mutex, NoReturn, step' # "none"
    PROVE  MutexDiscipline'
<1>1. mutex # "free"
  BY ConstantAssumption DEF Callers
<1> QED BY <1>1 DEF GpsInv, MutexDiscipline, NoReturn

LEMMA mbm_gps_startKeeps ==
    ASSUME GpsInv, NEW t \in Callers, mbm_gps_start(t)
    PROVE  GpsInv'
<1>1. /\ TruthTypeOK /\ ModemTypeOK /\ RestTypeOK
      /\ MutexDiscipline /\ FallbackIsTaken /\ ReadyInSession
  BY TypeParts DEF GpsInv
<1>2. TruthTypeOK'
  BY <1>1 DEF TruthTypeOK, mbm_gps_start, NoReturn, Unlock, Returns
<1>3. ModemTypeOK'
  BY <1>1 DEF ModemTypeOK, mbm_gps_start
<1>4. \/ \E ok : Unlock /\ Returns(t, ok)
      \/ /\ UNCHANGED <<mutex, mode>> /\ NoReturn
         /\ step' = "mode"
  BY DEF mbm_gps_start
<1>5. mutex = t
  BY DEF mbm_gps_start
<1>6. /\ mutex' \in Callers \cup {"free"} /\ mode' \in Modes
      /\ mainPc' \in MainPcs
      /\ fwPc' \in {"idle", "holds", "sends", "quit", "request", "wait", "stopped", "returned"}
      /\ event' \in [Events -> {"none", "failed", "zero", "holds"}]
      /\ MutexDiscipline' /\ step' \in {"none", "mode"}
  <2>1. CASE \E ok : Unlock /\ Returns(t, ok)
    BY <1>5, <2>1, ReturnKeeps
  <2>2. CASE UNCHANGED <<mutex, mode>> /\ NoReturn /\ step' = "mode"
    BY <1>1, <1>5, <2>2, GoesOnKeeps DEF RestTypeOK, NoReturn
  <2> QED BY <1>4, <2>1, <2>2
<1>7. RestTypeOK'
  BY <1>1, <1>6 DEF RestTypeOK, mbm_gps_start
<1>8. ~fallback'
  BY <1>1 DEF FallbackIsTaken, mbm_gps_start
<1>9. ReadyInSession'
  <2>1. UNCHANGED is_ready /\ mainPc' \in {mainPc, "loop"}
    BY <1>4 DEF mbm_gps_start, Returns, NoReturn
  <2> QED BY <1>1, <2>1 DEF ReadyInSession
<1> QED BY <1>2, <1>3, <1>6, <1>7, <1>8, <1>9 DEF GpsInv, FallbackIsTaken, TypeOK, TruthTypeOK,
    ModemTypeOK, ModemStates, RestTypeOK

LEMMA gpsctrl_startKeeps ==
    ASSUME GpsInv, NEW t \in Callers, gpsctrl_start(t)
    PROVE  GpsInv'
<1>1. /\ TruthTypeOK /\ ModemTypeOK /\ RestTypeOK
      /\ MutexDiscipline /\ FallbackIsTaken /\ ReadyInSession
  BY TypeParts DEF GpsInv
<1>2. TruthTypeOK'
  BY <1>1 DEF TruthTypeOK, gpsctrl_start, ModeOfStart, NoReturn
<1>3. ModemTypeOK'
  BY <1>1, ModemUpdates DEF ModemTypeOK, RestTypeOK, Modes, gpsctrl_start, ModeOfStart, NoReturn
<1>4. RestTypeOK'
  BY <1>1, ConstantsTyped DEF RestTypeOK, Callers, MainPcs, Modes, Settings, Flags, Statuses,
      gpsctrl_start, ModeOfStart, NoReturn
<1>5. MutexDiscipline'
  BY <1>1, ConstantsTyped DEF RestTypeOK, Callers, MutexDiscipline, gpsctrl_start, ModeOfStart,
      NoReturn
<1>6. FallbackIsTaken' /\ ReadyInSession'
  BY <1>1, ConstantsTyped DEF RestTypeOK, Callers, MutexDiscipline, FallbackIsTaken,
      ReadyInSession, gpsctrl_start, ModeOfStart, NoReturn
<1> QED BY <1>2, <1>3, <1>4, <1>5, <1>6 DEF GpsInv, TypeOK, TruthTypeOK, ModemTypeOK, ModemStates,
    RestTypeOK

LEMMA StartReportsKeeps ==
    ASSUME GpsInv, NEW t \in Callers, StartReports(t)
    PROVE  GpsInv'
<1>1. /\ TruthTypeOK /\ ModemTypeOK /\ RestTypeOK
      /\ MutexDiscipline /\ FallbackIsTaken /\ ReadyInSession
  BY TypeParts DEF GpsInv
<1>c. refusals' \in Nat /\ excused' \in BOOLEAN
  BY <1>1, CommandTyped, TypeParts DEF RestTypeOK, TruthTypeOK, StartReports, NoReturn, Unlock,
      Returns
<1>2. TruthTypeOK'
  BY <1>c, <1>1 DEF TruthTypeOK, StartReports, NoReturn, Unlock, Returns
<1>3. ModemTypeOK'
  <2>1. modem' \in {modem, [modem EXCEPT !.stat = TRUE]}
    BY DEF StartReports
  <2> QED BY <1>1, <2>1, ModemUpdates DEF ModemTypeOK
<1>4. \/ \E ok : Unlock /\ Returns(t, ok)
      \/ /\ UNCHANGED <<mutex, mode>> /\ NoReturn
         /\ step' = "control"
  BY DEF StartReports
<1>5. mutex = t
  BY DEF StartReports
<1>6. /\ mutex' \in Callers \cup {"free"} /\ mode' \in Modes
      /\ mainPc' \in MainPcs
      /\ fwPc' \in {"idle", "holds", "sends", "quit", "request", "wait", "stopped", "returned"}
      /\ event' \in [Events -> {"none", "failed", "zero", "holds"}]
      /\ MutexDiscipline' /\ step' \in {"none", "control"}
  <2>1. CASE \E ok : Unlock /\ Returns(t, ok)
    BY <1>5, <2>1, ReturnKeeps
  <2>2. CASE UNCHANGED <<mutex, mode>> /\ NoReturn /\ step' = "control"
    BY <1>1, <1>5, <2>2, GoesOnKeeps DEF RestTypeOK, NoReturn
  <2> QED BY <1>4, <2>1, <2>2
<1>7. RestTypeOK'
  BY <1>c, <1>1, <1>6 DEF RestTypeOK, StartReports
<1>8. ~fallback'
  BY <1>1 DEF FallbackIsTaken, StartReports
<1>9. ReadyInSession'
  <2>1. UNCHANGED is_ready /\ mainPc' \in {mainPc, "loop"}
    BY <1>4 DEF StartReports, Returns, NoReturn
  <2> QED BY <1>1, <2>1 DEF ReadyInSession
<1> QED BY <1>2, <1>3, <1>6, <1>7, <1>8, <1>9 DEF GpsInv, FallbackIsTaken, TypeOK, TruthTypeOK,
    ModemTypeOK, ModemStates, RestTypeOK

LEMMA StartControlKeeps ==
    ASSUME GpsInv, NEW t \in Callers, StartControl(t)
    PROVE  GpsInv'
<1>1. /\ TruthTypeOK /\ ModemTypeOK /\ RestTypeOK
      /\ MutexDiscipline /\ FallbackIsTaken /\ ReadyInSession
  BY TypeParts DEF GpsInv
<1>c. refusals' \in Nat /\ excused' \in BOOLEAN
  BY <1>1, CommandTyped, TypeParts DEF RestTypeOK, TruthTypeOK, StartControl, NoReturn, Unlock,
      Returns
<1>2. TruthTypeOK'
  BY <1>c, <1>1 DEF TruthTypeOK, StartControl, NoReturn, Unlock, Returns
<1>3. ModemTypeOK'
  <2>1. modem' \in {modem, [modem EXCEPT !.mode = mode]}
    BY DEF StartControl
  <2>2. mode \in Modes \cup {"off"}
    BY <1>1 DEF RestTypeOK
  <2> QED BY <1>1, <2>1, <2>2, ModemUpdates DEF ModemTypeOK
<1>4. \/ \E ok : Unlock /\ Returns(t, ok)
      \/ /\ UNCHANGED <<mutex, mode>> /\ NoReturn
         /\ step' = "begin"
  BY DEF StartControl
<1>5. mutex = t
  BY DEF StartControl
<1>6. /\ mutex' \in Callers \cup {"free"} /\ mode' \in Modes
      /\ mainPc' \in MainPcs
      /\ fwPc' \in {"idle", "holds", "sends", "quit", "request", "wait", "stopped", "returned"}
      /\ event' \in [Events -> {"none", "failed", "zero", "holds"}]
      /\ MutexDiscipline' /\ step' \in {"none", "begin"}
  <2>1. CASE \E ok : Unlock /\ Returns(t, ok)
    BY <1>5, <2>1, ReturnKeeps
  <2>2. CASE UNCHANGED <<mutex, mode>> /\ NoReturn /\ step' = "begin"
    BY <1>1, <1>5, <2>2, GoesOnKeeps DEF RestTypeOK, NoReturn
  <2> QED BY <1>4, <2>1, <2>2
<1>7. RestTypeOK'
  BY <1>c, <1>1, <1>6 DEF RestTypeOK, StartControl
<1>8. ~fallback'
  BY <1>1 DEF FallbackIsTaken, StartControl
<1>9. ReadyInSession'
  <2>1. UNCHANGED is_ready /\ mainPc' \in {mainPc, "loop"}
    BY <1>4 DEF StartControl, Returns, NoReturn
  <2> QED BY <1>1, <2>1 DEF ReadyInSession
<1> QED BY <1>2, <1>3, <1>6, <1>7, <1>8, <1>9 DEF GpsInv, FallbackIsTaken, TypeOK, TruthTypeOK,
    ModemTypeOK, ModemStates, RestTypeOK

LEMMA SessionBeginsKeeps ==
    ASSUME GpsInv, NEW t \in Callers, SessionBegins(t)
    PROVE  GpsInv'
<1>1. /\ TruthTypeOK /\ ModemTypeOK /\ RestTypeOK
      /\ MutexDiscipline /\ FallbackIsTaken /\ ReadyInSession
  BY TypeParts DEF GpsInv
<1>2. TruthTypeOK'
  BY <1>1 DEF TruthTypeOK, SessionBegins, NoReturn
<1>3. ModemTypeOK'
  BY <1>1, ModemUpdates DEF ModemTypeOK, RestTypeOK, Modes, SessionBegins, NoReturn
<1>4. RestTypeOK'
  BY <1>1, ConstantsTyped DEF RestTypeOK, Callers, MainPcs, Modes, Settings, Flags, Statuses,
      SessionBegins, NoReturn
<1>5. MutexDiscipline'
  BY <1>1, ConstantsTyped DEF RestTypeOK, Callers, MutexDiscipline, SessionBegins, NoReturn
<1>6. FallbackIsTaken' /\ ReadyInSession'
  BY <1>1, ConstantsTyped DEF RestTypeOK, Callers, MutexDiscipline, FallbackIsTaken,
      ReadyInSession, SessionBegins, NoReturn
<1> QED BY <1>2, <1>3, <1>4, <1>5, <1>6 DEF GpsInv, TypeOK, TruthTypeOK, ModemTypeOK, ModemStates,
    RestTypeOK

LEMMA TellsKeeps ==
    ASSUME GpsInv, NEW t \in Callers, Tells(t)
    PROVE  GpsInv'
<1>1. /\ TruthTypeOK /\ ModemTypeOK /\ RestTypeOK
      /\ MutexDiscipline /\ FallbackIsTaken /\ ReadyInSession
  BY TypeParts DEF GpsInv
<1>2. TruthTypeOK'
  BY <1>1 DEF TruthTypeOK, Tells, Unlock, Returns, add_pending_command, Commands
<1>3. ModemTypeOK'
  BY <1>1, ModemUpdates DEF ModemTypeOK, RestTypeOK, Modes, Tells, Unlock, Returns,
      add_pending_command, Commands
<1>4. RestTypeOK'
  BY <1>1, ConstantsTyped DEF RestTypeOK, Callers, MainPcs, Modes, Settings, Flags, Statuses,
      Tells, Unlock, Returns, add_pending_command, Commands
<1>5. MutexDiscipline'
  BY <1>1, ConstantsTyped DEF RestTypeOK, Callers, MutexDiscipline, Tells, Unlock, Returns,
      add_pending_command, Commands
<1>6. FallbackIsTaken' /\ ReadyInSession'
  BY <1>1, ConstantsTyped DEF RestTypeOK, Callers, MutexDiscipline, FallbackIsTaken,
      ReadyInSession, Tells, Unlock, Returns, add_pending_command, Commands
<1> QED BY <1>2, <1>3, <1>4, <1>5, <1>6 DEF GpsInv, TypeOK, TruthTypeOK, ModemTypeOK, ModemStates,
    RestTypeOK

LEMMA supl_failKeeps ==
    ASSUME GpsInv, NEW e \in Events, supl_fail(e)
    PROVE  GpsInv'
<1>1. /\ TruthTypeOK /\ ModemTypeOK /\ RestTypeOK
      /\ MutexDiscipline /\ FallbackIsTaken /\ ReadyInSession
  BY TypeParts DEF GpsInv
<1>2. TruthTypeOK'
  BY <1>1 DEF TruthTypeOK, supl_fail
<1>3. ModemTypeOK'
  BY <1>1, ModemUpdates DEF ModemTypeOK, RestTypeOK, Modes, supl_fail
<1>4. RestTypeOK'
  BY <1>1, ConstantsTyped DEF RestTypeOK, Callers, MainPcs, Modes, Settings, Flags, Statuses,
      supl_fail
<1>5. MutexDiscipline'
  BY <1>1, ConstantsTyped DEF RestTypeOK, Callers, MutexDiscipline, supl_fail
<1>6. FallbackIsTaken' /\ ReadyInSession'
  BY <1>1, ConstantsTyped DEF RestTypeOK, Callers, MutexDiscipline, FallbackIsTaken,
      ReadyInSession, supl_fail
<1> QED BY <1>2, <1>3, <1>4, <1>5, <1>6 DEF GpsInv, TypeOK, TruthTypeOK, ModemTypeOK, ModemStates,
    RestTypeOK

LEMMA LocksToStartOrStopKeeps ==
    ASSUME GpsInv, NEW kind \in {"start", "stop"}, LocksToStartOrStop(kind)
    PROVE  GpsInv'
<1>1. /\ TruthTypeOK /\ ModemTypeOK /\ RestTypeOK
      /\ MutexDiscipline /\ FallbackIsTaken /\ ReadyInSession
  BY TypeParts DEF GpsInv
<1>2. TruthTypeOK'
  BY <1>1 DEF TruthTypeOK, LocksToStartOrStop, Calls
<1>3. ModemTypeOK'
  BY <1>1, ModemUpdates DEF ModemTypeOK, RestTypeOK, Modes, LocksToStartOrStop, Calls
<1>4. RestTypeOK'
  BY <1>1, ConstantsTyped DEF RestTypeOK, Callers, MainPcs, Modes, Settings, Flags, Statuses,
      LocksToStartOrStop, Calls
<1>5. MutexDiscipline'
  BY <1>1, ConstantsTyped DEF RestTypeOK, Callers, MutexDiscipline, LocksToStartOrStop, Calls
<1>6. FallbackIsTaken' /\ ReadyInSession'
  BY <1>1, ConstantsTyped DEF RestTypeOK, Callers, MutexDiscipline, FallbackIsTaken,
      ReadyInSession, LocksToStartOrStop, Calls
<1> QED BY <1>2, <1>3, <1>4, <1>5, <1>6 DEF GpsInv, TypeOK, TruthTypeOK, ModemTypeOK, ModemStates,
    RestTypeOK

-----------------------------------------------------------------------------
\* When the library starts: nothing is held, and main_loop has no session yet.
LEMMA InitGps == Init => GpsInv
<1> SUFFICES ASSUME Init PROVE GpsInv
  OBVIOUS
<1>1. TruthTypeOK
  <2>1. scenario.allowed \in BOOLEAN
    BY ConstantsTyped DEF Init
  <2> QED BY <2>1 DEF Init, TruthTypeOK
<1>2. ModemTypeOK
  BY DEF Init, ModemTypeOK, ModemStates
<1>3. RestTypeOK
  <2>1. scenario.allowed \in BOOLEAN
    BY ConstantsTyped DEF Init
  <2> QED BY <2>1 DEF Init, RestTypeOK, Modes, Settings, Flags, Statuses, Callers, MainPcs
<1>4. MutexDiscipline
  BY ConstantAssumption DEF Init, MutexDiscipline
<1>5. FallbackIsTaken /\ ReadyInSession
  BY DEF Init, FallbackIsTaken, ReadyInSession
<1> QED BY <1>1, <1>2, <1>3, <1>4, <1>5, TypeParts DEF GpsInv

LEMMA StutterKeeps ==
    ASSUME GpsInv, UNCHANGED vars
    PROVE  GpsInv'
<1>1. TypeOK'
  BY DEF GpsInv, TypeOK, vars
<1>2. MutexDiscipline' /\ FallbackIsTaken' /\ ReadyInSession'
  BY DEF GpsInv, MutexDiscipline, FallbackIsTaken, ReadyInSession, vars
<1> QED BY <1>1, <1>2 DEF GpsInv

LEMMA NextGps ==
    ASSUME GpsInv, [Next]_vars
    PROVE  GpsInv'
<1>1. CASE ModemStep \/ ReaderStep \/ mbm_gps_ni_request
  BY <1>1, ModemLostKeeps, ModemReturnsKeeps, SuplFailsKeeps, ReaderEndsKeeps,
      onATReaderClosedKeeps, NiAddsKeeps, mbm_gps_ni_requestKeeps DEF ModemStep, ReaderStep
<1>2. CASE \E t \in Callers : SessionStep(t)
  BY <1>2, mbm_gps_startKeeps, gpsctrl_startKeeps, StartReportsKeeps, StartControlKeeps,
      SessionBeginsKeeps, TellsKeeps DEF SessionStep
<1>3. CASE \E e \in Events : supl_fail(e)
  BY <1>3, supl_failKeeps
<1>4. CASE MainStep
  BY <1>4, open_at_channelKeeps, gpsctrl_openKeeps, EngineOnKeeps,
      gpsctrl_set_device_is_readyKeeps, gpsctrl_set_position_modeKeeps, supl_initKeeps,
      SuplSendsKeeps, RestoresKeeps, HandlesCommandKeeps, NmeaLostKeeps, NotReadyKeeps,
      gpsctrl_cleanupKeeps, EngineOffKeeps, DevicesRemovedKeeps, SignalsKeeps DEF MainStep
<1>5. CASE FrameworkCalls
  BY <1>5, LocksToStartOrStopKeeps, mbm_gps_set_position_modeKeeps,
      mbm_agpsril_update_network_stateKeeps, gpsctrl_set_supl_serverKeeps, mbm_gps_cleanupKeeps
      DEF FrameworkCalls
<1>6. CASE FrameworkStep
  BY <1>6, mbm_gps_stopKeeps, gpsctrl_stopKeeps, SessionEndsKeeps, supl_set_serverKeeps,
      CleanupStepKeeps DEF FrameworkStep
<1>7. CASE ServiceStep \/ supl_set_apn_info
  BY <1>7, SetsFlagKeeps, gpsctrl_set_apn_infoKeeps, supl_set_apn_infoKeeps DEF ServiceStep
<1>8. CASE UNCHANGED vars
  BY <1>8, StutterKeeps
<1> QED BY <1>1, <1>2, <1>3, <1>4, <1>5, <1>6, <1>7, <1>8 DEF Next

\* Whatever the framework calls, the modem and the network do, in any order: the types hold; the
\* mutex of the sessions is held by exactly the one caller that is starting or stopping; the order
\* to fall back to standalone does not outlive the failure that gave it; and the device is ready,
\* so that other threads may send, only while main_loop has a session with the modem.
THEOREM SessionsCorrect == Spec => []GpsInv
<1>1. Init => GpsInv
  BY InitGps
<1>2. GpsInv /\ [Next]_vars => GpsInv'
  BY NextGps
<1> QED BY <1>1, <1>2, PTL DEF Spec

-----------------------------------------------------------------------------
(***************************************************************************)
(* What the framework is told.  A status that it was not told yet has a    *)
(* callback asked for, a caller that is about to ask for it, or main_loop  *)
(* about to tell that the engine is off; the callback hands out whatever   *)
(* the buffer holds when it runs, and that is why the last status is told. *)
(***************************************************************************)
Has(cmd) == \E i \in 1..Len(cmds) : cmds[i] = cmd

StatusIsOnItsWay ==
    \/ told.status = gps_status
    \/ Has("STATUS_CB")
    \/ step \in {"tell", "tellEnd"}
    \/ mainPc \in {"tellsOff", "exitTells"}

RequestIsOnItsWay ==
    /\ notification = current_ni_request
    /\ told.ni = notification \/ niPc = "adds" \/ Has("NI_CB")

Telling == StatusIsOnItsWay /\ RequestIsOnItsWay

\* The socket pair keeps what is added, and loses only what is read.
LEMMA AddedCommands ==
    ASSUME TypeOK, NEW new \in Commands, add_pending_command(new)
    PROVE  /\ Has(new)'
           /\ \A cmd : Has(cmd) => Has(cmd)'
<1>1. cmds \in Seq(Commands) /\ cmds' = Append(cmds, new)
  BY DEF TypeOK, add_pending_command
<1>2. /\ Len(cmds') = Len(cmds) + 1 /\ Len(cmds) \in Nat
      /\ cmds'[Len(cmds) + 1] = new
      /\ \A i \in 1..Len(cmds) : cmds'[i] = cmds[i]
  BY <1>1
<1>3. Has(new)'
  BY <1>2 DEF Has
<1>4. ASSUME NEW cmd, Has(cmd) PROVE Has(cmd)'
  <2>1. PICK i \in 1..Len(cmds) : cmds[i] = cmd
    BY <1>4 DEF Has
  <2>2. i \in 1..Len(cmds') /\ cmds'[i] = cmd
    BY <1>2, <2>1
  <2> QED BY <2>2 DEF Has
<1> QED BY <1>3, <1>4

LEMMA ReadCommands ==
    ASSUME TypeOK, cmds # << >>, cmds' = Tail(cmds)
    PROVE  \A cmd : Has(cmd) /\ Head(cmds) # cmd => Has(cmd)'
<1>1. cmds \in Seq(Commands)
  BY DEF TypeOK
<1>2. /\ Len(cmds) \in Nat /\ Len(cmds') = Len(cmds) - 1 /\ Head(cmds) = cmds[1]
      /\ \A i \in 1..Len(cmds') : cmds'[i] = cmds[i + 1]
  BY <1>1
<1> SUFFICES ASSUME NEW cmd, Has(cmd), Head(cmds) # cmd PROVE Has(cmd)'
  OBVIOUS
<1>3. PICK i \in 1..Len(cmds) : cmds[i] = cmd
  BY DEF Has
<1>4. i # 1
  BY <1>2, <1>3
<1>5. i - 1 \in 1..Len(cmds') /\ cmds'[i - 1] = cmd
  BY <1>2, <1>3, <1>4
<1> QED BY <1>5 DEF Has

\* A step that changes nothing of the status and the request, and lets nobody forget to tell.
LEMMA TellingFrame ==
    ASSUME Telling, UNCHANGED <<gps_status, told, cmds, niVars>>,
           step \in {"tell", "tellEnd"} => step' = step,
           mainPc \in {"tellsOff", "exitTells"} => mainPc' = mainPc
    PROVE  Telling'
BY DEF Telling, StatusIsOnItsWay, RequestIsOnItsWay, Has

\* A step that adds a command: the places of the other disjuncts are kept, or the command is it.
LEMMA TellingAdds ==
    ASSUME TypeOK, Telling, NEW new \in Commands, add_pending_command(new),
           UNCHANGED <<told, notification, current_ni_request>>,
           new = "STATUS_CB" \/ (/\ UNCHANGED <<gps_status, step>>
                                 /\ mainPc' = mainPc),
           new = "NI_CB" \/ niPc' = niPc
    PROVE  Telling'
<1>1. Has(new)' /\ \A cmd : Has(cmd) => Has(cmd)'
  BY AddedCommands
<1>2. StatusIsOnItsWay'
  BY <1>1 DEF Telling, StatusIsOnItsWay
<1>3. RequestIsOnItsWay'
  BY <1>1 DEF Telling, RequestIsOnItsWay
<1> QED BY <1>2, <1>3 DEF Telling

LEMMA TellingIsAsked ==
    ASSUME GpsInv, Telling,
           onATReaderClosed \/ NiAdds \/ EngineOn \/ CleanupStep \/ \E t \in Callers : Tells(t)
    PROVE  Telling'
<1>1. TypeOK
  BY DEF GpsInv
<1>2. CASE onATReaderClosed
  BY <1>1, <1>2, TellingAdds DEF onATReaderClosed, Commands
<1>3. CASE NiAdds
  BY <1>1, <1>3, TellingAdds DEF NiAdds, Commands
<1>4. CASE EngineOn
  BY <1>1, <1>4, TellingAdds DEF EngineOn, Commands
<1>5. CASE CleanupStep /\ add_pending_command("QUIT")
  BY <1>1, <1>5, TellingAdds DEF CleanupStep, Commands
<1>6. CASE CleanupStep /\ UNCHANGED cmds
  BY <1>6, TellingFrame DEF CleanupStep
<1>7. CASE \E t \in Callers : Tells(t)
  BY <1>1, <1>7, TellingAdds DEF Tells, Commands
<1> QED BY <1>2, <1>3, <1>4, <1>5, <1>6, <1>7 DEF CleanupStep

\* main_loop hands out the status and the request as they are now.
LEMMA HandlesCommandTells ==
    ASSUME GpsInv, Telling, HandlesCommand
    PROVE  Telling'
<1>1. TypeOK /\ told \in [status : Statuses, ni : Nat] /\ cmds \in Seq(Commands)
  BY DEF GpsInv, TypeOK
<1>2. /\ cmds # << >> /\ cmds' = Tail(cmds) /\ mainPc = "loop"
      /\ UNCHANGED <<gps_status, step, niVars>>
  BY DEF HandlesCommand
<1>3. \A cmd : Has(cmd) /\ Head(cmds) # cmd => Has(cmd)'
  BY <1>1, <1>2, ReadCommands
<1>4. CASE Head(cmds) = "STATUS_CB"
  <2>1. told'.status = gps_status /\ told'.ni = told.ni
    BY <1>1, <1>4 DEF HandlesCommand
  <2> QED BY <1>2, <1>3, <1>4, <2>1 DEF Telling, StatusIsOnItsWay, RequestIsOnItsWay
<1>5. CASE Head(cmds) = "NI_CB"
  <2>1. told'.status = told.status /\ told'.ni = notification
    BY <1>1, <1>5 DEF HandlesCommand
  <2> QED BY <1>2, <1>3, <1>5, <2>1 DEF Telling, StatusIsOnItsWay, RequestIsOnItsWay
<1>6. CASE Head(cmds) \in {"AT_LOST", "QUIT"}
  <2>1. told' = told
    BY <1>6 DEF HandlesCommand
  <2> QED BY <1>2, <1>3, <1>6, <2>1 DEF Telling, StatusIsOnItsWay, RequestIsOnItsWay
<1>7. Head(cmds) \in Commands
  BY <1>1, <1>2
<1> QED BY <1>4, <1>5, <1>6, <1>7 DEF Commands

\* What changes the status or the request, and the end of the engine.
LEMMA TellingIsDue ==
    ASSUME GpsInv, Telling,
           \/ mbm_gps_ni_request \/ gpsctrl_cleanup \/ EngineOff \/ SessionEnds
           \/ \E t \in Callers : SessionBegins(t)
    PROVE  Telling'
<1>1. told \in [status : Statuses, ni : Nat]
  BY DEF GpsInv, TypeOK
<1>2. CASE mbm_gps_ni_request
  BY <1>2 DEF mbm_gps_ni_request, Telling, StatusIsOnItsWay, RequestIsOnItsWay, Has
<1>3. CASE gpsctrl_cleanup
  BY <1>3 DEF gpsctrl_cleanup, Telling, StatusIsOnItsWay, RequestIsOnItsWay, Has
<1>4. CASE EngineOff
  <2>1. told'.status = gps_status' /\ told'.ni = told.ni
    BY <1>1, <1>4 DEF EngineOff
  <2> QED BY <1>4, <2>1 DEF EngineOff, Telling, StatusIsOnItsWay, RequestIsOnItsWay, Has
<1>5. CASE SessionEnds
  BY <1>5 DEF SessionEnds, Telling, StatusIsOnItsWay, RequestIsOnItsWay, Has
<1>6. CASE \E t \in Callers : SessionBegins(t)
  BY <1>6 DEF SessionBegins, Telling, StatusIsOnItsWay, RequestIsOnItsWay, Has
<1> QED BY <1>2, <1>3, <1>4, <1>5, <1>6

LEMMA TellingElsewhere ==
    ASSUME GpsInv, Telling,
           \/ ModemLost \/ ModemReturns \/ SuplFails \/ ReaderEnds \/ open_at_channel
           \/ gpsctrl_open \/ gpsctrl_set_device_is_ready \/ gpsctrl_set_position_mode
           \/ supl_init \/ SuplSends \/ Restores \/ NmeaLost \/ NotReady \/ DevicesRemoved
           \/ Signals \/ mbm_gps_set_position_mode \/ mbm_agpsril_update_network_state
           \/ gpsctrl_set_supl_server \/ mbm_gps_cleanup \/ mbm_gps_stop \/ gpsctrl_stop
           \/ supl_set_server \/ SetsFlag \/ gpsctrl_set_apn_info \/ supl_set_apn_info
           \/ \E t \in Callers : mbm_gps_start(t)
           \/ \E t \in Callers : gpsctrl_start(t)
           \/ \E t \in Callers : StartReports(t)
           \/ \E t \in Callers : StartControl(t)
           \/ \E e \in Events : supl_fail(e)
           \/ \E kind \in {"start", "stop"} : LocksToStartOrStop(kind)
    PROVE  Telling'
<1>1. CASE ModemLost
  BY <1>1, TellingFrame DEF ModemLost
<1>2. CASE ModemReturns
  BY <1>2, TellingFrame DEF ModemReturns
<1>3. CASE SuplFails
  BY <1>3, TellingFrame DEF SuplFails
<1>4. CASE ReaderEnds
  BY <1>4, TellingFrame DEF ReaderEnds
<1>5. CASE \E t \in Callers : mbm_gps_start(t)
  BY <1>5, TellingFrame DEF mbm_gps_start, NoReturn, Unlock, Returns, GpsInv, MutexDiscipline
<1>6. CASE \E t \in Callers : gpsctrl_start(t)
  BY <1>6, TellingFrame DEF gpsctrl_start, ModeOfStart, NoReturn
<1>7. CASE \E t \in Callers : StartReports(t)
  BY <1>7, TellingFrame DEF StartReports, Answers, Refuses, NoReturn, Unlock, Returns, GpsInv,
      MutexDiscipline
<1>8. CASE \E t \in Callers : StartControl(t)
  BY <1>8, TellingFrame DEF StartControl, Answers, Refuses, NoReturn, Unlock, Returns, GpsInv,
      MutexDiscipline
<1>9. CASE \E e \in Events : supl_fail(e)
  BY <1>9, TellingFrame DEF supl_fail, GpsInv, MutexDiscipline
<1>10. CASE open_at_channel
  BY <1>10, TellingFrame DEF open_at_channel
<1>11. CASE gpsctrl_open
  BY <1>11, TellingFrame DEF gpsctrl_open, Answers, Refuses
<1>12. CASE gpsctrl_set_device_is_ready
  BY <1>12, TellingFrame DEF gpsctrl_set_device_is_ready
<1>13. CASE gpsctrl_set_position_mode
  BY <1>13, TellingFrame DEF gpsctrl_set_position_mode
<1>14. CASE supl_init
  BY <1>14, TellingFrame DEF supl_init, Settings
<1>15. CASE SuplSends
  BY <1>15, TellingFrame DEF SuplSends, Answers, Refuses
<1>16. CASE Restores
  BY <1>16, TellingFrame DEF Restores, ShouldRestore, GpsInv, MutexDiscipline
<1>17. CASE NmeaLost
  BY <1>17, TellingFrame DEF NmeaLost
<1>18. CASE NotReady
  BY <1>18, TellingFrame DEF NotReady
<1>19. CASE DevicesRemoved
  BY <1>19, TellingFrame DEF DevicesRemoved
<1>20. CASE Signals
  BY <1>20, TellingFrame DEF Signals, CleanupMutexFree
<1>21. CASE \E kind \in {"start", "stop"} : LocksToStartOrStop(kind)
  BY <1>21, TellingFrame DEF LocksToStartOrStop, Calls, GpsInv, MutexDiscipline
<1>22. CASE mbm_gps_set_position_mode
  BY <1>22, TellingFrame DEF mbm_gps_set_position_mode, Calls
<1>23. CASE mbm_agpsril_update_network_state
  BY <1>23, TellingFrame DEF mbm_agpsril_update_network_state, Calls
<1>24. CASE gpsctrl_set_supl_server
  BY <1>24, TellingFrame DEF gpsctrl_set_supl_server, Calls, Stores, ServerIsSent, BeingConfigured
<1>25. CASE mbm_gps_cleanup
  BY <1>25, TellingFrame DEF mbm_gps_cleanup
<1>26. CASE mbm_gps_stop
  BY <1>26, TellingFrame DEF mbm_gps_stop, NoReturn
<1>27. CASE gpsctrl_stop
  BY <1>27, TellingFrame DEF gpsctrl_stop, Answers, Refuses, NoReturn
<1>28. CASE supl_set_server
  BY <1>28, TellingFrame DEF supl_set_server, Answers, Refuses
<1>29. CASE SetsFlag
  BY <1>29, TellingFrame DEF SetsFlag
<1>30. CASE gpsctrl_set_apn_info
  BY <1>30, TellingFrame DEF gpsctrl_set_apn_info, Stores, BeingConfigured
<1>31. CASE supl_set_apn_info
  BY <1>31, TellingFrame DEF supl_set_apn_info, Answers, Refuses
<1> QED BY <1>1, <1>2, <1>3, <1>4, <1>5, <1>6, <1>7, <1>8, <1>9, <1>10, <1>11, <1>12, <1>13,
    <1>14, <1>15, <1>16, <1>17, <1>18, <1>19, <1>20, <1>21, <1>22, <1>23, <1>24, <1>25, <1>26,
    <1>27, <1>28, <1>29, <1>30, <1>31

LEMMA InitTelling == Init => Telling
BY DEF Init, Telling, StatusIsOnItsWay, RequestIsOnItsWay

LEMMA NextTelling ==
    ASSUME GpsInv, Telling, [Next]_vars
    PROVE  Telling'
<1>1. CASE UNCHANGED vars
  BY <1>1, TellingFrame DEF vars
<1>2. CASE ModemStep \/ ReaderStep \/ mbm_gps_ni_request
  BY <1>2, TellingElsewhere, TellingIsAsked, TellingIsDue DEF ModemStep, ReaderStep
<1>3. CASE \E t \in Callers : SessionStep(t)
  BY <1>3, TellingElsewhere, TellingIsAsked, TellingIsDue DEF SessionStep
<1>4. CASE \E e \in Events : supl_fail(e)
  BY <1>4, TellingElsewhere
<1>5. CASE MainStep
  BY <1>5, TellingElsewhere, TellingIsAsked, TellingIsDue, HandlesCommandTells DEF MainStep
<1>6. CASE FrameworkCalls
  BY <1>6, TellingElsewhere DEF FrameworkCalls
<1>7. CASE FrameworkStep
  BY <1>7, TellingElsewhere, TellingIsAsked, TellingIsDue DEF FrameworkStep
<1>8. CASE ServiceStep \/ supl_set_apn_info
  BY <1>8, TellingElsewhere DEF ServiceStep
<1> QED BY <1>1, <1>2, <1>3, <1>4, <1>5, <1>6, <1>7, <1>8 DEF Next

\* The framework is never left with an old status or an old request of the network: when all is
\* quiet it was told the last of both, although the sessions, main_loop and the reader thread
\* overwrite the one buffer that the callbacks hand out.
THEOREM LastIsTold == Spec => []ToldTheLast
<1>1. Init => Telling
  BY InitTelling
<1>2. GpsInv /\ Telling /\ [Next]_vars => Telling'
  BY NextTelling
<1>3. GpsInv /\ Telling => ToldTheLast
  <2> SUFFICES ASSUME GpsInv, Telling, Quiet
               PROVE  told = [status |-> gps_status, ni |-> current_ni_request]
    BY DEF ToldTheLast
  <2>1. step = "none" /\ told \in [status : Statuses, ni : Nat]
    BY DEF GpsInv, TypeOK, MutexDiscipline, Quiet
  <2>2. ~Has("STATUS_CB") /\ ~Has("NI_CB")
    BY DEF Has, Quiet
  <2>3. told.status = gps_status /\ told.ni = current_ni_request
    BY <2>1, <2>2 DEF Quiet, Telling, StatusIsOnItsWay, RequestIsOnItsWay
  <2> QED BY <2>1, <2>3
<1> QED BY <1>1, <1>2, <1>3, SessionsCorrect, PTL DEF Spec

-----------------------------------------------------------------------------
(***************************************************************************)
(* The session and the receiver.  HolderInv says what each holder of the   *)
(* mutex may find, step by step; OffUnlessAsked and RunsIfAsked are the    *)
(* two halves of the property while somebody is at work.  A receiver that  *)
(* a SUPL failure stopped counts as running while a thread is on its way   *)
(* to start it again, and that thread acts on a report of mode and status  *)
(* 0 only while SUPL is preferred: PreferenceInv is what keeps it so.      *)
(***************************************************************************)
Configuring == {"apn", "apnSends", "server", "serverSends"}
Configured == {"restore", "restoring", "loop"}
InSession == {"mode"} \cup Configuring \cup Configured

ReadyWhenConfigured == mainPc \in InSession => is_ready

Wanted == gps_started \/ gps_should_start

HolderInv ==
    /\ mutex = "main" => /\ step \in {"start", "mode", "reports", "control", "begin", "tell"}
                         /\ Wanted
    /\ mutex \in Events => step \in {"mode", "reports", "control"}
    /\ mutex \in Events \/ step = "tell" => gps_started
    /\ mutex = "fw" =>
          \/ step \in {"start", "mode", "reports", "control", "begin"} /\ ~asked /\ ~Wanted
          \/ step = "tell" /\ ~asked
          \/ step \in {"stop", "stopReports", "stopControl", "end"} /\ asked /\ Wanted
          \/ step = "tellEnd" /\ asked /\ ~Wanted
    /\ mutex # "fw" => (asked <=> Wanted)

OffUnlessAsked ==
    modem.mode # "off" =>
        \/ excused
        \/ mutex # "fw" /\ asked
        \/ mutex = "fw" /\ step \in {"begin", "tell", "stop", "stopReports", "stopControl"}

FallsBack(e) ==
    \/ event[e] \in {"failed", "holds"}
    \/ event[e] = "zero" /\ pref_mode = "supl"
Runs == modem.mode # "off" \/ \E e \in Events : FallsBack(e)
Broken == excused \/ at # "open" \/ nmea # "open"

RunsIfAsked ==
    /\ mainPc = "loop" /\ mutex # "fw" /\ asked => Broken \/ (Runs /\ gps_started)
    /\ mainPc \in {"restoring", "loop"} /\ step \in {"begin", "tell"} => Broken \/ Runs

PreferenceInv ==
    /\ pref_mode \in {scenario.pref, "standalone"}
    /\ modem.mode = "supl" => scenario.pref = "supl"
    /\ mode = "supl" => scenario.pref = "supl"
    /\ mainPc \in Configuring \cup Configured =>
          /\ modem.mode = "supl" => excused \/ pref_mode = "supl"
          /\ mode = "supl" /\ step \in {"reports", "control"} => pref_mode = "supl"

RunInv == ReadyWhenConfigured /\ HolderInv /\ OffUnlessAsked /\ RunsIfAsked /\ PreferenceInv

\* A step that leaves the sessions alone, and moves main_loop into none of the places where more
\* is promised than where it came from.
LEMMA RunFrame ==
    ASSUME RunInv, UNCHANGED <<sessionVars, lockVars, asked, event, scenario>>,
           modem'.mode = modem.mode, excused => excused',
           mainPc' \in InSession => is_ready',
           mainPc' \in Configuring \cup Configured =>
               mainPc \in Configuring \cup Configured /\ pref_mode' = pref_mode,
           mainPc' \in {"restoring", "loop"} =>
               /\ mainPc' = mainPc
               /\ at' = "open" => at = "open"
               /\ nmea' = "open" => nmea = "open",
           pref_mode' \in {pref_mode, scenario.pref, "standalone"}
    PROVE  RunInv'
<1>1. ReadyWhenConfigured'
  BY DEF ReadyWhenConfigured
<1>2. HolderInv'
  BY DEF RunInv, HolderInv, Wanted
<1>3. OffUnlessAsked'
  BY DEF RunInv, OffUnlessAsked
<1>4. RunsIfAsked'
  <2>1. CASE mainPc' \in {"restoring", "loop"}
    <3>1. pref_mode' = pref_mode
      BY <2>1 DEF Configured
    <3>2. Runs <=> Runs'
      BY <3>1 DEF Runs, FallsBack
    <3>3. Broken => Broken'
      BY <2>1 DEF Broken
    <3> QED BY <2>1, <3>2, <3>3 DEF RunInv, RunsIfAsked
  <2>2. CASE mainPc' \notin {"restoring", "loop"}
    BY <2>2 DEF RunsIfAsked
  <2> QED BY <2>1, <2>2
<1>5. PreferenceInv'
  BY DEF RunInv, PreferenceInv
<1> QED BY <1>1, <1>2, <1>3, <1>4, <1>5 DEF RunInv

\* What a command leaves: a refusal is excused, or met a channel that is not open.
LEMMA CommandEffects ==
    /\ Answers => at = "open" /\ excused' = excused
    /\ Refuses => excused' \/ (at # "open" /\ modem.mode = "off")
    /\ Answers \/ Refuses => (excused => excused')
BY Zenon DEF Answers, Refuses

LEMMA RunElsewhere ==
    ASSUME GpsInv, RunInv,
           \/ ModemReturns \/ ReaderEnds \/ onATReaderClosed \/ NiAdds \/ mbm_gps_ni_request
           \/ open_at_channel \/ EngineOn \/ supl_init \/ NmeaLost \/ NotReady \/ gpsctrl_cleanup
           \/ EngineOff \/ DevicesRemoved \/ Signals \/ mbm_agpsril_update_network_state
           \/ gpsctrl_set_supl_server \/ mbm_gps_cleanup \/ CleanupStep \/ SetsFlag
           \/ gpsctrl_set_apn_info
    PROVE  RunInv'
<1>1. CASE ModemReturns
  BY <1>1, RunFrame DEF ModemReturns, RunInv, ReadyWhenConfigured, InSession, Configuring,
      Configured
<1>2. CASE ReaderEnds
  BY <1>2, RunFrame DEF ReaderEnds, RunInv, ReadyWhenConfigured, InSession, Configuring,
      Configured
<1>3. CASE onATReaderClosed
  BY <1>3, RunFrame DEF onATReaderClosed, add_pending_command, RunInv, ReadyWhenConfigured,
      InSession, Configuring, Configured
<1>4. CASE NiAdds
  BY <1>4, RunFrame DEF NiAdds, add_pending_command, RunInv, ReadyWhenConfigured, InSession,
      Configuring, Configured
<1>5. CASE mbm_gps_ni_request
  BY <1>5, RunFrame DEF mbm_gps_ni_request, RunInv, ReadyWhenConfigured, InSession, Configuring,
      Configured
<1>6. CASE open_at_channel
  BY <1>6, RunFrame DEF open_at_channel, RunInv, ReadyWhenConfigured, InSession, Configuring,
      Configured
<1>7. CASE EngineOn
  BY <1>7, RunFrame DEF EngineOn, add_pending_command, RunInv, ReadyWhenConfigured, InSession,
      Configuring, Configured
<1>8. CASE supl_init
  BY <1>8, RunFrame DEF supl_init, Settings, RunInv, ReadyWhenConfigured, InSession, Configuring,
      Configured
<1>9. CASE NmeaLost
  BY <1>9, RunFrame DEF NmeaLost, RunInv, ReadyWhenConfigured, InSession, Configuring, Configured
<1>10. CASE NotReady
  BY <1>10, RunFrame DEF NotReady, RunInv, ReadyWhenConfigured, InSession, Configuring, Configured
<1>11. CASE gpsctrl_cleanup
  BY <1>11, RunFrame DEF gpsctrl_cleanup, RunInv, ReadyWhenConfigured, InSession, Configuring,
      Configured
<1>12. CASE EngineOff
  BY <1>12, RunFrame DEF EngineOff, RunInv, ReadyWhenConfigured, InSession, Configuring,
      Configured
<1>13. CASE DevicesRemoved
  BY <1>13, RunFrame DEF DevicesRemoved, RunInv, ReadyWhenConfigured, InSession, Configuring,
      Configured
<1>14. CASE Signals
  BY <1>14, RunFrame DEF Signals, CleanupMutexFree, RunInv, ReadyWhenConfigured, InSession,
      Configuring, Configured
<1>15. CASE mbm_agpsril_update_network_state
  BY <1>15, RunFrame DEF mbm_agpsril_update_network_state, Calls, RunInv, ReadyWhenConfigured,
      InSession, Configuring, Configured
<1>16. CASE gpsctrl_set_supl_server
  BY <1>16, RunFrame DEF gpsctrl_set_supl_server, Calls, Stores, ServerIsSent, BeingConfigured,
      RunInv, ReadyWhenConfigured, InSession, Configuring, Configured
<1>17. CASE mbm_gps_cleanup
  BY <1>17, RunFrame DEF mbm_gps_cleanup, RunInv, ReadyWhenConfigured, InSession, Configuring,
      Configured
<1>18. CASE CleanupStep
  BY <1>18, RunFrame DEF CleanupStep, add_pending_command, RunInv, ReadyWhenConfigured, InSession,
      Configuring, Configured
<1>19. CASE SetsFlag
  BY <1>19, RunFrame DEF SetsFlag, RunInv, ReadyWhenConfigured, InSession, Configuring, Configured
<1>20. CASE gpsctrl_set_apn_info
  BY <1>20, RunFrame DEF gpsctrl_set_apn_info, Stores, BeingConfigured, RunInv,
      ReadyWhenConfigured, InSession, Configuring, Configured
<1> QED BY <1>1, <1>2, <1>3, <1>4, <1>5, <1>6, <1>7, <1>8, <1>9, <1>10, <1>11, <1>12, <1>13,
    <1>14, <1>15, <1>16, <1>17, <1>18, <1>19, <1>20

\* A command of the configuration leaves the mode of the receiver, and may be refused.
LEMMA ConfigurationRuns ==
    ASSUME GpsInv, RunInv, SuplSends \/ supl_set_server \/ supl_set_apn_info
    PROVE  RunInv'
<1>1. excused => excused'
  BY CommandEffects DEF SuplSends, supl_set_server, supl_set_apn_info
<1>2. modem'.mode = modem.mode
  <2>1. \/ modem' = modem
        \/ \E s \in Settings : \E n : modem' = [modem EXCEPT !.set[s] = n]
    BY DEF SuplSends, supl_set_server, supl_set_apn_info, Settings
  <2>2. modem \in ModemStates
    BY DEF GpsInv, TypeOK, ModemStates
  <2> QED BY <2>1, <2>2 DEF ModemStates
<1>3. CASE SuplSends
  <2>1. /\ mainPc' \in {"server", "restore"} /\ mainPc \in {"apnSends", "serverSends"}
        /\ UNCHANGED <<sessionVars, lockVars, asked, event, scenario, pref_mode, is_ready>>
    BY <1>3 DEF SuplSends
  <2> QED BY <1>1, <1>2, <2>1, RunFrame DEF RunInv, ReadyWhenConfigured, InSession, Configuring,
      Configured
<1>4. CASE supl_set_server \/ supl_set_apn_info
  <2>1. UNCHANGED <<sessionVars, lockVars, asked, event, scenario, pref_mode, is_ready, mainPc, at,
                    nmea>>
    BY <1>4 DEF supl_set_server, supl_set_apn_info
  <2> QED BY <1>1, <1>2, <2>1, RunFrame DEF RunInv, ReadyWhenConfigured
<1> QED BY <1>3, <1>4

LEMMA HandlesCommandRuns ==
    ASSUME GpsInv, RunInv, HandlesCommand
    PROVE  RunInv'
<1>1. \/ UNCHANGED <<mainPc, at, is_ready>>
      \/ mainPc' \in {"lost", "exit"}
  <2>1. Head(cmds) \in Commands
    BY DEF GpsInv, TypeOK, HandlesCommand
  <2> QED BY <2>1 DEF HandlesCommand, Commands
<1>2. /\ mainPc = "loop"
      /\ UNCHANGED <<sessionVars, lockVars, asked, event, scenario, pref_mode, nmea, modem,
                     excused>>
  BY DEF HandlesCommand
<1> QED BY <1>1, <1>2, RunFrame DEF RunInv, ReadyWhenConfigured, InSession, Configuring, Configured

LEMMA gpsctrl_openRuns ==
    ASSUME GpsInv, RunInv, gpsctrl_open
    PROVE  RunInv'
<1>1. excused => excused'
  BY CommandEffects DEF gpsctrl_open
<1>2. /\ mainPc' \in {"engine", "cleanup"}
      /\ UNCHANGED <<sessionVars, lockVars, asked, event, scenario, modem, is_ready, pref_mode>>
  BY DEF gpsctrl_open
<1> QED BY <1>1, <1>2, RunFrame DEF InSession, Configuring, Configured

\* The receiver stops, with the modem or with its SUPL session.
LEMMA ReceiverStopsRuns ==
    ASSUME GpsInv, RunInv, ModemLost \/ SuplFails
    PROVE  RunInv'
<1>1. modem \in ModemStates
  BY DEF GpsInv, TypeOK, ModemStates
<1>2. modem'.mode = "off"
  BY <1>1 DEF ModemLost, SuplFails, ModemStates
<1>3. UNCHANGED <<mainPc, is_ready, sessionVars, lockVars, asked, pref_mode, scenario, excused>>
  BY DEF ModemLost, SuplFails
<1>4. ReadyWhenConfigured' /\ HolderInv' /\ OffUnlessAsked' /\ PreferenceInv'
  BY <1>2, <1>3 DEF RunInv, ReadyWhenConfigured, HolderInv, Wanted, OffUnlessAsked, PreferenceInv
<1>5. CASE ModemLost
  <2>1. at' # "open"
    BY <1>5 DEF ModemLost
  <2> QED BY <1>4, <2>1 DEF RunInv, RunsIfAsked, Broken
<1>6. CASE SuplFails
  <2>1. CASE excused
    BY <1>3, <1>4, <2>1 DEF RunInv, RunsIfAsked, Broken
  <2>2. CASE mainPc \in Configuring \cup Configured /\ ~excused
    <3>1. pref_mode = "supl"
      BY <1>6, <2>2 DEF RunInv, PreferenceInv, SuplFails
    <3>2. PICK e \in Events : event'[e] \in {"failed", "zero"}
      <4>1. event \in [Events -> {"none", "failed", "zero", "holds"}]
        BY DEF GpsInv, TypeOK
      <4> QED BY <1>6, <4>1 DEF SuplFails
    <3>3. Runs'
      BY <1>3, <3>1, <3>2 DEF Runs, FallsBack
    <3>4. UNCHANGED <<at, nmea>> /\ modem.mode # "off"
      BY <1>6 DEF SuplFails
    <3> QED BY <1>3, <1>4, <3>3, <3>4 DEF RunInv, RunsIfAsked, Broken
  <2>3. CASE mainPc \notin Configuring \cup Configured
    BY <1>3, <1>4, <2>3 DEF RunInv, RunsIfAsked, Configured
  <2> QED BY <2>1, <2>2, <2>3
<1> QED BY <1>5, <1>6

\* main_loop is ready, and prefers what the property says: before it restores.
LEMMA GetsReadyRuns ==
    ASSUME GpsInv, RunInv, gpsctrl_set_device_is_ready \/ gpsctrl_set_position_mode
    PROVE  RunInv'
<1>1. CASE gpsctrl_set_device_is_ready
  <2>1. /\ mainPc' = "mode" /\ is_ready' = TRUE
        /\ excused' = (excused /\ modem.mode # "off")
        /\ UNCHANGED <<sessionVars, lockVars, asked, event, pref_mode, scenario, modem>>
    BY <1>1 DEF gpsctrl_set_device_is_ready
  <2>2. OffUnlessAsked'
    BY <2>1, Zenon DEF RunInv, OffUnlessAsked
  <2>3. HolderInv'
    BY <2>1 DEF RunInv, HolderInv, Wanted
  <2> QED BY <2>1, <2>2, <2>3 DEF RunInv, ReadyWhenConfigured, RunsIfAsked, PreferenceInv,
      Configuring, Configured
<1>2. CASE gpsctrl_set_position_mode
  <2>1. /\ mainPc' = "apn" /\ mainPc = "mode" /\ pref_mode' = scenario.pref
        /\ UNCHANGED <<sessionVars, lockVars, asked, event, scenario, modem, excused, is_ready>>
    BY <1>2 DEF gpsctrl_set_position_mode
  <2>2. HolderInv'
    BY <2>1 DEF RunInv, HolderInv, Wanted
  <2> QED BY <2>1, <2>2 DEF RunInv, ReadyWhenConfigured, InSession, OffUnlessAsked, RunsIfAsked,
      PreferenceInv
<1> QED BY <1>1, <1>2

LEMMA RestoresRuns ==
    ASSUME GpsInv, RunInv, Restores
    PROVE  RunInv'
<1>1. /\ mutex = "free" /\ step = "none" /\ mainPc = "restore"
      /\ {"main", "fw", "free"} \cap Events = {}
      /\ UNCHANGED <<is_ready, sessionVars, mode, asked, event, pref_mode, scenario, modem, excused,
                     at, nmea>>
  BY ConstantAssumption DEF GpsInv, MutexDiscipline, Restores
<1>2. \/ Wanted /\ mutex' = "main" /\ step' = "start" /\ mainPc' = "restoring"
      \/ ~Wanted /\ mainPc' = "loop" /\ UNCHANGED <<mutex, step>>
  BY DEF Restores, ShouldRestore, Wanted
<1>3. ReadyWhenConfigured'
  BY <1>1 DEF RunInv, ReadyWhenConfigured, InSession, Configured
<1>4. HolderInv'
  BY <1>1, <1>2 DEF RunInv, HolderInv, Wanted
<1>5. OffUnlessAsked' /\ PreferenceInv'
  BY <1>1, <1>2 DEF RunInv, HolderInv, OffUnlessAsked, PreferenceInv, Configured
<1>6. RunsIfAsked'
  BY <1>1, <1>2 DEF RunInv, HolderInv, RunsIfAsked
<1> QED BY <1>3, <1>4, <1>5, <1>6 DEF RunInv

\* The thread of a report takes the mutex, or drops a report that nobody needs.
LEMMA supl_failRuns ==
    ASSUME GpsInv, RunInv, NEW e \in Events, supl_fail(e)
    PROVE  RunInv'
<1>1. /\ {"main", "fw", "free"} \cap Events = {} /\ (mutex = "free" <=> step = "none")
      /\ event \in [Events -> {"none", "failed", "zero", "holds"}]
      /\ UNCHANGED <<is_ready, sessionVars, mode, asked, pref_mode, scenario, modem, excused,
                     at, nmea, mainPc>>
  BY ConstantAssumption DEF GpsInv, TypeOK, MutexDiscipline, supl_fail
<1>2. CASE mutex = "free" /\ gps_started /\ mutex' = e /\ step' = "mode"
           /\ event' = [event EXCEPT ![e] = "holds"]
  <2>1. Runs'
    BY <1>1, <1>2 DEF Runs, FallsBack
  <2>2. HolderInv' /\ OffUnlessAsked'
    BY <1>1, <1>2 DEF RunInv, HolderInv, Wanted, OffUnlessAsked
  <2> QED BY <1>1, <1>2, <2>1, <2>2 DEF RunInv, ReadyWhenConfigured, RunsIfAsked, PreferenceInv
<1>3. CASE /\ UNCHANGED <<mutex, step>>
           /\ event' = [event EXCEPT ![e] = "none"]
           /\ ~FallsBack(e) \/ (mutex = "free" /\ ~gps_started)
  <2>1. HolderInv' /\ OffUnlessAsked' /\ ReadyWhenConfigured' /\ PreferenceInv'
    BY <1>1, <1>3 DEF RunInv, HolderInv, Wanted, OffUnlessAsked, ReadyWhenConfigured, PreferenceInv
  <2>2. CASE ~FallsBack(e)
    <3>1. \A f \in Events : FallsBack(f) => FallsBack(f)'
      BY <1>1, <1>3, <2>2 DEF FallsBack
    <3>2. Runs => Runs'
      BY <1>1, <3>1 DEF Runs
    <3> QED BY <1>1, <1>3, <2>1, <3>2 DEF RunInv, RunsIfAsked, Broken
  <2>3. CASE mutex = "free" /\ ~gps_started
    BY <1>1, <1>3, <2>1, <2>3 DEF RunInv, RunsIfAsked, Broken
  <2> QED BY <1>3, <2>1, <2>2, <2>3
<1> QED BY <1>1, <1>2, <1>3 DEF supl_fail, FallsBack

\* The framework takes the mutex, or says which mode it prefers: only while it has no session.
LEMMA FrameworkCallsRuns ==
    ASSUME GpsInv, RunInv,
           \/ mbm_gps_set_position_mode
           \/ \E kind \in {"start", "stop"} : LocksToStartOrStop(kind)
    PROVE  RunInv'
<1>1. CASE mbm_gps_set_position_mode
  <2>1. /\ ~asked /\ mutex # "fw" /\ pref_mode' \in {scenario.pref, "standalone"}
        /\ UNCHANGED <<is_ready, sessionVars, lockVars, event, asked, scenario, modem, excused, at,
                       nmea, mainPc>>
    BY <1>1 DEF GpsInv, MutexDiscipline, mbm_gps_set_position_mode, Calls
  <2>2. modem.mode = "off" \/ excused
    BY <2>1 DEF RunInv, OffUnlessAsked
  <2>3. step = "none"
    BY <2>1 DEF GpsInv, TypeOK, MutexDiscipline, RunInv, HolderInv, Wanted, Callers
  <2>4. HolderInv' /\ OffUnlessAsked' /\ ReadyWhenConfigured'
    BY <2>1 DEF RunInv, HolderInv, Wanted, OffUnlessAsked, ReadyWhenConfigured
  <2>5. RunsIfAsked' /\ PreferenceInv'
    BY <2>1, <2>2, <2>3 DEF RunInv, RunsIfAsked, PreferenceInv
  <2> QED BY <2>4, <2>5 DEF RunInv
<1>2. ASSUME NEW kind \in {"start", "stop"}, LocksToStartOrStop(kind) PROVE RunInv'
  <2>1. /\ mutex = "free" /\ mutex' = "fw" /\ step' = kind /\ (kind = "stop" <=> asked)
        /\ "fw" \notin Events
        /\ UNCHANGED <<is_ready, sessionVars, mode, event, asked, pref_mode, scenario, modem,
                       excused, at, nmea, mainPc>>
    BY <1>2, ConstantAssumption DEF LocksToStartOrStop
  <2>2. HolderInv' /\ OffUnlessAsked' /\ ReadyWhenConfigured'
    BY <2>1 DEF RunInv, HolderInv, Wanted, OffUnlessAsked, ReadyWhenConfigured
  <2>3. RunsIfAsked' /\ PreferenceInv'
    BY <2>1 DEF RunInv, RunsIfAsked, PreferenceInv
  <2> QED BY <2>2, <2>3 DEF RunInv
<1> QED BY <1>1, <1>2

\* A start that ends without the receiver: a command was refused, or a channel is gone.
LEMMA FailedStartRuns ==
    ASSUME GpsInv, RunInv, NEW t \in Callers, mutex = t, step \in {"reports", "control"},
           Unlock, Returns(t, FALSE), excused => excused', Broken',
           UNCHANGED <<is_ready, sessionVars, pref_mode, scenario, modem>>
    PROVE  RunInv'
<1>1. /\ {"main", "fw", "free"} \cap Events = {}
      /\ mutex' = "free" /\ step' = "none" /\ mode' = mode
      /\ mainPc' = mainPc \/ (t = "main" /\ mainPc = "restoring" /\ mainPc' = "loop")
  BY ConstantAssumption DEF GpsInv, MutexDiscipline, Unlock, Returns
<1>2. asked' = (IF t = "fw" THEN FALSE ELSE asked)
  BY DEF Returns
<1>3. ReadyWhenConfigured'
  BY <1>1 DEF RunInv, ReadyWhenConfigured, InSession, Configured
<1>4. HolderInv'
  BY <1>1, <1>2 DEF RunInv, HolderInv, Wanted
<1>5. OffUnlessAsked'
  BY <1>1, <1>2 DEF RunInv, HolderInv, OffUnlessAsked, Callers
<1>6. RunsIfAsked'
  BY <1>1 DEF RunsIfAsked
<1>7. PreferenceInv'
  BY <1>1 DEF RunInv, PreferenceInv, Configured
<1> QED BY <1>3, <1>4, <1>5, <1>6, <1>7 DEF RunInv

LEMMA mbm_gps_startRuns ==
    ASSUME GpsInv, RunInv, NEW t \in Callers, mbm_gps_start(t)
    PROVE  RunInv'
<1>1. /\ {"main", "fw", "free"} \cap Events = {} /\ mutex = t /\ step = "start"
      /\ UNCHANGED <<is_ready, gps_started, pref_mode, scenario, modem, excused, at, nmea>>
  BY ConstantAssumption DEF mbm_gps_start
<1>2. CASE is_ready
  <2>1. step' = "mode" /\ UNCHANGED <<gps_should_start, mutex, mode, mainPc, fwPc, asked, event>>
    BY <1>2 DEF mbm_gps_start, NoReturn
  <2>2. HolderInv' /\ OffUnlessAsked' /\ ReadyWhenConfigured'
    BY <1>1, <2>1 DEF RunInv, HolderInv, Wanted, OffUnlessAsked, ReadyWhenConfigured
  <2>3. RunsIfAsked' /\ PreferenceInv'
    BY <1>1, <2>1 DEF RunInv, RunsIfAsked, PreferenceInv, Broken, Runs, FallsBack
  <2> QED BY <2>2, <2>3 DEF RunInv
<1>3. CASE ~is_ready
  <2>1. t = "fw"
    <3>1. mainPc # "restoring"
      BY <1>3 DEF RunInv, ReadyWhenConfigured, InSession, Configured
    <3>2. t # "main" /\ t \notin Events
      BY <1>1, <3>1 DEF GpsInv, MutexDiscipline, RunInv, HolderInv
    <3> QED BY <3>2 DEF Callers
  <2>2. /\ mutex' = "free" /\ step' = "none" /\ mode' = mode /\ gps_should_start' = TRUE
        /\ mainPc' = mainPc /\ asked' = TRUE
    BY <1>3, <2>1 DEF mbm_gps_start, Unlock, Returns
  <2>3. mainPc \notin InSession
    BY <1>3 DEF RunInv, ReadyWhenConfigured
  <2>4. HolderInv' /\ OffUnlessAsked' /\ ReadyWhenConfigured'
    BY <1>1, <2>2, <2>3 DEF HolderInv, Wanted, OffUnlessAsked, ReadyWhenConfigured
  <2>5. RunsIfAsked' /\ PreferenceInv'
    BY <1>1, <2>2, <2>3 DEF RunInv, RunsIfAsked, PreferenceInv, InSession, Configured
  <2> QED BY <2>4, <2>5 DEF RunInv
<1> QED BY <1>2, <1>3

LEMMA gpsctrl_startRuns ==
    ASSUME GpsInv, RunInv, NEW t \in Callers, gpsctrl_start(t)
    PROVE  RunInv'
<1>1. /\ {"main", "fw", "free"} \cap Events = {} /\ mutex = t /\ step = "mode" /\ step' = "reports"
      /\ UNCHANGED <<is_ready, sessionVars, pref_mode, scenario, modem, excused, at, nmea, mutex,
                     mainPc, fwPc, asked, event>>
  BY ConstantAssumption DEF gpsctrl_start, NoReturn
<1>2. mode' = "supl" => pref_mode = "supl"
  BY DEF gpsctrl_start, ModeOfStart
<1>3. HolderInv' /\ OffUnlessAsked' /\ ReadyWhenConfigured'
  BY <1>1 DEF RunInv, HolderInv, Wanted, OffUnlessAsked, ReadyWhenConfigured
<1>4. RunsIfAsked'
  BY <1>1 DEF RunInv, RunsIfAsked, Broken, Runs, FallsBack
<1>5. PreferenceInv'
  BY <1>1, <1>2 DEF RunInv, PreferenceInv
<1> QED BY <1>3, <1>4, <1>5 DEF RunInv

LEMMA StartReportsRuns ==
    ASSUME GpsInv, RunInv, NEW t \in Callers, StartReports(t)
    PROVE  RunInv'
<1>1. /\ {"main", "fw", "free"} \cap Events = {} /\ mutex = t /\ step = "reports"
      /\ UNCHANGED <<is_ready, sessionVars, pref_mode, scenario, at, nmea>>
  BY ConstantAssumption DEF StartReports
<1>2. CASE Unlock /\ Returns(t, FALSE) /\ UNCHANGED modem /\ nmea = "open" /\ Refuses
  <2>1. (excused => excused') /\ Broken'
    BY <1>1, <1>2, CommandEffects DEF Broken
  <2> QED BY <1>1, <1>2, <2>1, FailedStartRuns
<1>3. CASE Unlock /\ Returns(t, FALSE) /\ UNCHANGED <<modem, excused>> /\ nmea # "open"
  <2>1. Broken'
    BY <1>1, <1>3 DEF Broken
  <2> QED BY <1>1, <1>3, <2>1, FailedStartRuns
<1>4. CASE /\ step' = "control" /\ NoReturn /\ UNCHANGED <<mutex, mode, excused>>
           /\ modem' \in {modem, [modem EXCEPT !.stat = TRUE]}
  <2>1. modem'.mode = modem.mode
    BY <1>4 DEF GpsInv, TypeOK
  <2>2. HolderInv' /\ OffUnlessAsked' /\ ReadyWhenConfigured'
    BY <1>1, <1>4, <2>1 DEF RunInv, HolderInv, Wanted, OffUnlessAsked, ReadyWhenConfigured, NoReturn
  <2>3. RunsIfAsked' /\ PreferenceInv'
    BY <1>1, <1>4, <2>1 DEF RunInv, RunsIfAsked, PreferenceInv, Broken, Runs, FallsBack, NoReturn
  <2> QED BY <2>2, <2>3 DEF RunInv
<1> QED BY <1>2, <1>3, <1>4 DEF StartReports, Answers

LEMMA StartControlRuns ==
    ASSUME GpsInv, RunInv, NEW t \in Callers, StartControl(t)
    PROVE  RunInv'
<1>1. /\ {"main", "fw", "free"} \cap Events = {} /\ mutex = t /\ step = "control"
      /\ UNCHANGED <<is_ready, sessionVars, pref_mode, scenario, at, nmea>>
  BY ConstantAssumption DEF StartControl
<1>2. CASE Refuses /\ Unlock /\ Returns(t, FALSE) /\ UNCHANGED modem
  <2>1. (excused => excused') /\ Broken'
    BY <1>1, <1>2, CommandEffects DEF Broken
  <2> QED BY <1>1, <1>2, <2>1, FailedStartRuns
<1>3. CASE /\ Answers /\ modem' = [modem EXCEPT !.mode = mode]
           /\ IF t \in Events THEN Unlock /\ Returns(t, TRUE)
              ELSE step' = "begin" /\ NoReturn /\ UNCHANGED <<mutex, mode>>
  <2>1. modem'.mode = mode /\ mode # "off" /\ excused' = excused
    BY <1>3 DEF GpsInv, TypeOK, Modes, Answers
  <2>2. Runs'
    BY <2>1 DEF Runs
  <2>3. CASE t \in Events /\ Unlock /\ Returns(t, TRUE)
    <3>1. /\ mutex' = "free" /\ step' = "none" /\ mode' = mode /\ UNCHANGED <<mainPc, fwPc, asked>>
          /\ gps_started /\ asked
      BY <1>1, <2>3 DEF RunInv, HolderInv, Wanted, Unlock, Returns
    <3>2. HolderInv' /\ OffUnlessAsked' /\ ReadyWhenConfigured'
      BY <1>1, <3>1 DEF RunInv, HolderInv, Wanted, OffUnlessAsked, ReadyWhenConfigured
    <3>3. RunsIfAsked' /\ PreferenceInv'
      BY <1>1, <2>1, <2>2, <3>1 DEF RunInv, RunsIfAsked, PreferenceInv
    <3> QED BY <3>2, <3>3 DEF RunInv
  <2>4. CASE t \notin Events /\ step' = "begin" /\ NoReturn /\ UNCHANGED <<mutex, mode>>
    <3>1. UNCHANGED <<mainPc, fwPc, asked>> /\ t \in {"main", "fw"}
      BY <2>4 DEF NoReturn, Callers
    <3>2. HolderInv' /\ OffUnlessAsked' /\ ReadyWhenConfigured'
      BY <1>1, <2>4, <3>1 DEF RunInv, HolderInv, Wanted, OffUnlessAsked, ReadyWhenConfigured
    <3>3. RunsIfAsked'
      BY <1>1, <2>2, <2>4, <3>1 DEF GpsInv, MutexDiscipline, RunInv, RunsIfAsked
    <3>4. PreferenceInv'
      BY <1>1, <2>1, <2>4, <3>1 DEF RunInv, PreferenceInv
    <3> QED BY <3>2, <3>3, <3>4 DEF RunInv
  <2> QED BY <1>3, <2>3, <2>4
<1> QED BY <1>2, <1>3 DEF StartControl

LEMMA SessionBeginsRuns ==
    ASSUME GpsInv, RunInv, NEW t \in Callers, SessionBegins(t)
    PROVE  RunInv'
<1>1. /\ {"main", "fw", "free"} \cap Events = {} /\ mutex = t /\ step = "begin" /\ step' = "tell"
      /\ gps_started' = TRUE
      /\ UNCHANGED <<is_ready, gps_should_start, pref_mode, scenario, modem, excused, at, nmea,
                     mutex, mode, mainPc, fwPc, asked, event>>
  BY ConstantAssumption DEF SessionBegins, NoReturn
<1>2. t \in {"main", "fw"}
  BY <1>1 DEF RunInv, HolderInv, Callers
<1>3. HolderInv' /\ OffUnlessAsked' /\ ReadyWhenConfigured'
  BY <1>1, <1>2 DEF RunInv, HolderInv, Wanted, OffUnlessAsked, ReadyWhenConfigured
<1>4. RunsIfAsked'
  BY <1>1, <1>2 DEF GpsInv, MutexDiscipline, RunInv, RunsIfAsked, Broken, Runs, FallsBack
<1>5. PreferenceInv'
  BY <1>1 DEF RunInv, PreferenceInv
<1> QED BY <1>3, <1>4, <1>5 DEF RunInv

\* The end of a start, where the receiver runs, and of a stop, where it is off.
LEMMA TellsRuns ==
    ASSUME GpsInv, RunInv, NEW t \in Callers, Tells(t)
    PROVE  RunInv'
<1>1. /\ {"main", "fw", "free"} \cap Events = {} /\ mutex = t /\ step \in {"tell", "tellEnd"}
      /\ mutex' = "free" /\ step' = "none" /\ mode' = mode
      /\ UNCHANGED <<is_ready, sessionVars, pref_mode, scenario, modem, excused, at, nmea>>
  BY ConstantAssumption DEF Tells, Unlock
<1>2. t \in {"main", "fw"}
  BY <1>1 DEF RunInv, HolderInv, Callers
<1>3. event' = event
  BY <1>1, <1>2 DEF GpsInv, TypeOK, Tells, Returns
<1>4. PreferenceInv' /\ ReadyWhenConfigured'
  BY <1>1, <1>2 DEF GpsInv, MutexDiscipline, RunInv, PreferenceInv, ReadyWhenConfigured, InSession,
      Configured, Tells, Returns
<1>5. CASE step = "tell"
  <2>1. gps_started /\ asked'
    BY <1>1, <1>2, <1>5 DEF RunInv, HolderInv, Wanted, Tells, Returns
  <2>2. HolderInv' /\ OffUnlessAsked'
    BY <1>1, <2>1 DEF HolderInv, Wanted, OffUnlessAsked
  <2>3. RunsIfAsked'
    <3>1. mainPc' = "loop" => mainPc \in {"restoring", "loop"}
      BY <1>1, <1>2 DEF GpsInv, MutexDiscipline, Tells, Returns
    <3> QED BY <1>1, <1>3, <1>5, <2>1, <3>1 DEF RunInv, RunsIfAsked, Broken, Runs, FallsBack
  <2> QED BY <1>4, <2>2, <2>3 DEF RunInv
<1>6. CASE step = "tellEnd"
  <2>1. t = "fw" /\ ~Wanted /\ ~asked' /\ mainPc' = mainPc
    BY <1>1, <1>2, <1>6 DEF RunInv, HolderInv, Tells, Returns
  <2>2. HolderInv' /\ OffUnlessAsked' /\ RunsIfAsked'
    BY <1>1, <1>6, <2>1 DEF RunInv, HolderInv, Wanted, OffUnlessAsked, RunsIfAsked
  <2> QED BY <1>4, <2>2 DEF RunInv
<1> QED BY <1>1, <1>5, <1>6

\* A stop: the receiver is off at the end, or it is excused that it is not.
LEMMA StopRuns ==
    ASSUME GpsInv, RunInv, mbm_gps_stop \/ gpsctrl_stop \/ SessionEnds
    PROVE  RunInv'
<1>1. /\ "fw" \notin Events /\ mutex = "fw"
      /\ step \in {"stop", "stopReports", "stopControl", "end"}
      /\ step' \in {"stopReports", "stopControl", "end", "tellEnd"}
      /\ UNCHANGED <<is_ready, pref_mode, scenario, mutex, mode, mainPc, fwPc, asked, event>>
  BY ConstantAssumption DEF mbm_gps_stop, gpsctrl_stop, SessionEnds, NoReturn
<1>2. modem'.mode \in {modem.mode, "off"} /\ (excused => excused')
  <2>1. modem' \in {modem, [modem EXCEPT !.stat = FALSE], [modem EXCEPT !.mode = "off"]}
    BY DEF mbm_gps_stop, gpsctrl_stop, SessionEnds
  <2>2. modem'.mode \in {modem.mode, "off"}
    BY <2>1 DEF GpsInv, TypeOK
  <2>3. excused => excused'
    <3>1. CASE mbm_gps_stop
      BY <3>1, Zenon DEF mbm_gps_stop
    <3>2. CASE gpsctrl_stop
      BY <3>2, CommandEffects DEF gpsctrl_stop
    <3>3. CASE SessionEnds
      BY <3>3 DEF SessionEnds
    <3> QED BY <3>1, <3>2, <3>3
  <2> QED BY <2>2, <2>3
<1>3. HolderInv'
  BY <1>1 DEF RunInv, HolderInv, Wanted, mbm_gps_stop, gpsctrl_stop, SessionEnds
<1>4. OffUnlessAsked'
  <2>1. CASE step' \in {"stopReports", "stopControl"}
    BY <1>1, <2>1 DEF OffUnlessAsked
  <2>2. CASE mbm_gps_stop /\ ~is_ready
    <3>1. excused' \/ modem'.mode = "off"
      BY <2>2, Zenon DEF mbm_gps_stop
    <3> QED BY <3>1 DEF OffUnlessAsked
  <2>3. CASE gpsctrl_stop /\ step = "stopControl"
    <3>1. CASE Refuses /\ UNCHANGED modem
      BY <3>1, CommandEffects DEF OffUnlessAsked
    <3>2. CASE modem' = [modem EXCEPT !.mode = "off"]
      BY <3>2 DEF OffUnlessAsked, GpsInv, TypeOK
    <3> QED BY <2>3, <3>1, <3>2 DEF gpsctrl_stop
  <2>4. CASE SessionEnds
    BY <1>1, <2>4 DEF RunInv, OffUnlessAsked, SessionEnds
  <2> QED BY <2>1, <2>2, <2>3, <2>4 DEF mbm_gps_stop, gpsctrl_stop
<1>5. ReadyWhenConfigured' /\ RunsIfAsked'
  BY <1>1 DEF RunInv, ReadyWhenConfigured, RunsIfAsked
<1>6. PreferenceInv'
  BY <1>1, <1>2 DEF RunInv, PreferenceInv
<1> QED BY <1>3, <1>4, <1>5, <1>6 DEF RunInv

-----------------------------------------------------------------------------
LEMMA InitRun == Init => RunInv
<1> SUFFICES ASSUME Init PROVE RunInv
  OBVIOUS
<1>1. "free" \notin Events
  BY ConstantAssumption
<1> QED BY <1>1 DEF Init, RunInv, ReadyWhenConfigured, InSession, Configuring, Configured,
    HolderInv, Wanted, OffUnlessAsked, RunsIfAsked, PreferenceInv

LEMMA NextRun ==
    ASSUME GpsInv, RunInv, [Next]_vars
    PROVE  RunInv'
<1>1. CASE UNCHANGED vars
  BY <1>1, RunFrame DEF vars, RunInv, ReadyWhenConfigured
<1>2. CASE ModemStep \/ ReaderStep \/ mbm_gps_ni_request
  BY <1>2, RunElsewhere, ReceiverStopsRuns DEF ModemStep, ReaderStep
<1>3. CASE \E t \in Callers : SessionStep(t)
  BY <1>3, mbm_gps_startRuns, gpsctrl_startRuns, StartReportsRuns, StartControlRuns,
      SessionBeginsRuns, TellsRuns DEF SessionStep
<1>4. CASE \E e \in Events : supl_fail(e)
  BY <1>4, supl_failRuns
<1>5. CASE MainStep
  BY <1>5, RunElsewhere, gpsctrl_openRuns, GetsReadyRuns, ConfigurationRuns, RestoresRuns,
      HandlesCommandRuns DEF MainStep
<1>6. CASE FrameworkCalls
  BY <1>6, RunElsewhere, FrameworkCallsRuns DEF FrameworkCalls
<1>7. CASE FrameworkStep
  BY <1>7, RunElsewhere, StopRuns, ConfigurationRuns DEF FrameworkStep
<1>8. CASE ServiceStep \/ supl_set_apn_info
  BY <1>8, RunElsewhere, ConfigurationRuns DEF ServiceStep
<1> QED BY <1>1, <1>2, <1>3, <1>4, <1>5, <1>6, <1>7, <1>8 DEF Next

LEMMA RunInvariant == Spec => []RunInv
<1>1. Init => RunInv
  BY InitRun
<1>2. GpsInv /\ RunInv /\ [Next]_vars => RunInv'
  BY NextRun
<1> QED BY <1>1, <1>2, SessionsCorrect, PTL DEF Spec

\* Between the calls of the framework the receiver runs exactly if a session is wanted, however
\* starts, stops, SUPL failures with their threads, losses of the modem and main_loop interleave:
\* unless a command was refused, or a stop met a modem that runs while its channel is reopened.
THEOREM ReceiverFollowsFramework == Spec => []RunsWhenAsked
<1>1. GpsInv /\ RunInv => RunsWhenAsked
  <2> SUFFICES ASSUME GpsInv, RunInv, Quiet, ~excused
               PROVE  asked <=> modem.mode # "off"
    BY DEF RunsWhenAsked
  <2>1. mutex # "fw" /\ \A e \in Events : ~FallsBack(e)
    BY DEF Quiet, FallsBack
  <2>2. modem.mode # "off" => asked
    BY <2>1 DEF RunInv, OffUnlessAsked
  <2>3. asked => modem.mode # "off"
    BY <2>1 DEF RunInv, RunsIfAsked, Runs, Broken, Quiet
  <2> QED BY <2>2, <2>3
<1> QED BY <1>1, SessionsCorrect, RunInvariant, PTL

-----------------------------------------------------------------------------
(***************************************************************************)
(* The configuration.  From the place in main_loop where a value was sent, *)
(* the modem has it, or its setter is about to send the one it stored, or  *)
(* the session with the modem does not count (Unsettled).                  *)
(***************************************************************************)
Unsettled == excused \/ raced \/ at # "open"

\* What is about to be sent is what was set last, unless main_loop was overtaken.
SendsTheLast ==
    /\ fwPc = "sends" => fwArg = supl_config["server"]
    /\ servicePc = "sends" => serviceArg = supl_config["apn"]
    /\ mainPc = "apnSends" => raced \/ arg = supl_config["apn"]
    /\ mainPc = "serverSends" => raced \/ arg = supl_config["server"]

HasTheLast ==
    /\ mainPc \in {"server", "serverSends"} \cup Configured =>
          Unsettled \/ servicePc = "sends" \/ modem.set["apn"] = supl_config["apn"]
    /\ mainPc \in Configured =>
          Unsettled \/ fwPc = "sends" \/ modem.set["server"] = supl_config["server"]

\* The APN is sent by its setter only once SUPL was initialized.
SuplInitialized == mainPc \in Configured => excused \/ at # "open" \/ supl_initialized

ConfigInv == SendsTheLast /\ HasTheLast /\ SuplInitialized

LEMMA ConfigFrame ==
    ASSUME ConfigInv, UNCHANGED <<supl_config, fwArg, serviceVars, arg>>,
           modem'.set = modem.set, fwPc' = "sends" <=> fwPc = "sends",
           supl_initialized => supl_initialized',
           mainPc' \in Configuring \cup Configured =>
               /\ excused => excused'
               /\ raced => raced'
               /\ at' = "open" => at = "open",
           mainPc' \in {"apnSends", "server", "serverSends"} => mainPc' = mainPc,
           mainPc' \in Configured => mainPc \in Configured
    PROVE  ConfigInv'
<1>1. SendsTheLast'
  BY DEF ConfigInv, SendsTheLast, Configuring
<1>2. HasTheLast' /\ SuplInitialized'
  BY DEF ConfigInv, HasTheLast, SuplInitialized, Unsettled, Configuring
<1> QED BY <1>1, <1>2 DEF ConfigInv

LEMMA ConfigElsewhere ==
    ASSUME GpsInv, ConfigInv,
           \/ ReaderEnds \/ onATReaderClosed \/ NiAdds \/ mbm_gps_ni_request \/ open_at_channel
           \/ EngineOn \/ gpsctrl_set_device_is_ready \/ gpsctrl_set_position_mode \/ Restores
           \/ NmeaLost \/ NotReady \/ gpsctrl_cleanup \/ EngineOff \/ DevicesRemoved \/ Signals
           \/ mbm_gps_set_position_mode \/ mbm_agpsril_update_network_state \/ mbm_gps_cleanup
           \/ SessionEnds \/ CleanupStep \/ SetsFlag
           \/ \E t \in Callers : gpsctrl_start(t)
           \/ \E t \in Callers : SessionBegins(t)
           \/ \E t \in Callers : Tells(t)
           \/ \E e \in Events : supl_fail(e)
           \/ \E kind \in {"start", "stop"} : LocksToStartOrStop(kind)
    PROVE  ConfigInv'
<1>1. CASE ReaderEnds
  BY <1>1, ConfigFrame DEF ReaderEnds, Configuring, Configured
<1>2. CASE onATReaderClosed
  BY <1>2, ConfigFrame DEF onATReaderClosed, add_pending_command, Configuring, Configured
<1>3. CASE NiAdds
  BY <1>3, ConfigFrame DEF NiAdds, add_pending_command, Configuring, Configured
<1>4. CASE mbm_gps_ni_request
  BY <1>4, ConfigFrame DEF mbm_gps_ni_request, Configuring, Configured
<1>5. CASE \E t \in Callers : gpsctrl_start(t)
  BY <1>5, ConfigFrame DEF gpsctrl_start, ModeOfStart, NoReturn, GpsInv, MutexDiscipline,
      Configuring, Configured
<1>6. CASE \E t \in Callers : SessionBegins(t)
  BY <1>6, ConfigFrame DEF SessionBegins, NoReturn, GpsInv, MutexDiscipline, Configuring,
      Configured
<1>7. CASE \E t \in Callers : Tells(t)
  BY <1>7, ConfigFrame DEF Tells, Unlock, Returns, add_pending_command, GpsInv, MutexDiscipline,
      Configuring, Configured
<1>8. CASE \E e \in Events : supl_fail(e)
  BY <1>8, ConfigFrame DEF supl_fail, Configuring, Configured
<1>9. CASE open_at_channel
  BY <1>9, ConfigFrame DEF open_at_channel, Configuring, Configured
<1>10. CASE EngineOn
  BY <1>10, ConfigFrame DEF EngineOn, add_pending_command, Configuring, Configured
<1>11. CASE gpsctrl_set_device_is_ready
  BY <1>11, ConfigFrame DEF gpsctrl_set_device_is_ready, Configuring, Configured
<1>12. CASE gpsctrl_set_position_mode
  BY <1>12, ConfigFrame DEF gpsctrl_set_position_mode, Configuring, Configured
<1>13. CASE Restores
  BY <1>13, ConfigFrame DEF Restores, ShouldRestore, Configuring, Configured
<1>14. CASE NmeaLost
  BY <1>14, ConfigFrame DEF NmeaLost, Configuring, Configured
<1>15. CASE NotReady
  BY <1>15, ConfigFrame DEF NotReady, Configuring, Configured
<1>16. CASE gpsctrl_cleanup
  BY <1>16, ConfigFrame DEF gpsctrl_cleanup, Configuring, Configured
<1>17. CASE EngineOff
  BY <1>17, ConfigFrame DEF EngineOff, Configuring, Configured
<1>18. CASE DevicesRemoved
  BY <1>18, ConfigFrame DEF DevicesRemoved, Configuring, Configured
<1>19. CASE Signals
  BY <1>19, ConfigFrame DEF Signals, CleanupMutexFree, Configuring, Configured
<1>20. CASE \E kind \in {"start", "stop"} : LocksToStartOrStop(kind)
  BY <1>20, ConfigFrame DEF LocksToStartOrStop, Calls, GpsInv, MutexDiscipline, Configuring,
      Configured
<1>21. CASE mbm_gps_set_position_mode
  BY <1>21, ConfigFrame DEF mbm_gps_set_position_mode, Calls, Configuring, Configured
<1>22. CASE mbm_agpsril_update_network_state
  BY <1>22, ConfigFrame DEF mbm_agpsril_update_network_state, Calls, Configuring, Configured
<1>23. CASE mbm_gps_cleanup
  BY <1>23, ConfigFrame DEF mbm_gps_cleanup, Configuring, Configured
<1>24. CASE SessionEnds
  BY <1>24, ConfigFrame DEF SessionEnds, NoReturn, GpsInv, MutexDiscipline, Configuring,
      Configured
<1>25. CASE CleanupStep
  BY <1>25, ConfigFrame DEF CleanupStep, add_pending_command, Configuring, Configured
<1>26. CASE SetsFlag
  BY <1>26, ConfigFrame DEF SetsFlag, Configuring, Configured
<1> QED BY <1>1, <1>2, <1>3, <1>4, <1>5, <1>6, <1>7, <1>8, <1>9, <1>10, <1>11, <1>12, <1>13,
    <1>14, <1>15, <1>16, <1>17, <1>18, <1>19, <1>20, <1>21, <1>22, <1>23, <1>24, <1>25, <1>26

SendsToStart(t) == mbm_gps_start(t) \/ StartReports(t) \/ StartControl(t)

\* What changes another part of the modem, or sends a command of a session.
LEMMA CommandsConfig ==
    ASSUME GpsInv, ConfigInv,
           \/ ModemReturns \/ SuplFails \/ gpsctrl_open \/ mbm_gps_stop \/ gpsctrl_stop
           \/ \E t \in Callers : SendsToStart(t)
    PROVE  ConfigInv'
<1>1. modem'.set = modem.set
  <2>1. \/ modem' = modem
        \/ modem' = [modem EXCEPT !.up = TRUE]
        \/ \E m : modem' = [modem EXCEPT !.mode = m]
        \/ \E b : modem' = [modem EXCEPT !.stat = b]
    BY DEF ModemReturns, SuplFails, gpsctrl_open, mbm_gps_stop, gpsctrl_stop, SendsToStart,
        mbm_gps_start, StartReports, StartControl
  <2> QED BY <2>1 DEF GpsInv, TypeOK
<1>2. excused => excused'
  <2>1. CASE mbm_gps_stop
    BY <2>1, Zenon DEF mbm_gps_stop
  <2>2. CASE gpsctrl_open \/ gpsctrl_stop \/ \E t \in Callers : SendsToStart(t)
    BY <2>2, CommandEffects DEF gpsctrl_open, gpsctrl_stop, SendsToStart,
        mbm_gps_start, StartReports, StartControl
  <2> QED BY <2>1, <2>2 DEF ModemReturns, SuplFails
<1>3. UNCHANGED <<supl_config, fwArg, serviceVars, arg, raced, at, supl_initialized>>
  BY DEF ModemReturns, SuplFails, gpsctrl_open, mbm_gps_stop, gpsctrl_stop, SendsToStart,
        mbm_gps_start, StartReports, StartControl
<1>4. (fwPc' = "sends" <=> fwPc = "sends") /\ (mainPc' \in Configured => mainPc \in Configured)
      /\ (mainPc' \in {"apnSends", "server", "serverSends"} => mainPc' = mainPc)
  <2>1. CASE ModemReturns \/ SuplFails \/ gpsctrl_open \/ mbm_gps_stop \/ gpsctrl_stop
    BY <2>1 DEF ModemReturns, SuplFails, gpsctrl_open, mbm_gps_stop, gpsctrl_stop, NoReturn,
        Configured
  <2>2. ASSUME NEW t \in Callers, SendsToStart(t)
        PROVE  /\ mutex = t
               /\ fwPc' = fwPc \/ (t = "fw" /\ fwPc' = "idle")
               /\ mainPc' = mainPc \/ (t = "main" /\ mainPc' = "loop")
    BY <2>2 DEF SendsToStart, mbm_gps_start, StartReports, StartControl, NoReturn, Returns
  <2> QED BY <2>1, <2>2 DEF GpsInv, MutexDiscipline, Configured
<1> QED BY <1>1, <1>2, <1>3, <1>4, ConfigFrame

LEMMA ModemLostConfig ==
    ASSUME GpsInv, ConfigInv, ModemLost
    PROVE  ConfigInv'
<1>1. at' # "open"
  BY DEF ModemLost
<1> QED BY <1>1 DEF ModemLost, ConfigInv, SendsTheLast, HasTheLast, SuplInitialized, Unsettled

LEMMA HandlesCommandConfig ==
    ASSUME GpsInv, ConfigInv, HandlesCommand
    PROVE  ConfigInv'
<1>1. \/ UNCHANGED <<mainPc, at>>
      \/ mainPc' \in {"lost", "exit"}
  <2>1. Head(cmds) \in Commands
    BY DEF GpsInv, TypeOK, HandlesCommand
  <2> QED BY <2>1 DEF HandlesCommand, Commands
<1> QED BY <1>1, ConfigFrame DEF HandlesCommand, Configuring, Configured

LEMMA supl_initConfig ==
    ASSUME GpsInv, ConfigInv, supl_init
    PROVE  ConfigInv'
<1>1. /\ \/ mainPc = "apn" /\ mainPc' = "apnSends"
         \/ mainPc = "server" /\ mainPc' = "serverSends"
      /\ arg' = supl_config[mainPc]
      /\ UNCHANGED <<supl_config, fwPc, fwArg, serviceVars, modem, excused, raced, at>>
  BY DEF supl_init, Settings
<1> QED BY <1>1 DEF ConfigInv, SendsTheLast, HasTheLast, SuplInitialized, Unsettled, Configured

\* main_loop sends what it read; a setter that overtook it marked the race.
LEMMA SuplSendsConfig ==
    ASSUME GpsInv, ConfigInv, SuplSends
    PROVE  ConfigInv'
<1>1. /\ UNCHANGED <<supl_config, fwPc, fwArg, serviceVars, raced, at>>
      /\ mainPc \in {"apnSends", "serverSends"} /\ (excused => excused')
      /\ modem \in ModemStates
  BY CommandEffects DEF GpsInv, TypeOK, ModemStates, SuplSends
<1>2. CASE Refuses /\ mainPc' = "restore" /\ UNCHANGED <<modem, supl_initialized>>
  <2>1. excused' \/ at' # "open"
    BY <1>1, <1>2, CommandEffects
  <2> QED BY <1>1, <1>2, <2>1 DEF ConfigInv, SendsTheLast, HasTheLast, SuplInitialized, Unsettled
<1>3. CASE /\ mainPc = "apnSends" /\ mainPc' = "server" /\ excused' = excused
           /\ modem' = [modem EXCEPT !.set["apn"] = arg]
  <2>1. modem'.set["apn"] = arg
    BY <1>1, <1>3 DEF ModemStates, Settings
  <2> QED BY <1>1, <1>3, <2>1 DEF ConfigInv, SendsTheLast, HasTheLast, SuplInitialized, Unsettled,
      Configured
<1>4. CASE /\ mainPc = "serverSends" /\ mainPc' = "restore" /\ excused' = excused
           /\ modem' = [modem EXCEPT !.set["server"] = arg] /\ supl_initialized'
  <2>1. modem'.set["server"] = arg /\ modem'.set["apn"] = modem.set["apn"]
    BY <1>1, <1>4 DEF ModemStates, Settings
  <2> QED BY <1>1, <1>4, <2>1 DEF ConfigInv, SendsTheLast, HasTheLast, SuplInitialized, Unsettled
<1>5. \/ Refuses /\ mainPc' = "restore" /\ UNCHANGED <<modem, supl_initialized>>
      \/ /\ mainPc = "apnSends" /\ mainPc' = "server" /\ excused' = excused
         /\ modem' = [modem EXCEPT !.set["apn"] = arg]
      \/ /\ mainPc = "serverSends" /\ mainPc' = "restore" /\ excused' = excused
         /\ modem' = [modem EXCEPT !.set["server"] = arg] /\ supl_initialized'
  BY DEF SuplSends, Answers
<1> QED BY <1>2, <1>3, <1>4, <1>5

\* A setter stores the value; while main_loop has its session configured, it also sends it.
LEMMA StoresConfig ==
    ASSUME GpsInv, ReadyWhenConfigured, ConfigInv,
           gpsctrl_set_supl_server \/ gpsctrl_set_apn_info
    PROVE  ConfigInv'
<1>1. supl_config \in [Settings -> Nat] /\ "apn" \in Settings /\ "server" \in Settings
  BY DEF GpsInv, TypeOK, Settings
<1>2. /\ UNCHANGED <<mainPc, arg, modem, excused, at, supl_initialized, is_ready>>
      /\ raced => raced'
      /\ mainPc \in Configuring \cup {"mode"} => raced'
  <2>1. raced' = (raced \/ BeingConfigured)
    BY DEF gpsctrl_set_supl_server, gpsctrl_set_apn_info, Stores
  <2>2. mainPc \in Configuring \cup {"mode"} => BeingConfigured
    BY DEF Configuring, BeingConfigured
  <2>3. (raced => raced') /\ (BeingConfigured => raced')
    BY <2>1, Zenon
  <2> QED BY <2>2, <2>3 DEF gpsctrl_set_supl_server, gpsctrl_set_apn_info
<1>3. mainPc \in Configured => is_ready
  BY DEF ReadyWhenConfigured, InSession
<1>4. CASE gpsctrl_set_supl_server
  <2>1. /\ supl_config' = [supl_config EXCEPT !["server"] = @ + 1]
        /\ fwArg' = supl_config'["server"]
        /\ fwPc' = (IF is_ready THEN "sends" ELSE "idle") /\ UNCHANGED serviceVars
    BY <1>4 DEF gpsctrl_set_supl_server, Stores, ServerIsSent
  <2>2. supl_config'["apn"] = supl_config["apn"]
    BY <1>1, <2>1
  <2>3. SendsTheLast'
    BY <1>2, <2>1, <2>2 DEF ConfigInv, SendsTheLast, Configuring
  <2>4. HasTheLast'
    BY <1>2, <1>3, <2>1, <2>2 DEF ConfigInv, HasTheLast, Unsettled
  <2>5. SuplInitialized'
    BY <1>2 DEF ConfigInv, SuplInitialized
  <2> QED BY <2>3, <2>4, <2>5 DEF ConfigInv
<1>5. CASE gpsctrl_set_apn_info
  <2>1. /\ supl_config' = [supl_config EXCEPT !["apn"] = @ + 1]
        /\ serviceArg' = supl_config'["apn"]
        /\ servicePc' = (IF supl_initialized /\ is_ready THEN "sends" ELSE "idle")
        /\ UNCHANGED <<fwPc, fwArg>>
    BY <1>5 DEF gpsctrl_set_apn_info, Stores
  <2>2. supl_config'["server"] = supl_config["server"]
    BY <1>1, <2>1
  <2>3. SendsTheLast'
    BY <1>2, <2>1, <2>2 DEF ConfigInv, SendsTheLast, Configuring
  <2>4. HasTheLast'
    <3>1. CASE mainPc \in Configured
      BY <1>2, <1>3, <2>1, <2>2, <3>1 DEF ConfigInv, HasTheLast, SuplInitialized, Unsettled
    <3>2. CASE mainPc \notin Configured
      BY <1>2, <3>2 DEF HasTheLast, Unsettled, Configuring
    <3> QED BY <3>1, <3>2
  <2>5. SuplInitialized'
    BY <1>2 DEF ConfigInv, SuplInitialized
  <2> QED BY <2>3, <2>4, <2>5 DEF ConfigInv
<1> QED BY <1>4, <1>5

\* The setter's command: it carries the value that was set last.
LEMMA SetterSendsConfig ==
    ASSUME GpsInv, ConfigInv, supl_set_server \/ supl_set_apn_info
    PROVE  ConfigInv'
<1>1. /\ modem \in ModemStates /\ (excused => excused')
      /\ UNCHANGED <<supl_config, fwArg, serviceArg, mainPc, arg, raced, at, supl_initialized>>
  BY CommandEffects DEF GpsInv, TypeOK, ModemStates, supl_set_server, supl_set_apn_info
<1>2. CASE Refuses /\ UNCHANGED modem
  <2>1. excused' \/ at' # "open"
    BY <1>1, <1>2, CommandEffects
  <2>2. fwPc' \in {fwPc, "idle"} /\ servicePc' \in {servicePc, "idle"}
    BY DEF supl_set_server, supl_set_apn_info
  <2> QED BY <1>1, <2>1, <2>2 DEF ConfigInv, SendsTheLast, HasTheLast, SuplInitialized, Unsettled
<1>3. CASE supl_set_server /\ Answers /\ modem' = [modem EXCEPT !.set["server"] = fwArg]
  <2>1. modem'.set["server"] = fwArg /\ modem'.set["apn"] = modem.set["apn"]
    BY <1>1, <1>3 DEF ModemStates, Settings
  <2>2. fwPc = "sends" /\ fwPc' = "idle" /\ UNCHANGED servicePc /\ excused' = excused
    BY <1>3 DEF supl_set_server, Answers
  <2> QED BY <1>1, <2>1, <2>2 DEF ConfigInv, SendsTheLast, HasTheLast, SuplInitialized, Unsettled
<1>4. CASE supl_set_apn_info /\ Answers /\ modem' = [modem EXCEPT !.set["apn"] = serviceArg]
  <2>1. modem'.set["apn"] = serviceArg /\ modem'.set["server"] = modem.set["server"]
    BY <1>1, <1>4 DEF ModemStates, Settings
  <2>2. servicePc = "sends" /\ servicePc' = "idle" /\ UNCHANGED fwPc /\ excused' = excused
    BY <1>4 DEF supl_set_apn_info, Answers
  <2> QED BY <1>1, <2>1, <2>2 DEF ConfigInv, SendsTheLast, HasTheLast, SuplInitialized, Unsettled
<1> QED BY <1>2, <1>3, <1>4 DEF supl_set_server, supl_set_apn_info

LEMMA InitConfig == Init => ConfigInv
BY DEF Init, ConfigInv, SendsTheLast, HasTheLast, SuplInitialized, Configured

LEMMA NextConfig ==
    ASSUME GpsInv, ReadyWhenConfigured, ConfigInv, [Next]_vars
    PROVE  ConfigInv'
<1>1. CASE UNCHANGED vars
  BY <1>1, ConfigFrame DEF vars
<1>2. CASE ModemStep \/ ReaderStep \/ mbm_gps_ni_request
  BY <1>2, ConfigElsewhere, CommandsConfig, ModemLostConfig DEF ModemStep, ReaderStep
<1>3. CASE \E t \in Callers : SessionStep(t)
  BY <1>3, ConfigElsewhere, CommandsConfig DEF SessionStep, SendsToStart
<1>4. CASE \E e \in Events : supl_fail(e)
  BY <1>4, ConfigElsewhere
<1>5. CASE MainStep
  BY <1>5, ConfigElsewhere, CommandsConfig, supl_initConfig, SuplSendsConfig,
      HandlesCommandConfig DEF MainStep
<1>6. CASE FrameworkCalls
  BY <1>6, ConfigElsewhere, StoresConfig DEF FrameworkCalls
<1>7. CASE FrameworkStep
  BY <1>7, ConfigElsewhere, CommandsConfig, SetterSendsConfig DEF FrameworkStep
<1>8. CASE ServiceStep \/ supl_set_apn_info
  BY <1>8, ConfigElsewhere, StoresConfig, SetterSendsConfig DEF ServiceStep
<1> QED BY <1>1, <1>2, <1>3, <1>4, <1>5, <1>6, <1>7, <1>8 DEF Next

\* Between the settings the modem has the SUPL server and the APN that were set last, however the
\* setters of the two other threads, main_loop's own configuration and the losses of the modem
\* interleave: unless a command was refused, or a value was set while main_loop configured.
THEOREM ModemIsConfigured == Spec => []ConfiguredWithTheLast
<1>1. Init => ConfigInv
  BY InitConfig
<1>2. GpsInv /\ RunInv /\ ConfigInv /\ [Next]_vars => ConfigInv'
  BY NextConfig DEF RunInv
<1>3. GpsInv /\ ConfigInv => ConfiguredWithTheLast
  <2> SUFFICES ASSUME GpsInv, ConfigInv, Quiet, ~excused, ~raced
               PROVE  modem.set = supl_config
    BY DEF ConfiguredWithTheLast
  <2>1. modem.set["apn"] = supl_config["apn"] /\ modem.set["server"] = supl_config["server"]
    BY DEF ConfigInv, HasTheLast, Unsettled, Configured, Quiet
  <2>2. modem.set \in [Settings -> Nat \cup {-1}] /\ supl_config \in [Settings -> Nat]
    BY DEF GpsInv, TypeOK
  <2> QED BY <2>1, <2>2 DEF Settings
<1> QED BY <1>1, <1>2, <1>3, SessionsCorrect, RunInvariant, PTL DEF Spec

-----------------------------------------------------------------------------
(***************************************************************************)
(* ServiceLink.                                                            *)
(***************************************************************************)
USE DEF statusVars, providerVars, loopVars, sharedVars, ends, threadVars, libVars, requestVars

Orders == {"SEND_ALL_INFO", "SERVICE_QUIT", "DOWNLOAD_PGPS_DATA", "URL"}

\* The settings are some of the four; loops and threads are counted from 1.
LEMMA LinkConstants ==
    /\ LinkSettings \in Seq(Keys)
    /\ Keys \subseteq {"APN_INFO", "BACKGROUND_DATA_SETTING", "MOBILE_DATA_ALLOWED",
                       "ROAMING_ALLOWED"}
    /\ "none" \notin Keys /\ "PGPS_DATA" \notin Keys
    /\ Loops \subseteq Nat \ {0} /\ Handlers \subseteq Nat \ {0}
    /\ \A s \in LinkScenarios : s.before \in Nat /\ s.keys \subseteq Keys /\ s.booted \in BOOLEAN
<1>1. Range(AllSettings) = {"APN_INFO", "BACKGROUND_DATA_SETTING", "MOBILE_DATA_ALLOWED",
                            "ROAMING_ALLOWED"}
  <2>1. DOMAIN AllSettings = {1, 2, 3, 4}
    BY DEF AllSettings
  <2>2. /\ AllSettings[1] = "APN_INFO" /\ AllSettings[2] = "BACKGROUND_DATA_SETTING"
        /\ AllSettings[3] = "MOBILE_DATA_ALLOWED" /\ AllSettings[4] = "ROAMING_ALLOWED"
    BY DEF AllSettings
  <2> QED BY <2>1, <2>2 DEF Range
<1>2. Keys \subseteq Range(AllSettings)
  <2>1. LinkSettings \in Seq(Range(AllSettings))
    BY LinkAssumption
  <2> QED BY <2>1 DEF Keys, Range
<1>3. LinkSettings \in Seq(Keys)
  <2>1. LinkSettings \in Seq(Range(AllSettings))
    BY LinkAssumption
  <2>2. \A i \in DOMAIN LinkSettings : LinkSettings[i] \in Keys
    BY DEF Keys, Range
  <2> QED BY <2>1, <2>2
<1>4. Loops \subseteq Nat \ {0} /\ Handlers \subseteq Nat \ {0}
  <2>1. Cardinality(Loops) \in Nat /\ Cardinality(Handlers) \in Nat
    BY LinkAssumption, FS_CardinalityType
  <2> DEFINE n == Cardinality(Loops)
             m == Cardinality(Handlers)
  <2>2. n \in Nat /\ Loops = 1..n /\ m \in Nat /\ Handlers = 1..m
    BY <2>1, LinkAssumption
  <2> HIDE DEF n, m
  <2> QED BY <2>2
<1>5. \A s \in LinkScenarios : s.before \in Nat /\ s.keys \subseteq Keys /\ s.booted \in BOOLEAN
  BY LinkAssumption
<1> QED BY <1>1, <1>2, <1>3, <1>4, <1>5

\* LinkTypeOK in three parts: the service, the connections, and the library with the ghosts.
ServiceTypeOK ==
    /\ status \in [Keys -> Nat] /\ mainText \in Messages /\ changes \in Nat
    /\ provider \in BOOLEAN /\ broadcasts \in Nat /\ toggles \in Nat
    /\ pc \in [Loops -> {"none", "init", "connected", "run", "sendAll", "download", "ending",
                         "closing", "done"}]
    /\ retries \in [Loops -> Nat]
    /\ todo \in [Loops -> Seq(Keys)] /\ text \in [Loops -> Messages]
    /\ localSocket \in Loops \cup {0} /\ initDone \in BOOLEAN

ConnectionTypeOK ==
    /\ ours \in [Loops -> BOOLEAN] /\ theirs \in [Loops -> BOOLEAN]
    /\ up \in [Loops -> Seq(Messages)] /\ down \in [Loops -> Seq(Orders)]

LibraryTypeOK ==
    /\ libPc \in {"off", "half", "on"} /\ listener \in Handlers \cup {0}
    /\ thread \in [Handlers -> {"none", "init", "accept", "ask", "read", "fails"}]
    /\ serving \in [Handlers -> Loops \cup {0}] /\ backlog \in [Handlers -> Seq(Loops)]
    /\ socket \in Loops \cup {0}
    /\ service \in [Keys -> Nat] /\ gps \in [Keys -> Nat]
    /\ request \in {"none", "command"} /\ requests \in Nat
    /\ quit \subseteq Loops
    /\ lost \subseteq {"two loops", "overtaken", "asked in vain", "before gpsctrl_init"}
    /\ linkScenario \in LinkScenarios

LEMMA LinkTypeParts == LinkTypeOK <=> ServiceTypeOK /\ ConnectionTypeOK /\ LibraryTypeOK
BY DEF LinkTypeOK, ServiceTypeOK, ConnectionTypeOK, LibraryTypeOK, Orders

\* What a message and a command do to the connections.
LEMMA MessageSent ==
    ASSUME LinkTypeOK, NEW msg \in Messages, sendMessage(msg)
    PROVE  /\ up' \in [Loops -> Seq(Messages)]
           /\ \A l \in Loops :
                 up'[l] = IF l = localSocket /\ initDone /\ ours[l] /\ ~Gone(l)
                          THEN Append(up[l], msg) ELSE up[l]
<1>1. up \in [Loops -> Seq(Messages)] /\ localSocket \in Loops \cup {0} /\ 0 \notin Loops
  BY LinkConstants DEF LinkTypeOK
<1> QED BY <1>1 DEF sendMessage

LEMMA CommandWritten ==
    ASSUME LinkTypeOK, NEW cmd \in Orders, Writes(cmd)
    PROVE  /\ down' \in [Loops -> Seq(Orders)]
           /\ \A l \in Loops :
                 down'[l] = IF l = socket /\ theirs[l] /\ ours[l]
                            THEN Append(down[l], cmd) ELSE down[l]
<1>1. down \in [Loops -> Seq(Orders)] /\ socket \in Loops \cup {0} /\ 0 \notin Loops
  BY LinkConstants DEF LinkTypeOK, Orders
<1> QED BY <1>1 DEF Writes

\* The message of the main thread is news; that of sendAllInfo is about the setting that is next.
TextsOK ==
    /\ mainText # None => mainText.key \in Keys /\ mainText.val = status[mainText.key]
    /\ \A l \in Loops : text[l] # None =>
          pc[l] = "sendAll" /\ todo[l] # << >> /\ text[l].key = Head(todo[l])

\* A thread that is past accept has a connection.
Connected == \A h \in Handlers : thread[h] \in {"ask", "read", "fails"} => serving[h] \in Loops

LEMMA TextsTyped == \A k \in Keys, v \in Nat : [key |-> k, val |-> v] \in Messages
  BY DEF Messages

LEMMA InitTyped == LinkInit => LinkTypeOK
<1> SUFFICES ASSUME LinkInit PROVE ServiceTypeOK /\ ConnectionTypeOK /\ LibraryTypeOK
  BY LinkTypeParts
<1>1. mainText \in Messages /\ text \in [Loops -> Messages]
  BY DEF LinkInit, Messages, None
<1>2. ServiceTypeOK
  <2>1. linkScenario.before \in Nat /\ linkScenario.booted \in BOOLEAN
    BY LinkConstants DEF LinkInit
  <2>2. provider \in BOOLEAN /\ initDone \in BOOLEAN
    BY <2>1 DEF LinkInit
  <2> QED BY <1>1, <2>1, <2>2 DEF LinkInit, ServiceTypeOK
<1>3. ConnectionTypeOK
  BY DEF LinkInit, ConnectionTypeOK
<1>4. LibraryTypeOK
  BY DEF LinkInit, LibraryTypeOK, Initially
<1> QED BY <1>2, <1>3, <1>4

LEMMA ServiceTyped ==
    ASSUME LinkTypeOK, TextsOK, [LinkNext]_linkVars
    PROVE  ServiceTypeOK'
<1>0. ServiceTypeOK
  BY LinkTypeParts
<1>1. CASE UNCHANGED <<statusVars, providerVars, loopVars, sharedVars>>
  BY <1>0, <1>1 DEF ServiceTypeOK
<1>2. ASSUME NEW k \in Keys, Changes(k) PROVE ServiceTypeOK'
  <2>1. PICK v \in (IF k = "APN_INFO" THEN 0..2 ELSE 0..1) :
            status' = [status EXCEPT ![k] = v] /\ mainText' = [key |-> k, val |-> v]
    BY <1>2 DEF Changes
  <2>0. v \in Nat
    OBVIOUS
  <2>2. mainText' \in Messages
    BY <2>0, <2>1, TextsTyped
  <2>3. status' \in [Keys -> Nat]
    BY <1>0, <2>0, <2>1 DEF ServiceTypeOK
  <2>4. changes' = changes + 1 /\ UNCHANGED <<providerVars, loopVars, sharedVars>>
    BY <1>2 DEF Changes
  <2> QED BY <1>0, <2>2, <2>3, <2>4 DEF ServiceTypeOK
<1>3. CASE ProviderChanges \/ OtherProviderChanges
  <2>1. provider' \in BOOLEAN
    BY <1>0, <1>3 DEF ProviderChanges, OtherProviderChanges, ServiceTypeOK
  <2>2. /\ broadcasts' = broadcasts + 1 /\ toggles' = toggles + 1
        /\ UNCHANGED <<statusVars, loopVars, sharedVars>>
    BY <1>3 DEF ProviderChanges, OtherProviderChanges
  <2> QED BY <1>0, <2>1, <2>2 DEF ServiceTypeOK
<1>4. CASE Sends
  <2>1. mainText' \in Messages
    BY <1>4 DEF Sends, Messages, None
  <2> QED BY <1>0, <1>4, <2>1 DEF Sends, ServiceTypeOK
<1>5. CASE startServiceLoop
  <2>1. pc' \in [Loops -> {"none", "init", "connected", "run", "sendAll", "download", "ending",
                           "closing", "done"}]
    BY <1>0, <1>5 DEF startServiceLoop, ServiceTypeOK
  <2>2. /\ broadcasts > 0 /\ broadcasts' = broadcasts - 1
        /\ UNCHANGED <<statusVars, provider, toggles, retries, todo, text, sharedVars>>
    BY <1>5 DEF startServiceLoop
  <2> QED BY <1>0, <2>1, <2>2 DEF ServiceTypeOK
<1>6. ASSUME NEW l \in Loops, LoopStep(l) PROVE ServiceTypeOK'
  <2>1. CASE init(l)
    BY <1>0, <2>1 DEF init, ServiceTypeOK
  <2>2. CASE initFails(l)
    BY <1>0, <2>2 DEF initFails, ServiceTypeOK
  <2>3. CASE runs(l) \/ ReadEnds(l)
    BY <1>0, <2>3 DEF runs, ReadEnds, ServiceTypeOK
  <2>4. CASE ReadsCommand(l)
    <3>1. todo' \in [Loops -> Seq(Keys)]
      BY <1>0, <2>4, LinkConstants DEF ReadsCommand, ServiceTypeOK
    <3>2. pc' \in [Loops -> {"none", "init", "connected", "run", "sendAll", "download", "ending",
                             "closing", "done"}]
      BY <1>0, <2>4 DEF ReadsCommand, ServiceTypeOK
    <3> QED BY <1>0, <2>4, <3>1, <3>2 DEF ReadsCommand, ServiceTypeOK
  <2>5. CASE Composes(l)
    <3>1. Head(todo[l]) \in Keys /\ status[Head(todo[l])] \in Nat
      BY <1>0, <2>5 DEF Composes, ServiceTypeOK
    <3>2. text' \in [Loops -> Messages]
      BY <1>0, <2>5, <3>1, TextsTyped DEF Composes, ServiceTypeOK
    <3> QED BY <1>0, <2>5, <3>2 DEF Composes, ServiceTypeOK
  <2>6. CASE sendAllInfo(l)
    <3>1. None \in Messages
      BY DEF Messages, None
    <3>2. text' \in [Loops -> Messages]
      BY <1>0, <2>6, <3>1 DEF sendAllInfo, ServiceTypeOK
    <3>3. todo' \in [Loops -> Seq(Keys)]
      BY <1>0, <1>6, <2>6 DEF sendAllInfo, ServiceTypeOK, TextsOK
    <3> QED BY <1>0, <2>6, <3>2, <3>3 DEF sendAllInfo, ServiceTypeOK
  <2>7. CASE downloadPgpsData(l)
    BY <1>0, <2>7 DEF downloadPgpsData, ServiceTypeOK
  <2>8. CASE Ends(l) \/ Closes(l)
    BY <1>0, <2>8 DEF Ends, ResetsDone, Closes, ServiceTypeOK
  <2> QED BY <1>6, <2>1, <2>2, <2>3, <2>4, <2>5, <2>6, <2>7, <2>8 DEF LoopStep
<1>7. CASE DownloadRequest \/ Framework \/ (\E h \in Handlers : HandlerStep(h))
  BY <1>7, <1>1 DEF DownloadRequest, Framework, service_handler_init, gpsctrl_init,
     service_handler_stop, HandlerStep, internal_init, Accepts, Asks, ReadsMessage, EndOfFile
<1>8. CASE UNCHANGED linkVars
  BY <1>8, <1>1 DEF linkVars
<1> QED BY <1>2, <1>3, <1>4, <1>5, <1>6, <1>7, <1>8 DEF LinkNext, MainThread

LEMMA ConnectionsTyped ==
    ASSUME LinkTypeOK, Connected, [LinkNext]_linkVars
    PROVE  ConnectionTypeOK'
<1>0. ServiceTypeOK /\ ConnectionTypeOK /\ LibraryTypeOK
  BY LinkTypeParts
<1>1. ours' \in [Loops -> BOOLEAN] /\ theirs' \in [Loops -> BOOLEAN]
  <2>1. CASE UNCHANGED ends
    BY <1>0, <2>1 DEF ConnectionTypeOK
  <2>2. CASE service_handler_stop \/ \E l \in Loops : init(l) \/ Closes(l)
    BY <1>0, <2>2 DEF service_handler_stop, init, Closes, ConnectionTypeOK
  <2>3. CASE \E h \in Handlers : EndOfFile(h)
    BY <1>0, <2>3 DEF EndOfFile, ConnectionTypeOK
  <2> QED BY <2>1, <2>2, <2>3 DEF linkVars, LinkNext, Changes, ProviderChanges,
       OtherProviderChanges, DownloadRequest, MainThread, Sends, startServiceLoop, Framework,
       service_handler_init, gpsctrl_init, LoopStep, initFails, runs, ReadsCommand, ReadEnds,
       Composes, sendAllInfo, downloadPgpsData, Ends, HandlerStep, internal_init, Accepts, Asks,
       ReadsMessage
<1>2. up' \in [Loops -> Seq(Messages)]
  <2>1. CASE UNCHANGED up
    BY <1>0, <2>1 DEF ConnectionTypeOK
  <2>2. CASE Sends
    BY <1>0, <2>2, MessageSent DEF Sends, ServiceTypeOK
  <2>3. CASE \E l \in Loops : sendAllInfo(l)
    BY <1>0, <2>3, MessageSent DEF sendAllInfo, ServiceTypeOK
  <2>4. CASE \E l \in Loops : downloadPgpsData(l)
    <3>1. \A r \in 0..1 : [key |-> "PGPS_DATA", val |-> r] \in Messages
      BY DEF Messages
    <3>2. \E r \in 0..1 : sendMessage([key |-> "PGPS_DATA", val |-> r])
      BY <2>4 DEF downloadPgpsData
    <3> QED BY <3>1, <3>2, MessageSent
  <2>5. CASE \E h \in Handlers : ReadsMessage(h)
    BY <1>0, <2>5 DEF ReadsMessage, Connected, ConnectionTypeOK
  <2> QED BY <2>1, <2>2, <2>3, <2>4, <2>5 DEF linkVars, LinkNext, Changes, ProviderChanges,
       OtherProviderChanges, DownloadRequest, MainThread, startServiceLoop, Framework,
       service_handler_init, gpsctrl_init, service_handler_stop, LoopStep, init, initFails, runs,
       ReadsCommand, ReadEnds, Composes, Ends, Closes, HandlerStep, internal_init, Accepts, Asks,
       EndOfFile
<1>3. down' \in [Loops -> Seq(Orders)]
  <2>1. CASE UNCHANGED down
    BY <1>0, <2>1 DEF ConnectionTypeOK
  <2>2. CASE DownloadRequest \/ service_handler_stop \/ \E h \in Handlers : Asks(h)
    BY <2>2, CommandWritten DEF DownloadRequest, service_handler_stop, TellsQuit, Asks, Orders
  <2>3. ASSUME NEW l \in Loops, ReadsCommand(l) PROVE down' \in [Loops -> Seq(Orders)]
    BY <1>0, <2>3 DEF ReadsCommand, ConnectionTypeOK
  <2>4. ASSUME NEW l \in Loops, downloadPgpsData(l) PROVE down' \in [Loops -> Seq(Orders)]
    <3>1. down[l] \in Seq(Orders)
      BY <1>0 DEF ConnectionTypeOK
    <3>2. SubSeq(down[l], 3, Len(down[l])) \in Seq(Orders)
      BY <3>1, SubSeqProperties
    <3>3. \/ down' = [down EXCEPT ![l] = Tail(@)] /\ down[l] # << >>
          \/ down' = [down EXCEPT ![l] = SubSeq(@, 3, Len(@))]
      BY <2>4 DEF downloadPgpsData
    <3>4. down[l] # << >> => Tail(down[l]) \in Seq(Orders)
      BY <3>1
    <3> QED BY <1>0, <3>2, <3>3, <3>4 DEF ConnectionTypeOK
  <2> QED BY <2>1, <2>2, <2>3, <2>4 DEF linkVars, LinkNext, Changes, ProviderChanges,
       OtherProviderChanges, MainThread, Sends, startServiceLoop, Framework,
       service_handler_init, gpsctrl_init, LoopStep, init, initFails, runs,
       ReadEnds, Composes, sendAllInfo, Ends, Closes, HandlerStep, internal_init, Accepts,
       ReadsMessage, EndOfFile
<1> QED BY <1>1, <1>2, <1>3 DEF ConnectionTypeOK

LEMMA LibraryTyped ==
    ASSUME LinkTypeOK, Connected, [LinkNext]_linkVars
    PROVE  LibraryTypeOK'
<1>0. ServiceTypeOK /\ ConnectionTypeOK /\ LibraryTypeOK
  BY LinkTypeParts
<1>1. CASE UNCHANGED <<libPc, threadVars, socket, libVars, requestVars, quit, lost, linkScenario>>
  BY <1>0, <1>1 DEF LibraryTypeOK
<1>2. CASE DownloadRequest
  <2>1. request' \in {"none", "command"} /\ requests' \in {requests, requests + 1}
    BY <1>2 DEF DownloadRequest
  <2>2. UNCHANGED <<libPc, threadVars, socket, libVars, quit, lost, linkScenario>>
    BY <1>2 DEF DownloadRequest
  <2>3. requests \in Nat
    BY <1>0 DEF LibraryTypeOK
  <2>4. requests' \in Nat
    BY <2>1, <2>3
  <2> QED BY <1>0, <2>1, <2>2, <2>4 DEF LibraryTypeOK
<1>3. CASE service_handler_init
  BY <1>0, <1>3 DEF service_handler_init, initializeServiceContext, Initially, LibraryTypeOK
<1>4. CASE gpsctrl_init
  BY <1>0, <1>4 DEF gpsctrl_init, Initially, LibraryTypeOK
<1>5. CASE service_handler_stop
  BY <1>0, <1>5 DEF service_handler_stop, LibraryTypeOK
<1>6. ASSUME NEW l \in Loops, init(l) \/ sendAllInfo(l) PROVE LibraryTypeOK'
  <2>1. lost' \subseteq lost \cup {"two loops", "overtaken"}
    BY <1>6 DEF init, sendAllInfo
  <2>2. backlog' \in [Handlers -> Seq(Loops)]
    <3>1. CASE init(l)
      <4>1. listener \in Handlers /\ backlog[listener] \in Seq(Loops)
        BY <1>0, <3>1 DEF init, LibraryTypeOK
      <4>2. Append(backlog[listener], l) \in Seq(Loops)
        BY <4>1
      <4> QED BY <1>0, <3>1, <4>1, <4>2 DEF init, LibraryTypeOK
    <3>2. CASE sendAllInfo(l)
      BY <1>0, <3>2 DEF sendAllInfo, LibraryTypeOK
    <3> QED BY <1>6, <3>1, <3>2
  <2> QED BY <1>0, <1>6, <2>1, <2>2 DEF init, sendAllInfo, LibraryTypeOK
<1>7. ASSUME NEW h \in Handlers, HandlerStep(h) PROVE LibraryTypeOK'
  <2>1. CASE internal_init(h)
    BY <1>0, <2>1 DEF internal_init, LibraryTypeOK
  <2>2. CASE Accepts(h)
    <3>1. Head(backlog[h]) \in Loops /\ Tail(backlog[h]) \in Seq(Loops)
      <4>1. backlog[h] \in Seq(Loops) /\ backlog[h] # << >>
        BY <1>0, <2>2 DEF Accepts, LibraryTypeOK
      <4> QED BY <4>1
    <3> QED BY <1>0, <2>2, <3>1 DEF Accepts, LibraryTypeOK
  <2>3. CASE Asks(h)
    BY <1>0, <2>3 DEF Asks, LibraryTypeOK
  <2>4. CASE ReadsMessage(h)
    <3>1. PICK m \in Messages : parse_message(m)
      <4>1. serving[h] \in Loops
        BY <2>4 DEF ReadsMessage, Connected
      <4> QED BY <1>0, <2>4, <4>1 DEF ReadsMessage, ConnectionTypeOK
    <3>2. m.val \in Nat
      BY DEF Messages
    <3>3. service' \in [Keys -> Nat] /\ gps' \in [Keys -> Nat]
      BY <1>0, <3>1, <3>2 DEF parse_message, LibraryTypeOK
    <3> QED BY <1>0, <2>4, <3>1, <3>3 DEF ReadsMessage, parse_message, LibraryTypeOK
  <2>5. CASE EndOfFile(h)
    BY <1>0, <2>5 DEF EndOfFile, LibraryTypeOK
  <2> QED BY <1>7, <2>1, <2>2, <2>3, <2>4, <2>5 DEF HandlerStep
<1> QED BY <1>1, <1>2, <1>3, <1>4, <1>5, <1>6, <1>7 DEF linkVars, LinkNext, Changes,
       ProviderChanges, OtherProviderChanges, MainThread, Sends, startServiceLoop, Framework,
       LoopStep, initFails, runs, ReadsCommand, ReadEnds, Composes, downloadPgpsData, Ends, Closes

LEMMA NextTyped ==
    ASSUME LinkTypeOK, TextsOK, Connected, [LinkNext]_linkVars
    PROVE  LinkTypeOK'
<1>1. ServiceTypeOK' /\ ConnectionTypeOK' /\ LibraryTypeOK'
  BY ServiceTyped, ConnectionsTyped, LibraryTyped
<1> QED BY <1>1, LinkTypeParts, PTL


-----------------------------------------------------------------------------
\* A connection that no thread has accepted yet, or that is not even made.
Waits(l) == pc[l] \in {"none", "init"}
Backlogged(l) == \E h \in Handlers : Contains(backlog[h], l)
Fresh(l) == Waits(l) \/ Backlogged(l)

\* A connection is made once and accepted once; until then no command is written to it.
AcceptedOnce ==
    /\ \A l \in Loops : Waits(l) => ~ours[l] /\ ~theirs[l] /\ ~Backlogged(l)
    /\ \A l \in Loops : Fresh(l) =>
          /\ socket # l /\ down[l] = << >> /\ pc[l] # "download"
          /\ \A h \in Handlers : serving[h] # l
    /\ \A g, h \in Handlers : \A i \in 1..Len(backlog[g]), j \in 1..Len(backlog[h]) :
          backlog[g][i] = backlog[h][j] => g = h /\ i = j
    /\ \A g, h \in Handlers : serving[g] = serving[h] /\ serving[g] \in Loops => g = h

\* What most steps do to it: nothing, since they only close, stop serving, or write to a
\* connection that was accepted.
LEMMA AcceptedOnceKept ==
    ASSUME LinkTypeOK, AcceptedOnce, UNCHANGED backlog,
           \A l \in Loops : /\ Waits(l)' => Waits(l)
                            /\ ours'[l] => ours[l]
                            /\ theirs'[l] => theirs[l]
                            /\ Fresh(l) => down'[l] = down[l] /\ pc'[l] # "download",
           \A h \in Handlers : serving'[h] \in {serving[h], 0},
           socket' \in {socket, 0}
    PROVE  AcceptedOnce'
<1>1. \A l \in Loops : Backlogged(l)' <=> Backlogged(l)
  BY DEF Backlogged
<1>2. \A l \in Loops : Fresh(l)' => Fresh(l)
  BY <1>1 DEF Fresh
<1>3. 0 \notin Loops
  BY LinkConstants
<1>4. \A l \in Loops : Waits(l)' => ~ours'[l] /\ ~theirs'[l] /\ ~Backlogged(l)'
  BY <1>1 DEF AcceptedOnce
<1>5. \A l \in Loops : Fresh(l)' =>
          /\ socket' # l /\ down'[l] = << >> /\ pc'[l] # "download"
          /\ \A h \in Handlers : serving'[h] # l
  BY <1>2, <1>3 DEF AcceptedOnce
<1>6. \A g, h \in Handlers : serving'[g] = serving'[h] /\ serving'[g] \in Loops => g = h
  BY <1>3 DEF AcceptedOnce
<1>7. \A g, h \in Handlers : \A i \in 1..Len(backlog'[g]), j \in 1..Len(backlog'[h]) :
          backlog'[g][i] = backlog'[h][j] => g = h /\ i = j
  BY DEF AcceptedOnce
<1> QED BY <1>4, <1>5, <1>6, <1>7 DEF AcceptedOnce

\* A new connection is appended to a backlog.
LEMMA InitAcceptedOnce ==
    ASSUME LinkTypeOK, AcceptedOnce, NEW l \in Loops, init(l)
    PROVE  AcceptedOnce'
<1>0. /\ listener \in Handlers /\ DOMAIN pc = Loops /\ DOMAIN ours = Loops /\ DOMAIN theirs = Loops
      /\ backlog \in [Handlers -> Seq(Loops)] /\ \A h \in Handlers : backlog[h] \in Seq(Loops)
  BY LinkTypeParts DEF init, ServiceTypeOK, ConnectionTypeOK, LibraryTypeOK
<1>1. /\ listener \in Handlers /\ pc[l] = "init" /\ pc' = [pc EXCEPT ![l] = "connected"]
      /\ backlog' = [backlog EXCEPT ![listener] = Append(@, l)]
      /\ \A h \in Handlers : backlog[h] \in Seq(Loops)
      /\ ours' = [ours EXCEPT ![l] = TRUE] /\ theirs' = [theirs EXCEPT ![l] = TRUE]
      /\ UNCHANGED <<serving, socket, down>>
      /\ backlog \in [Handlers -> Seq(Loops)] /\ DOMAIN pc = Loops
      /\ DOMAIN ours = Loops /\ DOMAIN theirs = Loops
  BY <1>0 DEF init
<1>2. \A m \in Loops : (Waits(m)' => Waits(m) /\ m # l) /\ (m # l => pc'[m] = pc[m])
  BY <1>1 DEF Waits
<1>3. \A h \in Handlers : \A i \in 1..Len(backlog'[h]) :
          \/ i \in 1..Len(backlog[h]) /\ backlog'[h][i] = backlog[h][i]
          \/ h = listener /\ i = Len(backlog[h]) + 1 /\ backlog'[h][i] = l
  <2> SUFFICES ASSUME NEW h \in Handlers, NEW i \in 1..Len(backlog'[h])
               PROVE  \/ i \in 1..Len(backlog[h]) /\ backlog'[h][i] = backlog[h][i]
                      \/ h = listener /\ i = Len(backlog[h]) + 1 /\ backlog'[h][i] = l
    OBVIOUS
  <2>1. CASE h # listener
    BY <1>1, <2>1
  <2>2. CASE h = listener
    <3>1. backlog'[h] = Append(backlog[h], l) /\ backlog[h] \in Seq(Loops)
      BY <1>1, <2>2
    <3> QED BY <2>2, <3>1
  <2> QED BY <2>1, <2>2
<1>4. \A m \in Loops : Backlogged(m)' => Backlogged(m) \/ m = l
  BY <1>3 DEF Backlogged, Contains
<1>5. ~Backlogged(l) /\ Fresh(l)
  BY <1>1 DEF AcceptedOnce, Waits, Fresh
<1>6. \A m \in Loops : Waits(m)' => ~ours'[m] /\ ~theirs'[m] /\ ~Backlogged(m)'
  BY <1>1, <1>2, <1>4 DEF AcceptedOnce
<1>7. \A m \in Loops : Fresh(m)' =>
          /\ socket' # m /\ down'[m] = << >> /\ pc'[m] # "download"
          /\ \A h \in Handlers : serving'[h] # m
  <2> SUFFICES ASSUME NEW m \in Loops, Fresh(m)'
               PROVE  /\ socket # m /\ down[m] = << >> /\ pc'[m] # "download"
                      /\ \A h \in Handlers : serving[h] # m
    BY <1>1
  <2>1. Fresh(m)
    BY <1>2, <1>4, <1>5 DEF Fresh
  <2>2. pc'[m] # "download"
    BY <1>1, <1>2, <2>1 DEF AcceptedOnce
  <2> QED BY <2>1, <2>2 DEF AcceptedOnce
<1>8. \A g, h \in Handlers : \A i \in 1..Len(backlog'[g]), j \in 1..Len(backlog'[h]) :
          backlog'[g][i] = backlog'[h][j] => g = h /\ i = j
  <2>1. \A h \in Handlers : \A i \in 1..Len(backlog[h]) : backlog[h][i] # l
    BY <1>5 DEF Backlogged, Contains
  <2> QED BY <1>3, <2>1 DEF AcceptedOnce
<1>9. \A g, h \in Handlers : serving'[g] = serving'[h] /\ serving'[g] \in Loops => g = h
  BY <1>1 DEF AcceptedOnce
<1> QED BY <1>6, <1>7, <1>8, <1>9 DEF AcceptedOnce

\* The first of a backlog is accepted.
LEMMA AcceptsAcceptedOnce ==
    ASSUME LinkTypeOK, AcceptedOnce, NEW h \in Handlers, Accepts(h)
    PROVE  AcceptedOnce'
<1>0. /\ backlog[h] \in Seq(Loops)
      /\ backlog \in [Handlers -> Seq(Loops)] /\ serving \in [Handlers -> Loops \cup {0}]
  BY LinkTypeParts DEF LibraryTypeOK
<1>1. /\ backlog[h] \in Seq(Loops) /\ backlog[h] # << >>
      /\ backlog' = [backlog EXCEPT ![h] = Tail(@)]
      /\ serving' = [serving EXCEPT ![h] = backlog[h][1]] /\ socket' = backlog[h][1]
      /\ UNCHANGED <<pc, ours, theirs, down>>
      /\ backlog \in [Handlers -> Seq(Loops)] /\ serving \in [Handlers -> Loops \cup {0}]
  BY <1>0 DEF Accepts
<1> DEFINE c == backlog[h][1]
<1>2. c \in Loops /\ 1 \in 1..Len(backlog[h])
  BY <1>1
<1>3. \A g \in Handlers : \A i \in 1..Len(backlog'[g]) :
          LET k == IF g = h THEN i + 1 ELSE i
          IN k \in 1..Len(backlog[g]) /\ backlog'[g][i] = backlog[g][k]
  <2> SUFFICES ASSUME NEW g \in Handlers, NEW i \in 1..Len(backlog'[g])
               PROVE  LET k == IF g = h THEN i + 1 ELSE i
                      IN k \in 1..Len(backlog[g]) /\ backlog'[g][i] = backlog[g][k]
    OBVIOUS
  <2>1. CASE g = h
    <3>1. backlog'[h] = Tail(backlog[h])
      BY <1>1
    <3>2. Len(Tail(backlog[h])) = Len(backlog[h]) - 1 /\ Len(backlog[h]) \in Nat
      BY <1>1
    <3> QED BY <1>1, <2>1, <3>1, <3>2, HeadTailProperties
  <2>2. CASE g # h
    BY <1>1, <2>2
  <2> QED BY <2>1, <2>2
<1>4. \A m \in Loops : Backlogged(m)' => Backlogged(m) /\ m # c
  <2> SUFFICES ASSUME NEW m \in Loops, NEW g \in Handlers, NEW i \in 1..Len(backlog'[g]),
                      backlog'[g][i] = m
               PROVE  Backlogged(m) /\ m # c
    BY DEF Backlogged, Contains
  <2> DEFINE k == IF g = h THEN i + 1 ELSE i
  <2>1. k \in 1..Len(backlog[g]) /\ backlog[g][k] = m
    BY <1>3
  <2>2. g = h => k # 1
    OBVIOUS
  <2> HIDE DEF k
  <2>3. m # c
    BY <1>2, <2>1, <2>2 DEF AcceptedOnce
  <2> QED BY <2>1, <2>3 DEF Backlogged, Contains
<1>5. Backlogged(c)
  BY <1>2 DEF Backlogged, Contains
<1>6. ~Waits(c)
  BY <1>2, <1>5 DEF AcceptedOnce
<1>7. \A m \in Loops : (Waits(m)' <=> Waits(m)) /\ (Fresh(m)' => Fresh(m) /\ m # c)
  BY <1>1, <1>4, <1>6 DEF Fresh, Waits
<1>8. \A m \in Loops : Waits(m)' => ~ours'[m] /\ ~theirs'[m] /\ ~Backlogged(m)'
  BY <1>1, <1>4, <1>7 DEF AcceptedOnce
<1>9. \A m \in Loops : Fresh(m)' =>
          /\ socket' # m /\ down'[m] = << >> /\ pc'[m] # "download"
          /\ \A g \in Handlers : serving'[g] # m
  BY <1>1, <1>7 DEF AcceptedOnce
<1>10. \A f, g \in Handlers : \A i \in 1..Len(backlog'[f]), j \in 1..Len(backlog'[g]) :
          backlog'[f][i] = backlog'[g][j] => f = g /\ i = j
  <2> SUFFICES ASSUME NEW f \in Handlers, NEW g \in Handlers, NEW i \in 1..Len(backlog'[f]),
                      NEW j \in 1..Len(backlog'[g]), backlog'[f][i] = backlog'[g][j]
               PROVE  f = g /\ i = j
    OBVIOUS
  <2> DEFINE k == IF f = h THEN i + 1 ELSE i
             n == IF g = h THEN j + 1 ELSE j
  <2>1. k \in 1..Len(backlog[f]) /\ n \in 1..Len(backlog[g]) /\ backlog[f][k] = backlog[g][n]
    BY <1>3
  <2>2. (f = g /\ k = n) => i = j
    OBVIOUS
  <2> HIDE DEF k, n
  <2> QED BY <2>1, <2>2 DEF AcceptedOnce
<1>11. \A f, g \in Handlers : serving'[f] = serving'[g] /\ serving'[f] \in Loops => f = g
  BY <1>1, <1>2, <1>5 DEF AcceptedOnce, Fresh
<1> QED BY <1>8, <1>9, <1>10, <1>11 DEF AcceptedOnce

LEMMA NextAcceptedOnce ==
    ASSUME LinkTypeOK, AcceptedOnce, [LinkNext]_linkVars
    PROVE  AcceptedOnce'
<1>0. /\ ServiceTypeOK /\ ConnectionTypeOK /\ LibraryTypeOK
      /\ \A l \in Loops : Fresh(l) => socket # l /\ down[l] = << >> /\ pc[l] # "download"
  BY LinkTypeParts DEF AcceptedOnce
<1> DEFINE Still(l) == /\ Waits(l)' => Waits(l)
                       /\ ours'[l] => ours[l]
                       /\ theirs'[l] => theirs[l]
                       /\ Fresh(l) => down'[l] = down[l] /\ pc'[l] # "download"
<1>1. CASE UNCHANGED <<pc, ends, down, serving, backlog>> /\ socket' \in {socket, 0}
  BY <1>0, <1>1, AcceptedOnceKept DEF Waits
<1>2. CASE startServiceLoop
  <2>1. UNCHANGED <<ends, down, serving, backlog, socket>>
    BY <1>2 DEF startServiceLoop
  <2>2. \A l \in Loops : Still(l)
    BY <1>0, <1>2 DEF startServiceLoop, ServiceTypeOK, Waits
  <2> QED BY <2>1, <2>2, AcceptedOnceKept
<1>3. CASE DownloadRequest \/ service_handler_stop \/ \E h \in Handlers : Asks(h)
  <2>1. UNCHANGED <<pc, ours, serving, backlog, socket>>
    BY <1>3 DEF DownloadRequest, service_handler_stop, Asks
  <2>2. \A l \in Loops : down'[l] = down[l] \/ l = socket
    BY <1>3, CommandWritten DEF DownloadRequest, service_handler_stop, TellsQuit, Asks, Orders
  <2>3. \A l \in Loops : theirs'[l] => theirs[l]
    BY <1>3 DEF DownloadRequest, service_handler_stop, Asks
  <2>4. \A l \in Loops : Still(l)
    BY <1>0, <2>1, <2>2, <2>3 DEF Waits
  <2> QED BY <2>1, <2>4, AcceptedOnceKept
<1>4. ASSUME NEW l \in Loops, LoopStep(l) PROVE AcceptedOnce'
  <2>1. CASE init(l)
    BY <2>1, InitAcceptedOnce
  <2>2. CASE initFails(l) \/ runs(l) \/ ReadEnds(l) \/ Ends(l) \/ Composes(l) \/ sendAllInfo(l)
    <3>1. UNCHANGED <<ends, down, serving, backlog, socket>>
      BY <2>2 DEF initFails, runs, ReadEnds, Ends, Composes, sendAllInfo
    <3>2. \A m \in Loops : Still(m)
      BY <1>0, <2>2 DEF initFails, runs, ReadEnds, Ends, Composes, sendAllInfo, ServiceTypeOK, Waits
    <3> QED BY <3>1, <3>2, AcceptedOnceKept
  <2>3. CASE ReadsCommand(l) \/ downloadPgpsData(l)
    <3>1. UNCHANGED <<ends, serving, backlog, socket>>
      BY <2>3 DEF ReadsCommand, downloadPgpsData
    <3>2. ~Fresh(l)
      BY <1>0, <2>3 DEF ReadsCommand, downloadPgpsData
    <3>3. \A m \in Loops : Still(m)
      BY <1>0, <2>3, <3>1, <3>2 DEF ReadsCommand, downloadPgpsData, ServiceTypeOK,
         ConnectionTypeOK, Waits, Fresh
    <3> QED BY <3>1, <3>3, AcceptedOnceKept
  <2>4. CASE Closes(l)
    <3>1. UNCHANGED <<theirs, down, serving, backlog, socket>>
      BY <2>4 DEF Closes
    <3>2. \A m \in Loops : Still(m)
      BY <1>0, <2>4 DEF Closes, ServiceTypeOK, Waits
    <3> QED BY <3>1, <3>2, AcceptedOnceKept
  <2> QED BY <1>4, <2>1, <2>2, <2>3, <2>4 DEF LoopStep
<1>5. ASSUME NEW h \in Handlers, Accepts(h) PROVE AcceptedOnce'
  BY <1>5, AcceptsAcceptedOnce
<1>6. ASSUME NEW h \in Handlers, EndOfFile(h) PROVE AcceptedOnce'
  <2>1. UNCHANGED <<pc, ours, down, backlog, socket>>
    BY <1>6 DEF EndOfFile
  <2>2. \A g \in Handlers : serving'[g] \in {serving[g], 0}
    BY <1>0, <1>6 DEF EndOfFile, LibraryTypeOK
  <2>3. \A l \in Loops : Still(l)
    BY <1>0, <1>6, <2>1 DEF EndOfFile, ConnectionTypeOK, Waits
  <2> QED BY <2>1, <2>2, <2>3, AcceptedOnceKept
<1>7. CASE \/ \E k \in Keys : Changes(k)
           \/ ProviderChanges \/ OtherProviderChanges \/ Sends
           \/ service_handler_init \/ gpsctrl_init
           \/ \E h \in Handlers : internal_init(h) \/ ReadsMessage(h)
  BY <1>1, <1>7 DEF Changes, ProviderChanges, OtherProviderChanges, Sends, service_handler_init,
     gpsctrl_init, internal_init, ReadsMessage
<1>8. CASE UNCHANGED linkVars
  BY <1>1, <1>8 DEF linkVars
<1> QED BY <1>2, <1>3, <1>4, <1>5, <1>6, <1>7, <1>8
    DEF LinkNext, MainThread, Framework, HandlerStep


-----------------------------------------------------------------------------
\* Loops that use their connection: they have not seen its end.
Talking == {"connected", "run", "sendAll", "download"}

\* While no second loop is made, the loop that is alive owns localSocket and initDone until it
\* resets initDone itself; before anybody listens there is none.
SingleLoop ==
    /\ \A l, m \in Alive : l = m
    /\ \A l \in Loops : pc[l] \in Talking \cup {"ending"} =>
          initDone /\ localSocket = l /\ ours[l]
    /\ initDone => localSocket \in Alive /\ pc[localSocket] # "closing"

LoopsInv ==
    /\ listener = 0 => Alive = {} /\ ~initDone
    /\ "two loops" \notin lost => SingleLoop

LEMMA LostGrows ==
    ASSUME [LinkNext]_linkVars
    PROVE  lost \subseteq lost'
BY DEF linkVars, LinkNext, Changes, ProviderChanges, OtherProviderChanges, DownloadRequest,
   MainThread, Sends, startServiceLoop, Framework, service_handler_init, gpsctrl_init,
   service_handler_stop, LoopStep, init, initFails, runs, ReadsCommand, ReadEnds, Composes,
   sendAllInfo, downloadPgpsData, Ends, Closes, HandlerStep, internal_init, Accepts, Asks,
   ReadsMessage, parse_message, EndOfFile

\* A loop stays where it is, waits for a connection or gives up, or goes on with the one it has.
Onward(l) ==
    \/ pc'[l] = pc[l]
    \/ /\ pc[l] \notin Talking \cup {"ending", "closing"}
       /\ pc'[l] \notin Talking \cup {"ending", "closing"}
    \/ pc[l] \in Talking \cup {"ending"} /\ pc'[l] \in Talking \cup {"ending"}

LEMMA LoopsKept ==
    ASSUME LinkTypeOK, LoopsInv, lost \subseteq lost', UNCHANGED <<sharedVars, ours>>,
           \A l \in Loops : Onward(l), listener' \in {listener} \cup Handlers
    PROVE  LoopsInv'
<1>1. \A l \in Loops : l \in Alive' <=> l \in Alive
  BY DEF Onward, Alive, Talking
<1>2. Alive' = Alive
  BY <1>1 DEF Alive
<1>3. 0 \notin Handlers
  BY LinkConstants
<1>4. localSocket \in Loops \cup {0}
  BY LinkTypeParts DEF ServiceTypeOK
<1>5. SingleLoop => SingleLoop'
  <2> SUFFICES ASSUME SingleLoop PROVE SingleLoop'
    OBVIOUS
  <2>1. \A l \in Loops : pc'[l] \in Talking \cup {"ending"} => pc[l] \in Talking \cup {"ending"}
    BY DEF Onward, Talking
  <2>2. \A l \in Alive : pc[l] # "closing" => pc'[l] # "closing"
    BY DEF Onward, Alive, Talking
  <2> QED BY <1>2, <2>1, <2>2 DEF SingleLoop
<1> QED BY <1>2, <1>3, <1>5 DEF LoopsInv

LEMMA NextLoops ==
    ASSUME LinkTypeOK, AcceptedOnce, LoopsInv, [LinkNext]_linkVars
    PROVE  LoopsInv'
<1>0. ServiceTypeOK /\ ConnectionTypeOK /\ LibraryTypeOK /\ 0 \notin Loops
  BY LinkTypeParts, LinkConstants
<1>l. lost \subseteq lost'
  BY LostGrows
<1>1. CASE UNCHANGED <<pc, sharedVars, ours>> /\ listener' \in {listener} \cup Handlers
  BY <1>1, <1>l, LoopsKept DEF Onward
<1>2. CASE startServiceLoop
  <2>1. UNCHANGED <<sharedVars, ours, listener>>
    BY <1>2 DEF startServiceLoop
  <2>2. \A l \in Loops : Onward(l)
    BY <1>0, <1>2 DEF startServiceLoop, ServiceTypeOK, Onward, Talking
  <2> QED BY <1>l, <2>1, <2>2, LoopsKept
<1>3. ASSUME NEW l \in Loops, LoopStep(l) PROVE LoopsInv'
  <2>1. CASE init(l)
    <3>1. /\ listener # 0 /\ listener' = listener /\ localSocket' = l /\ initDone'
          /\ pc' = [pc EXCEPT ![l] = "connected"] /\ ours' = [ours EXCEPT ![l] = TRUE]
          /\ Alive # {} => "two loops" \in lost'
      BY <2>1 DEF init
    <3>2. CASE Alive # {}
      BY <3>1, <3>2 DEF LoopsInv
    <3>3. CASE Alive = {}
      <4>0. /\ pc'[l] = "connected" /\ ours'[l]
            /\ \A m \in Loops : m # l => pc'[m] = pc[m] /\ m \notin Alive
        BY <1>0, <3>1, <3>3 DEF ServiceTypeOK, ConnectionTypeOK
      <4>1. Alive' = {l} /\ pc'[l] = "connected" /\ ours'[l]
        BY <4>0 DEF Alive
      <4>2. \A m \in Loops : pc'[m] \in Talking \cup {"ending"} => m = l
        BY <4>1 DEF Alive, Talking
      <4> QED BY <3>1, <4>1, <4>2 DEF LoopsInv, SingleLoop
    <3> QED BY <3>2, <3>3
  <2>2. CASE initFails(l)
    <3>1. /\ listener = 0 /\ UNCHANGED <<listener, initDone>>
          /\ \A m \in Loops : pc'[m] = pc[m] \/ pc'[m] = "done"
      BY <1>0, <2>2 DEF initFails, ServiceTypeOK
    <3>2. Alive' = {} /\ ~initDone'
      BY <3>1 DEF LoopsInv, Alive
    <3>3. \A m \in Loops : pc'[m] \notin Talking \cup {"ending"}
      BY <3>2 DEF Alive, Talking
    <3> QED BY <3>2, <3>3 DEF LoopsInv, SingleLoop
  <2>3. CASE runs(l)
    <3>1. UNCHANGED <<sharedVars, ours, listener, lost>>
      BY <2>3 DEF runs
    <3>2. CASE initDone
      <4>1. \A m \in Loops : Onward(m)
        BY <1>0, <2>3, <3>2 DEF runs, ServiceTypeOK, Onward, Talking
      <4> QED BY <1>l, <3>1, <4>1, LoopsKept
    <3>3. CASE ~initDone
      <4>1. "two loops" \in lost
        BY <2>3, <3>3 DEF runs, LoopsInv, SingleLoop, Talking
      <4>2. listener # 0
        BY <2>3 DEF runs, LoopsInv, Alive
      <4> QED BY <3>1, <4>1, <4>2 DEF LoopsInv
    <3> QED BY <3>2, <3>3
  <2>4. CASE ReadsCommand(l) \/ ReadEnds(l) \/ Composes(l) \/ sendAllInfo(l) \/ downloadPgpsData(l)
    <3>1. UNCHANGED <<sharedVars, ours, listener>>
      BY <2>4 DEF ReadsCommand, ReadEnds, Composes, sendAllInfo, downloadPgpsData
    <3>2. \A m \in Loops : Onward(m)
      BY <1>0, <2>4 DEF ReadsCommand, ReadEnds, Composes, sendAllInfo, downloadPgpsData,
         ServiceTypeOK, Onward, Talking
    <3> QED BY <1>l, <3>1, <3>2, LoopsKept
  <2>5. CASE Ends(l)
    <3>1. /\ ~initDone' /\ UNCHANGED <<localSocket, ours, listener, lost>>
          /\ pc[l] = "ending" /\ pc' = [pc EXCEPT ![l] = "closing"]
      BY <2>5 DEF Ends, ResetsDone
    <3>2. Alive' = Alive /\ l \in Alive
      BY <1>0, <3>1 DEF Alive, ServiceTypeOK
    <3>3. CASE "two loops" \in lost
      BY <3>1, <3>2, <3>3 DEF LoopsInv
    <3>4. CASE "two loops" \notin lost
      <4>1. \A m \in Loops : pc[m] \in Talking \cup {"ending"} => m = l
        BY <3>2, <3>4 DEF LoopsInv, SingleLoop, Alive, Talking
      <4>2. \A m \in Loops : pc'[m] \notin Talking \cup {"ending"}
        BY <1>0, <3>1, <4>1 DEF ServiceTypeOK, Talking
      <4> QED BY <3>1, <3>2, <4>2 DEF LoopsInv, SingleLoop
    <3> QED BY <3>3, <3>4
  <2>6. CASE Closes(l)
    <3>1. /\ UNCHANGED <<initDone, localSocket, listener, lost>>
          /\ pc[l] = "closing" /\ pc' = [pc EXCEPT ![l] = "done"]
      BY <2>6 DEF Closes
    <3>2. l \in Alive /\ Alive' = Alive \ {l}
      BY <1>0, <3>1 DEF Alive, ServiceTypeOK
    <3>3. CASE "two loops" \in lost
      BY <3>1, <3>2, <3>3 DEF LoopsInv
    <3>4. CASE "two loops" \notin lost
      <4>1. Alive' = {} /\ ~initDone
        BY <3>1, <3>2, <3>4 DEF LoopsInv, SingleLoop
      <4>2. \A m \in Loops : pc'[m] \notin Talking \cup {"ending"}
        BY <4>1 DEF Alive, Talking
      <4> QED BY <3>1, <4>1, <4>2 DEF LoopsInv, SingleLoop
    <3> QED BY <3>3, <3>4
  <2> QED BY <1>3, <2>1, <2>2, <2>3, <2>4, <2>5, <2>6 DEF LoopStep
<1>4. CASE \/ \E k \in Keys : Changes(k)
           \/ ProviderChanges \/ OtherProviderChanges \/ DownloadRequest \/ Sends \/ Framework
           \/ \E h \in Handlers : HandlerStep(h)
  BY <1>1, <1>4 DEF Changes, ProviderChanges, OtherProviderChanges, DownloadRequest, Sends,
     Framework, service_handler_init, gpsctrl_init, service_handler_stop, HandlerStep,
     internal_init, Accepts, Asks, ReadsMessage, EndOfFile
<1>5. CASE UNCHANGED linkVars
  BY <1>1, <1>5 DEF linkVars
<1> QED BY <1>2, <1>3, <1>4, <1>5 DEF LinkNext, MainThread

\* The texts, and the threads that are past accept.
LEMMA NextTexts ==
    ASSUME LinkTypeOK, TextsOK, [LinkNext]_linkVars
    PROVE  TextsOK'
<1>0. ServiceTypeOK
  BY LinkTypeParts
<1>1. CASE UNCHANGED <<statusVars, pc, todo, text>>
  BY <1>1 DEF TextsOK
<1>2. ASSUME NEW k \in Keys, Changes(k) PROVE TextsOK'
  <2>1. PICK v : status' = [status EXCEPT ![k] = v] /\ mainText' = [key |-> k, val |-> v]
    BY <1>2 DEF Changes
  <2>2. mainText'.key = k /\ mainText'.val = status'[k]
    BY <1>0, <2>1 DEF ServiceTypeOK
  <2>3. UNCHANGED <<pc, todo, text>>
    BY <1>2 DEF Changes
  <2> QED BY <2>2, <2>3 DEF TextsOK
<1>3. CASE Sends
  BY <1>3 DEF Sends, TextsOK
<1>4. CASE startServiceLoop
  <2>1. UNCHANGED <<statusVars, todo, text>>
    BY <1>4 DEF startServiceLoop
  <2>2. \A l \in Loops : pc[l] = "sendAll" => pc'[l] = "sendAll"
    BY <1>0, <1>4 DEF startServiceLoop, ServiceTypeOK
  <2> QED BY <2>1, <2>2 DEF TextsOK
<1>5. ASSUME NEW l \in Loops, LoopStep(l) PROVE TextsOK'
  <2>1. CASE Composes(l)
    <3>1. Head(todo[l]) \in Keys /\ Head(todo[l]) # "none"
      BY <1>0, <2>1, LinkConstants DEF Composes, ServiceTypeOK
    <3>2. /\ text'[l].key = Head(todo[l])
          /\ \A m \in Loops : m # l => text'[m] = text[m]
          /\ pc[l] = "sendAll" /\ todo[l] # << >>
          /\ UNCHANGED <<statusVars, pc, todo>>
      BY <1>0, <2>1 DEF Composes, ServiceTypeOK
    <3> QED BY <3>2 DEF TextsOK
  <2>2. CASE sendAllInfo(l)
    <3>1. /\ text'[l] = None
          /\ \A m \in Loops : m # l => text'[m] = text[m] /\ todo'[m] = todo[m] /\ pc'[m] = pc[m]
          /\ UNCHANGED statusVars
      BY <1>0, <2>2 DEF sendAllInfo, ServiceTypeOK
    <3> QED BY <3>1 DEF TextsOK
  <2>3. CASE \/ init(l) \/ initFails(l) \/ runs(l) \/ ReadsCommand(l) \/ ReadEnds(l)
             \/ downloadPgpsData(l) \/ Ends(l) \/ Closes(l)
    <3>1. /\ UNCHANGED <<statusVars, text>> /\ pc[l] # "sendAll"
          /\ \A m \in Loops : m # l => pc'[m] = pc[m] /\ todo'[m] = todo[m]
      BY <1>0, <2>3 DEF init, initFails, runs, ReadsCommand, ReadEnds, downloadPgpsData, Ends,
         Closes, ServiceTypeOK
    <3> QED BY <3>1 DEF TextsOK
  <2> QED BY <1>5, <2>1, <2>2, <2>3 DEF LoopStep
<1>6. CASE \/ ProviderChanges \/ OtherProviderChanges \/ DownloadRequest \/ Framework
           \/ \E h \in Handlers : HandlerStep(h)
  BY <1>1, <1>6 DEF ProviderChanges, OtherProviderChanges, DownloadRequest,
     Framework, service_handler_init, gpsctrl_init, service_handler_stop, HandlerStep,
     internal_init, Accepts, Asks, ReadsMessage, EndOfFile
<1>7. CASE UNCHANGED linkVars
  BY <1>1, <1>7 DEF linkVars
<1> QED BY <1>2, <1>3, <1>4, <1>5, <1>6, <1>7 DEF LinkNext, MainThread

\* service_handler_init starts the threads in order, and none of them ends.
Started == \A g, h \in Handlers : g < h /\ thread[h] # "none" => thread[g] # "none"

LEMMA NextThreads ==
    ASSUME LinkTypeOK, Connected, Started, [LinkNext]_linkVars
    PROVE  Connected' /\ Started'
<1>0. LibraryTypeOK /\ Handlers \subseteq Nat
  BY LinkTypeParts, LinkConstants
<1>1. CASE UNCHANGED <<thread, serving>>
  BY <1>1 DEF Connected, Started
<1>2. CASE service_handler_init
  <2>1. PICK h \in Handlers : /\ thread[h] = "none" /\ \A g \in 1..(h - 1) : thread[g] # "none"
                              /\ thread' = [thread EXCEPT ![h] = "init"]
    BY <1>2 DEF service_handler_init
  <2>2. \A g \in Handlers : g < h => thread[g] # "none"
    BY <1>0, <2>1, LinkConstants
  <2>3. \A g \in Handlers : IF g = h THEN thread'[g] = "init" ELSE thread'[g] = thread[g]
    BY <1>0, <2>1 DEF LibraryTypeOK
  <2>4. UNCHANGED serving
    BY <1>2 DEF service_handler_init
  <2>5. Connected'
    BY <2>3, <2>4 DEF Connected
  <2>6. Started'
    BY <1>0, <2>1, <2>2, <2>3 DEF Started
  <2> QED BY <2>5, <2>6
<1>3. ASSUME NEW h \in Handlers, HandlerStep(h) PROVE Connected' /\ Started'
  <2>1. /\ thread'[h] # "none" /\ thread[h] # "none"
        /\ \A g \in Handlers : g # h => thread'[g] = thread[g] /\ serving'[g] = serving[g]
    BY <1>0, <1>3 DEF HandlerStep, internal_init, Accepts, Asks, ReadsMessage, EndOfFile,
       LibraryTypeOK
  <2>2. thread'[h] \in {"ask", "read", "fails"} => serving'[h] \in Loops
    <3>1. CASE internal_init(h) \/ EndOfFile(h)
      BY <1>0, <3>1 DEF internal_init, EndOfFile, LibraryTypeOK
    <3>2. CASE Accepts(h)
      <4>1. backlog[h] \in Seq(Loops) /\ backlog[h] # << >>
        BY <1>0, <3>2 DEF Accepts, LibraryTypeOK
      <4>2. Head(backlog[h]) \in Loops
        BY <4>1
      <4> QED BY <1>0, <3>2, <4>2 DEF Accepts, LibraryTypeOK
    <3>3. CASE Asks(h) \/ ReadsMessage(h)
      BY <3>3 DEF Asks, ReadsMessage, Connected
    <3> QED BY <1>3, <3>1, <3>2, <3>3 DEF HandlerStep
  <2>3. Connected'
    BY <2>1, <2>2 DEF Connected
  <2>4. Started'
    BY <2>1 DEF Started
  <2> QED BY <2>3, <2>4
<1>4. CASE \/ \E k \in Keys : Changes(k)
           \/ ProviderChanges \/ OtherProviderChanges \/ DownloadRequest \/ MainThread
           \/ gpsctrl_init \/ service_handler_stop
           \/ \E l \in Loops : LoopStep(l)
  BY <1>1, <1>4 DEF Changes, ProviderChanges, OtherProviderChanges, DownloadRequest, MainThread,
     Sends, startServiceLoop, gpsctrl_init, service_handler_stop, LoopStep, init, initFails, runs,
     ReadsCommand, ReadEnds, Composes, sendAllInfo, downloadPgpsData, Ends, Closes
<1>5. CASE UNCHANGED linkVars
  BY <1>1, <1>5 DEF linkVars
<1> QED BY <1>2, <1>3, <1>4, <1>5 DEF LinkNext, Framework


-----------------------------------------------------------------------------
\* The commands that loop l finds in order, while no race has happened and the library has not
\* closed its end: no QUIT, after each DOWNLOAD its address, unless that is still to be written.
Orderly(l) ==
    /\ pc[l] \in Talking
    /\ \A i \in 1..Len(down[l]) : down[l][i] # "SERVICE_QUIT"
    /\ \A i \in 1..(Len(down[l]) - 1) :
          down[l][i] = "DOWNLOAD_PGPS_DATA" => down[l][i + 1] = "URL"
    /\ pc[l] = "download" /\ down[l] # << >> => down[l][1] = "URL"
    /\ socket = l /\ request = "none" =>
          IF down[l] = << >> THEN pc[l] # "download"
                             ELSE down[l][Len(down[l])] # "DOWNLOAD_PGPS_DATA"

OrderInv == lost = {} => \A l \in Loops : theirs[l] => Orderly(l)

LEMMA OrderKept ==
    ASSUME OrderInv, lost \subseteq lost',
           \A l \in Loops : theirs[l]' => theirs[l] \/ Orderly(l)',
           \A l \in Loops : \/ Orderly(l) => Orderly(l)'
                            \/ lost' # {} \/ ~theirs[l]'
                            \/ /\ pc'[l] = pc[l] /\ down'[l] = down[l]
                               /\ socket' = l /\ request' = "none" => socket = l /\ request = "none"
    PROVE  OrderInv'
BY DEF OrderInv, Orderly

\* A command is appended.
LEMMA AppendOrderly ==
    ASSUME LinkTypeOK, NEW l \in Loops, NEW cmd \in Orders, cmd # "SERVICE_QUIT", Orderly(l),
           (socket = l /\ request = "none") \/ cmd = "URL",
           down'[l] = Append(down[l], cmd), pc'[l] = pc[l],
           cmd = "DOWNLOAD_PGPS_DATA" => request' # "none"
    PROVE  Orderly(l)'
<1> DEFINE s == down[l]
           t == down'[l]
<1>1. s \in Seq(Orders)
  BY LinkTypeParts DEF ConnectionTypeOK
<1>2. /\ Len(t) = Len(s) + 1 /\ Len(s) \in Nat /\ t # << >>
      /\ \A i \in 1..Len(s) : t[i] = s[i]
      /\ t[Len(s) + 1] = cmd
  BY <1>1
<1>3. \A i \in 1..Len(t) : t[i] # "SERVICE_QUIT"
  BY <1>2 DEF Orderly
<1>4. ASSUME NEW i \in 1..(Len(t) - 1), t[i] = "DOWNLOAD_PGPS_DATA" PROVE t[i + 1] = "URL"
  <2>1. CASE i = Len(s)
    <3>1. s # << >> /\ s[Len(s)] = "DOWNLOAD_PGPS_DATA"
      BY <1>1, <1>2, <1>4, <2>1
    <3>2. cmd = "URL"
      BY <3>1 DEF Orderly
    <3> QED BY <1>2, <2>1, <3>2
  <2>2. CASE i # Len(s)
    <3>1. i \in 1..(Len(s) - 1) /\ t[i] = s[i] /\ t[i + 1] = s[i + 1]
      BY <1>2, <2>2
    <3> QED BY <1>4, <3>1 DEF Orderly
  <2> QED BY <2>1, <2>2
<1>5. pc[l] = "download" => t[1] = "URL"
  <2> SUFFICES ASSUME pc[l] = "download" PROVE t[1] = "URL"
    OBVIOUS
  <2>1. CASE s = << >>
    <3>1. cmd = "URL"
      BY <2>1 DEF Orderly
    <3>2. Len(s) = 0
      BY <2>1
    <3> QED BY <1>2, <3>1, <3>2
  <2>2. CASE s # << >>
    <3>1. 1 \in 1..Len(s)
      BY <1>1, <2>2
    <3> QED BY <1>2, <2>2, <3>1 DEF Orderly
  <2> QED BY <2>1, <2>2
<1>6. request' = "none" => t[Len(t)] # "DOWNLOAD_PGPS_DATA"
  BY <1>2
<1> QED BY <1>2, <1>3, <1>4, <1>5, <1>6 DEF Orderly

\* The first command is taken.
LEMMA TailOrderly ==
    ASSUME LinkTypeOK, NEW l \in Loops, Orderly(l), down[l] # << >>,
           down'[l] = Tail(down[l]), pc'[l] \in Talking,
           pc'[l] = "download" <=> down[l][1] = "DOWNLOAD_PGPS_DATA",
           UNCHANGED <<socket, request>>
    PROVE  Orderly(l)'
<1> DEFINE s == down[l]
           t == down'[l]
<1>1. s \in Seq(Orders)
  BY LinkTypeParts DEF ConnectionTypeOK
<1>2. /\ Len(t) = Len(s) - 1 /\ Len(s) \in Nat \ {0}
      /\ \A i \in 1..Len(t) : t[i] = s[i + 1]
      /\ t \in Seq(Orders)
  BY <1>1, HeadTailProperties
<1>3. \A i \in 1..Len(t) : t[i] # "SERVICE_QUIT"
  BY <1>2 DEF Orderly
<1>4. ASSUME NEW i \in 1..(Len(t) - 1), t[i] = "DOWNLOAD_PGPS_DATA" PROVE t[i + 1] = "URL"
  <2>1. i + 1 \in 1..(Len(s) - 1) /\ t[i] = s[i + 1] /\ t[i + 1] = s[(i + 1) + 1]
    BY <1>2
  <2> QED BY <1>4, <2>1 DEF Orderly
<1>5. ASSUME pc'[l] = "download", t # << >> PROVE t[1] = "URL"
  <2>1. 1 \in 1..(Len(s) - 1) /\ t[1] = s[1 + 1]
    BY <1>2, <1>5
  <2> QED BY <1>5, <2>1 DEF Orderly
<1>6. ASSUME socket = l, request = "none"
      PROVE  IF t = << >> THEN pc'[l] # "download" ELSE t[Len(t)] # "DOWNLOAD_PGPS_DATA"
  <2>1. s[Len(s)] # "DOWNLOAD_PGPS_DATA"
    BY <1>6 DEF Orderly
  <2>2. ASSUME t = << >> PROVE Len(s) = 1
    <3>1. Len(t) = 0
      BY <2>2, EmptySeq
    <3> QED BY <1>2, <3>1
  <2>3. t # << >> => t[Len(t)] = s[Len(s)]
    BY <1>2
  <2> QED BY <2>1, <2>2, <2>3
<1> QED BY <1>3, <1>4, <1>5, <1>6 DEF Orderly

LEMMA NextOrder ==
    ASSUME LinkTypeOK, AcceptedOnce, LoopsInv, OrderInv, [LinkNext]_linkVars
    PROVE  OrderInv'
<1>0. ServiceTypeOK /\ ConnectionTypeOK /\ LibraryTypeOK /\ 0 \notin Loops
  BY LinkTypeParts, LinkConstants
<1>l. lost \subseteq lost'
  BY LostGrows
<1> SUFFICES ASSUME lost' = {} PROVE OrderInv'
  BY DEF OrderInv
<1>s. SingleLoop /\ \A l \in Loops : theirs[l] => Orderly(l)
  BY <1>l DEF OrderInv, LoopsInv
<1>1. CASE UNCHANGED <<pc, down, socket, request, theirs>>
  BY <1>1, <1>l, OrderKept
<1>2. CASE startServiceLoop
  <2>1. UNCHANGED <<down, socket, request, theirs>>
    BY <1>2 DEF startServiceLoop
  <2>0. \A l \in Loops : pc'[l] = pc[l] \/ pc[l] = "none"
    BY <1>0, <1>2 DEF startServiceLoop, ServiceTypeOK
  <2>2. \A l \in Loops : theirs[l] => pc'[l] = pc[l]
    BY <2>0, <1>s DEF Orderly, Talking
  <2> QED BY <1>l, <2>1, <2>2, OrderKept
<1>3. CASE DownloadRequest
  <2>1. UNCHANGED <<pc, socket, theirs>>
    BY <1>3 DEF DownloadRequest
  <2>2. PICK cmd \in {"DOWNLOAD_PGPS_DATA", "URL"} :
            /\ Writes(cmd)
            /\ cmd = "DOWNLOAD_PGPS_DATA" => request = "none" /\ request' = "command"
            /\ cmd = "URL" => request = "command"
    BY <1>3 DEF DownloadRequest
  <2>3. cmd \in Orders /\ cmd # "SERVICE_QUIT"
    BY DEF Orders
  <2>4. ASSUME NEW l \in Loops, theirs[l] PROVE Orderly(l)'
    <3>1. Orderly(l) /\ ours[l]
      BY <1>s, <2>4 DEF SingleLoop, Orderly
    <3>2. CASE l = socket
      <4>1. down'[l] = Append(down[l], cmd)
        BY <2>2, <2>3, <2>4, <3>1, <3>2, CommandWritten
      <4> QED BY <2>1, <2>2, <2>3, <3>1, <3>2, <4>1, AppendOrderly
    <3>3. CASE l # socket
      <4>1. down'[l] = down[l]
        BY <2>2, <2>3, <3>3, CommandWritten
      <4> QED BY <2>1, <3>1, <3>3, <4>1 DEF Orderly
    <3> QED BY <3>2, <3>3
  <2> QED BY <2>1, <2>4 DEF OrderInv
<1>4. CASE service_handler_stop
  <2>1. UNCHANGED <<pc, socket, request>>
    BY <1>4 DEF service_handler_stop
  <2>2. \A l \in Loops : theirs'[l] => theirs[l] /\ l # socket
    BY <1>4 DEF service_handler_stop
  <2>3. \A l \in Loops : l # socket => down'[l] = down[l]
    BY <1>4, CommandWritten DEF service_handler_stop, TellsQuit, Orders
  <2> QED BY <1>l, <2>1, <2>2, <2>3, OrderKept
<1>5. ASSUME NEW h \in Handlers, Asks(h) PROVE OrderInv'
  <2>1. UNCHANGED <<pc, socket, request, theirs>> /\ request # "command"
    BY <1>5 DEF Asks
  <2>2. request = "none"
    BY <1>0, <2>1 DEF LibraryTypeOK
  <2>3. Writes("SEND_ALL_INFO") /\ "SEND_ALL_INFO" \in Orders
    BY <1>5 DEF Asks, Orders
  <2>4. ASSUME NEW l \in Loops, theirs[l] PROVE Orderly(l)'
    <3>1. Orderly(l) /\ ours[l]
      BY <1>s, <2>4 DEF SingleLoop, Orderly
    <3>2. CASE l = socket
      <4>1. down'[l] = Append(down[l], "SEND_ALL_INFO")
        BY <2>3, <2>4, <3>1, <3>2, CommandWritten
      <4> QED BY <2>1, <2>2, <2>3, <3>1, <3>2, <4>1, AppendOrderly
    <3>3. CASE l # socket
      <4>1. down'[l] = down[l]
        BY <2>3, <3>3, CommandWritten
      <4> QED BY <2>1, <3>1, <3>3, <4>1 DEF Orderly
    <3> QED BY <3>2, <3>3
  <2> QED BY <2>1, <2>4 DEF OrderInv
<1>6. ASSUME NEW h \in Handlers, Accepts(h) PROVE OrderInv'
  <2>1. UNCHANGED <<pc, down, request, theirs>> /\ socket' = Head(backlog[h])
    BY <1>6 DEF Accepts
  <2>2. backlog[h] \in Seq(Loops) /\ backlog[h] # << >>
    BY <1>0, <1>6 DEF Accepts, LibraryTypeOK
  <2>3. Head(backlog[h]) = backlog[h][1] /\ 1 \in 1..Len(backlog[h])
    BY <2>2
  <2>4. \A l \in Loops : socket' = l => down[l] = << >> /\ pc[l] # "download"
    BY <2>1, <2>3 DEF AcceptedOnce, Fresh, Backlogged, Contains
  <2> QED BY <1>s, <2>1, <2>4 DEF OrderInv, Orderly
<1>7. CASE service_handler_init
  <2>1. UNCHANGED <<pc, down, request, theirs>> /\ socket' = 0
    BY <1>7 DEF service_handler_init
  <2> QED BY <1>0, <1>l, <2>1, OrderKept
<1>8. ASSUME NEW h \in Handlers, EndOfFile(h) PROVE OrderInv'
  <2>1. UNCHANGED <<pc, down, socket, request>>
    BY <1>8 DEF EndOfFile
  <2>2. \A l \in Loops : theirs'[l] => theirs[l]
    BY <1>0, <1>8 DEF EndOfFile, ConnectionTypeOK
  <2> QED BY <1>l, <2>1, <2>2, OrderKept
<1>9. ASSUME NEW l \in Loops, LoopStep(l) PROVE OrderInv'
  <2>0. \A m \in Loops : pc[m] \in Talking \cup {"ending"} => initDone /\ ours[m]
    BY <1>s DEF SingleLoop
  <2>1. CASE init(l)
    <3>1. /\ pc[l] = "init" /\ pc' = [pc EXCEPT ![l] = "connected"]
          /\ theirs' = [theirs EXCEPT ![l] = TRUE] /\ UNCHANGED <<down, socket, request>>
      BY <2>1 DEF init
    <3>2. down[l] = << >> /\ socket # l
      BY <3>1 DEF AcceptedOnce, Fresh, Waits
    <3>3. Len(down'[l]) = 0 /\ pc'[l] = "connected"
      BY <1>0, <3>1, <3>2 DEF ServiceTypeOK
    <3>4. Orderly(l)'
      BY <3>1, <3>2, <3>3 DEF Orderly, Talking
    <3>5. \A m \in Loops : m # l => pc'[m] = pc[m] /\ (theirs'[m] => theirs[m])
      BY <1>0, <3>1 DEF ServiceTypeOK, ConnectionTypeOK
    <3>6. \A m \in Loops : m # l /\ Orderly(m) => Orderly(m)'
      BY <3>1, <3>5 DEF Orderly
    <3> QED BY <1>s, <3>4, <3>5, <3>6 DEF OrderInv
  <2>2. CASE \/ initFails(l) \/ runs(l) \/ ReadEnds(l) \/ Composes(l) \/ sendAllInfo(l)
             \/ Ends(l) \/ Closes(l)
    <3>1. UNCHANGED <<down, socket, request, theirs>>
      BY <2>2 DEF initFails, runs, ReadEnds, Composes, sendAllInfo, Ends, Closes
    <3>2. \A m \in Loops : m # l => pc'[m] = pc[m]
      BY <1>0, <2>2 DEF initFails, runs, ReadEnds, Composes, sendAllInfo, Ends, Closes,
         ServiceTypeOK
    <3>3. theirs[l] =>
                \/ pc'[l] = pc[l]
                \/ pc[l] # "download" /\ pc'[l] \in Talking \ {"download"}
      <4> SUFFICES ASSUME theirs[l]
                   PROVE  \/ pc'[l] = pc[l]
                          \/ pc[l] # "download" /\ pc'[l] \in Talking \ {"download"}
        OBVIOUS
      <4>1. pc[l] \in Talking /\ initDone /\ ours[l]
        BY <1>s, <2>0 DEF Orderly
      <4>2. ~ReadEnds(l) /\ ~Ends(l) /\ ~Closes(l) /\ ~initFails(l)
        BY <4>1 DEF ReadEnds, Gone, Ends, Closes, initFails, Talking
      <4>3. runs(l) \/ Composes(l) \/ sendAllInfo(l)
        BY <2>2, <4>2
      <4> QED BY <1>0, <4>1, <4>3 DEF runs, Composes, sendAllInfo, ServiceTypeOK, Talking
    <3>4. ASSUME NEW m \in Loops, theirs[m] PROVE Orderly(m)'
      <4>1. Orderly(m)
        BY <1>s, <3>4
      <4>2. \/ pc'[m] = pc[m]
            \/ pc[m] # "download" /\ pc'[m] \in Talking \ {"download"}
        <5>1. CASE m = l
          BY <3>3, <3>4, <5>1
        <5>2. CASE m # l
          BY <3>2, <5>2
        <5> QED BY <5>1, <5>2
      <4> QED BY <3>1, <4>1, <4>2 DEF Orderly
    <3> QED BY <3>1, <3>4 DEF OrderInv
  <2>3. CASE ReadsCommand(l)
    <3>1. /\ UNCHANGED <<socket, request, theirs>>
          /\ \A m \in Loops : m # l => pc'[m] = pc[m] /\ down'[m] = down[m]
          /\ down[l] # << >> /\ down'[l] = Tail(down[l])
      BY <1>0, <2>3 DEF ReadsCommand, ServiceTypeOK, ConnectionTypeOK
    <3>2. ASSUME theirs[l] PROVE Orderly(l)'
      <4>1. Orderly(l) /\ 1 \in 1..Len(down[l]) /\ Head(down[l]) = down[l][1]
        BY <1>0, <1>s, <3>1, <3>2 DEF ConnectionTypeOK
      <4>2. down[l][1] \in Orders /\ down[l][1] # "SERVICE_QUIT"
        BY <1>0, <4>1 DEF ConnectionTypeOK, Orderly
      <4>3. /\ pc'[l] \in Talking
            /\ pc'[l] = "download" <=> down[l][1] = "DOWNLOAD_PGPS_DATA"
        BY <1>0, <2>3, <4>1, <4>2 DEF ReadsCommand, ServiceTypeOK, Talking
      <4> QED BY <3>1, <4>1, <4>3, TailOrderly
    <3>3. \A m \in Loops : m # l /\ Orderly(m) => Orderly(m)'
      BY <3>1 DEF Orderly
    <3> QED BY <1>s, <3>1, <3>2, <3>3 DEF OrderInv
  <2>4. CASE downloadPgpsData(l)
    <3>1. /\ UNCHANGED <<socket, request, theirs>>
          /\ \A m \in Loops : m # l => pc'[m] = pc[m] /\ down'[m] = down[m]
          /\ pc'[l] = "run" /\ pc[l] = "download"
      BY <1>0, <2>4 DEF downloadPgpsData, ServiceTypeOK, ConnectionTypeOK
    <3>2. ASSUME theirs[l] PROVE Orderly(l)'
      <4>1. Orderly(l) /\ ours[l] /\ down[l] # << >>
        BY <1>s, <2>0, <2>4, <3>2 DEF downloadPgpsData, Gone, Orderly
      <4>2. down[l][1] = "URL" /\ Head(down[l]) = down[l][1]
        BY <1>0, <3>1, <4>1 DEF Orderly, ConnectionTypeOK
      <4>3. down'[l] = Tail(down[l])
        BY <1>0, <2>4, <4>1, <4>2 DEF downloadPgpsData, ConnectionTypeOK
      <4> QED BY <3>1, <4>1, <4>2, <4>3, TailOrderly DEF Talking
    <3>3. \A m \in Loops : m # l /\ Orderly(m) => Orderly(m)'
      BY <3>1 DEF Orderly
    <3> QED BY <1>s, <3>1, <3>2, <3>3 DEF OrderInv
  <2> QED BY <1>9, <2>1, <2>2, <2>3, <2>4 DEF LoopStep
<1>10. CASE \/ \E k \in Keys : Changes(k)
            \/ ProviderChanges \/ OtherProviderChanges \/ Sends \/ gpsctrl_init
            \/ \E h \in Handlers : internal_init(h) \/ ReadsMessage(h)
  BY <1>1, <1>10 DEF Changes, ProviderChanges, OtherProviderChanges, Sends, gpsctrl_init,
     internal_init, ReadsMessage
<1>11. CASE UNCHANGED linkVars
  BY <1>1, <1>11 DEF linkVars
<1> QED BY <1>2, <1>3, <1>4, <1>5, <1>6, <1>7, <1>8, <1>9, <1>10, <1>11
    DEF LinkNext, MainThread, Framework, HandlerStep

\* The APN that parse_message compares with is the one that GpsCtrlContext has, except between
\* service_handler_init and gpsctrl_init.
OldInfo ==
    lost = {} =>
        /\ libPc = "half" => service = Initially
        /\ libPc # "half" /\ "APN_INFO" \in Keys => service["APN_INFO"] = gps["APN_INFO"]

LEMMA NextOldInfo ==
    ASSUME LinkTypeOK, OldInfo, [LinkNext]_linkVars
    PROVE  OldInfo'
<1>0. LibraryTypeOK /\ lost \subseteq lost'
  BY LinkTypeParts, LostGrows
<1> SUFFICES ASSUME lost' = {} PROVE OldInfo'
  BY DEF OldInfo
<1>s. lost = {}
  BY <1>0
<1>1. CASE UNCHANGED <<libPc, service, gps>>
  BY <1>s, <1>1 DEF OldInfo
<1>2. CASE service_handler_init \/ gpsctrl_init \/ service_handler_stop
  BY <1>s, <1>2 DEF service_handler_init, initializeServiceContext, gpsctrl_init,
     service_handler_stop, OldInfo, Initially
<1>3. ASSUME NEW h \in Handlers, ReadsMessage(h) PROVE OldInfo'
  <2>1. libPc # "half" /\ libPc' = libPc
    BY <1>3 DEF ReadsMessage, parse_message
  <2>2. PICK msg : parse_message(msg)
    BY <1>3 DEF ReadsMessage
  <2>3. "APN_INFO" \in Keys => service'["APN_INFO"] = gps'["APN_INFO"]
    BY <1>0, <1>s, <2>1, <2>2 DEF parse_message, OldInfo, LibraryTypeOK
  <2> QED BY <2>1, <2>3 DEF OldInfo
<1>4. CASE \/ \E k \in Keys : Changes(k)
           \/ ProviderChanges \/ OtherProviderChanges \/ DownloadRequest \/ MainThread
           \/ \E l \in Loops : LoopStep(l)
           \/ \E h \in Handlers : internal_init(h) \/ Accepts(h) \/ Asks(h) \/ EndOfFile(h)
  BY <1>1, <1>4 DEF Changes, ProviderChanges, OtherProviderChanges, DownloadRequest, MainThread,
     Sends, startServiceLoop, LoopStep, init, initFails, runs,
     ReadsCommand, ReadEnds, Composes, sendAllInfo, downloadPgpsData, Ends, Closes,
     internal_init, Accepts, Asks, EndOfFile
<1>5. CASE UNCHANGED linkVars
  BY <1>1, <1>5 DEF linkVars
<1> QED BY <1>2, <1>3, <1>4, <1>5 DEF LinkNext, Framework, HandlerStep


-----------------------------------------------------------------------------
\* Thread h is the last that was started, has asked loop l for the settings, and reads what
\* comes.
Latest(h) == \A g \in Handlers : h < g => thread[g] = "none"
Reads(h, l) ==
    libPc # "off" /\ thread[h] = "read" /\ serving[h] = l /\ theirs[l] /\ Latest(h)

\* The value of k is in the connection with no other behind it, or it has arrived.
Message(k) == [key |-> k, val |-> status[k]]
UnderWay(l, k) ==
    \E i \in 1..Len(up[l]) :
        up[l][i] = Message(k) /\ \A j \in 1..Len(up[l]) : i < j => up[l][j].key # k
Arrived(l, k) ==
    libPc = "on" /\ gps[k] = status[k] /\ \A i \in 1..Len(up[l]) : up[l][i].key # k

\* Why setting k is or will be right at the library: the loop is to send all settings, or this
\* one; the main thread is to send it; it was sent; or it is an APN that is not defined.
Covered(l, k) ==
    \/ Contains(down[l], "SEND_ALL_INFO")
    \/ pc[l] = "sendAll" /\ Contains(todo[l], k)
    \/ mainText.key = k
    \/ k = "APN_INFO" /\ status[k] = 0
    \/ UnderWay(l, k)
    \/ Arrived(l, k)

CoverInv ==
    lost = {} =>
        \A l \in Loops, h \in Handlers : Reads(h, l) => \A k \in Keys : Covered(l, k)

LEMMA CoverKept ==
    ASSUME CoverInv, lost \subseteq lost',
           \A l \in Loops, h \in Handlers :
              lost' = {} /\ Reads(h, l)' => Reads(h, l) \/ \A k \in Keys : Covered(l, k)',
           \A l \in Loops, h \in Handlers, k \in Keys :
              lost' = {} /\ Reads(h, l)' /\ Covered(l, k) => Covered(l, k)'
    PROVE  CoverInv'
BY DEF CoverInv

\* A message about another setting does not matter; one with the value of k is the last.
LEMMA SentCovers ==
    ASSUME LinkTypeOK, NEW l \in Loops, NEW k \in Keys, NEW msg \in Messages,
           up'[l] = Append(up[l], msg), UNCHANGED status
    PROVE  /\ msg = Message(k) => UnderWay(l, k)'
           /\ msg.key # k /\ UnderWay(l, k) => UnderWay(l, k)'
           /\ msg.key # k /\ Arrived(l, k) /\ UNCHANGED <<libPc, gps>> => Arrived(l, k)'
<1>1. up[l] \in Seq(Messages)
  BY LinkTypeParts DEF ConnectionTypeOK
<1>2. /\ Len(up'[l]) = Len(up[l]) + 1 /\ Len(up[l]) \in Nat
      /\ \A i \in 1..Len(up[l]) : up'[l][i] = up[l][i]
      /\ up'[l][Len(up[l]) + 1] = msg
  BY <1>1
<1>3. Message(k)' = Message(k)
  BY DEF Message
<1>4. msg = Message(k) => UnderWay(l, k)'
  BY <1>2, <1>3 DEF UnderWay
<1>5. ASSUME msg.key # k, UnderWay(l, k) PROVE UnderWay(l, k)'
  <2>1. PICK i \in 1..Len(up[l]) :
            up[l][i] = Message(k) /\ \A j \in 1..Len(up[l]) : i < j => up[l][j].key # k
    BY <1>5 DEF UnderWay
  <2>2. \A j \in 1..Len(up'[l]) : i < j => up'[l][j].key # k
    BY <1>2, <1>5, <2>1
  <2> QED BY <1>2, <1>3, <2>1, <2>2 DEF UnderWay
<1>6. ASSUME msg.key # k, Arrived(l, k), UNCHANGED <<libPc, gps>> PROVE Arrived(l, k)'
  <2>1. \A i \in 1..Len(up'[l]) : up'[l][i].key # k
    BY <1>2, <1>6 DEF Arrived
  <2> QED BY <1>6, <2>1 DEF Arrived
<1> QED BY <1>4, <1>5, <1>6

\* The service may send, as long as it is connected: the message is appended.
LEMMA SendsToReader ==
    ASSUME LinkTypeOK, LoopsInv, OrderInv, lost = {}, NEW l \in Loops, theirs[l],
           NEW msg \in Messages, sendMessage(msg)
    PROVE  up'[l] = Append(up[l], msg)
<1>1. Orderly(l)
  BY DEF OrderInv
<1>2. initDone /\ localSocket = l /\ ours[l] /\ ~Gone(l)
  BY <1>1 DEF LoopsInv, SingleLoop, Orderly, Gone
<1> QED BY <1>2, MessageSent

\* A step that leaves the settings and their messages alone.
LEMMA CoverFrame ==
    ASSUME CoverInv, lost \subseteq lost', UNCHANGED <<status, up, gps>>,
           mainText' = mainText,
           libPc' = libPc \/ (libPc = "half" /\ libPc' = "on"),
           \A l \in Loops, h \in Handlers : lost' = {} /\ Reads(h, l)' =>
              /\ Reads(h, l)
              /\ Contains(down[l], "SEND_ALL_INFO") =>
                    \/ Contains(down[l], "SEND_ALL_INFO")'
                    \/ \A k \in Keys : pc'[l] = "sendAll" /\ Contains(todo'[l], k)
              /\ pc[l] = "sendAll" => pc'[l] = "sendAll" /\ todo'[l] = todo[l]
    PROVE  CoverInv'
<1>1. ASSUME NEW l \in Loops, NEW h \in Handlers, NEW k \in Keys, lost' = {}, Reads(h, l)',
             Covered(l, k)
      PROVE  Covered(l, k)'
  <2>1. UnderWay(l, k) => UnderWay(l, k)'
    BY DEF UnderWay, Message
  <2>2. Arrived(l, k) => Arrived(l, k)'
    BY DEF Arrived
  <2> QED BY <1>1, <2>1, <2>2 DEF Covered
<1> QED BY <1>1, CoverKept


LEMMA ContainsAppended ==
    ASSUME NEW S, NEW s \in Seq(S), NEW x \in S, NEW e
    PROVE  Contains(s, e) \/ x = e => Contains(Append(s, x), e)
<1>1. /\ Len(Append(s, x)) = Len(s) + 1 /\ Len(s) \in Nat
      /\ \A i \in 1..Len(s) : Append(s, x)[i] = s[i]
      /\ Append(s, x)[Len(s) + 1] = x
  OBVIOUS
<1> QED BY <1>1 DEF Contains

LEMMA ContainsInTail ==
    ASSUME NEW S, NEW s \in Seq(S), s # << >>, NEW e, Contains(s, e), Head(s) # e
    PROVE  Contains(Tail(s), e)
<1>1. PICK i \in 1..Len(s) : s[i] = e
  BY DEF Contains
<1>2. i # 1 /\ Len(Tail(s)) = Len(s) - 1 /\ Len(s) \in Nat
  BY <1>1
<1>3. i - 1 \in 1..Len(Tail(s)) /\ Tail(s)[i - 1] = s[(i - 1) + 1]
  BY <1>1, <1>2, HeadTailProperties
<1> QED BY <1>1, <1>2, <1>3 DEF Contains

\* A thread that reads has a connection to the one loop that is alive.
LEMMA ReaderAndLoop ==
    ASSUME LinkTypeOK, LoopsInv, OrderInv, lost = {}, NEW l \in Loops, theirs[l]
    PROVE  Orderly(l) /\ l \in Alive /\ ours[l] /\ SingleLoop
<1>1. Orderly(l) /\ SingleLoop
  BY DEF OrderInv, LoopsInv
<1> QED BY <1>1 DEF SingleLoop, Alive, Orderly, Talking

\* A setter's value is covered by its message.
LEMMA ChangesCovered ==
    ASSUME LinkTypeOK, CoverInv, lost = {}, NEW k \in Keys, Changes(k)
    PROVE  CoverInv'
<1>1. PICK v : status' = [status EXCEPT ![k] = v] /\ mainText' = [key |-> k, val |-> v]
  BY DEF Changes
<1>2. /\ UNCHANGED <<pc, todo, up, down, libPc, gps, thread, serving, theirs, lost>>
      /\ mainText = None /\ mainText'.key = k
  BY <1>1 DEF Changes
<1>3. \A m \in Keys : m # k => status'[m] = status[m]
  BY <1>1, LinkTypeParts DEF ServiceTypeOK
<1>4. \A h \in Handlers, l \in Loops : Reads(h, l)' <=> Reads(h, l)
  BY <1>2 DEF Reads, Latest
<1>5. ASSUME NEW l \in Loops, NEW m \in Keys, Covered(l, m) PROVE Covered(l, m)'
  <2>1. CASE m = k
    BY <1>2, <2>1 DEF Covered
  <2>2. CASE m # k
    <3>1. mainText.key # m
      BY <1>2, LinkConstants DEF None
    <3>2. UnderWay(l, m) => UnderWay(l, m)'
      BY <1>2, <1>3, <2>2 DEF UnderWay, Message
    <3>3. Arrived(l, m) => Arrived(l, m)'
      BY <1>2, <1>3, <2>2 DEF Arrived
    <3> QED BY <1>2, <1>3, <1>5, <2>2, <3>1, <3>2, <3>3 DEF Covered
  <2> QED BY <2>1, <2>2
<1> QED BY <1>2, <1>4, <1>5, CoverKept

\* The main thread sends it.
LEMMA SendsCovered ==
    ASSUME LinkTypeOK, TextsOK, LoopsInv, OrderInv, CoverInv, lost = {}, Sends
    PROVE  CoverInv'
<1>1. /\ UNCHANGED <<status, pc, todo, down, libPc, gps, thread, serving, theirs, lost>>
      /\ mainText # None /\ sendMessage(mainText)
  BY DEF Sends
<1>2. /\ mainText \in Messages /\ mainText.key \in Keys /\ mainText.val = status[mainText.key]
      /\ mainText = Message(mainText.key)
  BY <1>1, LinkTypeParts DEF TextsOK, ServiceTypeOK, Messages, Message
<1>3. \A h \in Handlers, l \in Loops : Reads(h, l)' <=> Reads(h, l)
  BY <1>1 DEF Reads, Latest
<1>4. ASSUME NEW l \in Loops, NEW h \in Handlers, NEW k \in Keys, Reads(h, l), Covered(l, k)
      PROVE  Covered(l, k)'
  <2>1. up'[l] = Append(up[l], mainText)
    BY <1>1, <1>2, <1>4, SendsToReader DEF Reads
  <2>2. /\ mainText = Message(k) => UnderWay(l, k)'
        /\ mainText.key # k /\ UnderWay(l, k) => UnderWay(l, k)'
        /\ mainText.key # k /\ Arrived(l, k) => Arrived(l, k)'
    BY <1>1, <1>2, <2>1, SentCovers
  <2> QED BY <1>1, <1>2, <1>4, <2>2 DEF Covered
<1> QED BY <1>1, <1>3, <1>4, CoverKept

\* sendAllInfo sends the value of a setting, or a setter is about to send a newer one.
LEMMA SendAllCovered ==
    ASSUME LinkTypeOK, TextsOK, LoopsInv, OrderInv, CoverInv, lost = {}, lost' = {},
           NEW m \in Loops, sendAllInfo(m)
    PROVE  CoverInv'
<1>1. /\ UNCHANGED <<status, mainText, down, libPc, gps, thread, serving, theirs>>
      /\ pc[m] = "sendAll" /\ text[m] # None /\ sendMessage(text[m])
      /\ todo' = [todo EXCEPT ![m] = Tail(@)]
      /\ pc' = IF Len(todo[m]) = 1 THEN [pc EXCEPT ![m] = "run"] ELSE pc
      /\ text[m].val = status[text[m].key] \/ mainText.key = text[m].key
  BY DEF sendAllInfo
<1>2. /\ text[m] \in Messages /\ todo[m] \in Seq(Keys) /\ todo[m] # << >>
      /\ text[m].key = Head(todo[m]) /\ Head(todo[m]) \in Keys
      /\ DOMAIN todo = Loops /\ DOMAIN pc = Loops
  BY <1>1, LinkTypeParts DEF TextsOK, ServiceTypeOK
<1>3. \A h \in Handlers, l \in Loops : Reads(h, l)' <=> Reads(h, l)
  BY <1>1 DEF Reads, Latest
<1>4. ASSUME NEW l \in Loops, NEW h \in Handlers, NEW k \in Keys, Reads(h, l), Covered(l, k)
      PROVE  Covered(l, k)'
  <2>1. l = m
    BY <1>1, <1>4, ReaderAndLoop DEF Reads, SingleLoop, Alive
  <2>2. up'[l] = Append(up[l], text[m])
    BY <1>1, <1>2, <1>4, SendsToReader DEF Reads
  <2>3. /\ text[m] = Message(k) => UnderWay(l, k)'
        /\ text[m].key # k /\ UnderWay(l, k) => UnderWay(l, k)'
        /\ text[m].key # k /\ Arrived(l, k) => Arrived(l, k)'
    BY <1>1, <1>2, <2>2, SentCovers
  <2>4. CASE text[m].key = k
    <3>1. CASE mainText.key = k
      BY <1>1, <3>1 DEF Covered
    <3>2. CASE text[m].val = status[k]
      <4>1. text[m] = Message(k)
        BY <1>2, <2>4, <3>2 DEF Messages, Message
      <4> QED BY <2>3, <4>1 DEF Covered
    <3> QED BY <1>1, <2>4, <3>1, <3>2
  <2>5. CASE text[m].key # k
    <3>1. CASE Contains(todo[l], k)
      <4>1. Contains(Tail(todo[m]), k)
        BY <1>2, <2>1, <2>5, <3>1, ContainsInTail
      <4>2. Len(todo[m]) # 1
        <5>1. Len(Tail(todo[m])) = Len(todo[m]) - 1 /\ Len(todo[m]) \in Nat
          BY <1>2, HeadTailProperties
        <5> QED BY <4>1, <5>1 DEF Contains
      <4>3. pc'[l] = "sendAll" /\ Contains(todo'[l], k)
        BY <1>1, <1>2, <2>1, <4>1, <4>2
      <4> QED BY <4>3 DEF Covered
    <3>2. CASE ~Contains(todo[l], k)
      BY <1>1, <1>4, <2>3, <2>5, <3>2 DEF Covered
    <3> QED BY <3>1, <3>2
  <2> QED BY <2>4, <2>5
<1> QED BY <1>1, <1>3, <1>4, CoverKept

\* The thread that reads passes the value on: old_info is what GpsCtrlContext has.
LEMMA ReadsCovered ==
    ASSUME LinkTypeOK, Connected, AcceptedOnce, LoopsInv, OrderInv, OldInfo, CoverInv,
           lost = {}, lost' = {}, NEW g \in Handlers, ReadsMessage(g)
    PROVE  CoverInv'
<1> DEFINE c == serving[g]
           msg == Head(up[c])
<1>1. c \in Loops /\ up[c] \in Seq(Messages) /\ up[c] # << >> /\ theirs[c]
  BY LinkTypeParts DEF ReadsMessage, Connected, ConnectionTypeOK
<1>2. /\ UNCHANGED <<status, mainText, pc, todo, down, libPc, thread, serving, theirs>>
      /\ parse_message(msg) /\ libPc # "half"
  BY DEF ReadsMessage, parse_message
<1>3. /\ up'[c] = Tail(up[c]) /\ msg = up[c][1] /\ msg \in Messages
      /\ Len(up'[c]) = Len(up[c]) - 1 /\ Len(up[c]) \in Nat \ {0}
      /\ \A i \in 1..Len(up'[c]) : up'[c][i] = up[c][i + 1]
  <2>1. up'[c] = Tail(up[c])
    BY <1>1, LinkTypeParts DEF ReadsMessage, ConnectionTypeOK
  <2> QED BY <1>1, <2>1, HeadTailProperties
<1>4. \A h \in Handlers, l \in Loops : Reads(h, l)' <=> Reads(h, l)
  BY <1>2 DEF Reads, Latest
<1>5. gps \in [Keys -> Nat] /\ service \in [Keys -> Nat] /\ libPc \in {"off", "half", "on"}
  BY LinkTypeParts DEF LibraryTypeOK
<1>6. ASSUME NEW l \in Loops, NEW h \in Handlers, NEW k \in Keys, Reads(h, l), Covered(l, k)
      PROVE  Covered(l, k)'
  <2>1. l = c /\ libPc = "on"
    BY <1>1, <1>2, <1>5, <1>6, ReaderAndLoop DEF Reads, SingleLoop
  <2>2. msg.key # k => gps'[k] = gps[k]
    BY <1>2, <1>5 DEF parse_message
  <2>3. CASE Arrived(l, k)
    <3>1. msg.key # k
      BY <1>3, <2>1, <2>3 DEF Arrived
    <3>3. ASSUME NEW i \in 1..Len(up'[c]) PROVE up'[c][i].key # k
      <4>1. i + 1 \in 1..Len(up[c]) /\ up'[c][i] = up[c][i + 1]
        BY <1>3
      <4> QED BY <2>1, <2>3, <4>1 DEF Arrived
    <3>2. Arrived(l, k)'
      BY <1>2, <2>1, <2>2, <2>3, <3>1, <3>3 DEF Arrived
    <3> QED BY <3>2 DEF Covered
  <2>4. CASE UnderWay(l, k) /\ ~(k = "APN_INFO" /\ status[k] = 0)
    <3>1. PICK i \in 1..Len(up[c]) :
              up[c][i] = Message(k) /\ \A j \in 1..Len(up[c]) : i < j => up[c][j].key # k
      BY <2>1, <2>4 DEF UnderWay
    <3>2. CASE i = 1
      <4>1. msg.key = k /\ msg.val = status[k]
        BY <1>3, <3>1, <3>2 DEF Message
      <4>2. gps'[k] = status[k]
        <5>1. CASE k = "APN_INFO" /\ service[k] = status[k]
          BY <1>2, <1>5, <2>4, <4>1, <5>1 DEF parse_message, OldInfo
        <5>2. CASE ~(k = "APN_INFO" /\ service[k] = status[k])
          BY <1>2, <1>5, <2>4, <4>1, <5>2 DEF parse_message
        <5> QED BY <5>1, <5>2
      <4>3. ASSUME NEW j \in 1..Len(up'[c]) PROVE up'[c][j].key # k
        <5>1. j + 1 \in 1..Len(up[c]) /\ i < j + 1 /\ up'[c][j] = up[c][j + 1]
          BY <1>3, <3>2
        <5> QED BY <3>1, <5>1
      <4>4. Arrived(l, k)'
        BY <1>2, <2>1, <4>2, <4>3 DEF Arrived
      <4> QED BY <4>4 DEF Covered
    <3>3. CASE i # 1
      <4>1. i - 1 \in 1..Len(up'[c]) /\ up'[c][i - 1] = Message(k)
        BY <1>3, <3>1, <3>3
      <4>2. ASSUME NEW j \in 1..Len(up'[c]), i - 1 < j PROVE up'[c][j].key # k
        <5>1. j + 1 \in 1..Len(up[c]) /\ i < j + 1 /\ up'[c][j] = up[c][j + 1]
          BY <1>3, <4>2
        <5> QED BY <3>1, <5>1
      <4>3. UnderWay(l, k)'
        BY <1>2, <2>1, <4>1, <4>2 DEF UnderWay, Message
      <4> QED BY <4>3 DEF Covered
    <3> QED BY <3>2, <3>3
  <2> QED BY <1>2, <1>6, <2>3, <2>4 DEF Covered
<1> QED BY <1>4, <1>6, CoverKept


\* SEND_ALL_INFO is written to the connection of the thread that asks.
LEMMA AsksCovered ==
    ASSUME LinkTypeOK, LoopsInv, OrderInv, CoverInv, lost = {}, lost' = {},
           NEW g \in Handlers, Asks(g)
    PROVE  CoverInv'
<1>1. /\ UNCHANGED <<status, mainText, pc, todo, up, libPc, gps, serving, theirs>>
      /\ Writes("SEND_ALL_INFO") /\ socket = serving[g] /\ "SEND_ALL_INFO" \in Orders
      /\ \A h \in Handlers : h # g => thread'[h] = thread[h]
      /\ thread[g] # "none" /\ thread'[g] # "none"
  BY LinkTypeParts DEF Asks, LibraryTypeOK, Orders
<1>2. \A h \in Handlers, l \in Loops : h # g /\ Reads(h, l)' => Reads(h, l)
  BY <1>1 DEF Reads, Latest
<1>3. ASSUME NEW l \in Loops, NEW k \in Keys, Reads(g, l)' PROVE Covered(l, k)'
  <2>1. serving[g] = l /\ theirs[l] /\ socket = l
    BY <1>1, <1>3 DEF Reads
  <2>2. down'[l] = Append(down[l], "SEND_ALL_INFO") /\ down[l] \in Seq(Orders)
    BY <1>1, <2>1, ReaderAndLoop, CommandWritten, LinkTypeParts DEF ConnectionTypeOK
  <2>3. Contains(down'[l], "SEND_ALL_INFO")
    BY <1>1, <2>2, ContainsAppended
  <2> QED BY <2>3 DEF Covered
<1>4. ASSUME NEW l \in Loops, NEW k \in Keys, Covered(l, k) PROVE Covered(l, k)'
  <2>1. Contains(down[l], "SEND_ALL_INFO") => Contains(down'[l], "SEND_ALL_INFO")
    <3>1. down[l] \in Seq(Orders)
      BY LinkTypeParts DEF ConnectionTypeOK
    <3>2. down'[l] \in {down[l], Append(down[l], "SEND_ALL_INFO")}
      BY <1>1, CommandWritten
    <3> QED BY <1>1, <3>1, <3>2, ContainsAppended
  <2>2. (UnderWay(l, k) => UnderWay(l, k)') /\ (Arrived(l, k) => Arrived(l, k)')
    BY <1>1 DEF UnderWay, Message, Arrived
  <2> QED BY <1>1, <1>4, <2>1, <2>2 DEF Covered
<1>5. \A l \in Loops, h \in Handlers : Reads(h, l)' => Reads(h, l) \/ \A k \in Keys : Covered(l, k)'
  BY <1>2, <1>3
<1> QED BY <1>1, <1>4, <1>5, CoverKept DEF Asks

\* The answer to a request for data is about no setting.
LEMMA DownloadCovered ==
    ASSUME LinkTypeOK, LoopsInv, OrderInv, CoverInv, lost = {}, NEW m \in Loops,
           downloadPgpsData(m)
    PROVE  CoverInv'
<1>0. ServiceTypeOK /\ ConnectionTypeOK
  BY LinkTypeParts
<1>1. /\ UNCHANGED <<status, mainText, todo, libPc, gps, thread, serving, theirs, lost>>
      /\ pc[m] = "download"
      /\ \A l \in Loops : l # m => pc'[l] = pc[l] /\ down'[l] = down[l]
  BY <1>0 DEF downloadPgpsData, ServiceTypeOK, ConnectionTypeOK
<1>2. PICK r \in 0..1 : sendMessage([key |-> "PGPS_DATA", val |-> r])
  BY DEF downloadPgpsData
<1>3. [key |-> "PGPS_DATA", val |-> r] \in Messages
  BY DEF Messages
<1>4. \A h \in Handlers, l \in Loops : Reads(h, l)' <=> Reads(h, l)
  BY <1>1 DEF Reads, Latest
<1>5. ASSUME NEW l \in Loops, NEW h \in Handlers, NEW k \in Keys, Reads(h, l), Covered(l, k)
      PROVE  Covered(l, k)'
  <2>1. /\ up'[l] = Append(up[l], [key |-> "PGPS_DATA", val |-> r]) /\ k # "PGPS_DATA"
        /\ theirs[l]
    BY <1>2, <1>3, <1>5, SendsToReader, LinkConstants DEF Reads
  <2>2. (UnderWay(l, k) => UnderWay(l, k)') /\ (Arrived(l, k) => Arrived(l, k)')
    BY <1>1, <1>3, <2>1, SentCovers
  <2>3. l = m
    BY <1>1, <2>1, ReaderAndLoop DEF SingleLoop, Alive
  <2>4. Contains(down[l], "SEND_ALL_INFO") => Contains(down'[l], "SEND_ALL_INFO")
    <3>1. Orderly(l) /\ ours[l] /\ down[l] \in Seq(Orders)
      BY <1>0, <2>1, ReaderAndLoop DEF ConnectionTypeOK
    <3>2. down[l] # << >>
      BY <2>1, <2>3, <3>1 DEF downloadPgpsData, Gone
    <3>3. Head(down[l]) = down[l][1] /\ down[l][1] = "URL"
      BY <1>1, <2>3, <3>1, <3>2 DEF Orderly
    <3>4. down'[l] = Tail(down[l])
      BY <1>0, <2>3, <3>1, <3>2, <3>3 DEF downloadPgpsData, ConnectionTypeOK
    <3> QED BY <3>1, <3>2, <3>3, <3>4, ContainsInTail
  <2> QED BY <1>1, <1>5, <2>2, <2>3, <2>4 DEF Covered
<1> QED BY <1>1, <1>4, <1>5, CoverKept

\* The steps of the other loops and of the library that a reading thread outlives.
LEMMA LoopCovered ==
    ASSUME LinkTypeOK, TextsOK, AcceptedOnce, LoopsInv, OrderInv, CoverInv, lost = {}, lost' = {},
           NEW m \in Loops,
           \/ init(m) \/ initFails(m) \/ runs(m) \/ ReadsCommand(m) \/ ReadEnds(m) \/ Composes(m)
           \/ Ends(m) \/ Closes(m)
    PROVE  CoverInv'
<1>0. ServiceTypeOK /\ ConnectionTypeOK
  BY LinkTypeParts
<1>1. /\ UNCHANGED <<status, mainText, up, libPc, gps, thread, serving>>
      /\ pc[m] # "sendAll" \/ Composes(m)
  BY DEF init, initFails, runs, ReadsCommand, ReadEnds, Composes, Ends, Closes
<1>2. ASSUME NEW h \in Handlers, NEW l \in Loops, Reads(h, l)' PROVE Reads(h, l)
  <2>1. theirs'[l] => theirs[l] \/ (l = m /\ pc[m] = "init")
    BY <1>0 DEF init, initFails, runs, ReadsCommand, ReadEnds, Composes, Ends, Closes,
       ConnectionTypeOK
  <2>2. serving[h] = l => pc[l] # "init"
    BY DEF AcceptedOnce, Fresh, Waits
  <2> QED BY <1>1, <1>2, <2>1, <2>2 DEF Reads, Latest
<1>3. ASSUME NEW l \in Loops, l # m \/ ~ReadsCommand(m)
      PROVE  /\ down'[l] = down[l]
             /\ pc[l] = "sendAll" => pc'[l] = "sendAll" /\ todo'[l] = todo[l]
  BY <1>0, <1>1, <1>3 DEF init, initFails, runs, ReadsCommand, ReadEnds, Composes, Ends, Closes,
     ServiceTypeOK, ConnectionTypeOK
<1>4. ASSUME ReadsCommand(m), Contains(down[m], "SEND_ALL_INFO")
      PROVE  \/ Contains(down'[m], "SEND_ALL_INFO")
             \/ \A k \in Keys : pc'[m] = "sendAll" /\ Contains(todo'[m], k)
  <2>1. down[m] \in Seq(Orders) /\ down[m] # << >> /\ down'[m] = Tail(down[m])
    BY <1>0, <1>4 DEF ReadsCommand, ConnectionTypeOK
  <2>2. CASE Head(down[m]) # "SEND_ALL_INFO"
    BY <1>4, <2>1, <2>2, ContainsInTail
  <2>3. CASE Head(down[m]) = "SEND_ALL_INFO"
    <3>1. pc'[m] = "sendAll" /\ todo'[m] = LinkSettings
      BY <1>0, <1>4, <2>3 DEF ReadsCommand, ServiceTypeOK
    <3>2. \A k \in Keys : Contains(LinkSettings, k)
      BY LinkConstants DEF Keys, Range, Contains
    <3> QED BY <3>1, <3>2
  <2> QED BY <2>2, <2>3
<1>5. pc[m] = "sendAll" => ~ReadsCommand(m)
  BY DEF ReadsCommand
<1> QED BY <1>1, <1>2, <1>3, <1>4, <1>5, LostGrows, CoverFrame

LEMMA NextCover ==
    ASSUME LinkTypeOK, TextsOK, Connected, Started, AcceptedOnce, LoopsInv, OrderInv, OldInfo,
           CoverInv, [LinkNext]_linkVars
    PROVE  CoverInv'
<1>0. ServiceTypeOK /\ ConnectionTypeOK /\ LibraryTypeOK /\ Handlers \subseteq Nat
  BY LinkTypeParts, LinkConstants
<1>l. lost \subseteq lost'
  BY LostGrows
<1> SUFFICES ASSUME lost' = {} PROVE CoverInv'
  BY DEF CoverInv
<1>s. lost = {}
  BY <1>l
<1>1. CASE UNCHANGED <<status, mainText, pc, todo, up, down, libPc, gps, thread, serving, theirs>>
  <2>1. \A h \in Handlers, l \in Loops : Reads(h, l)' <=> Reads(h, l)
    BY <1>1 DEF Reads, Latest
  <2> QED BY <1>1, <1>l, <2>1, CoverFrame
<1>2. CASE startServiceLoop
  <2>1. UNCHANGED <<status, mainText, todo, up, down, libPc, gps, thread, serving, theirs>>
    BY <1>2 DEF startServiceLoop
  <2>2. \A l \in Loops : pc[l] = "sendAll" => pc'[l] = "sendAll"
    BY <1>0, <1>2 DEF startServiceLoop, ServiceTypeOK
  <2>3. \A h \in Handlers, l \in Loops : Reads(h, l)' <=> Reads(h, l)
    BY <2>1 DEF Reads, Latest
  <2> QED BY <1>l, <2>1, <2>2, <2>3, CoverFrame
<1>3. CASE DownloadRequest
  <2>1. UNCHANGED <<status, mainText, pc, todo, up, libPc, gps, thread, serving, theirs>>
    BY <1>3 DEF DownloadRequest
  <2>2. \A l \in Loops : Contains(down[l], "SEND_ALL_INFO") => Contains(down'[l], "SEND_ALL_INFO")
    <3>1. PICK cmd \in Orders : Writes(cmd)
      BY <1>3 DEF DownloadRequest, Orders
    <3>2. \A l \in Loops : down[l] \in Seq(Orders) /\ down'[l] \in {down[l], Append(down[l], cmd)}
      BY <1>0, <3>1, CommandWritten DEF ConnectionTypeOK
    <3> QED BY <3>2, ContainsAppended
  <2>3. \A h \in Handlers, l \in Loops : Reads(h, l)' <=> Reads(h, l)
    BY <2>1 DEF Reads, Latest
  <2> QED BY <1>l, <2>1, <2>2, <2>3, CoverFrame
<1>4. CASE service_handler_init
  <2>1. PICK g \in Handlers : /\ thread[g] = "none" /\ \A f \in 1..(g - 1) : thread[f] # "none"
                              /\ thread' = [thread EXCEPT ![g] = "init"]
    BY <1>4 DEF service_handler_init
  <2>2. thread'[g] = "init" /\ \A h \in Handlers : h # g => thread'[h] = thread[h]
    BY <1>0, <2>1 DEF LibraryTypeOK
  <2>3. ASSUME NEW h \in Handlers, NEW l \in Loops, Reads(h, l)' PROVE FALSE
    <3>1. h # g /\ thread[h] = "read" /\ ~(h < g)
      BY <2>2, <2>3 DEF Reads, Latest
    <3>2. g < h
      BY <1>0, <3>1
    <3> QED BY <2>1, <3>1, <3>2 DEF Started
  <2> QED BY <2>3 DEF CoverInv
<1>5. CASE gpsctrl_init
  <2>1. /\ UNCHANGED <<status, mainText, pc, todo, up, down, thread, serving, theirs>>
        /\ libPc = "half"
    BY <1>5 DEF gpsctrl_init
  <2>2. \A h \in Handlers, l \in Loops : Reads(h, l)' => Reads(h, l)
    BY <2>1 DEF Reads, Latest
  <2>3. ASSUME NEW l \in Loops, NEW k \in Keys, Covered(l, k) PROVE Covered(l, k)'
    <3>1. ~Arrived(l, k)
      BY <2>1 DEF Arrived
    <3>2. UnderWay(l, k) => UnderWay(l, k)'
      BY <2>1 DEF UnderWay, Message
    <3> QED BY <2>1, <2>3, <3>1, <3>2 DEF Covered
  <2> QED BY <1>l, <2>2, <2>3, CoverKept
<1>6. CASE service_handler_stop
  <2>1. libPc' = "off"
    BY <1>6 DEF service_handler_stop
  <2> QED BY <2>1 DEF CoverInv, Reads
<1>7. ASSUME NEW h \in Handlers, HandlerStep(h) PROVE CoverInv'
  <2>1. CASE Asks(h)
    BY <1>s, <2>1, AsksCovered
  <2>2. CASE ReadsMessage(h)
    BY <1>s, <2>2, ReadsCovered
  <2>3. CASE internal_init(h) \/ Accepts(h) \/ EndOfFile(h)
    <3>1. /\ UNCHANGED <<status, mainText, pc, todo, up, down, libPc, gps>>
          /\ thread[h] # "none" /\ thread'[h] # "read"
          /\ \A g \in Handlers : g # h => thread'[g] = thread[g] /\ serving'[g] = serving[g]
          /\ \A l \in Loops : theirs'[l] => theirs[l]
      BY <1>0, <2>3 DEF internal_init, Accepts, EndOfFile, LibraryTypeOK, ConnectionTypeOK
    <3>2. thread'[h] # "none"
      BY <1>0, <2>3 DEF internal_init, Accepts, EndOfFile, LibraryTypeOK
    <3>3. \A g \in Handlers, l \in Loops : Reads(g, l)' => Reads(g, l)
      BY <3>1, <3>2 DEF Reads, Latest
    <3> QED BY <1>l, <3>1, <3>3, CoverFrame
  <2> QED BY <1>7, <2>1, <2>2, <2>3 DEF HandlerStep
<1>8. ASSUME NEW l \in Loops, LoopStep(l) PROVE CoverInv'
  BY <1>s, <1>8, LoopCovered, SendAllCovered, DownloadCovered DEF LoopStep
<1>9. CASE (\E k \in Keys : Changes(k)) \/ Sends
  BY <1>s, <1>9, ChangesCovered, SendsCovered
<1>10. CASE ProviderChanges \/ OtherProviderChanges \/ UNCHANGED linkVars
  BY <1>1, <1>10 DEF ProviderChanges, OtherProviderChanges, linkVars
<1> QED BY <1>2, <1>3, <1>4, <1>5, <1>6, <1>7, <1>8, <1>9, <1>10
    DEF LinkNext, MainThread, Framework

-----------------------------------------------------------------------------
LinkBase == LinkTypeOK /\ TextsOK /\ Connected /\ Started /\ AcceptedOnce /\ LoopsInv

LEMMA InitLink == LinkInit => LinkBase /\ OrderInv /\ OldInfo /\ CoverInv
<1> SUFFICES ASSUME LinkInit PROVE LinkBase /\ OrderInv /\ OldInfo /\ CoverInv
  OBVIOUS
<1>1. LinkTypeOK
  BY InitTyped
<1>2. TextsOK /\ Connected /\ Started
  BY DEF LinkInit, TextsOK, Connected, Started
<1>3. AcceptedOnce
  <2>1. \A h \in Handlers : Len(backlog[h]) = 0
    BY DEF LinkInit
  <2>2. 0 \notin Loops
    BY LinkConstants
  <2>3. \A l \in Loops : ~Backlogged(l)
    BY <2>1 DEF Backlogged, Contains
  <2>4. \A l \in Loops : ~ours[l] /\ ~theirs[l] /\ socket # l /\ down[l] = << >>
                         /\ pc[l] # "download" /\ \A h \in Handlers : serving[h] # l
    BY <2>2 DEF LinkInit
  <2>5. \A h \in Handlers : serving[h] \notin Loops
    BY <2>2 DEF LinkInit
  <2> QED BY <2>1, <2>3, <2>4, <2>5 DEF AcceptedOnce
<1>4. LoopsInv
  <2>1. \A l \in Loops : pc[l] \in {"none", "init"}
    BY DEF LinkInit
  <2>2. Alive = {} /\ ~initDone
    BY <2>1 DEF LinkInit, Alive
  <2> QED BY <2>1, <2>2 DEF LoopsInv, SingleLoop, Talking
<1>5. OrderInv /\ OldInfo /\ CoverInv
  BY DEF LinkInit, OrderInv, OldInfo, CoverInv, Reads, Initially
<1> QED BY <1>1, <1>2, <1>3, <1>4, <1>5 DEF LinkBase

LEMMA LinkInvariant == LinkSpec => [](LinkBase /\ OrderInv /\ OldInfo /\ CoverInv)
<1>1. LinkBase /\ OrderInv /\ OldInfo /\ CoverInv /\ [LinkNext]_linkVars
        => (LinkBase /\ OrderInv /\ OldInfo /\ CoverInv)'
  BY NextTyped, NextTexts, NextThreads, NextAcceptedOnce, NextLoops, NextOrder, NextOldInfo,
     NextCover DEF LinkBase
<1> QED BY <1>1, InitLink, PTL DEF LinkSpec

\* For any number of loops and threads and whatever is switched and changed: a connection is
\* served by one thread and by no second one later, and while no second loop was made, localSocket
\* is the connection whose commands are being read, with nobody's close in between.
THEOREM LinkCorrect == LinkSpec => []ServiceInv
<1>1. LinkBase => ServiceInv
  <2> SUFFICES ASSUME LinkBase PROVE ServiceInv
    OBVIOUS
  <2>1. OneServer
    BY DEF LinkBase, OneServer, AcceptedOnce, Fresh, Backlogged
  <2>2. SendsWhereItReads
    <3> SUFFICES ASSUME "two loops" \notin lost, initDone
                 PROVE  localSocket \in Alive /\ Cardinality(Alive) = 1 /\ ours[localSocket]
      BY DEF SendsWhereItReads
    <3>1. SingleLoop
      BY DEF LinkBase, LoopsInv
    <3>2. localSocket \in Alive /\ pc[localSocket] # "closing" /\ Alive = {localSocket}
      BY <3>1 DEF SingleLoop
    <3>3. ours[localSocket]
      BY <3>1, <3>2 DEF SingleLoop, Alive, Talking
    <3>4. Cardinality(Alive) = 1
      BY <3>2, FS_Singleton
    <3> QED BY <3>2, <3>3, <3>4
  <2> QED BY <2>1, <2>2 DEF LinkBase, ServiceInv
<1> QED BY <1>1, LinkInvariant, PTL

\* When a link is idle, the library has the service's settings, however many connections were
\* refused, loops and threads came and went, and setters and sendAllInfo interleaved: unless one
\* of the four races that lost names has happened.
THEOREM SettingsAreKnown == LinkSpec => []SettingsArrive
<1>1. LinkBase /\ CoverInv => SettingsArrive
  <2> SUFFICES ASSUME LinkBase, CoverInv, NEW l \in Loops, NEW h \in Handlers, Linked(l, h),
                      lost = {}, mainText = None, up[l] = << >>, down[l] = << >>, NEW k \in Keys
               PROVE  gps[k] = status[k] \/ (k = "APN_INFO" /\ status[k] = 0)
    BY DEF SettingsArrive
  <2>1. Reads(h, l) /\ pc[l] = "run"
    BY LinkConstants DEF Linked, Reads, Latest
  <2>2. Covered(l, k)
    BY <2>1 DEF CoverInv
  <2>3. Len(up[l]) = 0 /\ Len(down[l]) = 0
    OBVIOUS
  <2>4. ~Contains(down[l], "SEND_ALL_INFO") /\ ~UnderWay(l, k)
    BY <2>3 DEF Contains, UnderWay
  <2>5. mainText.key # k
    BY LinkConstants DEF None
  <2> QED BY <2>1, <2>2, <2>4, <2>5 DEF Covered, Arrived
<1> QED BY <1>1, LinkInvariant, PTL
=============================================================================
