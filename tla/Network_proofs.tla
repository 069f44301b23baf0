--------------------------- MODULE Network_proofs ---------------------------
(***************************************************************************)
(* Proofs about Network, for any scenarios and any bounds.                 *)
(*                                                                         *)
(* Base is inductive: the types, that what a runner holds fits the place   *)
(* it is in (PlaceOK), that rssi_queue counts the reader threads that saw  *)
(* it low (RaiseOK), and the lock.  Applied adds what the screen state     *)
(* asks of the modem, SignalFollows the changes of the signal strength.    *)
(*                                                                         *)
(* For registration every step is first put into one of a few classes      *)
(* (StepsSeen), by what it does to the cache, to the reports that wait and *)
(* to what the framework was told.  CacheFollows, RegistrationKnown and    *)
(* OperatorKnown are then kept by each class.  They hold while reports and *)
(* requests are on their way, and give the properties of the quiet network *)
(* once nothing waits.                                                     *)
(***************************************************************************)
EXTENDS Network, SequenceTheorems, FiniteSetTheorems, TLAPS

-----------------------------------------------------------------------------
(***************************************************************************)
(* The inductive invariant, and the steps of framework and modem.          *)
(***************************************************************************)
\* Reports, subscriptions, and the states of the modem and of what the framework knows.
Statuses == {"unknown", "in progress", "registered", "illegal ME"}
Lines == [kind : Domains, val : Regs] \cup [kind : {"e2reg"}, val : [Domains -> Statuses]]
           \cup [kind : {"erinfo"}, val : {0, 1}] \cup [kind : {"signal"}, val : {0}]
Subscriptions == {"e2reg", "cs", "ps", "signal"}
Modems ==
    [reg : [Domains -> Regs], cell : Cells, sub : [Channels -> SUBSET Subscriptions],
     umts : {0, 1}, level : Nat, mode : {"automatic", "manual"}, connected : BOOLEAN, rx : Nat]
Knowledge ==
    [reg : [Domains -> Regs], operator : Cells \cup {NoCell}, stale : SUBSET Asked,
     fresh : SUBSET Domains, told : SUBSET Domains, level : Nat,
     unsure : SUBSET (Subscriptions \cup {"operator", "level"})]

\* TypeOK in three parts: the caches, the runners, and the modem with its reports.
CacheTypes ==
    /\ s_reg \in [Domains -> Regs] /\ s_reg_change \in {0, 1}
    /\ old_response \in Cells \cup {NoCell}
    /\ s_status \in [Domains -> Statuses]
    /\ old_resp \subseteq Domains \cup {"unset"}
    /\ s_registrationDeniedReason \in Statuses \cup {"default"}
    /\ s_umts_rinfo \in {0, 1} /\ old_umts_rinfo \in {-1, 0, 1} /\ asked_umts_rinfo \in {-1, 0, 1}

RunnerTypes ==
    /\ s_screenState \in {0, 1} /\ lock \in Runners \cup {"free"}
    /\ s_cops_mode \in {"unknown", "automatic", "manual"}
    /\ fd \in [dormant : BOOLEAN, old_rx : Nat, chains : Nat]
    /\ pc \in [Runners -> RequestLabels]
    /\ req \in [Runners -> [kind : RequestKinds \cup {"none"}, reg : Regs, screen : {0, 1}]]
    /\ selection \in [queue : Runners \cup {"none"}, loops : 0..MaxLoops]
    /\ events \in [sim : Nat, signal : Nat]

ModemTypes ==
    /\ lines \in [Channels -> Seq(Lines)]
    /\ readerPc \in [Channels -> {"idle", "inform", "parse", "raise"}]
    /\ radio \in {"SIM_READY", "SIM_ABSENT"}
    /\ modem \in Modems
    /\ fw \in Knowledge
    /\ rssi_queue \in {0, 1, 2}

TypeInv == CacheTypes /\ RunnerTypes /\ ModemTypes

\* What a place in a request says.
Automatic == {"automatic", "scan cs", "scan ps", "scanned cs", "scanned ps", "cops=0", "enqueue"}
Setting == {"set cs", "set ps", "set poll", "set csq", "set told", "set signal"}
PlaceOK ==
    /\ pc["normal"] = "efdorm" => fd.chains > 0
    /\ pc["normal"] \in Automatic => selection.queue = "none"
    /\ \A r \in Runners : pc[r] = "cops?" => selection.queue = r /\ selection.loops < MaxLoops
    /\ \A r \in Runners : pc[r] \in Setting => req[r].screen = s_screenState
    /\ req["normal"].kind # "none" \/ pc["normal"] \in {"idle", "efdorm", "cops?"}

\* rssi_queue counts the reader threads that found it zero, twice at most.
RaiseOK ==
    \A c \in Channels : readerPc[c] = "raise" =>
        /\ rssi_queue < 2
        /\ readerPc[IF c = "normal" THEN "prio" ELSE "normal"] = "raise" => rssi_queue = 0

USE DEF cacheVars, statusVars, rinfoVars, screenVars, selectVars, signalVars, runnerVars,
        readerVars, boundVars

LEMMA OneLess == \A n \in Nat : n > 0 => n - 1 \in Nat
  OBVIOUS

LEMMA StatusTypes ==
    ASSUME NEW reg \in [Domains -> Regs]
    PROVE  StatusReport(reg) \in [Domains -> Statuses]
  BY DEF StatusReport, StatusOf, Statuses, Regs, Stats, Domains

LEMMA LineTypes ==
    ASSUME TypeInv, NEW reg \in [Domains -> Regs]
    PROVE  /\ \A d \in Domains : Report(d, reg[d]) \in Lines /\ Report(d, reg[d]).kind = d
           /\ Report("e2reg", StatusReport(reg)) \in Lines
           /\ Report("signal", 0) \in Lines
           /\ \A u \in {0, 1} : Report("erinfo", u) \in Lines
  BY StatusTypes DEF Report, Lines, Domains

LEMMA AddsOne ==
    ASSUME TypeInv, NEW c \in Channels, NEW line \in Lines, NEW queue \in Seq(Lines)
    PROVE  /\ Adds(c, line, queue) \in Seq(Lines)
           /\ line.kind \in modem.sub[c] =>
                 /\ Len(Adds(c, line, queue)) = Len(queue) + 1
                 /\ \A i \in 1..Len(queue) : Adds(c, line, queue)[i] = queue[i]
                 /\ Adds(c, line, queue)[Len(queue) + 1] = line
           /\ line.kind \notin modem.sub[c] => Adds(c, line, queue) = queue
  BY DEF Adds

\* One report, if the domain it is of changed.
Extends(longer, queue, line, subscribed) ==
    /\ longer \in Seq(Lines)
    /\ line.kind \in subscribed =>
          /\ Len(longer) = Len(queue) + 1
          /\ \A i \in 1..Len(queue) : longer[i] = queue[i]
          /\ longer[Len(queue) + 1] = line
    /\ line.kind \notin subscribed => longer = queue

LEMMA AddsIf ==
    ASSUME TypeInv, NEW c \in Channels, NEW line \in Lines, NEW queue \in Seq(Lines), NEW b
    PROVE  Extends(IF b THEN Adds(c, line, queue) ELSE queue, queue, line,
                   IF b THEN modem.sub[c] ELSE {})
<1>1. CASE b
  BY <1>1, AddsOne DEF Extends
<1>2. CASE ~b
  BY <1>2 DEF Extends
<1> QED BY <1>1, <1>2

LEMMA ExtendsTwice ==
    ASSUME NEW q \in Seq(Lines), NEW q1, NEW q2, NEW l1, NEW l2, NEW s1, NEW s2,
           Extends(q1, q, l1, s1), Extends(q2, q1, l2, s2)
    PROVE  /\ q1 \in Seq(Lines) /\ q2 \in Seq(Lines)
           /\ Len(q) \in Nat /\ Len(q1) \in Nat /\ Len(q2) \in Nat
           /\ Len(q1) >= Len(q) /\ Len(q2) >= Len(q1)
           /\ \A i \in 1..Len(q) : q2[i] = q[i]
           /\ \A i \in 1..Len(q2) : i > Len(q) => (l1.kind \in s1 /\ q2[i] = l1) \/ (l2.kind \in s2 /\ q2[i] = l2)
           /\ l1.kind \in s1 => \E i \in 1..Len(q2) : i > Len(q) /\ q2[i] = l1
           /\ l2.kind \in s2 => \E i \in 1..Len(q2) : i > Len(q) /\ q2[i] = l2
<1>1. q1 \in Seq(Lines) /\ q2 \in Seq(Lines) /\ Len(q) \in Nat /\ Len(q1) \in Nat /\ Len(q2) \in Nat
  BY DEF Extends
<1>2. \/ l1.kind \in s1 /\ Len(q1) = Len(q) + 1 /\ (\A i \in 1..Len(q) : q1[i] = q[i])
         /\ q1[Len(q) + 1] = l1
      \/ l1.kind \notin s1 /\ q1 = q
  BY DEF Extends
<1>3. \/ l2.kind \in s2 /\ Len(q2) = Len(q1) + 1 /\ (\A i \in 1..Len(q1) : q2[i] = q1[i])
         /\ q2[Len(q1) + 1] = l2
      \/ l2.kind \notin s2 /\ q2 = q1
  BY DEF Extends
<1>4. Len(q1) >= Len(q) /\ Len(q2) >= Len(q1)
  BY <1>1, <1>2, <1>3
<1>5. \A i \in 1..Len(q) : q2[i] = q[i]
  BY <1>1, <1>2, <1>3, <1>4
<1>6. \A i \in 1..Len(q2) : i > Len(q) => (l1.kind \in s1 /\ q2[i] = l1) \/ (l2.kind \in s2 /\ q2[i] = l2)
  <2> SUFFICES ASSUME NEW i \in 1..Len(q2), i > Len(q)
               PROVE  (l1.kind \in s1 /\ q2[i] = l1) \/ (l2.kind \in s2 /\ q2[i] = l2)
    OBVIOUS
  <2>1. CASE i > Len(q1)
    BY <1>1, <1>3, <2>1
  <2>2. CASE ~(i > Len(q1))
    <3>1. i = Len(q) + 1 /\ i \in 1..Len(q1) /\ l1.kind \in s1 /\ q1[i] = l1
      BY <1>1, <1>2, <2>2
    <3> QED BY <1>3, <3>1
  <2> QED BY <2>1, <2>2
<1>7. ASSUME l1.kind \in s1 PROVE \E i \in 1..Len(q2) : i > Len(q) /\ q2[i] = l1
  <2>1. Len(q) + 1 \in 1..Len(q1) /\ q1[Len(q) + 1] = l1 /\ Len(q) + 1 > Len(q)
    BY <1>1, <1>2, <1>7
  <2>2. Len(q) + 1 \in 1..Len(q2) /\ q2[Len(q) + 1] = l1
    BY <1>1, <1>3, <1>4, <2>1
  <2> QED BY <2>1, <2>2
<1>8. ASSUME l2.kind \in s2 PROVE \E i \in 1..Len(q2) : i > Len(q) /\ q2[i] = l2
  <2>1. Len(q1) + 1 \in 1..Len(q2) /\ q2[Len(q1) + 1] = l2 /\ Len(q1) + 1 > Len(q)
    BY <1>1, <1>3, <1>4, <1>8
  <2> QED BY <2>1
<1> QED BY <1>1, <1>4, <1>5, <1>6, <1>7, <1>8

\* What the reports of a change add to the lines of a channel.
Grows(c, new) ==
    /\ lines'[c] \in Seq(Lines)
    /\ Len(lines'[c]) >= Len(lines[c])
    /\ \A i \in 1..Len(lines[c]) : lines'[c][i] = lines[c][i]
    /\ \A i \in 1..Len(lines'[c]) : i > Len(lines[c]) => lines'[c][i] \in new
    /\ \A line \in new :
          line.kind \in Domains => \E i \in 1..Len(lines'[c]) : i > Len(lines[c]) /\ lines'[c][i] = line

LEMMA ChangeGrows ==
    ASSUME TypeInv, NEW reg \in [Domains -> Regs], NEW changed \in SUBSET Domains,
           RegistrationBecomes(reg, changed)
    PROVE  /\ lines' \in [Channels -> Seq(Lines)]
           /\ \A c \in Channels :
                 Grows(c, {Report("e2reg", StatusReport(reg))}
                            \cup {Report(d, reg[d]) : d \in changed \cap modem.sub[c]})
<1>1. PICK first \in Domains :
          lines' = [c \in Channels |->
              Adds(c, Report("e2reg", StatusReport(reg)),
                   IF Other(first) \in changed
                   THEN Adds(c, Report(Other(first), reg[Other(first)]),
                             IF first \in changed THEN Adds(c, Report(first, reg[first]), lines[c])
                             ELSE lines[c])
                   ELSE IF first \in changed THEN Adds(c, Report(first, reg[first]), lines[c])
                        ELSE lines[c])]
  BY DEF RegistrationBecomes
<1> DEFINE e2reg == Report("e2reg", StatusReport(reg))
           one == Report(first, reg[first])
           two == Report(Other(first), reg[Other(first)])
<1>2. Other(first) \in Domains /\ Other(first) # first /\ Domains = {first, Other(first)}
  BY DEF Domains, Other
<1>3. e2reg \in Lines /\ one \in Lines /\ two \in Lines
  BY <1>2, LineTypes
<1>4. one.kind = first /\ two.kind = Other(first) /\ e2reg.kind = "e2reg"
  BY DEF Report
<1>5. \A d \in Domains : Report(d, reg[d]) = IF d = first THEN one ELSE two
  BY <1>2
<1>6. ASSUME NEW c \in Channels
      PROVE  Grows(c, {e2reg} \cup {Report(d, reg[d]) : d \in changed \cap modem.sub[c]})
  <2> DEFINE new == {Report(d, reg[d]) : d \in changed \cap modem.sub[c]}
             q0 == lines[c]
             q1 == IF first \in changed THEN Adds(c, one, q0) ELSE q0
             q2 == IF Other(first) \in changed THEN Adds(c, two, q1) ELSE q1
             q3 == Adds(c, e2reg, q2)
  <2>1. lines'[c] = q3
    BY <1>1
  <2>2. \A line : line \in new <=> \/ first \in changed /\ first \in modem.sub[c] /\ line = one
                                   \/ Other(first) \in changed /\ Other(first) \in modem.sub[c]
                                      /\ line = two
    BY <1>2, <1>5
  <2>3. q0 \in Seq(Lines)
    BY DEF TypeInv, ModemTypes
  <2> DEFINE s1 == IF first \in changed THEN modem.sub[c] ELSE {}
             s2 == IF Other(first) \in changed THEN modem.sub[c] ELSE {}
  <2>4. Extends(q1, q0, one, s1)
    BY <1>3, <1>4, <2>3, AddsIf
  <2> HIDE DEF q1
  <2>5. Extends(q2, q1, two, s2)
    BY <1>3, <1>4, <2>4, AddsIf DEF Extends
  <2> HIDE DEF q2
  <2>6. Extends(q3, q2, e2reg, modem.sub[c])
    <3>1. q2 \in Seq(Lines)
      BY <2>5 DEF Extends
    <3>2. q3 = IF TRUE THEN Adds(c, e2reg, q2) ELSE q2
      OBVIOUS
    <3> QED BY <1>3, <1>4, <3>1, <3>2, AddsIf
  <2>7. \A line : line \in new <=> (one.kind \in s1 /\ line = one) \/ (two.kind \in s2 /\ line = two)
    BY <1>4, <2>2
  <2> HIDE DEF q3, q0, new, e2reg, one, two, s1, s2
  <2>13. /\ q2 \in Seq(Lines) /\ Len(q2) \in Nat /\ Len(q0) \in Nat /\ Len(q2) >= Len(q0)
         /\ \A i \in 1..Len(q0) : q2[i] = q0[i]
         /\ \A i \in 1..Len(q2) : i > Len(q0) => (one.kind \in s1 /\ q2[i] = one) \/ (two.kind \in s2 /\ q2[i] = two)
         /\ one.kind \in s1 => \E i \in 1..Len(q2) : i > Len(q0) /\ q2[i] = one
         /\ two.kind \in s2 => \E i \in 1..Len(q2) : i > Len(q0) /\ q2[i] = two
    <3>1. Len(q0) \in Nat /\ Len(q1) \in Nat /\ Len(q2) \in Nat /\ Len(q1) >= Len(q0) /\ Len(q2) >= Len(q1)
      BY <2>3, <2>4, <2>5, ExtendsTwice
    <3>2. Len(q2) >= Len(q0)
      BY <3>1
    <3> QED BY <2>3, <2>4, <2>5, <3>1, <3>2, ExtendsTwice
  <2>14. /\ q3 \in Seq(Lines) /\ Len(q3) \in Nat /\ Len(q3) >= Len(q2)
         /\ \A i \in 1..Len(q2) : q3[i] = q2[i]
         /\ \A i \in 1..Len(q3) : i > Len(q2) => q3[i] = e2reg
    <3>1. q3 \in Seq(Lines) /\ Len(q3) \in Nat
      BY <2>6 DEF Extends
    <3>2. \/ Len(q3) = Len(q2) + 1 /\ (\A i \in 1..Len(q2) : q3[i] = q2[i]) /\ q3[Len(q2) + 1] = e2reg
          \/ q3 = q2
      BY <2>6 DEF Extends
    <3> QED BY <2>13, <3>1, <3>2
  <2>15. \A i \in 1..Len(q2) : i > Len(q0) => q2[i] \in new
    BY <2>7, <2>13
  <2>9. \A i \in 1..Len(q3) : i > Len(q0) => q3[i] \in {e2reg} \cup new
    BY <2>13, <2>14, <2>15
  <2>10. ASSUME NEW line \in new
         PROVE  \E i \in 1..Len(q2) : i > Len(q0) /\ q2[i] = line
    <3>1. (one.kind \in s1 /\ line = one) \/ (two.kind \in s2 /\ line = two)
      BY <2>7
    <3> QED BY <2>7, <2>13, <3>1
  <2>11. ASSUME NEW line \in new
         PROVE  \E i \in 1..Len(q3) : i > Len(q0) /\ q3[i] = line
    BY <2>10, <2>13, <2>14
  <2>16. e2reg.kind \notin Domains
    BY <1>4 DEF Domains, e2reg
  <2>17. Len(q3) >= Len(q0) /\ \A i \in 1..Len(q0) : q3[i] = q0[i]
    BY <2>13, <2>14
  <2> QED BY <2>1, <2>14, <2>9, <2>11, <2>16, <2>17 DEF Grows, q0, new
<1>7. lines' \in [Channels -> Seq(Lines)]
  <2>1. \A c \in Channels : lines'[c] \in Seq(Lines)
    BY <1>6 DEF Grows
  <2> QED BY <1>1, <2>1
<1> QED BY <1>6, <1>7

Base == TypeInv /\ PlaceOK /\ RaiseOK /\ LockDiscipline

LEMMA UnreportedTypes ==
    ASSUME TypeInv
    PROVE  Unreported \in Knowledge
  BY DEF TypeInv, ModemTypes, Knowledge, Unreported

LEMMA BecomesTypes ==
    ASSUME TypeInv, NEW reg \in [Domains -> Regs], NEW changed \in SUBSET Domains,
           RegistrationBecomes(reg, changed)
    PROVE  lines' \in [Channels -> Seq(Lines)] /\ fw' \in Knowledge
<1>1. lines' \in [Channels -> Seq(Lines)]
  BY ChangeGrows
<1> DEFINE old == IF \A d \in changed : Subscribed(d) THEN fw ELSE Unreported
           fresh == (old.fresh \ changed) \cup {d \in changed : Subscribed(d)}
<1>2. old \in Knowledge
  BY UnreportedTypes DEF TypeInv, ModemTypes
<1>3. fw' = [old EXCEPT !.fresh = fresh]
  BY DEF RegistrationBecomes
<1>4. fresh \subseteq Domains
  BY <1>2 DEF Knowledge
<1> HIDE DEF old, fresh
<1> QED BY <1>1, <1>2, <1>3, <1>4 DEF Knowledge

\* The parts of the state that no change of the modem touches.
LEMMA ChangeKeepsBase ==
    ASSUME Base, ModemStep
    PROVE  Base'
<1>1. CacheTypes'
  BY DEF ModemStep, RegistrationChanges, CellChanges, SimChanges, CapabilityChanges, SignalChanges,
         startPollFastDormancy, PacketReceived, Change, Base, TypeInv, CacheTypes
<1>2. RunnerTypes' /\ PlaceOK' /\ LockDiscipline'
  <2>1. UNCHANGED <<pc, req, lock, s_screenState, s_cops_mode, selection>>
    BY DEF ModemStep, RegistrationChanges, CellChanges, SimChanges, CapabilityChanges, SignalChanges,
           startPollFastDormancy, PacketReceived, Change
  <2>2. events' \in [sim : Nat, signal : Nat]
    BY DEF ModemStep, RegistrationChanges, CellChanges, SimChanges, CapabilityChanges, SignalChanges,
           startPollFastDormancy, PacketReceived, Change, Base, TypeInv, RunnerTypes
  <2>3. /\ fd' \in [dormant : BOOLEAN, old_rx : Nat, chains : Nat]
        /\ pc["normal"] = "efdorm" => fd' = fd
    <3>1. CASE startPollFastDormancy
      <4>1. modem.rx \in Nat /\ fd.chains + 1 \in Nat
        BY DEF Base, TypeInv, RunnerTypes, ModemTypes, Modems
      <4>2. pc["normal"] = "idle" /\ (fd' = fd \/ fd' = [fd EXCEPT !.old_rx = modem.rx, !.chains = @ + 1])
        BY <3>1 DEF startPollFastDormancy
      <4> QED BY <4>1, <4>2 DEF Base, TypeInv, RunnerTypes
    <3>2. CASE ~startPollFastDormancy
      <4>1. fd' = fd
        BY <3>2 DEF ModemStep, RegistrationChanges, CellChanges, SimChanges, CapabilityChanges,
                    SignalChanges, PacketReceived
      <4> QED BY <4>1 DEF Base, TypeInv, RunnerTypes
    <3> QED BY <3>1, <3>2
  <2> QED BY <2>1, <2>2, <2>3 DEF Base, TypeInv, RunnerTypes, PlaceOK, LockDiscipline
<1>3. readerPc' = readerPc /\ rssi_queue' = rssi_queue
  BY DEF ModemStep, RegistrationChanges, CellChanges, SimChanges, CapabilityChanges, SignalChanges,
         startPollFastDormancy, PacketReceived, Change
<1>4. lines' \in [Channels -> Seq(Lines)] /\ radio' \in {"SIM_READY", "SIM_ABSENT"}
      /\ modem' \in Modems /\ fw' \in Knowledge
  <2>1. CASE RegistrationChanges
    <3>1. PICK d \in Domains, stat \in {"searching", "home", "denied"} :
              LET reg == [modem.reg EXCEPT
                             ![d] = [stat |-> stat,
                                     cell |-> IF stat = "home" THEN modem.cell ELSE NoCell]]
              IN  modem' = [modem EXCEPT !.reg = reg] /\ RegistrationBecomes(reg, {d})
      BY <2>1 DEF RegistrationChanges
    <3> DEFINE reg == [modem.reg EXCEPT
                          ![d] = [stat |-> stat,
                                  cell |-> IF stat = "home" THEN modem.cell ELSE NoCell]]
    <3>2. reg \in [Domains -> Regs]
      BY DEF Base, TypeInv, ModemTypes, Modems, Regs, Stats
    <3>3. modem' = [modem EXCEPT !.reg = reg] /\ RegistrationBecomes(reg, {d}) /\ radio' = radio
      BY <2>1, <3>1 DEF RegistrationChanges
    <3> HIDE DEF reg
    <3> QED BY <3>2, <3>3, BecomesTypes DEF Base, TypeInv, ModemTypes, Modems
  <2>2. CASE CellChanges
    <3> DEFINE homes == {d \in Domains : Home(modem.reg[d])}
               reg == [d \in Domains |-> IF d \in homes THEN [modem.reg[d] EXCEPT !.cell = 3 - modem.cell]
                                         ELSE modem.reg[d]]
    <3>1. modem' = [modem EXCEPT !.reg = reg, !.cell = 3 - modem.cell]
          /\ RegistrationBecomes(reg, homes) /\ radio' = radio
      BY <2>2 DEF CellChanges
    <3>2. reg \in [Domains -> Regs] /\ 3 - modem.cell \in Cells
      <4>1. modem.reg \in [Domains -> Regs] /\ modem.cell \in {1, 2}
        BY DEF Base, TypeInv, ModemTypes, Modems, Cells
      <4>2. 3 - modem.cell \in Cells
        BY <4>1 DEF Cells
      <4>3. \A d \in Domains : [modem.reg[d] EXCEPT !.cell = 3 - modem.cell] \in Regs
        BY <4>1, <4>2 DEF Regs
      <4> QED BY <4>1, <4>2, <4>3
    <3> HIDE DEF reg
    <3> QED BY <3>1, <3>2, BecomesTypes DEF Base, TypeInv, ModemTypes, Modems
  <2>3. CASE SimChanges
    <3> DEFINE reg == [d \in Domains |-> [stat |-> "none", cell |-> NoCell]]
               changed == {d \in Domains : modem.reg[d] # reg[d]}
    <3>1. \/ UNCHANGED <<modem, fw, lines>>
          \/ modem' = [modem EXCEPT !.reg = reg] /\ RegistrationBecomes(reg, changed)
      BY <2>3 DEF SimChanges
    <3>2. radio' \in {"SIM_READY", "SIM_ABSENT"}
      BY <2>3 DEF SimChanges
    <3>3. reg \in [Domains -> Regs]
      BY DEF Regs, Stats
    <3> HIDE DEF reg
    <3> QED BY <3>1, <3>2, <3>3, BecomesTypes DEF Base, TypeInv, ModemTypes, Modems
  <2>4. CASE CapabilityChanges
    <3>1. 1 - modem.umts \in {0, 1}
      BY DEF Base, TypeInv, ModemTypes, Modems
    <3>2. Report("erinfo", 1 - modem.umts) \in Lines
      BY <3>1, LineTypes, <2>4 DEF Base, TypeInv, ModemTypes, Modems, Report, Lines
    <3>3. lines' \in [Channels -> Seq(Lines)]
      BY <2>4, <3>2 DEF CapabilityChanges, Base, TypeInv, ModemTypes
    <3> QED BY <2>4, <3>1, <3>3 DEF CapabilityChanges, Base, TypeInv, ModemTypes, Modems
  <2>5. CASE SignalChanges
    <3>1. Report("signal", 0) \in Lines
      BY DEF Report, Lines
    <3>2. lines' \in [Channels -> Seq(Lines)]
      BY <2>5, <3>1, AddsOne DEF SignalChanges, Base, TypeInv, ModemTypes
    <3>3. modem' \in Modems /\ radio' = radio
      <4>1. modem.level + 1 \in Nat
        BY DEF Base, TypeInv, ModemTypes, Modems
      <4>2. modem' = [modem EXCEPT !.level = modem.level + 1] /\ radio' = radio
        BY <2>5 DEF SignalChanges
      <4> QED BY <4>1, <4>2 DEF Base, TypeInv, ModemTypes, Modems
    <3>4. fw' \in Knowledge
      BY <2>5 DEF SignalChanges, Base, TypeInv, ModemTypes, Knowledge
    <3> QED BY <3>2, <3>3, <3>4 DEF Base, TypeInv, ModemTypes
  <2>6. CASE startPollFastDormancy \/ PacketReceived
    <3>1. modem.rx + 1 \in Nat /\ (~modem.connected) \in BOOLEAN
      BY DEF Base, TypeInv, ModemTypes, Modems
    <3>2. UNCHANGED <<radio, lines, fw>>
          /\ \/ modem' = [modem EXCEPT !.connected = ~modem.connected]
             \/ modem' = [modem EXCEPT !.rx = modem.rx + 1]
      BY <2>6 DEF startPollFastDormancy, PacketReceived
    <3> QED BY <3>1, <3>2 DEF Base, TypeInv, ModemTypes, Modems
  <2> QED BY <2>1, <2>2, <2>3, <2>4, <2>5, <2>6 DEF ModemStep
<1>5. ModemTypes' /\ RaiseOK'
  BY <1>3, <1>4 DEF Base, TypeInv, ModemTypes, RaiseOK
<1> QED BY <1>1, <1>2, <1>5 DEF Base, TypeInv

LEMMA HandledLine ==
    ASSUME TypeInv, NEW c \in Channels, NEW at, NEW kinds, Handles(c, at, kinds)
    PROVE  /\ lines[c] \in Seq(Lines) /\ lines[c] # << >> /\ Head(lines[c]) \in Lines
           /\ Tail(lines[c]) \in Seq(Lines)
           /\ Head(lines[c]).kind \in kinds
           /\ Head(lines[c]).kind \in Domains => Head(lines[c]).val \in Regs
           /\ Head(lines[c]).kind = "e2reg" => Head(lines[c]).val \in [Domains -> Statuses]
           /\ Head(lines[c]).kind = "erinfo" => Head(lines[c]).val \in {0, 1}
<1>1. lines[c] \in Seq(Lines) /\ lines[c] # << >> /\ Head(lines[c]).kind \in kinds
  BY DEF Handles, TypeInv, ModemTypes
<1>2. Head(lines[c]) \in Lines /\ Tail(lines[c]) \in Seq(Lines)
  BY <1>1
<1> QED BY <1>1, <1>2 DEF Lines, Domains

LEMMA ProceedsTypes ==
    ASSUME TypeInv, NEW c \in Channels, NEW at, NEW kinds, Handles(c, at, kinds),
           NEW to \in {"idle", "inform", "parse", "raise"}, Proceeds(c, to)
    PROVE  /\ lines' \in [Channels -> Seq(Lines)]
           /\ readerPc' \in [Channels -> {"idle", "inform", "parse", "raise"}]
           /\ readerPc' = [readerPc EXCEPT ![c] = to]
  BY HandledLine DEF Proceeds, TypeInv, ModemTypes

LEMMA ToldTypes ==
    ASSUME TypeInv, NEW d \in Domains, NEW reg
    PROVE  /\ NetworkStateChanged \in Knowledge /\ TellsOf(d, reg) \in Knowledge
           /\ TellsNothingOf(d, reg) \in Knowledge /\ Fails(d) \in Knowledge
           /\ \A other \in BOOLEAN : Overwritten(d, other) \in Knowledge
<1>1. NetworkStateChanged \in Knowledge
  BY DEF TypeInv, ModemTypes, Knowledge, NetworkStateChanged
<1>2. TellsOf(d, reg) \in Knowledge
  BY <1>1 DEF TypeInv, ModemTypes, Knowledge, TellsOf
<1>3. TellsNothingOf(d, reg) \in Knowledge
  BY DEF TypeInv, ModemTypes, Knowledge, TellsNothingOf
<1>4. Fails(d) \in Knowledge
  BY DEF TypeInv, ModemTypes, Knowledge, Fails, Domains, Asked
<1>5. \A other \in BOOLEAN : Overwritten(d, other) \in Knowledge
  BY UnreportedTypes DEF TypeInv, ModemTypes, Knowledge, Overwritten
<1> QED BY <1>1, <1>2, <1>3, <1>4, <1>5

LEMMA ReaderKeepsBase ==
    ASSUME Base, NEW c \in Channels, ReaderStep(c)
    PROVE  Base'
<1>1. UNCHANGED <<pc, req, lock, s_screenState, s_cops_mode, selection, fd, radio, modem,
                  s_registrationDeniedReason, asked_umts_rinfo>>
  BY DEF ReaderStep, onRegistrationStatusChanged, onNetworkCapabilityChanged, onNetworkStatusChanged,
         onSignalStrengthChanged, Handles
<1>2. PlaceOK' /\ LockDiscipline'
  BY <1>1 DEF Base, PlaceOK, LockDiscipline
<1>3. lines' \in [Channels -> Seq(Lines)]
      /\ readerPc' \in [Channels -> {"idle", "inform", "parse", "raise"}]
  <2>1. CASE onRegistrationStatusChanged(c)
    <3>1. \/ Handles(c, "idle", Domains) /\ (Proceeds(c, "inform") \/ Proceeds(c, "idle"))
          \/ Handles(c, "inform", Domains) /\ Proceeds(c, "idle")
      BY <2>1 DEF onRegistrationStatusChanged
    <3> QED BY <3>1, ProceedsTypes DEF Base
  <2>2. CASE onNetworkCapabilityChanged(c)
    <3>1. \/ Handles(c, "idle", {"erinfo"}) /\ Proceeds(c, "parse")
          \/ Handles(c, "parse", {"erinfo"}) /\ Proceeds(c, "idle")
      BY <2>2 DEF onNetworkCapabilityChanged
    <3> QED BY <3>1, ProceedsTypes DEF Base
  <2>3. CASE onNetworkStatusChanged(c)
    <3>1. \/ Handles(c, "idle", {"e2reg"}) /\ Proceeds(c, "parse")
          \/ Handles(c, "parse", {"e2reg"}) /\ Proceeds(c, "idle")
      BY <2>3 DEF onNetworkStatusChanged
    <3> QED BY <3>1, ProceedsTypes DEF Base
  <2>4. CASE onSignalStrengthChanged(c)
    <3>1. \/ Handles(c, "idle", {"signal"}) /\ (Proceeds(c, "raise") \/ Proceeds(c, "idle"))
          \/ Handles(c, "raise", {"signal"}) /\ Proceeds(c, "idle")
      BY <2>4 DEF onSignalStrengthChanged
    <3> QED BY <3>1, ProceedsTypes DEF Base
  <2> QED BY <2>1, <2>2, <2>3, <2>4 DEF ReaderStep
<1>4. CASE onRegistrationStatusChanged(c)
  <2>1. Head(lines[c]).kind \in Domains /\ Head(lines[c]).val \in Regs
    BY <1>4, HandledLine DEF onRegistrationStatusChanged, Base
  <2>2. s_reg' \in [Domains -> Regs] /\ s_reg_change' \in {0, 1} /\ fw' \in Knowledge
    <3>1. s_reg' = s_reg \/ s_reg' = [s_reg EXCEPT ![Head(lines[c]).kind] = Head(lines[c]).val]
      BY <1>4 DEF onRegistrationStatusChanged
    <3>2. s_reg_change' = 1 \/ s_reg_change' = s_reg_change
      BY <1>4 DEF onRegistrationStatusChanged
    <3>3. \/ fw' = fw \/ fw' = TellsNothingOf(Head(lines[c]).kind, Head(lines[c]).val)
          \/ fw' = TellsOf(Head(lines[c]).kind, Head(lines[c]).val)
      BY <1>4 DEF onRegistrationStatusChanged
    <3> QED BY <2>1, <3>1, <3>2, <3>3, ToldTypes DEF Base, TypeInv, CacheTypes, ModemTypes
  <2>3. CacheTypes'
    BY <1>1, <1>4, <2>2 DEF onRegistrationStatusChanged, Base, TypeInv, CacheTypes
  <2>4. UNCHANGED <<rssi_queue, events>> /\ (readerPc'[c] # "raise")
        /\ \A e \in Channels : e # c => readerPc'[e] = readerPc[e]
    BY <1>4 DEF onRegistrationStatusChanged, Handles, Proceeds, Base, TypeInv, ModemTypes
  <2>5. RaiseOK'
    BY <2>4 DEF Base, RaiseOK, Channels, Runners
  <2> QED BY <1>1, <1>2, <1>3, <2>2, <2>3, <2>4, <2>5 DEF Base, TypeInv, ModemTypes, RunnerTypes
<1>5. CASE onNetworkCapabilityChanged(c)
  <2>1. Head(lines[c]).val \in {0, 1}
    BY <1>5, HandledLine DEF onNetworkCapabilityChanged, Base
  <2>2. fw' \in Knowledge /\ s_umts_rinfo' \in {0, 1} /\ old_umts_rinfo' \in {-1, 0, 1}
    BY <1>5, <2>1, ToldTypes
    DEF onNetworkCapabilityChanged, Base, TypeInv, CacheTypes, ModemTypes, Domains
  <2>3. CacheTypes'
    BY <1>1, <1>5, <2>2 DEF onNetworkCapabilityChanged, Base, TypeInv, CacheTypes
  <2>4. UNCHANGED <<rssi_queue, events>> /\ (readerPc'[c] # "raise")
        /\ \A e \in Channels : e # c => readerPc'[e] = readerPc[e]
    BY <1>5 DEF onNetworkCapabilityChanged, Handles, Proceeds, Base, TypeInv, ModemTypes
  <2>5. RaiseOK'
    BY <2>4 DEF Base, RaiseOK, Channels, Runners
  <2> QED BY <1>1, <1>2, <1>3, <2>2, <2>3, <2>4, <2>5 DEF Base, TypeInv, ModemTypes, RunnerTypes
<1>6. CASE onNetworkStatusChanged(c)
  <2>1. Head(lines[c]).val \in [Domains -> Statuses]
    BY <1>6, HandledLine DEF onNetworkStatusChanged, Base
  <2>2. /\ fw' \in Knowledge /\ s_status' \in [Domains -> Statuses]
        /\ old_resp' \subseteq Domains \cup {"unset"}
        /\ events' \in [sim : Nat, signal : Nat]
    <3>1. /\ fw' = fw \/ fw' = NetworkStateChanged
          /\ s_status' = [d \in Domains |-> "unknown"] \/ s_status' = Head(lines[c]).val
          /\ old_resp' = old_resp \/ old_resp' = Restricted(Head(lines[c]).val)
          /\ events' = events \/ events' = [events EXCEPT !.signal = @ + 1]
      BY <1>6 DEF onNetworkStatusChanged
    <3>2. fw' \in Knowledge
      BY <3>1, ToldTypes DEF Base, TypeInv, ModemTypes, Domains
    <3>3. s_status' \in [Domains -> Statuses] /\ old_resp' \subseteq Domains \cup {"unset"}
      BY <2>1, <3>1 DEF Base, TypeInv, CacheTypes, Statuses, Restricted
    <3>4. events' \in [sim : Nat, signal : Nat]
      BY <3>1 DEF Base, TypeInv, RunnerTypes
    <3> QED BY <3>2, <3>3, <3>4
  <2>3. CacheTypes'
    BY <1>1, <1>6, <2>2 DEF onNetworkStatusChanged, Base, TypeInv, CacheTypes
  <2>4. UNCHANGED rssi_queue /\ (readerPc'[c] # "raise")
        /\ \A e \in Channels : e # c => readerPc'[e] = readerPc[e]
    BY <1>6 DEF onNetworkStatusChanged, Handles, Proceeds, Base, TypeInv, ModemTypes
  <2>5. RaiseOK'
    BY <2>4 DEF Base, RaiseOK, Channels, Runners
  <2> QED BY <1>1, <1>2, <1>3, <2>2, <2>3, <2>4, <2>5 DEF Base, TypeInv, ModemTypes, RunnerTypes
<1>7. CASE onSignalStrengthChanged(c)
  <2>1. CacheTypes' /\ fw' = fw
    BY <1>1, <1>7 DEF onSignalStrengthChanged, Base, TypeInv, CacheTypes
  <2>2. events' \in [sim : Nat, signal : Nat] /\ \A e \in Channels : e # c => readerPc'[e] = readerPc[e]
    <3>1. events' = events \/ events' = [events EXCEPT !.signal = @ + 1]
      BY <1>7 DEF onSignalStrengthChanged
    <3>2. \A e \in Channels : e # c => readerPc'[e] = readerPc[e]
      BY <1>7 DEF onSignalStrengthChanged, Proceeds, Base, TypeInv, ModemTypes
    <3> QED BY <3>1, <3>2 DEF Base, TypeInv, RunnerTypes
  <2>3. \/ rssi_queue' = rssi_queue /\ (readerPc'[c] = "raise" => rssi_queue = 0)
        \/ rssi_queue' = rssi_queue + 1 /\ readerPc[c] = "raise" /\ readerPc'[c] = "idle"
    BY <1>7 DEF onSignalStrengthChanged, Handles, Proceeds, Base, TypeInv, ModemTypes
  <2>4. RaiseOK' /\ rssi_queue' \in {0, 1, 2}
    BY <2>2, <2>3 DEF Base, RaiseOK, Channels, Runners, TypeInv, ModemTypes
  <2> QED BY <1>1, <1>2, <1>3, <2>1, <2>2, <2>4 DEF Base, TypeInv, ModemTypes, RunnerTypes
<1> QED BY <1>4, <1>5, <1>6, <1>7 DEF ReaderStep

-----------------------------------------------------------------------------
(***************************************************************************)
(* The steps of the runners.                                               *)
(***************************************************************************)
LEMMA SubscribeTypes ==
    ASSUME TypeInv, NEW r \in Runners, NEW kinds \in SUBSET Subscriptions, NEW on, Subscribe(r, kinds, on)
    PROVE  modem' \in Modems /\ fw' \in Knowledge
<1>1. CASE modem' = [modem EXCEPT !.sub[r] = IF on THEN @ \cup kinds ELSE @ \ kinds] /\ fw' = fw
  <2>1. modem.sub \in [Channels -> SUBSET Subscriptions]
    BY DEF TypeInv, ModemTypes, Modems
  <2>2. (IF on THEN modem.sub[r] \cup kinds ELSE modem.sub[r] \ kinds) \in SUBSET Subscriptions
    BY <2>1 DEF Channels
  <2>3. modem' = [modem EXCEPT !.sub = [modem.sub EXCEPT
                      ![r] = IF on THEN modem.sub[r] \cup kinds ELSE modem.sub[r] \ kinds]]
    BY <1>1
  <2>4. [modem.sub EXCEPT ![r] = IF on THEN modem.sub[r] \cup kinds ELSE modem.sub[r] \ kinds]
          \in [Channels -> SUBSET Subscriptions]
    BY <2>1, <2>2
  <2> QED BY <1>1, <2>3, <2>4 DEF TypeInv, ModemTypes, Modems
<1>2. CASE fw' = [fw EXCEPT !.unsure = @ \cup kinds] /\ modem' = modem
  BY <1>2 DEF TypeInv, ModemTypes, Knowledge
<1> QED BY <1>1, <1>2 DEF Subscribe

LEMMA RequestKeepsBase ==
    ASSUME Base, NEW kind \in RequestKinds, NEW label \in {"lock", "screen"} \cup RequestKinds,
           label = "lock" => kind \in Domains,
           label = "screen" => kind \in {"screenOn", "screenOff"},
           label \in RequestKinds => label = kind /\ kind \in {"operator", "manual", "strength", "automatic"},
           kind = "automatic" => selection.queue = "none",
           Request(kind, label)
    PROVE  Base'
<1> DEFINE r == IF kind = "strength" THEN "prio" ELSE "normal"
<1>1. /\ Idle(r) /\ req' = [req EXCEPT ![r].kind = kind] /\ Goto(r, label)
      /\ fw' = [fw EXCEPT !.stale = @ \ {kind}]
      /\ UNCHANGED <<cacheVars, statusVars, rinfoVars, screenVars, selectVars, signalVars, fd,
                     readerVars, radio, modem>>
  BY DEF Request
<1>2. r \in Runners /\ label \in RequestLabels
  BY DEF Runners, RequestLabels, RequestKinds
<1>3. label \notin Locked \cup Setting \cup {"cops?", "efdorm", "idle"}
      /\ (label \in Automatic => kind = "automatic")
  BY DEF Locked, Setting, Automatic, RequestKinds
<1>4. fw' \in Knowledge
  BY <1>1 DEF Base, TypeInv, ModemTypes, Knowledge
<1>5. /\ req' \in [Runners -> [kind : RequestKinds \cup {"none"}, reg : Regs, screen : {0, 1}]]
      /\ req'[r].kind = kind /\ req'[r].screen = req[r].screen
      /\ \A s \in Runners : s # r => req'[s] = req[s]
  BY <1>1, <1>2 DEF Base, TypeInv, RunnerTypes
<1>6. /\ pc' \in [Runners -> RequestLabels] /\ pc'[r] = label /\ pc[r] = "idle"
      /\ \A s \in Runners : s # r => pc'[s] = pc[s]
  BY <1>1, <1>2 DEF Base, TypeInv, RunnerTypes, Goto, Idle, At
<1> HIDE DEF r
<1>7. TypeInv'
  BY <1>1, <1>4, <1>5, <1>6 DEF Base, TypeInv, CacheTypes, RunnerTypes, ModemTypes
<1>8. LockDiscipline' /\ RaiseOK'
  BY <1>1, <1>2, <1>3, <1>6 DEF Base, LockDiscipline, RaiseOK, Locked
<1>9. PlaceOK'
  <2>1. kind # "none" /\ "normal" \in Runners
    BY DEF RequestKinds, Runners
  <2>2. UNCHANGED <<fd, selection, s_screenState>>
    BY <1>1
  <2>3. \A s \in Runners : \/ s = r /\ pc'[s] = label /\ req'[s].kind = kind
                           \/ pc'[s] = pc[s] /\ req'[s] = req[s]
    BY <1>5, <1>6
  <2>4. /\ pc'["normal"] = "efdorm" => pc["normal"] = "efdorm"
        /\ pc'["normal"] \in Automatic => selection.queue = "none"
        /\ req'["normal"].kind # "none" \/ pc'["normal"] \in {"idle", "efdorm", "cops?"}
    BY <1>3, <2>1, <2>3 DEF Base, PlaceOK
  <2>5. \A s \in Runners : pc'[s] = "cops?" => pc[s] = "cops?"
    BY <1>3, <2>3
  <2>6. \A s \in Runners : pc'[s] \in Setting => req'[s].screen = s_screenState
    BY <1>3, <2>3 DEF Base, PlaceOK
  <2> QED BY <2>2, <2>4, <2>5, <2>6 DEF Base, PlaceOK
<1> QED BY <1>7, <1>8, <1>9 DEF Base

LEMMA FrameworkKeepsBase ==
    ASSUME Base, FrameworkStep
    PROVE  Base'
<1>1. CASE \E d \in Domains : Request(d, "lock")
  BY <1>1, RequestKeepsBase DEF Domains, RequestKinds
<1>2. CASE \E kind \in {"operator", "manual", "strength"} : Request(kind, kind)
  BY <1>2, RequestKeepsBase DEF RequestKinds
<1>3. CASE \E kind \in {"screenOn", "screenOff"} : Request(kind, "screen")
  BY <1>3, RequestKeepsBase DEF RequestKinds
<1>4. CASE Request("automatic", "automatic") /\ selection.queue = "none"
  BY <1>4, RequestKeepsBase DEF RequestKinds
<1> QED BY <1>1, <1>2, <1>3, <1>4 DEF FrameworkStep

\* A step of runner r that changes, besides its place, no lock and no screen.
Places == {"efdorm", "cops?"}

LEMMA PlaceStep ==
    ASSUME Base, NEW r \in Runners, NEW to \in RequestLabels, Goto(r, to),
           to \in Locked <=> pc[r] \in Locked,
           UNCHANGED <<lock, s_screenState, readerPc, fd, selection>>,
           rssi_queue' = rssi_queue \/ rssi_queue' = 0,
           \A s \in Runners : req'[s].screen = req[s].screen,
           req'["normal"].kind = req["normal"].kind,
           to \in Setting => pc[r] \in Setting,
           to \in Automatic => pc[r] \in Automatic,
           to \notin Places, pc[r] \notin Places,
           pc[r] = "idle" => r = "prio"
    PROVE  pc' \in [Runners -> RequestLabels] /\ LockDiscipline' /\ PlaceOK' /\ RaiseOK'
<1>1. /\ pc' \in [Runners -> RequestLabels] /\ pc'[r] = to
      /\ \A s \in Runners : s # r => pc'[s] = pc[s]
  BY DEF Goto, Base, TypeInv, RunnerTypes
<1>2. LockDiscipline'
  BY <1>1 DEF Base, LockDiscipline
<1>3. RaiseOK'
  BY DEF Base, RaiseOK, TypeInv, ModemTypes
<1>4. "normal" \in Runners /\ (r = "prio" => r # "normal")
  BY DEF Runners
<1>5. /\ pc'["normal"] = "efdorm" => pc["normal"] = "efdorm"
      /\ pc'["normal"] \in Automatic => pc["normal"] \in Automatic
      /\ req'["normal"].kind # "none" \/ pc'["normal"] \in {"idle", "efdorm", "cops?"}
  BY <1>1, <1>4 DEF Places, Base, PlaceOK
<1>6. \A s \in Runners : /\ pc'[s] = "cops?" => pc[s] = "cops?"
                         /\ pc'[s] \in Setting => pc[s] \in Setting
  BY <1>1 DEF Places
<1>7. /\ pc'["normal"] = "efdorm" => fd'.chains > 0
      /\ pc'["normal"] \in Automatic => selection'.queue = "none"
  BY <1>5 DEF Base, PlaceOK
<1>8. ASSUME NEW s \in Runners, pc'[s] = "cops?"
      PROVE  selection'.queue = s /\ selection'.loops < MaxLoops
  <2>1. pc[s] = "cops?"
    BY <1>6, <1>8
  <2>2. selection.queue = s /\ selection.loops < MaxLoops
    BY <2>1 DEF Base, PlaceOK
  <2> QED BY <2>2
<1>9. ASSUME NEW s \in Runners, pc'[s] \in Setting
      PROVE  req'[s].screen = s_screenState'
  <2>1. pc[s] \in Setting
    BY <1>6, <1>9
  <2>2. req[s].screen = s_screenState
    BY <2>1 DEF Base, PlaceOK
  <2> QED BY <2>2
<1>10. PlaceOK'
  BY <1>5, <1>7, <1>8, <1>9 DEF PlaceOK
<1> QED BY <1>1, <1>2, <1>3, <1>10

LEMMA PcStep ==
    ASSUME TypeInv, NEW r \in Runners, NEW to \in RequestLabels, Goto(r, to)
    PROVE  /\ pc' \in [Runners -> RequestLabels] /\ pc'[r] = to
           /\ \A s \in Runners : s # r => pc'[s] = pc[s]
  BY DEF Goto, TypeInv, RunnerTypes

LEMMA ScreenStep ==
    ASSUME TypeInv, NEW r \in Runners, NEW screen \in {0, 1},
           req' = [req EXCEPT ![r].screen = screen]
    PROVE  /\ req' \in [Runners -> [kind : RequestKinds \cup {"none"}, reg : Regs, screen : {0, 1}]]
           /\ req'[r].screen = screen /\ req'[r].kind = req[r].kind
           /\ \A s \in Runners : s # r => req'[s] = req[s]
  BY DEF TypeInv, RunnerTypes

LEMMA RegistrationKeepsBase ==
    ASSUME Base, RegistrationStep
    PROVE  Base'
<1>1. PICK d \in Domains : /\ req["normal"].kind = d
                           /\ \/ RequestLocks(d) \/ RequestSubscribes(d) \/ RequestQueries(d)
                              \/ RequestAsksReason(d) \/ RequestWrites(d) \/ RequestAnswers(d)
                              \/ RequestEnds(d)
  BY DEF RegistrationStep
<1>2. /\ "normal" \in Runners /\ "normal" \in Channels /\ {d} \in SUBSET Subscriptions
      /\ req["normal"].reg \in Regs /\ d # "none"
      /\ UNCHANGED <<old_response, statusVars, s_umts_rinfo, old_umts_rinfo, signalVars, selection,
                     s_cops_mode, fd, readerVars, radio, s_screenState>>
  BY <1>1 DEF Runners, Channels, Subscriptions, Domains, Base, TypeInv, RunnerTypes,
              RequestLocks, RequestSubscribes, RequestQueries, RequestAsksReason, RequestWrites,
              RequestAnswers, RequestEnds, RegistrationUnchanged, Runs
<1>3. /\ modem' \in Modems /\ fw' \in Knowledge
  <2>1. CASE RequestSubscribes(d)
    BY <1>2, <2>1, SubscribeTypes DEF RequestSubscribes, Base
  <2>2. CASE RequestEnds(d)
    <3>1. Subscribe("normal", {d}, FALSE) \/ UNCHANGED <<modem, fw>>
      BY <2>2 DEF RequestEnds
    <3> QED BY <1>2, <3>1, SubscribeTypes DEF Base, TypeInv, ModemTypes
  <2>3. CASE ~RequestSubscribes(d) /\ ~RequestEnds(d)
    <3>1. modem' = modem
      BY <1>1, <2>3 DEF RequestLocks, RequestQueries, RequestAsksReason, RequestWrites, RequestAnswers
    <3>2. \/ fw' = fw \/ fw' = Fails(d) \/ fw' = Overwritten(d, s_reg[d] # req["normal"].reg)
          \/ fw' = [fw EXCEPT !.reg[d] = req["normal"].reg]
      BY <1>1, <2>3 DEF RequestLocks, RequestQueries, RequestAsksReason, RequestWrites, RequestAnswers
    <3>3. (s_reg[d] # req["normal"].reg) \in BOOLEAN
      OBVIOUS
    <3>4. [fw EXCEPT !.reg[d] = req["normal"].reg] \in Knowledge
      BY <1>2 DEF Base, TypeInv, ModemTypes, Knowledge
    <3> QED BY <3>1, <3>2, <3>3, <3>4, ToldTypes DEF Base, TypeInv, ModemTypes
  <2> QED BY <2>1, <2>2, <2>3
<1>4. ModemTypes'
  BY <1>2, <1>3 DEF Base, TypeInv, ModemTypes
<1>5. /\ s_reg' \in [Domains -> Regs] /\ s_reg_change' \in {0, 1}
      /\ s_registrationDeniedReason' \in Statuses \cup {"default"}
      /\ asked_umts_rinfo' \in {-1, 0, 1}
  <2>1. s_reg' = s_reg \/ s_reg' = [s_reg EXCEPT ![d] = req["normal"].reg]
    BY <1>1 DEF RequestLocks, RequestSubscribes, RequestQueries, RequestAsksReason, RequestWrites,
                RequestAnswers, RequestEnds
  <2>2. s_reg_change' = s_reg_change \/ s_reg_change' = 1
    BY <1>1 DEF RequestLocks, RequestSubscribes, RequestQueries, RequestAsksReason, RequestWrites,
                RequestAnswers, RequestEnds
  <2>3. asked_umts_rinfo' = asked_umts_rinfo \/ asked_umts_rinfo' = s_umts_rinfo
    BY <1>1 DEF RequestLocks, RequestSubscribes, RequestQueries, RequestAsksReason, RequestWrites,
                RequestAnswers, RequestEnds, getNetworkType
  <2>4. s_registrationDeniedReason' \in {s_registrationDeniedReason, "default", StatusReport(modem.reg)[d]}
    BY <1>1 DEF RequestLocks, RequestSubscribes, RequestQueries, RequestAsksReason, RequestWrites,
                RequestAnswers, RequestEnds
  <2>5. StatusReport(modem.reg)[d] \in Statuses
    BY StatusTypes DEF Base, TypeInv, ModemTypes, Modems
  <2> QED BY <1>2, <2>1, <2>2, <2>3, <2>4, <2>5 DEF Base, TypeInv, CacheTypes
<1>6. CacheTypes'
  BY <1>2, <1>5 DEF Base, TypeInv, CacheTypes
<1>7. /\ req' \in [Runners -> [kind : RequestKinds \cup {"none"}, reg : Regs, screen : {0, 1}]]
      /\ req'["normal"].kind = d
      /\ \A s \in Runners : req'[s].screen = req[s].screen
  <2>1. PICK reg : req' = req \/ (reg \in Regs /\ req' = [req EXCEPT !["normal"].reg = reg])
    <3>1. CASE RequestLocks(d)
      BY <3>1 DEF RequestLocks, Base, TypeInv, CacheTypes
    <3>2. CASE RequestQueries(d)
      <4>1. modem.reg[d] \in Regs /\ [stat |-> "none", cell |-> NoCell] \in Regs
        BY DEF Base, TypeInv, ModemTypes, Modems, Regs, Stats
      <4>2. req' = req \/ \E reg \in {modem.reg[d], [stat |-> "none", cell |-> NoCell]} :
                              req' = [req EXCEPT !["normal"].reg = reg]
        BY <3>2 DEF RequestQueries
      <4> QED BY <4>1, <4>2
    <3>3. CASE ~RequestLocks(d) /\ ~RequestQueries(d)
      BY <1>1, <3>3 DEF RequestSubscribes, RequestAsksReason, RequestWrites, RequestAnswers, RequestEnds
    <3> QED BY <3>1, <3>2, <3>3
  <2> QED BY <1>1, <1>2, <2>1 DEF Base, TypeInv, RunnerTypes
<1>8. CASE RequestLocks(d)
  <2>1. At("normal", "lock") /\ lock = "free" /\ lock' = "normal"
        /\ \E to \in {"answer", "subscribe"} : Goto("normal", to)
    BY <1>8 DEF RequestLocks, getScreenStateLock
  <2>2. /\ pc' \in [Runners -> RequestLabels] /\ pc'["normal"] \in {"answer", "subscribe"}
        /\ pc'["prio"] = pc["prio"] /\ pc["normal"] = "lock"
    <3>1. {"answer", "subscribe"} \subseteq RequestLabels
      BY DEF RequestLabels
    <3> QED BY <2>1, <3>1, PcStep DEF At, Base, Runners
  <2>3. LockDiscipline'
    BY <2>1, <2>2 DEF Base, LockDiscipline, Locked, Runners
  <2>4. PlaceOK'
    BY <1>2, <1>7, <2>2 DEF Base, PlaceOK, Runners, Setting, Automatic
  <2>5. RunnerTypes' /\ RaiseOK'
    BY <1>2, <1>7, <2>1, <2>2 DEF Base, TypeInv, RunnerTypes, RaiseOK
  <2> QED BY <1>4, <1>6, <2>3, <2>4, <2>5 DEF Base, TypeInv
<1>9. CASE ~RequestLocks(d)
  <2>1. PICK to \in {"query", "answer", "reason", "write", "end", "unlock"} : Goto("normal", to)
    BY <1>1, <1>9 DEF RequestSubscribes, RequestQueries, RequestAsksReason, RequestWrites,
                      RequestAnswers, RequestEnds
  <2>2. pc["normal"] \in {"subscribe", "query", "reason", "write", "answer", "end"} /\ lock' = lock
    BY <1>1, <1>9 DEF RequestSubscribes, RequestQueries, RequestAsksReason, RequestWrites,
                      RequestAnswers, RequestEnds, At
  <2>3. to \in RequestLabels /\ to \in Locked /\ pc["normal"] \in Locked /\ to \notin Setting \cup Automatic \cup Places
        /\ pc["normal"] \notin Places \cup {"idle"}
    BY <2>1, <2>2 DEF RequestLabels, Locked, Setting, Automatic, Places
  <2>4. pc' \in [Runners -> RequestLabels] /\ LockDiscipline' /\ PlaceOK' /\ RaiseOK'
    BY <1>1, <1>2, <1>7, <2>1, <2>2, <2>3, PlaceStep
  <2>5. RunnerTypes'
    BY <1>2, <1>7, <2>2, <2>4 DEF Base, TypeInv, RunnerTypes
  <2> QED BY <1>4, <1>6, <2>4, <2>5 DEF Base, TypeInv
<1> QED BY <1>8, <1>9

LEMMA UnlockKeepsBase ==
    ASSUME Base, NEW r \in Runners, Unlock(r)
    PROVE  Base'
<1>1. /\ pc' \in [Runners -> RequestLabels] /\ pc[r] = "unlock" /\ pc'[r] = "idle"
      /\ \A s \in Runners : s # r => pc'[s] = pc[s]
  BY DEF Unlock, At, Goto, Base, TypeInv, RunnerTypes, RequestLabels
<1>2. /\ lock' = "free"
      /\ UNCHANGED <<old_response, statusVars, s_umts_rinfo, old_umts_rinfo, signalVars, selection,
                     s_cops_mode, fd, readerVars, radio, s_screenState, s_reg, s_reg_change,
                     asked_umts_rinfo, s_registrationDeniedReason, modem, req, fw>>
  BY DEF Unlock, Release, releaseScreenStateLock, RegistrationUnchanged, Runs
<1>3. TypeInv'
  BY <1>1, <1>2 DEF Base, TypeInv, CacheTypes, RunnerTypes, ModemTypes
<1>4. LockDiscipline'
  <2>1. \A s \in Runners : pc'[s] \notin Locked
    BY <1>1 DEF Base, LockDiscipline, Locked
  <2>2. "free" \notin Runners
    BY DEF Runners
  <2> QED BY <1>2, <2>1, <2>2 DEF LockDiscipline
<1>5. PlaceOK'
  BY <1>1, <1>2 DEF Base, PlaceOK, Setting, Automatic, Runners
<1> QED BY <1>2, <1>3, <1>4, <1>5 DEF Base, RaiseOK

LEMMA ScreenStateKeepsBase ==
    ASSUME Base, requestScreenState
    PROVE  Base'
<1>1. /\ pc["normal"] = "screen" /\ lock = "free" /\ lock' = "normal"
      /\ UNCHANGED <<cacheVars, statusVars, rinfoVars, selectVars, fd, readerVars, radio, signalVars,
                     modem, fw>>
  BY DEF requestScreenState, getScreenStateLock, ScreenUnchanged, Runs, At
<1>2. \/ Goto("normal", "unlock") /\ UNCHANGED <<s_screenState, req>>
      \/ /\ Goto("normal", "set cs") /\ s_screenState' \in {0, 1}
         /\ req' = [req EXCEPT !["normal"].screen = s_screenState']
  BY DEF requestScreenState
<1>3. /\ pc' \in [Runners -> RequestLabels] /\ pc'["prio"] = pc["prio"]
      /\ \/ Goto("normal", "unlock") /\ pc'["normal"] = "unlock"
         \/ Goto("normal", "set cs") /\ pc'["normal"] = "set cs"
  <2>1. {"unlock", "set cs"} \subseteq RequestLabels
    BY DEF RequestLabels
  <2> QED BY <1>2, <2>1, PcStep DEF Base, Runners
<1>8. /\ req' \in [Runners -> [kind : RequestKinds \cup {"none"}, reg : Regs, screen : {0, 1}]]
      /\ req'["normal"].kind = req["normal"].kind
      /\ pc'["normal"] = "set cs" => req'["normal"].screen = s_screenState'
      /\ s_screenState' \in {0, 1}
  <2>1. CASE Goto("normal", "unlock") /\ UNCHANGED <<s_screenState, req>>
    <3>1. pc'["normal"] = "unlock"
      BY <2>1, PcStep DEF Base, Runners, RequestLabels
    <3> QED BY <2>1, <3>1 DEF Base, TypeInv, RunnerTypes
  <2>2. CASE req' = [req EXCEPT !["normal"].screen = s_screenState'] /\ s_screenState' \in {0, 1}
    BY <2>2, ScreenStep DEF Base, Runners
  <2> QED BY <1>2, <2>1, <2>2
<1>4. TypeInv'
  <2>1. CacheTypes' /\ ModemTypes'
    BY <1>1 DEF Base, TypeInv, CacheTypes, ModemTypes
  <2>2. RunnerTypes'
    <3>1. "normal" \in Runners
      BY DEF Runners
    <3> QED BY <1>1, <1>3, <1>8, <3>1 DEF Base, TypeInv, RunnerTypes
  <2> QED BY <2>1, <2>2 DEF TypeInv
<1>5. pc'["normal"] \in {"unlock", "set cs"}
  BY <1>3
<1>6. LockDiscipline'
  BY <1>1, <1>3, <1>5 DEF Base, LockDiscipline, Locked, Runners
<1>7. PlaceOK'
  <2>1. pc["prio"] \notin Setting
    BY <1>1 DEF Base, LockDiscipline, Locked, Setting, Runners
  <2>2. req'["normal"].kind = req["normal"].kind
        /\ (pc'["normal"] = "set cs" => req'["normal"].screen = s_screenState')
    BY <1>8
  <2>3. req["normal"].kind # "none"
    BY <1>1 DEF Base, PlaceOK
  <2> QED BY <1>1, <1>3, <1>5, <2>1, <2>2, <2>3 DEF Base, PlaceOK, Setting, Automatic, Runners
<1> QED BY <1>1, <1>4, <1>6, <1>7 DEF Base, RaiseOK

LEMMA SimReadyKeepsBase ==
    ASSUME Base, onSIMReady
    PROVE  Base'
<1>1. UNCHANGED <<cacheVars, statusVars, rinfoVars, selectVars, fd, readerVars, radio,
                  s_screenState, rssi_queue>>
  BY DEF onSIMReady, ScreenUnchanged, Runs
<1>2. "prio" \in Runners /\ {"e2reg"} \in SUBSET Subscriptions
  BY DEF Runners, Subscriptions
<1>3. CASE Goto("prio", "e2reg") \/ Goto("prio", "sim lock")
  <2>1. PICK to \in {"e2reg", "sim lock"} : Goto("prio", to)
    BY <1>3
  <2>2. to \in RequestLabels /\ to \notin Locked \cup Setting \cup Automatic \cup Places
    BY <2>1 DEF RequestLabels, Locked, Setting, Automatic, Places
  <2>3. pc'["prio"] \in {"e2reg", "sim lock"}
    BY <2>1 DEF Goto, Base, TypeInv, RunnerTypes, Runners
  <2>4. /\ pc["prio"] \in {"idle", "e2reg"}
        /\ UNCHANGED <<lock, req>>
        /\ events' = events \/ (events.sim > 0 /\ events' = [events EXCEPT !.sim = @ - 1])
        /\ Subscribe("prio", {"e2reg"}, TRUE) \/ UNCHANGED <<modem, fw>>
    <3>1. ~Goto("prio", "set cs")
      BY <2>3 DEF Goto, Base, TypeInv, RunnerTypes, Runners
    <3> QED BY <3>1 DEF onSIMReady, Idle, At
  <2>5. pc["prio"] \notin Locked \cup Places
    BY <2>4 DEF Locked, Places
  <2>6. pc' \in [Runners -> RequestLabels] /\ LockDiscipline' /\ PlaceOK' /\ RaiseOK'
    BY <1>1, <1>2, <2>1, <2>2, <2>4, <2>5, PlaceStep
  <2>7. modem' \in Modems /\ fw' \in Knowledge
    BY <1>2, <2>4, SubscribeTypes DEF Base, TypeInv, ModemTypes
  <2>8. events' \in [sim : Nat, signal : Nat]
    <3>1. CASE events' = events
      BY <3>1 DEF Base, TypeInv, RunnerTypes
    <3>2. CASE events.sim > 0 /\ events' = [events EXCEPT !.sim = @ - 1]
      <4>1. events.sim - 1 \in Nat
        <5>1. events.sim \in Nat
          BY DEF Base, TypeInv, RunnerTypes
        <5>2. events.sim > 0
          BY <3>2
        <5> QED BY <5>1, <5>2, OneLess
      <4> QED BY <3>2, <4>1 DEF Base, TypeInv, RunnerTypes
    <3> QED BY <2>4, <3>1, <3>2
  <2>9. TypeInv'
    <3>1. CacheTypes' /\ ModemTypes'
      BY <1>1, <2>7 DEF Base, TypeInv, CacheTypes, ModemTypes
    <3>2. RunnerTypes'
      BY <1>1, <2>4, <2>6, <2>8 DEF Base, TypeInv, RunnerTypes
    <3> QED BY <3>1, <3>2 DEF TypeInv
  <2> QED BY <2>6, <2>9 DEF Base
<1>4. CASE ~Goto("prio", "e2reg") /\ ~Goto("prio", "sim lock")
  <2>1. /\ pc["prio"] = "sim lock" /\ lock = "free" /\ lock' = "prio" /\ Goto("prio", "set cs")
        /\ req' = [req EXCEPT !["prio"].screen = s_screenState]
        /\ UNCHANGED <<events, modem, fw>>
    BY <1>4 DEF onSIMReady, getScreenStateLock, At
  <2>2. pc' \in [Runners -> RequestLabels] /\ pc'["normal"] = pc["normal"] /\ pc'["prio"] = "set cs"
    BY <2>1, PcStep DEF Base, Runners, RequestLabels
  <2>7. req' \in [Runners -> [kind : RequestKinds \cup {"none"}, reg : Regs, screen : {0, 1}]]
    BY <2>1, ScreenStep DEF Base, TypeInv, RunnerTypes, Runners
  <2>3. TypeInv'
    <3>1. CacheTypes' /\ ModemTypes'
      BY <1>1, <2>1 DEF Base, TypeInv, CacheTypes, ModemTypes
    <3>2. RunnerTypes'
      BY <1>1, <2>1, <2>2, <2>7 DEF Base, TypeInv, RunnerTypes, Runners
    <3> QED BY <3>1, <3>2 DEF TypeInv
  <2>4. LockDiscipline'
    BY <2>1, <2>2 DEF Base, LockDiscipline, Locked, Runners
  <2>5. req'["prio"].screen = s_screenState /\ req'["normal"] = req["normal"]
    BY <2>1 DEF Base, TypeInv, RunnerTypes, Runners
  <2>6. PlaceOK'
    BY <1>1, <2>2, <2>5 DEF Base, PlaceOK, Runners
  <2> QED BY <1>1, <2>3, <2>4, <2>6 DEF Base, RaiseOK
<1> QED BY <1>3, <1>4

LEMMA SetScreenKeepsBase ==
    ASSUME Base, NEW r \in Runners, setScreenState(r)
    PROVE  Base'
<1>1. UNCHANGED <<cacheVars, statusVars, rinfoVars, selectVars, fd, readerVars, radio, screenVars,
                  signalVars, req>>
  BY DEF setScreenState, ScreenUnchanged, Runs
<1>2. PICK from \in {"set cs", "set ps", "set signal"}, kinds \in {{"cs"}, {"ps"}, {"signal"}},
           to \in {"set ps", "set poll", "set signal", "unlock"} :
          At(r, from) /\ Subscribe(r, kinds, req[r].screen = 1) /\ Goto(r, to)
  BY DEF setScreenState
<1>3. kinds \in SUBSET Subscriptions /\ pc[r] = from
  BY <1>2 DEF Subscriptions, At
<1>4. /\ to \in RequestLabels /\ to \in Locked /\ from \in Locked \cap Setting
      /\ to \notin Automatic \cup Places /\ from \notin Places \cup {"idle"}
  BY <1>2 DEF RequestLabels, Locked, Setting, Automatic, Places
<1>5. pc' \in [Runners -> RequestLabels] /\ LockDiscipline' /\ PlaceOK' /\ RaiseOK'
  BY <1>1, <1>2, <1>3, <1>4, PlaceStep
<1>6. modem' \in Modems /\ fw' \in Knowledge
  BY <1>2, <1>3, SubscribeTypes DEF Base
<1>7. CacheTypes' /\ ModemTypes'
  BY <1>1, <1>6 DEF Base, TypeInv, CacheTypes, ModemTypes
<1>8. RunnerTypes'
  BY <1>1, <1>5 DEF Base, TypeInv, RunnerTypes
<1> QED BY <1>5, <1>7, <1>8 DEF Base, TypeInv

-----------------------------------------------------------------------------
(***************************************************************************)
(* The steps of the reader threads, and Base.                              *)
(***************************************************************************)
LEMMA LearnsTypes ==
    ASSUME TypeInv
    PROVE  /\ Strength(modem.level) \in Knowledge
           /\ [fw EXCEPT !.unsure = @ \cup {"level"}] \in Knowledge
           /\ [fw EXCEPT !.unsure = @ \cup {"operator"}] \in Knowledge
           /\ \A op \in Cells \cup {NoCell} : [fw EXCEPT !.operator = op] \in Knowledge
<1>1. fw \in Knowledge /\ modem.level \in Nat
  BY DEF TypeInv, ModemTypes, Modems
<1>2. Strength(modem.level) \in Knowledge
  <2>1. fw.unsure \ {"level"} \subseteq Subscriptions \cup {"operator", "level"}
    BY <1>1 DEF Knowledge
  <2> DEFINE unsure == fw.unsure \ {"level"}
  <2>2. Strength(modem.level) = [fw EXCEPT !.level = modem.level, !.unsure = unsure]
    BY DEF Strength
  <2> HIDE DEF unsure
  <2> QED BY <1>1, <2>1, <2>2 DEF Knowledge, unsure
<1>3. [fw EXCEPT !.unsure = @ \cup {"level"}] \in Knowledge
  BY <1>1 DEF Knowledge
<1>4. [fw EXCEPT !.unsure = @ \cup {"operator"}] \in Knowledge
  BY <1>1 DEF Knowledge
<1>5. \A op \in Cells \cup {NoCell} : [fw EXCEPT !.operator = op] \in Knowledge
  BY <1>1 DEF Knowledge
<1> QED BY <1>2, <1>3, <1>4, <1>5

LEMMA PollKeepsBase ==
    ASSUME Base, NEW r \in Runners, pollSignalStrength(r)
    PROVE  Base'
<1>1. UNCHANGED <<cacheVars, statusVars, rinfoVars, selectVars, fd, readerVars, radio, screenVars,
                  modem, req>>
  BY DEF pollSignalStrength, ScreenUnchanged, Runs
<1>2. PICK from, to :
          /\ At(r, from) /\ Goto(r, to)
          /\ \/ from = "idle" /\ to = "csq" /\ r = "prio"
             \/ from = "csq" /\ to = "told"
             \/ from = "told" /\ to = "idle"
             \/ from = "set poll" /\ to = "set csq"
             \/ from = "set csq" /\ to = "set told"
             \/ from = "set told" /\ to = "set signal"
  BY DEF pollSignalStrength, At, Idle
<1>3. /\ rssi_queue' = rssi_queue \/ rssi_queue' = 0
      /\ events' = events \/ (events.signal > 0 /\ events' = [events EXCEPT !.signal = @ - 1])
      /\ fw' = fw \/ fw' = Strength(modem.level) \/ fw' = [fw EXCEPT !.unsure = @ \cup {"level"}]
  BY DEF pollSignalStrength, RssiAt, getSignalStrength
<1>4. /\ to \in RequestLabels /\ (to \in Locked <=> from \in Locked)
      /\ (to \in Setting => from \in Setting)
      /\ to \notin Automatic \cup Places /\ from \notin Places /\ (from = "idle" => r = "prio")
  BY <1>2 DEF RequestLabels, Locked, Setting, Automatic, Places
<1>5. pc' \in [Runners -> RequestLabels] /\ LockDiscipline' /\ PlaceOK' /\ RaiseOK'
  BY <1>1, <1>2, <1>3, <1>4, PlaceStep DEF At
<1>6. events' \in [sim : Nat, signal : Nat]
  <2>1. events.signal \in Nat
    BY DEF Base, TypeInv, RunnerTypes
  <2>2. events.signal > 0 => events.signal - 1 \in Nat
    BY <2>1, OneLess
  <2> QED BY <1>3, <2>2 DEF Base, TypeInv, RunnerTypes
<1>7. fw' \in Knowledge /\ rssi_queue' \in {0, 1, 2}
  BY <1>3, LearnsTypes DEF Base, TypeInv, ModemTypes
<1>8. CacheTypes' /\ ModemTypes'
  BY <1>1, <1>7 DEF Base, TypeInv, CacheTypes, ModemTypes
<1>9. RunnerTypes'
  BY <1>1, <1>5, <1>6 DEF Base, TypeInv, RunnerTypes
<1> QED BY <1>5, <1>8, <1>9 DEF Base, TypeInv

LEMMA StrengthKeepsBase ==
    ASSUME Base, requestSignalStrength
    PROVE  Base'
<1>1. /\ UNCHANGED <<cacheVars, statusVars, rinfoVars, selectVars, fd, readerVars, radio, screenVars,
                     signalVars, modem, req>>
      /\ pc["prio"] = "strength" /\ Goto("prio", "idle")
      /\ fw' = fw \/ fw' = Strength(modem.level)
  BY DEF requestSignalStrength, ScreenUnchanged, Runs, At
<1>2. "prio" \in Runners /\ "idle" \in RequestLabels /\ "idle" \notin Locked \cup Setting \cup Automatic \cup Places
      /\ "strength" \notin Locked \cup Places
  BY DEF Runners, RequestLabels, Locked, Setting, Automatic, Places
<1>3. pc' \in [Runners -> RequestLabels] /\ LockDiscipline' /\ PlaceOK' /\ RaiseOK'
  BY <1>1, <1>2, PlaceStep
<1>4. fw' \in Knowledge
  BY <1>1, LearnsTypes DEF Base, TypeInv, ModemTypes
<1>5. CacheTypes' /\ ModemTypes'
  BY <1>1, <1>4 DEF Base, TypeInv, CacheTypes, ModemTypes
<1>6. RunnerTypes'
  BY <1>1, <1>3 DEF Base, TypeInv, RunnerTypes
<1> QED BY <1>3, <1>5, <1>6 DEF Base, TypeInv

LEMMA OperatorTypes ==
    ASSUME TypeInv
    PROVE  Operator \in Cells \cup {NoCell}
  BY DEF TypeInv, ModemTypes, Modems, Operator

LEMMA OperatorKeepsBase ==
    ASSUME Base, requestOperator
    PROVE  Base'
<1>1. UNCHANGED <<statusVars, rinfoVars, screenVars, signalVars, req, fd, readerVars, radio, s_reg,
                  selectVars, modem>>
  BY DEF requestOperator, OperatorUnchanged, Runs
<1>2. PICK from \in {"operator", "cops", "cops read"}, to \in {"cops", "cops read", "idle"} :
          pc["normal"] = from /\ Goto("normal", to)
  BY DEF requestOperator, At
<1>3. /\ s_reg_change' = s_reg_change \/ s_reg_change' = 0
      /\ old_response' = old_response \/ old_response' = Operator
      /\ \/ fw' = fw \/ fw' = [fw EXCEPT !.unsure = @ \cup {"operator"}]
         \/ \E op \in {Operator, old_response, NoCell} : fw' = [fw EXCEPT !.operator = op]
  BY DEF requestOperator, RegChangeAt
<1>4. /\ "normal" \in Runners /\ to \in RequestLabels
      /\ to \notin Locked \cup Setting \cup Automatic \cup Places
      /\ from \notin Locked \cup Places \cup {"idle"}
  BY <1>2 DEF Runners, RequestLabels, Locked, Setting, Automatic, Places
<1>5. pc' \in [Runners -> RequestLabels] /\ LockDiscipline' /\ PlaceOK' /\ RaiseOK'
  BY <1>1, <1>2, <1>4, PlaceStep
<1>6. fw' \in Knowledge
  <2>1. CASE fw' = fw
    BY <2>1 DEF Base, TypeInv, ModemTypes
  <2>2. CASE fw' = [fw EXCEPT !.unsure = @ \cup {"operator"}]
    BY <2>2 DEF Base, TypeInv, ModemTypes, Knowledge
  <2>3. CASE \E op \in {Operator, old_response, NoCell} : fw' = [fw EXCEPT !.operator = op]
    <3>1. PICK op \in {Operator, old_response, NoCell} : fw' = [fw EXCEPT !.operator = op]
      BY <2>3
    <3>2. op \in Cells \cup {NoCell}
      BY OperatorTypes DEF Base, TypeInv, CacheTypes
    <3>3. fw \in Knowledge
      BY DEF Base, TypeInv, ModemTypes
    <3> QED BY <3>1, <3>2, <3>3 DEF Knowledge
  <2> QED BY <1>3, <2>1, <2>2, <2>3
<1>7. CacheTypes'
  BY <1>1, <1>3, OperatorTypes DEF Base, TypeInv, CacheTypes
<1>8. RunnerTypes' /\ ModemTypes'
  BY <1>1, <1>5, <1>6 DEF Base, TypeInv, RunnerTypes, ModemTypes
<1> QED BY <1>5, <1>7, <1>8 DEF Base, TypeInv

LEMMA AsksStep ==
    ASSUME Base, NEW from, NEW to, NEW mode, Asks(from, to, mode)
    PROVE  /\ pc["normal"] = from
           /\ Goto("normal", to) \/ Goto("normal", "idle")
           /\ s_cops_mode' \in {s_cops_mode, mode}
  BY DEF Asks, At

LEMMA AutomaticKeepsBase ==
    ASSUME Base, requestSetNetworkSelectionAutomatic
    PROVE  Base'
<1>1. UNCHANGED <<s_reg_change, old_response, statusVars, rinfoVars, screenVars, signalVars,
                  s_registrationDeniedReason, fd, readerVars, radio>>
  BY DEF requestSetNetworkSelectionAutomatic, Runs
<1>2. modem.mode \in {"automatic", "manual"} /\ s_cops_mode \in {"unknown", "automatic", "manual"}
  BY DEF Base, TypeInv, RunnerTypes, ModemTypes, Modems
<1>3. PICK from \in Automatic, to \in (Automatic \ {"automatic"}) \cup {"idle"} :
          /\ pc["normal"] = from /\ Goto("normal", to)
          /\ from = "enqueue" => to = "idle"
          /\ from # "enqueue" => selection' = selection
          /\ selection' = selection \/ selection' = [queue |-> "normal", loops |-> 0]
          /\ s_cops_mode' \in {"unknown", "automatic", "manual"}
  <2>1. CASE SelectionAsksMode
    <3>1. PICK to \in {"scan cs", "cops=0"} : Asks("automatic", to, modem.mode)
      BY <2>1 DEF SelectionAsksMode
    <3> QED BY <1>2, <2>1, <3>1, AsksStep DEF SelectionAsksMode, Automatic
  <2>2. CASE SelectionAsksRegistration
    <3>0. selection' = selection
      BY <2>2 DEF requestSetNetworkSelectionAutomatic, SelectionAsksMode, SelectionRestarts,
                  SelectionEnqueues, SelectionAsksRegistration, At, Asks
    <3>1. CASE \E d \in Domains :
                  Asks(IF d = "cs" THEN "scan cs" ELSE "scan ps",
                       IF d = "cs" THEN "scanned cs" ELSE "scanned ps", s_cops_mode)
      BY <1>2, <3>0, <3>1, AsksStep DEF Automatic
    <3>2. CASE ~(\E d \in Domains :
                  Asks(IF d = "cs" THEN "scan cs" ELSE "scan ps",
                       IF d = "cs" THEN "scanned cs" ELSE "scanned ps", s_cops_mode))
      <4>1. /\ pc["normal"] \in {"scanned cs", "scanned ps"} /\ s_cops_mode' = s_cops_mode
            /\ \E to \in {"cops=0", "scan ps", "enqueue"} : Goto("normal", to)
        BY <2>2, <3>2 DEF SelectionAsksRegistration, At
      <4> QED BY <1>2, <3>0, <4>1 DEF Automatic
    <3> QED BY <3>1, <3>2
  <2>3. CASE SelectionRestarts
    BY <1>2, <2>3, AsksStep DEF SelectionRestarts, Automatic
  <2>4. CASE SelectionEnqueues
    BY <1>2, <2>4 DEF SelectionEnqueues, At, Automatic
  <2> QED BY <2>1, <2>2, <2>3, <2>4 DEF requestSetNetworkSelectionAutomatic
<1>4. /\ s_reg' \in [Domains -> Regs] /\ modem' \in Modems /\ fw' \in Knowledge
      /\ req' \in [Runners -> [kind : RequestKinds \cup {"none"}, reg : Regs, screen : {0, 1}]]
      /\ req'["normal"].kind = req["normal"].kind
      /\ \A s \in Runners : req'[s].screen = req[s].screen
  <2>1. CASE SelectionAsksMode \/ SelectionRestarts \/ SelectionEnqueues
    <3>1. UNCHANGED <<s_reg, fw>> /\ (modem' = modem \/ modem' = [modem EXCEPT !.mode = "automatic"])
      BY <2>1 DEF SelectionAsksMode, SelectionRestarts, SelectionEnqueues
    <3>2. modem' \in Modems
      BY <3>1 DEF Base, TypeInv, ModemTypes, Modems
    <3>3. req' = req
      BY <2>1 DEF requestSetNetworkSelectionAutomatic, SelectionAsksMode, SelectionRestarts,
                  SelectionEnqueues, SelectionAsksRegistration, Asks, At
    <3> QED BY <3>1, <3>2, <3>3 DEF Base, TypeInv, CacheTypes, RunnerTypes, ModemTypes
  <2>2. CASE SelectionAsksRegistration /\ ~(SelectionAsksMode \/ SelectionRestarts \/ SelectionEnqueues)
    <3>1. modem' = modem
      BY <2>2 DEF requestSetNetworkSelectionAutomatic
    <3>2. PICK d \in Domains :
              \/ /\ req' = [req EXCEPT !["normal"].reg = modem.reg[d]]
                 /\ UNCHANGED <<s_reg, fw>>
              \/ /\ s_reg' = [s_reg EXCEPT ![d].stat = req["normal"].reg.stat]
                 /\ fw' = Overwritten(d, s_reg[d].stat # req["normal"].reg.stat)
                 /\ req' = req
      BY <2>2 DEF SelectionAsksRegistration
    <3>3. CASE /\ req' = [req EXCEPT !["normal"].reg = modem.reg[d]]
               /\ UNCHANGED <<s_reg, fw>>
      <4>1. modem.reg[d] \in Regs
        BY DEF Base, TypeInv, ModemTypes, Modems
      <4> QED BY <3>1, <3>3, <4>1 DEF Base, TypeInv, CacheTypes, RunnerTypes, ModemTypes, Runners
    <3>4. CASE /\ s_reg' = [s_reg EXCEPT ![d].stat = req["normal"].reg.stat]
               /\ fw' = Overwritten(d, s_reg[d].stat # req["normal"].reg.stat)
               /\ req' = req
      <4>1. req["normal"].reg.stat \in Stats
        BY DEF Base, TypeInv, RunnerTypes, Runners, Regs
      <4>2. s_reg' \in [Domains -> Regs]
        BY <3>4, <4>1 DEF Base, TypeInv, CacheTypes, Regs
      <4>3. (s_reg[d].stat # req["normal"].reg.stat) \in BOOLEAN
        OBVIOUS
      <4>4. fw' \in Knowledge
        BY <3>4, <4>3, ToldTypes DEF Base
      <4> QED BY <3>1, <3>4, <4>2, <4>4 DEF Base, TypeInv, RunnerTypes, ModemTypes
    <3> QED BY <3>2, <3>3, <3>4
  <2> QED BY <2>1, <2>2 DEF requestSetNetworkSelectionAutomatic
<1>5. /\ to \in RequestLabels /\ "normal" \in Runners
      /\ to \notin Locked \cup Setting \cup Places /\ (to \in Automatic \/ to = "idle")
      /\ from \notin Locked \cup Places \cup {"idle"}
  BY DEF RequestLabels, Runners, Locked, Setting, Automatic, Places
<1>6. /\ pc' \in [Runners -> RequestLabels] /\ pc'["normal"] = to
      /\ \A s \in Runners : s # "normal" => pc'[s] = pc[s]
  BY <1>3, <1>5, PcStep DEF Base
<1>7. LockDiscipline'
  BY <1>1, <1>3, <1>5, <1>6 DEF Base, LockDiscipline
<1>8. PlaceOK'
  <2>1. selection.queue = "none" /\ req["normal"].kind # "none" /\ selection.queue \notin Runners
    BY <1>3, <1>5 DEF Base, PlaceOK, Runners, Places
  <2>2. /\ pc'["normal"] # "efdorm"
        /\ pc'["normal"] \in Automatic => selection'.queue = "none"
    BY <1>3, <1>5, <1>6, <2>1 DEF Places, Automatic
  <2>3. \A s \in Runners : pc'[s] # "cops?"
    BY <1>5, <1>6, <2>1 DEF Base, PlaceOK, Places
  <2>4. \A s \in Runners : pc'[s] \in Setting => pc[s] \in Setting
    BY <1>5, <1>6
  <2> QED BY <1>1, <1>4, <2>1, <2>2, <2>3, <2>4 DEF Base, PlaceOK
<1>9. selection' \in [queue : Runners \cup {"none"}, loops : 0..MaxLoops]
  BY <1>3, <1>5, ConstantAssumption DEF Base, TypeInv, RunnerTypes
<1>10. CacheTypes' /\ ModemTypes' /\ RaiseOK'
  BY <1>1, <1>4 DEF Base, TypeInv, CacheTypes, ModemTypes, RaiseOK
<1>11. RunnerTypes'
  BY <1>1, <1>3, <1>4, <1>6, <1>9 DEF Base, TypeInv, RunnerTypes
<1> QED BY <1>7, <1>8, <1>10, <1>11 DEF Base, TypeInv

LEMMA ManualKeepsBase ==
    ASSUME Base, requestSetNetworkSelectionManual
    PROVE  Base'
<1>1. /\ UNCHANGED <<statusVars, rinfoVars, screenVars, signalVars, req, fd, readerVars, radio,
                     cacheVars, selection, s_registrationDeniedReason, fw>>
      /\ pc["normal"] = "manual" /\ Goto("normal", "idle")
      /\ s_cops_mode' \in {s_cops_mode, "manual"}
      /\ modem' = modem \/ modem' = [modem EXCEPT !.mode = "manual"]
  BY AsksStep DEF requestSetNetworkSelectionManual, OperatorUnchanged, Runs
<1>2. "normal" \in Runners /\ "idle" \in RequestLabels /\ "idle" \notin Locked \cup Setting \cup Automatic \cup Places
      /\ "manual" \notin Locked \cup Places
  BY DEF Runners, RequestLabels, Locked, Setting, Automatic, Places
<1>3. pc' \in [Runners -> RequestLabels] /\ LockDiscipline' /\ PlaceOK' /\ RaiseOK'
  BY <1>1, <1>2, PlaceStep
<1>4. modem' \in Modems
  BY <1>1 DEF Base, TypeInv, ModemTypes, Modems
<1>5. CacheTypes' /\ ModemTypes'
  BY <1>1, <1>4 DEF Base, TypeInv, CacheTypes, ModemTypes
<1>6. RunnerTypes'
  BY <1>1, <1>3 DEF Base, TypeInv, RunnerTypes
<1> QED BY <1>3, <1>5, <1>6 DEF Base, TypeInv

LEMMA SelectedKeepsBase ==
    ASSUME Base, NEW r \in Runners, pollOperatorSelected(r)
    PROVE  Base'
<1>1. UNCHANGED <<statusVars, rinfoVars, screenVars, signalVars, req, fd, readerVars, radio,
                  cacheVars, s_cops_mode, s_registrationDeniedReason, modem, fw>>
  BY DEF pollOperatorSelected, OperatorUnchanged, Runs
<1>2. /\ selection.queue = r /\ selection.queue # "none"
      /\ \/ /\ pc[r] = "idle" /\ pc' = pc
            /\ SelectionDone \/ (selection.loops < MaxLoops /\ Repoll)
         \/ /\ pc[r] = "idle" /\ selection.loops < MaxLoops /\ Goto(r, "cops?")
            /\ selection' = selection
         \/ /\ pc[r] = "cops?" /\ Goto(r, "idle") /\ selection.loops < MaxLoops
            /\ SelectionDone \/ Repoll
  <2>1. CASE Idle(r) /\ selection.queue = r
             /\ CASE selection.loops >= MaxLoops -> SelectionDone /\ UNCHANGED pc
                  [] selection.loops < MaxLoops /\ \A d \in Domains : InProgress(s_status[d])
                        -> Repoll /\ UNCHANGED pc
                  [] OTHER -> Goto(r, "cops?") /\ UNCHANGED selection
    <3>1. selection.loops \in 0..MaxLoops /\ MaxLoops \in Nat
      BY ConstantAssumption DEF Base, TypeInv, RunnerTypes
    <3>2. selection.loops >= MaxLoops \/ selection.loops < MaxLoops
      BY <3>1
    <3>3. selection.queue # "none"
      BY <2>1 DEF Runners
    <3>4. pc[r] = "idle"
      BY <2>1 DEF Idle, At
    <3> DEFINE progress == \A d \in Domains : InProgress(s_status[d])
    <3>5. \/ SelectionDone /\ pc' = pc
          \/ selection.loops < MaxLoops /\ Repoll /\ pc' = pc
          \/ selection.loops < MaxLoops /\ Goto(r, "cops?") /\ selection' = selection
      BY <2>1, <3>2
    <3> QED BY <2>1, <3>3, <3>4, <3>5
  <2>2. CASE At(r, "cops?") /\ (SelectionDone \/ Repoll) /\ Goto(r, "idle")
    BY <2>2 DEF Base, PlaceOK, At, Runners
  <2> QED BY <2>1, <2>2 DEF pollOperatorSelected
<1>3. selection' \in [queue : Runners \cup {"none"}, loops : 0..MaxLoops]
  <2>1. selection \in [queue : Runners \cup {"none"}, loops : 0..MaxLoops] /\ MaxLoops \in Nat
    BY ConstantAssumption DEF Base, TypeInv, RunnerTypes
  <2>2. selection.loops < MaxLoops => selection.loops + 1 \in 0..MaxLoops
    BY <2>1
  <2> QED BY <1>2, <2>1, <2>2 DEF SelectionDone, Repoll, CountsEvery, Runners
<1>4. "cops?" \in RequestLabels /\ "idle" \in RequestLabels /\ {"cops?", "idle"} \cap (Locked \cup Setting \cup Automatic) = {}
  BY DEF RequestLabels, Locked, Setting, Automatic
<1>5. /\ pc' \in [Runners -> RequestLabels] /\ pc'[r] \in {"idle", "cops?"} /\ pc[r] \in {"idle", "cops?"}
      /\ \A s \in Runners : s # r => pc'[s] = pc[s]
      /\ pc'[r] = "cops?" => selection' = selection /\ selection.loops < MaxLoops
  BY <1>2, <1>4, PcStep DEF Base, TypeInv, RunnerTypes
<1>6. LockDiscipline'
  BY <1>1, <1>4, <1>5 DEF Base, LockDiscipline
<1>7. PlaceOK'
  <2>1. pc'["normal"] # "efdorm" \/ pc["normal"] = "efdorm"
    BY <1>5 DEF Runners
  <2>2. pc'["normal"] \notin Automatic
    BY <1>2, <1>4, <1>5 DEF Base, PlaceOK, Runners
  <2>3. \A s \in Runners : s # r => pc'[s] # "cops?"
    BY <1>2, <1>5 DEF Base, PlaceOK
  <2>4. \A s \in Runners : pc'[s] \in Setting => pc[s] \in Setting
    BY <1>4, <1>5
  <2>5. req["normal"].kind # "none" \/ pc'["normal"] \in {"idle", "efdorm", "cops?"}
    BY <1>5 DEF Base, PlaceOK, Runners
  <2>6. pc'[r] = "cops?" => selection'.queue = r /\ selection'.loops < MaxLoops
    BY <1>2, <1>5
  <2> QED BY <1>1, <2>1, <2>2, <2>3, <2>4, <2>5, <2>6 DEF Base, PlaceOK
<1>8. CacheTypes' /\ ModemTypes' /\ RaiseOK'
  BY <1>1 DEF Base, TypeInv, CacheTypes, ModemTypes, RaiseOK
<1>9. RunnerTypes'
  BY <1>1, <1>3, <1>5 DEF Base, TypeInv, RunnerTypes
<1> QED BY <1>6, <1>7, <1>8, <1>9 DEF Base, TypeInv

LEMMA DormancyKeepsBase ==
    ASSUME Base, pollFastDormancy
    PROVE  Base'
<1>1. UNCHANGED <<cacheVars, statusVars, rinfoVars, screenVars, selectVars, signalVars, req,
                  readerVars, radio, modem, fw>>
  BY DEF pollFastDormancy
<1>2. "normal" \in Runners /\ {"idle", "efdorm"} \subseteq RequestLabels
      /\ {"idle", "efdorm"} \cap (Locked \cup Setting \cup Automatic) = {}
  BY DEF Runners, RequestLabels, Locked, Setting, Automatic
<1>3. /\ fd.chains \in Nat /\ fd.chains > 0 /\ modem.rx \in Nat
      /\ fd \in [dormant : BOOLEAN, old_rx : Nat, chains : Nat] /\ fd.chains - 1 \in Nat
  <2>1. fd.chains \in Nat /\ fd.chains > 0
    BY DEF pollFastDormancy, At, Base, TypeInv, RunnerTypes, PlaceOK
  <2> QED BY <2>1, OneLess DEF Base, TypeInv, RunnerTypes, ModemTypes, Modems
<1>4. /\ pc["normal"] \in {"idle", "efdorm"}
      /\ \/ pc' = pc /\ pc["normal"] = "idle"
         \/ Goto("normal", "efdorm") /\ fd' = fd
         \/ Goto("normal", "idle")
      /\ fd' \in {fd, [fd EXCEPT !.chains = fd.chains - 1],
                  [fd EXCEPT !.dormant = FALSE, !.old_rx = modem.rx], [fd EXCEPT !.dormant = TRUE]}
  <2>1. CASE At("normal", "efdorm")
    BY <2>1 DEF pollFastDormancy, At, Idle
  <2>2. CASE Idle("normal") /\ fd.chains > 0
    BY <2>2 DEF pollFastDormancy, At, Idle
  <2> QED BY <2>1, <2>2 DEF pollFastDormancy
<1>5. fd' \in [dormant : BOOLEAN, old_rx : Nat, chains : Nat]
  BY <1>3, <1>4
<1>6. /\ pc' \in [Runners -> RequestLabels] /\ pc'["normal"] \in {"idle", "efdorm"}
      /\ pc'["normal"] = "efdorm" => fd' = fd
      /\ \A s \in Runners : s # "normal" => pc'[s] = pc[s]
  BY <1>2, <1>4, PcStep DEF Base, TypeInv, RunnerTypes
<1>7. LockDiscipline'
  BY <1>1, <1>2, <1>4, <1>6 DEF Base, LockDiscipline
<1>8. PlaceOK'
  <2>1. \A s \in Runners : pc'[s] \in Setting \cup {"cops?"} => pc[s] = pc'[s]
    BY <1>2, <1>6
  <2> QED BY <1>1, <1>2, <1>3, <1>6, <2>1 DEF Base, PlaceOK
<1>9. CacheTypes' /\ ModemTypes' /\ RaiseOK'
  BY <1>1 DEF Base, TypeInv, CacheTypes, ModemTypes, RaiseOK
<1>10. RunnerTypes'
  BY <1>1, <1>5, <1>6 DEF Base, TypeInv, RunnerTypes
<1> QED BY <1>7, <1>8, <1>9, <1>10 DEF Base, TypeInv

LEMMA BaseInit == Init => Base
<1> SUFFICES ASSUME Init PROVE Base
  OBVIOUS
<1> USE DEF Init
<1>1. CacheTypes
  BY DEF CacheTypes, Regs, Stats, Cells, Statuses
<1>2. RunnerTypes
  BY ConstantAssumption DEF RunnerTypes, RequestLabels, RequestKinds, Regs, Stats, Runners, Domains
<1>3. ModemTypes
  <2>1. lines \in [Channels -> Seq(Lines)]
    BY EmptySeq
  <2>2. modem \in Modems
    <3>1. scenario.booted \in BOOLEAN
      BY ConstantAssumption
    <3> QED BY <3>1 DEF Modems, Regs, Stats, Cells, Subscriptions
  <2>3. fw \in Knowledge
    BY DEF Knowledge, Regs, Stats, Asked, Domains
  <2> QED BY <2>1, <2>2, <2>3 DEF ModemTypes
<1>4. PlaceOK /\ RaiseOK /\ LockDiscipline
  BY DEF PlaceOK, RaiseOK, LockDiscipline, Locked, Automatic, Setting, Runners, Channels
<1> QED BY <1>1, <1>2, <1>3, <1>4 DEF Base, TypeInv

LEMMA BaseKept ==
    ASSUME Base, [Next]_vars
    PROVE  Base'
<1>1. CASE FrameworkStep
  BY <1>1, FrameworkKeepsBase
<1>2. CASE ModemStep
  BY <1>2, ChangeKeepsBase
<1>3. ASSUME NEW r \in Runners, RunnerStep(r) PROVE Base'
  BY <1>3, RegistrationKeepsBase, ScreenStateKeepsBase, OperatorKeepsBase, AutomaticKeepsBase,
     ManualKeepsBase, DormancyKeepsBase, SimReadyKeepsBase, StrengthKeepsBase, SetScreenKeepsBase,
     PollKeepsBase, UnlockKeepsBase, SelectedKeepsBase DEF RunnerStep
<1>4. ASSUME NEW c \in Channels, ReaderStep(c) PROVE Base'
  BY <1>4, ReaderKeepsBase
<1>5. CASE UNCHANGED vars
  <2>1. CacheTypes' /\ RunnerTypes' /\ ModemTypes'
    BY <1>5 DEF vars, Base, TypeInv, CacheTypes, RunnerTypes, ModemTypes
  <2> QED BY <1>5, <2>1 DEF vars, Base, TypeInv, PlaceOK, RaiseOK, LockDiscipline
<1> QED BY <1>1, <1>2, <1>3, <1>4, <1>5 DEF Next, Quiescent

-----------------------------------------------------------------------------
(***************************************************************************)
(* The screen state is what the modem was asked for.                       *)
(***************************************************************************)
\* What the screen state asks for is set on the modem, or will be.
Applied ==
    s_screenState = 1 /\ "e2reg" \in modem.sub["prio"] /\ pc["prio"] # "sim lock" =>
        \A d \in Domains : \/ d \in fw.unsure \/ Subscribed(d)
                           \/ \E r \in Runners : pc[r] = "set cs" \/ (d = "ps" /\ pc[r] = "set ps")

\* A step that leaves the screen state and the subscriptions alone.
Unapplied ==
    /\ s_screenState' = s_screenState /\ modem'.sub = modem.sub
    /\ \A d \in Domains : d \in fw.unsure => d \in fw'.unsure
    /\ \A r \in Runners : pc[r] \in {"set cs", "set ps"} => pc'[r] = pc[r]
    /\ pc["prio"] = "sim lock" => pc'["prio"] = "sim lock"

LEMMA UnappliedKeeps ==
    ASSUME Applied, Unapplied
    PROVE  Applied'
<1>1. "prio" \in Runners
  BY DEF Runners
<1> SUFFICES ASSUME s_screenState' = 1, "e2reg" \in modem'.sub["prio"], pc'["prio"] # "sim lock",
                    NEW d \in Domains
             PROVE  \/ d \in fw'.unsure \/ Subscribed(d)'
                    \/ \E s \in Runners : pc'[s] = "set cs" \/ (d = "ps" /\ pc'[s] = "set ps")
  BY DEF Applied
<1>2. \/ d \in fw.unsure \/ Subscribed(d)
      \/ \E s \in Runners : pc[s] = "set cs" \/ (d = "ps" /\ pc[s] = "set ps")
  BY <1>1 DEF Applied, Unapplied
<1> QED BY <1>2 DEF Unapplied, Subscribed

LEMMA GoesElsewhere ==
    ASSUME TypeInv, NEW r \in Runners, NEW to \in RequestLabels, Goto(r, to),
           pc[r] \notin {"set cs", "set ps", "sim lock"}
    PROVE  /\ \A s \in Runners : pc[s] \in {"set cs", "set ps"} => pc'[s] = pc[s]
           /\ pc["prio"] = "sim lock" => pc'["prio"] = "sim lock"
  BY PcStep DEF Runners

LEMMA UnsureOfReports ==
    ASSUME TypeInv, NEW d \in Domains, NEW reg, NEW other \in BOOLEAN
    PROVE  /\ \A e \in Domains : e \in fw.unsure => /\ e \in TellsOf(d, reg).unsure
                                                    /\ e \in TellsNothingOf(d, reg).unsure
                                                    /\ e \in Overwritten(d, other).unsure
                                                    /\ e \in Unreported.unsure
           /\ Fails(d).unsure = fw.unsure /\ NetworkStateChanged.unsure = fw.unsure
           /\ \A level : \A e \in Domains : e \in fw.unsure => e \in Strength(level).unsure
<1>1. fw \in Knowledge /\ "operator" \notin Domains /\ "level" \notin Domains
  BY DEF TypeInv, ModemTypes, Domains
<1> QED BY <1>1 DEF Knowledge, TellsOf, TellsNothingOf, Overwritten, Unreported, NetworkStateChanged,
                    Fails, Strength

LEMMA ModemUnapplied ==
    ASSUME Base, ModemStep
    PROVE  Unapplied
<1>1. s_screenState' = s_screenState /\ pc' = pc
  BY DEF ModemStep, RegistrationChanges, CellChanges, SimChanges, CapabilityChanges, SignalChanges,
         startPollFastDormancy, PacketReceived, Change
<1>2. modem'.sub = modem.sub
  BY DEF ModemStep, RegistrationChanges, CellChanges, SimChanges, CapabilityChanges, SignalChanges,
         startPollFastDormancy, PacketReceived, Base, TypeInv, ModemTypes, Modems
<1>3. \A reg, changed : RegistrationBecomes(reg, changed) =>
          \A d \in Domains : d \in fw.unsure => d \in fw'.unsure
  <2>1. \A d \in Domains : d \in fw.unsure => d \in Unreported.unsure
    BY UnsureOfReports DEF Base, Domains
  <2>2. \A old \in Knowledge : \A fresh : [old EXCEPT !.fresh = fresh].unsure = old.unsure
    BY DEF Knowledge
  <2>3. fw \in Knowledge /\ Unreported \in Knowledge
    BY UnreportedTypes DEF Base, TypeInv, ModemTypes
  <2> QED BY <2>1, <2>2, <2>3 DEF RegistrationBecomes
<1>4. \A d \in Domains : d \in fw.unsure => d \in fw'.unsure
  <2>1. CASE SignalChanges
    BY <2>1 DEF SignalChanges, Base, TypeInv, ModemTypes, Knowledge, Domains
  <2>2. CASE ~SignalChanges
    <3>1. fw' = fw \/ \E reg, changed : RegistrationBecomes(reg, changed)
      BY <2>2 DEF ModemStep, RegistrationChanges, CellChanges, SimChanges, CapabilityChanges,
             startPollFastDormancy, PacketReceived
    <3> QED BY <1>3, <3>1
  <2> QED BY <2>1, <2>2
<1> QED BY <1>1, <1>2, <1>4 DEF Unapplied

LEMMA ReaderUnapplied ==
    ASSUME Base, NEW c \in Channels, ReaderStep(c)
    PROVE  Unapplied
<1>1. s_screenState' = s_screenState /\ pc' = pc /\ modem' = modem
  BY DEF ReaderStep, onRegistrationStatusChanged, onNetworkCapabilityChanged, onNetworkStatusChanged,
         onSignalStrengthChanged, Handles
<1>2. \/ fw' = fw \/ fw' = NetworkStateChanged
      \/ \E d \in Domains : \E reg : fw' = TellsOf(d, reg) \/ fw' = TellsNothingOf(d, reg)
  <2>1. CASE onRegistrationStatusChanged(c)
    <3>1. Head(lines[c]).kind \in Domains
      BY <2>1 DEF onRegistrationStatusChanged, Handles
    <3> QED BY <2>1, <3>1 DEF onRegistrationStatusChanged
  <2>2. CASE ~onRegistrationStatusChanged(c)
    BY <2>2 DEF ReaderStep, onNetworkCapabilityChanged, onNetworkStatusChanged, onSignalStrengthChanged
  <2> QED BY <2>1, <2>2
<1>3. \A d \in Domains : d \in fw.unsure => d \in fw'.unsure
  BY <1>2, UnsureOfReports DEF Base, Domains
<1> QED BY <1>1, <1>3 DEF Unapplied

LEMMA FrameworkUnapplied ==
    ASSUME Base, FrameworkStep
    PROVE  Unapplied
<1>1. PICK kind \in RequestKinds, label \in {"lock", "screen", "operator", "manual", "strength", "automatic"} :
          Request(kind, label)
  BY DEF FrameworkStep, RequestKinds, Domains
<1> DEFINE r == IF kind = "strength" THEN "prio" ELSE "normal"
<1>2. pc[r] = "idle" /\ Goto(r, label) /\ modem' = modem /\ s_screenState' = s_screenState
      /\ fw' = [fw EXCEPT !.stale = @ \ {kind}]
  BY <1>1 DEF Request, Idle, At
<1>3. r \in Runners /\ label \in RequestLabels
  BY DEF Runners, RequestLabels
<1>4. fw'.unsure = fw.unsure
  BY <1>2 DEF Base, TypeInv, ModemTypes, Knowledge
<1> QED BY <1>2, <1>3, <1>4, GoesElsewhere DEF Unapplied, Base

\* Subscribe, as the property sees it.
LEMMA SubscribeEffect ==
    ASSUME TypeInv, NEW r \in Runners, NEW kinds, NEW on, Subscribe(r, kinds, on)
    PROVE  /\ \A s \in Channels : s # r => modem'.sub[s] = modem.sub[s]
           /\ on => modem.sub[r] \subseteq modem'.sub[r]
           /\ \A k \in kinds : on => k \in modem'.sub[r] \/ k \in fw'.unsure
           /\ \A k : k \notin kinds => (k \in modem'.sub[r] <=> k \in modem.sub[r])
           /\ fw.unsure \subseteq fw'.unsure
<1>1. modem \in Modems /\ fw \in Knowledge /\ r \in Channels
  BY DEF TypeInv, ModemTypes, Channels
<1>2. CASE modem' = [modem EXCEPT !.sub[r] = IF on THEN @ \cup kinds ELSE @ \ kinds] /\ fw' = fw
  <2>1. modem'.sub = [modem.sub EXCEPT ![r] = IF on THEN @ \cup kinds ELSE @ \ kinds]
    BY <1>1, <1>2 DEF Modems
  <2> QED BY <1>1, <1>2, <2>1 DEF Modems
<1>3. CASE fw' = [fw EXCEPT !.unsure = @ \cup kinds] /\ modem' = modem
  <2>1. fw'.unsure = fw.unsure \cup kinds
    BY <1>1, <1>3 DEF Knowledge
  <2> QED BY <1>3, <2>1
<1> QED BY <1>2, <1>3 DEF Subscribe

LEMMA SetScreenApplies ==
    ASSUME Base, Applied, NEW r \in Runners, setScreenState(r)
    PROVE  Applied'
<1>1. s_screenState' = s_screenState
  BY DEF setScreenState
<1>2. PICK from \in {"set cs", "set ps", "set signal"}, kinds \in {{"cs"}, {"ps"}, {"signal"}},
           to \in {"set ps", "set poll", "set signal", "unlock"} :
          /\ pc[r] = from /\ Subscribe(r, kinds, req[r].screen = 1) /\ Goto(r, to)
          /\ from = "set cs" => kinds = {"cs"} /\ to = "set ps"
          /\ from = "set ps" => kinds = {"ps"}
  BY DEF setScreenState, At
<1>3. req[r].screen = s_screenState
  BY <1>2 DEF Base, PlaceOK, Setting
<1>4. SUFFICES ASSUME s_screenState = 1, "e2reg" \in modem'.sub["prio"], pc'["prio"] # "sim lock",
                      NEW d \in Domains
               PROVE  \/ d \in fw'.unsure \/ Subscribed(d)'
                      \/ \E s \in Runners : pc'[s] = "set cs" \/ (d = "ps" /\ pc'[s] = "set ps")
  BY <1>1 DEF Applied
<1>5. /\ \A s \in Channels : modem.sub[s] \subseteq modem'.sub[s]
      /\ \A k \in kinds : k \in modem'.sub[r] \/ k \in fw'.unsure
      /\ fw.unsure \subseteq fw'.unsure
      /\ "e2reg" \in modem.sub["prio"]
  BY <1>2, <1>3, <1>4, SubscribeEffect DEF Base, Runners, Channels
<1>6. pc'[r] = to /\ \A s \in Runners : s # r => pc'[s] = pc[s]
  BY <1>2, PcStep DEF Base, RequestLabels
<1>7. pc["prio"] # "sim lock"
  BY <1>2, <1>4, <1>6 DEF Runners
<1>8. \/ d \in fw.unsure \/ Subscribed(d)
      \/ \E s \in Runners : pc[s] = "set cs" \/ (d = "ps" /\ pc[s] = "set ps")
  BY <1>4, <1>5, <1>7 DEF Applied
<1>9. r \in Channels
  BY DEF Channels
<1>10. CASE d \in fw.unsure \/ Subscribed(d)
  BY <1>5, <1>10 DEF Subscribed
<1>11. CASE \E s \in Runners : s # r /\ (pc[s] = "set cs" \/ (d = "ps" /\ pc[s] = "set ps"))
  BY <1>6, <1>11
<1>12. CASE pc[r] = "set cs" \/ (d = "ps" /\ pc[r] = "set ps")
  <2>1. CASE d = "ps" /\ pc[r] = "set cs"
    BY <1>2, <1>6, <2>1
  <2>2. CASE d \in kinds
    BY <1>5, <1>9, <2>2 DEF Subscribed
  <2> QED BY <1>2, <1>12, <2>1, <2>2 DEF Domains
<1> QED BY <1>8, <1>10, <1>11, <1>12

LEMMA RegistrationApplies ==
    ASSUME Base, Applied, RegistrationStep
    PROVE  Applied'
<1>1. PICK d \in Domains : \/ RequestLocks(d) \/ RequestSubscribes(d) \/ RequestQueries(d)
                           \/ RequestAsksReason(d) \/ RequestWrites(d) \/ RequestAnswers(d)
                           \/ RequestEnds(d)
  BY DEF RegistrationStep
<1>2. PICK from \in {"lock", "subscribe", "query", "reason", "write", "answer", "end"},
           to \in {"subscribe", "query", "reason", "write", "answer", "end", "unlock"} :
          pc["normal"] = from /\ Goto("normal", to) /\ s_screenState' = s_screenState
  BY <1>1 DEF RequestLocks, RequestSubscribes, RequestQueries, RequestAsksReason, RequestWrites,
              RequestAnswers, RequestEnds, At
<1>3. /\ \A r \in Runners : pc[r] \in {"set cs", "set ps"} => pc'[r] = pc[r]
      /\ pc["prio"] = "sim lock" => pc'["prio"] = "sim lock"
  <2>1. "normal" \in Runners /\ to \in RequestLabels
    BY DEF Runners, RequestLabels
  <2> QED BY <1>2, <2>1, GoesElsewhere DEF Base
<1>4. CASE RequestSubscribes(d)
  <2>1. Subscribe("normal", {d}, TRUE)
    BY <1>4 DEF RequestSubscribes
  <2>2. /\ \A s \in Channels : modem.sub[s] \subseteq modem'.sub[s]
        /\ fw.unsure \subseteq fw'.unsure
        /\ modem.sub["prio"] = modem'.sub["prio"]
    BY <2>1, SubscribeEffect DEF Base, Runners, Channels
  <2> SUFFICES ASSUME s_screenState' = 1, "e2reg" \in modem'.sub["prio"], pc'["prio"] # "sim lock",
                      NEW e \in Domains
               PROVE  \/ e \in fw'.unsure \/ Subscribed(e)'
                      \/ \E s \in Runners : pc'[s] = "set cs" \/ (e = "ps" /\ pc'[s] = "set ps")
    BY DEF Applied
  <2>3. \/ e \in fw.unsure \/ Subscribed(e)
        \/ \E s \in Runners : pc[s] = "set cs" \/ (e = "ps" /\ pc[s] = "set ps")
    BY <1>2, <1>3, <2>2 DEF Applied
  <2> QED BY <1>3, <2>2, <2>3 DEF Subscribed
<1>5. CASE RequestEnds(d) /\ s_screenState = 0
  <2>1. s_screenState' = 0
    BY <1>2, <1>5
  <2>2. s_screenState' # 1
    BY <2>1
  <2> QED
    <3> SUFFICES ASSUME s_screenState' = 1 PROVE FALSE
      BY DEF Applied
    <3> QED BY <2>2
<1>6. CASE ~RequestSubscribes(d) /\ ~(RequestEnds(d) /\ s_screenState = 0)
  <2>1. modem' = modem
    BY <1>1, <1>6 DEF RequestLocks, RequestQueries, RequestAsksReason, RequestWrites, RequestAnswers,
                      RequestEnds, EndsSubscription
  <2>2. \/ fw' = fw \/ fw' = Fails(d) \/ fw' = Overwritten(d, s_reg[d] # req["normal"].reg)
        \/ fw' = [fw EXCEPT !.reg[d] = req["normal"].reg]
    BY <1>1, <1>6 DEF RequestLocks, RequestQueries, RequestAsksReason, RequestWrites, RequestAnswers,
                      RequestEnds, EndsSubscription
  <2>3. (s_reg[d] # req["normal"].reg) \in BOOLEAN
    OBVIOUS
  <2>4. [fw EXCEPT !.reg[d] = req["normal"].reg].unsure = fw.unsure
    BY DEF Base, TypeInv, ModemTypes, Knowledge
  <2>5. \A e \in Domains : e \in fw.unsure => e \in fw'.unsure
    BY <2>2, <2>3, <2>4, UnsureOfReports DEF Base
  <2> QED BY <1>2, <1>3, <2>1, <2>5, UnappliedKeeps DEF Unapplied
<1> QED BY <1>4, <1>5, <1>6

LEMMA ScreenStateApplies ==
    ASSUME Base, Applied, requestScreenState
    PROVE  Applied'
<1>1. pc["normal"] = "screen" /\ UNCHANGED <<modem, fw>>
  BY DEF requestScreenState, At
<1>2. CASE Goto("normal", "set cs")
  <2>1. pc'["normal"] = "set cs" /\ "normal" \in Runners
    BY <1>2, PcStep DEF Base, Runners, RequestLabels
  <2> QED BY <2>1 DEF Applied
<1>3. CASE Goto("normal", "unlock") /\ s_screenState' = s_screenState
  <2>1. "normal" \in Runners /\ "unlock" \in RequestLabels
    BY DEF Runners, RequestLabels
  <2> QED BY <1>1, <1>3, <2>1, GoesElsewhere, UnappliedKeeps DEF Unapplied, Base
<1> QED BY <1>2, <1>3 DEF requestScreenState

LEMMA SimReadyApplies ==
    ASSUME Base, Applied, onSIMReady
    PROVE  Applied'
<1>1. s_screenState' = s_screenState /\ "prio" \in Runners
  BY DEF onSIMReady, Runners
<1>2. CASE Goto("prio", "e2reg") /\ pc["prio"] = "idle" /\ UNCHANGED <<modem, fw>>
  <2>1. "e2reg" \in RequestLabels
    BY DEF RequestLabels
  <2> QED BY <1>1, <1>2, <2>1, GoesElsewhere, UnappliedKeeps DEF Unapplied, Base
<1>3. CASE Goto("prio", "sim lock")
  <2>1. pc'["prio"] = "sim lock"
    BY <1>1, <1>3, PcStep DEF Base, RequestLabels
  <2> QED BY <2>1 DEF Applied
<1>4. CASE Goto("prio", "set cs")
  <2>1. pc'["prio"] = "set cs"
    BY <1>1, <1>4, PcStep DEF Base, RequestLabels
  <2> QED BY <1>1, <2>1 DEF Applied
<1> QED BY <1>2, <1>3, <1>4 DEF onSIMReady, Idle, At

\* Every other step of a runner.
LEMMA RunnerUnapplied ==
    ASSUME Base, NEW r \in Runners, RunnerStep(r),
           ~RegistrationStep, ~requestScreenState, ~onSIMReady, ~setScreenState(r)
    PROVE  Unapplied
<1>1. s_screenState' = s_screenState
  BY DEF RunnerStep, requestOperator, requestSetNetworkSelectionAutomatic, pollFastDormancy,
         requestSetNetworkSelectionManual, requestSignalStrength, pollSignalStrength, Unlock,
         pollOperatorSelected, OperatorUnchanged, ScreenUnchanged
<1>2. modem'.sub = modem.sub
  BY DEF RunnerStep, requestOperator, requestSetNetworkSelectionAutomatic, pollFastDormancy,
         requestSetNetworkSelectionManual, requestSignalStrength, pollSignalStrength, Unlock,
         pollOperatorSelected, SelectionAsksMode, SelectionAsksRegistration, SelectionRestarts,
         SelectionEnqueues, Base, TypeInv, ModemTypes, Modems
<1>3. \A d \in Domains : d \in fw.unsure => d \in fw'.unsure
  <2>1. CASE requestSetNetworkSelectionAutomatic
    <3>1. \/ fw' = fw
          \/ \E d \in Domains : fw' = Overwritten(d, s_reg[d].stat # req["normal"].reg.stat)
      BY <2>1 DEF requestSetNetworkSelectionAutomatic, SelectionAsksMode, SelectionAsksRegistration,
                  SelectionRestarts, SelectionEnqueues
    <3>2. \A d : (s_reg[d].stat # req["normal"].reg.stat) \in BOOLEAN
      OBVIOUS
    <3> QED BY <3>1, <3>2, UnsureOfReports DEF Base
  <2>2. CASE requestOperator
    <3>1. \/ fw' = fw \/ \E op : fw' = [fw EXCEPT !.operator = op]
          \/ fw' = [fw EXCEPT !.unsure = @ \cup {"operator"}]
      BY <2>2 DEF requestOperator
    <3> QED BY <3>1 DEF Base, TypeInv, ModemTypes, Knowledge
  <2>3. CASE requestSignalStrength \/ pollSignalStrength(r)
    <3>1. \/ fw' = fw \/ fw' = Strength(modem.level)
          \/ fw' = [fw EXCEPT !.unsure = @ \cup {"level"}]
      BY <2>3 DEF requestSignalStrength, pollSignalStrength, getSignalStrength
    <3>2. \A e \in Domains : e \in fw.unsure => e \in Strength(modem.level).unsure
      BY UnsureOfReports DEF Base, Domains
    <3>3. \A e \in Domains : e \in fw.unsure => e \in [fw EXCEPT !.unsure = @ \cup {"level"}].unsure
      BY DEF Base, TypeInv, ModemTypes, Knowledge
    <3> QED BY <3>1, <3>2, <3>3
  <2>4. CASE pollFastDormancy \/ requestSetNetworkSelectionManual \/ Unlock(r) \/ pollOperatorSelected(r)
    BY <2>4 DEF pollFastDormancy, requestSetNetworkSelectionManual, Unlock, pollOperatorSelected
  <2> QED BY <2>1, <2>2, <2>3, <2>4 DEF RunnerStep
<1>4. \/ pc' = pc
      \/ \E to \in RequestLabels : Goto(r, to) /\ pc[r] \notin {"set cs", "set ps", "sim lock"}
  <2>1. CASE r = "normal" /\ (requestOperator \/ requestSetNetworkSelectionManual
                               \/ requestSetNetworkSelectionAutomatic \/ pollFastDormancy)
    <3>1. \/ pc' = pc
          \/ \E to \in {"cops", "cops read", "idle", "scan cs", "scan ps", "scanned cs", "scanned ps",
                        "cops=0", "enqueue", "efdorm"} :
                Goto("normal", to) /\ pc["normal"] \notin {"set cs", "set ps", "sim lock"}
      BY <2>1 DEF requestOperator, requestSetNetworkSelectionAutomatic, Idle, At, Asks,
                  requestSetNetworkSelectionManual, SelectionAsksMode, SelectionAsksRegistration,
                  SelectionRestarts, SelectionEnqueues, pollFastDormancy
    <3> QED BY <2>1, <3>1 DEF RequestLabels
  <2>2. CASE r = "prio" /\ requestSignalStrength
    BY <2>2 DEF requestSignalStrength, At, RequestLabels
  <2>3. CASE pollSignalStrength(r)
    <3>1. \E to \in {"csq", "set csq", "told", "set told", "idle", "set signal"} :
             Goto(r, to) /\ pc[r] \in {"idle", "set poll", "csq", "set csq", "told", "set told"}
      BY <2>3 DEF pollSignalStrength, Idle, At
    <3> QED BY <3>1 DEF RequestLabels
  <2>4. CASE Unlock(r)
    BY <2>4 DEF Unlock, At, RequestLabels
  <2>5. CASE pollOperatorSelected(r)
    <3>1. \/ pc' = pc
          \/ \E to \in {"cops?", "idle"} : Goto(r, to) /\ pc[r] \in {"idle", "cops?"}
      BY <2>5 DEF pollOperatorSelected, Idle, At
    <3> QED BY <3>1 DEF RequestLabels
  <2> QED BY <2>1, <2>2, <2>3, <2>4, <2>5 DEF RunnerStep
<1>5. /\ \A s \in Runners : pc[s] \in {"set cs", "set ps"} => pc'[s] = pc[s]
      /\ pc["prio"] = "sim lock" => pc'["prio"] = "sim lock"
  BY <1>4, GoesElsewhere DEF Base
<1> QED BY <1>1, <1>2, <1>3, <1>5 DEF Unapplied

LEMMA AppliedInit == Init => Applied
<1> SUFFICES ASSUME Init, NEW d \in Domains, "e2reg" \in modem.sub["prio"]
             PROVE  Subscribed(d)
  BY DEF Applied
<1>1. "prio" \in Channels
  BY DEF Channels, Runners
<1>2. scenario.booted
  BY <1>1 DEF Init
<1>3. d \in modem.sub["prio"]
  BY <1>1, <1>2 DEF Init, Domains
<1> QED BY <1>1, <1>3 DEF Subscribed

LEMMA AppliedKept ==
    ASSUME Base, Applied, [Next]_vars
    PROVE  Applied'
<1>1. CASE FrameworkStep
  BY <1>1, FrameworkUnapplied, UnappliedKeeps
<1>2. CASE ModemStep
  BY <1>2, ModemUnapplied, UnappliedKeeps
<1>3. ASSUME NEW r \in Runners, RunnerStep(r) PROVE Applied'
  BY <1>3, RegistrationApplies, ScreenStateApplies, SimReadyApplies, SetScreenApplies,
     RunnerUnapplied, UnappliedKeeps
<1>4. ASSUME NEW c \in Channels, ReaderStep(c) PROVE Applied'
  BY <1>4, ReaderUnapplied, UnappliedKeeps
<1>5. CASE UNCHANGED vars
  <2>1. Unapplied
    BY <1>5 DEF vars, Unapplied
  <2> QED BY <2>1, UnappliedKeeps
<1> QED BY <1>1, <1>2, <1>3, <1>4, <1>5 DEF Next, Quiescent

LEMMA TwoChannels == Cardinality(Channels) = 2
<1>1. Cardinality({"normal"}) = 1 /\ IsFiniteSet({"normal"})
  BY FS_Singleton
<1>2. Channels = {"normal"} \cup {"prio"} /\ "prio" \notin {"normal"}
  BY DEF Channels, Runners
<1> QED BY <1>1, <1>2, FS_AddElement

LEMMA BaseTypes == Base => TypeOK
<1> SUFFICES ASSUME Base PROVE TypeOK
  OBVIOUS
<1>1. rssi_queue \in 0..Cardinality(Channels)
  BY TwoChannels DEF Base, TypeInv, ModemTypes
<1>2. fd.chains \in Nat
  BY DEF Base, TypeInv, RunnerTypes
<1>3. /\ s_screenState \in {0, 1} /\ lock \in Runners \cup {"free"}
      /\ s_reg \in [Domains -> Regs] /\ s_reg_change \in {0, 1}
      /\ old_response \in Cells \cup {NoCell}
      /\ s_status \in [Domains -> Statuses] /\ old_resp \subseteq Domains \cup {"unset"}
      /\ s_registrationDeniedReason \in Statuses \cup {"default"}
      /\ s_cops_mode \in {"unknown", "automatic", "manual"}
  BY DEF Base, TypeInv, CacheTypes, RunnerTypes
<1>4. /\ s_umts_rinfo \in {0, 1} /\ {old_umts_rinfo, asked_umts_rinfo} \subseteq {-1, 0, 1}
      /\ pc \in [Runners -> RequestLabels]
      /\ selection \in [queue : Runners \cup {"none"}, loops : 0..MaxLoops]
      /\ events \in [sim : Nat, signal : Nat]
      /\ readerPc \in [Channels -> {"idle", "inform", "parse", "raise"}]
  BY DEF Base, TypeInv, CacheTypes, RunnerTypes, ModemTypes
<1> QED BY <1>1, <1>2, <1>3, <1>4 DEF TypeOK, Statuses

LEMMA AppliedReports == Base /\ Applied => ReportsWhileOn
<1> SUFFICES ASSUME Base, Applied, lock = "free", s_screenState = 1, "e2reg" \in modem.sub["prio"],
                    pc["prio"] # "sim lock", NEW d \in Domains \ fw.unsure
             PROVE  Subscribed(d)
  BY DEF ReportsWhileOn
<1>1. \A r \in Runners : pc[r] \notin {"set cs", "set ps"}
  BY DEF Base, LockDiscipline, Locked, Runners
<1> QED BY <1>1 DEF Applied

\* The types of the network component, the lock of the screen state, and that the
\* modem reports registration whenever the screen is on.
THEOREM NetworkCorrect == Spec => []NetworkInv
<1>1. Init => Base /\ Applied
  BY BaseInit, AppliedInit
<1>2. Base /\ Applied /\ [Next]_vars => (Base /\ Applied)'
  BY BaseKept, AppliedKept
<1>3. Base /\ Applied => NetworkInv
  BY BaseTypes, AppliedReports DEF NetworkInv, Base
<1> QED BY <1>1, <1>2, <1>3, PTL DEF Spec

-----------------------------------------------------------------------------
(***************************************************************************)
(* The signal strength.                                                    *)
(***************************************************************************)
LEMMA TailOf ==
    ASSUME NEW S, NEW q \in Seq(S), q # << >>
    PROVE  /\ Tail(q) \in Seq(S) /\ Len(q) \in Nat /\ Len(q) > 0 /\ Len(Tail(q)) = Len(q) - 1
           /\ Head(q) = q[1]
           /\ \A i \in 1..Len(Tail(q)) : i + 1 \in 1..Len(q) /\ Tail(q)[i] = q[i + 1]
           /\ \A i \in 1..Len(q) : i # 1 => i - 1 \in 1..Len(Tail(q)) /\ Tail(q)[i - 1] = q[i]
<1>1. Tail(q) \in Seq(S) /\ Len(q) \in Nat /\ Len(q) > 0 /\ Len(Tail(q)) = Len(q) - 1 /\ Head(q) = q[1]
  OBVIOUS
<1>2. \A i \in 1..Len(Tail(q)) : i + 1 \in 1..Len(q) /\ Tail(q)[i] = q[i + 1]
  BY <1>1
<1>3. ASSUME NEW i \in 1..Len(q), i # 1
      PROVE  i - 1 \in 1..Len(Tail(q)) /\ Tail(q)[i - 1] = q[i]
  <2>1. i - 1 \in 1..Len(Tail(q)) /\ (i - 1) + 1 = i
    BY <1>1, <1>3
  <2> QED BY <1>2, <2>1
<1> QED BY <1>1, <1>2, <1>3

\* A report of the signal strength was not handled.
SignalWaits == \E c \in Channels : \E i \in 1..Len(lines[c]) : lines[c][i].kind = "signal"

Asking == {"csq", "set csq"}

\* A counter that is not zero has a poll enqueued; a change of the signal strength
\* is known, or a report of it waits, or a poll does, or one is about to ask.
SignalFollows ==
    /\ rssi_queue > 0 => events.signal > 0
    /\ \/ "level" \in fw.unsure \/ fw.level = modem.level \/ events.signal > 0 \/ SignalWaits
       \/ \E r \in Runners : pc[r] \in Asking

\* A step that leaves the signal strength alone.
Unsignalled ==
    /\ modem'.level = modem.level /\ fw'.level = fw.level
    /\ "level" \in fw.unsure => "level" \in fw'.unsure
    /\ events.signal > 0 => events'.signal > 0
    /\ rssi_queue' > 0 => rssi_queue > 0
    /\ SignalWaits => SignalWaits'
    /\ \A r \in Runners : pc[r] \in Asking => pc'[r] \in Asking

LEMMA UnsignalledKeeps ==
    ASSUME SignalFollows, Unsignalled
    PROVE  SignalFollows'
<1>1. rssi_queue' > 0 => events'.signal > 0
  BY DEF SignalFollows, Unsignalled
<1>2. \/ "level" \in fw.unsure \/ fw.level = modem.level \/ events.signal > 0 \/ SignalWaits
      \/ \E r \in Runners : pc[r] \in Asking
  BY DEF SignalFollows
<1>3. \/ "level" \in fw'.unsure \/ fw'.level = modem'.level \/ events'.signal > 0 \/ SignalWaits'
      \/ \E r \in Runners : pc'[r] \in Asking
  BY <1>2 DEF Unsignalled
<1> QED BY <1>1, <1>3 DEF SignalFollows

LEMMA LevelOfReports ==
    ASSUME TypeInv, NEW d \in Domains, NEW reg, NEW other \in BOOLEAN
    PROVE  \A new \in {TellsOf(d, reg), TellsNothingOf(d, reg), Overwritten(d, other), Unreported,
                       Fails(d), NetworkStateChanged} :
              new.level = fw.level /\ ("level" \in fw.unsure => "level" \in new.unsure)
<1>1. fw \in Knowledge
  BY DEF TypeInv, ModemTypes
<1>2. NetworkStateChanged.level = fw.level /\ NetworkStateChanged.unsure = fw.unsure
  BY <1>1 DEF Knowledge, NetworkStateChanged
<1>3. Unreported.level = fw.level /\ ("level" \in fw.unsure => "level" \in Unreported.unsure)
      /\ Unreported \in Knowledge
  BY <1>1 DEF Knowledge, Unreported
<1>4. TellsOf(d, reg).level = fw.level /\ ("level" \in fw.unsure => "level" \in TellsOf(d, reg).unsure)
  BY <1>1 DEF Knowledge, TellsOf, NetworkStateChanged
<1>5. TellsNothingOf(d, reg).level = fw.level
      /\ ("level" \in fw.unsure => "level" \in TellsNothingOf(d, reg).unsure)
  BY <1>1 DEF Knowledge, TellsNothingOf
<1>6. Overwritten(d, other).level = fw.level
      /\ ("level" \in fw.unsure => "level" \in Overwritten(d, other).unsure)
  BY <1>3 DEF Knowledge, Overwritten
<1>7. Fails(d).level = fw.level /\ Fails(d).unsure = fw.unsure
  BY <1>1 DEF Knowledge, Fails
<1> QED BY <1>2, <1>3, <1>4, <1>5, <1>6, <1>7

LEMMA GrowingKeepsSignals ==
    ASSUME TypeInv, \A c \in Channels : \E new : Grows(c, new)
    PROVE  SignalWaits => SignalWaits'
<1> SUFFICES ASSUME NEW c \in Channels, NEW i \in 1..Len(lines[c]), lines[c][i].kind = "signal"
             PROVE  SignalWaits'
  BY DEF SignalWaits
<1>1. Len(lines[c]) \in Nat
  BY DEF TypeInv, ModemTypes
<1>2. i \in 1..Len(lines'[c]) /\ lines'[c][i] = lines[c][i]
  BY <1>1 DEF Grows
<1> QED BY <1>2 DEF SignalWaits

\* A step of the modem changes registrations, or the capability, or the signal, or
\* none of what the framework is told.
LEMMA ModemClasses ==
    ASSUME Base, ModemStep
    PROVE  \/ \E reg \in [Domains -> Regs], changed \in SUBSET Domains :
                 /\ RegistrationBecomes(reg, changed) /\ modem'.reg = reg
                 /\ \A d \in Domains \ changed : reg[d] = modem.reg[d]
                 /\ RegistrationChanges \/ CellChanges \/ SimChanges
           \/ CapabilityChanges \/ SignalChanges
           \/ UNCHANGED <<lines, fw>> /\ modem'.reg = modem.reg /\ modem'.cell = modem.cell
              /\ (radio' = radio \/ radio' = "SIM_READY")
<1>1. CASE RegistrationChanges
  <2>1. PICK d \in Domains, stat \in {"searching", "home", "denied"} :
            LET reg == [modem.reg EXCEPT
                           ![d] = [stat |-> stat,
                                   cell |-> IF stat = "home" THEN modem.cell ELSE NoCell]]
            IN  modem' = [modem EXCEPT !.reg = reg] /\ RegistrationBecomes(reg, {d})
    BY <1>1 DEF RegistrationChanges
  <2> DEFINE reg == [modem.reg EXCEPT
                        ![d] = [stat |-> stat,
                                cell |-> IF stat = "home" THEN modem.cell ELSE NoCell]]
  <2>2. modem.reg \in [Domains -> Regs] /\ modem.cell \in Cells
    BY DEF Base, TypeInv, ModemTypes, Modems
  <2>3. reg \in [Domains -> Regs] /\ \A e \in Domains \ {d} : reg[e] = modem.reg[e]
    BY <2>2 DEF Regs, Stats
  <2>4. modem'.reg = reg /\ RegistrationBecomes(reg, {d}) /\ {d} \in SUBSET Domains
    BY <2>1 DEF Base, TypeInv, ModemTypes, Modems
  <2> HIDE DEF reg
  <2> QED BY <1>1, <2>3, <2>4
<1>2. CASE CellChanges
  <2> DEFINE homes == {d \in Domains : Home(modem.reg[d])}
             reg == [d \in Domains |-> IF d \in homes THEN [modem.reg[d] EXCEPT !.cell = 3 - modem.cell]
                                       ELSE modem.reg[d]]
  <2>1. modem' = [modem EXCEPT !.reg = reg, !.cell = 3 - modem.cell] /\ RegistrationBecomes(reg, homes)
    BY <1>2 DEF CellChanges
  <2>2. modem.reg \in [Domains -> Regs] /\ modem.cell \in {1, 2}
    BY DEF Base, TypeInv, ModemTypes, Modems, Cells
  <2>3. 3 - modem.cell \in Cells
    BY <2>2 DEF Cells
  <2>4. reg \in [Domains -> Regs] /\ \A e \in Domains \ homes : reg[e] = modem.reg[e]
    BY <2>2, <2>3 DEF Regs
  <2>5. modem'.reg = reg /\ homes \in SUBSET Domains
    BY <2>1 DEF Base, TypeInv, ModemTypes, Modems
  <2> HIDE DEF reg, homes
  <2> QED BY <1>2, <2>1, <2>4, <2>5
<1>3. CASE SimChanges
  <2> DEFINE reg == [d \in Domains |-> [stat |-> "none", cell |-> NoCell]]
             changed == {d \in Domains : modem.reg[d] # reg[d]}
  <2>1. CASE UNCHANGED <<modem, fw, lines>> /\ radio' = "SIM_READY"
    BY <2>1
  <2>2. CASE modem' = [modem EXCEPT !.reg = reg] /\ RegistrationBecomes(reg, changed)
    <3>1. reg \in [Domains -> Regs] /\ \A e \in Domains \ changed : reg[e] = modem.reg[e]
      BY DEF Regs, Stats
    <3>2. modem'.reg = reg /\ changed \in SUBSET Domains
      BY <2>2 DEF Base, TypeInv, ModemTypes, Modems
    <3> HIDE DEF reg, changed
    <3> QED BY <1>3, <2>2, <3>1, <3>2
  <2> QED BY <1>3, <2>1, <2>2 DEF SimChanges
<1>4. CASE startPollFastDormancy \/ PacketReceived
  BY <1>4 DEF startPollFastDormancy, PacketReceived, Base, TypeInv, ModemTypes, Modems
<1> QED BY <1>1, <1>2, <1>3, <1>4 DEF ModemStep

LEMMA ModemSignalFollows ==
    ASSUME Base, SignalFollows, ModemStep
    PROVE  SignalFollows'
<1>1. pc' = pc /\ rssi_queue' = rssi_queue
  BY DEF ModemStep, RegistrationChanges, CellChanges, SimChanges, CapabilityChanges, SignalChanges,
         startPollFastDormancy, PacketReceived, Change
<1>2. events'.signal = events.signal
  BY DEF ModemStep, RegistrationChanges, CellChanges, SimChanges, CapabilityChanges, SignalChanges,
         startPollFastDormancy, PacketReceived, Base, TypeInv, RunnerTypes
<1>3. CASE SignalChanges
  <2>1. fw'.unsure = IF Subscribed("signal") THEN fw.unsure \ {"level"} ELSE fw.unsure \cup {"level"}
    BY <1>3 DEF SignalChanges, Base, TypeInv, ModemTypes, Knowledge
  <2>2. CASE Subscribed("signal")
    <3>1. PICK c \in Channels : "signal" \in modem.sub[c]
      BY <2>2 DEF Subscribed
    <3>2. lines'[c] = Adds(c, Report("signal", 0), lines[c]) /\ lines[c] \in Seq(Lines)
      BY <1>3 DEF SignalChanges, Base, TypeInv, ModemTypes
    <3>3. Report("signal", 0).kind = "signal" /\ Report("signal", 0) \in Lines
      BY DEF Report, Lines
    <3>4. Len(lines'[c]) = Len(lines[c]) + 1 /\ lines'[c][Len(lines[c]) + 1] = Report("signal", 0)
      BY <3>1, <3>2, <3>3, AddsOne DEF Base
    <3>5. Len(lines[c]) + 1 \in 1..Len(lines'[c])
      BY <3>2, <3>4
    <3>6. SignalWaits'
      BY <3>3, <3>4, <3>5 DEF SignalWaits
    <3> QED BY <1>1, <1>2, <3>6 DEF SignalFollows
  <2>3. CASE ~Subscribed("signal")
    BY <1>1, <1>2, <2>1, <2>3 DEF SignalFollows
  <2> QED BY <2>2, <2>3
<1>4. CASE ~SignalChanges
  <2>1. modem'.level = modem.level
    BY <1>4 DEF ModemStep, RegistrationChanges, CellChanges, SimChanges, CapabilityChanges,
                startPollFastDormancy, PacketReceived, Base, TypeInv, ModemTypes, Modems
  <2>2. CASE \E reg \in [Domains -> Regs], changed \in SUBSET Domains : RegistrationBecomes(reg, changed)
    <3>1. PICK reg \in [Domains -> Regs], changed \in SUBSET Domains : RegistrationBecomes(reg, changed)
      BY <2>2
    <3>2. \A c \in Channels : \E new : Grows(c, new)
      BY <3>1, ChangeGrows DEF Base
    <3>3. fw'.level = fw.level /\ ("level" \in fw.unsure => "level" \in fw'.unsure)
      <4>1. \A old \in Knowledge : \A fresh : [old EXCEPT !.fresh = fresh].level = old.level
                                              /\ [old EXCEPT !.fresh = fresh].unsure = old.unsure
        BY DEF Knowledge
      <4>2. Unreported.level = fw.level /\ ("level" \in fw.unsure => "level" \in Unreported.unsure)
            /\ Unreported \in Knowledge /\ fw \in Knowledge
        BY UnreportedTypes DEF Base, TypeInv, ModemTypes, Knowledge, Unreported
      <4> QED BY <3>1, <4>1, <4>2 DEF RegistrationBecomes
    <3> QED BY <1>1, <1>2, <2>1, <3>2, <3>3, GrowingKeepsSignals, UnsignalledKeeps DEF Unsignalled, Base
  <2>3. CASE UNCHANGED <<lines, fw>>
    BY <1>1, <1>2, <2>1, <2>3, UnsignalledKeeps DEF Unsignalled, SignalWaits
  <2>4. CASE CapabilityChanges
    <3>1. \A c \in Channels : \E line : lines'[c] = Append(lines[c], line)
      BY <2>4 DEF CapabilityChanges
    <3>2. \A c \in Channels : lines[c] \in Seq(Lines)
      BY DEF Base, TypeInv, ModemTypes
    <3>3. SignalWaits => SignalWaits'
      <4> SUFFICES ASSUME NEW c \in Channels, NEW i \in 1..Len(lines[c]), lines[c][i].kind = "signal"
                   PROVE  SignalWaits'
        BY DEF SignalWaits
      <4>1. PICK line : lines'[c] = Append(lines[c], line)
        BY <3>1
      <4>2. i \in 1..Len(lines'[c]) /\ lines'[c][i] = lines[c][i]
        BY <3>2, <4>1
      <4> QED BY <4>2 DEF SignalWaits
    <3>4. fw' = fw
      BY <2>4 DEF CapabilityChanges
    <3> QED BY <1>1, <1>2, <2>1, <3>3, <3>4, UnsignalledKeeps DEF Unsignalled
  <2> QED BY <1>4, <2>2, <2>3, <2>4, ModemClasses
<1> QED BY <1>3, <1>4

LEMMA FrameworkSignalFollows ==
    ASSUME Base, SignalFollows, FrameworkStep
    PROVE  SignalFollows'
<1>1. PICK kind \in RequestKinds, label \in {"lock", "screen", "operator", "manual", "strength", "automatic"} :
          Request(kind, label)
  BY DEF FrameworkStep, RequestKinds, Domains
<1> DEFINE r == IF kind = "strength" THEN "prio" ELSE "normal"
<1>2. /\ pc[r] = "idle" /\ Goto(r, label) /\ UNCHANGED <<modem, events, rssi_queue, lines>>
      /\ fw' = [fw EXCEPT !.stale = @ \ {kind}]
  BY <1>1 DEF Request, Idle, At
<1>3. r \in Runners /\ label \in RequestLabels
  BY DEF Runners, RequestLabels
<1>4. fw'.unsure = fw.unsure /\ fw'.level = fw.level
  BY <1>2 DEF Base, TypeInv, ModemTypes, Knowledge
<1>5. \A s \in Runners : pc[s] \in Asking => pc'[s] \in Asking
  BY <1>2, <1>3, PcStep DEF Base, Asking
<1> QED BY <1>2, <1>4, <1>5, UnsignalledKeeps DEF Unsignalled, SignalWaits

\* The reports of channel c after the first was handled.
LEMMA HandlingKeeps ==
    ASSUME TypeInv, NEW c \in Channels, NEW at, NEW kinds, Handles(c, at, kinds),
           NEW to, Proceeds(c, to)
    PROVE  /\ \A e \in Channels \ {c} : lines'[e] = lines[e] /\ readerPc'[e] = readerPc[e]
           /\ readerPc'[c] = to
           /\ to # "idle" => lines' = lines
           /\ to = "idle" => lines'[c] = Tail(lines[c])
  BY DEF Proceeds, TypeInv, ModemTypes

LEMMA HandlingKeepsSignals ==
    ASSUME TypeInv, NEW c \in Channels, NEW at, NEW kinds, Handles(c, at, kinds), NEW to, Proceeds(c, to),
           to = "idle" => "signal" \notin kinds
    PROVE  SignalWaits => SignalWaits'
<1> SUFFICES ASSUME NEW e \in Channels, NEW i \in 1..Len(lines[e]), lines[e][i].kind = "signal"
             PROVE  SignalWaits'
  BY DEF SignalWaits
<1>1. CASE to # "idle" \/ e # c
  <2>1. lines'[e] = lines[e]
    BY <1>1, HandlingKeeps
  <2> QED BY <2>1 DEF SignalWaits
<1>2. CASE to = "idle" /\ e = c
  <2>1. lines[c] \in Seq(Lines) /\ lines[c] # << >> /\ Head(lines[c]).kind # "signal"
    BY <1>2 DEF TypeInv, ModemTypes, Handles
  <2>2. i # 1
    BY <1>2, <2>1, TailOf
  <2>3. i - 1 \in 1..Len(Tail(lines[c])) /\ Tail(lines[c])[i - 1] = lines[c][i]
    BY <1>2, <2>1, <2>2, TailOf
  <2>4. lines'[c] = Tail(lines[c])
    BY <1>2, HandlingKeeps
  <2> QED BY <1>2, <2>3, <2>4 DEF SignalWaits
<1> QED BY <1>1, <1>2

LEMMA ReaderSignalFollows ==
    ASSUME Base, SignalFollows, NEW c \in Channels, ReaderStep(c)
    PROVE  SignalFollows'
<1>1. pc' = pc /\ modem' = modem /\ events.signal \in Nat
  BY DEF ReaderStep, onRegistrationStatusChanged, onNetworkCapabilityChanged, onNetworkStatusChanged,
         onSignalStrengthChanged, Handles, Base, TypeInv, RunnerTypes
<1>2. CASE onRegistrationStatusChanged(c)
  <2>1. UNCHANGED <<rssi_queue, events>>
    BY <1>2 DEF onRegistrationStatusChanged
  <2>2. \E at, to : Handles(c, at, Domains) /\ Proceeds(c, to)
    BY <1>2 DEF onRegistrationStatusChanged
  <2>3. SignalWaits => SignalWaits'
    BY <2>2, HandlingKeepsSignals DEF Base, Domains
  <2>4. Head(lines[c]).kind \in Domains
    BY <2>2 DEF Handles
  <2>5. \/ fw' = fw \/ \E reg : fw' \in {TellsOf(Head(lines[c]).kind, reg), TellsNothingOf(Head(lines[c]).kind, reg)}
    BY <1>2 DEF onRegistrationStatusChanged
  <2>6. fw'.level = fw.level /\ ("level" \in fw.unsure => "level" \in fw'.unsure)
    BY <2>4, <2>5, LevelOfReports DEF Base
  <2> QED BY <1>1, <2>1, <2>3, <2>6, UnsignalledKeeps DEF Unsignalled
<1>3. CASE onNetworkCapabilityChanged(c)
  <2>1. UNCHANGED <<rssi_queue, events>>
    BY <1>3 DEF onNetworkCapabilityChanged
  <2>2. \E at, to : Handles(c, at, {"erinfo"}) /\ Proceeds(c, to)
    BY <1>3 DEF onNetworkCapabilityChanged
  <2>3. SignalWaits => SignalWaits'
    BY <2>2, HandlingKeepsSignals DEF Base
  <2>4. fw' = fw \/ fw' = NetworkStateChanged
    BY <1>3 DEF onNetworkCapabilityChanged
  <2>5. fw'.level = fw.level /\ ("level" \in fw.unsure => "level" \in fw'.unsure)
    BY <2>4, LevelOfReports DEF Base, Domains
  <2> QED BY <1>1, <2>1, <2>3, <2>5, UnsignalledKeeps DEF Unsignalled
<1>4. CASE onNetworkStatusChanged(c)
  <2>1. rssi_queue' = rssi_queue /\ (events.signal > 0 => events'.signal > 0)
    <3>1. rssi_queue' = rssi_queue
          /\ (events' = events \/ events' = [events EXCEPT !.signal = @ + 1])
      BY <1>4 DEF onNetworkStatusChanged
    <3> QED BY <1>1, <3>1 DEF Base, TypeInv, RunnerTypes
  <2>2. \E at, to : Handles(c, at, {"e2reg"}) /\ Proceeds(c, to)
    BY <1>4 DEF onNetworkStatusChanged
  <2>3. SignalWaits => SignalWaits'
    BY <2>2, HandlingKeepsSignals DEF Base
  <2>4. fw' = fw \/ fw' = NetworkStateChanged
    BY <1>4 DEF onNetworkStatusChanged
  <2>5. fw'.level = fw.level /\ ("level" \in fw.unsure => "level" \in fw'.unsure)
    BY <2>4, LevelOfReports DEF Base, Domains
  <2> QED BY <1>1, <2>1, <2>3, <2>5, UnsignalledKeeps DEF Unsignalled
<1>5. CASE onSignalStrengthChanged(c)
  <2>1. CASE Handles(c, "idle", {"signal"}) /\ Proceeds(c, IF rssi_queue = 0 THEN "raise" ELSE "idle")
             /\ UNCHANGED <<rssi_queue, events>>
    <3>1. CASE rssi_queue = 0
      <4>1. SignalWaits => SignalWaits'
        BY <2>1, <3>1, HandlingKeepsSignals DEF Base
      <4>2. fw' = fw
        BY <1>5 DEF onSignalStrengthChanged
      <4> QED BY <1>1, <2>1, <4>1, <4>2, UnsignalledKeeps DEF Unsignalled
    <3>2. CASE rssi_queue # 0
      <4>1. rssi_queue \in {0, 1, 2}
        BY DEF Base, TypeInv, ModemTypes
      <4>2. events.signal > 0
        BY <3>2, <4>1 DEF SignalFollows
      <4> QED BY <2>1, <4>2 DEF SignalFollows
    <3> QED BY <3>1, <3>2
  <2>2. CASE events' = [events EXCEPT !.signal = @ + 1]
    <3>1. events'.signal > 0
      BY <1>1, <2>2 DEF Base, TypeInv, RunnerTypes
    <3> QED BY <3>1 DEF SignalFollows
  <2> QED BY <1>5, <2>1, <2>2 DEF onSignalStrengthChanged
<1> QED BY <1>2, <1>3, <1>4, <1>5 DEF ReaderStep

LEMMA SubscribeSignal ==
    ASSUME TypeInv, NEW r \in Runners, NEW kinds, NEW on, Subscribe(r, kinds, on)
    PROVE  /\ modem'.level = modem.level /\ fw'.level = fw.level
           /\ fw.unsure \subseteq fw'.unsure
<1>1. modem \in Modems /\ fw \in Knowledge
  BY DEF TypeInv, ModemTypes
<1>2. CASE modem' = [modem EXCEPT !.sub[r] = IF on THEN @ \cup kinds ELSE @ \ kinds] /\ fw' = fw
  BY <1>1, <1>2 DEF Modems
<1>3. CASE fw' = [fw EXCEPT !.unsure = @ \cup kinds] /\ modem' = modem
  BY <1>1, <1>3 DEF Knowledge
<1> QED BY <1>2, <1>3 DEF Subscribe

LEMMA StrengthKnown ==
    ASSUME Base, fw' = Strength(modem.level) \/ fw' = [fw EXCEPT !.unsure = @ \cup {"level"}]
    PROVE  fw'.level = modem.level \/ "level" \in fw'.unsure
<1>1. fw \in Knowledge
  BY DEF Base, TypeInv, ModemTypes
<1>2. CASE fw' = Strength(modem.level)
  BY <1>1, <1>2 DEF Knowledge, Strength
<1>3. CASE fw' = [fw EXCEPT !.unsure = @ \cup {"level"}]
  BY <1>1, <1>3 DEF Knowledge
<1> QED BY <1>2, <1>3

LEMMA PollSignalFollows ==
    ASSUME Base, SignalFollows, NEW r \in Runners, pollSignalStrength(r)
    PROVE  SignalFollows'
<1>1. modem' = modem /\ lines' = lines
  BY DEF pollSignalStrength, Runs
<1>2. CASE (Goto(r, "csq") \/ Goto(r, "set csq")) /\ rssi_queue' = 0
  <2>1. "csq" \in RequestLabels /\ "set csq" \in RequestLabels
    BY DEF RequestLabels
  <2>2. pc'[r] \in Asking
    BY <1>2, <2>1, PcStep DEF Base, Asking
  <2>3. rssi_queue' = 0
    BY <1>2
  <2>4. ~(rssi_queue' > 0)
    BY <2>3
  <2> QED BY <2>2, <2>4 DEF SignalFollows
<1>3. CASE getSignalStrength(r) /\ UNCHANGED <<rssi_queue, events>>
  <2>1. fw'.level = modem.level \/ "level" \in fw'.unsure
    BY <1>3, StrengthKnown DEF getSignalStrength
  <2> QED BY <1>1, <1>3, <2>1 DEF SignalFollows
<1>4. CASE /\ pc[r] \in {"told", "set told"} /\ rssi_queue' = RssiAt("end") /\ UNCHANGED <<events, fw>>
           /\ Goto(r, IF pc[r] = "told" THEN "idle" ELSE "set signal")
  <2>1. {"idle", "set signal"} \subseteq RequestLabels /\ rssi_queue' = rssi_queue
    BY <1>4 DEF RequestLabels, RssiAt
  <2>2. \A s \in Runners : s # r => pc'[s] = pc[s]
    BY <1>4, <2>1, PcStep DEF Base
  <2> QED BY <1>1, <1>4, <2>1, <2>2, UnsignalledKeeps DEF Unsignalled, SignalWaits, Asking
<1> QED BY <1>2, <1>3, <1>4 DEF pollSignalStrength, RssiAt

LEMMA StrengthSignalFollows ==
    ASSUME Base, SignalFollows, requestSignalStrength
    PROVE  SignalFollows'
<1>1. /\ UNCHANGED <<modem, lines, rssi_queue, events>> /\ pc["prio"] = "strength"
      /\ Goto("prio", "idle")
  BY DEF requestSignalStrength, Runs, At
<1>2. CASE fw' = Strength(modem.level)
  BY <1>1, <1>2, StrengthKnown DEF SignalFollows
<1>3. CASE fw' = fw
  <2>1. "prio" \in Runners /\ "idle" \in RequestLabels
    BY DEF Runners, RequestLabels
  <2>2. \A s \in Runners : pc[s] \in Asking => pc'[s] = pc[s]
    BY <1>1, <2>1, PcStep DEF Base, Asking
  <2> QED BY <1>1, <1>3, <2>2, UnsignalledKeeps DEF Unsignalled, SignalWaits
<1> QED BY <1>2, <1>3 DEF requestSignalStrength

\* Where a runner goes in any other step.
LEMMA RunnerMoves ==
    ASSUME Base, NEW r \in Runners, RunnerStep(r), ~pollSignalStrength(r)
    PROVE  /\ lines' = lines /\ readerPc' = readerPc
           /\ \A s \in Runners : pc[s] \in Asking => pc'[s] = pc[s]
<1>1. lines' = lines /\ readerPc' = readerPc
  BY DEF RunnerStep, RegistrationStep, RequestLocks, RequestSubscribes, RequestQueries,
         RequestAsksReason, RequestWrites, RequestAnswers, RequestEnds, requestScreenState,
         requestOperator, requestSetNetworkSelectionAutomatic, requestSetNetworkSelectionManual,
         pollFastDormancy, onSIMReady, requestSignalStrength, setScreenState, Unlock,
         pollOperatorSelected, Runs
<1>2. pc' = pc \/ ((\E to : Goto(r, to)) /\ pc[r] \notin Asking)
  <2>1. CASE r = "normal" /\ RegistrationStep
    BY <2>1 DEF RegistrationStep, RequestLocks, RequestSubscribes, RequestQueries,
                RequestAsksReason, RequestWrites, RequestAnswers, RequestEnds, At, Asking
  <2>2. CASE r = "normal" /\ (requestScreenState \/ requestOperator)
    BY <2>2 DEF requestScreenState, requestOperator, At, Asking
  <2>3. CASE r = "normal" /\ (requestSetNetworkSelectionAutomatic \/ requestSetNetworkSelectionManual)
    BY <2>3 DEF requestSetNetworkSelectionAutomatic, requestSetNetworkSelectionManual, Asks, At, Asking,
                SelectionAsksMode, SelectionAsksRegistration, SelectionRestarts, SelectionEnqueues
  <2>4. CASE r = "normal" /\ pollFastDormancy
    BY <2>4 DEF pollFastDormancy, Idle, At, Asking
  <2>5. CASE r = "prio" /\ (onSIMReady \/ requestSignalStrength)
    BY <2>5 DEF onSIMReady, requestSignalStrength, Idle, At, Asking
  <2>6. CASE setScreenState(r) \/ Unlock(r) \/ pollOperatorSelected(r)
    BY <2>6 DEF setScreenState, Unlock, pollOperatorSelected, Idle, At, Asking
  <2> QED BY <2>1, <2>2, <2>3, <2>4, <2>5, <2>6 DEF RunnerStep
<1>3. \A s \in Runners : pc[s] \in Asking => pc'[s] = pc[s]
  <2>1. pc \in [Runners -> RequestLabels]
    BY DEF Base, TypeInv, RunnerTypes
  <2> QED BY <1>2, <2>1 DEF Goto
<1> QED BY <1>1, <1>3

LEMMA RunnerUnsignalled ==
    ASSUME Base, NEW r \in Runners, RunnerStep(r), ~pollSignalStrength(r), ~requestSignalStrength
    PROVE  Unsignalled
<1>1. rssi_queue' = rssi_queue /\ (events.signal > 0 => events'.signal > 0)
  <2>1. rssi_queue' = rssi_queue
    BY DEF RunnerStep, RegistrationStep, RequestLocks, RequestSubscribes, RequestQueries,
           RequestAsksReason, RequestWrites, RequestAnswers, RequestEnds, RegistrationUnchanged,
           requestScreenState, requestOperator, OperatorUnchanged, requestSetNetworkSelectionAutomatic,
           requestSetNetworkSelectionManual, pollFastDormancy, onSIMReady, setScreenState, Unlock,
           pollOperatorSelected
  <2>2. events' = events \/ events' = [events EXCEPT !.sim = @ - 1]
    BY DEF RunnerStep, RegistrationStep, RequestLocks, RequestSubscribes, RequestQueries,
           RequestAsksReason, RequestWrites, RequestAnswers, RequestEnds, RegistrationUnchanged,
           requestScreenState, requestOperator, OperatorUnchanged, requestSetNetworkSelectionAutomatic,
           requestSetNetworkSelectionManual, pollFastDormancy, onSIMReady, setScreenState, Unlock,
           pollOperatorSelected
  <2> QED BY <2>1, <2>2 DEF Base, TypeInv, RunnerTypes
<1>2. /\ modem'.level = modem.level /\ fw'.level = fw.level
      /\ "level" \in fw.unsure => "level" \in fw'.unsure
  <2>1. CASE RegistrationStep
    <3>1. PICK d \in Domains : \/ RequestLocks(d) \/ RequestSubscribes(d) \/ RequestQueries(d)
                               \/ RequestAsksReason(d) \/ RequestWrites(d) \/ RequestAnswers(d)
                               \/ RequestEnds(d)
      BY <2>1 DEF RegistrationStep
    <3>2. \/ \E on : Subscribe("normal", {d}, on)
          \/ modem' = modem /\ fw' \in {fw, Fails(d), Overwritten(d, s_reg[d] # req["normal"].reg),
                                        [fw EXCEPT !.reg[d] = req["normal"].reg]}
      BY <3>1 DEF RequestLocks, RequestSubscribes, RequestQueries, RequestAsksReason, RequestWrites,
                  RequestAnswers, RequestEnds
    <3>3. (s_reg[d] # req["normal"].reg) \in BOOLEAN
      OBVIOUS
    <3>4. [fw EXCEPT !.reg[d] = req["normal"].reg].level = fw.level
          /\ [fw EXCEPT !.reg[d] = req["normal"].reg].unsure = fw.unsure
      BY DEF Base, TypeInv, ModemTypes, Knowledge
    <3>5. "normal" \in Runners
      BY DEF Runners
    <3> QED BY <3>2, <3>3, <3>4, <3>5, SubscribeSignal, LevelOfReports DEF Base
  <2>2. CASE requestScreenState \/ requestSetNetworkSelectionManual \/ pollFastDormancy \/ Unlock(r)
             \/ pollOperatorSelected(r)
    BY <2>2 DEF requestScreenState, requestSetNetworkSelectionManual, pollFastDormancy, Unlock,
                pollOperatorSelected, Base, TypeInv, ModemTypes, Modems
  <2>3. CASE requestOperator
    <3>1. \/ fw' = fw \/ \E op : fw' = [fw EXCEPT !.operator = op]
          \/ fw' = [fw EXCEPT !.unsure = @ \cup {"operator"}]
      BY <2>3 DEF requestOperator
    <3>2. modem' = modem
      BY <2>3 DEF requestOperator
    <3> QED BY <3>1, <3>2 DEF Base, TypeInv, ModemTypes, Knowledge
  <2>4. CASE requestSetNetworkSelectionAutomatic
    <3>1. \/ fw' = fw
          \/ \E d \in Domains : fw' = Overwritten(d, s_reg[d].stat # req["normal"].reg.stat)
      BY <2>4 DEF requestSetNetworkSelectionAutomatic, SelectionAsksMode, SelectionAsksRegistration,
                  SelectionRestarts, SelectionEnqueues
    <3>2. \A d : (s_reg[d].stat # req["normal"].reg.stat) \in BOOLEAN
      OBVIOUS
    <3>3. modem'.level = modem.level
      BY <2>4 DEF requestSetNetworkSelectionAutomatic, SelectionAsksMode, SelectionAsksRegistration,
                  SelectionRestarts, SelectionEnqueues, Base, TypeInv, ModemTypes, Modems
    <3>4. \A d \in Domains : Overwritten(d, s_reg[d].stat # req["normal"].reg.stat).level = fw.level
             /\ ("level" \in fw.unsure => "level" \in Overwritten(d, s_reg[d].stat # req["normal"].reg.stat).unsure)
      BY <3>2, LevelOfReports DEF Base
    <3> QED BY <3>1, <3>3, <3>4
  <2>5. CASE onSIMReady
    <3>1. Subscribe("prio", {"e2reg"}, TRUE) \/ UNCHANGED <<modem, fw>>
      BY <2>5 DEF onSIMReady
    <3> QED BY <3>1, SubscribeSignal DEF Base, Runners
  <2>6. CASE setScreenState(r)
    <3>1. \E kinds, on : Subscribe(r, kinds, on)
      BY <2>6 DEF setScreenState
    <3> QED BY <3>1, SubscribeSignal DEF Base
  <2> QED BY <2>1, <2>2, <2>3, <2>4, <2>5, <2>6 DEF RunnerStep
<1> QED BY <1>1, <1>2, RunnerMoves DEF Unsignalled, SignalWaits

LEMMA SignalInit == Init => SignalFollows
  BY DEF Init, SignalFollows

LEMMA SignalKept ==
    ASSUME Base, SignalFollows, [Next]_vars
    PROVE  SignalFollows'
<1>1. CASE FrameworkStep
  BY <1>1, FrameworkSignalFollows
<1>2. CASE ModemStep
  BY <1>2, ModemSignalFollows
<1>3. ASSUME NEW r \in Runners, RunnerStep(r) PROVE SignalFollows'
  BY <1>3, PollSignalFollows, StrengthSignalFollows, RunnerUnsignalled, UnsignalledKeeps
<1>4. ASSUME NEW c \in Channels, ReaderStep(c) PROVE SignalFollows'
  BY <1>4, ReaderSignalFollows
<1>5. CASE UNCHANGED vars
  <2>1. Unsignalled
    BY <1>5 DEF vars, Unsignalled, SignalWaits
  <2> QED BY <2>1, UnsignalledKeeps
<1> QED BY <1>1, <1>2, <1>3, <1>4, <1>5 DEF Next, Quiescent

\* A change of the signal strength is never lost.
THEOREM SignalIsSeen == Spec => []FrameworkSeesSignal
<1>1. Init => Base /\ SignalFollows
  BY BaseInit, SignalInit
<1>2. Base /\ SignalFollows /\ [Next]_vars => (Base /\ SignalFollows)'
  BY BaseKept, SignalKept
<1>3. SignalFollows => FrameworkSeesSignal
  <2> SUFFICES ASSUME SignalFollows, Quiet, "level" \notin fw.unsure
               PROVE  fw.level = modem.level
    BY DEF FrameworkSeesSignal
  <2>1. ~SignalWaits
    <3> SUFFICES ASSUME NEW c \in Channels, NEW i \in 1..Len(lines[c])
                 PROVE  FALSE
      BY DEF SignalWaits
    <3>1. Len(lines[c]) = 0
      BY DEF Quiet
    <3> QED BY <3>1
  <2>2. \A r \in Runners : pc[r] \notin Asking
    BY DEF Quiet, Idle, At, Asking
  <2>3. ~(events.signal > 0)
    BY DEF Quiet
  <2> QED BY <2>1, <2>2, <2>3 DEF SignalFollows
<1> QED BY <1>1, <1>2, <1>3, PTL DEF Spec

-----------------------------------------------------------------------------
(***************************************************************************)
(* What the reports that wait bring.                                       *)
(***************************************************************************)
\* A cell goes with a registration.
WellFormed(reg) == reg.cell = NoCell <=> ~Home(reg)

ModemKnown ==
    /\ \A d \in Domains : /\ WellFormed(modem.reg[d])
                          /\ Home(modem.reg[d]) => modem.reg[d].cell = modem.cell
    /\ radio # "SIM_READY" => \A d \in Domains : modem.reg[d].stat = "none"

\* The last report of a domain that waits on a channel is the modem's registration.
Latest ==
    \A c \in Channels : \A d \in Domains : \A i \in 1..Len(lines[c]) :
        lines[c][i].kind = d =>
            /\ d \in modem.sub[c] /\ WellFormed(lines[c][i].val)
            /\ \/ lines[c][i].val = modem.reg[d]
               \/ \E j \in 1..Len(lines[c]) :
                     j > i /\ lines[c][j].kind = d /\ lines[c][j].val = modem.reg[d]

\* The report that the framework is to be told of is still there.
InformsOf == \A c \in Channels : readerPc[c] = "inform" => lines[c] # << >>

ModemFacts == ModemKnown /\ Latest /\ InformsOf

LEMMA ModemKnownKept ==
    ASSUME Base, ModemKnown, ModemStep
    PROVE  ModemKnown'
<1>1. modem.reg \in [Domains -> Regs] /\ modem.cell \in {1, 2} /\ modem \in Modems
      /\ radio \in {"SIM_READY", "SIM_ABSENT"}
  BY DEF Base, TypeInv, ModemTypes, Modems, Cells
<1>2. CASE RegistrationChanges
  <2>1. PICK d \in Domains, stat \in {"searching", "home", "denied"} :
            modem' = [modem EXCEPT !.reg = [modem.reg EXCEPT
                         ![d] = [stat |-> stat,
                                 cell |-> IF stat = "home" THEN modem.cell ELSE NoCell]]]
    BY <1>2 DEF RegistrationChanges
  <2>2. /\ modem'.reg = [modem.reg EXCEPT
                         ![d] = [stat |-> stat,
                                 cell |-> IF stat = "home" THEN modem.cell ELSE NoCell]]
        /\ modem'.cell = modem.cell /\ radio' = "SIM_READY"
    BY <1>1, <1>2, <2>1 DEF Modems, RegistrationChanges
  <2>3. \A e \in Domains : e # d => modem'.reg[e] = modem.reg[e]
    BY <1>1, <2>2
  <2>4. modem'.reg[d] = [stat |-> stat, cell |-> IF stat = "home" THEN modem.cell ELSE NoCell]
    BY <1>1, <2>2
  <2>5. WellFormed(modem'.reg[d]) /\ (Home(modem'.reg[d]) => modem'.reg[d].cell = modem'.cell)
    BY <1>1, <2>2, <2>4 DEF WellFormed, Home, NoCell
  <2> QED BY <2>2, <2>3, <2>5 DEF ModemKnown
<1>3. CASE CellChanges
  <2> DEFINE homes == {d \in Domains : Home(modem.reg[d])}
             reg == [d \in Domains |-> IF d \in homes THEN [modem.reg[d] EXCEPT !.cell = 3 - modem.cell]
                                       ELSE modem.reg[d]]
  <2>1. modem' = [modem EXCEPT !.reg = reg, !.cell = 3 - modem.cell] /\ radio' = radio
    BY <1>3 DEF CellChanges
  <2>2. modem'.reg = reg /\ modem'.cell = 3 - modem.cell /\ 3 - modem.cell # NoCell
    BY <1>1, <2>1 DEF Modems, NoCell
  <2>3. ASSUME NEW d \in Domains
        PROVE  /\ WellFormed(modem'.reg[d]) /\ modem'.reg[d].stat = modem.reg[d].stat
               /\ Home(modem'.reg[d]) => modem'.reg[d].cell = modem'.cell
    <3>1. CASE d \in homes
      <4>1. modem'.reg[d] = [modem.reg[d] EXCEPT !.cell = 3 - modem.cell]
        BY <2>2, <3>1
      <4>2. modem'.reg[d].stat = modem.reg[d].stat /\ modem'.reg[d].cell = 3 - modem.cell
        BY <1>1, <4>1 DEF Regs
      <4> QED BY <2>2, <3>1, <4>2 DEF WellFormed, Home
    <3>2. CASE d \notin homes
      <4>1. modem'.reg[d] = modem.reg[d]
        BY <2>2, <3>2
      <4> QED BY <3>2, <4>1 DEF ModemKnown, Home
    <3> QED BY <3>1, <3>2
  <2> QED BY <2>1, <2>3 DEF ModemKnown
<1>4. CASE SimChanges
  <2>1. \/ modem' = modem /\ radio' = "SIM_READY"
        \/ modem' = [modem EXCEPT !.reg = [d \in Domains |-> [stat |-> "none", cell |-> NoCell]]]
    BY <1>4 DEF SimChanges
  <2>2. CASE modem' = modem /\ radio' = "SIM_READY"
    BY <2>2 DEF ModemKnown
  <2>3. CASE modem' = [modem EXCEPT !.reg = [d \in Domains |-> [stat |-> "none", cell |-> NoCell]]]
    <3>1. \A d \in Domains : modem'.reg[d] = [stat |-> "none", cell |-> NoCell]
      BY <1>1, <2>3 DEF Modems
    <3> QED BY <3>1 DEF ModemKnown, WellFormed, Home
  <2> QED BY <2>1, <2>2, <2>3
<1>5. CASE CapabilityChanges \/ SignalChanges \/ startPollFastDormancy \/ PacketReceived
  <2>1. modem'.reg = modem.reg /\ modem'.cell = modem.cell /\ radio' = radio
    BY <1>1, <1>5 DEF CapabilityChanges, SignalChanges, startPollFastDormancy, PacketReceived, Modems
  <2> QED BY <2>1 DEF ModemKnown
<1> QED BY <1>2, <1>3, <1>4, <1>5 DEF ModemStep

\* Lines that are no registration reports, appended to those of a channel.
LEMMA OtherLines ==
    ASSUME TypeInv, CapabilityChanges \/ SignalChanges
    PROVE  \A c \in Channels : Grows(c, {line \in Lines : line.kind \notin Domains})
<1> SUFFICES ASSUME NEW c \in Channels
             PROVE  Grows(c, {line \in Lines : line.kind \notin Domains})
  OBVIOUS
<1> DEFINE other == {line \in Lines : line.kind \notin Domains}
<1>1. lines[c] \in Seq(Lines) /\ modem.umts \in {0, 1}
  BY DEF TypeInv, ModemTypes, Modems
<1>2. PICK line \in other : lines'[c] = Append(lines[c], line) \/ lines'[c] = lines[c]
  <2>1. CASE CapabilityChanges
    <3>1. lines'[c] = Append(lines[c], Report("erinfo", 1 - modem.umts))
      BY <2>1 DEF CapabilityChanges
    <3>2. 1 - modem.umts \in {0, 1}
      BY <1>1
    <3>3. Report("erinfo", 1 - modem.umts) \in other
      BY <3>2 DEF Report, Lines, Domains
    <3> QED BY <3>1, <3>3
  <2>2. CASE SignalChanges
    <3>1. lines'[c] = Append(lines[c], Report("signal", 0)) \/ lines'[c] = lines[c]
      BY <2>2 DEF SignalChanges, Adds
    <3>2. Report("signal", 0) \in other
      BY DEF Report, Lines, Domains
    <3> QED BY <3>1, <3>2
  <2> QED BY <2>1, <2>2
<1> HIDE DEF other
<1>3. line \in Lines /\ line.kind \notin Domains
  BY DEF other
<1>4. \/ lines'[c] = lines[c]
      \/ /\ lines'[c] \in Seq(Lines) /\ Len(lines'[c]) = Len(lines[c]) + 1
         /\ \A i \in 1..Len(lines[c]) : lines'[c][i] = lines[c][i]
         /\ lines'[c][Len(lines[c]) + 1] = line
  BY <1>1, <1>2, <1>3
<1>5. /\ lines'[c] \in Seq(Lines) /\ Len(lines[c]) \in Nat /\ Len(lines'[c]) >= Len(lines[c])
      /\ \A i \in 1..Len(lines[c]) : lines'[c][i] = lines[c][i]
      /\ \A i \in 1..Len(lines'[c]) : i > Len(lines[c]) => lines'[c][i] = line
  BY <1>1, <1>4
<1>6. \A l \in other : l.kind \notin Domains
  BY DEF other
<1> QED BY <1>5, <1>6 DEF Grows, other

LEMMA ChangeKeepsLatest ==
    ASSUME Base, Latest, ModemKnown', modem'.sub = modem.sub,
           NEW reg \in [Domains -> Regs], NEW changed \in SUBSET Domains,
           RegistrationBecomes(reg, changed), modem'.reg = reg,
           \A d \in Domains \ changed : reg[d] = modem.reg[d]
    PROVE  Latest'
<1> SUFFICES ASSUME NEW c \in Channels, NEW d \in Domains, NEW i \in 1..Len(lines'[c]),
                    lines'[c][i].kind = d
             PROVE  /\ d \in modem'.sub[c] /\ WellFormed(lines'[c][i].val)
                    /\ \/ lines'[c][i].val = modem'.reg[d]
                       \/ \E j \in 1..Len(lines'[c]) :
                             j > i /\ lines'[c][j].kind = d /\ lines'[c][j].val = modem'.reg[d]
  BY DEF Latest
<1> DEFINE new == {Report("e2reg", StatusReport(reg))}
                     \cup {Report(e, reg[e]) : e \in changed \cap modem.sub[c]}
<1>1. Grows(c, new)
  BY ChangeGrows DEF Base
<1>2. \A e, v : Report(e, v).kind = e /\ Report(e, v).val = v
  BY DEF Report
<1>3. Len(lines[c]) \in Nat
  BY DEF Base, TypeInv, ModemTypes
<1>4. CASE i \in 1..Len(lines[c])
  <2>1. lines'[c][i] = lines[c][i]
    BY <1>1, <1>4 DEF Grows
  <2>2. d \in modem.sub[c] /\ WellFormed(lines[c][i].val)
    BY <1>4, <2>1 DEF Latest
  <2>3. CASE d \in changed
    <3>1. Report(d, reg[d]) \in new /\ Report(d, reg[d]).kind \in Domains
      BY <1>2, <2>2, <2>3
    <3>2. PICK j \in 1..Len(lines'[c]) : j > Len(lines[c]) /\ lines'[c][j] = Report(d, reg[d])
      BY <1>1, <3>1 DEF Grows
    <3>3. j > i
      BY <1>3, <1>4, <3>2
    <3> QED BY <1>2, <2>1, <2>2, <3>2, <3>3
  <2>4. CASE d \notin changed
    <3>1. reg[d] = modem.reg[d]
      BY <2>4
    <3>2. \A j \in 1..Len(lines[c]) : j \in 1..Len(lines'[c]) /\ lines'[c][j] = lines[c][j]
      BY <1>1, <1>3 DEF Grows
    <3> QED BY <1>4, <2>1, <2>2, <3>1, <3>2 DEF Latest
  <2> QED BY <2>3, <2>4
<1>5. CASE i \notin 1..Len(lines[c])
  <2>1. lines'[c][i] \in new
    BY <1>1, <1>3, <1>5 DEF Grows
  <2>2. PICK e \in changed \cap modem.sub[c] : lines'[c][i] = Report(e, reg[e])
    <3>1. "e2reg" \notin Domains
      BY DEF Domains
    <3> QED BY <1>2, <2>1, <3>1
  <2>3. e = d /\ lines'[c][i].val = modem'.reg[d]
    BY <1>2, <2>2
  <2> QED BY <2>2, <2>3 DEF ModemKnown
<1> QED BY <1>4, <1>5

LEMMA GrowingKeepsLatest ==
    ASSUME Base, Latest, modem'.sub = modem.sub, modem'.reg = modem.reg,
           \A c \in Channels : Grows(c, {line \in Lines : line.kind \notin Domains})
    PROVE  Latest'
<1> SUFFICES ASSUME NEW c \in Channels, NEW d \in Domains, NEW i \in 1..Len(lines'[c]),
                    lines'[c][i].kind = d
             PROVE  /\ d \in modem'.sub[c] /\ WellFormed(lines'[c][i].val)
                    /\ \/ lines'[c][i].val = modem'.reg[d]
                       \/ \E j \in 1..Len(lines'[c]) :
                             j > i /\ lines'[c][j].kind = d /\ lines'[c][j].val = modem'.reg[d]
  BY DEF Latest
<1>1. Len(lines[c]) \in Nat
  BY DEF Base, TypeInv, ModemTypes
<1>2. i \in 1..Len(lines[c])
  BY <1>1 DEF Grows
<1>3. \A j \in 1..Len(lines[c]) : j \in 1..Len(lines'[c]) /\ lines'[c][j] = lines[c][j]
  BY <1>1 DEF Grows
<1> QED BY <1>2, <1>3 DEF Latest

LEMMA ReaderKeepsLatest ==
    ASSUME Base, Latest, NEW c \in Channels, modem' = modem,
           lines' = lines \/ (lines[c] # << >> /\ lines' = [lines EXCEPT ![c] = Tail(@)])
    PROVE  Latest'
<1>1. CASE lines' = lines
  BY <1>1 DEF Latest
<1>2. CASE lines[c] # << >> /\ lines' = [lines EXCEPT ![c] = Tail(@)]
  <2> SUFFICES ASSUME NEW e \in Channels, NEW d \in Domains, NEW i \in 1..Len(lines'[e]),
                      lines'[e][i].kind = d
               PROVE  /\ d \in modem.sub[e] /\ WellFormed(lines'[e][i].val)
                      /\ \/ lines'[e][i].val = modem.reg[d]
                         \/ \E j \in 1..Len(lines'[e]) :
                               j > i /\ lines'[e][j].kind = d /\ lines'[e][j].val = modem.reg[d]
    BY DEF Latest
  <2>1. lines \in [Channels -> Seq(Lines)]
    BY DEF Base, TypeInv, ModemTypes
  <2>2. CASE e # c
    <3>1. lines'[e] = lines[e]
      BY <1>2, <2>1, <2>2
    <3> QED BY <3>1 DEF Latest
  <2>3. CASE e = c
    <3>1. lines'[e] = Tail(lines[c]) /\ lines[c] \in Seq(Lines)
      BY <1>2, <2>1, <2>3
    <3>2. i + 1 \in 1..Len(lines[c]) /\ lines'[e][i] = lines[c][i + 1]
      <4>1. i \in 1..Len(Tail(lines[c])) /\ lines[c] # << >>
        BY <1>2, <3>1
      <4> QED BY <3>1, <4>1, TailOf
    <3>3. /\ d \in modem.sub[c] /\ WellFormed(lines[c][i + 1].val)
          /\ \/ lines[c][i + 1].val = modem.reg[d]
             \/ \E j \in 1..Len(lines[c]) :
                   j > i + 1 /\ lines[c][j].kind = d /\ lines[c][j].val = modem.reg[d]
      BY <3>2 DEF Latest
    <3>4. ASSUME NEW j \in 1..Len(lines[c]), j > i + 1
          PROVE  j - 1 \in 1..Len(lines'[e]) /\ j - 1 > i /\ lines'[e][j - 1] = lines[c][j]
      <4>1. j # 1 /\ j - 1 > i
        BY <3>4
      <4>2. j - 1 \in 1..Len(Tail(lines[c])) /\ Tail(lines[c])[j - 1] = lines[c][j]
        BY <1>2, <3>1, <4>1, TailOf
      <4> QED BY <3>1, <4>1, <4>2
    <3> QED BY <2>3, <3>2, <3>3, <3>4
  <2> QED BY <2>2, <2>3
<1> QED BY <1>1, <1>2

LEMMA SubscribeKeepsLatest ==
    ASSUME Base, Latest, lines' = lines, modem'.reg = modem.reg,
           \/ modem'.sub = modem.sub
           \/ \E r \in Channels : lines[r] = << >> /\ \A c \in Channels \ {r} : modem'.sub[c] = modem.sub[c]
    PROVE  Latest'
<1>1. CASE modem'.sub = modem.sub
  BY <1>1 DEF Latest
<1>2. CASE \E r \in Channels : lines[r] = << >> /\ \A c \in Channels \ {r} : modem'.sub[c] = modem.sub[c]
  <2>1. PICK r \in Channels : lines[r] = << >> /\ \A c \in Channels \ {r} : modem'.sub[c] = modem.sub[c]
    BY <1>2
  <2>2. \A i \in 1..Len(lines[r]) : FALSE
    <3>1. Len(lines[r]) = 0
      BY <2>1
    <3> QED BY <3>1
  <2> QED BY <2>1, <2>2 DEF Latest
<1> QED BY <1>1, <1>2

-----------------------------------------------------------------------------
(***************************************************************************)
(* The steps, as registration sees them.                                   *)
(***************************************************************************)
LEMMA SubscribeModem ==
    ASSUME TypeInv, NEW r \in Runners, NEW kinds, NEW on, Subscribe(r, kinds, on)
    PROVE  /\ modem'.reg = modem.reg /\ modem'.cell = modem.cell
           /\ \/ modem'.sub = modem.sub
              \/ lines[r] = << >> /\ \A s \in Channels \ {r} : modem'.sub[s] = modem.sub[s]
<1>1. modem \in Modems
  BY DEF TypeInv, ModemTypes
<1>2. CASE modem' = [modem EXCEPT !.sub[r] = IF on THEN @ \cup kinds ELSE @ \ kinds] /\ lines[r] = << >>
  <2>1. modem'.reg = modem.reg /\ modem'.cell = modem.cell
    BY <1>1, <1>2 DEF Modems
  <2> QED BY <1>2, <2>1, SubscribeEffect
<1>3. CASE modem' = modem
  BY <1>3
<1> QED BY <1>2, <1>3 DEF Subscribe, Answered

LEMMA RunnerModem ==
    ASSUME Base, NEW r \in Runners, RunnerStep(r)
    PROVE  /\ lines' = lines /\ readerPc' = readerPc /\ radio' = radio
           /\ modem'.reg = modem.reg /\ modem'.cell = modem.cell
           /\ \/ modem'.sub = modem.sub
              \/ \E s \in Channels : lines[s] = << >>
                                     /\ \A c \in Channels \ {s} : modem'.sub[c] = modem.sub[c]
<1>1. lines' = lines /\ readerPc' = readerPc /\ radio' = radio
  BY DEF RunnerStep, RegistrationStep, RequestLocks, RequestSubscribes, RequestQueries,
         RequestAsksReason, RequestWrites, RequestAnswers, RequestEnds, requestScreenState,
         requestOperator, requestSetNetworkSelectionAutomatic, requestSetNetworkSelectionManual,
         pollFastDormancy, onSIMReady, requestSignalStrength, setScreenState, Unlock,
         pollOperatorSelected, pollSignalStrength, Runs
<1>2. CASE RegistrationStep
  <2>1. modem' = modem \/ \E kinds, on : Subscribe("normal", kinds, on)
    BY <1>2 DEF RegistrationStep, RequestLocks, RequestSubscribes, RequestQueries, RequestAsksReason,
                RequestWrites, RequestAnswers, RequestEnds
  <2> QED BY <1>1, <2>1, SubscribeModem DEF Base, Runners, Channels
<1>3. CASE onSIMReady \/ setScreenState(r)
  <2>1. modem' = modem \/ \E s \in Runners : \E kinds, on : Subscribe(s, kinds, on)
    BY <1>3 DEF onSIMReady, setScreenState, Runners
  <2> QED BY <1>1, <2>1, SubscribeModem DEF Base, Channels
<1>4. CASE ~RegistrationStep /\ ~onSIMReady /\ ~setScreenState(r)
  <2>1. modem' = modem \/ \E mode : modem' = [modem EXCEPT !.mode = mode]
    BY <1>4 DEF RunnerStep, requestScreenState, requestOperator, requestSetNetworkSelectionAutomatic,
                SelectionAsksMode, SelectionAsksRegistration, SelectionRestarts, SelectionEnqueues,
                requestSetNetworkSelectionManual, pollFastDormancy, requestSignalStrength,
                pollSignalStrength, Unlock, pollOperatorSelected
  <2> QED BY <1>1, <2>1 DEF Base, TypeInv, ModemTypes, Modems
<1> QED BY <1>2, <1>3, <1>4

LEMMA InformsKept ==
    ASSUME Base, InformsOf, [Next]_vars
    PROVE  InformsOf'
<1>1. CASE ModemStep
  <2>1. readerPc' = readerPc
    BY <1>1 DEF ModemStep, RegistrationChanges, CellChanges, SimChanges, CapabilityChanges,
                SignalChanges, startPollFastDormancy, PacketReceived, Change
  <2>2. lines' = lines \/ \A c \in Channels : \E new : Grows(c, new)
    BY <1>1, ModemClasses, ChangeGrows, OtherLines DEF Base
  <2>3. \A c \in Channels : lines[c] # << >> => lines'[c] # << >>
    <3> SUFFICES ASSUME NEW c \in Channels, lines[c] # << >>, Len(lines'[c]) >= Len(lines[c]),
                        lines'[c] \in Seq(Lines)
                 PROVE  lines'[c] # << >>
      BY <2>2 DEF Grows
    <3>1. lines[c] \in Seq(Lines)
      BY DEF Base, TypeInv, ModemTypes
    <3> QED BY <3>1
  <2> QED BY <2>1, <2>3 DEF InformsOf
<1>2. ASSUME NEW c \in Channels, ReaderStep(c) PROVE InformsOf'
  <2>1. PICK at, kinds, to : Handles(c, at, kinds) /\ Proceeds(c, to)
    BY <1>2 DEF ReaderStep, onRegistrationStatusChanged, onNetworkCapabilityChanged,
                onNetworkStatusChanged, onSignalStrengthChanged
  <2>2. /\ \A e \in Channels \ {c} : lines'[e] = lines[e] /\ readerPc'[e] = readerPc[e]
        /\ readerPc'[c] = to /\ (to # "idle" => lines' = lines) /\ lines[c] # << >>
    BY <2>1, HandlingKeeps DEF Base, Handles
  <2> QED BY <2>2 DEF InformsOf
<1>3. CASE FrameworkStep \/ UNCHANGED vars \/ \E r \in Runners : RunnerStep(r)
  <2>1. readerPc' = readerPc /\ lines' = lines
    BY <1>3, RunnerModem DEF FrameworkStep, Request, vars
  <2> QED BY <2>1 DEF InformsOf
<1> QED BY <1>1, <1>2, <1>3 DEF Next, Quiescent

LEMMA FactsKept ==
    ASSUME Base, ModemFacts, [Next]_vars
    PROVE  ModemFacts'
<1>1. CASE ModemStep
  <2>1. ModemKnown'
    BY <1>1, ModemKnownKept DEF ModemFacts
  <2>2. modem'.sub = modem.sub
    BY <1>1, ModemUnapplied DEF Unapplied
  <2>3. CASE \E reg \in [Domains -> Regs], changed \in SUBSET Domains :
                /\ RegistrationBecomes(reg, changed) /\ modem'.reg = reg
                /\ \A d \in Domains \ changed : reg[d] = modem.reg[d]
    BY <2>1, <2>2, <2>3, InformsKept, ChangeKeepsLatest DEF ModemFacts
  <2>4. CASE CapabilityChanges \/ SignalChanges
    <3>1. modem'.reg = modem.reg
      BY <2>4 DEF CapabilityChanges, SignalChanges, Base, TypeInv, ModemTypes, Modems
    <3> QED BY <2>1, <2>2, <2>4, <3>1, InformsKept, OtherLines, GrowingKeepsLatest DEF ModemFacts, Base
  <2>5. CASE UNCHANGED <<lines, fw>> /\ modem'.reg = modem.reg
    BY <2>1, <2>2, <2>5, InformsKept DEF ModemFacts, Latest
  <2> QED BY <1>1, <2>3, <2>4, <2>5, ModemClasses
<1>2. ASSUME NEW r \in Runners, RunnerStep(r) PROVE ModemFacts'
  <2>1. Latest'
    BY <1>2, RunnerModem, SubscribeKeepsLatest DEF ModemFacts
  <2>2. ModemKnown'
    BY <1>2, RunnerModem DEF ModemFacts, ModemKnown
  <2> QED BY <2>1, <2>2, InformsKept DEF ModemFacts
<1>3. ASSUME NEW c \in Channels, ReaderStep(c) PROVE ModemFacts'
  <2>1. /\ modem' = modem /\ radio' = radio /\ lines[c] # << >>
        /\ lines' = lines \/ lines' = [lines EXCEPT ![c] = Tail(@)]
    BY <1>3 DEF ReaderStep, onRegistrationStatusChanged, onNetworkCapabilityChanged,
                onNetworkStatusChanged, onSignalStrengthChanged, Handles, Proceeds
  <2>2. Latest'
    BY <2>1, ReaderKeepsLatest DEF ModemFacts
  <2> QED BY <2>1, <2>2, InformsKept DEF ModemFacts, ModemKnown
<1>4. CASE FrameworkStep \/ UNCHANGED vars
  <2>1. modem' = modem /\ radio' = radio /\ lines' = lines
    BY <1>4 DEF FrameworkStep, Request, vars
  <2> QED BY <2>1, InformsKept DEF ModemFacts, ModemKnown, Latest
<1> QED BY <1>1, <1>2, <1>3, <1>4 DEF Next, Quiescent

LEMMA FactsInit == Init => ModemFacts
<1> SUFFICES ASSUME Init PROVE ModemFacts
  OBVIOUS
<1>1. \A d \in Domains : modem.reg[d] = [stat |-> "none", cell |-> NoCell]
  BY DEF Init
<1>2. \A c \in Channels : Len(lines[c]) = 0 /\ readerPc[c] = "idle"
  BY DEF Init
<1>3. ModemKnown
  BY <1>1 DEF ModemKnown, WellFormed, Home
<1>4. Latest
  <2> SUFFICES ASSUME NEW c \in Channels, NEW i \in 1..Len(lines[c]) PROVE FALSE
    BY DEF Latest
  <2> QED BY <1>2
<1> QED BY <1>2, <1>3, <1>4 DEF ModemFacts, InformsOf

-----------------------------------------------------------------------------
\* The registrations of domain d that the reports which wait bring; one that was
\* written and of which the framework is only to be told is not one of them.
Awaited(d) ==
    {reg \in Regs : \E c \in Channels : \E i \in 1..Len(lines[c]) :
        /\ i # 1 \/ readerPc[c] # "inform"
        /\ lines[c][i].kind = d /\ lines[c][i].val = reg}

\* The framework is about to be told.
Informing == \E c \in Channels : readerPc[c] = "inform"

\* Where the state of a request, or of the operator, is on its way.
Minding == {"lock", "subscribe", "query", "reason", "write", "answer", "operator", "cops"}

\* A step that leaves registration, and what is known of it, alone.
Steady ==
    /\ UNCHANGED <<s_reg, s_reg_change, old_response>>
    /\ modem'.reg = modem.reg /\ modem'.cell = modem.cell
    /\ \A d \in Domains : Awaited(d) \subseteq Awaited(d)'
    /\ Informing => Informing'
    /\ fw'.fresh = fw.fresh /\ fw'.told = fw.told /\ fw'.reg = fw.reg /\ fw'.operator = fw.operator
    /\ fw.stale \subseteq fw'.stale
    /\ "operator" \in fw.unsure => "operator" \in fw'.unsure
    /\ \/ /\ pc'["normal"] = pc["normal"]
          /\ req'["normal"].kind = req["normal"].kind /\ req'["normal"].reg = req["normal"].reg
       \/ pc["normal"] \notin Minding /\ pc'["normal"] \notin Minding

LEMMA GrowingAwaits ==
    ASSUME TypeInv, readerPc' = readerPc, \A c \in Channels : \E new : Grows(c, new)
    PROVE  (\A d \in Domains : Awaited(d) \subseteq Awaited(d)') /\ (Informing => Informing')
<1>1. Informing => Informing'
  BY DEF Informing
<1>2. ASSUME NEW d \in Domains, NEW reg \in Awaited(d) PROVE reg \in Awaited(d)'
  <2>0. PICK c \in Channels : \E i \in 1..Len(lines[c]) :
            /\ i # 1 \/ readerPc[c] # "inform"
            /\ lines[c][i].kind = d /\ lines[c][i].val = reg
    BY <1>2 DEF Awaited
  <2>1. PICK i \in 1..Len(lines[c]) :
            /\ i # 1 \/ readerPc[c] # "inform"
            /\ lines[c][i].kind = d /\ lines[c][i].val = reg
    BY <2>0
  <2>2. i \in 1..Len(lines'[c]) /\ lines'[c][i] = lines[c][i]
    <3>1. Len(lines[c]) \in Nat
      BY DEF TypeInv, ModemTypes
    <3> QED BY <3>1 DEF Grows
  <2> QED BY <1>2, <2>1, <2>2 DEF Awaited
<1> QED BY <1>1, <1>2

\* The effect of a change of registration.
Becomes(reg, changed) ==
    /\ UNCHANGED <<s_reg, s_reg_change, old_response, pc, req, readerPc>>
    /\ modem'.reg = reg /\ \A d \in Domains \ changed : reg[d] = modem.reg[d]
    /\ \A d \in Domains : Awaited(d) \subseteq Awaited(d)'
    /\ \A d \in changed : Subscribed(d) => reg[d] \in Awaited(d)'
    /\ fw'.fresh = (fw.fresh \ changed) \cup {d \in changed : Subscribed(d)}
    /\ \/ (\A d \in changed : Subscribed(d)) /\ fw'.told = fw.told /\ fw'.unsure = fw.unsure
       \/ fw'.told = {} /\ "operator" \in fw'.unsure
    /\ fw'.reg = fw.reg /\ fw'.operator = fw.operator /\ fw'.stale = fw.stale

LEMMA ChangeBecomes ==
    ASSUME Base, InformsOf, NEW reg \in [Domains -> Regs], NEW changed \in SUBSET Domains,
           RegistrationBecomes(reg, changed), modem'.reg = reg,
           \A d \in Domains \ changed : reg[d] = modem.reg[d],
           RegistrationChanges \/ CellChanges \/ SimChanges
    PROVE  Becomes(reg, changed)
<1>1. UNCHANGED <<s_reg, s_reg_change, old_response, pc, req, readerPc>>
  BY DEF RegistrationChanges, CellChanges, SimChanges, Change
<1>2. \A c \in Channels :
          Grows(c, {Report("e2reg", StatusReport(reg))}
                       \cup {Report(e, reg[e]) : e \in changed \cap modem.sub[c]})
  BY ChangeGrows DEF Base
<1>3. \A d \in Domains : Awaited(d) \subseteq Awaited(d)'
  BY <1>1, <1>2, GrowingAwaits DEF Base
<1>4. ASSUME NEW d \in changed, Subscribed(d) PROVE reg[d] \in Awaited(d)'
  <2>1. PICK c \in Channels : d \in modem.sub[c]
    BY <1>4 DEF Subscribed
  <2>2. Report(d, reg[d]).kind = d /\ Report(d, reg[d]).val = reg[d] /\ d \in Domains /\ reg[d] \in Regs
    BY DEF Report
  <2>3. PICK i \in 1..Len(lines'[c]) : i > Len(lines[c]) /\ lines'[c][i] = Report(d, reg[d])
    BY <1>2, <2>1, <2>2 DEF Grows
  <2>4. i # 1 \/ readerPc'[c] # "inform"
    <3>1. readerPc[c] = "inform" => lines[c] # << >>
      BY DEF InformsOf
    <3>2. lines[c] \in Seq(Lines)
      BY DEF Base, TypeInv, ModemTypes
    <3>3. lines[c] # << >> => Len(lines[c]) \in Nat /\ Len(lines[c]) > 0
      BY <3>2
    <3> QED BY <1>1, <2>3, <3>1, <3>3
  <2> QED BY <2>2, <2>3, <2>4 DEF Awaited
<1>5. /\ fw'.fresh = (fw.fresh \ changed) \cup {d \in changed : Subscribed(d)}
      /\ \/ (\A d \in changed : Subscribed(d)) /\ fw'.told = fw.told /\ fw'.unsure = fw.unsure
         \/ fw'.told = {} /\ "operator" \in fw'.unsure
      /\ fw'.reg = fw.reg /\ fw'.operator = fw.operator /\ fw'.stale = fw.stale
  <2>1. fw \in Knowledge /\ Unreported \in Knowledge
    BY UnreportedTypes DEF Base, TypeInv, ModemTypes
  <2>2. /\ Unreported.told = {} /\ "operator" \in Unreported.unsure /\ Unreported.fresh = fw.fresh
        /\ Unreported.reg = fw.reg /\ Unreported.operator = fw.operator /\ Unreported.stale = fw.stale
    BY <2>1 DEF Knowledge, Unreported
  <2>3. \A old \in Knowledge : \A fresh :
            LET new == [old EXCEPT !.fresh = fresh]
            IN  /\ new.fresh = fresh /\ new.told = old.told /\ new.unsure = old.unsure
                /\ new.reg = old.reg /\ new.operator = old.operator /\ new.stale = old.stale
    BY DEF Knowledge
  <2>4. CASE \A d \in changed : Subscribed(d)
    <3>1. fw' = [fw EXCEPT !.fresh = (fw.fresh \ changed) \cup {d \in changed : Subscribed(d)}]
      BY <2>4 DEF RegistrationBecomes
    <3> QED BY <2>1, <2>3, <2>4, <3>1
  <2>5. CASE ~(\A d \in changed : Subscribed(d))
    <3>1. fw' = [Unreported EXCEPT !.fresh = (Unreported.fresh \ changed) \cup {d \in changed : Subscribed(d)}]
      BY <2>5 DEF RegistrationBecomes
    <3> QED BY <2>1, <2>2, <2>3, <3>1
  <2> QED BY <2>4, <2>5
<1> QED BY <1>1, <1>3, <1>4, <1>5 DEF Becomes

\* A report is written to the cache.
Applies(d, reg) ==
    /\ s_reg' = [s_reg EXCEPT ![d] = reg]
    /\ UNCHANGED <<s_reg_change, old_response, pc, req, radio, modem>>
    /\ \A e \in Domains : Awaited(e) \subseteq Awaited(e)' \cup (IF e = d THEN {reg} ELSE {})
    /\ \/ Updates(d, reg) /\ Informing' /\ fw' = fw
       \/ ~Updates(d, reg) /\ (Informing => Informing') /\ fw' = TellsNothingOf(d, reg)
    /\ reg \in Regs /\ WellFormed(reg)
    /\ reg = modem.reg[d] \/ modem.reg[d] \in Awaited(d)'

\* The framework is told of a report.
Tells(d, reg) ==
    /\ UNCHANGED <<s_reg, old_response, pc, req, radio, modem>>
    /\ s_reg_change' = 1
    /\ \A e \in Domains : Awaited(e) \subseteq Awaited(e)'
    /\ fw' = TellsOf(d, reg)
    /\ WellFormed(reg)

\* The reports behind the one that is handled still wait.
LEMMA HandlingLeaves ==
    ASSUME TypeInv, NEW c \in Channels, NEW at, NEW kinds, Handles(c, at, kinds), NEW to, Proceeds(c, to),
           NEW i \in 1..Len(lines[c]), i # 1, NEW d \in Domains, lines[c][i].kind = d
    PROVE  lines[c][i].val \in Awaited(d)'
<1>1. lines[c] \in Seq(Lines) /\ lines[c] # << >>
  BY DEF TypeInv, ModemTypes, Handles
<1>2. lines[c][i] \in Lines
  BY <1>1
<1>3. lines[c][i].val \in Regs
  BY <1>2 DEF Lines, Domains
<1>4. CASE to # "idle"
  <2>1. lines' = lines
    BY <1>4, HandlingKeeps
  <2> QED BY <1>3, <2>1 DEF Awaited
<1>5. CASE to = "idle"
  <2>1. lines'[c] = Tail(lines[c]) /\ readerPc'[c] = "idle"
    BY <1>5, HandlingKeeps
  <2>2. i - 1 \in 1..Len(Tail(lines[c])) /\ Tail(lines[c])[i - 1] = lines[c][i]
    BY <1>1, TailOf
  <2>3. i - 1 \in 1..Len(lines'[c]) /\ lines'[c][i - 1] = lines[c][i]
    BY <2>1, <2>2
  <2> QED BY <1>3, <2>1, <2>3 DEF Awaited
<1> QED BY <1>4, <1>5

LEMMA HandlingAwaits ==
    ASSUME TypeInv, NEW c \in Channels, NEW at, NEW kinds, Handles(c, at, kinds), NEW to, Proceeds(c, to),
           NEW d \in Domains, NEW reg \in Awaited(d), reg \notin Awaited(d)'
    PROVE  at # "inform" /\ Head(lines[c]).kind = d /\ Head(lines[c]).val = reg
<1>1. PICK e \in Channels : \E i \in 1..Len(lines[e]) :
          /\ i # 1 \/ readerPc[e] # "inform"
          /\ lines[e][i].kind = d /\ lines[e][i].val = reg
  BY DEF Awaited
<1>2. PICK i \in 1..Len(lines[e]) :
          /\ i # 1 \/ readerPc[e] # "inform"
          /\ lines[e][i].kind = d /\ lines[e][i].val = reg
  BY <1>1
<1>3. e = c
  <2> SUFFICES ASSUME e # c PROVE FALSE
    OBVIOUS
  <2>1. lines'[e] = lines[e] /\ readerPc'[e] = readerPc[e]
    BY HandlingKeeps
  <2> QED BY <1>2, <2>1 DEF Awaited
<1>4. i = 1
  BY <1>2, <1>3, HandlingLeaves
<1>5. lines[c] \in Seq(Lines) /\ lines[c] # << >>
  BY DEF TypeInv, ModemTypes, Handles
<1> QED BY <1>2, <1>3, <1>4, <1>5 DEF Handles

LEMMA HandlingInforms ==
    ASSUME TypeInv, NEW c \in Channels, NEW at, NEW kinds, Handles(c, at, kinds), NEW to, Proceeds(c, to)
    PROVE  /\ at # "inform" => (Informing => Informing')
           /\ to = "inform" => Informing'
  BY HandlingKeeps DEF Informing, Handles

LEMMA RegistrationHandled ==
    ASSUME Base, ModemFacts, NEW c \in Channels, onRegistrationStatusChanged(c)
    PROVE  \E d \in Domains, reg \in Regs : Applies(d, reg) \/ Tells(d, reg)
<1>1. PICK at, to : Handles(c, at, Domains) /\ Proceeds(c, to)
  BY DEF onRegistrationStatusChanged
<1>2. PICK d \in Domains, reg \in Regs : Head(lines[c]).kind = d /\ Head(lines[c]).val = reg
  BY <1>1, HandledLine DEF Base
<1>3. lines[c] \in Seq(Lines) /\ lines[c] # << >> /\ d \in Domains /\ reg \in Regs
  BY <1>1, HandledLine DEF Base
<1>4. 1 \in 1..Len(lines[c]) /\ lines[c][1].kind = d /\ lines[c][1].val = reg
  BY <1>2, <1>3
<1>5. UNCHANGED <<old_response, pc, req, radio, modem>>
  BY DEF onRegistrationStatusChanged, Handles
<1>6. /\ WellFormed(reg)
      /\ \/ reg = modem.reg[d]
         \/ \E j \in 1..Len(lines[c]) : j > 1 /\ lines[c][j].kind = d /\ lines[c][j].val = modem.reg[d]
  BY <1>3, <1>4 DEF ModemFacts, Latest
<1>7. reg = modem.reg[d] \/ modem.reg[d] \in Awaited(d)'
  <2>1. ASSUME NEW j \in 1..Len(lines[c]), j > 1, lines[c][j].kind = d, lines[c][j].val = modem.reg[d]
        PROVE  modem.reg[d] \in Awaited(d)'
    <3>1. j # 1
      BY <2>1
    <3>2. lines[c][j].val \in Awaited(d)'
      BY <1>1, <1>3, <2>1, <3>1, HandlingLeaves DEF Base
    <3> QED BY <2>1, <3>2
  <2> QED BY <1>6, <2>1
<1>8. CASE Handles(c, "idle", Domains)
  <2>1. /\ s_reg' = [s_reg EXCEPT ![d] = reg] /\ s_reg_change' = s_reg_change
        /\ Proceeds(c, IF Updates(d, reg) THEN "inform" ELSE "idle")
        /\ fw' = IF Updates(d, reg) THEN fw ELSE TellsNothingOf(d, reg)
    BY <1>2, <1>8 DEF onRegistrationStatusChanged, Handles
  <2>2. \A e \in Domains : Awaited(e) \subseteq Awaited(e)' \cup (IF e = d THEN {reg} ELSE {})
    BY <1>2, <1>8, <2>1, HandlingAwaits DEF Base
  <2>3. /\ Updates(d, reg) => Informing'
        /\ Informing => Informing'
    BY <1>8, <2>1, HandlingInforms DEF Base
  <2>4. Applies(d, reg)
    BY <1>3, <1>5, <1>6, <1>7, <2>1, <2>2, <2>3 DEF Applies
  <2> QED BY <1>3, <2>4
<1>9. CASE Handles(c, "inform", Domains)
  <2>1. s_reg' = s_reg /\ s_reg_change' = 1 /\ Proceeds(c, "idle") /\ fw' = TellsOf(d, reg)
    BY <1>2, <1>9 DEF onRegistrationStatusChanged, Handles
  <2>2. \A e \in Domains : Awaited(e) \subseteq Awaited(e)'
    BY <1>9, <2>1, HandlingAwaits DEF Base
  <2>3. Tells(d, reg)
    BY <1>5, <1>6, <2>1, <2>2 DEF Tells
  <2> QED BY <1>3, <2>3
<1> QED BY <1>8, <1>9 DEF onRegistrationStatusChanged

LEMMA OthersHandled ==
    ASSUME Base, NEW c \in Channels,
           onNetworkCapabilityChanged(c) \/ onNetworkStatusChanged(c) \/ onSignalStrengthChanged(c)
    PROVE  Steady
<1>1. PICK at \in {"idle", "parse", "raise"}, kinds \in {{"erinfo"}, {"e2reg"}, {"signal"}}, to \in {"idle", "parse", "raise"} :
          Handles(c, at, kinds) /\ Proceeds(c, to)
  <2>1. CASE onNetworkCapabilityChanged(c)
    BY <2>1 DEF onNetworkCapabilityChanged
  <2>2. CASE onNetworkStatusChanged(c)
    BY <2>2 DEF onNetworkStatusChanged
  <2>3. CASE onSignalStrengthChanged(c)
    BY <2>3 DEF onSignalStrengthChanged
  <2> QED BY <2>1, <2>2, <2>3
<1>2. UNCHANGED <<s_reg, s_reg_change, old_response, pc, req, radio, modem>>
  BY DEF onNetworkCapabilityChanged, onNetworkStatusChanged, onSignalStrengthChanged, Handles
<1>3. Head(lines[c]).kind \notin Domains
  BY <1>1 DEF Handles, Domains
<1>4. \A d \in Domains : Awaited(d) \subseteq Awaited(d)'
  BY <1>1, <1>3, HandlingAwaits DEF Base
<1>5. Informing => Informing'
  BY <1>1, HandlingInforms DEF Base
<1>6. fw' = fw \/ fw' = NetworkStateChanged
  BY DEF onNetworkCapabilityChanged, onNetworkStatusChanged, onSignalStrengthChanged
<1>7. /\ fw'.fresh = fw.fresh /\ fw'.told = fw.told /\ fw'.reg = fw.reg /\ fw'.operator = fw.operator
      /\ fw.stale \subseteq fw'.stale /\ fw'.unsure = fw.unsure
  BY <1>6 DEF NetworkStateChanged, Base, TypeInv, ModemTypes, Knowledge
<1> QED BY <1>2, <1>4, <1>5, <1>7 DEF Steady

\* A step of the modem, as registration sees it.
LEMMA ModemSeen ==
    ASSUME Base, ModemFacts, ModemStep
    PROVE  \/ Steady
           \/ \E reg \in [Domains -> Regs], changed \in SUBSET Domains : Becomes(reg, changed)
<1>1. CASE \E reg \in [Domains -> Regs], changed \in SUBSET Domains :
              /\ RegistrationBecomes(reg, changed) /\ modem'.reg = reg
              /\ \A d \in Domains \ changed : reg[d] = modem.reg[d]
              /\ RegistrationChanges \/ CellChanges \/ SimChanges
  BY <1>1, ChangeBecomes DEF ModemFacts
<1>2. UNCHANGED <<s_reg, s_reg_change, old_response, pc, req, readerPc>>
  BY DEF ModemStep, RegistrationChanges, CellChanges, SimChanges, CapabilityChanges,
         SignalChanges, startPollFastDormancy, PacketReceived, Change
<1>3. CASE CapabilityChanges \/ SignalChanges
  <2>1. (\A d \in Domains : Awaited(d) \subseteq Awaited(d)') /\ (Informing => Informing')
    BY <1>2, <1>3, OtherLines, GrowingAwaits DEF Base
  <2>2. modem'.reg = modem.reg /\ modem'.cell = modem.cell
    BY <1>3 DEF CapabilityChanges, SignalChanges, Base, TypeInv, ModemTypes, Modems
  <2>3. /\ fw'.fresh = fw.fresh /\ fw'.told = fw.told /\ fw'.reg = fw.reg /\ fw'.operator = fw.operator
        /\ fw'.stale = fw.stale /\ ("operator" \in fw.unsure => "operator" \in fw'.unsure)
    BY <1>3 DEF CapabilityChanges, SignalChanges, Base, TypeInv, ModemTypes, Knowledge
  <2> QED BY <1>2, <2>1, <2>2, <2>3 DEF Steady
<1>4. CASE UNCHANGED <<lines, fw>> /\ modem'.reg = modem.reg /\ modem'.cell = modem.cell
  BY <1>2, <1>4 DEF Steady, Awaited, Informing
<1> QED BY <1>1, <1>3, <1>4, ModemClasses

\* What a runner leaves alone.
LEMMA RunnerSeen ==
    ASSUME Base, NEW r \in Runners, RunnerStep(r)
    PROVE  /\ \A d \in Domains : Awaited(d)' = Awaited(d)
           /\ Informing' = Informing
           /\ modem'.reg = modem.reg /\ modem'.cell = modem.cell /\ radio' = radio
  BY RunnerModem DEF Awaited, Informing

\* A request of the registration of a domain was made, and nothing written yet.
Querying == {"lock", "subscribe", "query", "reason", "write"}

\* What the framework was told, but for what it may rely on.
SameKnowledge ==
    /\ fw'.fresh = fw.fresh /\ fw'.told = fw.told /\ fw'.reg = fw.reg /\ fw'.operator = fw.operator
    /\ fw'.stale = fw.stale
    /\ "operator" \in fw.unsure <=> "operator" \in fw'.unsure

SameCache == UNCHANGED <<s_reg, s_reg_change, old_response>>

\* A request goes on, answers what is cached, or nothing without a SIM, or fails.
GoesOn(d) ==
    /\ SameCache /\ req'["normal"].kind = d /\ pc["normal"] \in Querying
    /\ \/ pc'["normal"] \in Querying /\ SameKnowledge
       \/ /\ pc'["normal"] = "answer" /\ SameKnowledge
          /\ req'["normal"].reg = s_reg[d]
       \/ /\ pc'["normal"] = "answer" /\ SameKnowledge
          /\ radio # "SIM_READY" /\ req'["normal"].reg = [stat |-> "none", cell |-> NoCell]
       \/ pc'["normal"] = "end" /\ fw' = Fails(d)

Writes(d) ==
    /\ s_reg' = [s_reg EXCEPT ![d] = req["normal"].reg] /\ old_response' = old_response
    /\ s_reg_change' = IF s_reg[d] # req["normal"].reg THEN 1 ELSE s_reg_change
    /\ fw' = Overwritten(d, s_reg[d] # req["normal"].reg)
    /\ req' = req /\ pc["normal"] = "write" /\ pc'["normal"] = "answer"

Answers(d) ==
    /\ SameCache /\ req' = req /\ pc["normal"] = "answer" /\ pc'["normal"] = "end"
    /\ fw' = [fw EXCEPT !.reg[d] = req["normal"].reg]

LEMMA SubscribeKnowledge ==
    ASSUME TypeInv, NEW r \in Runners, NEW kinds \in SUBSET Subscriptions, NEW on, Subscribe(r, kinds, on)
    PROVE  SameKnowledge
<1>1. fw \in Knowledge /\ "operator" \notin kinds
  BY DEF TypeInv, ModemTypes, Subscriptions
<1> QED BY <1>1 DEF Subscribe, SameKnowledge, Knowledge

LEMMA RegistrationSeen ==
    ASSUME Base, RegistrationStep
    PROVE  \/ Steady
           \/ \E d \in Domains : req["normal"].kind = d /\ (GoesOn(d) \/ Writes(d) \/ Answers(d))
<1>1. PICK d \in Domains : /\ req["normal"].kind = d
                           /\ \/ RequestLocks(d) \/ RequestSubscribes(d) \/ RequestQueries(d)
                              \/ RequestAsksReason(d) \/ RequestWrites(d) \/ RequestAnswers(d)
                              \/ RequestEnds(d)
  BY DEF RegistrationStep
<1>2. /\ old_response' = old_response /\ "normal" \in Runners /\ {d} \in SUBSET Subscriptions
      /\ \A to \in RequestLabels : Goto("normal", to) => pc'["normal"] = to
  <2>1. "normal" \in Runners /\ {d} \in SUBSET Subscriptions
    BY DEF Runners, Subscriptions, Domains
  <2> QED BY <1>1, <2>1, PcStep DEF Base, RequestLocks, RequestSubscribes, RequestQueries,
             RequestAsksReason, RequestWrites, RequestAnswers, RequestEnds, RegistrationUnchanged
<1>3. {"answer", "subscribe", "query", "write", "reason", "end", "unlock"} \subseteq RequestLabels
  BY DEF RequestLabels
<1>4. \A reg : req' = [req EXCEPT !["normal"].reg = reg] =>
                  req'["normal"].reg = reg /\ req'["normal"].kind = d
  BY <1>1, <1>2 DEF Base, TypeInv, RunnerTypes
<1>5. fw' = fw => SameKnowledge
  BY DEF SameKnowledge
<1>6. CASE RequestLocks(d)
  <2>1. SameCache /\ fw' = fw /\ pc["normal"] = "lock"
    BY <1>2, <1>6 DEF RequestLocks, SameCache, At
  <2>2. CASE Goto("normal", "answer") /\ req' = [req EXCEPT !["normal"].reg = s_reg[d]]
    BY <1>1, <1>2, <1>3, <1>4, <1>5, <2>1, <2>2 DEF GoesOn, Querying
  <2>3. CASE Goto("normal", "subscribe") /\ req' = req
    BY <1>1, <1>2, <1>3, <1>5, <2>1, <2>3 DEF GoesOn, Querying
  <2> QED BY <1>6, <2>2, <2>3 DEF RequestLocks
<1>7. CASE RequestSubscribes(d)
  <2>1. SameKnowledge
    BY <1>2, <1>7, SubscribeKnowledge DEF RequestSubscribes, Base
  <2>2. SameCache /\ pc["normal"] = "subscribe" /\ pc'["normal"] = "query" /\ req' = req
    BY <1>2, <1>3, <1>7 DEF RequestSubscribes, SameCache, At
  <2> QED BY <1>1, <2>1, <2>2 DEF GoesOn, Querying
<1>8. CASE RequestQueries(d)
  <2>1. SameCache /\ pc["normal"] = "query"
    BY <1>2, <1>8 DEF RequestQueries, SameCache, At
  <2> DEFINE reg == IF radio = "SIM_READY" THEN modem.reg[d] ELSE [stat |-> "none", cell |-> NoCell]
  <2>2. CASE /\ req' = [req EXCEPT !["normal"].reg = reg] /\ fw' = fw
             /\ Goto("normal", CASE radio # "SIM_READY" -> "answer"
                                 [] radio = "SIM_READY" /\ reg.stat = "denied" -> "reason"
                                 [] OTHER -> "write")
    <3>1. req'["normal"].reg = reg /\ req'["normal"].kind = d
      BY <1>4, <2>2
    <3>2. CASE radio # "SIM_READY"
      BY <1>2, <1>3, <1>5, <2>1, <2>2, <3>1, <3>2 DEF GoesOn, Querying
    <3>3. CASE radio = "SIM_READY"
      <4>1. pc'["normal"] \in {"reason", "write"}
        BY <1>2, <1>3, <2>2, <3>3
      <4> QED BY <1>1, <1>5, <2>1, <2>2, <3>1, <4>1 DEF GoesOn, Querying
    <3> QED BY <3>2, <3>3
  <2>3. CASE Goto("normal", "end") /\ fw' = Fails(d) /\ req' = req
    BY <1>1, <1>2, <1>3, <2>1, <2>3 DEF GoesOn, Querying
  <2> QED BY <1>8, <2>2, <2>3 DEF RequestQueries
<1>9. CASE RequestAsksReason(d)
  <2>1. SameCache /\ pc["normal"] = "reason" /\ req' = req
    BY <1>2, <1>9 DEF RequestAsksReason, SameCache, At
  <2>2. \/ pc'["normal"] = "write" /\ fw' = fw
        \/ pc'["normal"] = "end" /\ fw' = Fails(d)
    BY <1>2, <1>3, <1>9 DEF RequestAsksReason
  <2> QED BY <1>1, <1>5, <2>1, <2>2 DEF GoesOn, Querying
<1>10. CASE RequestWrites(d)
  BY <1>1, <1>2, <1>3, <1>10 DEF RequestWrites, Writes, At
<1>11. CASE RequestAnswers(d)
  BY <1>1, <1>2, <1>3, <1>11 DEF RequestAnswers, Answers, SameCache, At
<1>12. CASE RequestEnds(d)
  <2>1. Subscribe("normal", {d}, FALSE) \/ fw' = fw
    BY <1>12 DEF RequestEnds
  <2>2. SameKnowledge
    BY <1>2, <1>5, <2>1, SubscribeKnowledge DEF Base
  <2>3. SameCache /\ pc["normal"] = "end" /\ pc'["normal"] = "unlock" /\ req' = req
    BY <1>2, <1>3, <1>12 DEF RequestEnds, SameCache, At
  <2>4. "normal" \in Runners /\ RunnerStep("normal")
    BY <1>2 DEF RunnerStep
  <2> QED BY <2>2, <2>3, <2>4, RunnerSeen DEF Steady, SameKnowledge, SameCache, Minding
<1> QED BY <1>1, <1>6, <1>7, <1>8, <1>9, <1>10, <1>11, <1>12

\* The modem, and what it sent, are left alone.
Elsewhere ==
    /\ \A d \in Domains : Awaited(d)' = Awaited(d)
    /\ Informing' = Informing
    /\ modem'.reg = modem.reg /\ modem'.cell = modem.cell /\ radio' = radio

\* A request is made, of the registration of domain d or of the operator.
Begins(kind) ==
    /\ SameCache /\ pc["normal"] = "idle"
    /\ pc'["normal"] = IF kind = "operator" THEN "operator" ELSE "lock"
    /\ req'["normal"].kind = kind
    /\ fw' = [fw EXCEPT !.stale = @ \ {kind}]

\* The selection writes a status that it asked for.
Scans(d) ==
    /\ s_reg' = [s_reg EXCEPT ![d].stat = req["normal"].reg.stat]
    /\ UNCHANGED <<s_reg_change, old_response>>
    /\ fw' = Overwritten(d, s_reg[d].stat # req["normal"].reg.stat)
    /\ pc["normal"] \notin Minding /\ pc'["normal"] \notin Minding

\* A request of the operator is answered from the cache.
AnswersOperator ==
    /\ SameCache /\ pc["normal"] = "operator" /\ pc'["normal"] = "idle"
    /\ \/ /\ \E d \in Domains : Home(s_reg[d])
          /\ s_reg_change = 0 /\ old_response # NoCell
          /\ fw' = [fw EXCEPT !.operator = old_response]
       \/ /\ \A d \in Domains : ~Home(s_reg[d])
          /\ fw' = [fw EXCEPT !.operator = NoCell]

AsksOperator ==
    /\ UNCHANGED <<s_reg, old_response>> /\ s_reg_change' = 0
    /\ pc["normal"] = "operator" /\ pc'["normal"] = "cops" /\ fw' = fw
    /\ \E d \in Domains : Home(s_reg[d])

ReadsOperator ==
    /\ UNCHANGED <<s_reg, s_reg_change>> /\ pc["normal"] = "cops" /\ pc'["normal"] = "cops read"
    /\ \/ /\ old_response' = IF radio = "SIM_READY" THEN Operator ELSE old_response
          /\ fw' = [fw EXCEPT !.operator = Operator]
       \/ old_response' = old_response /\ fw' = [fw EXCEPT !.unsure = @ \cup {"operator"}]

LEMMA FrameworkSeen ==
    ASSUME Base, FrameworkStep
    PROVE  Elsewhere /\ (Steady \/ \E kind \in Asked : Begins(kind))
<1>1. PICK kind \in RequestKinds, label \in RequestLabels :
          /\ Request(kind, label)
          /\ \/ kind \in Domains /\ label = "lock"
             \/ kind = "operator" /\ label = "operator"
             \/ kind = "strength" /\ label = "strength"
             \/ kind \notin Asked \cup {"strength"} /\ label \notin Minding
  BY DEF FrameworkStep, RequestKinds, RequestLabels, Domains, Asked, Minding
<1>2. /\ UNCHANGED <<lines, readerPc, modem, radio>> /\ SameCache
  BY <1>1 DEF Request, SameCache
<1>3. Elsewhere
  BY <1>2 DEF Elsewhere, Awaited, Informing
<1>4. fw \in Knowledge /\ fw' = [fw EXCEPT !.stale = @ \ {kind}] /\ fw.stale \subseteq Asked
  BY <1>1 DEF Request, Base, TypeInv, ModemTypes, Knowledge
<1>5. /\ fw'.fresh = fw.fresh /\ fw'.told = fw.told /\ fw'.reg = fw.reg /\ fw'.operator = fw.operator
      /\ fw'.unsure = fw.unsure /\ (kind \notin Asked => fw'.stale = fw.stale)
  BY <1>4 DEF Knowledge
<1>6. pc \in [Runners -> RequestLabels] /\ "normal" \in Runners
  BY DEF Base, TypeInv, RunnerTypes, Runners
<1>7. CASE kind = "strength"
  <2>1. pc'["normal"] = pc["normal"] /\ req'["normal"] = req["normal"]
    <3>1. pc' = [pc EXCEPT !["prio"] = label] /\ req' = [req EXCEPT !["prio"].kind = kind]
      BY <1>1, <1>7 DEF Request, Goto
    <3> QED BY <1>6, <3>1 DEF Base, TypeInv, RunnerTypes, Runners
  <2>2. kind \notin Asked
    BY <1>7 DEF Asked
  <2> QED BY <1>2, <1>3, <1>5, <2>1, <2>2 DEF Steady, Elsewhere, SameCache
<1>8. CASE kind # "strength"
  <2>1. pc' = [pc EXCEPT !["normal"] = label] /\ req' = [req EXCEPT !["normal"].kind = kind]
        /\ pc["normal"] = "idle"
    BY <1>1, <1>8 DEF Request, Goto, Idle, At
  <2>2. pc'["normal"] = label /\ req'["normal"].kind = kind
    BY <1>6, <2>1 DEF Base, TypeInv, RunnerTypes
  <2>3. CASE kind \in Asked
    BY <1>1, <1>2, <1>3, <1>4, <2>1, <2>2, <2>3 DEF Begins, Asked, Domains
  <2>4. CASE kind \notin Asked
    <3>1. label \notin Minding /\ "idle" \notin Minding
      BY <1>1, <1>8, <2>4 DEF Asked, Domains, Minding
    <3> QED BY <1>2, <1>3, <1>5, <2>1, <2>2, <2>4, <3>1 DEF Steady, Elsewhere, SameCache
  <2> QED BY <2>3, <2>4
<1> QED BY <1>7, <1>8

\* A step that neither writes the cache nor tells the framework of registration.
LEMMA QuietStep ==
    ASSUME Elsewhere, SameCache, SameKnowledge,
           \/ pc'["normal"] = pc["normal"] /\ req'["normal"] = req["normal"]
           \/ pc["normal"] \notin Minding /\ pc'["normal"] \notin Minding
    PROVE  Steady
  BY DEF Elsewhere, SameCache, SameKnowledge, Steady

LEMMA OperatorSeen ==
    ASSUME Base, requestOperator, Elsewhere
    PROVE  Steady \/ AnswersOperator \/ AsksOperator \/ ReadsOperator
<1>1. s_reg' = s_reg /\ "normal" \in Runners /\ {"cops", "idle", "cops read"} \subseteq RequestLabels
  BY DEF requestOperator, Runners, RequestLabels
<1>2. \A to \in RequestLabels : Goto("normal", to) => pc'["normal"] = to
  BY <1>1, PcStep DEF Base
<1>3. CASE At("normal", "operator")
  <2> DEFINE registered == \E d \in Domains : Home(s_reg[d])
             buffered == s_reg_change = 0 /\ old_response # NoCell
  <2>1. CASE registered /\ ~buffered
    <3>1. s_reg_change' = 0 /\ old_response' = old_response /\ fw' = fw /\ pc'["normal"] = "cops"
      BY <1>1, <1>2, <1>3, <2>1 DEF requestOperator, At, RegChangeAt
    <3> QED BY <1>1, <1>3, <2>1, <3>1 DEF AsksOperator, At
  <2>2. CASE ~(registered /\ ~buffered)
    <3>1. /\ s_reg_change' = s_reg_change /\ old_response' = old_response /\ pc'["normal"] = "idle"
          /\ fw' = [fw EXCEPT !.operator = IF registered THEN old_response ELSE NoCell]
      BY <1>1, <1>2, <1>3, <2>2 DEF requestOperator, At
    <3> QED BY <1>1, <1>3, <2>2, <3>1 DEF AnswersOperator, At, SameCache
  <2> QED BY <2>1, <2>2
<1>4. CASE At("normal", "cops")
  BY <1>1, <1>2, <1>4 DEF requestOperator, ReadsOperator, At
<1>5. CASE At("normal", "cops read")
  <2>1. s_reg_change' = s_reg_change /\ old_response' = old_response /\ fw' = fw /\ pc'["normal"] = "idle"
    BY <1>1, <1>2, <1>5 DEF requestOperator, At, RegChangeAt
  <2>2. "cops read" \notin Minding /\ "idle" \notin Minding
    BY DEF Minding
  <2> QED BY <1>1, <1>5, <2>1, <2>2, QuietStep DEF At, SameCache, SameKnowledge
<1> QED BY <1>3, <1>4, <1>5 DEF requestOperator

LEMMA SelectionSeen ==
    ASSUME Base, Elsewhere,
           requestSetNetworkSelectionAutomatic \/ requestSetNetworkSelectionManual
    PROVE  Steady \/ \E d \in Domains : Scans(d)
<1>1. UNCHANGED <<s_reg_change, old_response>> /\ "normal" \in Runners
  BY DEF requestSetNetworkSelectionAutomatic, requestSetNetworkSelectionManual, Runners
<1>2. /\ {"automatic", "scan cs", "scan ps", "scanned cs", "scanned ps", "cops=0", "enqueue",
          "manual", "idle"} \subseteq RequestLabels
      /\ {"automatic", "scan cs", "scan ps", "scanned cs", "scanned ps", "cops=0", "enqueue",
          "manual", "idle"} \cap Minding = {}
  BY DEF RequestLabels, Minding
<1>3. \A to \in RequestLabels : Goto("normal", to) => pc'["normal"] = to
  BY <1>1, PcStep DEF Base
<1>4. \A from, mode : \A to \in {"scan cs", "scan ps", "scanned cs", "scanned ps", "cops=0", "enqueue", "idle"} :
          Asks(from, to, mode) => pc["normal"] = from /\ pc'["normal"] \notin Minding
  BY <1>2, <1>3 DEF Asks, At
<1>5. CASE SelectionAsksMode \/ SelectionRestarts \/ SelectionEnqueues \/ requestSetNetworkSelectionManual
  <2>1. s_reg' = s_reg /\ fw' = fw
    BY <1>5 DEF SelectionAsksMode, SelectionRestarts, SelectionEnqueues, requestSetNetworkSelectionManual
  <2>2. pc["normal"] \notin Minding /\ pc'["normal"] \notin Minding
    <3>1. CASE SelectionAsksMode
      BY <1>2, <1>4, <3>1 DEF SelectionAsksMode
    <3>2. CASE SelectionRestarts
      BY <1>2, <1>4, <3>2 DEF SelectionRestarts
    <3>3. CASE SelectionEnqueues
      BY <1>2, <1>3, <3>3 DEF SelectionEnqueues, At
    <3>4. CASE requestSetNetworkSelectionManual
      BY <1>2, <1>4, <3>4 DEF requestSetNetworkSelectionManual
    <3> QED BY <1>5, <3>1, <3>2, <3>3, <3>4
  <2> QED BY <1>1, <2>1, <2>2, QuietStep DEF SameCache, SameKnowledge
<1>6. CASE SelectionAsksRegistration
  <2>1. ASSUME NEW d \in Domains,
               Asks(IF d = "cs" THEN "scan cs" ELSE "scan ps",
                    IF d = "cs" THEN "scanned cs" ELSE "scanned ps", s_cops_mode),
               s_reg' = s_reg, fw' = fw
        PROVE  Steady
    <3>1. pc["normal"] \notin Minding /\ pc'["normal"] \notin Minding
      BY <1>2, <1>4, <2>1
    <3> QED BY <1>1, <2>1, <3>1, QuietStep DEF SameCache, SameKnowledge
  <2>2. ASSUME NEW d \in Domains,
               At("normal", IF d = "cs" THEN "scanned cs" ELSE "scanned ps"),
               s_reg' = [s_reg EXCEPT ![d].stat = req["normal"].reg.stat],
               fw' = Overwritten(d, s_reg[d].stat # req["normal"].reg.stat),
               Goto("normal", CASE req["normal"].reg.stat = "none" -> "cops=0"
                                [] req["normal"].reg.stat # "none" /\ d = "cs" -> "scan ps"
                                [] OTHER -> "enqueue")
        PROVE  Scans(d)
    <3>1. pc["normal"] \notin Minding
      BY <1>2, <2>2 DEF At
    <3>2. pc'["normal"] \in {"cops=0", "scan ps", "enqueue"}
      BY <1>2, <1>3, <2>2
    <3> QED BY <1>1, <1>2, <2>2, <3>1, <3>2 DEF Scans
  <2> QED BY <1>6, <2>1, <2>2 DEF SelectionAsksRegistration
<1> QED BY <1>5, <1>6 DEF requestSetNetworkSelectionAutomatic

\* The steps of the prio runner, and those of the normal one that have nothing to
\* do with registration.
LEMMA OthersRun ==
    ASSUME Base, NEW r \in Runners, Elsewhere,
           \/ r = "normal" /\ (requestScreenState \/ pollFastDormancy)
           \/ r = "prio" /\ (onSIMReady \/ requestSignalStrength)
           \/ setScreenState(r) \/ pollSignalStrength(r) \/ Unlock(r) \/ pollOperatorSelected(r)
    PROVE  Steady
<1>1. SameCache
  BY DEF SameCache, requestScreenState, pollFastDormancy, onSIMReady, requestSignalStrength,
         setScreenState, pollSignalStrength, Unlock, pollOperatorSelected, ScreenUnchanged,
         RegistrationUnchanged
<1>2. SameKnowledge
  <2>1. fw \in Knowledge
    BY DEF Base, TypeInv, ModemTypes
  <2>2. \/ fw' = fw
        \/ \E s \in Runners, kinds \in SUBSET Subscriptions : \E on : Subscribe(s, kinds, on)
        \/ fw' = Strength(modem.level)
        \/ fw' = [fw EXCEPT !.unsure = @ \cup {"level"}]
    <3>1. {"e2reg"} \in SUBSET Subscriptions /\ {"cs"} \in SUBSET Subscriptions
          /\ {"ps"} \in SUBSET Subscriptions /\ {"signal"} \in SUBSET Subscriptions /\ "prio" \in Runners
      BY DEF Subscriptions, Runners, Domains
    <3>2. CASE onSIMReady \/ setScreenState(r)
      BY <3>1, <3>2 DEF onSIMReady, setScreenState
    <3>3. CASE ~onSIMReady /\ ~setScreenState(r)
      BY <3>3 DEF requestScreenState, pollFastDormancy, requestSignalStrength, pollSignalStrength,
                  getSignalStrength, Unlock, pollOperatorSelected
    <3> QED BY <3>2, <3>3
  <2>3. CASE fw' = fw
    BY <2>3 DEF SameKnowledge
  <2>4. CASE \E s \in Runners, kinds \in SUBSET Subscriptions : \E on : Subscribe(s, kinds, on)
    BY <2>4, SubscribeKnowledge DEF Base
  <2>5. CASE fw' = Strength(modem.level) \/ fw' = [fw EXCEPT !.unsure = @ \cup {"level"}]
    BY <2>1, <2>5 DEF Strength, Knowledge, SameKnowledge
  <2> QED BY <2>2, <2>3, <2>4, <2>5
<1>3. pc \in [Runners -> RequestLabels] /\ "normal" \in Runners
  BY DEF Base, TypeInv, RunnerTypes, Runners
<1>4. CASE r = "prio"
  <2>1. pc' = pc \/ \E label : pc' = [pc EXCEPT !["prio"] = label]
    BY <1>4 DEF onSIMReady, requestSignalStrength, setScreenState, pollSignalStrength, Unlock,
                pollOperatorSelected, Goto
  <2>2. req' = req \/ \E screen : req' = [req EXCEPT !["prio"].screen = screen]
    BY <1>4 DEF onSIMReady, requestSignalStrength, setScreenState, pollSignalStrength, Unlock,
                pollOperatorSelected, OperatorUnchanged
  <2>3. pc'["normal"] = pc["normal"] /\ req'["normal"] = req["normal"]
    BY <1>3, <2>1, <2>2 DEF Base, TypeInv, RunnerTypes
  <2> QED BY <1>1, <1>2, <2>3, QuietStep
<1>5. CASE r = "normal"
  <2> DEFINE labels == {"idle", "screen", "set cs", "set ps", "set poll", "set csq", "set told",
                        "set signal", "csq", "told", "unlock", "cops?", "efdorm"}
  <2>1. labels \subseteq RequestLabels /\ labels \cap Minding = {}
    BY DEF RequestLabels, Minding
  <2>2. pc["normal"] \in labels /\ (pc' = pc \/ \E to \in labels : Goto("normal", to))
    <3>1. CASE requestScreenState
      BY <3>1 DEF requestScreenState, At
    <3>2. CASE pollFastDormancy
      BY <3>2 DEF pollFastDormancy, Idle, At
    <3>3. CASE setScreenState(r)
      BY <1>5, <3>3 DEF setScreenState, At
    <3>4. CASE pollSignalStrength(r)
      BY <1>5, <3>4 DEF pollSignalStrength, At, Idle
    <3>5. CASE Unlock(r)
      BY <1>5, <3>5 DEF Unlock, At
    <3>6. CASE pollOperatorSelected(r)
      BY <1>5, <3>6 DEF pollOperatorSelected, At, Idle
    <3> QED BY <1>5, <3>1, <3>2, <3>3, <3>4, <3>5, <3>6
  <2>3. pc'["normal"] \notin Minding /\ pc["normal"] \notin Minding
    <3>1. \A to \in labels : Goto("normal", to) => pc'["normal"] \in labels
      BY <1>3, <2>1 DEF Goto
    <3> QED BY <2>1, <2>2, <3>1
  <2> QED BY <1>1, <1>2, <2>3, QuietStep
<1> QED BY <1>4, <1>5 DEF Runners

\* The request of registration of domain d does something.
RequestsOf(d) == req["normal"].kind = d /\ (GoesOn(d) \/ Writes(d) \/ Answers(d))

\* Every step of the program, as registration sees it.
LEMMA StepsSeen ==
    ASSUME Base, ModemFacts, [Next]_vars
    PROVE  \/ Steady
           \/ \E reg \in [Domains -> Regs], changed \in SUBSET Domains : Becomes(reg, changed)
           \/ \E d \in Domains, reg \in Regs : Applies(d, reg) \/ Tells(d, reg)
           \/ Elsewhere /\ \/ \E kind \in Asked : Begins(kind)
                           \/ \E d \in Domains : RequestsOf(d) \/ Scans(d)
                           \/ AnswersOperator \/ AsksOperator \/ ReadsOperator
<1>1. CASE FrameworkStep
  BY <1>1, FrameworkSeen
<1>2. CASE ModemStep
  BY <1>2, ModemSeen
<1>3. ASSUME NEW r \in Runners, RunnerStep(r)
      PROVE  \/ Steady
             \/ Elsewhere /\ \/ \E d \in Domains : RequestsOf(d) \/ Scans(d)
                             \/ AnswersOperator \/ AsksOperator \/ ReadsOperator
  <2>1. Elsewhere
    BY <1>3, RunnerSeen DEF Elsewhere
  <2>2. CASE RegistrationStep
    BY <2>1, <2>2, RegistrationSeen DEF RequestsOf
  <2>3. CASE requestOperator
    BY <2>1, <2>3, OperatorSeen
  <2>4. CASE requestSetNetworkSelectionAutomatic \/ requestSetNetworkSelectionManual
    BY <2>1, <2>4, SelectionSeen
  <2>5. CASE \/ r = "normal" /\ (requestScreenState \/ pollFastDormancy)
             \/ r = "prio" /\ (onSIMReady \/ requestSignalStrength)
             \/ setScreenState(r) \/ pollSignalStrength(r) \/ Unlock(r) \/ pollOperatorSelected(r)
    BY <2>1, <2>5, OthersRun
  <2> QED BY <1>3, <2>2, <2>3, <2>4, <2>5 DEF RunnerStep
<1>4. ASSUME NEW c \in Channels, ReaderStep(c)
      PROVE  \/ Steady
             \/ \E d \in Domains, reg \in Regs : Applies(d, reg) \/ Tells(d, reg)
  BY <1>4, RegistrationHandled, OthersHandled DEF ReaderStep
<1>5. CASE UNCHANGED vars
  BY <1>5 DEF vars, Steady, Awaited, Informing
<1> QED BY <1>1, <1>2, <1>3, <1>4, <1>5 DEF Next, Quiescent

-----------------------------------------------------------------------------
(***************************************************************************)
(* Registration: the cache follows the modem, the framework the cache.     *)
(***************************************************************************)
\* What is cached of a domain whose changes were reported is the registration of
\* the modem, or that waits in a report.
CacheFollows ==
    /\ \A d \in fw.fresh : s_reg[d] = modem.reg[d] \/ modem.reg[d] \in Awaited(d)
    /\ fw.told \subseteq fw.fresh
    /\ \A d \in fw.told : WellFormed(s_reg[d])

\* A registration that the framework is told of.
LEMMA RegField ==
    ASSUME NEW old \in Knowledge, NEW d \in Domains, NEW v
    PROVE  LET new == [old EXCEPT !.reg[d] = v]
           IN  /\ new.fresh = old.fresh /\ new.told = old.told /\ new.unsure = old.unsure
               /\ new.stale = old.stale /\ new.operator = old.operator
               /\ new.reg[d] = v /\ \A e \in Domains \ {d} : new.reg[e] = old.reg[e]
  BY DEF Knowledge

LEMMA TellsOfFields ==
    ASSUME TypeInv, NEW d \in Domains, NEW reg
    PROVE  LET new == TellsOf(d, reg)
           IN  /\ new.stale = Asked /\ new.fresh = fw.fresh /\ new.reg = fw.reg
               /\ new.operator = fw.operator /\ new.unsure = fw.unsure \ {"operator"}
               /\ \/ d \in fw.fresh /\ s_reg[d] = reg /\ new.told = fw.told \cup {d}
                  \/ new.told = fw.told
<1>1. fw \in Knowledge
  BY DEF TypeInv, ModemTypes
<1> QED BY <1>1 DEF TellsOf, NetworkStateChanged, Knowledge

LEMMA TellsNothingFields ==
    ASSUME TypeInv, NEW d \in Domains, NEW reg
    PROVE  LET new == TellsNothingOf(d, reg)
               hides == /\ s_reg[d].cell # reg.cell /\ s_reg[Other(d)].cell = reg.cell
                        /\ Other(d) \notin fw.told
           IN  /\ new.stale = fw.stale /\ new.fresh = fw.fresh /\ new.reg = fw.reg
               /\ new.operator = fw.operator
               /\ ~hides => new = fw
               /\ hides => new.told = fw.told \ {d} /\ new.unsure = fw.unsure \cup {"operator"}
<1>1. fw \in Knowledge
  BY DEF TypeInv, ModemTypes
<1> QED BY <1>1 DEF TellsNothingOf, Knowledge

LEMMA OverwrittenFields ==
    ASSUME TypeInv, NEW d \in Domains, NEW other \in BOOLEAN
    PROVE  LET new == Overwritten(d, other)
           IN  /\ new.stale = fw.stale /\ new.reg = fw.reg /\ new.operator = fw.operator
               /\ ~other => new = fw
               /\ other => /\ new.told = {} /\ new.fresh = fw.fresh \ {d}
                           /\ new.unsure = fw.unsure \cup {"operator"}
<1>1. fw \in Knowledge
  BY DEF TypeInv, ModemTypes
<1> QED BY <1>1 DEF Overwritten, Unreported, Knowledge

\* A request writes a domain as it was, or the framework may not rely on it.
LEMMA WritesSame ==
    ASSUME Base, NEW d \in Domains, Writes(d) \/ Scans(d)
    PROVE  /\ fw'.stale = fw.stale /\ fw'.reg = fw.reg /\ fw'.operator = fw.operator
           /\ \A e \in Domains \ {d} : s_reg'[e] = s_reg[e]
           /\ \/ s_reg' = s_reg /\ fw' = fw
              \/ /\ fw'.told = {} /\ fw'.fresh = fw.fresh \ {d}
                 /\ fw'.unsure = fw.unsure \cup {"operator"}
<1>1. s_reg \in [Domains -> Regs] /\ req["normal"].reg \in Regs
  BY DEF Base, TypeInv, CacheTypes, RunnerTypes, Runners
<1>2. CASE Writes(d)
  <2>1. s_reg' = [s_reg EXCEPT ![d] = req["normal"].reg]
        /\ fw' = Overwritten(d, s_reg[d] # req["normal"].reg)
    BY <1>2 DEF Writes
  <2>2. s_reg[d] = req["normal"].reg => s_reg' = s_reg
    BY <1>1, <2>1
  <2>3. (s_reg[d] # req["normal"].reg) \in BOOLEAN
    OBVIOUS
  <2> QED BY <1>1, <2>1, <2>2, <2>3, OverwrittenFields DEF Base
<1>3. CASE Scans(d)
  <2>1. s_reg' = [s_reg EXCEPT ![d].stat = req["normal"].reg.stat]
        /\ fw' = Overwritten(d, s_reg[d].stat # req["normal"].reg.stat)
    BY <1>3 DEF Scans
  <2>2. s_reg[d].stat = req["normal"].reg.stat => s_reg' = s_reg
    BY <1>1, <2>1 DEF Regs
  <2>3. (s_reg[d].stat # req["normal"].reg.stat) \in BOOLEAN
    OBVIOUS
  <2> QED BY <1>1, <2>1, <2>2, <2>3, OverwrittenFields DEF Base
<1> QED BY <1>2, <1>3

LEMMA FollowsKept ==
    ASSUME Base, ModemFacts, CacheFollows, [Next]_vars
    PROVE  CacheFollows'
<1>1. fw \in Knowledge /\ s_reg \in [Domains -> Regs] /\ fw.fresh \subseteq Domains
  BY DEF Base, TypeInv, CacheTypes, ModemTypes, Knowledge
<1>2. CASE Steady
  BY <1>1, <1>2 DEF Steady, CacheFollows
<1>3. ASSUME NEW reg \in [Domains -> Regs], NEW changed \in SUBSET Domains, Becomes(reg, changed)
      PROVE  CacheFollows'
  <2>1. s_reg' = s_reg /\ modem'.reg = reg
    BY <1>3 DEF Becomes
  <2>2. ASSUME NEW d \in fw'.fresh
        PROVE  s_reg'[d] = modem'.reg[d] \/ modem'.reg[d] \in Awaited(d)'
    <3>1. CASE d \in changed
      BY <1>3, <2>1, <2>2, <3>1 DEF Becomes
    <3>2. CASE d \notin changed
      <4>1. d \in fw.fresh /\ d \in Domains /\ reg[d] = modem.reg[d]
        BY <1>1, <1>3, <2>2, <3>2 DEF Becomes
      <4> QED BY <1>3, <2>1, <4>1 DEF Becomes, CacheFollows
    <3> QED BY <3>1, <3>2
  <2>3. fw'.told \subseteq fw.told /\ fw'.told \subseteq fw'.fresh
    BY <1>3 DEF Becomes, CacheFollows
  <2> QED BY <2>1, <2>2, <2>3 DEF CacheFollows
<1>4. ASSUME NEW d \in Domains, NEW reg \in Regs, Applies(d, reg)
      PROVE  CacheFollows'
  <2>1. fw'.fresh = fw.fresh /\ fw'.told \subseteq fw.told
    BY <1>4, TellsNothingFields DEF Applies, Base
  <2>2. /\ s_reg'[d] = reg /\ \A e \in Domains \ {d} : s_reg'[e] = s_reg[e] /\ Awaited(e) \subseteq Awaited(e)'
        /\ modem' = modem /\ WellFormed(reg)
        /\ reg = modem.reg[d] \/ modem.reg[d] \in Awaited(d)'
    BY <1>1, <1>4 DEF Applies
  <2> QED BY <1>1, <2>1, <2>2 DEF CacheFollows
<1>5. ASSUME NEW d \in Domains, NEW reg \in Regs, Tells(d, reg)
      PROVE  CacheFollows'
  <2>1. /\ fw'.fresh = fw.fresh
        /\ \/ d \in fw.fresh /\ s_reg[d] = reg /\ fw'.told = fw.told \cup {d}
           \/ fw'.told = fw.told
    <3>1. fw' = TellsOf(d, reg)
      BY <1>5 DEF Tells
    <3> QED BY <3>1, TellsOfFields DEF Base
  <2>2. s_reg' = s_reg /\ modem' = modem /\ WellFormed(reg)
        /\ \A e \in Domains : Awaited(e) \subseteq Awaited(e)'
    BY <1>5 DEF Tells
  <2> QED BY <1>1, <2>1, <2>2 DEF CacheFollows
<1>6. CASE Elsewhere /\ s_reg' = s_reg /\ fw'.fresh = fw.fresh /\ fw'.told = fw.told
  BY <1>1, <1>6 DEF Elsewhere, CacheFollows
<1>7. ASSUME NEW d \in Domains, Elsewhere, Writes(d) \/ Scans(d)
      PROVE  CacheFollows'
  <2>1. /\ \A e \in Domains \ {d} : s_reg'[e] = s_reg[e]
        /\ \/ s_reg' = s_reg /\ fw' = fw
           \/ fw'.told = {} /\ fw'.fresh = fw.fresh \ {d}
    BY <1>7, WritesSame
  <2> QED BY <1>1, <1>6, <1>7, <2>1 DEF Elsewhere, CacheFollows
<1>8. ASSUME \/ \E kind \in Asked : Begins(kind)
             \/ \E d \in Domains : GoesOn(d) \/ Answers(d)
             \/ AnswersOperator \/ AsksOperator \/ ReadsOperator
      PROVE  s_reg' = s_reg /\ fw'.fresh = fw.fresh /\ fw'.told = fw.told
  <2>1. s_reg' = s_reg
    BY <1>8 DEF Begins, GoesOn, Answers, AnswersOperator, AsksOperator, ReadsOperator, SameCache
  <2>2. \/ SameKnowledge \/ fw' = fw
        \/ \E v : fw' = [fw EXCEPT !.stale = v] \/ fw' = [fw EXCEPT !.operator = v]
                  \/ fw' = [fw EXCEPT !.unsure = v] \/ \E d \in Domains : fw' = [fw EXCEPT !.reg[d] = v]
    BY <1>8 DEF Begins, GoesOn, Fails, Answers, AnswersOperator, AsksOperator, ReadsOperator
  <2>3. fw'.fresh = fw.fresh /\ fw'.told = fw.told
    <3>1. CASE SameKnowledge \/ fw' = fw
      BY <3>1 DEF SameKnowledge
    <3>2. ASSUME NEW v, fw' = [fw EXCEPT !.stale = v] \/ fw' = [fw EXCEPT !.operator = v]
                        \/ fw' = [fw EXCEPT !.unsure = v]
          PROVE  fw'.fresh = fw.fresh /\ fw'.told = fw.told
      BY <1>1, <3>2 DEF Knowledge
    <3>3. ASSUME NEW v, NEW d \in Domains, fw' = [fw EXCEPT !.reg[d] = v]
          PROVE  fw'.fresh = fw.fresh /\ fw'.told = fw.told
      BY <1>1, <3>3, RegField
    <3> QED BY <2>2, <3>1, <3>2, <3>3
  <2> QED BY <2>1, <2>3
<1> QED BY <1>2, <1>3, <1>4, <1>5, <1>6, <1>7, <1>8, StepsSeen DEF RequestsOf

\* The framework is about to be told to ask for the status of domain d again.
Coming(d) == Informing \/ \E reg \in Awaited(d) : reg.stat # s_reg[d].stat

\* A request of domain d is on its way, or about to be answered.
Queried(d) == req["normal"].kind = d /\ pc["normal"] \in Querying
Answering(d) == req["normal"].kind = d /\ pc["normal"] = "answer"

\* The framework will ask for domain d, or knows what is cached of it.
KnowsStat(d) ==
    \/ d \in fw.stale \/ Queried(d)
    \/ Answering(d) /\ req["normal"].reg.stat = s_reg[d].stat
    \/ ~Answering(d) /\ fw.reg[d].stat = s_reg[d].stat

KnowsCell(d) ==
    \/ d \in fw.stale \/ Queried(d)
    \/ Answering(d) /\ req["normal"].reg.cell = s_reg[d].cell
    \/ ~Answering(d) /\ fw.reg[d].cell = s_reg[d].cell

CellKnown(d) ==
    \/ s_reg[d].cell = NoCell
    \/ \E e \in fw.told : Coming(e)
    \/ KnowsCell(d)
    \/ Other(d) \in fw.told /\ s_reg[Other(d)].cell = s_reg[d].cell /\ KnowsCell(Other(d))

\* A cell is known if it is known in the other domain.
RegistrationKnown ==
    \A d \in fw.told : (Coming(d) \/ KnowsStat(d)) /\ CellKnown(d)

\* The cache is as before, and what is known of it too, or news are coming.
LEMMA KnownCarries ==
    ASSUME TypeInv, RegistrationKnown, s_reg' = s_reg, fw'.told = fw.told,
           \A d \in fw.told : /\ Coming(d) => Coming(d)'
                              /\ Coming(d)' \/ (KnowsStat(d) => KnowsStat(d)')
                              /\ Coming(d)' \/ (KnowsCell(d) => KnowsCell(d)')
    PROVE  RegistrationKnown'
<1> SUFFICES ASSUME NEW d \in fw.told
             PROVE  (Coming(d) \/ KnowsStat(d))' /\ CellKnown(d)'
  BY DEF RegistrationKnown
<1>1. (Coming(d) \/ KnowsStat(d))'
  BY DEF RegistrationKnown
<1>2. CellKnown(d)'
  <2>1. CASE s_reg[d].cell = NoCell
    BY <2>1 DEF CellKnown
  <2>2. CASE \E e \in fw.told : Coming(e)
    BY <2>2 DEF CellKnown
  <2>3. CASE KnowsCell(d)
    BY <2>3 DEF CellKnown
  <2>4. CASE Other(d) \in fw.told /\ s_reg[Other(d)].cell = s_reg[d].cell /\ KnowsCell(Other(d))
    <3>1. CASE Coming(Other(d))'
      BY <2>4, <3>1 DEF CellKnown
    <3>2. CASE KnowsCell(Other(d))'
      BY <2>4, <3>2 DEF CellKnown
    <3> QED BY <2>4, <3>1, <3>2
  <2> QED BY <2>1, <2>2, <2>3, <2>4 DEF RegistrationKnown, CellKnown
<1> QED BY <1>1, <1>2

LEMMA ComingStays ==
    ASSUME NEW d \in Domains, s_reg'[d] = s_reg[d], Informing => Informing', Awaited(d) \subseteq Awaited(d)'
    PROVE  Coming(d) => Coming(d)'
  BY DEF Coming

LEMMA SteadyKnows ==
    ASSUME TypeInv, RegistrationKnown, Steady
    PROVE  RegistrationKnown'
<1>1. s_reg' = s_reg /\ fw'.told = fw.told /\ fw.told \subseteq Domains
  BY DEF Steady, TypeInv, ModemTypes, Knowledge
<1>2. ASSUME NEW d \in fw.told PROVE Coming(d) => Coming(d)'
  BY <1>1, ComingStays DEF Steady
<1>3. fw.stale \subseteq fw'.stale /\ fw'.reg = fw.reg
  BY DEF Steady
<1>4. CASE /\ pc'["normal"] = pc["normal"]
           /\ req'["normal"].kind = req["normal"].kind /\ req'["normal"].reg = req["normal"].reg
  <2>1. ASSUME NEW d \in fw.told
        PROVE  (KnowsStat(d) => KnowsStat(d)') /\ (KnowsCell(d) => KnowsCell(d)')
    BY <1>1, <1>3, <1>4 DEF KnowsStat, KnowsCell, Queried, Answering
  <2> QED BY <1>1, <1>2, <2>1, KnownCarries
<1>5. CASE pc["normal"] \notin Minding /\ pc'["normal"] \notin Minding
  <2>1. ASSUME NEW d \in fw.told
        PROVE  (KnowsStat(d) => KnowsStat(d)') /\ (KnowsCell(d) => KnowsCell(d)')
    BY <1>1, <1>3, <1>5 DEF KnowsStat, KnowsCell, Queried, Answering, Minding, Querying
  <2> QED BY <1>1, <1>2, <2>1, KnownCarries
<1> QED BY <1>4, <1>5 DEF Steady

LEMMA BecomesKnows ==
    ASSUME TypeInv, RegistrationKnown, NEW reg, NEW changed, Becomes(reg, changed)
    PROVE  RegistrationKnown'
<1>1. CASE fw'.told = {}
  BY <1>1 DEF RegistrationKnown
<1>2. CASE fw'.told = fw.told
  <2>1. /\ s_reg' = s_reg /\ fw.told \subseteq Domains /\ fw'.stale = fw.stale /\ fw'.reg = fw.reg
        /\ pc' = pc /\ req' = req
    BY DEF Becomes, TypeInv, ModemTypes, Knowledge
  <2>2. ASSUME NEW d \in fw.told PROVE Coming(d) => Coming(d)'
    <3>1. Informing' = Informing
      BY DEF Becomes, Informing
    <3> QED BY <2>1, <3>1, ComingStays DEF Becomes
  <2>3. ASSUME NEW d \in fw.told
        PROVE  (KnowsStat(d) => KnowsStat(d)') /\ (KnowsCell(d) => KnowsCell(d)')
    BY <2>1 DEF KnowsStat, KnowsCell, Queried, Answering
  <2> QED BY <1>2, <2>1, <2>2, <2>3, KnownCarries
<1> QED BY <1>1, <1>2 DEF Becomes

\* A report that is written is told of, or it has what the framework knows.
LEMMA AppliesKnows ==
    ASSUME TypeInv, RegistrationKnown, NEW d \in Domains, NEW reg \in Regs, Applies(d, reg)
    PROVE  RegistrationKnown'
<1>1. /\ fw \in Knowledge /\ fw.told \subseteq Domains /\ s_reg \in [Domains -> Regs]
      /\ Other(d) \in Domains /\ Other(d) # d /\ Domains = {d, Other(d)} /\ Other(Other(d)) = d
  BY DEF TypeInv, CacheTypes, ModemTypes, Knowledge, Domains, Other
<1>2. s_reg'[d] = reg /\ s_reg'[Other(d)] = s_reg[Other(d)] /\ pc' = pc /\ req' = req
      /\ s_reg' = [s_reg EXCEPT ![d] = reg]
  BY <1>1 DEF Applies
<1>3. fw'.told \subseteq fw.told /\ fw'.stale = fw.stale /\ fw'.reg = fw.reg
  <2>1. fw' = fw \/ fw' = TellsNothingOf(d, reg)
    BY DEF Applies
  <2>2. LET new == TellsNothingOf(d, reg)
        IN  new.told \subseteq fw.told /\ new.stale = fw.stale /\ new.reg = fw.reg
    BY <1>1, TellsNothingFields
  <2> QED BY <2>1, <2>2
<1>4. CASE Informing'
  BY <1>3, <1>4 DEF RegistrationKnown, CellKnown, Coming
<1>5. CASE ~Informing'
  <2>1. ~Updates(d, reg) /\ ~Informing /\ fw' = TellsNothingOf(d, reg)
    BY <1>5 DEF Applies
  <2>2. s_reg[d].stat = reg.stat
    BY <2>1 DEF Updates
  <2>3. ASSUME NEW e \in Domains
        PROVE  /\ Coming(e) => Coming(e)'
               /\ KnowsStat(e) => KnowsStat(e)'
    <3>1. s_reg'[e].stat = s_reg[e].stat
      BY <1>1, <1>2, <2>2
    <3>2. ASSUME NEW old \in Awaited(e), old.stat # s_reg[e].stat PROVE old \in Awaited(e)'
      <4>1. e = d => old # reg
        BY <2>2, <3>2
      <4>2. Awaited(e) \subseteq Awaited(e)' \cup (IF e = d THEN {reg} ELSE {})
        BY DEF Applies
      <4> QED BY <4>1, <4>2
    <3>3. Coming(e) => Coming(e)'
      BY <2>1, <3>1, <3>2 DEF Coming
    <3>4. KnowsStat(e) => KnowsStat(e)'
      BY <1>2, <1>3, <3>1 DEF KnowsStat, Queried, Answering
    <3> QED BY <3>3, <3>4
  <2>4. CASE s_reg[d].cell = reg.cell
    <3>1. s_reg' = s_reg
      BY <1>1, <1>2, <2>2, <2>4 DEF Regs
    <3>2. fw' = fw
      BY <2>1, <2>4, TellsNothingFields
    <3>3. \A e \in Domains : KnowsCell(e) => KnowsCell(e)'
      BY <1>2, <3>1, <3>2 DEF KnowsCell, Queried, Answering
    <3> QED BY <1>1, <2>3, <3>1, <3>2, <3>3, KnownCarries
  <2>5. CASE s_reg[d].cell # reg.cell
    <3>1. s_reg[Other(d)].cell = reg.cell
      BY <2>1, <2>5 DEF Updates
    <3>2. CASE Other(d) \notin fw.told
      <4>1. fw'.told = fw.told \ {d}
        BY <2>1, <2>5, <3>1, <3>2, TellsNothingFields
      <4>2. fw'.told = {}
        BY <1>1, <3>2, <4>1
      <4> QED BY <4>2 DEF RegistrationKnown
    <3>3. CASE Other(d) \in fw.told
      <4>1. fw' = fw
        BY <2>1, <3>3, TellsNothingFields
      <4>2. KnowsCell(Other(d)) => KnowsCell(Other(d))'
        BY <1>2, <4>1 DEF KnowsCell, Queried, Answering
      <4>3. \/ s_reg[Other(d)].cell = NoCell
            \/ \E e \in fw.told : Coming(e)
            \/ KnowsCell(Other(d))
        BY <1>1, <2>5, <3>1, <3>3 DEF RegistrationKnown, CellKnown
      <4>4. \/ s_reg[Other(d)].cell = NoCell
            \/ \E e \in fw.told : Coming(e)'
            \/ KnowsCell(Other(d))'
        BY <1>1, <2>3, <4>2, <4>3
      <4>5. CellKnown(Other(d))' /\ CellKnown(d)'
        BY <1>1, <1>2, <3>1, <3>3, <4>1, <4>4 DEF CellKnown
      <4>6. \A e \in fw.told : (Coming(e) \/ KnowsStat(e))'
        BY <1>1, <2>3 DEF RegistrationKnown
      <4> QED BY <1>1, <4>1, <4>5, <4>6 DEF RegistrationKnown
    <3> QED BY <3>2, <3>3
  <2> QED BY <2>4, <2>5
<1> QED BY <1>4, <1>5

\* The framework that was told asks for everything again.
LEMMA TellsKnows ==
    ASSUME TypeInv, NEW d \in Domains, NEW reg, Tells(d, reg)
    PROVE  RegistrationKnown'
<1>1. fw'.stale = Asked /\ fw'.told \subseteq Domains
  <2>1. fw' = TellsOf(d, reg) /\ fw.told \subseteq Domains
    BY DEF Tells, TypeInv, ModemTypes, Knowledge
  <2> QED BY <2>1, TellsOfFields
<1>2. \A e \in Domains : KnowsStat(e)' /\ KnowsCell(e)'
  BY <1>1 DEF KnowsStat, KnowsCell, Asked, Domains
<1> QED BY <1>1, <1>2 DEF RegistrationKnown, CellKnown

LEMMA BeginsKnows ==
    ASSUME TypeInv, RegistrationKnown, Elsewhere, NEW kind \in Asked, Begins(kind)
    PROVE  RegistrationKnown'
<1>1. fw \in Knowledge /\ fw.told \subseteq Domains
  BY DEF TypeInv, ModemTypes, Knowledge
<1>2. fw'.told = fw.told /\ fw'.reg = fw.reg /\ fw'.stale = fw.stale \ {kind}
  BY <1>1 DEF Begins, Knowledge
<1>3. s_reg' = s_reg /\ \A d \in Domains : Coming(d) => Coming(d)'
  BY DEF Begins, SameCache, Elsewhere, Coming
<1>4. ASSUME NEW d \in Domains
      PROVE  (KnowsStat(d) => KnowsStat(d)') /\ (KnowsCell(d) => KnowsCell(d)')
  <2>1. ~Queried(d) /\ ~Answering(d) /\ ~Answering(d)'
    BY DEF Begins, Queried, Answering, Querying
  <2>2. CASE kind = d
    <3>1. Queried(d)'
      BY <2>2 DEF Begins, Queried, Querying, Domains
    <3> QED BY <3>1 DEF KnowsStat, KnowsCell
  <2>3. CASE kind # d
    BY <1>2, <1>3, <2>1, <2>3 DEF KnowsStat, KnowsCell
  <2> QED BY <2>2, <2>3
<1> QED BY <1>1, <1>2, <1>3, <1>4, KnownCarries

\* What is answered without a SIM is no news, or news are coming.
LEMMA GoesOnKnows ==
    ASSUME Base, ModemFacts, CacheFollows, RegistrationKnown, Elsewhere,
           NEW d \in Domains, req["normal"].kind = d, GoesOn(d)
    PROVE  RegistrationKnown'
<1>1. fw \in Knowledge /\ fw.told \subseteq Domains
  BY DEF Base, TypeInv, ModemTypes, Knowledge
<1>2. s_reg' = s_reg /\ \A e \in Domains : Coming(e) => Coming(e)'
  BY DEF GoesOn, SameCache, Elsewhere, Coming
<1>3. fw'.told = fw.told /\ fw'.reg = fw.reg /\ fw.stale \subseteq fw'.stale
      /\ (pc'["normal"] = "end" => d \in fw'.stale)
  <2>1. CASE SameKnowledge
    <3>1. pc'["normal"] = "end" => fw' = Fails(d)
      BY DEF GoesOn, Querying
    <3> QED BY <1>1, <2>1, <3>1 DEF SameKnowledge, Fails, Knowledge
  <2>2. CASE fw' = Fails(d)
    BY <1>1, <2>2 DEF Fails, Knowledge
  <2> QED BY <2>1, <2>2 DEF GoesOn
<1>4. ASSUME NEW e \in Domains, e # d
      PROVE  (KnowsStat(e) => KnowsStat(e)') /\ (KnowsCell(e) => KnowsCell(e)')
  <2>1. ~Queried(e) /\ ~Answering(e) /\ ~Answering(e)'
    BY <1>4 DEF GoesOn, Queried, Answering
  <2> QED BY <1>2, <1>3, <2>1 DEF KnowsStat, KnowsCell
<1>5. d \in fw.told => Coming(d)' \/ (KnowsStat(d)' /\ KnowsCell(d)')
  <2>1. CASE pc'["normal"] \in Querying
    BY <2>1 DEF GoesOn, KnowsStat, KnowsCell, Queried
  <2>2. CASE pc'["normal"] = "answer" /\ req'["normal"].reg = s_reg[d]
    BY <1>2, <2>2 DEF GoesOn, KnowsStat, KnowsCell, Answering
  <2>3. CASE /\ pc'["normal"] = "answer" /\ d \in fw.told /\ radio # "SIM_READY"
             /\ req'["normal"].reg = [stat |-> "none", cell |-> NoCell]
    <3>1. modem.reg[d].stat = "none"
      BY <2>3 DEF ModemFacts, ModemKnown
    <3>2. CASE s_reg[d].stat # "none"
      <4>1. modem.reg[d] \in Awaited(d) /\ modem.reg[d].stat # s_reg[d].stat
        BY <2>3, <3>1, <3>2 DEF CacheFollows
      <4>2. Coming(d)
        BY <4>1 DEF Coming
      <4>3. Coming(d)'
        BY <1>2, <4>2
      <4> QED BY <4>3
    <3>3. CASE s_reg[d].stat = "none"
      <4>1. s_reg[d].cell = NoCell
        BY <2>3, <3>3 DEF CacheFollows, WellFormed, Home
      <4> QED BY <1>2, <2>3, <3>3, <4>1 DEF GoesOn, KnowsStat, KnowsCell, Answering
    <3> QED BY <3>2, <3>3
  <2>4. CASE pc'["normal"] = "end"
    BY <1>3, <2>4 DEF KnowsStat, KnowsCell
  <2> QED BY <2>1, <2>2, <2>3, <2>4 DEF GoesOn
<1> QED BY <1>1, <1>2, <1>3, <1>4, <1>5, KnownCarries DEF Base

LEMMA WritesKnows ==
    ASSUME Base, RegistrationKnown, Elsewhere, NEW d \in Domains,
           (Writes(d) /\ req["normal"].kind = d) \/ Scans(d)
    PROVE  RegistrationKnown'
<1>1. CASE fw'.told = {}
  BY <1>1 DEF RegistrationKnown
<1>2. CASE s_reg' = s_reg /\ fw' = fw
  <2>1. fw.told \subseteq Domains
    BY DEF Base, TypeInv, ModemTypes, Knowledge
  <2>2. \A e \in Domains : Coming(e) => Coming(e)'
    BY <1>2 DEF Elsewhere, Coming
  <2>3. ASSUME NEW e \in Domains
        PROVE  (KnowsStat(e) => KnowsStat(e)') /\ (KnowsCell(e) => KnowsCell(e)')
    <3>1. CASE Writes(d) /\ req["normal"].kind = d
      <4>1. req'["normal"].reg = s_reg'[d]
        BY <1>2, <3>1 DEF Writes, Base, TypeInv, CacheTypes
      <4>2. CASE e = d
        <5>1. Answering(d)'
          BY <3>1 DEF Writes, Answering
        <5> QED BY <4>1, <4>2, <5>1 DEF KnowsStat, KnowsCell
      <4>3. CASE e # d
        <5>1. ~Queried(e) /\ ~Answering(e) /\ ~Answering(e)'
          BY <3>1, <4>3 DEF Writes, Queried, Answering
        <5> QED BY <1>2, <5>1 DEF KnowsStat, KnowsCell
      <4> QED BY <4>2, <4>3
    <3>2. CASE Scans(d)
      <4>1. ~Queried(e) /\ ~Answering(e) /\ ~Answering(e)'
        BY <3>2 DEF Scans, Queried, Answering, Querying, Minding
      <4> QED BY <1>2, <4>1 DEF KnowsStat, KnowsCell
    <3> QED BY <3>1, <3>2
  <2> QED BY <1>2, <2>1, <2>2, <2>3, KnownCarries DEF Base
<1> QED BY <1>1, <1>2, WritesSame

LEMMA AnswersKnows ==
    ASSUME TypeInv, RegistrationKnown, Elsewhere, NEW d \in Domains, req["normal"].kind = d, Answers(d)
    PROVE  RegistrationKnown'
<1>1. fw \in Knowledge /\ fw.told \subseteq Domains
  BY DEF TypeInv, ModemTypes, Knowledge
<1>2. fw' = [fw EXCEPT !.reg[d] = req["normal"].reg]
  BY DEF Answers
<1>3. /\ fw'.told = fw.told /\ fw'.stale = fw.stale /\ fw'.reg[d] = req["normal"].reg
      /\ \A e \in Domains \ {d} : fw'.reg[e] = fw.reg[e]
  BY <1>1, <1>2, RegField
<1>4. s_reg' = s_reg /\ \A e \in Domains : Coming(e) => Coming(e)'
  BY DEF Answers, SameCache, Elsewhere, Coming
<1>5. ASSUME NEW e \in Domains
      PROVE  (KnowsStat(e) => KnowsStat(e)') /\ (KnowsCell(e) => KnowsCell(e)')
  <2>1. ~Queried(e) /\ ~Answering(e)'
    BY DEF Answers, Queried, Answering, Querying
  <2>2. CASE e = d
    <3>1. Answering(e)
      BY <2>2 DEF Answers, Answering
    <3> QED BY <1>3, <1>4, <2>1, <2>2, <3>1 DEF KnowsStat, KnowsCell
  <2>3. CASE e # d
    <3>1. ~Answering(e)
      BY <2>3 DEF Answering
    <3> QED BY <1>3, <1>4, <2>1, <2>3, <3>1 DEF KnowsStat, KnowsCell
  <2> QED BY <2>2, <2>3
<1> QED BY <1>1, <1>3, <1>4, <1>5, KnownCarries

LEMMA OperatorKnows ==
    ASSUME TypeInv, RegistrationKnown, Elsewhere, AnswersOperator \/ AsksOperator \/ ReadsOperator
    PROVE  RegistrationKnown'
<1>1. fw \in Knowledge /\ fw.told \subseteq Domains
  BY DEF TypeInv, ModemTypes, Knowledge
<1>2. fw'.told = fw.told /\ fw'.stale = fw.stale /\ fw'.reg = fw.reg
  <2>1. \/ fw' = fw
        \/ \E v : fw' = [fw EXCEPT !.operator = v] \/ fw' = [fw EXCEPT !.unsure = v]
    BY DEF AnswersOperator, AsksOperator, ReadsOperator
  <2>2. ASSUME NEW v, fw' = [fw EXCEPT !.operator = v] \/ fw' = [fw EXCEPT !.unsure = v]
        PROVE  fw'.told = fw.told /\ fw'.stale = fw.stale /\ fw'.reg = fw.reg
    BY <1>1, <2>2 DEF Knowledge
  <2> QED BY <2>1, <2>2
<1>3. s_reg' = s_reg /\ \A e \in Domains : Coming(e) => Coming(e)'
  BY DEF AnswersOperator, AsksOperator, ReadsOperator, SameCache, Elsewhere, Coming
<1>4. ASSUME NEW e \in Domains
      PROVE  (KnowsStat(e) => KnowsStat(e)') /\ (KnowsCell(e) => KnowsCell(e)')
  <2>1. ~Queried(e) /\ ~Answering(e) /\ ~Answering(e)'
    BY DEF AnswersOperator, AsksOperator, ReadsOperator, Queried, Answering, Querying
  <2> QED BY <1>2, <1>3, <2>1 DEF KnowsStat, KnowsCell
<1> QED BY <1>1, <1>2, <1>3, <1>4, KnownCarries

LEMMA KnownKept ==
    ASSUME Base, ModemFacts, CacheFollows, RegistrationKnown, [Next]_vars
    PROVE  RegistrationKnown'
  BY StepsSeen, SteadyKnows, BecomesKnows, AppliesKnows, TellsKnows, BeginsKnows, GoesOnKnows,
     WritesKnows, AnswersKnows, OperatorKnows DEF RequestsOf, Base

LEMMA KnownInit ==
    ASSUME Init
    PROVE  CacheFollows /\ RegistrationKnown
<1>1. fw.fresh = {} /\ fw.told = {}
  BY DEF Init
<1> QED BY <1>1 DEF CacheFollows, RegistrationKnown

LEMMA KnownSees ==
    ASSUME Base, ModemFacts, CacheFollows, RegistrationKnown
    PROVE  FrameworkSeesRegistration
<1> SUFFICES ASSUME Quiet
             PROVE  /\ \A d \in fw.fresh : s_reg[d] = modem.reg[d]
                    /\ \A d \in fw.told \ fw.stale : fw.reg[d].stat = s_reg[d].stat
                    /\ Domains \cap fw.stale = {} =>
                          \A d \in fw.told : Home(s_reg[d]) =>
                              \E e \in Domains : fw.reg[e].cell = s_reg[d].cell
  BY DEF FrameworkSeesRegistration
<1>1. fw.told \subseteq Domains /\ "normal" \in Runners
  BY DEF Base, TypeInv, ModemTypes, Knowledge, Runners
<1>2. ~Informing
  BY DEF Informing, ModemFacts, InformsOf, Quiet
<1>3. \A d \in Domains : Awaited(d) = {}
  <2>1. \A c \in Channels : \A i \in 1..Len(lines[c]) : FALSE
    BY DEF Quiet
  <2> QED BY <2>1 DEF Awaited
<1>4. \A d \in Domains : ~Coming(d) /\ ~Queried(d) /\ ~Answering(d)
  <2>1. pc["normal"] = "idle"
    BY <1>1 DEF Quiet, Idle, At
  <2> QED BY <1>2, <1>3, <2>1 DEF Coming, Queried, Answering, Querying
<1>5. \A d \in fw.fresh : s_reg[d] = modem.reg[d]
  <2>1. fw.fresh \subseteq Domains
    BY DEF Base, TypeInv, ModemTypes, Knowledge
  <2> QED BY <1>3, <2>1 DEF CacheFollows
<1>6. \A d \in fw.told \ fw.stale : fw.reg[d].stat = s_reg[d].stat
  BY <1>1, <1>4 DEF RegistrationKnown, KnowsStat
<1>7. ASSUME Domains \cap fw.stale = {}, NEW d \in fw.told, Home(s_reg[d])
      PROVE  \E e \in Domains : fw.reg[e].cell = s_reg[d].cell
  <2>1. s_reg[d].cell # NoCell
    BY <1>7 DEF CacheFollows, WellFormed
  <2>2. \/ KnowsCell(d)
        \/ Other(d) \in fw.told /\ s_reg[Other(d)].cell = s_reg[d].cell /\ KnowsCell(Other(d))
    BY <1>1, <1>4, <1>7, <2>1 DEF RegistrationKnown, CellKnown
  <2>3. \A e \in Domains : KnowsCell(e) => fw.reg[e].cell = s_reg[e].cell
    BY <1>4, <1>7 DEF KnowsCell
  <2> QED BY <1>1, <2>2, <2>3
<1> QED BY <1>5, <1>6, <1>7

\* Once nothing is on its way, the cache is the registration of the modem wherever its
\* last change was reported, and the framework knows of it in one domain or was told to
\* ask: whatever requests, selections, screen states and lost SIMs came in between.
THEOREM RegistrationIsSeen == Spec => []FrameworkSeesRegistration
<1>1. Init => Base /\ ModemFacts /\ CacheFollows /\ RegistrationKnown
  BY BaseInit, FactsInit, KnownInit
<1>2. Base /\ ModemFacts /\ CacheFollows /\ RegistrationKnown /\ [Next]_vars
        => (Base /\ ModemFacts /\ CacheFollows /\ RegistrationKnown)'
  BY BaseKept, FactsKept, FollowsKept, KnownKept
<1>3. Base /\ ModemFacts /\ CacheFollows /\ RegistrationKnown => FrameworkSeesRegistration
  BY KnownSees
<1> QED BY <1>1, <1>2, <1>3, PTL DEF Spec

-----------------------------------------------------------------------------
(***************************************************************************)
(* The operator.                                                           *)
(***************************************************************************)
\* A report that waits makes the framework ask for the operator again if it knows op.
Corrects(op, e, reg) ==
    IF Home(reg) THEN reg.cell = op /\ s_reg[e].cell # op ELSE Home(s_reg[e])

\* The operators that are those of every cell the framework relies on, unless such a
\* report waits.
Followed ==
    {op \in Cells \cup {NoCell} :
        (\E d \in fw.told : s_reg[d].cell \notin {NoCell, op})
            => \E e \in Domains : \E reg \in Awaited(e) : Corrects(op, e, reg)}

Registers == \E d \in Domains : Home(s_reg[d])

\* The operator that is buffered, or that the framework was told, is one of them.
OperatorKnown ==
    ~Informing /\ "operator" \notin fw.unsure =>
        /\ s_reg_change = 0 /\ old_response # NoCell /\ pc["normal"] # "cops" =>
              old_response \in Followed
        /\ "operator" \notin fw.stale /\ pc["normal"] \notin {"operator", "cops"} =>
              fw.operator \in Followed /\ (fw.operator # NoCell => Registers)
        /\ "operator" \notin fw.stale /\ pc["normal"] = "cops" => Registers

LEMMA FollowedStays ==
    ASSUME s_reg' = s_reg, fw'.told \subseteq fw.told, \A d \in Domains : Awaited(d) \subseteq Awaited(d)'
    PROVE  Followed \subseteq Followed' /\ Registers' = Registers
<1>1. ASSUME NEW op \in Followed PROVE op \in Followed'
  <2> SUFFICES ASSUME NEW d \in fw'.told, s_reg[d].cell \notin {NoCell, op}
               PROVE  \E e \in Domains : \E reg \in Awaited(e)' : Corrects(op, e, reg)'
    BY DEF Followed
  <2>1. PICK e \in Domains : \E reg \in Awaited(e) : Corrects(op, e, reg)
    BY DEF Followed
  <2>2. PICK reg \in Awaited(e) : Corrects(op, e, reg)
    BY <2>1
  <2>3. reg \in Awaited(e)' /\ Corrects(op, e, reg)'
    BY <2>2 DEF Corrects
  <2> QED BY <2>3
<1> QED BY <1>1 DEF Registers

\* Nothing of the operator changes.
LEMMA OperatorCarries ==
    ASSUME OperatorKnown, s_reg' = s_reg, fw'.told \subseteq fw.told,
           \A d \in Domains : Awaited(d) \subseteq Awaited(d)',
           Informing => Informing', "operator" \in fw.unsure => "operator" \in fw'.unsure,
           s_reg_change' = s_reg_change, old_response' = old_response, fw'.operator = fw.operator,
           "operator" \in fw.stale => "operator" \in fw'.stale,
           \/ pc'["normal"] = pc["normal"]
           \/ pc["normal"] \notin {"operator", "cops"} /\ pc'["normal"] \notin {"operator", "cops"}
    PROVE  OperatorKnown'
<1>1. Followed \subseteq Followed' /\ Registers' = Registers
  BY FollowedStays
<1> SUFFICES ASSUME ~Informing', "operator" \notin fw'.unsure
             PROVE  /\ s_reg_change = 0 /\ old_response # NoCell /\ pc'["normal"] # "cops" =>
                          old_response \in Followed'
                    /\ "operator" \notin fw'.stale /\ pc'["normal"] \notin {"operator", "cops"} =>
                          fw.operator \in Followed' /\ (fw.operator # NoCell => Registers)
                    /\ "operator" \notin fw'.stale /\ pc'["normal"] = "cops" => Registers
  BY <1>1 DEF OperatorKnown
<1>2. ~Informing /\ "operator" \notin fw.unsure
  OBVIOUS
<1> QED BY <1>1, <1>2 DEF OperatorKnown

\* What the modem answers is that of every cell which no report corrects.
LEMMA OperatorFollows ==
    ASSUME Base, ModemFacts, CacheFollows
    PROVE  /\ Operator \in Followed
           /\ radio # "SIM_READY" => Cells \cup {NoCell} \subseteq Followed
<1>1. fw.told \subseteq Domains /\ modem.cell \in Cells /\ NoCell \notin Cells
  BY DEF Base, TypeInv, ModemTypes, Knowledge, Modems, Cells, NoCell
<1>2. Operator \in Cells \cup {NoCell}
  BY <1>1 DEF Operator
<1>3. ASSUME NEW d \in fw.told, NEW op, s_reg[d].cell \notin {NoCell, op},
             op = Operator \/ radio # "SIM_READY"
      PROVE  \E e \in Domains : \E reg \in Awaited(e) : Corrects(op, e, reg)
  <2>1. Home(s_reg[d]) /\ d \in Domains /\ (s_reg[d] = modem.reg[d] \/ modem.reg[d] \in Awaited(d))
    BY <1>1, <1>3 DEF CacheFollows, WellFormed
  <2>2. CASE ~Home(modem.reg[d])
    <3>1. Corrects(op, d, modem.reg[d])
      BY <2>1, <2>2 DEF Corrects
    <3> QED BY <2>1, <2>2, <3>1
  <2>3. CASE Home(modem.reg[d])
    <3>1. modem.reg[d].cell = modem.cell /\ op = modem.cell
      BY <1>3, <2>1, <2>3 DEF ModemFacts, ModemKnown, Operator, Home
    <3>2. modem.reg[d] \in Awaited(d)
      BY <1>3, <2>1, <3>1
    <3>3. Corrects(op, d, modem.reg[d])
      BY <1>3, <2>3, <3>1 DEF Corrects
    <3> QED BY <2>1, <3>2, <3>3
  <2> QED BY <2>2, <2>3
<1>4. Operator \in Followed
  BY <1>2, <1>3 DEF Followed
<1>5. radio # "SIM_READY" => Cells \cup {NoCell} \subseteq Followed
  BY <1>3 DEF Followed
<1> QED BY <1>4, <1>5

\* A report that is written without telling the framework.
LEMMA AppliesFollows ==
    ASSUME TypeInv, NEW d \in Domains, NEW reg \in Regs, Applies(d, reg), ~Informing',
           "operator" \notin fw'.unsure
    PROVE  Followed \subseteq Followed' /\ Registers' = Registers /\ fw' = fw
<1>1. /\ fw \in Knowledge /\ fw.told \subseteq Domains /\ s_reg \in [Domains -> Regs]
      /\ Other(d) \in Domains /\ Other(d) # d /\ Domains = {d, Other(d)}
  BY DEF TypeInv, CacheTypes, ModemTypes, Knowledge, Domains, Other
<1>2. s_reg'[d] = reg /\ s_reg'[Other(d)] = s_reg[Other(d)]
  BY <1>1 DEF Applies
<1>3. ~Updates(d, reg) /\ fw' = TellsNothingOf(d, reg) /\ WellFormed(reg)
      /\ \A e \in Domains : Awaited(e) \subseteq Awaited(e)' \cup (IF e = d THEN {reg} ELSE {})
  BY DEF Applies
<1>4. s_reg[d].stat = reg.stat /\ (s_reg[d].cell = reg.cell \/ s_reg[Other(d)].cell = reg.cell)
  BY <1>3 DEF Updates
<1>5. fw' = fw /\ (s_reg[d].cell # reg.cell => Other(d) \in fw.told)
  BY <1>3, <1>4, TellsNothingFields
<1>6. Registers' = Registers
  <2>1. \A e \in Domains : s_reg'[e].stat = s_reg[e].stat
    BY <1>1, <1>2, <1>4
  <2> QED BY <2>1 DEF Registers, Home
<1>7. ASSUME NEW op \in Followed, NEW f \in fw.told, s_reg'[f].cell \notin {NoCell, op}
      PROVE  \E e \in Domains : \E old \in Awaited(e)' : Corrects(op, e, old)'
  <2>1. \E g \in fw.told : s_reg[g].cell \notin {NoCell, op}
    <3>1. CASE f = d /\ s_reg[d].cell # reg.cell
      BY <1>2, <1>4, <1>5, <1>7, <3>1
    <3>2. CASE f # d \/ s_reg[d].cell = reg.cell
      BY <1>1, <1>2, <1>7, <3>2
    <3> QED BY <3>1, <3>2
  <2>2. PICK e \in Domains : \E old \in Awaited(e) : Corrects(op, e, old)
    BY <2>1 DEF Followed
  <2>3. PICK old \in Awaited(e) : Corrects(op, e, old)
    BY <2>2
  <2>4. CASE e # d
    <3>1. old \in Awaited(e)' /\ s_reg'[e] = s_reg[e]
      BY <1>1, <1>2, <1>3, <2>4
    <3>2. Corrects(op, e, old)'
      BY <2>3, <3>1 DEF Corrects
    <3> QED BY <3>1, <3>2
  <2>5. CASE e = d /\ ~Home(old)
    <3>1. Home(s_reg[d]) /\ Home(reg)
      BY <1>4, <2>3, <2>5 DEF Corrects, Home
    <3>2. old \in Awaited(e)'
      BY <1>3, <2>5, <3>1
    <3>3. Corrects(op, e, old)'
      BY <1>2, <2>5, <3>1 DEF Corrects
    <3> QED BY <3>2, <3>3
  <2>6. CASE e = d /\ Home(old)
    <3>1. old.cell = op /\ s_reg[d].cell # op /\ old \in Regs
      BY <2>3, <2>6 DEF Corrects, Awaited
    <3>2. reg.cell # op
      <4>1. CASE s_reg[d].cell = reg.cell
        BY <3>1, <4>1
      <4>2. CASE s_reg[d].cell # reg.cell
        <5>1. s_reg'[d].cell = reg.cell /\ s_reg'[Other(d)].cell = reg.cell
          BY <1>2, <1>4, <4>2
        <5>2. s_reg'[f].cell = reg.cell
          BY <1>1, <5>1
        <5> QED BY <1>7, <5>2
      <4> QED BY <4>1, <4>2
    <3>3. old \in Awaited(e)'
      BY <1>3, <3>1, <3>2
    <3>4. Corrects(op, e, old)'
      BY <1>2, <2>6, <3>1, <3>2 DEF Corrects
    <3> QED BY <3>3, <3>4
  <2> QED BY <2>4, <2>5, <2>6
<1>8. Followed \subseteq Followed'
  BY <1>5, <1>7 DEF Followed
<1> QED BY <1>5, <1>6, <1>8

LEMMA ModemFollowed ==
    ASSUME OperatorKnown, Steady \/ \E reg, changed : Becomes(reg, changed)
    PROVE  OperatorKnown'
<1>1. CASE Steady
  <2>1. \/ pc'["normal"] = pc["normal"]
        \/ pc["normal"] \notin {"operator", "cops"} /\ pc'["normal"] \notin {"operator", "cops"}
    BY <1>1 DEF Steady, Minding
  <2> QED BY <1>1, <2>1, OperatorCarries DEF Steady
<1>2. ASSUME NEW reg, NEW changed, Becomes(reg, changed) PROVE OperatorKnown'
  <2>1. Informing' = Informing /\ pc' = pc
    BY <1>2 DEF Becomes, Informing
  <2> QED BY <1>2, <2>1, OperatorCarries DEF Becomes
<1> QED BY <1>1, <1>2

LEMMA ReportFollowed ==
    ASSUME TypeInv, OperatorKnown, NEW d \in Domains, NEW reg \in Regs, Applies(d, reg) \/ Tells(d, reg)
    PROVE  OperatorKnown'
<1>1. CASE Tells(d, reg)
  <2>1. fw'.stale = Asked /\ s_reg_change' = 1
    <3>1. fw' = TellsOf(d, reg) /\ s_reg_change' = 1
      BY <1>1 DEF Tells
    <3> QED BY <3>1, TellsOfFields
  <2> QED BY <2>1 DEF OperatorKnown, Asked
<1>2. CASE Applies(d, reg) /\ ~Informing' /\ "operator" \notin fw'.unsure
  <2>1. Followed \subseteq Followed' /\ Registers' = Registers /\ fw' = fw
    BY <1>2, AppliesFollows
  <2>2. ~Informing /\ UNCHANGED <<s_reg_change, old_response, pc>>
    BY <1>2 DEF Applies
  <2> QED BY <1>2, <2>1, <2>2 DEF OperatorKnown
<1>3. CASE Informing' \/ "operator" \in fw'.unsure
  BY <1>3 DEF OperatorKnown
<1> QED BY <1>1, <1>2, <1>3

LEMMA RequestFollowed ==
    ASSUME Base, OperatorKnown, Elsewhere,
           \/ \E kind \in Asked : Begins(kind)
           \/ \E d \in Domains : RequestsOf(d) \/ Scans(d)
    PROVE  OperatorKnown'
<1>1. fw \in Knowledge /\ "operator" \notin Domains
  BY DEF Base, TypeInv, ModemTypes, Domains
<1>2. ASSUME NEW kind \in Asked, Begins(kind) PROVE OperatorKnown'
  <2>1. /\ fw'.told = fw.told /\ fw'.operator = fw.operator /\ fw'.unsure = fw.unsure
        /\ fw'.stale = fw.stale \ {kind} /\ s_reg' = s_reg /\ s_reg_change' = s_reg_change
        /\ old_response' = old_response /\ Informing' = Informing
    BY <1>1, <1>2 DEF Begins, Knowledge, SameCache, Elsewhere
  <2>2. Followed \subseteq Followed' /\ Registers' = Registers
    BY <2>1, FollowedStays DEF Elsewhere
  <2>3. CASE kind = "operator"
    <3>1. pc["normal"] = "idle" /\ pc'["normal"] = "operator"
      BY <1>2, <2>3 DEF Begins
    <3> QED BY <2>1, <2>2, <3>1 DEF OperatorKnown
  <2>4. CASE kind # "operator"
    <3>1. pc["normal"] = "idle" /\ pc'["normal"] = "lock"
      BY <1>2, <2>4 DEF Begins
    <3> QED BY <2>1, <2>2, <2>4, <3>1 DEF OperatorKnown
  <2> QED BY <2>3, <2>4
<1>3. ASSUME NEW d \in Domains, GoesOn(d) \/ Answers(d) PROVE OperatorKnown'
  <2>1. /\ fw'.told = fw.told /\ fw'.operator = fw.operator
        /\ "operator" \in fw.unsure => "operator" \in fw'.unsure
        /\ "operator" \in fw.stale => "operator" \in fw'.stale
    BY <1>1, <1>3 DEF GoesOn, Answers, SameKnowledge, Fails, Knowledge
  <2>2. s_reg' = s_reg /\ s_reg_change' = s_reg_change /\ old_response' = old_response
    BY <1>3 DEF GoesOn, Answers, SameCache
  <2>3. pc["normal"] \notin {"operator", "cops"} /\ pc'["normal"] \notin {"operator", "cops"}
    BY <1>3 DEF GoesOn, Answers, Querying
  <2> QED BY <2>1, <2>2, <2>3, OperatorCarries DEF Elsewhere
<1>4. ASSUME NEW d \in Domains, Writes(d) \/ Scans(d) PROVE OperatorKnown'
  <2>1. CASE s_reg' = s_reg /\ fw' = fw
    <3>1. s_reg_change' = s_reg_change /\ old_response' = old_response
      <4>1. CASE Writes(d)
        <5>1. s_reg'[d] = req["normal"].reg
          BY <4>1 DEF Writes, Base, TypeInv, CacheTypes
        <5> QED BY <2>1, <4>1, <5>1 DEF Writes
      <4>2. CASE Scans(d)
        BY <4>2 DEF Scans
      <4> QED BY <1>4, <4>1, <4>2
    <3>2. pc["normal"] \notin {"operator", "cops"} /\ pc'["normal"] \notin {"operator", "cops"}
      BY <1>4 DEF Writes, Scans, Minding
    <3> QED BY <2>1, <3>1, <3>2, OperatorCarries DEF Elsewhere
  <2>2. CASE "operator" \in fw'.unsure
    BY <2>2 DEF OperatorKnown
  <2> QED BY <1>4, <2>1, <2>2, WritesSame
<1> QED BY <1>2, <1>3, <1>4 DEF RequestsOf

LEMMA OperatorStepsFollowed ==
    ASSUME Base, ModemFacts, CacheFollows, OperatorKnown, Elsewhere,
           AnswersOperator \/ AsksOperator \/ ReadsOperator
    PROVE  OperatorKnown'
<1>1. fw \in Knowledge /\ fw.told \subseteq Domains
  BY DEF Base, TypeInv, ModemTypes, Knowledge
<1>2. CASE AnswersOperator
  <2>1. /\ s_reg' = s_reg /\ s_reg_change' = s_reg_change /\ old_response' = old_response
        /\ pc["normal"] = "operator" /\ pc'["normal"] = "idle"
        /\ fw'.told = fw.told /\ fw'.unsure = fw.unsure /\ fw'.stale = fw.stale
    BY <1>1, <1>2 DEF AnswersOperator, SameCache, Knowledge
  <2>2. Followed \subseteq Followed' /\ Registers' = Registers
    BY <2>1, FollowedStays DEF Elsewhere
  <2>3. CASE Registers /\ s_reg_change = 0 /\ old_response # NoCell /\ fw'.operator = old_response
    BY <2>1, <2>2, <2>3 DEF OperatorKnown, Elsewhere
  <2>4. CASE (\A d \in Domains : ~Home(s_reg[d])) /\ fw'.operator = NoCell
    <3>1. \A d \in fw.told : s_reg[d].cell = NoCell
      BY <1>1, <2>4 DEF CacheFollows, WellFormed
    <3>2. NoCell \in Followed
      BY <3>1 DEF Followed
    <3> QED BY <2>1, <2>2, <2>4, <3>2 DEF OperatorKnown, Elsewhere
  <2> QED BY <1>1, <1>2, <2>3, <2>4 DEF AnswersOperator, Registers, Knowledge
<1>3. CASE AsksOperator
  <2>1. s_reg' = s_reg /\ pc'["normal"] = "cops" /\ Registers
    BY <1>3 DEF AsksOperator, Registers
  <2>2. Registers'
    BY <2>1 DEF Registers
  <2> QED BY <2>1, <2>2 DEF OperatorKnown
<1>4. CASE ReadsOperator /\ fw' = [fw EXCEPT !.unsure = @ \cup {"operator"}]
  <2>1. "operator" \in fw'.unsure
    BY <1>1, <1>4 DEF Knowledge
  <2> QED BY <2>1 DEF OperatorKnown
<1>5. CASE /\ ReadsOperator /\ fw' = [fw EXCEPT !.operator = Operator]
           /\ old_response' = IF radio = "SIM_READY" THEN Operator ELSE old_response
  <2>1. /\ s_reg' = s_reg /\ pc["normal"] = "cops" /\ pc'["normal"] = "cops read"
        /\ fw'.told = fw.told /\ fw'.unsure = fw.unsure /\ fw'.stale = fw.stale
        /\ fw'.operator = Operator
    BY <1>1, <1>5 DEF ReadsOperator, Knowledge
  <2>2. Followed \subseteq Followed' /\ Registers' = Registers
    BY <2>1, FollowedStays DEF Elsewhere
  <2>3. old_response' \in Followed /\ fw'.operator \in Followed
    <3>1. old_response \in Cells \cup {NoCell}
      BY DEF Base, TypeInv, CacheTypes
    <3>2. Operator \in Followed /\ (radio # "SIM_READY" => old_response \in Followed)
      BY <3>1, OperatorFollows
    <3> QED BY <1>5, <2>1, <3>2
  <2> QED BY <2>1, <2>2, <2>3 DEF OperatorKnown, Elsewhere
<1> QED BY <1>2, <1>3, <1>4, <1>5 DEF ReadsOperator

LEMMA OperatorKept ==
    ASSUME Base, ModemFacts, CacheFollows, OperatorKnown, [Next]_vars
    PROVE  OperatorKnown'
  BY StepsSeen, ModemFollowed, ReportFollowed, RequestFollowed, OperatorStepsFollowed DEF Base

LEMMA OperatorInit ==
    ASSUME Init
    PROVE  OperatorKnown
<1>1. old_response = NoCell /\ fw.stale = Asked
  BY DEF Init
<1> QED BY <1>1 DEF OperatorKnown, Asked

LEMMA OperatorSees ==
    ASSUME Base, ModemFacts, CacheFollows, OperatorKnown
    PROVE  FrameworkSeesOperator
<1> SUFFICES ASSUME Quiet, \A d \in Domains : Home(modem.reg[d]) \/ Home(s_reg[d]) => d \in fw.told,
                    "operator" \notin fw.stale \cup fw.unsure
             PROVE  fw.operator = Operator
  BY DEF FrameworkSeesOperator
<1>1. fw.told \subseteq Domains /\ "normal" \in Runners
  BY DEF Base, TypeInv, ModemTypes, Knowledge, Runners
<1>2. ~Informing /\ \A d \in Domains : Awaited(d) = {}
  <2>1. \A c \in Channels : \A i \in 1..Len(lines[c]) : FALSE
    BY DEF Quiet
  <2> QED BY <2>1 DEF Awaited, Informing, ModemFacts, InformsOf, Quiet
<1>3. pc["normal"] = "idle"
  BY <1>1 DEF Quiet, Idle, At
<1>4. fw.operator \in Followed /\ (fw.operator # NoCell => Registers)
  BY <1>2, <1>3 DEF OperatorKnown
<1>5. \A d \in fw.told : s_reg[d] = modem.reg[d] /\ s_reg[d].cell \in {NoCell, fw.operator}
  <2>1. \A d \in fw.told : s_reg[d] = modem.reg[d]
    BY <1>1, <1>2 DEF CacheFollows
  <2> QED BY <1>2, <1>4, <2>1 DEF Followed
<1>6. CASE \E d \in Domains : Home(modem.reg[d])
  <2>1. PICK d \in Domains : Home(modem.reg[d])
    BY <1>6
  <2>2. s_reg[d].cell = modem.cell /\ modem.cell # NoCell /\ d \in fw.told
    BY <1>5, <2>1 DEF ModemFacts, ModemKnown, WellFormed
  <2>3. fw.operator = modem.cell
    BY <1>5, <2>2
  <2> QED BY <1>6, <2>3 DEF Operator
<1>7. CASE ~\E d \in Domains : Home(modem.reg[d])
  <2>1. ~Registers
    BY <1>5, <1>7 DEF Registers
  <2> QED BY <1>4, <1>7, <2>1 DEF Operator
<1> QED BY <1>6, <1>7

\* The framework knows the operator that the modem is registered with, or was told to
\* ask for it: requestOperator never answers a buffered operator that is out of date.
THEOREM OperatorIsSeen == Spec => []FrameworkSeesOperator
<1>1. Init => Base /\ ModemFacts /\ CacheFollows /\ OperatorKnown
  BY BaseInit, FactsInit, KnownInit, OperatorInit
<1>2. Base /\ ModemFacts /\ CacheFollows /\ OperatorKnown /\ [Next]_vars
        => (Base /\ ModemFacts /\ CacheFollows /\ OperatorKnown)'
  BY BaseKept, FactsKept, FollowsKept, OperatorKept
<1>3. Base /\ ModemFacts /\ CacheFollows /\ OperatorKnown => FrameworkSeesOperator
  BY OperatorSees
<1> QED BY <1>1, <1>2, <1>3, PTL DEF Spec

\* Operator and signal strength together: no news of the network is lost.
THEOREM NewsAreSeen == Spec => []FrameworkSeesNews
<1>1. FrameworkSeesOperator /\ FrameworkSeesSignal => FrameworkSeesNews
  BY DEF FrameworkSeesNews
<1> QED BY <1>1, OperatorIsSeen, SignalIsSeen, PTL
=============================================================================
