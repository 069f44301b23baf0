----------------------- MODULE ChannelRecovery_proofs -----------------------
(***************************************************************************)
(* Proofs about ChannelRecovery, for any bounds on readers, faults and     *)
(* kicks.                                                                  *)
(*                                                                         *)
(* A callback that has closed a channel, or reported the radio, has both   *)
(* queues still to close (Pending): so a runner that found its channel     *)
(* good when it entered its loop learns of its end by the closed bit, and  *)
(* a close that the unlocked q->closed = 0 overwrites is found by the      *)
(* commands that follow it.                                                *)
(***************************************************************************)
EXTENDS ChannelRecovery, TLAPS

RadioSteps == {"radio", "radioUnlessHotswap"}

\* What may be left of a callback.
Rests ==
    {<< >>, <<"prio">>, <<"normal", "prio">>}
    \cup {<<x, "normal", "prio">> : x \in RadioSteps}
    \cup {Callback(x) : x \in RadioSteps}

RestOK == \A t \in Threads : todo[t] \in Rests

Pending(s, q) == \E i \in 1 .. Len(s) : s[i] = q

LEMMA CallbackRests ==
    \A x \in RadioSteps, q \in AllQueues : Callback(x) \in Rests /\ Pending(Callback(x), q)
<1>1. ASSUME NEW x \in RadioSteps, NEW q \in AllQueues
      PROVE  Callback(x) \in Rests /\ Pending(Callback(x), q)
  <2>1. Callback(x) \in Rests
    BY DEF Rests
  <2>2. Len(Callback(x)) = 4 /\ Callback(x)[3] = "normal" /\ Callback(x)[4] = "prio"
    BY DEF Callback
  <2> QED BY <2>1, <2>2 DEF Pending, AllQueues
<1> QED BY <1>1

\* One section of a callback: what follows "close" or "radio" closes both queues.
LEMMA RestShrinks ==
    ASSUME NEW s \in Rests, s # << >>
    PROVE  /\ Tail(s) \in Rests
           /\ Head(s) \in RadioSteps \cup {"close"} \cup AllQueues
           /\ Head(s) \in RadioSteps \cup {"close"} => \A q \in AllQueues : Pending(Tail(s), q)
           /\ \A q \in AllQueues : Pending(s, q) /\ Head(s) # q => Pending(Tail(s), q)
<1>1. CASE s = <<"prio">>
  <2>1. Head(s) = "prio" /\ Tail(s) = << >> /\ Len(s) = 1 /\ s[1] = "prio"
    BY <1>1
  <2> QED BY <2>1 DEF Rests, Pending, AllQueues, RadioSteps
<1>2. CASE s = <<"normal", "prio">>
  <2>1. Head(s) = "normal" /\ Tail(s) = <<"prio">> /\ Len(Tail(s)) = 1 /\ Tail(s)[1] = "prio"
    BY <1>2
  <2> QED BY <2>1 DEF Rests, Pending, AllQueues, RadioSteps
<1>3. ASSUME NEW x \in RadioSteps, s = <<x, "normal", "prio">>
      PROVE  /\ Tail(s) \in Rests /\ Head(s) \in RadioSteps
             /\ \A q \in AllQueues : Pending(Tail(s), q)
  <2>1. Head(s) = x /\ Tail(s) = <<"normal", "prio">> /\ Len(Tail(s)) = 2
        /\ Tail(s)[1] = "normal" /\ Tail(s)[2] = "prio"
    BY <1>3
  <2>2. Tail(s) \in Rests
    BY <2>1 DEF Rests
  <2>3. 1 \in 1 .. Len(Tail(s)) /\ 2 \in 1 .. Len(Tail(s))
    BY <2>1
  <2>4. Pending(Tail(s), "normal") /\ Pending(Tail(s), "prio")
    BY <2>1, <2>3, Zenon DEF Pending
  <2> QED BY <2>4, <1>3, <2>1, <2>2 DEF AllQueues
<1>4. ASSUME NEW x \in RadioSteps, s = Callback(x)
      PROVE  /\ Tail(s) \in Rests /\ Head(s) = "close"
             /\ \A q \in AllQueues : Pending(Tail(s), q)
  <2>1. Head(s) = "close" /\ Tail(s) = <<x, "normal", "prio">> /\ Len(Tail(s)) = 3
        /\ Tail(s)[2] = "normal" /\ Tail(s)[3] = "prio"
    BY <1>4 DEF Callback
  <2>2. Tail(s) \in Rests
    BY <2>1 DEF Rests
  <2>3. 2 \in 1 .. Len(Tail(s)) /\ 3 \in 1 .. Len(Tail(s))
    BY <2>1
  <2>4. Pending(Tail(s), "normal") /\ Pending(Tail(s), "prio")
    BY <2>1, <2>3, Zenon DEF Pending
  <2> QED BY <2>4, <2>1, <2>2 DEF AllQueues
<1>5. \/ s = <<"prio">> \/ s = <<"normal", "prio">>
      \/ \E x \in RadioSteps : s = <<x, "normal", "prio">>
      \/ \E x \in RadioSteps : s = Callback(x)
  BY DEF Rests
<1>6. CASE \E x \in RadioSteps : s = <<x, "normal", "prio">>
  BY <1>3, <1>6 DEF RadioSteps
<1>7. CASE \E x \in RadioSteps : s = Callback(x)
  BY <1>4, <1>7 DEF RadioSteps
<1> QED BY <1>1, <1>2, <1>5, <1>6, <1>7

LEMMA BoundsTyped ==
    ASSUME prio \in BOOLEAN
    PROVE  /\ Limits[prio].kicks \in Nat
           /\ 1 .. Limits[prio].readers \subseteq ReaderIds
<1>1. Limits[prio] \in [readers : Nat \ {0}, faults : Nat, kicks : Nat \ {0}]
  BY ConstantAssumption
<1>2. Limits[TRUE].readers \in Nat /\ Limits[FALSE].readers \in Nat
  BY ConstantAssumption
<1>3. Limits[prio].readers = Limits[TRUE].readers \/ Limits[prio].readers = Limits[FALSE].readers
  <2>1. prio = TRUE \/ prio = FALSE
    OBVIOUS
  <2> QED BY <2>1, Zenon
<1> DEFINE a == Limits[TRUE].readers
           b == Limits[FALSE].readers
           n == Limits[prio].readers
<1>4. ReaderIds = 1 .. (IF a > b THEN a ELSE b)
  BY DEF ReaderIds
<1>5. a \in Nat /\ b \in Nat /\ (n = a \/ n = b)
  BY <1>2, <1>3
<1> HIDE DEF a, b, n
<1>6. 1 .. n \subseteq ReaderIds
  BY <1>4, <1>5
<1> QED BY <1>1, <1>6 DEF n

LEMMA RestsTyped == Rests \subseteq Seq(AllQueues \cup {"close", "radio", "radioUnlessHotswap"})
<1> DEFINE E == AllQueues \cup {"close", "radio", "radioUnlessHotswap"}
<1>1. RadioSteps \subseteq E /\ {"normal", "prio", "close"} \subseteq E
  BY DEF RadioSteps, AllQueues
<1> HIDE DEF E
<1>2. << >> \in Seq(E) /\ <<"prio">> \in Seq(E) /\ <<"normal", "prio">> \in Seq(E)
  BY <1>1
<1>3. \A x \in RadioSteps : <<x, "normal", "prio">> \in Seq(E)
  BY <1>1
<1>4. \A x \in RadioSteps : Callback(x) \in Seq(E)
  BY <1>1 DEF Callback
<1>5. Rests \subseteq Seq(E)
  BY <1>2, <1>3, <1>4 DEF Rests
<1> QED BY <1>5 DEF E

-----------------------------------------------------------------------------
(***************************************************************************)
(* The inductive invariant.                                                *)
(***************************************************************************)
\* RadioSetAfterRecovery from the moment the radio was set.
NoLateUnavailable ==
    /\ pc["normal"] \in {"channel", "prioInit", "loop", "work"}
    /\ ~closed["normal"] /\ radio = "UNAVAILABLE"
    => CloseOnItsWay("normal")

ReopenInv == TypeOK /\ RestOK /\ NoLostClose /\ NoLateUnavailable

\* Nobody forgets a close: a step that leaves the callbacks alone, or starts one.
LEMMA WayKept ==
    ASSUME TypeOK, RestOK,
           \/ UNCHANGED todo
           \/ \E t \in Threads, x \in RadioSteps : todo' = [todo EXCEPT ![t] = Callback(x)]
    PROVE  RestOK' /\ \A q \in AllQueues : CloseOnItsWay(q) => CloseOnItsWay(q)'
<1>1. CASE UNCHANGED todo
  BY <1>1 DEF RestOK, CloseOnItsWay
<1>2. ASSUME NEW t \in Threads, NEW x \in RadioSteps, todo' = [todo EXCEPT ![t] = Callback(x)]
      PROVE  RestOK' /\ \A q \in AllQueues : CloseOnItsWay(q)'
  <2>1. todo'[t] = Callback(x) /\ \A u \in Threads : u # t => todo'[u] = todo[u]
    BY <1>2 DEF TypeOK
  <2>2. RestOK'
    BY <2>1, CallbackRests DEF RestOK, AllQueues
  <2>3. ASSUME NEW q \in AllQueues PROVE CloseOnItsWay(q)'
    <3>1. Pending(todo'[t], q)
      BY <2>1, CallbackRests
    <3> QED BY <3>1, Zenon DEF Pending, CloseOnItsWay
  <2> QED BY <2>2, <2>3
<1> QED BY <1>1, <1>2

\* at_close concerns the context of its thread only.
LEMMA AtCloseTyped ==
    ASSUME TypeOK, UNCHANGED boundVars, NEW q \in AllQueues, AtClose(q)
    PROVE  /\ fd' \in [AllQueues -> FileStates]
           /\ readerClosed' \in [AllQueues -> BOOLEAN]
           /\ onReaderClosed' \in [AllQueues -> BOOLEAN]
           /\ kicks' \in [AllQueues -> 0 .. Limits[prio'].kicks]
           /\ reader' \in [AllQueues -> [ReaderIds -> Readers]]
           /\ \A p \in AllQueues \ {q} : readerClosed'[p] = readerClosed[p]
<1>1. prio' = prio /\ Limits[prio].kicks \in Nat
  BY BoundsTyped DEF TypeOK, boundVars
<1>2. CASE UNCHANGED contextVars
  BY <1>1, <1>2 DEF TypeOK, contextVars
<1>3. CASE /\ fd' = [fd EXCEPT ![q] = "none"]
           /\ readerClosed' = [readerClosed EXCEPT ![q] = TRUE]
           /\ kicks' = [kicks EXCEPT ![q] = IF @ < Limits[prio].kicks THEN @ + 1 ELSE @]
           /\ reader' = [reader EXCEPT ![q] =
                           [r \in ReaderIds |-> [reader[q][r] EXCEPT !.current = FALSE]]]
           /\ UNCHANGED onReaderClosed
  <2>1. kicks' \in [AllQueues -> 0 .. Limits[prio'].kicks]
    BY <1>1, <1>3 DEF TypeOK
  <2>2. [r \in ReaderIds |-> [reader[q][r] EXCEPT !.current = FALSE]] \in [ReaderIds -> Readers]
    <3>1. ASSUME NEW r \in ReaderIds PROVE [reader[q][r] EXCEPT !.current = FALSE] \in Readers
      <4>1. reader[q][r] \in Readers
        BY DEF TypeOK
      <4> QED BY <4>1 DEF Readers
    <3> QED BY <3>1
  <2>3. reader' \in [AllQueues -> [ReaderIds -> Readers]]
    BY <1>3, <2>2 DEF TypeOK
  <2> QED BY <1>3, <2>1, <2>3 DEF TypeOK, FileStates
<1> QED BY <1>2, <1>3 DEF AtClose

\* One section of a callback, by any thread.
LEMMA CallbackTyped ==
    ASSUME TypeOK, RestOK, NEW t \in Threads, CallbackStep(t)
    PROVE  /\ TypeOK' /\ RestOK'
           /\ UNCHANGED <<pc, prio>>
           /\ todo' = [todo EXCEPT ![t] = Tail(@)]
           /\ todo[t] \in Rests /\ todo[t] # << >>
           /\ t[1] \in AllQueues
<1>1. todo[t] \in Rests /\ todo[t] # << >> /\ t[1] \in AllQueues
  BY DEF CallbackStep, RestOK, Threads
<1>2. /\ UNCHANGED <<pc, tty, present, pending_hotswap, boundVars>>
      /\ todo' = [todo EXCEPT ![t] = Tail(@)]
  BY DEF CallbackStep
<1>3. RestOK' /\ todo' \in [Threads -> Rests]
  BY <1>1, <1>2, RestShrinks DEF RestOK, TypeOK
<1>4. todo' \in [Threads -> Seq(AllQueues \cup {"close", "radio", "radioUnlessHotswap"})]
  BY <1>3, RestsTyped
<1>5. /\ closed' \in [AllQueues -> BOOLEAN]
      /\ radio' \in {"UNAVAILABLE", "AVAILABLE"}
      /\ fd' \in [AllQueues -> FileStates]
      /\ readerClosed' \in [AllQueues -> BOOLEAN]
      /\ onReaderClosed' \in [AllQueues -> BOOLEAN]
      /\ kicks' \in [AllQueues -> 0 .. Limits[prio'].kicks]
      /\ reader' \in [AllQueues -> [ReaderIds -> Readers]]
  <2>1. CASE AtClose(t[1]) /\ UNCHANGED <<closed, radio>>
    BY <1>1, <1>2, <2>1, AtCloseTyped DEF TypeOK
  <2>2. CASE /\ Head(todo[t]) \in {"radio", "radioUnlessHotswap"}
             /\ radio' = IF Head(todo[t]) = "radio" \/ ~pending_hotswap
                         THEN "UNAVAILABLE" ELSE radio
             /\ UNCHANGED <<closed, contextVars>>
    BY <1>2, <2>2 DEF TypeOK, contextVars, boundVars
  <2>3. CASE /\ Head(todo[t]) \in AllQueues /\ MarkClosed(t, Head(todo[t]))
             /\ UNCHANGED <<contextVars, radio>>
    BY <1>2, <2>3 DEF TypeOK, contextVars, boundVars, MarkClosed
  <2> QED BY <2>1, <2>2, <2>3 DEF CallbackStep
<1> QED BY <1>1, <1>2, <1>3, <1>4, <1>5 DEF TypeOK, boundVars

\* A runner outside its callbacks.
LEMMA RunnerTyped ==
    ASSUME TypeOK, RestOK, NEW q \in AllQueues,
           RunnerStep(q), ~CallbackStep(<<q, Runner>>)
    PROVE  TypeOK' /\ RestOK'
<1> USE DEF TypeOK, RestOK, RunnerPcs, FileStates, FaultKinds, contextVars, stateVars, boundVars,
            Goto, RunnerAt
<1>1. CASE OpenDevice(q)
  BY <1>1 DEF OpenDevice
<1>2. CASE NotEmrdy(q)
  BY <1>2 DEF NotEmrdy, Fault
<1>3. CASE SelectFails(q)
  BY <1>3 DEF SelectFails
<1>4. CASE AtOpen(q)
  <2>1. PICK r \in 1 .. Limits[prio].readers :
          reader' = [reader EXCEPT ![q][r] = [at |-> "start", current |-> FALSE, hung |-> FALSE]]
    BY <1>4 DEF AtOpen
  <2>2. r \in ReaderIds
    BY BoundsTyped
  <2>3. reader' \in [AllQueues -> [ReaderIds -> Readers]]
    BY <2>1, <2>2 DEF Readers
  <2> QED BY <1>4, <2>3 DEF AtOpen
<1>5. CASE SetCallbacks(q)
  BY <1>5 DEF SetCallbacks
<1>6. CASE InitSucceeds(q)
  BY <1>6 DEF InitSucceeds, AfterInit, Initialising
<1>7. CASE InitFails(q)
  BY <1>7 DEF InitFails, Fault
<1>8. CASE TimesOut(q)
  <2>1. /\ todo' = [todo EXCEPT ![<<q, Runner>>] = Callback("radio")]
        /\ <<q, Runner>> \in Threads /\ Callback("radio") \in Rests
    BY <1>8, CallbackRests DEF TimesOut, onATTimeout, Threads, RadioSteps
  <2>2. todo' \in [Threads -> Seq(AllQueues \cup {"close", "radio", "radioUnlessHotswap"})] /\ RestOK'
    BY <2>1, RestsTyped
  <2>3. faults' \subseteq FaultKinds
    BY <1>8 DEF TimesOut, Fault
  <2> QED BY <1>8, <2>2, <2>3 DEF TimesOut
<1>9. CASE ClearClosed(q)
  BY <1>9 DEF ClearClosed, AfterInit
<1>10. CASE RadioOff(q)
  BY <1>10 DEF RadioOff
<1>11. CASE TakeWork(q)
  BY <1>11 DEF TakeWork
<1>12. CASE FinishWork(q)
  BY <1>12 DEF FinishWork
<1>13. CASE LeaveLoop(q)
  BY <1>13 DEF LeaveLoop
<1>14. CASE CloseAndRetry(q)
  BY <1>14, AtCloseTyped DEF CloseAndRetry
<1> QED BY <1>1, <1>2, <1>3, <1>4, <1>5, <1>6, <1>7, <1>8, <1>9, <1>10, <1>11, <1>12, <1>13, <1>14 DEF RunnerStep

\* Reader threads and devices, outside the callbacks.
LEMMA ReaderTyped ==
    ASSUME TypeOK, RestOK, NEW q \in AllQueues,
           \/ DeviceDies(q) \/ DeviceReturns(q)
           \/ \E r \in ReaderIds : \/ ReaderStep(q, r) /\ ~CallbackStep(<<q, r>>)
                                   \/ ReaderReadsLine(q, r)
    PROVE  TypeOK' /\ RestOK'
<1> USE DEF TypeOK, RestOK, FileStates, FaultKinds, contextVars, stateVars, boundVars
<1>1. CASE DeviceDies(q)
  <2>1. [r \in ReaderIds |-> [reader[q][r] EXCEPT !.hung = @ \/ reader[q][r].at = "poll"]]
          \in [ReaderIds -> Readers]
    <3>1. ASSUME NEW r \in ReaderIds
          PROVE  [reader[q][r] EXCEPT !.hung = @ \/ reader[q][r].at = "poll"] \in Readers
      <4>1. reader[q][r] \in Readers
        OBVIOUS
      <4>2. (reader[q][r].hung \/ reader[q][r].at = "poll") \in BOOLEAN
        BY <4>1 DEF Readers
      <4> QED BY <4>1, <4>2 DEF Readers
    <3> QED BY <3>1
  <2> QED BY <1>1, <2>1 DEF DeviceDies, Fault, Hang
<1>2. CASE DeviceReturns(q)
  BY <1>2 DEF DeviceReturns
<1>3. ASSUME NEW r \in ReaderIds, NEW new \in Readers, ReaderIs(q, r, new)
      PROVE  reader' \in [AllQueues -> [ReaderIds -> Readers]]
  BY <1>3 DEF ReaderIs
<1>4. ASSUME NEW r \in ReaderIds, LookAtFd(q, r) \/ ReaderEnds(q, r)
      PROVE  reader' \in [AllQueues -> [ReaderIds -> Readers]]
  BY <1>3, <1>4 DEF LookAtFd, ReaderEnds, Readers
<1>5. ASSUME NEW r \in ReaderIds, ReaderStarts(q, r) PROVE TypeOK' /\ RestOK'
  BY <1>4, <1>5 DEF ReaderStarts
<1>6. ASSUME NEW r \in ReaderIds, ReaderKicked(q, r) PROVE TypeOK' /\ RestOK'
  <2>1. kicks' \in [AllQueues -> 0 .. Limits[prio].kicks]
    BY <1>6, BoundsTyped DEF ReaderKicked
  <2> QED BY <1>4, <1>6, <2>1 DEF ReaderKicked
<1>7. ASSUME NEW r \in ReaderIds, ReaderHangsUp(q, r) PROVE TypeOK' /\ RestOK'
  <2>1. [at |-> "start", current |-> FALSE, hung |-> FALSE] \in Readers
    BY DEF Readers
  <2> QED BY <1>3, <1>4, <1>7, <2>1 DEF ReaderHangsUp
<1>8. ASSUME NEW r \in ReaderIds, ReaderTests(q, r) PROVE TypeOK' /\ RestOK'
  <2>1. NoReader \in Readers /\ [reader[q][r] EXCEPT !.at = "lock"] \in Readers
    <3>1. reader[q][r] \in Readers
      BY <1>8
    <3> QED BY <3>1 DEF NoReader, Readers
  <2> QED BY <1>3, <1>8, <2>1 DEF ReaderTests
<1>9. ASSUME NEW r \in ReaderIds, ReaderCalls(q, r) PROVE TypeOK' /\ RestOK'
  <2>1. [reader[q][r] EXCEPT !.at = "callback"] \in Readers
    <3>1. reader[q][r] \in Readers
      BY <1>9
    <3> QED BY <3>1 DEF Readers
  <2>2. /\ todo' = [todo EXCEPT ![<<q, r>>] = Callback("radioUnlessHotswap")]
        /\ <<q, r>> \in Threads /\ Callback("radioUnlessHotswap") \in Rests
    BY <1>9, CallbackRests DEF ReaderCalls, onATReaderClosed, Threads, RadioSteps
  <2>3. /\ todo' \in [Threads -> Seq(AllQueues \cup {"close", "radio", "radioUnlessHotswap"})]
        /\ RestOK'
    BY <2>2, RestsTyped
  <2> QED BY <1>3, <1>9, <2>1, <2>3 DEF ReaderCalls
<1>10. ASSUME NEW r \in ReaderIds, ReaderExits(q, r) PROVE TypeOK' /\ RestOK'
  BY <1>3, <1>10 DEF ReaderExits, NoReader, Readers
<1>11. ASSUME NEW r \in ReaderIds, ReaderReadsLine(q, r) PROVE TypeOK' /\ RestOK'
  <2>1. [at |-> "start", current |-> FALSE, hung |-> FALSE] \in Readers
    BY DEF Readers
  <2> QED BY <1>3, <1>11, <2>1 DEF ReaderReadsLine, Fault
<1> QED BY <1>1, <1>2, <1>5, <1>6, <1>7, <1>8, <1>9, <1>10, <1>11 DEF ReaderStep

-----------------------------------------------------------------------------
(***************************************************************************)
(* No close is lost, and no late RADIO_UNAVAILABLE stays.                  *)
(***************************************************************************)
\* The section of a callback that closes a queue may be gone: then the queue is
\* closed.  The sections before it have the rest to follow.
LEMMA CallbackCloses ==
    ASSUME ReopenInv, NEW t \in Threads, CallbackStep(t)
    PROVE  ReopenInv'
<1> DEFINE step == Head(todo[t])
<1>1. /\ TypeOK /\ RestOK /\ TypeOK' /\ RestOK'
      /\ UNCHANGED <<pc, prio>>
      /\ todo' = [todo EXCEPT ![t] = Tail(@)]
      /\ todo[t] \in Rests /\ todo[t] # << >>
      /\ t[1] \in AllQueues
  BY CallbackTyped DEF ReopenInv
<1>2. /\ todo'[t] = Tail(todo[t])
      /\ \A u \in Threads : u # t => todo'[u] = todo[u]
  BY <1>1 DEF TypeOK
<1>3. CASE step \in RadioSteps \cup {"close"}
  <2>1. \A q \in AllQueues : CloseOnItsWay(q)'
    <3>1. ASSUME NEW q \in AllQueues PROVE Pending(todo'[t], q)
      BY <1>1, <1>2, <1>3, RestShrinks
    <3> QED BY <3>1, Zenon DEF Pending, CloseOnItsWay
  <2> QED BY <1>1, <2>1 DEF ReopenInv, NoLostClose, NoLateUnavailable, AllQueues
<1>4. CASE step \in AllQueues
  <2>1. /\ closed' = [closed EXCEPT ![step] = TRUE]
        /\ UNCHANGED <<contextVars, radio>>
    BY <1>4 DEF CallbackStep, MarkClosed, AllQueues
  <2>2. ASSUME NEW q \in AllQueues, q # step, CloseOnItsWay(q)
        PROVE  CloseOnItsWay(q)'
    <3>1. PICK u \in Threads : Pending(todo[u], q)
      BY <2>2, Zenon DEF CloseOnItsWay, Pending
    <3>2. CASE u = t
      <4>1. Pending(todo'[t], q)
        BY <1>1, <1>2, <2>2, <3>1, <3>2, RestShrinks
      <4> QED BY <4>1, Zenon DEF Pending, CloseOnItsWay
    <3>3. CASE u # t
      <4>1. Pending(todo'[u], q)
        BY <1>2, <3>1, <3>3
      <4> QED BY <4>1, Zenon DEF Pending, CloseOnItsWay
    <3> QED BY <3>2, <3>3
  <2>3. closed'[step] /\ \A q \in AllQueues : q # step => closed'[q] = closed[q]
    BY <1>1, <1>4, <2>1 DEF TypeOK
  <2>4. NoLostClose'
    <3>1. ASSUME NEW q \in AllQueues, Serving(q)', ~closed'[q], readerClosed'[q]
          PROVE  CloseOnItsWay(q)'
      <4>1. q # step /\ ~closed[q] /\ readerClosed[q] /\ Serving(q)
        BY <1>1, <2>1, <2>3, <3>1 DEF contextVars, Serving
      <4> QED BY <2>2, <4>1 DEF ReopenInv, NoLostClose
    <3> QED BY <3>1 DEF NoLostClose
  <2>5. NoLateUnavailable'
    <3>1. ASSUME pc'["normal"] \in {"channel", "prioInit", "loop", "work"},
                 ~closed'["normal"], radio' = "UNAVAILABLE"
          PROVE  CloseOnItsWay("normal")'
      <4>1. /\ "normal" # step /\ ~closed["normal"] /\ radio = "UNAVAILABLE"
            /\ pc["normal"] \in {"channel", "prioInit", "loop", "work"}
        BY <1>1, <2>1, <2>3, <3>1 DEF AllQueues
      <4> QED BY <2>2, <4>1 DEF ReopenInv, NoLateUnavailable, AllQueues
    <3> QED BY <3>1 DEF NoLateUnavailable
  <2> QED BY <1>1, <2>4, <2>5 DEF ReopenInv
<1> QED BY <1>1, <1>3, <1>4, RestShrinks DEF RadioSteps

\* A runner outside its callbacks: it enters its loop with a channel that is up, and
\* its initialisation with a radio that is set.
LEMMA RunnerCloses ==
    ASSUME ReopenInv, NEW q \in AllQueues, RunnerStep(q), ~CallbackStep(<<q, Runner>>)
    PROVE  ReopenInv'
<1>1. TypeOK /\ RestOK /\ TypeOK' /\ RestOK'
  BY RunnerTyped DEF ReopenInv
<1>2. pc' = [pc EXCEPT ![q] = pc'[q]] /\ \A p \in AllQueues : p # q => pc'[p] = pc[p]
  <2>1. \E label : pc' = [pc EXCEPT ![q] = label]
    BY Zenon DEF RunnerStep, OpenDevice, NotEmrdy, SelectFails, AtOpen, SetCallbacks, InitSucceeds,
        InitFails, TimesOut, ClearClosed, RadioOff, TakeWork, FinishWork, LeaveLoop,
        CloseAndRetry, Goto
  <2> QED BY <1>1, <2>1 DEF TypeOK
<1>3. \A p \in AllQueues : CloseOnItsWay(p) => CloseOnItsWay(p)'
  <2>1. \/ UNCHANGED todo
        \/ todo' = [todo EXCEPT ![<<q, Runner>>] = Callback("radio")]
    BY DEF RunnerStep, OpenDevice, NotEmrdy, SelectFails, AtOpen, SetCallbacks, InitSucceeds,
        InitFails, TimesOut, ClearClosed, RadioOff, TakeWork, FinishWork, LeaveLoop,
        CloseAndRetry, onATTimeout
  <2>2. <<q, Runner>> \in Threads /\ "radio" \in RadioSteps
    BY DEF Threads, RadioSteps
  <2> QED BY <1>1, <2>1, <2>2, WayKept
<1> USE DEF TypeOK, RunnerAt, Goto, contextVars, stateVars
<1>4. NoLostClose'
  <2>1. ASSUME NEW p \in AllQueues, p # q,
               Serving(p)', ~closed'[p], readerClosed'[p]
        PROVE  CloseOnItsWay(p)'
    <3>1. closed'[p] = closed[p]
      BY <1>1, <2>1 DEF RunnerStep, OpenDevice, NotEmrdy, SelectFails, AtOpen, SetCallbacks,
          InitSucceeds, InitFails, TimesOut, ClearClosed, RadioOff, TakeWork, FinishWork,
          LeaveLoop, CloseAndRetry
    <3>2. readerClosed'[p] = readerClosed[p]
      BY <1>1, <2>1 DEF RunnerStep, OpenDevice, NotEmrdy, SelectFails, AtOpen, SetCallbacks,
          InitSucceeds, InitFails, TimesOut, ClearClosed, RadioOff, TakeWork, FinishWork,
          LeaveLoop, CloseAndRetry, AtClose
    <3> QED BY <1>2, <1>3, <2>1, <3>1, <3>2 DEF ReopenInv, NoLostClose, Serving
  <2>2. ASSUME Serving(q)', ~closed'[q], readerClosed'[q]
        PROVE  CloseOnItsWay(q)'
    <3>1. CASE InitSucceeds(q)
      BY <2>2, <3>1 DEF InitSucceeds, ChannelUp
    <3>2. CASE TimesOut(q)
      <4>1. Serving(q) /\ UNCHANGED <<closed, readerClosed>>
        BY <1>1, <2>2, <3>2 DEF TimesOut, Serving
      <4> QED BY <1>3, <2>2, <4>1 DEF ReopenInv, NoLostClose
    <3>3. CASE TakeWork(q) \/ FinishWork(q)
      <4>1. Serving(q) /\ UNCHANGED <<closed, readerClosed>>
        BY <1>1, <2>2, <3>3 DEF TakeWork, FinishWork, Serving
      <4> QED BY <1>3, <2>2, <4>1 DEF ReopenInv, NoLostClose
    <3>4. CASE \/ OpenDevice(q) \/ NotEmrdy(q) \/ SelectFails(q) \/ AtOpen(q)
               \/ SetCallbacks(q) \/ InitFails(q) \/ RadioOff(q) \/ LeaveLoop(q)
               \/ CloseAndRetry(q)
      BY <1>1, <2>2, <3>4 DEF OpenDevice, NotEmrdy, SelectFails, AtOpen, SetCallbacks, InitFails,
          RadioOff, LeaveLoop, CloseAndRetry, Serving
    <3>5. CASE ClearClosed(q)
      BY <1>1, <2>2, <3>5 DEF ClearClosed, AfterInit, Serving
    <3> QED BY <3>1, <3>2, <3>3, <3>4, <3>5 DEF RunnerStep
  <2> QED BY <2>1, <2>2 DEF NoLostClose
<1>5. NoLateUnavailable'
  <2>1. SUFFICES ASSUME pc'["normal"] \in {"channel", "prioInit", "loop", "work"},
                        ~closed'["normal"], radio' = "UNAVAILABLE"
                 PROVE  CloseOnItsWay("normal")'
    BY DEF NoLateUnavailable
  <2>2. radio = "UNAVAILABLE" /\ ~RadioOff(q)
    BY <2>1 DEF RunnerStep, OpenDevice, NotEmrdy, SelectFails, AtOpen, SetCallbacks,
        InitSucceeds, InitFails, TimesOut, ClearClosed, RadioOff, TakeWork, FinishWork,
        LeaveLoop, CloseAndRetry
  <2>3. CASE q # "normal"
    <3>1. pc'["normal"] = pc["normal"] /\ closed'["normal"] = closed["normal"]
      BY <1>1, <1>2, <2>3 DEF AllQueues, RunnerStep, OpenDevice, NotEmrdy, SelectFails, AtOpen,
          SetCallbacks, InitSucceeds, InitFails, TimesOut, ClearClosed, RadioOff, TakeWork,
          FinishWork, LeaveLoop, CloseAndRetry
    <3> QED BY <1>3, <2>1, <2>2, <3>1 DEF ReopenInv, NoLateUnavailable, AllQueues
  <2>4. CASE q = "normal"
    <3>1. CASE InitSucceeds(q) \/ TimesOut(q) \/ TakeWork(q) \/ FinishWork(q)
      <4>1. /\ pc["normal"] \in {"channel", "prioInit", "loop", "work"}
            /\ UNCHANGED closed
        BY <1>1, <2>1, <2>4, <3>1 DEF InitSucceeds, TimesOut, TakeWork, FinishWork, AfterInit,
            Initialising
      <4> QED BY <1>3, <2>1, <2>2, <4>1 DEF ReopenInv, NoLateUnavailable, AllQueues
    <3>2. CASE \/ OpenDevice(q) \/ NotEmrdy(q) \/ SelectFails(q) \/ AtOpen(q)
               \/ SetCallbacks(q) \/ InitFails(q) \/ LeaveLoop(q) \/ CloseAndRetry(q)
      BY <1>1, <2>1, <2>4, <3>2 DEF OpenDevice, NotEmrdy, SelectFails, AtOpen, SetCallbacks,
          InitFails, LeaveLoop, CloseAndRetry
    <3>3. CASE ClearClosed(q)
      BY <1>1, <2>1, <2>4, <3>3 DEF ClearClosed, AfterInit
    <3> QED BY <2>2, <3>1, <3>2, <3>3 DEF RunnerStep
  <2> QED BY <2>3, <2>4
<1> QED BY <1>1, <1>4, <1>5 DEF ReopenInv

\* Reader threads and devices: a reader that marks its channel closed is going to
\* close both queues.
LEMMA ReaderCloses ==
    ASSUME ReopenInv, NEW q \in AllQueues,
           \/ DeviceDies(q) \/ DeviceReturns(q)
           \/ \E r \in ReaderIds : \/ ReaderStep(q, r) /\ ~CallbackStep(<<q, r>>)
                                   \/ ReaderReadsLine(q, r)
    PROVE  ReopenInv'
<1>1. TypeOK /\ RestOK /\ TypeOK' /\ RestOK'
  BY ReaderTyped DEF ReopenInv
<1>2. UNCHANGED <<pc, closed, radio>>
  BY DEF DeviceDies, DeviceReturns, ReaderStep, ReaderStarts, ReaderKicked, ReaderHangsUp,
      ReaderTests, ReaderCalls, ReaderExits, ReaderReadsLine, stateVars
<1>3. CASE \E r \in ReaderIds : ReaderCalls(q, r)
  <2>1. PICK r \in ReaderIds : ReaderCalls(q, r)
    BY <1>3
  <2>2. <<q, r>> \in Threads /\ "radioUnlessHotswap" \in RadioSteps
    BY DEF Threads, RadioSteps
  <2>3. todo'[<<q, r>>] = Callback("radioUnlessHotswap")
    BY <1>1, <2>1, <2>2 DEF ReaderCalls, onATReaderClosed, TypeOK
  <2>4. ASSUME NEW p \in AllQueues PROVE CloseOnItsWay(p)'
    <3>1. Pending(todo'[<<q, r>>], p)
      BY <2>2, <2>3, CallbackRests
    <3> QED BY <2>2, <3>1, Zenon DEF Pending, CloseOnItsWay
  <2> QED BY <1>1, <2>4 DEF ReopenInv, NoLostClose, NoLateUnavailable, AllQueues
<1>4. CASE ~ \E r \in ReaderIds : ReaderCalls(q, r)
  <2>1. UNCHANGED <<todo, readerClosed>>
    BY <1>4 DEF DeviceDies, DeviceReturns, ReaderStep, ReaderStarts, ReaderKicked, ReaderHangsUp,
      ReaderTests, ReaderExits, ReaderReadsLine, contextVars
  <2>2. \A p \in AllQueues : CloseOnItsWay(p) => CloseOnItsWay(p)'
    BY <1>1, <2>1, WayKept
  <2>3. NoLostClose'
    BY <1>2, <2>1, <2>2 DEF ReopenInv, NoLostClose, Serving
  <2>4. NoLateUnavailable'
    BY <1>2, <2>1, <2>2 DEF ReopenInv, NoLateUnavailable, AllQueues
  <2> QED BY <1>1, <2>3, <2>4 DEF ReopenInv
<1> QED BY <1>3, <1>4

-----------------------------------------------------------------------------
LEMMA ReopenInvHolds == Spec => []ReopenInv
<1>1. Init => ReopenInv
  <2> SUFFICES ASSUME Init PROVE ReopenInv
    OBVIOUS
  <2>1. TypeOK
    <3>1. Limits[prio].kicks \in Nat
      BY BoundsTyped DEF Init
    <3>2. [q \in AllQueues |-> [r \in ReaderIds |-> NoReader]] \in [AllQueues -> [ReaderIds -> Readers]]
      BY DEF NoReader, Readers
    <3>3. kicks \in [AllQueues -> 0 .. Limits[prio].kicks]
      BY <3>1 DEF Init
    <3>4. todo \in [Threads -> Seq(AllQueues \cup {"close", "radio", "radioUnlessHotswap"})]
      <4>1. << >> \in Seq(AllQueues \cup {"close", "radio", "radioUnlessHotswap"})
        OBVIOUS
      <4> QED BY <4>1 DEF Init
    <3>5. reader \in [AllQueues -> [ReaderIds -> Readers]]
      BY <3>2 DEF Init
    <3>6. pc \in [AllQueues -> RunnerPcs]
      BY DEF Init, RunnerPcs
    <3> QED BY <3>3, <3>4, <3>5, <3>6 DEF Init, TypeOK, FileStates
  <2>2. RestOK
    BY DEF Init, RestOK, Rests
  <2>3. NoLostClose /\ NoLateUnavailable
    BY DEF Init, NoLostClose, NoLateUnavailable, AllQueues
  <2> QED BY <2>1, <2>2, <2>3 DEF ReopenInv
<1>2. ReopenInv /\ [Next]_vars => ReopenInv'
  <2> SUFFICES ASSUME ReopenInv, [Next]_vars PROVE ReopenInv'
    OBVIOUS
  <2>1. ASSUME NEW q \in Queues, RunnerStep(q) PROVE ReopenInv'
    <3>1. q \in AllQueues /\ <<q, Runner>> \in Threads
      BY DEF Queues, AllQueues, Threads
    <3> QED BY <2>1, <3>1, RunnerCloses, CallbackCloses
  <2>2. ASSUME NEW q \in Queues, DeviceDies(q) \/ DeviceReturns(q) PROVE ReopenInv'
    BY <2>2, ReaderCloses DEF Queues, AllQueues
  <2>3. ASSUME NEW q \in Queues, NEW r \in ReaderIds, ReaderStep(q, r) \/ ReaderReadsLine(q, r)
        PROVE  ReopenInv'
    <3>1. q \in AllQueues /\ <<q, r>> \in Threads
      BY DEF Queues, AllQueues, Threads
    <3> QED BY <2>3, <3>1, ReaderCloses, CallbackCloses
  <2>4. CASE AllGone \/ UNCHANGED vars
    BY <2>4, WayKept DEF AllGone, vars, contextVars, stateVars, boundVars, ReopenInv, TypeOK,
        NoLostClose, NoLateUnavailable, Serving, AllQueues
  <2> QED BY <2>1, <2>2, <2>3, <2>4 DEF Next
<1> QED BY <1>1, <1>2, PTL DEF Spec

\* A runner that serves an open queue whose channel was closed is about to be told: the
\* unlocked q->closed = 0 of queueRunner loses no close of the runner's own session.
THEOREM RecoveryCorrect == Spec => []RecoveryInv
<1>1. ReopenInv => RecoveryInv
  BY DEF ReopenInv, RecoveryInv
<1> QED BY <1>1, ReopenInvHolds, PTL

\* RADIO_UNAVAILABLE, set by a late callback of any thread, never outlives the recovery:
\* the callback goes on to close the normal queue.
THEOREM RadioIsSet == Spec => []RadioSetAfterRecovery
<1>1. ReopenInv => RadioSetAfterRecovery
  BY DEF ReopenInv, RadioSetAfterRecovery, NoLateUnavailable, Serving
<1> QED BY <1>1, ReopenInvHolds, PTL
=============================================================================
