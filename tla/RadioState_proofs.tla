-------------------------- MODULE RadioState_proofs --------------------------
(***************************************************************************)
(* Proofs about RadioState, for a daemon with or without a prio queue, any *)
(* scenarios and any number of delayed events.                             *)
(*                                                                         *)
(* What is left of a handler is a sequence of operations.  Three things in *)
(* it keep a promise about the radio state: an announcement informs the    *)
(* framework, a poll asks the SIM, and onSIMReady prepares it.  A step of  *)
(* a thread replaces the first operation of its handler by others, and     *)
(* keeps each promise either in the handler, or in a queue, or at once.    *)
(***************************************************************************)
EXTENDS RadioState, SequenceTheorems, TLAPS

Args == RadioStates \cup Events \cup {"", "on", "off", "shutdown"}

\* An operation with an argument that fits it.
Steps ==
    {s \in [op : Operations, arg : Args] :
        /\ s.op \in {"set", "changed?"} => s.arg \in RadioStates
        /\ s.op = "enqueue" => s.arg \in Events
        /\ s.op \in {"power", "AT+CFUN"} => s.arg \in {"on", "off", "shutdown"}}

\* What may be left of a handler: the framework is never informed without the events of a new
\* state after that.
Handlers ==
    {s \in Seq(Steps) :
        \A i \in 1 .. Len(s) : s[i].op = "notify" => i + 1 \in 1 .. Len(s) /\ s[i + 1].op = "ready?"}

HandlersOK == todo \in [Threads -> Handlers]

\* TypeOK without the handlers.
StateTypeOK ==
    /\ sState \in RadioStates /\ known \in RadioStates
    /\ eventList \in [Runners -> Seq(Events)]
    /\ delayed \in [{"poll", "storage"} -> 0 .. MaxRepolls]
    /\ closed \in [Runners -> BOOLEAN] /\ open \in [Runners -> BOOLEAN]
    /\ down \in BOOLEAN /\ sim_hotswap \in BOOLEAN /\ s_simRemoved \in BOOLEAN
    /\ s_simResetting \in BOOLEAN /\ enabled \in BOOLEAN /\ prepared \in BOOLEAN
    /\ esimsr \in BOOLEAN
    /\ sim \in SimStates
    /\ urcs \in Seq(Lines)
    /\ simChanges \in Nat /\ powers \in Nat /\ deaths \in Nat /\ failures \in Nat

\* A handler that has an operation ahead, or the call that enqueues it; one that begins with an
\* operation; one that begins with the test of a change that did happen.
Has(s, ops) ==
    \E i \in 1 .. Len(s) : s[i].op \in ops \/ (s[i].op = "enqueue" /\ s[i].arg \in ops)
Begins(s, ops) == s # << >> /\ Head(s).op \in ops
BeginsWith(s, op, state) == s # << >> /\ Head(s).op = op /\ Head(s).arg # state

PollOps == {"poll", "pollAnyway", "getSIMStatus", "AT+CPIN?", "pollLater"}

Informs(s, state) == Begins(s, {"notify"}) \/ BeginsWith(s, "changed?", state)
Polls(s) ==
    \/ Has(s, PollOps)
    \/ Begins(s, {"notify", "ready?", "notReady?"})
    \/ BeginsWith(s, "changed?", "SIM_NOT_READY") \/ BeginsWith(s, "set", "SIM_NOT_READY")
Prepares(s) ==
    \/ Has(s, {"simReady"})
    \/ Begins(s, {"notify", "ready?"})
    \/ BeginsWith(s, "changed?", "SIM_READY")

Queued(ops) == \E q \in Runners : \E i \in 1 .. Len(eventList[q]) : eventList[q][i] \in ops

\* The three promises.
Informed == known # sState => \E t \in Threads : Informs(todo[t], sState)
Polled ==
    sState = "SIM_NOT_READY" =>
        Queued(PollOps) \/ delayed["poll"] > 0 \/ \E t \in Threads : Polls(todo[t])
Prepared ==
    sState = "SIM_READY" =>
        prepared \/ Queued({"simReady"}) \/ \E t \in Threads : Prepares(todo[t])

RadioInvariant == StateTypeOK /\ HandlersOK /\ Informed /\ Polled /\ Prepared

LEMMA Promises ==
    ASSUME RadioInvariant
    PROVE  RadioInv /\ FrameworkInformed /\ ReadyIsPrepared
<1>1. TypeOK
  <2>1. todo \in [Threads -> Seq([op : Operations, arg : Args])]
    <3>1. Steps \subseteq [op : Operations, arg : Args]
      BY DEF Steps
    <3>2. ASSUME NEW s \in Handlers
          PROVE  s \in Seq([op : Operations, arg : Args])
      <4>1. s \in Seq(Steps)
        BY DEF Handlers
      <4> QED BY <3>1, <4>1, SeqMonotonic
    <3> QED BY <3>2 DEF RadioInvariant, HandlersOK
  <2> QED BY <2>1 DEF RadioInvariant, StateTypeOK, TypeOK, Args
<1>2. FrameworkInformed
  BY DEF RadioInvariant, Informed, FrameworkInformed, Informs, Begins, BeginsWith, Announcing, At, Arg, Idle
<1>3. NotReadyIsPolled
  <2>1. SUFFICES ASSUME sState = "SIM_NOT_READY", NEW t \in Threads, Polls(todo[t])
                 PROVE  NotReadyIsPolled
    BY DEF RadioInvariant, Polled, NotReadyIsPolled, Queued, PollOps, Ahead
  <2>2. CASE Has(todo[t], PollOps)
    BY <2>2 DEF Has, PollOps, NotReadyIsPolled, Ahead
  <2>3. CASE Begins(todo[t], {"notify", "ready?", "notReady?"})
             \/ BeginsWith(todo[t], "changed?", "SIM_NOT_READY")
    BY <2>1, <2>3 DEF Begins, BeginsWith, NotReadyIsPolled, Announcing, At, Arg, Idle
  <2>4. CASE BeginsWith(todo[t], "set", "SIM_NOT_READY")
    BY <2>4 DEF BeginsWith, NotReadyIsPolled, At, Arg, Idle
  <2> QED BY <2>1, <2>2, <2>3, <2>4 DEF Polls
<1>4. ReadyIsPrepared
  <2>1. SUFFICES ASSUME sState = "SIM_READY", NEW t \in Threads, Prepares(todo[t])
                 PROVE  ReadyIsPrepared
    BY DEF RadioInvariant, Prepared, ReadyIsPrepared, Queued, Ahead
  <2>2. CASE Has(todo[t], {"simReady"})
    BY <2>2 DEF Has, ReadyIsPrepared, Ahead
  <2>3. CASE Begins(todo[t], {"notify", "ready?"}) \/ BeginsWith(todo[t], "changed?", "SIM_READY")
    BY <2>1, <2>3 DEF Begins, BeginsWith, ReadyIsPrepared, Announcing, At, Arg, Idle
  <2> QED BY <2>1, <2>2, <2>3 DEF Prepares
<1> QED BY <1>1, <1>2, <1>3, <1>4 DEF RadioInv

-----------------------------------------------------------------------------
(***************************************************************************)
(* Handlers: their parts, and one step of one.                             *)
(***************************************************************************)
LEMMA EmptyHandler == << >> \in Handlers
  BY EmptySeq DEF Handlers

LEMMA OneStep ==
    ASSUME NEW s \in Steps, s.op # "notify"
    PROVE  <<s>> \in Handlers
  BY DEF Handlers

LEMMA ConcatHandlers ==
    ASSUME NEW s1 \in Handlers, NEW s2 \in Handlers
    PROVE  s1 \o s2 \in Handlers
<1>1. /\ s1 \in Seq(Steps) /\ s2 \in Seq(Steps)
      /\ Len(s1) \in Nat /\ Len(s2) \in Nat
  BY LenProperties DEF Handlers
<1>2. /\ s1 \o s2 \in Seq(Steps) /\ Len(s1 \o s2) = Len(s1) + Len(s2)
      /\ \A i \in 1 .. Len(s1) + Len(s2) :
            (s1 \o s2)[i] = IF i <= Len(s1) THEN s1[i] ELSE s2[i - Len(s1)]
  BY <1>1, ConcatProperties
<1>3. ASSUME NEW i \in 1 .. Len(s1 \o s2), (s1 \o s2)[i].op = "notify"
      PROVE  i + 1 \in 1 .. Len(s1 \o s2) /\ (s1 \o s2)[i + 1].op = "ready?"
  <2>1. CASE i <= Len(s1)
    <3>1. s1[i].op = "notify" /\ i \in 1 .. Len(s1)
      BY <1>1, <1>2, <1>3, <2>1
    <3>2. i + 1 \in 1 .. Len(s1) /\ s1[i + 1].op = "ready?"
      BY <3>1 DEF Handlers
    <3> QED BY <1>1, <1>2, <3>2
  <2>2. CASE i > Len(s1)
    <3> DEFINE j == i - Len(s1)
    <3>1. s2[j].op = "notify" /\ j \in 1 .. Len(s2)
      BY <1>1, <1>2, <1>3, <2>2
    <3>2. j + 1 \in 1 .. Len(s2) /\ s2[j + 1].op = "ready?"
      BY <3>1 DEF Handlers
    <3>3. i + 1 \in 1 .. Len(s1) + Len(s2) /\ i + 1 > Len(s1) /\ (i + 1) - Len(s1) = j + 1
      BY <1>1, <1>2, <2>2, <3>2
    <3> QED BY <1>2, <1>1, <3>2, <3>3
  <2> QED BY <1>1, <1>2, <2>1, <2>2
<1> QED BY <1>2, <1>3 DEF Handlers

LEMMA TailHandler ==
    ASSUME NEW s \in Handlers, s # << >>
    PROVE  /\ Head(s) \in Steps /\ Head(s) = s[1]
           /\ Tail(s) \in Handlers /\ Len(Tail(s)) = Len(s) - 1 /\ Len(s) \in Nat \ {0}
           /\ \A i \in 1 .. Len(Tail(s)) : Tail(s)[i] = s[i + 1]
<1>1. s \in Seq(Steps) /\ Len(s) \in Nat \ {0}
  BY EmptySeq DEF Handlers
<1>2. /\ Head(s) \in Steps /\ Tail(s) \in Seq(Steps) /\ Len(Tail(s)) = Len(s) - 1
      /\ \A i \in 1 .. Len(Tail(s)) : Tail(s)[i] = s[i + 1]
  BY <1>1, HeadTailProperties
<1>3. Head(s) = s[1]
  BY <1>1
<1>4. ASSUME NEW i \in 1 .. Len(Tail(s)), Tail(s)[i].op = "notify"
      PROVE  i + 1 \in 1 .. Len(Tail(s)) /\ Tail(s)[i + 1].op = "ready?"
  <2>1. s[i + 1].op = "notify" /\ i + 1 \in 1 .. Len(s)
    BY <1>1, <1>2, <1>4
  <2>2. (i + 1) + 1 \in 1 .. Len(s) /\ s[(i + 1) + 1].op = "ready?"
    BY <2>1 DEF Handlers
  <2> QED BY <1>1, <1>2, <2>2
<1> QED BY <1>1, <1>2, <1>3, <1>4 DEF Handlers

\* What an operation leads to comes before the rest of its handler, which is kept.
LEMMA StepOfHandler ==
    ASSUME NEW s \in Handlers, s # << >>, NEW steps \in Handlers
    PROVE  /\ steps \o Tail(s) \in Handlers
           /\ \A ops : Has(steps, ops) => Has(steps \o Tail(s), ops)
           /\ \A ops : /\ Has(s, ops) /\ Head(s).op \notin ops
                       /\ Head(s).op = "enqueue" => Head(s).arg \notin ops
                       => Has(steps \o Tail(s), ops)
           /\ steps # << >> => steps \o Tail(s) # << >> /\ Head(steps \o Tail(s)) = Head(steps)
           /\ Head(s).op = "notify" /\ steps = << >> => Begins(steps \o Tail(s), {"ready?"})
<1> DEFINE r == steps \o Tail(s)
<1>1. /\ Head(s) \in Steps /\ Head(s) = s[1] /\ s \in Seq(Steps)
      /\ Tail(s) \in Handlers /\ Len(Tail(s)) = Len(s) - 1 /\ Len(s) \in Nat \ {0}
      /\ \A i \in 1 .. Len(Tail(s)) : Tail(s)[i] = s[i + 1]
  BY TailHandler DEF Handlers
<1>2. r \in Handlers
  BY <1>1, ConcatHandlers
<1>3. steps \in Seq(Steps) /\ Tail(s) \in Seq(Steps) /\ Len(steps) \in Nat
  BY <1>1, LenProperties DEF Handlers
<1>4. /\ r \in Seq(Steps) /\ Len(r) = Len(steps) + Len(Tail(s))
      /\ \A i \in 1 .. Len(steps) + Len(Tail(s)) :
            r[i] = IF i <= Len(steps) THEN steps[i] ELSE Tail(s)[i - Len(steps)]
  BY <1>3, ConcatProperties
<1>5. ASSUME NEW ops, Has(steps, ops)
      PROVE  Has(r, ops)
  <2>1. PICK i \in 1 .. Len(steps) :
               steps[i].op \in ops \/ (steps[i].op = "enqueue" /\ steps[i].arg \in ops)
    BY <1>5 DEF Has
  <2>2. i \in 1 .. Len(r) /\ r[i] = steps[i]
    BY <1>1, <1>3, <1>4
  <2> QED BY <2>1, <2>2 DEF Has
<1>6. ASSUME NEW ops, Has(s, ops), Head(s).op \notin ops,
             Head(s).op = "enqueue" => Head(s).arg \notin ops
      PROVE  Has(r, ops)
  <2>1. PICK i \in 1 .. Len(s) : s[i].op \in ops \/ (s[i].op = "enqueue" /\ s[i].arg \in ops)
    BY <1>6 DEF Has
  <2>2. i # 1
    BY <1>1, <1>6, <2>1
  <2> DEFINE j == Len(steps) + (i - 1)
  <2>3. i - 1 \in 1 .. Len(Tail(s)) /\ Tail(s)[i - 1] = s[i]
    BY <1>1, <2>2
  <2>4. j \in 1 .. Len(r) /\ r[j] = Tail(s)[i - 1]
    BY <1>3, <1>4, <2>3
  <2> QED BY <2>1, <2>3, <2>4 DEF Has
<1>7. ASSUME steps # << >>
      PROVE  r # << >> /\ Head(r) = Head(steps)
  <2>1. Len(steps) > 0 /\ Head(steps) = steps[1]
    BY <1>3, <1>7, EmptySeq
  <2>2. Len(r) > 0 /\ r[1] = steps[1]
    BY <1>1, <1>3, <1>4, <2>1
  <2> QED BY <1>4, <2>1, <2>2
<1>8. ASSUME Head(s).op = "notify", steps = << >>
      PROVE  Begins(r, {"ready?"})
  <2>1. 1 \in 1 .. Len(s) /\ s[1].op = "notify"
    BY <1>1, <1>8
  <2>2. 2 \in 1 .. Len(s) /\ s[2].op = "ready?"
    BY <2>1 DEF Handlers
  <2>3. Len(r) > 0 /\ r[1] = s[2]
    BY <1>1, <1>3, <1>4, <1>8, <2>2
  <2> QED BY <1>4, <2>2, <2>3 DEF Begins
<1> QED BY <1>2, <1>5, <1>6, <1>7, <1>8

LEMMA OneHas ==
    ASSUME NEW s \in Steps, NEW ops, s.op \in ops
    PROVE  Has(<<s>>, ops)
<1>1. Len(<<s>>) = 1 /\ <<s>>[1] = s
  OBVIOUS
<1> QED BY <1>1 DEF Has

LEMMA TwoSteps ==
    ASSUME NEW a \in Steps, NEW b \in Steps
    PROVE  /\ <<a>> \o <<b>> \in Seq(Steps) /\ Len(<<a>> \o <<b>>) = 2
           /\ <<a>> \o <<b>> # << >> /\ Head(<<a>> \o <<b>>) = a
           /\ (<<a>> \o <<b>>)[1] = a /\ (<<a>> \o <<b>>)[2] = b
<1>1. <<a>> \in Seq(Steps) /\ <<b>> \in Seq(Steps) /\ Len(<<a>>) = 1 /\ Len(<<b>>) = 1
  OBVIOUS
<1>2. /\ <<a>> \o <<b>> \in Seq(Steps) /\ Len(<<a>> \o <<b>>) = 2
      /\ \A i \in 1 .. 2 : (<<a>> \o <<b>>)[i] = IF i <= 1 THEN <<a>>[i] ELSE <<b>>[i - 1]
  BY <1>1, ConcatProperties
<1>3. (<<a>> \o <<b>>)[1] = a /\ (<<a>> \o <<b>>)[2] = b
  BY <1>2
<1>4. <<a>> \o <<b>> # << >>
  BY <1>2, EmptySeq
<1> QED BY <1>2, <1>3, <1>4

\* The operations that handlers begin with or lead to.
LEMMA Parts ==
    /\ \A op \in Operations \ {"set", "changed?", "enqueue", "power", "AT+CFUN", "notify"} :
          Do(op) \in Handlers /\ Do(op) # << >> /\ Head(Do(op)).op = op
    /\ \A x \in RadioStates :
          /\ setRadioState(x) \in Handlers /\ setRadioState(x) # << >>
          /\ Head(setRadioState(x)) = Step("set", x)
          /\ <<Step("changed?", x)>> \in Handlers
    /\ \A e \in Events : Then(e) \in Handlers
    /\ \A x \in {"on", "off", "shutdown"} :
          <<Step("power", x)>> \in Handlers /\ <<Step("AT+CFUN", x)>> \in Handlers
    /\ Announce \in Handlers /\ Announce # << >> /\ Head(Announce).op = "notify"
<1>1. ASSUME NEW op \in Operations \ {"set", "changed?", "enqueue", "power", "AT+CFUN", "notify"}
      PROVE  Do(op) \in Handlers /\ Do(op) # << >> /\ Head(Do(op)).op = op
  <2>1. Step(op, "") \in Steps /\ Step(op, "").op = op
    BY DEF Step, Steps, Args
  <2>2. <<Step(op, "")>> \in Handlers
    BY <2>1, OneStep
  <2>3. Head(<<Step(op, "")>>) = Step(op, "") /\ <<Step(op, "")>> # << >>
    OBVIOUS
  <2> QED BY <2>1, <2>2, <2>3 DEF Do
<1>2. ASSUME NEW x \in RadioStates
      PROVE  /\ setRadioState(x) \in Handlers /\ setRadioState(x) # << >>
             /\ Head(setRadioState(x)) = Step("set", x)
             /\ <<Step("changed?", x)>> \in Handlers
  <2>1. Step("set", x) \in Steps /\ Step("changed?", x) \in Steps
    BY DEF Step, Steps, Args, Operations
  <2> QED BY <2>1, OneStep DEF setRadioState, Step
<1>3. ASSUME NEW e \in Events
      PROVE  Then(e) \in Handlers
  <2>1. Step("enqueue", e) \in Steps
    BY DEF Step, Steps, Args, Operations
  <2> QED BY <2>1, OneStep DEF Then, Step
<1>4. ASSUME NEW x \in {"on", "off", "shutdown"}
      PROVE  <<Step("power", x)>> \in Handlers /\ <<Step("AT+CFUN", x)>> \in Handlers
  <2>1. Step("power", x) \in Steps /\ Step("AT+CFUN", x) \in Steps
    BY DEF Step, Steps, Args, Operations
  <2> QED BY <2>1, OneStep DEF Step
<1>5. Announce \in Handlers /\ Announce # << >> /\ Head(Announce).op = "notify"
  <2> DEFINE a == Step("notify", "")
             b == Step("ready?", "")
  <2>1. a \in Steps /\ b \in Steps /\ a.op = "notify" /\ b.op = "ready?"
    BY DEF Step, Steps, Args, Operations
  <2>2. Announce = <<a>> \o <<b>>
    BY DEF Announce, Do
  <2> HIDE DEF a, b
  <2>3. /\ Announce \in Seq(Steps) /\ Len(Announce) = 2 /\ Announce # << >>
        /\ Head(Announce) = a /\ Announce[1] = a /\ Announce[2] = b
    BY <2>1, <2>2, TwoSteps
  <2>4. \A i \in 1 .. Len(Announce) : Announce[i].op = "notify" => i = 1
    BY <2>1, <2>3
  <2>5. 1 + 1 \in 1 .. Len(Announce) /\ Announce[1 + 1].op = "ready?"
    BY <2>1, <2>3
  <2>6. ASSUME NEW i \in 1 .. Len(Announce), Announce[i].op = "notify"
        PROVE  i + 1 \in 1 .. Len(Announce) /\ Announce[i + 1].op = "ready?"
    <3>1. i = 1
      BY <2>4, <2>6
    <3> QED BY <2>5, <3>1
  <2> QED BY <2>1, <2>3, <2>6 DEF Handlers
<1> QED BY <1>1, <1>2, <1>3, <1>4, <1>5

LEMMA MoreParts ==
    /\ Locked \in Handlers /\ NotReadyFirst \in Handlers /\ EventsOnReady \in Handlers
    /\ Has(EventsOnReady, {"simReady"})
    /\ \A x \in SimStates :
          /\ AfterPoll(x) \in Handlers
          /\ Polls(AfterPoll(x))
    /\ \A e \in Events : Handler(e) \in Handlers
    /\ \A line \in Lines : UrcHandler(line) \in Handlers
<1>1. Locked \in Handlers /\ NotReadyFirst \in Handlers
  BY Parts DEF Locked, NotReadyFirst, RadioStates
<1>2. EventsOnReady \in Handlers /\ Has(EventsOnReady, {"simReady"})
  <2>1. Then("storage") \in Handlers /\ Then("simReady") \in Handlers
    BY Parts DEF Events
  <2> DEFINE a == Step("enqueue", "storage")
             b == Step("enqueue", "simReady")
  <2>2. a \in Steps /\ b \in Steps /\ b.op = "enqueue" /\ b.arg = "simReady"
    BY DEF Step, Steps, Args, Operations, Events
  <2>5. EventsOnReady = <<a>> \o <<b>>
    BY DEF EventsOnReady, Then
  <2> HIDE DEF a, b
  <2>3. Len(EventsOnReady) = 2 /\ EventsOnReady[2] = b
    BY <2>2, <2>5, TwoSteps
  <2>4. Has(EventsOnReady, {"simReady"})
    BY <2>2, <2>3 DEF Has
  <2> QED BY <2>1, <2>4, ConcatHandlers DEF EventsOnReady
<1>3. ASSUME NEW x \in SimStates
      PROVE  AfterPoll(x) \in Handlers /\ Polls(AfterPoll(x))
  <2>1. CASE x = "SIM_NOT_READY"
    <3>1. AfterPoll(x) = <<Step("pollLater", "")>>
      BY <2>1 DEF AfterPoll, Do
    <3>2. AfterPoll(x) \in Handlers
      BY <2>1, Parts DEF AfterPoll, Operations
    <3>3. Has(AfterPoll(x), PollOps)
      <4>1. Step("pollLater", "") \in Steps /\ Step("pollLater", "").op \in PollOps
        BY DEF Step, Steps, Args, Operations, PollOps
      <4> QED BY <3>1, <4>1, OneHas
    <3> QED BY <3>2, <3>3 DEF Polls
  <2>2. ASSUME NEW state \in RadioStates \ {"SIM_NOT_READY"}, NEW e \in Events,
               AfterPoll(x) = setRadioState(state) \o Then(e)
        PROVE  AfterPoll(x) \in Handlers /\ Polls(AfterPoll(x))
    <3>1. AfterPoll(x) \in Handlers
      <4>1. setRadioState(state) \in Handlers /\ Then(e) \in Handlers
        BY Parts
      <4> QED BY <2>2, <4>1, ConcatHandlers
    <3>2. Step("set", state) \in Steps /\ Step("enqueue", e) \in Steps
      BY DEF Step, Steps, Args, Operations
    <3>3. BeginsWith(AfterPoll(x), "set", "SIM_NOT_READY")
      <4>1. AfterPoll(x) # << >> /\ Head(AfterPoll(x)) = Step("set", state)
        BY <2>2, <3>2, TwoSteps DEF setRadioState, Then
      <4> QED BY <4>1 DEF BeginsWith, Step
    <3> QED BY <3>1, <3>3 DEF Polls
  <2>3. CASE x = "SIM_READY"
    BY <2>2, <2>3 DEF AfterPoll, RadioStates, Events
  <2>4. CASE x = "SIM_ABSENT"
    BY <2>2, <2>4 DEF AfterPoll, RadioStates, Events
  <2>5. CASE x = "SIM_PIN"
    BY <2>2, <2>5 DEF AfterPoll, RadioStates, Events
  <2> QED BY <2>1, <2>3, <2>4, <2>5 DEF SimStates
<1>4. ASSUME NEW e \in Events
      PROVE  Handler(e) \in Handlers
  BY Parts DEF Handler, Events, Operations
<1>5. ASSUME NEW line \in Lines
      PROVE  UrcHandler(line) \in Handlers
  <2>1. /\ setRadioState("SIM_READY") \in Handlers /\ Then("noReport") \in Handlers
        /\ Then("report") \in Handlers /\ Then("pollAnyway") \in Handlers
    BY Parts DEF RadioStates, Events
  <2>2. /\ NotReadyFirst \o Locked \o Then("noReport") \in Handlers
        /\ NotReadyFirst \o (IF line = "active" THEN setRadioState("SIM_READY") ELSE Locked)
              \in Handlers
    BY <1>1, <2>1, ConcatHandlers
  <2> QED BY <1>1, <2>1, <2>2, EmptyHandler DEF UrcHandler
<1> QED BY <1>1, <1>2, <1>3, <1>4, <1>5

-----------------------------------------------------------------------------
(***************************************************************************)
(* The promises of a handler through one step.                             *)
(***************************************************************************)
\* Operations that neither keep a promise nor change the radio state.
PlainOps ==
    Operations \ (PollOps \cup {"set", "enqueue", "simReady", "notify", "changed?", "ready?",
                                "notReady?"})

LEMMA PromisesOfRest ==
    ASSUME NEW s \in Handlers, s # << >>, NEW steps \in Handlers
    PROVE  /\ Polls(steps) => Polls(steps \o Tail(s))
           /\ Prepares(steps) => Prepares(steps \o Tail(s))
           /\ \A state : Informs(steps, state) => Informs(steps \o Tail(s), state)
           /\ Head(s).op \in PlainOps \cup {"simReady"} /\ Polls(s) => Polls(steps \o Tail(s))
           /\ Head(s).op \in PlainOps \cup PollOps \cup {"notReady?"} /\ Prepares(s)
                => Prepares(steps \o Tail(s))
           /\ \A state : Head(s).op \notin {"notify", "changed?"} => ~Informs(s, state)
<1> DEFINE r == steps \o Tail(s)
<1>1. Polls(steps) => Polls(r)
  <2>1. Has(steps, PollOps) => Has(r, PollOps)
    BY StepOfHandler
  <2>2. steps # << >> => r # << >> /\ Head(r) = Head(steps)
    BY StepOfHandler
  <2> QED BY <2>1, <2>2 DEF Polls, Begins, BeginsWith
<1>2. Prepares(steps) => Prepares(r)
  <2>1. Has(steps, {"simReady"}) => Has(r, {"simReady"})
    BY StepOfHandler
  <2>2. steps # << >> => r # << >> /\ Head(r) = Head(steps)
    BY StepOfHandler
  <2> QED BY <2>1, <2>2 DEF Prepares, Begins, BeginsWith
<1>3. ASSUME NEW state, Informs(steps, state)
      PROVE  Informs(r, state)
  <2>1. steps # << >> => r # << >> /\ Head(r) = Head(steps)
    BY StepOfHandler
  <2> QED BY <1>3, <2>1 DEF Informs, Begins, BeginsWith
<1>4. ASSUME Head(s).op \in PlainOps \cup {"simReady"}, Polls(s)
      PROVE  Polls(r)
  <2>1. Has(s, PollOps)
    BY <1>4 DEF Polls, Begins, BeginsWith, PlainOps
  <2>2. Has(r, PollOps)
    BY <1>4, <2>1, StepOfHandler DEF PlainOps, PollOps
  <2> QED BY <2>2 DEF Polls
<1>5. ASSUME Head(s).op \in PlainOps \cup PollOps \cup {"notReady?"}, Prepares(s)
      PROVE  Prepares(r)
  <2>1. Has(s, {"simReady"})
    BY <1>5 DEF Prepares, Begins, BeginsWith, PlainOps, PollOps
  <2>2. Has(r, {"simReady"})
    BY <1>5, <2>1, StepOfHandler DEF PlainOps, PollOps
  <2> QED BY <2>2 DEF Prepares
<1>6. ASSUME NEW state, Head(s).op \notin {"notify", "changed?"}
      PROVE  ~Informs(s, state)
  BY <1>6 DEF Informs, Begins, BeginsWith
<1> QED BY <1>1, <1>2, <1>3, <1>4, <1>5, <1>6

\* Nothing is taken from a queue.
ListsKept ==
    \A q \in Runners : \A i \in 1 .. Len(eventList[q]) :
        i \in 1 .. Len(eventList'[q]) /\ eventList'[q][i] = eventList[q][i]

LEMMA QueuedKept ==
    ASSUME ListsKept
    PROVE  \A ops : Queued(ops) => Queued(ops)'
  BY DEF ListsKept, Queued

\* A step of thread t that leaves the radio state alone.
LEMMA HandlerStep ==
    ASSUME RadioInvariant, StateTypeOK', NEW t \in Threads, NEW steps \in Handlers,
           ~Idle(t), Continue(t, steps), ListsKept,
           sState' = sState, prepared => prepared',
           delayed["poll"] > 0 => delayed'["poll"] > 0,
           \/ known' = sState
           \/ /\ known' = known
              /\ Informs(todo[t], sState) => Informs(steps \o Tail(todo[t]), sState),
           sState = "SIM_NOT_READY" /\ Polls(todo[t])
             => Polls(steps \o Tail(todo[t])) \/ Queued(PollOps)' \/ delayed'["poll"] > 0,
           sState = "SIM_READY" /\ Prepares(todo[t])
             => Prepares(steps \o Tail(todo[t])) \/ Queued({"simReady"})' \/ prepared'
    PROVE  RadioInvariant'
<1>1. /\ todo \in [Threads -> Handlers] /\ todo[t] # << >>
      /\ todo' = [todo EXCEPT ![t] = steps \o Tail(todo[t])]
  BY DEF RadioInvariant, HandlersOK, Idle, Continue
<1>2. todo'[t] = steps \o Tail(todo[t]) /\ \A u \in Threads : u # t => todo'[u] = todo[u]
  BY <1>1
<1>3. HandlersOK'
  <2>1. steps \o Tail(todo[t]) \in Handlers
    BY <1>1, StepOfHandler
  <2> QED BY <1>1, <2>1 DEF HandlersOK
<1>4. Informed'
  BY <1>2 DEF RadioInvariant, Informed
<1>5. Polled'
  BY <1>2, QueuedKept DEF RadioInvariant, Polled
<1>6. Prepared'
  BY <1>2, QueuedKept DEF RadioInvariant, Prepared
<1> QED BY <1>3, <1>4, <1>5, <1>6 DEF RadioInvariant

\* An operation that keeps no promise, whatever it leads to.
LEMMA PlainStep ==
    ASSUME RadioInvariant, StateTypeOK', NEW t \in Threads, NEW steps \in Handlers,
           ~Idle(t), Head(todo[t]).op \in PlainOps, Continue(t, steps), ListsKept,
           UNCHANGED radioVars, delayed["poll"] > 0 => delayed'["poll"] > 0
    PROVE  RadioInvariant'
<1>1. todo[t] \in Handlers /\ todo[t] # << >>
  BY DEF RadioInvariant, HandlersOK, Idle
<1>2. Polls(todo[t]) => Polls(steps \o Tail(todo[t]))
  BY <1>1, PromisesOfRest
<1>3. Prepares(todo[t]) => Prepares(steps \o Tail(todo[t]))
  BY <1>1, PromisesOfRest
<1>4. ~Informs(todo[t], sState)
  BY <1>1, PromisesOfRest DEF PlainOps
<1> QED BY <1>2, <1>3, <1>4, HandlerStep DEF radioVars

\* A thread that is idle starts a handler; an event that it was woken for goes on in it.
LEMMA HandlerStarts ==
    ASSUME RadioInvariant, StateTypeOK', NEW t \in Threads, NEW steps \in Handlers,
           Start(t, steps), UNCHANGED radioVars,
           sState = "SIM_NOT_READY" /\ (Queued(PollOps) \/ delayed["poll"] > 0)
             => Polls(steps) \/ Queued(PollOps)' \/ delayed'["poll"] > 0,
           sState = "SIM_READY" /\ Queued({"simReady"})
             => Prepares(steps) \/ Queued({"simReady"})'
    PROVE  RadioInvariant'
<1>1. /\ todo \in [Threads -> Handlers] /\ todo[t] = << >>
      /\ todo' = [todo EXCEPT ![t] = steps]
  BY DEF RadioInvariant, HandlersOK, Start, Idle
<1>2. todo'[t] = steps /\ \A u \in Threads : u # t => todo'[u] = todo[u]
  BY <1>1
<1>3. HandlersOK'
  BY <1>1 DEF HandlersOK
<1>4. \A ops : ~Has(todo[t], ops) /\ ~Begins(todo[t], ops)
  BY <1>1 DEF Has, Begins
<1>5. \A op, state : ~BeginsWith(todo[t], op, state)
  BY <1>1 DEF BeginsWith
<1>6. ~Polls(todo[t]) /\ ~Prepares(todo[t]) /\ ~Informs(todo[t], sState)
  BY <1>4, <1>5 DEF Polls, Prepares, Informs
<1>7. Informed'
  BY <1>2, <1>6 DEF RadioInvariant, Informed, radioVars
<1>8. Polled'
  BY <1>2, <1>6 DEF RadioInvariant, Polled, radioVars
<1>9. Prepared'
  BY <1>2, <1>6 DEF RadioInvariant, Prepared, radioVars
<1> QED BY <1>3, <1>7, <1>8, <1>9 DEF RadioInvariant

\* The modem alone.
LEMMA ModemAlone ==
    ASSUME RadioInvariant, StateTypeOK', UNCHANGED <<todo, radioVars, eventList, delayed>>
    PROVE  RadioInvariant'
  BY DEF RadioInvariant, HandlersOK, Informed, Polled, Prepared, Queued, radioVars

-----------------------------------------------------------------------------
(***************************************************************************)
(* Each action keeps the invariant.                                        *)
(***************************************************************************)
USE DEF radioVars, queueVars, simVars, modemVars, boundVars, allButTodo

LEMMA AtOperation ==
    ASSUME RadioInvariant, NEW t \in Threads, NEW op, At(t, op)
    PROVE  /\ ~Idle(t) /\ todo[t] \in Handlers /\ todo[t] # << >>
           /\ Head(todo[t]) \in Steps /\ Head(todo[t]).op = op
<1>1. ~Idle(t) /\ todo[t] \in Handlers /\ todo[t] # << >> /\ Head(todo[t]).op = op
  BY DEF RadioInvariant, HandlersOK, At, Idle
<1> QED BY <1>1, TailHandler

\* A branch leaves all but the handler alone.
LEMMA BranchKeepsRest ==
    ASSUME RadioInvariant, NEW t, NEW op, NEW steps, Branch(t, op, steps)
    PROVE  /\ StateTypeOK' /\ ListsKept /\ UNCHANGED <<sState, known, prepared, eventList, delayed>>
           /\ At(t, op) /\ Continue(t, steps)
           /\ \A ops : Queued(ops)' <=> Queued(ops)
<1>1. UNCHANGED allButTodo /\ At(t, op) /\ Continue(t, steps)
  BY DEF Branch
<1>2. StateTypeOK'
  BY <1>1 DEF RadioInvariant, StateTypeOK
<1>3. ListsKept
  BY <1>1 DEF ListsKept
<1> QED BY <1>1, <1>2, <1>3 DEF Queued

LEMMA PlainBranch ==
    ASSUME RadioInvariant, NEW t \in Threads, NEW op \in PlainOps, NEW steps \in Handlers,
           Branch(t, op, steps)
    PROVE  RadioInvariant'
<1>1. /\ StateTypeOK' /\ ListsKept /\ UNCHANGED <<sState, known, prepared, eventList, delayed>>
      /\ At(t, op) /\ Continue(t, steps)
  BY BranchKeepsRest
<1>2. ~Idle(t) /\ Head(todo[t]).op = op
  BY <1>1, AtOperation
<1> QED BY <1>1, <1>2, PlainStep

\* A branch to steps that keep the same promises.
LEMMA PromisingBranch ==
    ASSUME RadioInvariant, NEW t \in Threads, NEW op, NEW steps \in Handlers,
           Branch(t, op, steps),
           Informs(todo[t], sState) => Informs(steps \o Tail(todo[t]), sState),
           sState = "SIM_NOT_READY" /\ Polls(todo[t]) => Polls(steps \o Tail(todo[t])),
           sState = "SIM_READY" /\ Prepares(todo[t]) => Prepares(steps \o Tail(todo[t]))
    PROVE  RadioInvariant'
<1>1. /\ StateTypeOK' /\ ListsKept /\ UNCHANGED <<sState, known, prepared, eventList, delayed>>
      /\ At(t, op) /\ Continue(t, steps)
  BY BranchKeepsRest
<1>2. ~Idle(t)
  BY <1>1, AtOperation
<1> QED BY <1>1, <1>2, HandlerStep

LEMMA SetStateKeeps ==
    ASSUME RadioInvariant, NEW t \in Threads, SetState(t)
    PROVE  RadioInvariant'
<1> DEFINE steps == <<Step("changed?", sState)>>
           rest == steps \o Tail(todo[t])
<1>1. At(t, "set") /\ Continue(t, steps) /\ sState' = Arg(t)
  BY DEF SetState
<1>2. /\ ~Idle(t) /\ todo[t] \in Handlers /\ todo[t] # << >>
      /\ Head(todo[t]) \in Steps /\ Head(todo[t]).op = "set"
  BY <1>1, AtOperation
<1>3. Arg(t) \in RadioStates
  BY <1>2 DEF Arg, Steps
<1>4. StateTypeOK'
  BY <1>1, <1>3 DEF RadioInvariant, StateTypeOK, SetState
<1>5. ListsKept /\ UNCHANGED <<known, eventList, delayed>>
  BY DEF SetState, ListsKept
<1>6. steps \in Handlers /\ steps # << >> /\ Head(steps) = Step("changed?", sState)
  <2>1. steps \in Handlers
    BY Parts DEF RadioInvariant, StateTypeOK
  <2>2. steps # << >> /\ Head(steps) = Step("changed?", sState)
    OBVIOUS
  <2> QED BY <2>1, <2>2
<1>7. rest \in Handlers /\ rest # << >> /\ Head(rest) = Step("changed?", sState)
  BY <1>2, <1>6, StepOfHandler
<1>8. CASE Arg(t) = sState
  <2>1. sState' = sState /\ prepared' = prepared
    BY <1>1, <1>8 DEF SetState, RadioInvariant, StateTypeOK
  <2>2. ~Informs(todo[t], sState)
    BY <1>2, PromisesOfRest, <1>6
  <2>3. sState = "SIM_NOT_READY" /\ Polls(todo[t]) => Polls(rest)
    <3>1. SUFFICES ASSUME sState = "SIM_NOT_READY", Polls(todo[t])
                   PROVE  Polls(rest)
      OBVIOUS
    <3>2. Has(todo[t], PollOps)
      BY <1>2, <1>8, <3>1 DEF Polls, Begins, BeginsWith, Arg
    <3>3. Has(rest, PollOps)
      BY <1>2, <1>6, <3>2, StepOfHandler DEF PollOps
    <3> QED BY <3>3 DEF Polls
  <2>4. Prepares(todo[t]) => Prepares(rest)
    <3>1. SUFFICES ASSUME Prepares(todo[t])
                   PROVE  Prepares(rest)
      OBVIOUS
    <3>2. Has(todo[t], {"simReady"})
      BY <1>2, <3>1 DEF Prepares, Begins, BeginsWith
    <3>3. Has(rest, {"simReady"})
      BY <1>2, <1>6, <3>2, StepOfHandler
    <3> QED BY <3>3 DEF Prepares
  <2> QED BY <1>1, <1>2, <1>4, <1>5, <1>6, <2>1, <2>2, <2>3, <2>4, HandlerStep
<1>9. CASE Arg(t) # sState
  <2>1. BeginsWith(rest, "changed?", sState')
    BY <1>1, <1>7, <1>9 DEF BeginsWith, Step
  <2>2. todo' = [todo EXCEPT ![t] = rest] /\ todo'[t] = rest
    BY <1>1 DEF Continue, RadioInvariant, HandlersOK
  <2>3. HandlersOK'
    BY <1>7, <2>2 DEF HandlersOK, RadioInvariant
  <2>4. Informed' /\ Polled' /\ Prepared'
    BY <2>1, <2>2 DEF Informed, Polled, Prepared, Informs, Polls, Prepares
  <2> QED BY <1>4, <2>3, <2>4 DEF RadioInvariant
<1> QED BY <1>8, <1>9

LEMMA TestStateKeeps ==
    ASSUME RadioInvariant, NEW t \in Threads, TestState(t)
    PROVE  RadioInvariant'
<1>1. ASSUME Branch(t, "changed?", IF Changed(Arg(t)) THEN Announce ELSE Do("locked?"))
      PROVE  RadioInvariant'
  <2>1. At(t, "changed?")
    BY <1>1 DEF Branch
  <2>2. /\ todo[t] \in Handlers /\ todo[t] # << >> /\ Head(todo[t]).op = "changed?"
    BY <2>1, AtOperation
  <2>3. CASE Arg(t) # sState
    <3>1. Announce \in Handlers /\ Announce # << >> /\ Head(Announce).op = "notify"
      BY Parts
    <3>2. Informs(Announce, sState) /\ Polls(Announce) /\ Prepares(Announce)
      BY <3>1 DEF Informs, Polls, Prepares, Begins
    <3>3. Branch(t, "changed?", Announce)
      BY <1>1, <2>3 DEF Changed
    <3> QED BY <2>2, <3>1, <3>2, <3>3, PromisesOfRest, PromisingBranch
  <2>4. CASE Arg(t) = sState
    <3>1. Do("locked?") \in Handlers
      BY Parts DEF Operations
    <3>2. Branch(t, "changed?", Do("locked?"))
      BY <1>1, <2>4 DEF Changed
    <3>3. ~Informs(todo[t], sState)
      BY <2>2, <2>4 DEF Informs, Begins, BeginsWith, Arg
    <3>4. sState = "SIM_NOT_READY" /\ Polls(todo[t]) => Polls(Do("locked?") \o Tail(todo[t]))
      <4>1. sState = "SIM_NOT_READY" /\ Polls(todo[t]) => Has(todo[t], PollOps)
        BY <2>2, <2>4 DEF Polls, Begins, BeginsWith, Arg
      <4>2. Has(todo[t], PollOps) => Has(Do("locked?") \o Tail(todo[t]), PollOps)
        BY <2>2, <3>1, StepOfHandler DEF PollOps
      <4> QED BY <4>1, <4>2 DEF Polls
    <3>5. sState = "SIM_READY" /\ Prepares(todo[t]) => Prepares(Do("locked?") \o Tail(todo[t]))
      <4>1. sState = "SIM_READY" /\ Prepares(todo[t]) => Has(todo[t], {"simReady"})
        BY <2>2, <2>4 DEF Prepares, Begins, BeginsWith, Arg
      <4>2. Has(todo[t], {"simReady"}) => Has(Do("locked?") \o Tail(todo[t]), {"simReady"})
        BY <2>2, <3>1, StepOfHandler
      <4> QED BY <4>1, <4>2 DEF Prepares
    <3> QED BY <3>1, <3>2, <3>3, <3>4, <3>5, PromisingBranch
  <2> QED BY <2>3, <2>4
<1>2. ASSUME Branch(t, "locked?", IF sState = "SIM_LOCKED_OR_ABSENT" THEN Announce ELSE << >>)
      PROVE  RadioInvariant'
  <2>1. (IF sState = "SIM_LOCKED_OR_ABSENT" THEN Announce ELSE << >>) \in Handlers
    BY Parts, EmptyHandler
  <2>2. "locked?" \in PlainOps
    BY DEF PlainOps, Operations, PollOps
  <2> QED BY <1>2, <2>1, <2>2, PlainBranch
<1> QED BY <1>1, <1>2 DEF TestState

LEMMA NotifyKeeps ==
    ASSUME RadioInvariant, NEW t \in Threads, Notify(t)
    PROVE  RadioInvariant'
<1>1. At(t, "notify") /\ Continue(t, << >>)
  BY DEF Notify
<1>2. ~Idle(t) /\ todo[t] \in Handlers /\ todo[t] # << >> /\ Head(todo[t]).op = "notify"
  BY <1>1, AtOperation
<1>3. StateTypeOK' /\ ListsKept
  BY DEF RadioInvariant, StateTypeOK, Notify, ListsKept
<1>4. Begins(<< >> \o Tail(todo[t]), {"ready?"})
  BY <1>2, EmptyHandler, StepOfHandler
<1>5. Polls(<< >> \o Tail(todo[t])) /\ Prepares(<< >> \o Tail(todo[t]))
  BY <1>4 DEF Polls, Prepares, Begins
<1>6. UNCHANGED <<sState, prepared, delayed>> /\ known' = sState
  BY DEF Notify
<1> QED BY <1>1, <1>2, <1>3, <1>5, <1>6, EmptyHandler, HandlerStep

LEMMA QueuedBy ==
    ASSUME RadioInvariant, NEW q \in Runners, NEW e \in Events,
           eventList' = [eventList EXCEPT ![q] = Append(@, e)]
    PROVE  /\ eventList' \in [Runners -> Seq(Events)] /\ ListsKept
           /\ \A ops : e \in ops => Queued(ops)'
<1>1. eventList \in [Runners -> Seq(Events)] /\ eventList[q] \in Seq(Events)
  BY DEF RadioInvariant, StateTypeOK
<1>2. /\ Append(eventList[q], e) \in Seq(Events)
      /\ Len(Append(eventList[q], e)) = Len(eventList[q]) + 1 /\ Len(eventList[q]) \in Nat
      /\ \A i \in 1 .. Len(eventList[q]) : Append(eventList[q], e)[i] = eventList[q][i]
      /\ Append(eventList[q], e)[Len(eventList[q]) + 1] = e
  BY <1>1
<1>3. eventList'[q] = Append(eventList[q], e) /\ \A r \in Runners : r # q => eventList'[r] = eventList[r]
  BY <1>1
<1>4. ListsKept
  BY <1>2, <1>3 DEF ListsKept
<1>5. ASSUME NEW ops, e \in ops
      PROVE  Queued(ops)'
  <2>1. Len(eventList[q]) + 1 \in 1 .. Len(eventList'[q])
    BY <1>2, <1>3
  <2> QED BY <1>2, <1>3, <1>5, <2>1 DEF Queued
<1> QED BY <1>1, <1>2, <1>4, <1>5

LEMMA FollowUpKeeps ==
    ASSUME RadioInvariant, NEW t \in Threads, FollowUp(t)
    PROVE  RadioInvariant'
<1>1. ASSUME Branch(t, "ready?", IF sState = "SIM_READY" THEN EventsOnReady ELSE Do("notReady?"))
      PROVE  RadioInvariant'
  <2>1. At(t, "ready?")
    BY <1>1 DEF Branch
  <2>2. todo[t] \in Handlers /\ todo[t] # << >> /\ Head(todo[t]).op = "ready?"
    BY <2>1, AtOperation
  <2>3. ~Informs(todo[t], sState)
    BY <2>2 DEF Informs, Begins, BeginsWith
  <2>4. CASE sState = "SIM_READY"
    <3>1. EventsOnReady \in Handlers /\ Prepares(EventsOnReady)
      BY MoreParts DEF Prepares
    <3>2. Prepares(EventsOnReady \o Tail(todo[t]))
      BY <2>2, <3>1, PromisesOfRest
    <3> QED BY <1>1, <2>3, <2>4, <3>1, <3>2, PromisingBranch
  <2>5. CASE sState # "SIM_READY"
    <3>1. Do("notReady?") \in Handlers /\ Do("notReady?") # << >>
          /\ Head(Do("notReady?")).op = "notReady?"
      BY Parts DEF Operations
    <3>2. Polls(Do("notReady?"))
      BY <3>1 DEF Polls, Begins
    <3>3. Polls(Do("notReady?") \o Tail(todo[t]))
      BY <2>2, <3>1, <3>2, PromisesOfRest
    <3> QED BY <1>1, <2>3, <2>5, <3>1, <3>3, PromisingBranch
  <2> QED BY <2>4, <2>5
<1>2. ASSUME At(t, "notReady?")
      PROVE  /\ ~Idle(t) /\ todo[t] \in Handlers /\ todo[t] # << >>
             /\ ~Informs(todo[t], sState)
             /\ Prepares(todo[t]) => Prepares(<< >> \o Tail(todo[t]))
  <2>1. ~Idle(t) /\ todo[t] \in Handlers /\ todo[t] # << >> /\ Head(todo[t]).op = "notReady?"
    BY <1>2, AtOperation
  <2>2. ~Informs(todo[t], sState)
    BY <2>1 DEF Informs, Begins, BeginsWith
  <2> QED BY <2>1, <2>2, EmptyHandler, PromisesOfRest
<1>3. ASSUME sState # "SIM_NOT_READY", Branch(t, "notReady?", << >>)
      PROVE  RadioInvariant'
  <2>1. At(t, "notReady?")
    BY <1>3 DEF Branch
  <2> QED BY <1>2, <1>3, <2>1, EmptyHandler, PromisingBranch
<1>4. ASSUME At(t, "notReady?"), sState = "SIM_NOT_READY", Continue(t, << >>),
             Enqueue("normal", "poll")
      PROVE  RadioInvariant'
  <2>1. "normal" \in Runners /\ "poll" \in Events
    BY DEF Runners, Events
  <2>2. eventList' = [eventList EXCEPT !["normal"] = Append(@, "poll")]
    BY <1>4 DEF Enqueue
  <2>3. eventList' \in [Runners -> Seq(Events)] /\ ListsKept /\ Queued(PollOps)'
    BY <2>1, <2>2, QueuedBy DEF PollOps
  <2>4. StateTypeOK'
    BY <1>4, <2>3 DEF RadioInvariant, StateTypeOK, Enqueue
  <2>5. UNCHANGED <<sState, known, prepared, delayed>>
    BY <1>4 DEF Enqueue
  <2> QED BY <1>2, <1>4, <2>3, <2>4, <2>5, EmptyHandler, HandlerStep
<1> QED BY <1>1, <1>3, <1>4 DEF FollowUp

LEMMA EnqueueEventKeeps ==
    ASSUME RadioInvariant, NEW t \in Threads, EnqueueEvent(t)
    PROVE  RadioInvariant'
<1>1. At(t, "enqueue") /\ Continue(t, << >>) /\ Enqueue(PrioQueue, Arg(t))
  BY DEF EnqueueEvent
<1>2. /\ ~Idle(t) /\ todo[t] \in Handlers /\ todo[t] # << >>
      /\ Head(todo[t]) \in Steps /\ Head(todo[t]).op = "enqueue"
  BY <1>1, AtOperation
<1>3. PrioQueue \in Runners /\ Arg(t) \in Events
  BY <1>2 DEF PrioQueue, Runners, Arg, Steps
<1>4. eventList' = [eventList EXCEPT ![PrioQueue] = Append(@, Arg(t))]
  BY <1>1 DEF Enqueue
<1>5. /\ eventList' \in [Runners -> Seq(Events)] /\ ListsKept
      /\ \A ops : Arg(t) \in ops => Queued(ops)'
  BY <1>3, <1>4, QueuedBy
<1>6. StateTypeOK' /\ UNCHANGED <<sState, known, prepared, delayed>>
  BY <1>1, <1>5 DEF RadioInvariant, StateTypeOK, Enqueue
<1>7. ~Informs(todo[t], sState)
  BY <1>2 DEF Informs, Begins, BeginsWith
<1>8. Polls(todo[t]) => Polls(<< >> \o Tail(todo[t])) \/ Queued(PollOps)'
  <2>1. Polls(todo[t]) => Has(todo[t], PollOps)
    BY <1>2 DEF Polls, Begins, BeginsWith
  <2>2. Has(todo[t], PollOps) /\ Arg(t) \notin PollOps => Has(<< >> \o Tail(todo[t]), PollOps)
    BY <1>2, EmptyHandler, StepOfHandler DEF PollOps, Arg
  <2> QED BY <1>5, <2>1, <2>2 DEF Polls
<1>9. Prepares(todo[t]) => Prepares(<< >> \o Tail(todo[t])) \/ Queued({"simReady"})'
  <2>1. Prepares(todo[t]) => Has(todo[t], {"simReady"})
    BY <1>2 DEF Prepares, Begins, BeginsWith
  <2>2. Has(todo[t], {"simReady"}) /\ Arg(t) # "simReady"
          => Has(<< >> \o Tail(todo[t]), {"simReady"})
    BY <1>2, EmptyHandler, StepOfHandler DEF Arg
  <2> QED BY <1>5, <2>1, <2>2 DEF Prepares
<1> QED BY <1>1, <1>2, <1>5, <1>6, <1>7, <1>8, <1>9, EmptyHandler, HandlerStep
-----------------------------------------------------------------------------
(***************************************************************************)
(* The poll of the SIM, the other events, the radio power.                 *)
(***************************************************************************)
\* An operation of a poll that leads to others of it, while the radio waits.
LEMMA PollBranch ==
    ASSUME RadioInvariant, NEW t \in Threads, NEW op \in PollOps, NEW steps \in Handlers,
           Branch(t, op, steps), sState = "SIM_NOT_READY" => Polls(steps)
    PROVE  RadioInvariant'
<1>1. At(t, op)
  BY DEF Branch
<1>2. todo[t] \in Handlers /\ todo[t] # << >> /\ Head(todo[t]).op = op
  BY <1>1, AtOperation
<1>3. op \notin {"notify", "changed?"}
  BY DEF PollOps
<1>4. ~Informs(todo[t], sState)
  BY <1>2, <1>3, PromisesOfRest
<1>5. Prepares(todo[t]) => Prepares(steps \o Tail(todo[t]))
  BY <1>2, PromisesOfRest
<1>6. sState = "SIM_NOT_READY" => Polls(steps \o Tail(todo[t]))
  BY <1>2, PromisesOfRest
<1> QED BY <1>4, <1>5, <1>6, PromisingBranch

LEMMA PollSIMStateKeeps ==
    ASSUME RadioInvariant, NEW t \in Threads, PollSIMState(t)
    PROVE  RadioInvariant'
<1>1. /\ Do("getSIMStatus") \in Handlers /\ Do("locked2?") \in Handlers
      /\ Do("AT+CPIN?") \in Handlers
  BY Parts DEF Operations
<1>2. Polls(Do("getSIMStatus")) /\ Polls(Do("AT+CPIN?"))
  <2>1. Step("getSIMStatus", "") \in Steps /\ Step("AT+CPIN?", "") \in Steps
    BY DEF Step, Steps, Args, Operations
  <2>2. Step("getSIMStatus", "").op \in PollOps /\ Step("AT+CPIN?", "").op \in PollOps
    BY DEF Step, PollOps
  <2>3. Has(Do("getSIMStatus"), PollOps) /\ Has(Do("AT+CPIN?"), PollOps)
    BY <2>1, <2>2, OneHas DEF Do
  <2> QED BY <2>3 DEF Polls
<1>3. \A x \in SimStates : AfterPoll(x) \in Handlers /\ Polls(AfterPoll(x))
  BY MoreParts
<1>4. {"poll", "getSIMStatus", "AT+CPIN?"} \subseteq PollOps /\ "locked2?" \in PlainOps
  BY DEF PollOps, PlainOps, Operations
<1>5. ASSUME Branch(t, "poll", IF sState = "SIM_NOT_READY" THEN Do("getSIMStatus")
                               ELSE Do("locked2?"))
      PROVE  RadioInvariant'
  BY <1>1, <1>2, <1>4, <1>5, PollBranch
<1>6. ASSUME Branch(t, "locked2?", IF sState = "SIM_LOCKED_OR_ABSENT" THEN Do("getSIMStatus")
                                   ELSE << >>)
      PROVE  RadioInvariant'
  BY <1>1, <1>4, <1>6, EmptyHandler, PlainBranch
<1>7. ASSUME Branch(t, "getSIMStatus", IF s_simRemoved THEN AfterPoll("SIM_ABSENT")
                                       ELSE IF MayAsk THEN Do("AT+CPIN?")
                                       ELSE AfterPoll("SIM_NOT_READY"))
      PROVE  RadioInvariant'
  <2>1. "SIM_ABSENT" \in SimStates /\ "SIM_NOT_READY" \in SimStates
    BY DEF SimStates
  <2> QED BY <1>1, <1>2, <1>3, <1>4, <1>7, <2>1, PollBranch
<1>8. ASSUME Branch(t, "AT+CPIN?", AfterPoll(IF open[t] THEN sim ELSE "SIM_NOT_READY"))
      PROVE  RadioInvariant'
  <2>1. (IF open[t] THEN sim ELSE "SIM_NOT_READY") \in SimStates
    BY DEF RadioInvariant, StateTypeOK, SimStates
  <2> QED BY <1>3, <1>4, <1>8, <2>1, PollBranch
<1> QED BY <1>5, <1>6, <1>7, <1>8 DEF PollSIMState

LEMMA Later ==
    ASSUME RadioInvariant, NEW e \in {"poll", "storage"}, EnqueueLater(e)
    PROVE  /\ delayed' \in [{"poll", "storage"} -> 0 .. MaxRepolls]
           /\ delayed'[e] > 0
           /\ delayed["poll"] > 0 => delayed'["poll"] > 0
  BY ConstantAssumption DEF RadioInvariant, StateTypeOK, EnqueueLater

LEMMA PollLaterKeeps ==
    ASSUME RadioInvariant, NEW t \in Threads, PollLater(t)
    PROVE  RadioInvariant'
<1>1. At(t, "pollLater") /\ Continue(t, << >>) /\ EnqueueLater("poll")
  BY DEF PollLater
<1>2. ~Idle(t) /\ todo[t] \in Handlers /\ todo[t] # << >> /\ Head(todo[t]).op = "pollLater"
  BY <1>1, AtOperation
<1>3. delayed' \in [{"poll", "storage"} -> 0 .. MaxRepolls] /\ delayed'["poll"] > 0
  BY <1>1, Later
<1>4. StateTypeOK' /\ ListsKept /\ UNCHANGED <<sState, known, prepared>>
  BY <1>3 DEF RadioInvariant, StateTypeOK, PollLater, ListsKept
<1>5. ~Informs(todo[t], sState)
  BY <1>2, PromisesOfRest
<1>6. Prepares(todo[t]) => Prepares(<< >> \o Tail(todo[t]))
  BY <1>2, EmptyHandler, PromisesOfRest DEF PollOps
<1> QED BY <1>1, <1>2, <1>3, <1>4, <1>5, <1>6, EmptyHandler, HandlerStep

\* An operation that keeps no promise and leaves the radio state and the queues alone.
LEMMA PlainOperation ==
    ASSUME RadioInvariant, StateTypeOK', NEW t \in Threads, NEW op \in PlainOps,
           NEW steps \in Handlers, At(t, op), Continue(t, steps),
           UNCHANGED <<radioVars, eventList>>, delayed["poll"] > 0 => delayed'["poll"] > 0
    PROVE  RadioInvariant'
<1>1. ~Idle(t) /\ Head(todo[t]).op = op
  BY AtOperation
<1>2. ListsKept
  BY DEF ListsKept
<1> QED BY <1>1, <1>2, PlainStep

LEMMA SetPollSIMStateKeeps ==
    ASSUME RadioInvariant, NEW t \in Threads, NEW on \in BOOLEAN, SetPollSIMState(t, on)
    PROVE  RadioInvariant'
<1> DEFINE op == IF on THEN "report" ELSE "noReport"
<1>1. op \in PlainOps
  BY DEF PlainOps, Operations, Events, PollOps
<1>2. /\ At(t, op) /\ Continue(t, << >>) /\ UNCHANGED <<radioVars, eventList, delayed>>
      /\ StateTypeOK'
  BY DEF SetPollSIMState, RadioInvariant, StateTypeOK
<1> QED BY <1>1, <1>2, EmptyHandler, PlainOperation

LEMMA CheckStorageKeeps ==
    ASSUME RadioInvariant, NEW t \in Threads, CheckStorage(t)
    PROVE  RadioInvariant'
<1>1. "storage" \in PlainOps
  BY DEF PlainOps, Operations, Events, PollOps
<1>2. ASSUME Branch(t, "storage", << >>)
      PROVE  RadioInvariant'
  BY <1>1, <1>2, EmptyHandler, PlainBranch
<1>3. ASSUME At(t, "storage"), Fails(t), Continue(t, << >>), EnqueueLater("storage"),
             UNCHANGED <<radioVars, eventList, closed, open, simVars, modemVars>>
      PROVE  RadioInvariant'
  <2>1. /\ delayed' \in [{"poll", "storage"} -> 0 .. MaxRepolls]
        /\ delayed["poll"] > 0 => delayed'["poll"] > 0
    BY <1>3, Later
  <2>2. StateTypeOK'
    BY <1>3, <2>1 DEF RadioInvariant, StateTypeOK, Fails
  <2> QED BY <1>1, <1>3, <2>1, <2>2, EmptyHandler, PlainOperation
<1> QED BY <1>2, <1>3 DEF CheckStorage

LEMMA OnSIMReadyKeeps ==
    ASSUME RadioInvariant, NEW t \in Threads, OnSIMReady(t)
    PROVE  RadioInvariant'
<1>1. At(t, "simReady") /\ Continue(t, Do("storage")) /\ prepared' = TRUE
  BY DEF OnSIMReady
<1>2. ~Idle(t) /\ todo[t] \in Handlers /\ todo[t] # << >> /\ Head(todo[t]).op = "simReady"
  BY <1>1, AtOperation
<1>3. Do("storage") \in Handlers
  BY Parts DEF Operations, Events
<1>4. StateTypeOK' /\ ListsKept /\ UNCHANGED <<sState, known, eventList, delayed>>
  BY DEF RadioInvariant, StateTypeOK, OnSIMReady, ListsKept
<1>5. ~Informs(todo[t], sState)
  BY <1>2, PromisesOfRest
<1>6. Polls(todo[t]) => Polls(Do("storage") \o Tail(todo[t]))
  BY <1>2, <1>3, PromisesOfRest
<1> QED BY <1>1, <1>2, <1>3, <1>4, <1>5, <1>6, HandlerStep

LEMMA RequestRadioPowerKeeps ==
    ASSUME RadioInvariant, NEW t \in Threads, RequestRadioPower(t)
    PROVE  RadioInvariant'
<1>1. "power" \in PlainOps /\ "AT+CFUN" \in PlainOps
  BY DEF PlainOps, Operations, Events, PollOps
<1>2. ASSUME NEW op \in {"power", "AT+CFUN"}, At(t, op)
      PROVE  Arg(t) \in {"on", "off", "shutdown"}
  <2>1. Head(todo[t]) \in Steps /\ Head(todo[t]).op = op
    BY <1>2, AtOperation
  <2> QED BY <2>1 DEF Arg, Steps
<1>3. ASSUME Branch(t, "power", IF (sState = "OFF") = (Arg(t) = "on")
                                THEN <<Step("AT+CFUN", Arg(t))>> ELSE << >>)
      PROVE  RadioInvariant'
  <2>1. At(t, "power")
    BY <1>3 DEF Branch
  <2>2. <<Step("AT+CFUN", Arg(t))>> \in Handlers
    BY <1>2, <2>1, Parts
  <2> QED BY <1>1, <1>3, <2>2, EmptyHandler, PlainBranch
<1>4. ASSUME Branch(t, "AT+CFUN", setRadioState(Powered(Arg(t))))
      PROVE  RadioInvariant'
  <2>1. At(t, "AT+CFUN")
    BY <1>4 DEF Branch
  <2>2. Powered(Arg(t)) \in RadioStates
    BY <1>2, <2>1 DEF Powered, RadioStates
  <2>3. setRadioState(Powered(Arg(t))) \in Handlers
    BY <2>2, Parts
  <2> QED BY <1>1, <1>4, <2>3, PlainBranch
<1>5. ASSUME At(t, "AT+CFUN"), Fails(t), Continue(t, << >>),
             UNCHANGED <<radioVars, queueVars, simVars, modemVars>>
      PROVE  RadioInvariant'
  <2>1. StateTypeOK'
    BY <1>5 DEF RadioInvariant, StateTypeOK, Fails
  <2> QED BY <1>1, <1>5, <2>1, EmptyHandler, PlainOperation
<1> QED BY <1>3, <1>4, <1>5 DEF RequestRadioPower

-----------------------------------------------------------------------------
(***************************************************************************)
(* The channel.                                                            *)
(***************************************************************************)
LEMMA ChannelOps ==
    {"common", "clear", "resetHotswap", "AT+CFUN?", "closeRadio", "closeQueues"} \subseteq PlainOps
  BY DEF PlainOps, Operations, Events, PollOps

LEMMA RunnersAreThreads ==
    /\ Runners \subseteq Threads /\ "reader" \in Threads
    /\ "normal" \in Runners /\ PrioQueue \in Runners
  BY DEF Runners, Threads, PrioQueue

LEMMA InitializeCommonKeeps ==
    ASSUME RadioInvariant, NEW q \in Runners, InitializeCommon(q)
    PROVE  RadioInvariant'
<1>1. Do("clear") \in Handlers
  BY Parts DEF Operations
<1>2. /\ At(q, "common") /\ Continue(q, Do("clear"))
      /\ UNCHANGED <<radioVars, eventList, delayed>> /\ StateTypeOK'
  BY DEF InitializeCommon, RadioInvariant, StateTypeOK
<1> QED BY <1>1, <1>2, ChannelOps, RunnersAreThreads, PlainOperation

LEMMA ClearClosedKeeps ==
    ASSUME RadioInvariant, NEW q \in Runners, ClearClosed(q)
    PROVE  RadioInvariant'
<1> DEFINE steps == IF q # "normal" \/ ~open[q] THEN << >>
                    ELSE Do("resetHotswap") \o setRadioState("OFF") \o Do("AT+CFUN?")
<1>1. steps \in Handlers
  <2>1. /\ Do("resetHotswap") \in Handlers /\ setRadioState("OFF") \in Handlers
        /\ Do("AT+CFUN?") \in Handlers
    BY Parts DEF Operations, RadioStates
  <2> QED BY <2>1, EmptyHandler, ConcatHandlers
<1>2. /\ At(q, "clear") /\ Continue(q, steps)
      /\ UNCHANGED <<radioVars, eventList, delayed>>
  BY DEF ClearClosed
<1>3. StateTypeOK'
  BY DEF ClearClosed, RadioInvariant, StateTypeOK
<1> HIDE DEF steps
<1> QED BY <1>1, <1>2, <1>3, ChannelOps, RunnersAreThreads, PlainOperation

LEMMA ResetHotswapKeeps ==
    ASSUME RadioInvariant, NEW q \in Runners, ResetHotswap(q)
    PROVE  RadioInvariant'
<1>1. /\ At(q, "resetHotswap") /\ Continue(q, << >>)
      /\ UNCHANGED <<radioVars, eventList, delayed>> /\ StateTypeOK'
  BY DEF ResetHotswap, RadioInvariant, StateTypeOK
<1> QED BY <1>1, EmptyHandler, ChannelOps, RunnersAreThreads, PlainOperation

LEMMA IsRadioOnKeeps ==
    ASSUME RadioInvariant, NEW q \in Runners, IsRadioOn(q)
    PROVE  RadioInvariant'
<1>1. setRadioState("SIM_NOT_READY") \in Handlers
  BY Parts DEF RadioStates
<1> QED BY <1>1, EmptyHandler, ChannelOps, RunnersAreThreads, PlainBranch DEF IsRadioOn

LEMMA CloseKeeps ==
    ASSUME RadioInvariant, CloseRadio \/ SignalCloseQueues
    PROVE  RadioInvariant'
<1>1. ASSUME CloseRadio
      PROVE  RadioInvariant'
  <2>1. setRadioState("UNAVAILABLE") \in Handlers
    BY Parts DEF RadioStates
  <2> QED BY <1>1, <2>1, EmptyHandler, ChannelOps, RunnersAreThreads, PlainBranch DEF CloseRadio
<1>2. ASSUME SignalCloseQueues
      PROVE  RadioInvariant'
  <2>1. /\ At("reader", "closeQueues") /\ Continue("reader", << >>)
        /\ UNCHANGED <<radioVars, eventList, delayed>> /\ StateTypeOK'
    BY <1>2 DEF SignalCloseQueues, RadioInvariant, StateTypeOK
  <2> QED BY <2>1, EmptyHandler, ChannelOps, RunnersAreThreads, PlainOperation
<1> QED BY <1>1, <1>2

-----------------------------------------------------------------------------
(***************************************************************************)
(* What starts a handler, and the modem.                                   *)
(***************************************************************************)
\* A handler for something that takes nothing from a queue.
LEMMA HandlerFromElsewhere ==
    ASSUME RadioInvariant, StateTypeOK', NEW t \in Threads, NEW steps \in Handlers,
           Start(t, steps), UNCHANGED <<radioVars, eventList, delayed>>
    PROVE  RadioInvariant'
<1>1. \A ops : Queued(ops) <=> Queued(ops)'
  BY DEF Queued
<1> QED BY <1>1, HandlerStarts

LEMMA OpenChannelKeeps ==
    ASSUME RadioInvariant, NEW q \in Runners, OpenChannel(q)
    PROVE  RadioInvariant'
<1>1. Do("common") \in Handlers
  BY Parts DEF Operations
<1>2. Start(q, Do("common")) /\ UNCHANGED <<radioVars, eventList, delayed>> /\ StateTypeOK'
  BY DEF OpenChannel, RadioInvariant, StateTypeOK
<1> QED BY <1>1, <1>2, RunnersAreThreads, HandlerFromElsewhere

LEMMA RunEventKeeps ==
    ASSUME RadioInvariant, NEW q \in Runners, RunEvent(q)
    PROVE  RadioInvariant'
<1> DEFINE list == eventList[q]
           event == Head(list)
<1>1. /\ list \in Seq(Events) /\ list # << >> /\ Start(q, Handler(event))
      /\ eventList' = [eventList EXCEPT ![q] = Tail(@)] /\ UNCHANGED <<radioVars, delayed>>
  BY DEF RunEvent, RadioInvariant, StateTypeOK
<1>2. /\ event \in Events /\ event = list[1] /\ Len(list) \in Nat \ {0}
      /\ Tail(list) \in Seq(Events) /\ Len(Tail(list)) = Len(list) - 1
      /\ \A i \in 1 .. Len(Tail(list)) : Tail(list)[i] = list[i + 1]
  <2>1. Len(list) \in Nat \ {0}
    BY <1>1, EmptySeq, LenProperties
  <2> QED BY <1>1, <2>1, HeadTailProperties
<1>3. eventList'[q] = Tail(list) /\ \A r \in Runners : r # q => eventList'[r] = eventList[r]
  BY <1>1 DEF RadioInvariant, StateTypeOK
<1>4. StateTypeOK'
  BY <1>1, <1>2 DEF RadioInvariant, StateTypeOK, RunEvent
<1>5. ASSUME NEW ops, Queued(ops), event \notin ops
      PROVE  Queued(ops)'
  <2>1. PICK r \in Runners : \E i \in 1 .. Len(eventList[r]) : eventList[r][i] \in ops
    BY <1>5 DEF Queued
  <2>2. PICK i \in 1 .. Len(eventList[r]) : eventList[r][i] \in ops
    BY <2>1
  <2>3. CASE r # q
    BY <1>3, <2>2, <2>3 DEF Queued
  <2>4. CASE r = q
    <3>1. i # 1
      BY <1>2, <1>5, <2>2, <2>4
    <3>2. i - 1 \in 1 .. Len(Tail(list)) /\ Tail(list)[i - 1] = list[i]
      BY <1>2, <2>4, <3>1
    <3> QED BY <1>3, <2>2, <2>4, <3>2 DEF Queued
  <2> QED BY <2>3, <2>4
<1>6. event \in PollOps => Polls(Handler(event))
  <2>1. CASE event \in {"poll", "pollAnyway"}
    <3>1. PICK op \in {"poll", "getSIMStatus"} : Handler(event) = <<Step(op, "")>>
      BY <2>1 DEF Handler, Do
    <3>2. Step(op, "") \in Steps /\ Step(op, "").op \in PollOps
      BY DEF Step, Steps, Args, Operations, Events, PollOps
    <3>3. Has(Handler(event), PollOps)
      BY <3>1, <3>2, OneHas
    <3> QED BY <3>3 DEF Polls
  <2> QED BY <1>2, <2>1 DEF Events, PollOps
<1>7. event = "simReady" => Prepares(Handler(event))
  <2>1. Step("simReady", "") \in Steps /\ Step("simReady", "").op \in {"simReady"}
    BY DEF Step, Steps, Args, Operations, Events
  <2>2. Has(<<Step("simReady", "")>>, {"simReady"})
    BY <2>1, OneHas
  <2> QED BY <2>2 DEF Handler, Do, Prepares
<1>8. Handler(event) \in Handlers
  BY <1>2, MoreParts
<1>9. Queued(PollOps) => Polls(Handler(event)) \/ Queued(PollOps)'
  BY <1>5, <1>6
<1>10. Queued({"simReady"}) => Prepares(Handler(event)) \/ Queued({"simReady"})'
  BY <1>5, <1>7
<1> HIDE DEF event
<1> QED BY <1>1, <1>4, <1>8, <1>9, <1>10, RunnersAreThreads, HandlerStarts

LEMMA RunDelayedKeeps ==
    ASSUME RadioInvariant, NEW e \in {"poll", "storage"}, RunDelayed(e)
    PROVE  RadioInvariant'
<1>1. /\ Start(PrioQueue, Handler(e)) /\ delayed[e] > 0
      /\ delayed' = [delayed EXCEPT ![e] = @ - 1] /\ UNCHANGED <<radioVars, eventList>>
  BY DEF RunDelayed
<1>2. StateTypeOK'
  BY ConstantAssumption DEF RunDelayed, RadioInvariant, StateTypeOK
<1>3. \A ops : Queued(ops) <=> Queued(ops)'
  BY <1>1 DEF Queued
<1>4. e = "poll" => Polls(Handler(e))
  <2>1. Step("poll", "") \in Steps /\ Step("poll", "").op \in PollOps
    BY DEF Step, Steps, Args, Operations, Events, PollOps
  <2>2. Has(<<Step("poll", "")>>, PollOps)
    BY <2>1, OneHas
  <2> QED BY <2>2 DEF Handler, Do, Polls
<1>5. e # "poll" => delayed'["poll"] = delayed["poll"]
  BY <1>1 DEF RadioInvariant, StateTypeOK
<1>6. Handler(e) \in Handlers
  BY MoreParts DEF Events
<1> QED BY <1>1, <1>2, <1>3, <1>4, <1>5, <1>6, RunnersAreThreads, HandlerStarts

LEMMA RadioPowerKeeps ==
    ASSUME RadioInvariant, RadioPower
    PROVE  RadioInvariant'
<1>1. PICK onOff \in {"on", "off", "shutdown"} : Start("normal", <<Step("power", onOff)>>)
  BY DEF RadioPower
<1>2. <<Step("power", onOff)>> \in Handlers
  BY Parts
<1>3. UNCHANGED <<radioVars, eventList, delayed>> /\ StateTypeOK'
  BY DEF RadioPower, RadioInvariant, StateTypeOK
<1> QED BY <1>1, <1>2, <1>3, RunnersAreThreads, HandlerFromElsewhere

LEMMA OnUnsolicitedKeeps ==
    ASSUME RadioInvariant, onUnsolicited
    PROVE  RadioInvariant'
<1>1. urcs \in Seq(Lines) /\ urcs # << >> /\ urcs' = Tail(urcs)
  BY DEF onUnsolicited, RadioInvariant, StateTypeOK
<1>2. Head(urcs) \in Lines /\ Tail(urcs) \in Seq(Lines)
  BY <1>1
<1>3. UNCHANGED <<radioVars, queueVars, enabled, down, sim, esimsr, boundVars>>
  BY DEF onUnsolicited
<1>4. CASE sState = "UNAVAILABLE"
  <2>1. UNCHANGED <<todo, s_simRemoved, sim_hotswap, s_simResetting>>
    BY <1>4 DEF onUnsolicited
  <2>2. StateTypeOK'
    BY <1>1, <1>2, <1>3, <2>1 DEF RadioInvariant, StateTypeOK
  <2> QED BY <1>3, <2>1, <2>2, ModemAlone
<1>5. CASE sState # "UNAVAILABLE"
  <2>1. /\ Start("reader", UrcHandler(Head(urcs)))
        /\ s_simRemoved' \in BOOLEAN /\ sim_hotswap' \in BOOLEAN /\ s_simResetting' \in BOOLEAN
    BY <1>5 DEF onUnsolicited, RadioInvariant, StateTypeOK, Resetting
  <2>2. StateTypeOK'
    BY <1>1, <1>2, <1>3, <2>1 DEF RadioInvariant, StateTypeOK
  <2>3. UrcHandler(Head(urcs)) \in Handlers
    BY <1>2, MoreParts
  <2> QED BY <1>3, <2>1, <2>2, <2>3, RunnersAreThreads, HandlerFromElsewhere
<1> QED BY <1>4, <1>5

LEMMA ModemKeeps ==
    ASSUME RadioInvariant, SimStarts \/ SimChanges \/ ModemRestarts \/ ModemReturns
    PROVE  RadioInvariant'
<1>1. ASSUME NEW lines \in Seq(Lines)
      PROVE  urcs \o lines \in Seq(Lines)
  BY <1>1, ConcatProperties DEF RadioInvariant, StateTypeOK
<1>2. \A line \in Lines : <<line>> \in Seq(Lines) /\ Report(line) \in Seq(Lines)
  BY EmptySeq DEF Report
<1>3. ASSUME SimStarts
      PROVE  RadioInvariant'
  <2>1. {"waitsForPin", "active", "pacsp"} \subseteq Lines
    BY DEF Lines
  <2>2. /\ urcs \o Report("waitsForPin") \in Seq(Lines) /\ urcs \o Report("active") \in Seq(Lines)
        /\ (urcs \o Report("active")) \o <<"pacsp">> \in Seq(Lines)
    BY <1>1, <1>2, <2>1, ConcatProperties
  <2>3. urcs' \in Seq(Lines) /\ sim' \in SimStates
    BY <1>3, <2>2 DEF SimStarts, SimStates
  <2>4. StateTypeOK'
    BY <1>3, <2>3 DEF SimStarts, RadioInvariant, StateTypeOK
  <2> QED BY <1>3, <2>4, ModemAlone DEF SimStarts
<1>4. ASSUME SimChanges
      PROVE  RadioInvariant'
  <2>1. {"pinEvent", "blocked", "poweredOff", "removed", "inserted"} \subseteq Lines
    BY DEF Lines
  <2>2. PICK line \in Lines :
               /\ urcs' = urcs \o <<line>> \/ urcs' = urcs \o Report(line)
               /\ sim' \in SimStates
    BY <1>4, <2>1 DEF SimChanges, SimChange, SimStates
  <2>3. urcs' \in Seq(Lines) /\ sim' \in SimStates
    BY <1>1, <1>2, <2>2
  <2>4. StateTypeOK'
    BY <1>4, <2>3 DEF SimChanges, RadioInvariant, StateTypeOK
  <2> QED BY <1>4, <2>4, ModemAlone DEF SimChanges
<1>5. ASSUME ModemRestarts
      PROVE  RadioInvariant'
  <2> DEFINE steps == Do("closeRadio") \o Do("closeQueues")
  <2>1. steps \in Handlers
    BY Parts, ConcatHandlers DEF Operations
  <2>2. Start("reader", steps) /\ UNCHANGED <<radioVars, eventList, delayed>>
    BY <1>5 DEF ModemRestarts
  <2>3. StateTypeOK'
    <3>1. << >> \in Seq(Lines)
      BY EmptySeq
    <3>2. urcs' \in Seq(Lines) /\ deaths' \in Nat
      BY <1>5, <3>1 DEF ModemRestarts, RadioInvariant, StateTypeOK
    <3> QED BY <1>5, <3>2 DEF ModemRestarts, RadioInvariant, StateTypeOK
  <2> HIDE DEF steps
  <2> QED BY <2>1, <2>2, <2>3, RunnersAreThreads, HandlerFromElsewhere
<1>6. ASSUME ModemReturns
      PROVE  RadioInvariant'
  <2>1. StateTypeOK'
    BY <1>6 DEF ModemReturns, RadioInvariant, StateTypeOK, SimStates
  <2> QED BY <1>6, <2>1, ModemAlone DEF ModemReturns
<1> QED BY <1>3, <1>4, <1>5, <1>6

-----------------------------------------------------------------------------
(***************************************************************************)
(* The theorems.                                                           *)
(***************************************************************************)
LEMMA InitHolds == Init => RadioInvariant
<1> SUFFICES ASSUME Init PROVE RadioInvariant
  OBVIOUS
<1>1. StateTypeOK
  <2>1. << >> \in Seq(Lines) /\ << >> \in Seq(Events)
    BY EmptySeq
  <2>2. eventList \in [Runners -> Seq(Events)] /\ urcs \in Seq(Lines)
    BY <2>1 DEF Init
  <2>3. delayed \in [{"poll", "storage"} -> 0 .. MaxRepolls]
    BY ConstantAssumption DEF Init
  <2> QED BY <2>2, <2>3 DEF Init, StateTypeOK, RadioStates, SimStates
<1>2. HandlersOK
  BY EmptyHandler DEF Init, HandlersOK
<1>3. Informed /\ Polled /\ Prepared
  BY DEF Init, Informed, Polled, Prepared
<1> QED BY <1>1, <1>2, <1>3 DEF RadioInvariant

LEMMA SetRadioStateKeeps ==
    ASSUME RadioInvariant, NEW t \in Threads, SetRadioState(t)
    PROVE  RadioInvariant'
  BY SetStateKeeps, TestStateKeeps, NotifyKeeps, FollowUpKeeps, EnqueueEventKeeps
  DEF SetRadioState

LEMMA RunnerKeeps ==
    ASSUME RadioInvariant, NEW q \in Runners, RunnerStep(q)
    PROVE  RadioInvariant'
<1>1. q \in Threads
  BY RunnersAreThreads
<1> QED BY <1>1, SetRadioStateKeeps, PollSIMStateKeeps, PollLaterKeeps, SetPollSIMStateKeeps,
           CheckStorageKeeps, OnSIMReadyKeeps, RequestRadioPowerKeeps, InitializeCommonKeeps,
           ClearClosedKeeps, ResetHotswapKeeps, IsRadioOnKeeps, OpenChannelKeeps, RunEventKeeps
    DEF RunnerStep

LEMMA ReaderKeeps ==
    ASSUME RadioInvariant, ReaderStep
    PROVE  RadioInvariant'
  BY RunnersAreThreads, SetRadioStateKeeps, CloseKeeps, OnUnsolicitedKeeps DEF ReaderStep

LEMMA NextKeeps == RadioInvariant /\ [Next]_vars => RadioInvariant'
<1> SUFFICES ASSUME RadioInvariant, [Next]_vars PROVE RadioInvariant'
  OBVIOUS
<1>1. CASE \E q \in Runners : RunnerStep(q)
  BY <1>1, RunnerKeeps
<1>2. CASE \E e \in {"poll", "storage"} : RunDelayed(e)
  BY <1>2, RunDelayedKeeps
<1>3. CASE RadioPower
  BY <1>3, RadioPowerKeeps
<1>4. CASE ReaderStep
  BY <1>4, ReaderKeeps
<1>5. CASE SimStarts \/ SimChanges \/ ModemRestarts \/ ModemReturns
  BY <1>5, ModemKeeps
<1>6. CASE UNCHANGED vars
  <2>1. StateTypeOK'
    BY <1>6 DEF vars, RadioInvariant, StateTypeOK
  <2> QED BY <1>6, <2>1, ModemAlone DEF vars
<1>7. CASE Quiescent
  BY <1>6, <1>7 DEF Quiescent
<1> QED BY <1>1, <1>2, <1>3, <1>4, <1>5, <1>6, <1>7 DEF Next

LEMMA RadioInvariantHolds == Spec => []RadioInvariant
  BY InitHolds, NextKeeps, PTL DEF Spec

\* Types, and a radio that waits for its SIM is always about to poll it: in no history of
\* removals, resets, power requests and restarts does the chain of polls end.
THEOREM RadioCorrect == Spec => []RadioInv
  BY RadioInvariantHolds, Promises, PTL

\* A radio in SIM_NOT_READY has a poll of the SIM in a queue, delayed, or still to be enqueued
\* by the thread that announces the state.
THEOREM WaitingRadioIsPolled == Spec => []NotReadyIsPolled
<1>1. RadioInvariant => NotReadyIsPolled
  BY Promises DEF RadioInv
<1> QED BY RadioInvariantHolds, <1>1, PTL

\* However the writers of sState overlap, and although they test it outside s_state_mutex, the
\* framework knows the radio state or is about to be told it.
THEOREM FrameworkIsInformed == Spec => []FrameworkInformed
  BY RadioInvariantHolds, Promises, PTL

\* No entry into SIM_READY goes without onSIMReady.
THEOREM ReadyRadioIsPrepared == Spec => []ReadyIsPrepared
  BY RadioInvariantHolds, Promises, PTL
=============================================================================
