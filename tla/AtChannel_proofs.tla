--------------------------- MODULE AtChannel_proofs ---------------------------
(***************************************************************************)
(* Type correctness of AtChannel, and the discipline of its two mutexes    *)
(* and two condition variables, for any set of callers and any bounds.     *)
(*                                                                         *)
(* The four invariants are inductive only together (LockInv): a command    *)
(* that takes its response finds one because PendingDiscipline holds; that *)
(* no response is pending when requestmutex is free, and that none is      *)
(* replaced under a waiter, needs that every section that touches it runs  *)
(* under commandmutex, which is MutexDiscipline.  On it rests what is said *)
(* of the answer a command gets (SyncInv: the channel is in step) and of   *)
(* the lines it hands out (HandInv).                                       *)
(***************************************************************************)
EXTENDS AtChannel, TLAPS, SequenceTheorems

-----------------------------------------------------------------------------
(***************************************************************************)
(* The operators the actions are built from.                               *)
(***************************************************************************)

\* The constant records have the types they are used at.
LEMMA ConstantTypes ==
    /\ NoLine \in Lines
    /\ Foreign \in Commands
    /\ NewResponse \in Responses
    /\ NoResult \in Results
  BY BoundAssumption DEF NoLine, Lines, Foreign, Commands, CommandPrefixes, AllApis,
     NewResponse, Responses, NoResult, Results, Errors, AllUrcKinds

\* What the queue operations return.
LEMMA QueueTypes ==
    ASSUME NEW S, NEW s \in Seq(S)
    PROVE  /\ \A e \in S : Append(s, e) \in Seq(S) /\ <<e>> \o s \in Seq(S)
           /\ s # << >> => Head(s) \in S /\ Tail(s) \in Seq(S)
           /\ \A n \in 1 .. Len(s) : /\ SubSeq(s, 1, n) \in Seq(S)
                                     /\ SubSeq(s, n + 1, Len(s)) \in Seq(S)
<1>1. \A e \in S : Append(s, e) \in Seq(S) /\ <<e>> \o s \in Seq(S)
  OBVIOUS
<1>2. s # << >> => Head(s) \in S /\ Tail(s) \in Seq(S)
  OBVIOUS
<1>3. ASSUME NEW n \in 1 .. Len(s)
      PROVE  SubSeq(s, 1, n) \in Seq(S) /\ SubSeq(s, n + 1, Len(s)) \in Seq(S)
  BY SubSeqProperties
<1> QED BY <1>1, <1>2, <1>3

\* A line the modem sends is a line.
LEMMA LineType ==
    ASSUME WireTypeOK, NEW n \in {1, 2}, NEW id \in 0 .. MaxCalls,
           NEW p \in CommandPrefixes,
           NEW kind \in {"info", "ok", "error", "prompt", "smspdu"} \cup AllUrcKinds
    PROVE  Line(kind, p, id, n) \in Lines
  BY DEF WireTypeOK, Line, Lines

\* Sending lines keeps the stream and its counter typed.
LEMMA SendType ==
    ASSUME ReaderTypeOK, WireTypeOK, NEW ls \in Seq(Lines), Send(ls)
    PROVE  fromModem' \in Seq(Lines) /\ serial' \in Nat
<1>1. Len(ls) \in Nat
  OBVIOUS
<1>2. fromModem \o ls \in Seq(Lines)
  BY DEF ReaderTypeOK
<1> QED BY <1>1, <1>2 DEF Send, WireTypeOK

\* reverseIntermediates returns the lines it was given.
LEMMA ReverseType ==
    ASSUME NEW S, NEW s \in Seq(S) PROVE ArrivalOrder(s) \in Seq(S)
<1>1. \A i \in 1 .. Len(s) : s[(Len(s) - i) + 1] \in S
  OBVIOUS
<1> QED BY <1>1 DEF ArrivalOrder, Reverse

\* The unsolicited lines are lines.
LEMMA UrcType ==
    ASSUME WireTypeOK, NEW kind \in AllUrcKinds, NEW ls \in UrcLines(kind)
    PROVE  ls \in Seq(Lines)
<1>1. ASSUME NEW p \in CommandPrefixes, NEW k \in AllUrcKinds \cup {"smspdu"},
             NEW n \in {1, 2}
      PROVE  Line(k, p, 0, n) \in Lines
  <2>1. 0 \in 0 .. MaxCalls
    BY BoundAssumption
  <2> QED BY <2>1, LineType
<1>2. kind \in AllUrcKinds
  OBVIOUS
<1>3. CASE kind = "urc"
  <2>1. PICK p \in ResponsePrefixes : ls = <<Line("urc", p, 0, 1)>>
    BY <1>3 DEF UrcLines
  <2>2. Line("urc", p, 0, 1) \in Lines
    BY <1>1 DEF CommandPrefixes, AllUrcKinds
  <2> QED BY <2>1, <2>2
<1>4. CASE kind = "nocarrier"
  <2>1. Line("nocarrier", AnyPrefix, 0, 1) \in Lines
    BY <1>1 DEF CommandPrefixes, AllUrcKinds
  <2>2. ls = <<Line("nocarrier", AnyPrefix, 0, 1)>>
    BY <1>4 DEF UrcLines
  <2> QED BY <2>1, <2>2
<1>5. CASE kind = "smsurc"
  <2>1. /\ Line("smsurc", AnyPrefix, 0, 1) \in Lines
        /\ Line("smspdu", AnyPrefix, 0, 2) \in Lines
    BY <1>1 DEF CommandPrefixes, AllUrcKinds
  <2>2. ls = <<Line("smsurc", AnyPrefix, 0, 1), Line("smspdu", AnyPrefix, 0, 2)>>
    BY <1>5 DEF UrcLines
  <2> QED BY <2>1, <2>2
<1> QED BY <1>2, <1>3, <1>4, <1>5 DEF AllUrcKinds

\* A wrapper's error is an error, its label a label of a caller.
LEMMA WrapperType ==
    ASSUME TypeOK, NEW c \in Callers, NEW err \in Errors, NEW infos \in Seq(Lines)
    PROVE  /\ WrapperError(call[c].api, err, infos) \in Errors
           /\ WrapperInfos(call[c].api, WrapperError(call[c].api, err, infos), infos)
                \in Seq(Lines)
           /\ NextLabel(c, err) \in {"hsSleep", "claim", "idle", "escape"}
           /\ NextLabel(c, err) = "claim" => tries[c] + 1 < HandshakeTries
<1>1. call[c].api \in AllApis
  BY DEF TypeOK, CallerTypeOK, Commands
<1>2. WrapperError(call[c].api, err, infos) \in Errors
  BY DEF WrapperError, Errors
<1>3. WrapperInfos(call[c].api, WrapperError(call[c].api, err, infos), infos)
        \in Seq(Lines)
  BY <1>1 DEF WrapperInfos, AllApis
<1> QED BY <1>2, <1>3 DEF NextLabel

\* The common end of every command keeps the types.
LEMMA FinishType ==
    ASSUME TypeOK, NEW c \in Callers, NEW err \in Errors, NEW final \in Lines,
           NEW infos \in Seq(Lines), Finish(c, err, final, infos), UNCHANGED toModem
    PROVE  TypeOK'
<1> DEFINE next == NextLabel(c, err)
           outErr == WrapperError(call[c].api, err, infos)
           out == [id |-> call[c].id, api |-> call[c].api, err |-> outErr,
                   final |-> final, infos |-> WrapperInfos(call[c].api, outErr, infos)]
<1>1. next \in {"hsSleep", "claim", "idle", "escape"}
  BY WrapperType
<1>2. out \in Results
  BY WrapperType DEF TypeOK, CallerTypeOK, Commands, Results
<1>3. PcTypeOK'
  BY <1>1, ThreadAssumption DEF Finish, TypeOK, PcTypeOK, BroadcastRequest,
     Threads, CallerPcs, ReaderPcs
<1>4. ChannelTypeOK'
  BY DEF Finish, TypeOK, ChannelTypeOK, chanVars
<1>5. PendingTypeOK'
  BY DEF Finish, TypeOK, PendingTypeOK, CommandPrefixes
<1>6. ReaderTypeOK'
  BY DEF Finish, TypeOK, ReaderTypeOK, readerVars
<1>7. CallerTypeOK'
  <2>1. result' \in [Callers -> Results]
    BY <1>2 DEF Finish, TypeOK, CallerTypeOK
  <2>2. tries' \in [Callers -> 0 .. HandshakeTries - 1]
    <3>1. tries[c] \in 0 .. HandshakeTries - 1 /\ HandshakeTries \in Nat \ {0}
      BY BoundAssumption DEF TypeOK, CallerTypeOK
    <3>2. next = "claim" => tries[c] + 1 < HandshakeTries
      BY WrapperType
    <3>3. tries' = [tries EXCEPT ![c] = IF next = "claim" THEN tries[c] + 1 ELSE 0]
      BY DEF Finish
    <3>4. (IF next = "claim" THEN tries[c] + 1 ELSE 0) \in 0 .. HandshakeTries - 1
      BY <3>1, <3>2
    <3> HIDE DEF next
    <3> QED BY <3>3, <3>4 DEF TypeOK, CallerTypeOK
  <2> QED BY <2>1, <2>2 DEF Finish, TypeOK, CallerTypeOK
<1>8. WireTypeOK'
  <2>1. desync' \in BOOLEAN
    BY DEF Finish, TypeOK, WireTypeOK
  <2> QED BY <2>1 DEF Finish, TypeOK, WireTypeOK, modemVars
<1> QED BY <1>3, <1>4, <1>5, <1>6, <1>7, <1>8 DEF TypeOK

-----------------------------------------------------------------------------
(***************************************************************************)
(* TypeOK, one lemma per group of actions and one step per action.         *)
(***************************************************************************)

\* Steps that move a label, a mutex or a counter.
LEMMA CallerMoveType ==
    ASSUME TypeOK, NEW c \in Callers,
           \/ LockAndFormat(c) \/ WaitForRequest(c) \/ RetryRequest(c)
           \/ WaitForResponse(c) \/ RecheckResponse(c) \/ TimeOut(c)
           \/ HandshakeDone(c) \/ SpuriousWakeup(c) \/ StartClose(c)
    PROVE  TypeOK'
<1>1. CASE LockAndFormat(c)
  BY <1>1, ThreadAssumption, BoundAssumption
     DEF LockAndFormat, TypeOK, PcTypeOK, ChannelTypeOK, PendingTypeOK,
         ReaderTypeOK, CallerTypeOK, WireTypeOK, Goto, Threads, CallerPcs,
         ReaderPcs, restVars, chanVars, mutexVars, commandVars, readerVars,
         callerVars, modemVars, wireVars
<1>2. CASE WaitForRequest(c)
  BY <1>2, ThreadAssumption, BoundAssumption
     DEF WaitForRequest, TypeOK, PcTypeOK, ChannelTypeOK, PendingTypeOK,
         ReaderTypeOK, CallerTypeOK, WireTypeOK, Goto, Threads, CallerPcs,
         ReaderPcs, restVars, chanVars, mutexVars, commandVars, readerVars,
         callerVars, modemVars, wireVars
<1>3. CASE RetryRequest(c)
  BY <1>3, ThreadAssumption, BoundAssumption
     DEF RetryRequest, TypeOK, PcTypeOK, ChannelTypeOK, PendingTypeOK,
         ReaderTypeOK, CallerTypeOK, WireTypeOK, Goto, Threads, CallerPcs,
         ReaderPcs, restVars, chanVars, mutexVars, commandVars, readerVars,
         callerVars, modemVars, wireVars
<1>4. CASE WaitForResponse(c)
  BY <1>4, ThreadAssumption, BoundAssumption
     DEF WaitForResponse, TypeOK, PcTypeOK, ChannelTypeOK, PendingTypeOK,
         ReaderTypeOK, CallerTypeOK, WireTypeOK, Goto, Threads, CallerPcs,
         ReaderPcs, restVars, chanVars, mutexVars, commandVars, readerVars,
         callerVars, modemVars, wireVars
<1>5. CASE RecheckResponse(c)
  BY <1>5, ThreadAssumption, BoundAssumption
     DEF RecheckResponse, TypeOK, PcTypeOK, ChannelTypeOK, PendingTypeOK,
         ReaderTypeOK, CallerTypeOK, WireTypeOK, Goto, Threads, CallerPcs,
         ReaderPcs, restVars, chanVars, mutexVars, commandVars, readerVars,
         callerVars, modemVars, wireVars
<1>6. CASE TimeOut(c)
  BY <1>6, ThreadAssumption, BoundAssumption
     DEF TimeOut, TypeOK, PcTypeOK, ChannelTypeOK, PendingTypeOK,
         ReaderTypeOK, CallerTypeOK, WireTypeOK, Goto, Threads, CallerPcs,
         ReaderPcs, restVars, chanVars, mutexVars, commandVars, readerVars,
         callerVars, modemVars, wireVars
<1>7. CASE HandshakeDone(c)
  BY <1>7, ThreadAssumption, BoundAssumption
     DEF HandshakeDone, TypeOK, PcTypeOK, ChannelTypeOK, PendingTypeOK,
         ReaderTypeOK, CallerTypeOK, WireTypeOK, Goto, Threads, CallerPcs,
         ReaderPcs, restVars, chanVars, mutexVars, commandVars, readerVars,
         callerVars, modemVars, wireVars
<1>8. CASE SpuriousWakeup(c)
  BY <1>8, ThreadAssumption, BoundAssumption
     DEF SpuriousWakeup, TypeOK, PcTypeOK, ChannelTypeOK, PendingTypeOK,
         ReaderTypeOK, CallerTypeOK, WireTypeOK, Goto, Threads, CallerPcs,
         ReaderPcs, restVars, chanVars, mutexVars, commandVars, readerVars,
         callerVars, modemVars, wireVars
<1>9. CASE StartClose(c)
  BY <1>9, ThreadAssumption, BoundAssumption
     DEF StartClose, TypeOK, PcTypeOK, ChannelTypeOK, PendingTypeOK,
         ReaderTypeOK, CallerTypeOK, WireTypeOK, Goto, Threads, CallerPcs,
         ReaderPcs, restVars, chanVars, mutexVars, commandVars, readerVars,
         callerVars, modemVars, wireVars
<1> QED BY <1>1, <1>2, <1>3, <1>4, <1>5, <1>6, <1>7, <1>8, <1>9

\* A call is typed.
LEMMA CallType ==
    ASSUME TypeOK, NEW c \in Callers, Call(c) PROVE TypeOK'
<1>1. PcTypeOK' /\ ChannelTypeOK' /\ PendingTypeOK' /\ ReaderTypeOK' /\ WireTypeOK'
  BY ThreadAssumption, BoundAssumption, ApiAssumption, ConstantTypes
     DEF Call, TypeOK, PcTypeOK, ChannelTypeOK, PendingTypeOK, ReaderTypeOK,
         WireTypeOK, Goto, Threads, CallerPcs, ReaderPcs, restVars, chanVars,
         mutexVars, commandVars, readerVars, callerVars, modemVars, wireVars
<1>2. CallerTypeOK'
  BY ThreadAssumption, BoundAssumption, ApiAssumption, ConstantTypes
     DEF Call, TypeOK, PcTypeOK, CallerTypeOK, ResponsePrefixesOf, Commands,
         CommandPrefixes, AllApis, restVars, chanVars, mutexVars, commandVars,
         readerVars, callerVars, modemVars, wireVars
<1> QED BY <1>1, <1>2 DEF TypeOK

\* The pending command is typed.
LEMMA ClaimRequestType ==
    ASSUME TypeOK, NEW c \in Callers, ClaimRequest(c) PROVE TypeOK'
<1>1. PcTypeOK' /\ ChannelTypeOK' /\ ReaderTypeOK' /\ CallerTypeOK' /\ WireTypeOK'
  BY ThreadAssumption, BoundAssumption, ConstantTypes
     DEF ClaimRequest, TypeOK, PcTypeOK, ChannelTypeOK, ReaderTypeOK,
         CallerTypeOK, WireTypeOK, Goto, Threads, CallerPcs, ReaderPcs,
         restVars, chanVars, mutexVars, commandVars, readerVars, callerVars,
         modemVars, wireVars
<1>2. PendingTypeOK'
  BY ThreadAssumption, BoundAssumption, ConstantTypes
     DEF ClaimRequest, TypeOK, PcTypeOK, PendingTypeOK, TypeOfApi, Commands,
         CommandPrefixes, CallerTypeOK, AllApis, restVars, chanVars,
         mutexVars, commandVars, readerVars, callerVars, modemVars, wireVars
<1> QED BY <1>1, <1>2 DEF TypeOK

\* What writeline sends is a message.
LEMMA WriteCommandType ==
    ASSUME TypeOK, NEW c \in Callers, WriteCommand(c) PROVE TypeOK'
<1>1. PcTypeOK' /\ ChannelTypeOK' /\ PendingTypeOK' /\ ReaderTypeOK' /\ CallerTypeOK'
  BY ThreadAssumption, BoundAssumption, ConstantTypes
     DEF WriteCommand, TypeOK, PcTypeOK, ChannelTypeOK, PendingTypeOK,
         ReaderTypeOK, CallerTypeOK, Goto, Threads, CallerPcs, ReaderPcs,
         restVars, chanVars, mutexVars, commandVars, readerVars, callerVars,
         modemVars, wireVars
<1>2. WireTypeOK'
  <2>1. [kind |-> "cmd", cmd |-> TextOf(c), owner |-> call[c].id] \in Messages
    BY DEF TypeOK, CallerTypeOK, ChannelTypeOK, TextOf, Messages, Commands
  <2>2. toModem' \in Seq(Messages)
    BY <2>1, QueueTypes DEF TypeOK, WireTypeOK, WriteCommand
  <2> QED BY <2>2 DEF TypeOK, WireTypeOK, WriteCommand, modemVars
<1> QED BY <1>1, <1>2 DEF TypeOK

\* What at_send_escape sends is a message.
LEMMA SendEscapeType ==
    ASSUME TypeOK, NEW c \in Callers, SendEscape(c) PROVE TypeOK'
<1>1. PcTypeOK' /\ ChannelTypeOK' /\ PendingTypeOK' /\ ReaderTypeOK' /\ CallerTypeOK'
  BY ThreadAssumption, BoundAssumption, ConstantTypes
     DEF SendEscape, TypeOK, PcTypeOK, ChannelTypeOK, PendingTypeOK,
         ReaderTypeOK, CallerTypeOK, Goto, Threads, CallerPcs, ReaderPcs,
         restVars, chanVars, mutexVars, commandVars, readerVars, callerVars,
         modemVars, wireVars
<1>2. WireTypeOK'
  <2>1. [kind |-> "esc", cmd |-> Foreign, owner |-> 0] \in Messages
    BY ConstantTypes, BoundAssumption DEF Messages
  <2>2. toModem' \in Seq(Messages)
    BY <2>1, QueueTypes DEF TypeOK, WireTypeOK, SendEscape
  <2> QED BY <2>2 DEF TypeOK, WireTypeOK, SendEscape, modemVars
<1> QED BY <1>1, <1>2 DEF TypeOK

\* at_close.
LEMMA CloseStepType ==
    ASSUME TypeOK, NEW t \in Threads, CloseStep(t) PROVE TypeOK'
<1>1. CASE CloseTest(t)
  BY <1>1, ThreadAssumption, BoundAssumption
     DEF CloseTest, AfterClose, TypeOK, PcTypeOK, ChannelTypeOK,
         PendingTypeOK, ReaderTypeOK, CallerTypeOK, WireTypeOK, Goto, Threads,
         CallerPcs, ReaderPcs, restVars, chanVars, mutexVars, commandVars,
         readerVars, callerVars, modemVars, wireVars
<1>2. CASE CloseFd(t)
  <2>1. ChannelTypeOK' /\ PendingTypeOK' /\ ReaderTypeOK' /\ CallerTypeOK' /\ WireTypeOK'
    BY <1>2, ThreadAssumption, BoundAssumption, ConstantTypes
       DEF CloseFd, TypeOK, PcTypeOK, ChannelTypeOK, PendingTypeOK,
           ReaderTypeOK, CallerTypeOK, WireTypeOK, restVars, chanVars,
           mutexVars, commandVars, readerVars, callerVars, modemVars, wireVars
  <2>2. PcTypeOK'
    BY <1>2, ThreadAssumption, BoundAssumption, ConstantTypes
       DEF CloseFd, TypeOK, PcTypeOK, Goto, Threads, CallerPcs, ReaderPcs,
           restVars, chanVars, mutexVars, commandVars, readerVars, callerVars,
           modemVars, wireVars
  <2> QED BY <2>1, <2>2 DEF TypeOK
<1>3. CASE CloseSignal(t)
  BY <1>3, ThreadAssumption, BoundAssumption
     DEF CloseSignal, SignalCommand, TypeOK, PcTypeOK, ChannelTypeOK,
         PendingTypeOK, ReaderTypeOK, CallerTypeOK, WireTypeOK, Goto, Threads,
         CallerPcs, ReaderPcs, restVars, chanVars, mutexVars, commandVars,
         readerVars, callerVars, modemVars, wireVars
<1>4. CASE KickReader(t)
  BY <1>4, ThreadAssumption, BoundAssumption
     DEF KickReader, AfterClose, TypeOK, PcTypeOK, ChannelTypeOK,
         PendingTypeOK, ReaderTypeOK, CallerTypeOK, WireTypeOK, Goto, Threads,
         CallerPcs, ReaderPcs, restVars, chanVars, mutexVars, commandVars,
         readerVars, callerVars, modemVars, wireVars
<1> QED BY <1>1, <1>2, <1>3, <1>4 DEF CloseStep

\* Reader steps that only move the reader.
LEMMA ReaderMoveType ==
    ASSUME TypeOK,
           StartPoll \/ PollKick \/ PollEof \/ ReaderEof \/ ReaderReportsClosed
    PROVE  TypeOK'
<1>1. CASE StartPoll
  BY <1>1, ThreadAssumption, BoundAssumption
     DEF StartPoll, ReaderUnchanged, TypeOK, PcTypeOK, ChannelTypeOK,
         PendingTypeOK, ReaderTypeOK, CallerTypeOK, WireTypeOK, Goto, Threads,
         CallerPcs, ReaderPcs, restVars, chanVars, mutexVars, commandVars,
         readerVars, callerVars, modemVars, wireVars
<1>2. CASE PollKick
  BY <1>2, ThreadAssumption, BoundAssumption
     DEF PollKick, ReaderUnchanged, TypeOK, PcTypeOK, ChannelTypeOK,
         PendingTypeOK, ReaderTypeOK, CallerTypeOK, WireTypeOK, Goto, Threads,
         CallerPcs, ReaderPcs, restVars, chanVars, mutexVars, commandVars,
         readerVars, callerVars, modemVars, wireVars
<1>3. CASE PollEof
  BY <1>3, ThreadAssumption, BoundAssumption
     DEF PollEof, ReaderUnchanged, TypeOK, PcTypeOK, ChannelTypeOK,
         PendingTypeOK, ReaderTypeOK, CallerTypeOK, WireTypeOK, Goto, Threads,
         CallerPcs, ReaderPcs, restVars, chanVars, mutexVars, commandVars,
         readerVars, callerVars, modemVars, wireVars
<1>4. CASE ReaderEof
  BY <1>4, ThreadAssumption, BoundAssumption
     DEF ReaderEof, ReaderUnchanged, TypeOK, PcTypeOK, ChannelTypeOK,
         PendingTypeOK, ReaderTypeOK, CallerTypeOK, WireTypeOK, Goto, Threads,
         CallerPcs, ReaderPcs, restVars, chanVars, mutexVars, commandVars,
         readerVars, callerVars, modemVars, wireVars
<1>5. CASE ReaderReportsClosed
  BY <1>5, ThreadAssumption, BoundAssumption
     DEF ReaderReportsClosed, ReaderUnchanged, SignalCommand, TypeOK,
         PcTypeOK, ChannelTypeOK, PendingTypeOK, ReaderTypeOK, CallerTypeOK,
         WireTypeOK, Goto, Threads, CallerPcs, ReaderPcs, restVars, chanVars,
         mutexVars, commandVars, readerVars, callerVars, modemVars, wireVars
<1> QED BY <1>1, <1>2, <1>3, <1>4, <1>5

\* readline returns a line of the buffer.
LEMMA TakeBufferedLineType ==
    ASSUME TypeOK, TakeBufferedLine PROVE TypeOK'
<1>1. ChannelTypeOK' /\ PendingTypeOK' /\ CallerTypeOK' /\ WireTypeOK'
  BY ThreadAssumption, BoundAssumption, ConstantTypes
     DEF TakeBufferedLine, ReaderUnchanged, TypeOK, PcTypeOK, ChannelTypeOK,
         PendingTypeOK, CallerTypeOK, WireTypeOK, restVars, chanVars,
         mutexVars, commandVars, readerVars, callerVars, modemVars, wireVars
<1>2. PcTypeOK'
  BY ThreadAssumption, BoundAssumption, ConstantTypes
     DEF TakeBufferedLine, ReaderUnchanged, TypeOK, PcTypeOK, Goto, Threads,
         CallerPcs, ReaderPcs, restVars, chanVars, mutexVars, commandVars,
         readerVars, callerVars, modemVars, wireVars
<1>3. ReaderTypeOK'
  <2>1. Head(buffer) \in Lines /\ Tail(buffer) \in Seq(Lines)
    BY QueueTypes DEF TypeOK, ReaderTypeOK, TakeBufferedLine
  <2> QED BY <2>1 DEF TypeOK, ReaderTypeOK, TakeBufferedLine
<1> QED BY <1>1, <1>2, <1>3 DEF TypeOK

\* read() moves lines to the buffer.
LEMMA PollDataType ==
    ASSUME TypeOK, PollData PROVE TypeOK'
<1>1. ChannelTypeOK' /\ PendingTypeOK' /\ CallerTypeOK' /\ WireTypeOK'
  BY ThreadAssumption, BoundAssumption, ConstantTypes
     DEF PollData, ReaderUnchanged, TypeOK, PcTypeOK, ChannelTypeOK,
         PendingTypeOK, CallerTypeOK, WireTypeOK, restVars, chanVars,
         mutexVars, commandVars, readerVars, callerVars, modemVars, wireVars
<1>2. PcTypeOK'
  BY ThreadAssumption, BoundAssumption, ConstantTypes
     DEF PollData, ReaderUnchanged, TypeOK, PcTypeOK, Goto, Threads,
         CallerPcs, ReaderPcs, restVars, chanVars, mutexVars, commandVars,
         readerVars, callerVars, modemVars, wireVars
<1>3. ReaderTypeOK'
  <2>1. CASE fdOpen
    <3>1. PICK n \in 1 .. Len(fromModem) :
             /\ buffer' = SubSeq(fromModem, 1, n)
             /\ fromModem' = SubSeq(fromModem, n + 1, Len(fromModem))
      BY <2>1 DEF PollData
    <3>2. buffer' \in Seq(Lines) /\ fromModem' \in Seq(Lines)
      BY <3>1, QueueTypes DEF TypeOK, ReaderTypeOK
    <3> QED BY <3>2 DEF TypeOK, ReaderTypeOK, PollData
  <2>2. CASE ~fdOpen
    BY <2>2 DEF TypeOK, ReaderTypeOK, PollData
  <2> QED BY <2>1, <2>2
<1> QED BY <1>1, <1>2, <1>3 DEF TypeOK

\* processLine keeps the response typed.
LEMMA ProcessLineType ==
    ASSUME TypeOK, ProcessLine PROVE TypeOK'
<1>1. ChannelTypeOK' /\ ReaderTypeOK' /\ CallerTypeOK'
  BY ThreadAssumption, BoundAssumption, ConstantTypes
     DEF ProcessLine, ReaderUnchanged, TypeOK, PcTypeOK, ChannelTypeOK,
         ReaderTypeOK, CallerTypeOK, restVars, chanVars, mutexVars,
         commandVars, readerVars, callerVars, modemVars, wireVars
<1>2. PcTypeOK'
  BY ThreadAssumption, BoundAssumption, ConstantTypes
     DEF ProcessLine, ReaderUnchanged, TypeOK, PcTypeOK, Goto, Threads,
         CallerPcs, ReaderPcs, SignalCommand, restVars, chanVars, mutexVars,
         commandVars, readerVars, callerVars, modemVars, wireVars
<1>3. PendingTypeOK'
  <2>1. CASE response = NoResponse
    BY <2>1 DEF TypeOK, PendingTypeOK, ProcessLine
  <2>2. CASE response # NoResponse
    <3>1. response \in Responses /\ line \in Lines
      BY <2>2 DEF TypeOK, PendingTypeOK, ReaderTypeOK
    <3>2. [response EXCEPT !.success = (line.kind = "ok"), !.final = line] \in Responses
      BY <3>1 DEF Responses
    <3>3. <<line>> \o response.infos \in Seq(Lines)
      BY <3>1, QueueTypes DEF Responses
    <3>4. [response EXCEPT !.infos = <<line>> \o @] \in Responses
      BY <3>1, <3>3 DEF Responses
    <3> QED BY <3>1, <3>2, <3>4 DEF TypeOK, PendingTypeOK, ProcessLine
  <2> QED BY <2>1, <2>2
<1>4. WireTypeOK'
  <2>1. [kind |-> "pdu", cmd |-> Foreign, owner |-> 0] \in Messages
    BY ConstantTypes, BoundAssumption DEF Messages
  <2>2. toModem' \in Seq(Messages)
    BY <2>1, QueueTypes DEF TypeOK, WireTypeOK, ProcessLine
  <2> QED BY <2>2 DEF TypeOK, WireTypeOK, ProcessLine, ReaderUnchanged, modemVars
<1> QED BY <1>1, <1>2, <1>3, <1>4 DEF TypeOK

\* The modem takes a message.
LEMMA ModemTakesType ==
    ASSUME TypeOK, ModemTakes PROVE ReaderTypeOK' /\ WireTypeOK'
<1> DEFINE msg == Head(toModem)
<1>1. msg \in Messages /\ Tail(toModem) \in Seq(Messages)
  BY QueueTypes DEF TypeOK, WireTypeOK, ModemTakes
<1>2. AnyPrefix \in CommandPrefixes
  BY DEF CommandPrefixes
<1>3. fromModem' \in Seq(Lines) /\ serial' \in Nat
  <2>1. CASE UNCHANGED <<fromModem, serial>>
    BY <2>1 DEF TypeOK, ReaderTypeOK, WireTypeOK
  <2>2. CASE Send(<<Line("prompt", AnyPrefix, msg.owner, 1)>>)
    <3>1. <<Line("prompt", AnyPrefix, msg.owner, 1)>> \in Seq(Lines)
      BY <1>1, <1>2, LineType DEF TypeOK, Messages
    <3> QED BY <2>2, <3>1, SendType DEF TypeOK
  <2> QED BY <2>1, <2>2 DEF ModemTakes
<1>4. modem' \in ModemStates
  <2>1. modem \in ModemStates /\ msg.cmd \in Commands /\ msg.owner \in 0 .. MaxCalls
    BY <1>1 DEF TypeOK, WireTypeOK, Messages
  <2>2. msg.kind \in {"cmd", "pdu", "esc"}
    BY <1>1 DEF Messages
  <2>3. 0 \in 0 .. MaxInfos + 1
    BY BoundAssumption
  <2> QED BY <2>1, <2>2, <2>3 DEF ModemTakes, ModemStates
<1> QED BY <1>1, <1>3, <1>4
        DEF TypeOK, ReaderTypeOK, WireTypeOK, ModemTakes, ModemUnchanged, readerVars

\* The modem sends an intermediate line.
LEMMA ModemInfoType ==
    ASSUME TypeOK, ModemInfo PROVE ReaderTypeOK' /\ WireTypeOK'
<1>1. modem \in ModemStates /\ modem.cmd.prefix \in CommandPrefixes /\ modem.owner \in 0 .. MaxCalls
  BY DEF TypeOK, WireTypeOK, ModemStates, Commands
<1>2. <<Line("info", modem.cmd.prefix, modem.owner, 1)>> \in Seq(Lines)
  BY <1>1, LineType DEF TypeOK
<1>3. fromModem' \in Seq(Lines) /\ serial' \in Nat
  BY <1>2, SendType DEF TypeOK, ModemInfo
<1>4. modem' \in ModemStates
  BY <1>1, BoundAssumption DEF ModemInfo, ModemStates
<1>5. answered' \in [0 .. MaxCalls -> SUBSET Nat]
  <2>1. serial + 1 \in Nat
    BY DEF TypeOK, WireTypeOK
  <2> QED BY <1>1, <2>1 DEF ModemInfo, TypeOK, WireTypeOK
<1> QED BY <1>3, <1>4, <1>5
        DEF TypeOK, ReaderTypeOK, WireTypeOK, ModemInfo, ModemUnchanged, readerVars

\* The modem sends a final line.
LEMMA ModemAnswersType ==
    ASSUME TypeOK, ModemAnswers PROVE ReaderTypeOK' /\ WireTypeOK'
<1>1. modem \in ModemStates /\ AnyPrefix \in CommandPrefixes /\ modem.owner \in 0 .. MaxCalls
  BY DEF TypeOK, WireTypeOK, ModemStates, Commands, CommandPrefixes
<1>2. PICK kind \in {"ok", "error"} : Send(<<Line(kind, AnyPrefix, modem.owner, 1)>>)
  BY DEF ModemAnswers
<1>3. <<Line(kind, AnyPrefix, modem.owner, 1)>> \in Seq(Lines)
  BY <1>1, LineType DEF TypeOK
<1>4. fromModem' \in Seq(Lines) /\ serial' \in Nat
  BY <1>2, <1>3, SendType DEF TypeOK
<1>5. modem' \in ModemStates
  BY <1>1 DEF ModemAnswers, ModemStates
<1> QED BY <1>4, <1>5 DEF TypeOK, ReaderTypeOK, WireTypeOK, ModemAnswers, ModemUnchanged, readerVars

\* The modem sends unsolicited lines.
LEMMA ModemUrcType ==
    ASSUME TypeOK, ModemUrc PROVE ReaderTypeOK' /\ WireTypeOK'
<1>1. PICK kind \in AllUrcKinds : \E ls \in UrcLines(kind) : Send(ls)
  BY DEF ModemUrc
<1>2. PICK ls \in UrcLines(kind) : Send(ls)
  BY <1>1
<1>3. fromModem' \in Seq(Lines) /\ serial' \in Nat
  BY <1>2, UrcType, SendType DEF TypeOK
<1> QED BY <1>3, BoundAssumption
        DEF TypeOK, ReaderTypeOK, WireTypeOK, ModemUrc, ModemUnchanged, readerVars

\* The modem changes nothing but the wire and its own state.
LEMMA ModemStepType ==
    ASSUME TypeOK, ModemStep PROVE TypeOK'
<1>1. ReaderTypeOK' /\ WireTypeOK'
  <2>1. CASE ModemDies
    BY <2>1 DEF TypeOK, ReaderTypeOK, WireTypeOK, ModemDies, ModemUnchanged, readerVars
  <2> QED BY <2>1, ModemTakesType, ModemInfoType, ModemAnswersType, ModemUrcType
          DEF ModemStep
<1>2. ModemUnchanged
  BY DEF ModemStep, ModemTakes, ModemInfo, ModemAnswers, ModemUrc, ModemDies
<1>3. PcTypeOK' /\ ChannelTypeOK' /\ PendingTypeOK' /\ CallerTypeOK'
  BY <1>2 DEF TypeOK, PcTypeOK, ChannelTypeOK, PendingTypeOK, CallerTypeOK,
     ModemUnchanged, chanVars, mutexVars, commandVars, callerVars
<1> QED BY <1>1, <1>3 DEF TypeOK

\* The ends of a command.
LEMMA EndType ==
    ASSUME TypeOK, PendingDiscipline, NEW c \in Callers,
           ClaimRefused(c) \/ WriteFails(c) \/ TakeResponse(c) \/ GiveUp(c)
    PROVE  TypeOK'
<1>1. NoLine \in Lines /\ << >> \in Seq(Lines)
  BY ConstantTypes
<1>2. CASE ClaimRefused(c)
  <2>1. Finish(c, "COMMAND_PENDING", NoLine, << >>) /\ UNCHANGED toModem
    BY <1>2 DEF ClaimRefused
  <2> QED BY <2>1, <1>1, FinishType DEF Errors
<1>3. CASE WriteFails(c)
  <2>1. /\ Finish(c, "CHANNEL_CLOSED", NoLine, << >>) \/ Finish(c, "GENERIC", NoLine, << >>)
        /\ UNCHANGED toModem
    BY <1>3 DEF WriteFails
  <2> QED BY <2>1, <1>1, FinishType DEF Errors
<1>4. CASE TakeResponse(c)
  <2> DEFINE err == IF readerClosed THEN "CHANNEL_CLOSED" ELSE ErrorOf(response)
  <2>1. Finish(c, err, response.final, ArrivalOrder(response.infos)) /\ UNCHANGED toModem
    BY <1>4 DEF TakeResponse
  <2>2. err \in Errors
    BY DEF ErrorOf, Errors
  <2>3. response \in Responses
    <3>1. requestmutex = c
      BY <1>4 DEF TakeResponse, PendingDiscipline, PendingLabels
    <3>2. response # NoResponse
      BY <3>1, ThreadAssumption DEF PendingDiscipline
    <3> QED BY <3>2 DEF TypeOK, PendingTypeOK
  <2>4. response.final \in Lines /\ ArrivalOrder(response.infos) \in Seq(Lines)
    BY <2>3, ReverseType DEF Responses
  <2> QED BY <2>1, <2>2, <2>4, FinishType
<1>5. CASE GiveUp(c)
  <2>1. Finish(c, "TIMEOUT", NoLine, << >>) /\ UNCHANGED toModem
    BY <1>5 DEF GiveUp
  <2> QED BY <2>1, <1>1, FinishType DEF Errors
<1> QED BY <1>2, <1>3, <1>4, <1>5

\* Every step keeps the types; TakeResponse needs that a response is pending.
LEMMA NextType ==
    ASSUME TypeOK, PendingDiscipline, [Next]_vars PROVE TypeOK'
<1>1. ASSUME NEW c \in Callers, CallerStep(c) PROVE TypeOK'
  BY <1>1, CallerMoveType, ClaimRequestType, WriteCommandType, SendEscapeType, EndType
     DEF CallerStep, Claim
<1>2. ASSUME NEW c \in Callers, Call(c) \/ TimeOut(c) \/ SpuriousWakeup(c) \/ StartClose(c)
      PROVE  TypeOK'
  BY <1>2, CallType, CallerMoveType
<1>3. CASE ReaderStep
  BY <1>3, ReaderMoveType, TakeBufferedLineType, PollDataType, ProcessLineType
     DEF ReaderStep
<1>4. CASE OtherContextFormats
  BY <1>4, ConstantTypes DEF OtherContextFormats, TypeOK, PcTypeOK, ChannelTypeOK,
     PendingTypeOK, ReaderTypeOK, CallerTypeOK, WireTypeOK, wireVars, callerVars,
     commandVars, readerVars, mutexVars, modemVars
<1>5. CASE UNCHANGED vars
  BY <1>5 DEF TypeOK, PcTypeOK, ChannelTypeOK, PendingTypeOK, ReaderTypeOK,
     CallerTypeOK, WireTypeOK, vars, restVars, chanVars, mutexVars, commandVars,
     readerVars, callerVars, modemVars, wireVars
<1> QED BY <1>1, <1>2, <1>3, <1>4, <1>5, CloseStepType, ModemStepType
        DEF Next, Quiescent

\* A fresh channel has its types.
LEMMA InitType == Init => TypeOK
<1> SUFFICES ASSUME Init PROVE TypeOK
  OBVIOUS
<1>1. PcTypeOK
  BY ThreadAssumption DEF Init, PcTypeOK, Threads, CallerPcs, ReaderPcs
<1>2. ChannelTypeOK /\ PendingTypeOK
  BY ConstantTypes DEF Init, ChannelTypeOK, PendingTypeOK, CommandPrefixes
<1>3. CallerTypeOK
  BY ConstantTypes, BoundAssumption DEF Init, CallerTypeOK
<1>4. WireTypeOK
  <2>1. modem \in ModemStates
    BY ConstantTypes, BoundAssumption DEF Init, ModemStates
  <2>2. << >> \in Seq(Messages)
    OBVIOUS
  <2>3. answered \in [0 .. MaxCalls -> SUBSET Nat] /\ toModem \in Seq(Messages)
    BY <2>2 DEF Init
  <2>4. modemUp \in BOOLEAN /\ desync \in BOOLEAN
    BY DEF Init
  <2>5. serial \in Nat /\ urcs \in 0 .. MaxUrcs
    BY BoundAssumption DEF Init
  <2> QED BY <2>1, <2>3, <2>4, <2>5 DEF WireTypeOK
<1>5. ReaderTypeOK
  <2>1. << >> \in Seq(Lines)
    OBVIOUS
  <2> QED BY <2>1, ConstantTypes DEF Init, ReaderTypeOK
<1> QED BY <1>1, <1>2, <1>3, <1>4, <1>5 DEF TypeOK

-----------------------------------------------------------------------------
(***************************************************************************)
(* The locks.                                                              *)
(***************************************************************************)
Discipline == PendingDiscipline /\ MutexDiscipline /\ NoMissedSignal

\* Steps before and between the waits of a command.
LEMMA CallerMoveLock ==
    ASSUME LockInv, NEW c \in Callers,
           \/ Call(c) \/ LockAndFormat(c) \/ WaitForRequest(c) \/ RetryRequest(c)
           \/ WriteCommand(c) \/ WaitForResponse(c) \/ RecheckResponse(c)
           \/ TimeOut(c) \/ HandshakeDone(c) \/ SendEscape(c)
           \/ SpuriousWakeup(c) \/ StartClose(c)
    PROVE  Discipline'
<1>1. CASE Call(c)
  BY <1>1, ThreadAssumption
     DEF Call, LockInv, Discipline, PendingDiscipline, MutexDiscipline,
         NoMissedSignal, TypeOK, PcTypeOK, ChannelTypeOK, PendingLabels,
         HoldingLabels, Goto, Threads, restVars, chanVars, mutexVars,
         commandVars, readerVars, callerVars, modemVars, wireVars
<1>2. CASE LockAndFormat(c)
  BY <1>2, ThreadAssumption
     DEF LockAndFormat, LockInv, Discipline, PendingDiscipline,
         MutexDiscipline, NoMissedSignal, TypeOK, PcTypeOK, ChannelTypeOK,
         PendingLabels, HoldingLabels, Goto, Threads, restVars, chanVars,
         mutexVars, commandVars, readerVars, callerVars, modemVars, wireVars
<1>3. CASE WaitForRequest(c)
  BY <1>3, ThreadAssumption
     DEF WaitForRequest, TrylockSucceeds, LockInv, Discipline,
         PendingDiscipline, MutexDiscipline, NoMissedSignal, TypeOK, PcTypeOK,
         ChannelTypeOK, PendingLabels, HoldingLabels, Goto, Threads, restVars,
         chanVars, mutexVars, commandVars, readerVars, callerVars, modemVars,
         wireVars
<1>4. CASE RetryRequest(c)
  BY <1>4, ThreadAssumption
     DEF RetryRequest, LockInv, Discipline, PendingDiscipline,
         MutexDiscipline, NoMissedSignal, TypeOK, PcTypeOK, ChannelTypeOK,
         PendingLabels, HoldingLabels, Goto, Threads, restVars, chanVars,
         mutexVars, commandVars, readerVars, callerVars, modemVars, wireVars
<1>5. CASE WriteCommand(c)
  BY <1>5, ThreadAssumption
     DEF WriteCommand, LockInv, Discipline, PendingDiscipline,
         MutexDiscipline, NoMissedSignal, TypeOK, PcTypeOK, ChannelTypeOK,
         PendingLabels, HoldingLabels, Goto, Threads, restVars, chanVars,
         mutexVars, commandVars, readerVars, callerVars, modemVars, wireVars
<1>6. CASE WaitForResponse(c)
  BY <1>6, ThreadAssumption
     DEF WaitForResponse, LockInv, Discipline, PendingDiscipline,
         MutexDiscipline, NoMissedSignal, TypeOK, PcTypeOK, ChannelTypeOK,
         PendingLabels, HoldingLabels, Goto, Threads, restVars, chanVars,
         mutexVars, commandVars, readerVars, callerVars, modemVars, wireVars
<1>7. CASE RecheckResponse(c)
  BY <1>7, ThreadAssumption
     DEF RecheckResponse, LockInv, Discipline, PendingDiscipline,
         MutexDiscipline, NoMissedSignal, TypeOK, PcTypeOK, ChannelTypeOK,
         PendingLabels, HoldingLabels, Goto, Threads, restVars, chanVars,
         mutexVars, commandVars, readerVars, callerVars, modemVars, wireVars
<1>8. CASE TimeOut(c)
  BY <1>8, ThreadAssumption
     DEF TimeOut, LockInv, Discipline, PendingDiscipline, MutexDiscipline,
         NoMissedSignal, TypeOK, PcTypeOK, ChannelTypeOK, PendingLabels,
         HoldingLabels, Goto, Threads, restVars, chanVars, mutexVars,
         commandVars, readerVars, callerVars, modemVars, wireVars
<1>9. CASE HandshakeDone(c)
  BY <1>9, ThreadAssumption
     DEF HandshakeDone, LockInv, Discipline, PendingDiscipline,
         MutexDiscipline, NoMissedSignal, TypeOK, PcTypeOK, ChannelTypeOK,
         PendingLabels, HoldingLabels, Goto, Threads, restVars, chanVars,
         mutexVars, commandVars, readerVars, callerVars, modemVars, wireVars
<1>10. CASE SendEscape(c)
  BY <1>10, ThreadAssumption
     DEF SendEscape, LockInv, Discipline, PendingDiscipline, MutexDiscipline,
         NoMissedSignal, TypeOK, PcTypeOK, ChannelTypeOK, PendingLabels,
         HoldingLabels, Goto, Threads, restVars, chanVars, mutexVars,
         commandVars, readerVars, callerVars, modemVars, wireVars
<1>11. CASE SpuriousWakeup(c)
  BY <1>11, ThreadAssumption
     DEF SpuriousWakeup, LockInv, Discipline, PendingDiscipline,
         MutexDiscipline, NoMissedSignal, TypeOK, PcTypeOK, ChannelTypeOK,
         PendingLabels, HoldingLabels, Goto, Threads, restVars, chanVars,
         mutexVars, commandVars, readerVars, callerVars, modemVars, wireVars
<1>12. CASE StartClose(c)
  BY <1>12, ThreadAssumption
     DEF StartClose, LockInv, Discipline, PendingDiscipline, MutexDiscipline,
         NoMissedSignal, TypeOK, PcTypeOK, ChannelTypeOK, PendingLabels,
         HoldingLabels, Goto, Threads, restVars, chanVars, mutexVars,
         commandVars, readerVars, callerVars, modemVars, wireVars
<1> QED BY <1>1, <1>2, <1>3, <1>4, <1>5, <1>6, <1>7, <1>8, <1>9, <1>10, <1>11, <1>12

\* at_close: the signal wakes the waiter it makes give up.
LEMMA CloseStepLock ==
    ASSUME LockInv, NEW t \in Threads, CloseStep(t)
    PROVE  Discipline'
<1>1. CASE CloseTest(t)
  BY <1>1, ThreadAssumption
     DEF CloseTest, AfterClose, LockInv, Discipline, PendingDiscipline,
         MutexDiscipline, NoMissedSignal, TypeOK, PcTypeOK, ChannelTypeOK,
         PendingLabels, HoldingLabels, Goto, Threads, restVars, chanVars,
         mutexVars, commandVars, readerVars, callerVars, modemVars, wireVars
<1>2. CASE CloseFd(t)
  BY <1>2, ThreadAssumption
     DEF CloseFd, LockInv, Discipline, PendingDiscipline, MutexDiscipline,
         NoMissedSignal, TypeOK, PcTypeOK, ChannelTypeOK, PendingLabels,
         HoldingLabels, Goto, Threads, restVars, chanVars, mutexVars,
         commandVars, readerVars, callerVars, modemVars, wireVars
<1>3. CASE CloseSignal(t)
  BY <1>3, ThreadAssumption
     DEF CloseSignal, SignalCommand, LockInv, Discipline, PendingDiscipline,
         MutexDiscipline, NoMissedSignal, TypeOK, PcTypeOK, ChannelTypeOK,
         PendingLabels, HoldingLabels, Goto, Threads, restVars, chanVars,
         mutexVars, commandVars, readerVars, callerVars, modemVars, wireVars
<1>4. CASE KickReader(t)
  BY <1>4, ThreadAssumption
     DEF KickReader, AfterClose, LockInv, Discipline, PendingDiscipline,
         MutexDiscipline, NoMissedSignal, TypeOK, PcTypeOK, ChannelTypeOK,
         PendingLabels, HoldingLabels, Goto, Threads, restVars, chanVars,
         mutexVars, commandVars, readerVars, callerVars, modemVars, wireVars
<1> QED BY <1>1, <1>2, <1>3, <1>4 DEF CloseStep

\* Reader steps outside processLine.
LEMMA ReaderMoveLock ==
    ASSUME LockInv, 
           \/ TakeBufferedLine \/ StartPoll \/ PollKick \/ PollData \/ PollEof
           \/ ReaderEof \/ ReaderReportsClosed
    PROVE  Discipline'
<1>1. CASE TakeBufferedLine
  BY <1>1, ThreadAssumption
     DEF TakeBufferedLine, ReaderUnchanged, LockInv, Discipline,
         PendingDiscipline, MutexDiscipline, NoMissedSignal, TypeOK, PcTypeOK,
         ChannelTypeOK, PendingLabels, HoldingLabels, Goto, Threads, restVars,
         chanVars, mutexVars, commandVars, readerVars, callerVars, modemVars,
         wireVars
<1>2. CASE StartPoll
  BY <1>2, ThreadAssumption
     DEF StartPoll, ReaderUnchanged, LockInv, Discipline, PendingDiscipline,
         MutexDiscipline, NoMissedSignal, TypeOK, PcTypeOK, ChannelTypeOK,
         PendingLabels, HoldingLabels, Goto, Threads, restVars, chanVars,
         mutexVars, commandVars, readerVars, callerVars, modemVars, wireVars
<1>3. CASE PollKick
  BY <1>3, ThreadAssumption
     DEF PollKick, ReaderUnchanged, LockInv, Discipline, PendingDiscipline,
         MutexDiscipline, NoMissedSignal, TypeOK, PcTypeOK, ChannelTypeOK,
         PendingLabels, HoldingLabels, Goto, Threads, restVars, chanVars,
         mutexVars, commandVars, readerVars, callerVars, modemVars, wireVars
<1>4. CASE PollData
  BY <1>4, ThreadAssumption
     DEF PollData, ReaderUnchanged, LockInv, Discipline, PendingDiscipline,
         MutexDiscipline, NoMissedSignal, TypeOK, PcTypeOK, ChannelTypeOK,
         PendingLabels, HoldingLabels, Goto, Threads, restVars, chanVars,
         mutexVars, commandVars, readerVars, callerVars, modemVars, wireVars
<1>5. CASE PollEof
  BY <1>5, ThreadAssumption
     DEF PollEof, ReaderUnchanged, LockInv, Discipline, PendingDiscipline,
         MutexDiscipline, NoMissedSignal, TypeOK, PcTypeOK, ChannelTypeOK,
         PendingLabels, HoldingLabels, Goto, Threads, restVars, chanVars,
         mutexVars, commandVars, readerVars, callerVars, modemVars, wireVars
<1>6. CASE ReaderEof
  BY <1>6, ThreadAssumption
     DEF ReaderEof, ReaderUnchanged, LockInv, Discipline, PendingDiscipline,
         MutexDiscipline, NoMissedSignal, TypeOK, PcTypeOK, ChannelTypeOK,
         PendingLabels, HoldingLabels, Goto, Threads, restVars, chanVars,
         mutexVars, commandVars, readerVars, callerVars, modemVars, wireVars
<1>7. CASE ReaderReportsClosed
  BY <1>7, ThreadAssumption
     DEF ReaderReportsClosed, ReaderUnchanged, SignalCommand, LockInv,
         Discipline, PendingDiscipline, MutexDiscipline, NoMissedSignal,
         TypeOK, PcTypeOK, ChannelTypeOK, PendingLabels, HoldingLabels, Goto,
         Threads, restVars, chanVars, mutexVars, commandVars, readerVars,
         callerVars, modemVars, wireVars
<1> QED BY <1>1, <1>2, <1>3, <1>4, <1>5, <1>6, <1>7

\* The pending command: requestmutex was free, so nobody waits on commandcond.
LEMMA ClaimRequestLock ==
    ASSUME LockInv, NEW c \in Callers, response = NoResponse, ClaimRequest(c)
    PROVE  Discipline'
<1>1. NewResponse # NoResponse
  BY ConstantTypes, ResponseAssumption
<1>2. PendingDiscipline'
  BY <1>1, ThreadAssumption DEF LockInv, PendingDiscipline, ClaimRequest, TypeOK, PcTypeOK,
     ChannelTypeOK, PendingLabels, Goto, Threads, TrylockSucceeds, chanVars, callerVars
<1>3. MutexDiscipline' /\ NoMissedSignal'
  BY <1>1, ThreadAssumption DEF LockInv, PendingDiscipline, MutexDiscipline,
     NoMissedSignal, ClaimRequest, TypeOK, PcTypeOK, ChannelTypeOK, PendingLabels,
     HoldingLabels, Goto, Threads, TrylockSucceeds, chanVars
<1> QED BY <1>2, <1>3 DEF Discipline

\* processLine changes the response, never whether there is one.
LEMMA ProcessLineLock ==
    ASSUME LockInv, ProcessLine PROVE Discipline'
<1>1. response' = NoResponse <=> response = NoResponse
  <2>1. PendingTypeOK'
    BY ProcessLineType DEF LockInv, TypeOK
  <2>2. CASE response = NoResponse
    BY <2>2 DEF ProcessLine
  <2>3. CASE response # NoResponse
    <3>1. response \in Responses /\ line \in Lines
      BY <2>3 DEF LockInv, TypeOK, PendingTypeOK, ReaderTypeOK
    <3>2. [response EXCEPT !.success = (line.kind = "ok"), !.final = line] \in Responses
      BY <3>1 DEF Responses
    <3>3. [response EXCEPT !.infos = <<line>> \o @] \in Responses
      BY <3>1, QueueTypes DEF Responses
    <3> QED BY <2>3, <3>1, <3>2, <3>3, ResponseAssumption DEF ProcessLine
  <2> QED BY <2>2, <2>3
<1>2. PendingDiscipline'
  BY <1>1, ThreadAssumption DEF LockInv, PendingDiscipline, ProcessLine, TypeOK, PcTypeOK,
     PendingLabels, Goto, Threads, SignalCommand, ReaderUnchanged, mutexVars, callerVars
<1>3. MutexDiscipline' /\ NoMissedSignal'
  BY ThreadAssumption DEF LockInv, PendingDiscipline, MutexDiscipline, NoMissedSignal,
     ProcessLine, TypeOK, PcTypeOK, PendingLabels, HoldingLabels, Goto, Threads,
     SignalCommand, ReaderUnchanged, mutexVars
<1> QED BY <1>2, <1>3 DEF Discipline

\* The end of a command: it was the pending one, and leaves nothing pending.
LEMMA FinishLock ==
    ASSUME LockInv, NEW c \in Callers, requestmutex \in {c, NoOne},
           commandmutex \in {c, NoOne}, pc[c] \notin {"waitReq", "waitResp"},
           NEW err \in Errors, err # "COMMAND_PENDING", NEW final, NEW infos,
           Finish(c, err, final, infos)
    PROVE  Discipline'
<1>1. NextLabel(c, err) \in {"hsSleep", "claim", "idle", "escape"}
  BY DEF NextLabel
<1>2. WrapperError(call[c].api, err, infos) # "COMMAND_PENDING"
  BY DEF WrapperError
<1>3. \A d \in Callers : d # c => pc[d] \notin PendingLabels \cup HoldingLabels
  BY ThreadAssumption DEF LockInv, PendingDiscipline, MutexDiscipline
<1>4. /\ pc'[c] = NextLabel(c, err)
      /\ \A d \in Callers : d # c =>
            pc'[d] = IF pc[d] = "waitReq" THEN "wokenReq" ELSE pc[d]
  BY <1>1, ThreadAssumption DEF Finish, BroadcastRequest, LockInv, TypeOK, PcTypeOK, Threads
<1>5. PendingDiscipline'
  <2>1. \A d \in Callers : result'[d].err # "COMMAND_PENDING"
    BY <1>2 DEF Finish, LockInv, PendingDiscipline, TypeOK, CallerTypeOK
  <2> QED BY <1>1, <1>3, <1>4, <2>1, ThreadAssumption
          DEF Finish, PendingDiscipline, PendingLabels
<1>6. MutexDiscipline'
  BY <1>1, <1>3, <1>4, ThreadAssumption DEF Finish, MutexDiscipline, HoldingLabels
<1>7. NoMissedSignal'
  BY <1>1, <1>3, <1>4 DEF Finish, NoMissedSignal, PendingLabels, LockInv
<1> QED BY <1>5, <1>6, <1>7 DEF Discipline

\* The ends of a command; no command is refused for a pending response.
LEMMA EndLock ==
    ASSUME LockInv, NEW c \in Callers,
           (response # NoResponse /\ ClaimRefused(c)) \/ WriteFails(c) \/ TakeResponse(c) \/ GiveUp(c)
    PROVE  Discipline'
<1>1. CASE response # NoResponse /\ ClaimRefused(c)
  BY <1>1 DEF ClaimRefused, LockInv, PendingDiscipline, TrylockSucceeds
<1>2. CASE WriteFails(c)
  <2>1. pc[c] = "write" /\ requestmutex = c /\ commandmutex = c
    BY <1>2 DEF WriteFails, LockInv, PendingDiscipline, MutexDiscipline, PendingLabels,
       HoldingLabels
  <2>2. Finish(c, "CHANNEL_CLOSED", NoLine, << >>) \/ Finish(c, "GENERIC", NoLine, << >>)
    BY <1>2 DEF WriteFails
  <2> QED BY <2>1, <2>2, FinishLock DEF Errors
<1>3. CASE TakeResponse(c)
  <2> DEFINE err == IF readerClosed THEN "CHANNEL_CLOSED" ELSE ErrorOf(response)
  <2>1. pc[c] = "check" /\ requestmutex = c /\ commandmutex = c
    BY <1>3 DEF TakeResponse, LockInv, PendingDiscipline, MutexDiscipline, PendingLabels,
       HoldingLabels
  <2>2. Finish(c, err, response.final, ArrivalOrder(response.infos))
    BY <1>3 DEF TakeResponse
  <2>3. err \in Errors /\ err # "COMMAND_PENDING"
    BY DEF ErrorOf, Errors
  <2> HIDE DEF err
  <2> QED BY <2>1, <2>2, <2>3, FinishLock
<1>4. CASE GiveUp(c)
  <2>1. pc[c] = "timedOut" /\ requestmutex = c /\ commandmutex = NoOne
    BY <1>4 DEF GiveUp, LockInv, PendingDiscipline, PendingLabels
  <2>2. Finish(c, "TIMEOUT", NoLine, << >>)
    BY <1>4 DEF GiveUp
  <2> QED BY <2>1, <2>2, FinishLock DEF Errors
<1> QED BY <1>1, <1>2, <1>3, <1>4

\* Steps of the environment touch neither locks nor labels.
LEMMA EnvironmentLock ==
    ASSUME LockInv, ModemStep \/ OtherContextFormats \/ UNCHANGED vars
    PROVE  Discipline'
<1>1. UNCHANGED <<pc, readerClosed, mutexVars, commandVars, callerVars>>
  BY DEF ModemStep, ModemTakes, ModemInfo, ModemAnswers, ModemUrc, ModemDies,
     ModemUnchanged, OtherContextFormats, vars, restVars, chanVars
<1> QED BY <1>1 DEF LockInv, Discipline, PendingDiscipline, MutexDiscipline,
        NoMissedSignal, mutexVars, commandVars, callerVars

LEMMA NextLock ==
    ASSUME LockInv, [Next]_vars PROVE LockInv'
<1>1. TypeOK'
  BY NextType DEF LockInv
<1>2. Discipline'
  <2>1. ASSUME NEW c \in Callers, CallerStep(c) PROVE Discipline'
    BY <2>1, CallerMoveLock, ClaimRequestLock, EndLock DEF CallerStep, Claim
  <2>2. ASSUME NEW c \in Callers,
               Call(c) \/ TimeOut(c) \/ SpuriousWakeup(c) \/ StartClose(c)
        PROVE  Discipline'
    BY <2>2, CallerMoveLock
  <2>3. CASE ReaderStep
    BY <2>3, ReaderMoveLock, ProcessLineLock DEF ReaderStep
  <2> QED BY <2>1, <2>2, <2>3, CloseStepLock, EnvironmentLock DEF Next, Quiescent
<1> QED BY <1>1, <1>2 DEF LockInv, Discipline

LEMMA InitLock == Init => LockInv
<1> SUFFICES ASSUME Init PROVE LockInv
  OBVIOUS
<1>1. Discipline
  BY ThreadAssumption DEF Init, Discipline, PendingDiscipline, MutexDiscipline,
     NoMissedSignal, PendingLabels, HoldingLabels, Threads, NoResult
<1> QED BY <1>1, InitType DEF LockInv, Discipline

(***************************************************************************)
(* In every behaviour the types and the lock discipline of the channel     *)
(* (at_send_command_full_nolock, at_close, handleFinalResponse) hold: the  *)
(* inductive invariant the four theorems below are parts of.               *)
(***************************************************************************)
THEOREM LocksCorrect == Spec => []LockInv
  BY InitLock, NextLock, PTL DEF Spec

(***************************************************************************)
(* In every behaviour the variables keep their types (the code: every exit *)
(* of at_send_command_full_nolock and at_handshake leaves the context in a *)
(* state the next command can start from).                                 *)
(***************************************************************************)
THEOREM TypeCorrect == Spec => []TypeOK
<1>1. LockInv => TypeOK
  BY DEF LockInv
<1> QED BY <1>1, InitLock, NextLock, PTL DEF Spec

(***************************************************************************)
(* In every behaviour at most one command is pending, its response exists  *)
(* exactly as long as it holds requestmutex, and no command is refused     *)
(* with AT_ERROR_COMMAND_PENDING.                                          *)
(***************************************************************************)
THEOREM OnePendingCommand == Spec => []PendingDiscipline
<1>1. LockInv => PendingDiscipline
  BY DEF LockInv
<1> QED BY <1>1, InitLock, NextLock, PTL DEF Spec

(***************************************************************************)
(* In every behaviour commandmutex is held exactly by the thread that is   *)
(* in a section it protects.                                               *)
(***************************************************************************)
THEOREM SectionsExclusive == Spec => []MutexDiscipline
<1>1. LockInv => MutexDiscipline
  BY DEF LockInv
<1> QED BY <1>1, InitLock, NextLock, PTL DEF Spec

(***************************************************************************)
(* In every behaviour a thread that sleeps on commandcond has no answer    *)
(* and an open channel, and one that sleeps on requestcond has a pending   *)
(* command to wait for: handleFinalResponse, at_close, onReaderClosed and  *)
(* the end of a command signal everyone they concern.                      *)
(***************************************************************************)
THEOREM NobodySleepsThroughASignal == Spec => []NoMissedSignal
<1>1. LockInv => NoMissedSignal
  BY DEF LockInv
<1> QED BY <1>1, InitLock, NextLock, PTL DEF Spec

-----------------------------------------------------------------------------
(***************************************************************************)
(* The channel is in step.  Every line the modem sent is in one of three   *)
(* places (the descriptor, the buffer, the line in processLine), and the   *)
(* serial numbers grow along them.                                         *)
(***************************************************************************)
Held == pc[Reader] = "process"

InFlight == (IF Held THEN {line} ELSE {}) \cup Range(buffer) \cup Range(fromModem)

Sorted(s) == \A i, j \in DOMAIN s : i < j => s[i].serial < s[j].serial

\* The order of the stream; NO CARRIER comes only unsolicited.
StreamInv ==
    /\ Sorted(buffer) /\ Sorted(fromModem)
    /\ \A b \in Range(buffer), l \in Range(fromModem) : b.serial < l.serial
    /\ Held => \A l \in Range(buffer) \cup Range(fromModem) : line.serial < l.serial
    /\ \A l \in InFlight : l.serial <= serial
    /\ \A l \in InFlight : l.kind = "nocarrier" => "nocarrier" \in scenario.urcKinds

\* What is under way: commands the modem has not taken, lines that belong to a
\* command, and the final ones among them.
Queued == {m \in Range(toModem) : m.kind = "cmd"}
Owned == {l \in InFlight : l.kind \in {"info", "ok", "error", "prompt"}}
Answers == {l \in InFlight : l.kind \in {"ok", "error"}}

\* A command can still be written.
Alive == fdOpen /\ ~readerClosed /\ modemUp

\* The thread of AloneOnChannel closes the channel after its command timed out.
Closing == \E c \in scenario.callers : pc[c] \in {"escape", "closeTest", "closeFd"}

InStep == ~desync \/ (AloneOnChannel /\ ~Closing)

\* Nothing of a command is under way.
Idle == Queued = {} /\ modem.phase = "idle" /\ Owned = {}

Answered == response.final.kind \in {"ok", "error"}

OneCommand(queue) ==
    \A i, j \in DOMAIN queue : queue[i].kind = "cmd" /\ queue[j].kind = "cmd" => i = j

\* All that is under way belongs to command id, whose answer ends with its only final line.
Executes(id) ==
    /\ \A m \in Queued : m.owner = id
    /\ OneCommand(toModem)
    /\ modem.phase # "idle" => modem.owner = id
    /\ \A l \in Owned : l.cmd = id
    /\ Queued # {} => modem.phase = "idle" /\ Owned = {}
    /\ modem.phase # "idle" => Answers = {}
    /\ \A l \in Answers, o \in Owned : o.serial <= l.serial
    /\ \/ response.final = NoLine
       \/ response.final.kind = "nocarrier" /\ "nocarrier" \in scenario.urcKinds
       \/ Answered /\ response.final.cmd = id
    /\ Answered => Idle

\* The command of the thread is written and has not returned.
Waiting == {"check", "waitResp", "wokenResp", "timedOut"}

StepInv ==
    InStep =>
        /\ \A c \in Callers : pc[c] \in Waiting => Executes(call[c].id)
        /\ (\A c \in Callers : pc[c] \notin Waiting) /\ Alive => Idle

\* A thread that issues a command is one of those the scenario names.
Commanding == {"lock", "claim", "waitReq", "wokenReq", "write", "hsSleep", "escape"} \cup Waiting

CallsFit ==
    \A c \in Callers :
        pc[c] \in Commanding => c \in scenario.callers /\ call[c].api \in scenario.apis

AnswersInv == ~desync \/ AloneOnChannel => AnswersOwnCommand

SyncInv == CallsFit /\ StreamInv /\ StepInv /\ AnswersInv

-----------------------------------------------------------------------------
(***************************************************************************)
(* The queue operations, by the elements of the queue.                     *)
(***************************************************************************)
LEMMA QueueRange ==
    ASSUME NEW S, NEW s \in Seq(S)
    PROVE  /\ Range(s) \subseteq S
           /\ s # << >> => /\ Head(s) \in Range(s) /\ Range(Tail(s)) \subseteq Range(s)
           /\ \A e \in S : Range(Append(s, e)) = Range(s) \cup {e}
           /\ \A n \in 1 .. Len(s) :
                 /\ Range(SubSeq(s, 1, n)) \subseteq Range(s)
                 /\ Range(SubSeq(s, n + 1, Len(s))) \subseteq Range(s)
           /\ \A t \in Seq(S) : Range(s \o t) = Range(s) \cup Range(t)
<1>1. Range(s) \subseteq S
  BY DEF Range
<1>2. s # << >> => /\ Head(s) \in Range(s) /\ Range(Tail(s)) \subseteq Range(s)
  BY DEF Range
<1>3. ASSUME NEW e \in S PROVE Range(Append(s, e)) = Range(s) \cup {e}
  <2>1. /\ Len(Append(s, e)) = Len(s) + 1 /\ DOMAIN Append(s, e) = 1 .. Len(s) + 1
        /\ \A i \in 1 .. Len(s) : Append(s, e)[i] = s[i]
        /\ Append(s, e)[Len(s) + 1] = e /\ DOMAIN s = 1 .. Len(s) /\ Len(s) \in Nat
    BY AppendProperties, LenProperties
  <2>2. \A i \in 1 .. Len(s) : i \in 1 .. Len(s) + 1
    BY <2>1
  <2>3. Len(s) + 1 \in 1 .. Len(s) + 1 /\ \A i \in 1 .. Len(s) + 1 : i \in 1 .. Len(s) \/ i = Len(s) + 1
    BY <2>1
  <2> QED BY <2>1, <2>2, <2>3 DEF Range
<1>4. ASSUME NEW n \in 1 .. Len(s)
      PROVE  /\ Range(SubSeq(s, 1, n)) \subseteq Range(s)
             /\ Range(SubSeq(s, n + 1, Len(s))) \subseteq Range(s)
  <2>1. /\ DOMAIN SubSeq(s, 1, n) = 1 .. n /\ \A i \in 1 .. n : SubSeq(s, 1, n)[i] = s[i]
        /\ DOMAIN SubSeq(s, n + 1, Len(s)) = 1 .. Len(s) - n
        /\ \A i \in 1 .. Len(s) - n : SubSeq(s, n + 1, Len(s))[i] = s[n + i]
    OBVIOUS
  <2> QED BY <2>1, LenProperties DEF Range
<1>5. ASSUME NEW t \in Seq(S) PROVE Range(s \o t) = Range(s) \cup Range(t)
  <2>1. /\ DOMAIN s = 1 .. Len(s) /\ DOMAIN t = 1 .. Len(t) /\ DOMAIN (s \o t) = 1 .. Len(s) + Len(t)
        /\ \A i \in 1 .. Len(s) : (s \o t)[i] = s[i]
        /\ \A i \in 1 .. Len(t) : (s \o t)[Len(s) + i] = t[i]
        /\ Len(s) \in Nat /\ Len(t) \in Nat
    OBVIOUS
  <2>2. \A i \in 1 .. Len(s) + Len(t) : i \in 1 .. Len(s) \/ \E j \in 1 .. Len(t) : i = Len(s) + j
    <3> TAKE i \in 1 .. Len(s) + Len(t)
    <3>1. CASE i <= Len(s)
      BY <3>1, <2>1
    <3>2. CASE i > Len(s)
      <4>1. i - Len(s) \in 1 .. Len(t) /\ i = Len(s) + (i - Len(s))
        BY <3>2, <2>1
      <4> QED BY <4>1
    <3> QED BY <3>1, <3>2, <2>1
  <2>3. /\ \A i \in 1 .. Len(s) : i \in 1 .. Len(s) + Len(t)
        /\ \A j \in 1 .. Len(t) : Len(s) + j \in 1 .. Len(s) + Len(t)
    BY <2>1
  <2>4. \A e \in Range(s \o t) : e \in Range(s) \cup Range(t)
    <3> TAKE e \in Range(s \o t)
    <3>1. PICK i \in 1 .. Len(s) + Len(t) : e = (s \o t)[i]
      BY <2>1 DEF Range
    <3>2. CASE i \in 1 .. Len(s)
      BY <2>1, <3>1, <3>2 DEF Range
    <3>3. CASE \E j \in 1 .. Len(t) : i = Len(s) + j
      BY <2>1, <3>1, <3>3 DEF Range
    <3> QED BY <2>2, <3>2, <3>3
  <2>5. \A e \in Range(s) \cup Range(t) : e \in Range(s \o t)
    <3>1. ASSUME NEW i \in 1 .. Len(s) PROVE s[i] \in Range(s \o t)
      BY <2>1, <2>3 DEF Range
    <3>2. ASSUME NEW i \in 1 .. Len(t) PROVE t[i] \in Range(s \o t)
      BY <2>1, <2>3 DEF Range
    <3> QED BY <2>1, <3>1, <3>2 DEF Range
  <2> QED BY <2>4, <2>5
<1> QED BY <1>1, <1>2, <1>3, <1>4, <1>5

\* The queue operations keep the order of the serial numbers.
LEMMA SortedParts ==
    ASSUME NEW s \in Seq(Lines), Sorted(s)
    PROVE  /\ s # << >> => /\ Sorted(Tail(s))
                           /\ \A l \in Range(Tail(s)) : Head(s).serial < l.serial
           /\ \A n \in 1 .. Len(s) :
                 /\ Sorted(SubSeq(s, 1, n)) /\ Sorted(SubSeq(s, n + 1, Len(s)))
                 /\ \A b \in Range(SubSeq(s, 1, n)), l \in Range(SubSeq(s, n + 1, Len(s))) :
                       b.serial < l.serial
           /\ \A t \in Seq(Lines) :
                 Sorted(t) /\ (\A a \in Range(s), b \in Range(t) : a.serial < b.serial)
                     => Sorted(s \o t)
<1>1. ASSUME s # << >>
      PROVE  Sorted(Tail(s)) /\ \A l \in Range(Tail(s)) : Head(s).serial < l.serial
  <2>1. /\ DOMAIN Tail(s) = 1 .. Len(s) - 1 /\ DOMAIN s = 1 .. Len(s) /\ Head(s) = s[1]
        /\ \A i \in 1 .. Len(s) - 1 : Tail(s)[i] = s[i + 1]
        /\ Len(s) \in Nat /\ Len(s) >= 1
    BY <1>1
  <2> QED BY <2>1 DEF Sorted, Range
<1>2. ASSUME NEW n \in 1 .. Len(s)
      PROVE  /\ Sorted(SubSeq(s, 1, n)) /\ Sorted(SubSeq(s, n + 1, Len(s)))
             /\ \A b \in Range(SubSeq(s, 1, n)), l \in Range(SubSeq(s, n + 1, Len(s))) :
                   b.serial < l.serial
  <2>1. /\ DOMAIN SubSeq(s, 1, n) = 1 .. n /\ \A i \in 1 .. n : SubSeq(s, 1, n)[i] = s[i]
        /\ DOMAIN SubSeq(s, n + 1, Len(s)) = 1 .. Len(s) - n
        /\ \A i \in 1 .. Len(s) - n : SubSeq(s, n + 1, Len(s))[i] = s[n + i]
        /\ Len(s) \in Nat /\ DOMAIN s = 1 .. Len(s)
    OBVIOUS
  <2>2. Sorted(SubSeq(s, 1, n))
    BY <2>1 DEF Sorted
  <2>3. Sorted(SubSeq(s, n + 1, Len(s)))
    BY <2>1 DEF Sorted
  <2>4. ASSUME NEW i \in 1 .. n, NEW j \in 1 .. Len(s) - n
        PROVE  SubSeq(s, 1, n)[i].serial < SubSeq(s, n + 1, Len(s))[j].serial
    <3>1. i \in DOMAIN s /\ n + j \in DOMAIN s /\ i < n + j
      BY <2>1
    <3>2. s[i].serial < s[n + j].serial
      BY <3>1 DEF Sorted
    <3> QED BY <2>1, <3>2
  <2>5. DOMAIN SubSeq(s, 1, n) = 1 .. n /\ DOMAIN SubSeq(s, n + 1, Len(s)) = 1 .. Len(s) - n
    BY <2>1
  <2> QED BY <2>2, <2>3, <2>4, <2>5 DEF Range
<1>3. ASSUME NEW t \in Seq(Lines), Sorted(t), \A a \in Range(s), b \in Range(t) : a.serial < b.serial
      PROVE  Sorted(s \o t)
  <2>1. /\ DOMAIN s = 1 .. Len(s) /\ DOMAIN t = 1 .. Len(t) /\ DOMAIN (s \o t) = 1 .. Len(s) + Len(t)
        /\ \A i \in 1 .. Len(s) : (s \o t)[i] = s[i] /\ s[i] \in Range(s)
        /\ \A i \in Len(s) + 1 .. Len(s) + Len(t) : (s \o t)[i] = t[i - Len(s)] /\ t[i - Len(s)] \in Range(t)
        /\ Len(s) \in Nat /\ Len(t) \in Nat
    BY DEF Range
  <2> SUFFICES ASSUME NEW i \in 1 .. Len(s) + Len(t), NEW j \in 1 .. Len(s) + Len(t), i < j
               PROVE  (s \o t)[i].serial < (s \o t)[j].serial
    BY <2>1 DEF Sorted
  <2>2. CASE j <= Len(s)
    BY <2>1, <2>2 DEF Sorted
  <2>3. CASE i <= Len(s) /\ j > Len(s)
    BY <2>1, <2>3, <1>3
  <2>4. CASE i > Len(s)
    <3>1. i - Len(s) \in DOMAIN t /\ j - Len(s) \in DOMAIN t /\ i - Len(s) < j - Len(s)
      BY <2>1, <2>4
    <3>2. t[i - Len(s)].serial < t[j - Len(s)].serial
      BY <3>1, <1>3 DEF Sorted
    <3> QED BY <2>1, <2>4, <3>2
  <2> QED BY <2>1, <2>2, <2>3, <2>4
<1> QED BY <1>1, <1>2, <1>3

-----------------------------------------------------------------------------
(***************************************************************************)
(* What most steps leave alone, and that the invariants are kept by it.    *)
(***************************************************************************)
CallFrame ==
    /\ UNCHANGED <<call, scenario>>
    /\ \A c \in Callers : pc'[c] \in Commanding => pc[c] \in Commanding

StreamFrame ==
    /\ UNCHANGED <<buffer, fromModem, serial, scenario>>
    /\ Held' => Held /\ line' = line

\* Nothing is written, answered or returned; the last line is the close that ends AloneOnChannel.
StepFrame ==
    /\ UNCHANGED <<modem, scenario, desync, result>>
    /\ InFlight' \subseteq InFlight
    /\ Queued' \subseteq Queued /\ (OneCommand(toModem) => OneCommand(toModem'))
    /\ \A c \in Callers : pc[c] \in Waiting \/ pc'[c] \in Waiting =>
          /\ pc[c] \in Waiting /\ pc'[c] \in Waiting
          /\ call'[c] = call[c] /\ response'.final = response.final
    /\ Alive' => Alive
    /\ InStep' => InStep \/ (~Alive' /\ \A c \in Callers : pc'[c] \notin Waiting)

QuietStep == CallFrame /\ StreamFrame /\ StepFrame

LEMMA FrameKeepsFit == ASSUME CallsFit, CallFrame PROVE CallsFit'
  BY DEF CallsFit, CallFrame

LEMMA FrameKeepsStream == ASSUME StreamInv, StreamFrame PROVE StreamInv'
  BY DEF StreamInv, StreamFrame, InFlight

LEMMA FrameKeepsStep ==
    ASSUME StepInv, AnswersInv, StepFrame PROVE StepInv' /\ AnswersInv'
<1>1. AnswersInv'
  BY DEF AnswersInv, StepFrame, AloneOnChannel, AnswersOwnCommand, OwnAnswer
<1>2. Owned' \subseteq Owned /\ Answers' \subseteq Answers
  BY DEF StepFrame, Owned, Answers
<1>3. Idle => Idle'
  BY <1>2 DEF Idle, StepFrame
<1>4. ASSUME NEW c \in Callers, pc'[c] \in Waiting, Executes(call[c].id) PROVE Executes(call[c].id)'
  <2>1. /\ call'[c] = call[c] /\ response'.final = response.final /\ modem' = modem
        /\ scenario' = scenario /\ Queued' \subseteq Queued /\ (OneCommand(toModem) => OneCommand(toModem'))
    BY <1>4 DEF StepFrame
  <2>2. Answered' = Answered
    BY <2>1 DEF Answered
  <2>3. /\ \A m \in Queued' : m.owner = call[c].id
        /\ \A l \in Owned' : l.cmd = call[c].id
        /\ Queued' # {} => modem.phase = "idle" /\ Owned' = {}
        /\ \A l \in Answers', o \in Owned' : o.serial <= l.serial
    BY <2>1, <1>2, <1>4 DEF Executes
  <2>4. /\ modem.phase # "idle" => Answers' = {}
        /\ Answered' => Idle'
        /\ OneCommand(toModem')
    BY <2>1, <2>2, <1>2, <1>3, <1>4 DEF Executes
  <2> QED BY <2>1, <2>2, <2>3, <2>4, <1>4 DEF Executes
<1>5. CASE InStep
  <2>1. \A c \in Callers : pc[c] \in Waiting <=> pc'[c] \in Waiting
    BY DEF StepFrame
  <2>2. \A c \in Callers : pc[c] \in Waiting => Executes(call[c].id)
    BY <1>5 DEF StepInv
  <2>3. \A c \in Callers : pc'[c] \in Waiting => Executes(call[c].id)'
    BY <1>4, <2>1, <2>2
  <2>4. (\A c \in Callers : pc'[c] \notin Waiting) /\ Alive' => Idle'
    BY <1>3, <1>5, <2>1 DEF StepInv, StepFrame
  <2> QED BY <1>1, <2>3, <2>4 DEF StepInv
<1>6. CASE ~Alive' /\ \A c \in Callers : pc'[c] \notin Waiting
  BY <1>1, <1>6 DEF StepInv
<1> QED BY <1>1, <1>5, <1>6 DEF StepFrame, StepInv

\* A caller that moves to another label.
LEMMA CallerMoveQuiet ==
    ASSUME LockInv, NEW c \in Callers,
           \/ LockAndFormat(c) \/ WaitForRequest(c) \/ RetryRequest(c) \/ WaitForResponse(c)
           \/ RecheckResponse(c) \/ TimeOut(c) \/ HandshakeDone(c) \/ SpuriousWakeup(c)
           \/ StartClose(c)
    PROVE  QuietStep
<1>1. UNCHANGED <<modem, scenario, desync, result, call, response, line, buffer, fromModem, serial,
                  toModem, fdOpen, readerClosed, modemUp>>
  BY DEF LockAndFormat, WaitForRequest, RetryRequest, WaitForResponse, RecheckResponse, TimeOut,
     HandshakeDone, SpuriousWakeup, StartClose, restVars, callerVars, chanVars, wireVars, modemVars,
     readerVars, commandVars
<1>2. pc \in [Threads -> CallerPcs \cup ReaderPcs] /\ c \in Threads /\ Reader # c
  BY ThreadAssumption DEF LockInv, TypeOK, PcTypeOK, Threads
<1>3. PICK label : /\ pc' = [pc EXCEPT ![c] = label]
                   /\ label \in Waiting <=> pc[c] \in Waiting
                   /\ label \in Commanding => pc[c] \in Commanding
                   /\ pc[c] \notin {"escape", "closeTest", "closeFd"}
  <2>1. CASE LockAndFormat(c)
    BY <2>1 DEF LockAndFormat, Goto, Waiting, Commanding
  <2>2. CASE WaitForRequest(c)
    BY <2>2 DEF WaitForRequest, Goto, Waiting, Commanding
  <2>3. CASE RetryRequest(c)
    BY <2>3 DEF RetryRequest, Goto, Waiting, Commanding
  <2>4. CASE WaitForResponse(c) \/ RecheckResponse(c)
    BY <2>4 DEF WaitForResponse, RecheckResponse, Goto, Waiting, Commanding
  <2>5. CASE TimeOut(c) \/ HandshakeDone(c)
    BY <2>5 DEF TimeOut, HandshakeDone, Goto, Waiting, Commanding
  <2>6. CASE SpuriousWakeup(c)
    BY <2>6 DEF SpuriousWakeup, Goto, Waiting, Commanding
  <2>7. CASE StartClose(c)
    BY <2>7 DEF StartClose, Goto, Waiting, Commanding
  <2> QED BY <2>1, <2>2, <2>3, <2>4, <2>5, <2>6, <2>7
<1>4. \A t \in Threads : pc'[t] = IF t = c THEN label ELSE pc[t]
  BY <1>2, <1>3
<1>5. Held' = Held
  BY <1>2, <1>4 DEF Held, Threads
<1>6. \A d \in Callers : pc[d] \in {"escape", "closeTest", "closeFd"} => pc'[d] = pc[d]
  BY <1>3, <1>4 DEF Threads
<1>7. InStep' => InStep
  BY <1>1, <1>6 DEF InStep, Closing, AloneOnChannel
<1>8. CallFrame /\ StreamFrame
  BY <1>1, <1>3, <1>4, <1>5 DEF CallFrame, StreamFrame, Threads
<1>9. InFlight' = InFlight /\ Queued' = Queued /\ Alive' = Alive
  BY <1>1, <1>5 DEF InFlight, Queued, Alive
<1>10. StepFrame
  BY <1>1, <1>3, <1>4, <1>7, <1>9 DEF StepFrame, Threads
<1> QED BY <1>8, <1>10 DEF QuietStep

\* A caller whose command becomes the pending one: nobody waits.
LEMMA ClaimRequestQuiet ==
    ASSUME LockInv, NEW c \in Callers, ClaimRequest(c) PROVE QuietStep
<1>1. UNCHANGED <<modem, scenario, desync, result, call, line, buffer, fromModem, serial,
                  toModem, fdOpen, readerClosed, modemUp>>
  BY DEF ClaimRequest, callerVars, chanVars, wireVars, modemVars, readerVars
<1>2. pc \in [Threads -> CallerPcs \cup ReaderPcs] /\ c \in Threads /\ Reader # c
  BY ThreadAssumption DEF LockInv, TypeOK, PcTypeOK, Threads
<1>3. pc' = [pc EXCEPT ![c] = "write"] /\ pc[c] = "claim"
  BY DEF ClaimRequest, Goto
<1>4. \A d \in Callers : pc[d] \notin Waiting /\ pc'[d] \notin Waiting
  BY <1>2, <1>3, ThreadAssumption
     DEF ClaimRequest, TrylockSucceeds, LockInv, PendingDiscipline, PendingLabels, Waiting, Threads
<1>5. Held' = Held
  BY <1>2, <1>3 DEF Held, Threads
<1>6. \A d \in Callers : pc[d] \in {"escape", "closeTest", "closeFd"} => pc'[d] = pc[d]
  BY <1>2, <1>3 DEF Threads
<1>7. InStep' => InStep
  BY <1>1, <1>6 DEF InStep, Closing, AloneOnChannel
<1>8. CallFrame /\ StreamFrame
  BY <1>1, <1>2, <1>3, <1>5 DEF CallFrame, StreamFrame, Threads, Commanding
<1>9. InFlight' = InFlight /\ Queued' = Queued /\ Alive' = Alive
  BY <1>1, <1>5 DEF InFlight, Queued, Alive
<1>10. StepFrame
  BY <1>1, <1>4, <1>7, <1>9 DEF StepFrame
<1> QED BY <1>8, <1>10 DEF QuietStep

\* at_send_escape sends no command.
LEMMA SendEscapeQuiet ==
    ASSUME LockInv, NEW c \in Callers, SendEscape(c) PROVE QuietStep
<1>1. UNCHANGED <<modem, scenario, desync, result, call, response, line, buffer, fromModem, serial,
                  fdOpen, readerClosed, modemUp>>
  BY DEF SendEscape, callerVars, chanVars, modemVars, readerVars, commandVars
<1>2. pc \in [Threads -> CallerPcs \cup ReaderPcs] /\ c \in Threads /\ Reader # c
  BY ThreadAssumption DEF LockInv, TypeOK, PcTypeOK, Threads
<1>3. pc' = [pc EXCEPT ![c] = "closeTest"] /\ pc[c] = "escape"
  BY DEF SendEscape, Goto
<1>4. \A d \in Callers : (pc[d] \in Waiting <=> pc'[d] \in Waiting)
  BY <1>2, <1>3 DEF Waiting, Threads
<1>5. Held' = Held
  BY <1>2, <1>3 DEF Held, Threads
<1>6. InStep' => InStep
  <2>1. \A d \in Callers : pc[d] \in {"escape", "closeTest", "closeFd"}
                              => pc'[d] \in {"escape", "closeTest", "closeFd"}
    BY <1>2, <1>3 DEF Threads
  <2> QED BY <2>1, <1>1 DEF InStep, Closing, AloneOnChannel
<1>7. CallFrame /\ StreamFrame
  BY <1>1, <1>2, <1>3, <1>5 DEF CallFrame, StreamFrame, Threads, Commanding, Waiting
<1>8. Queued' = Queued /\ (OneCommand(toModem) => OneCommand(toModem'))
  <2> DEFINE esc == [kind |-> "esc", cmd |-> Foreign, owner |-> 0]
  <2>1. CASE toModem' = toModem
    BY <2>1 DEF Queued
  <2>2. CASE toModem' = Append(toModem, esc)
    <3>1. toModem \in Seq(Messages) /\ esc \in Messages
      BY ConstantTypes, BoundAssumption DEF LockInv, TypeOK, WireTypeOK, Messages
    <3>2. Range(toModem') = Range(toModem) \cup {esc}
      BY <2>2, <3>1, QueueRange
    <3>3. /\ DOMAIN toModem' = DOMAIN toModem \cup {Len(toModem) + 1}
          /\ \A i \in DOMAIN toModem : toModem'[i] = toModem[i]
          /\ toModem'[Len(toModem) + 1] = esc
      BY <2>2, <3>1
    <3>4. esc.kind = "esc"
      OBVIOUS
    <3> HIDE DEF esc
    <3> QED BY <3>2, <3>3, <3>4 DEF Queued, OneCommand
  <2> QED BY <2>1, <2>2 DEF SendEscape
<1>9. InFlight' = InFlight /\ Alive' = Alive
  BY <1>1, <1>5 DEF InFlight, Alive
<1>10. StepFrame
  BY <1>1, <1>4, <1>6, <1>8, <1>9 DEF StepFrame
<1> QED BY <1>7, <1>10 DEF QuietStep

\* at_close: where it makes the channel leave Closing, nothing can be written any more.
LEMMA CloseStepQuiet ==
    ASSUME LockInv, CallsFit, NEW t \in Threads, CloseStep(t) PROVE QuietStep
<1>1. UNCHANGED <<modem, scenario, desync, result, call, response, line, buffer, fromModem, serial,
                  toModem, modemUp>>
  BY DEF CloseStep, CloseTest, CloseFd, CloseSignal, KickReader, restVars, callerVars, chanVars,
     wireVars, modemVars, readerVars, commandVars
<1>2. pc \in [Threads -> CallerPcs \cup ReaderPcs] /\ Reader \in Threads /\ Reader \notin Callers
  BY ThreadAssumption DEF LockInv, TypeOK, PcTypeOK, Threads
<1>3. PICK label \in {"closeFd", "closeLock", "kick", "exit", "idle"} :
         pc' \in {[pc EXCEPT ![t] = label], SignalCommand([pc EXCEPT ![t] = label])}
  BY DEF CloseStep, CloseTest, CloseFd, CloseSignal, KickReader, Goto, AfterClose
<1>4. pc[t] \in {"closeTest", "closeFd", "closeLock", "kick"}
  BY DEF CloseStep, CloseTest, CloseFd, CloseSignal, KickReader
<1>5. /\ pc'[t] = label
      /\ \A d \in Threads \ {t} : pc'[d] = pc[d] \/ (pc[d] = "waitResp" /\ pc'[d] = "wokenResp")
  BY <1>2, <1>3 DEF SignalCommand
<1>6. \A d \in Callers : /\ pc[d] \in Waiting <=> pc'[d] \in Waiting
                         /\ pc'[d] \in Commanding => pc[d] \in Commanding
  BY <1>4, <1>5 DEF Waiting, Commanding, Threads
<1>7. Held' => Held
  BY <1>2, <1>4, <1>5 DEF Held
<1>8. Alive' => Alive
  BY <1>1 DEF CloseStep, CloseTest, CloseFd, CloseSignal, KickReader, restVars, chanVars, Alive
<1>9. InStep' => InStep \/ (~Alive' /\ \A c \in Callers : pc'[c] \notin Waiting)
  <2> SUFFICES ASSUME InStep', ~InStep
               PROVE  ~Alive' /\ \A c \in Callers : pc'[c] \notin Waiting
    OBVIOUS
  <2>1. AloneOnChannel /\ Closing /\ ~Closing'
    BY <1>1 DEF InStep, AloneOnChannel
  <2>2. PICK c \in Callers : scenario.callers = {c}
    BY <2>1 DEF AloneOnChannel
  <2>3. pc[c] \in {"escape", "closeTest", "closeFd"} /\ pc'[c] \notin {"escape", "closeTest", "closeFd"}
    BY <2>1, <2>2, <1>1 DEF Closing
  <2>4. c = t
    BY <2>3, <1>5 DEF Threads
  <2>5. fdOpen' = FALSE
    BY <2>3, <2>4, <1>2, <1>3, <1>5, LockInv
       DEF CloseStep, CloseTest, CloseFd, CloseSignal, KickReader, restVars, chanVars, Goto, LockInv,
           TypeOK, ChannelTypeOK
  <2>6. \A d \in Callers : pc[d] \notin Waiting
    BY <2>2, <2>3 DEF CallsFit, Commanding, Waiting
  <2> QED BY <2>5, <2>6, <1>6 DEF Alive
<1>10. CallFrame /\ StreamFrame
  BY <1>1, <1>6, <1>7 DEF CallFrame, StreamFrame
<1>11. InFlight' \subseteq InFlight /\ Queued' = Queued
  BY <1>1, <1>7 DEF InFlight, Queued
<1>12. StepFrame
  BY <1>1, <1>6, <1>8, <1>9, <1>11 DEF StepFrame
<1> QED BY <1>10, <1>12 DEF QuietStep

\* The reader outside readline and processLine; the device goes; another context.
LEMMA BackgroundQuiet ==
    ASSUME LockInv,
           \/ StartPoll \/ PollKick \/ PollEof \/ ReaderEof \/ ReaderReportsClosed
           \/ ModemDies \/ OtherContextFormats \/ UNCHANGED vars
    PROVE  QuietStep
<1>1. UNCHANGED <<modem, scenario, desync, result, call, response, line, buffer, fromModem, serial,
                  toModem, fdOpen>>
  BY DEF StartPoll, PollKick, PollEof, ReaderEof, ReaderReportsClosed, ModemDies, OtherContextFormats,
     ReaderUnchanged, ModemUnchanged, vars, restVars, callerVars, chanVars, wireVars, modemVars,
     readerVars, commandVars
<1>2. pc \in [Threads -> CallerPcs \cup ReaderPcs] /\ Reader \in Threads /\ Reader \notin Callers
  BY ThreadAssumption DEF LockInv, TypeOK, PcTypeOK, Threads
<1>3. \/ UNCHANGED pc
      \/ \E label \in ReaderPcs \ {"process"} :
            pc' \in {[pc EXCEPT ![Reader] = label], SignalCommand([pc EXCEPT ![Reader] = label])}
  BY DEF StartPoll, PollKick, PollEof, ReaderEof, ReaderReportsClosed, ModemDies, OtherContextFormats,
     ModemUnchanged, vars, Goto, ReaderPcs
<1>4. Held' => Held
  BY <1>2, <1>3 DEF Held, SignalCommand
<1>5. \A d \in Callers : pc'[d] = pc[d] \/ (pc[d] = "waitResp" /\ pc'[d] = "wokenResp")
  BY <1>2, <1>3 DEF SignalCommand, Threads
<1>6. \A d \in Callers : /\ pc[d] \in Waiting <=> pc'[d] \in Waiting
                         /\ pc'[d] \in Commanding => pc[d] \in Commanding
                         /\ pc[d] \in {"escape", "closeTest", "closeFd"} => pc'[d] = pc[d]
  BY <1>5 DEF Waiting, Commanding
<1>7. InStep' => InStep
  BY <1>1, <1>6 DEF InStep, Closing, AloneOnChannel
<1>8. Alive' => Alive
  <2>1. readerClosed' \in {readerClosed, TRUE} /\ modemUp' \in {modemUp, FALSE}
    BY DEF StartPoll, PollKick, PollEof, ReaderEof, ReaderReportsClosed, ModemDies,
       OtherContextFormats, ReaderUnchanged, ModemUnchanged, vars, restVars, chanVars, wireVars,
       modemVars
  <2> QED BY <2>1, <1>1 DEF Alive
<1>9. CallFrame /\ StreamFrame
  BY <1>1, <1>4, <1>6 DEF CallFrame, StreamFrame
<1>10. InFlight' \subseteq InFlight /\ Queued' = Queued
  BY <1>1, <1>4 DEF InFlight, Queued
<1>11. StepFrame
  BY <1>1, <1>6, <1>7, <1>8, <1>10 DEF StepFrame
<1> QED BY <1>9, <1>11 DEF QuietStep

-----------------------------------------------------------------------------
(***************************************************************************)
(* Steps that move, write, answer or return.                               *)
(***************************************************************************)

\* readline and read() move lines along the stream.
LEMMA ReadKeepsSync ==
    ASSUME LockInv, SyncInv, TakeBufferedLine \/ PollData PROVE SyncInv'
<1>1. UNCHANGED <<modem, scenario, desync, result, call, response, serial, toModem, fdOpen,
                  readerClosed, modemUp>>
  BY DEF TakeBufferedLine, PollData, ReaderUnchanged, callerVars, modemVars, commandVars
<1>2. /\ pc \in [Threads -> CallerPcs \cup ReaderPcs] /\ Reader \in Threads /\ Reader \notin Callers
      /\ buffer \in Seq(Lines) /\ fromModem \in Seq(Lines)
  BY ThreadAssumption DEF LockInv, TypeOK, PcTypeOK, ReaderTypeOK, Threads
<1>3. \A d \in Callers : pc'[d] = pc[d]
  BY <1>2 DEF TakeBufferedLine, PollData, Goto, Threads
<1>4. CallFrame
  BY <1>1, <1>3 DEF CallFrame
<1>5. StreamInv' /\ InFlight' \subseteq InFlight
  <2>1. CASE TakeBufferedLine
    <3>1. ~Held /\ buffer # << >> /\ buffer' = Tail(buffer) /\ fromModem' = fromModem
      BY <2>1 DEF TakeBufferedLine, Held
    <3>2. Held' => line' = Head(buffer)
      BY <2>1, <1>2 DEF TakeBufferedLine, Held, Goto
    <3>3. Head(buffer) \in Range(buffer) /\ Range(buffer') \subseteq Range(buffer)
      BY <3>1, <1>2, QueueRange
    <3>4. Sorted(buffer') /\ \A l \in Range(buffer') : Head(buffer).serial < l.serial
      BY <3>1, <1>2, SortedParts, SyncInv DEF SyncInv, StreamInv
    <3>5. InFlight' \subseteq InFlight
      BY <3>1, <3>2, <3>3 DEF InFlight
    <3>6. Held' => \A l \in Range(buffer') \cup Range(fromModem') : line'.serial < l.serial
      BY <3>1, <3>2, <3>3, <3>4, SyncInv DEF SyncInv, StreamInv
    <3> QED BY <3>1, <3>3, <3>4, <3>5, <3>6, <1>1 DEF SyncInv, StreamInv
  <2>2. CASE PollData /\ fdOpen
    <3>1. PICK n \in 1 .. Len(fromModem) :
             /\ buffer' = SubSeq(fromModem, 1, n)
             /\ fromModem' = SubSeq(fromModem, n + 1, Len(fromModem))
      BY <2>2 DEF PollData
    <3>2. ~Held'
      BY <2>2, <1>2 DEF PollData, Held, Goto
    <3>3. Range(buffer') \subseteq Range(fromModem) /\ Range(fromModem') \subseteq Range(fromModem)
      BY <3>1, <1>2, QueueRange
    <3>4. /\ Sorted(buffer') /\ Sorted(fromModem')
          /\ \A b \in Range(buffer'), l \in Range(fromModem') : b.serial < l.serial
      BY <3>1, <1>2, SortedParts DEF SyncInv, StreamInv
    <3>5. InFlight' \subseteq InFlight
      BY <3>2, <3>3 DEF InFlight
    <3> QED BY <3>2, <3>4, <3>5, <1>1 DEF SyncInv, StreamInv
  <2>3. CASE PollData /\ ~fdOpen
    <3>1. UNCHANGED <<buffer, fromModem, line>> /\ ~Held'
      BY <2>3, <1>2 DEF PollData, Held, Goto
    <3>2. StreamFrame /\ InFlight' \subseteq InFlight
      BY <3>1, <1>1 DEF StreamFrame, InFlight
    <3> QED BY <3>2, FrameKeepsStream DEF SyncInv
  <2> QED BY <2>1, <2>2, <2>3
<1>6. StepFrame
  <2>1. InStep' => InStep
    BY <1>1, <1>3 DEF InStep, Closing, AloneOnChannel
  <2> QED BY <2>1, <1>1, <1>3, <1>5 DEF StepFrame, Queued, Alive
<1> QED BY <1>4, <1>5, <1>6, FrameKeepsFit, FrameKeepsStep DEF SyncInv

\* processLine consumes the first line of the stream.  A final line that is not an
\* unsolicited NO CARRIER is the last that belongs to the command.
LEMMA ProcessLineKeepsSync ==
    ASSUME LockInv, SyncInv, ProcessLine PROVE SyncInv'
<1> DEFINE final == response # NoResponse /\ line.kind \in {"ok", "error", "nocarrier"}
<1>1. UNCHANGED <<modem, scenario, desync, result, call, serial, fdOpen, readerClosed, modemUp,
                  line, buffer, fromModem>>
  BY DEF ProcessLine, ReaderUnchanged, callerVars, modemVars, readerVars
<1>2. /\ pc \in [Threads -> CallerPcs \cup ReaderPcs] /\ Reader \in Threads /\ Reader \notin Callers
      /\ toModem \in Seq(Messages)
  BY ThreadAssumption DEF LockInv, TypeOK, PcTypeOK, WireTypeOK, Threads
<1>3. /\ \A d \in Callers : pc'[d] = pc[d] \/ (pc[d] = "waitResp" /\ pc'[d] = "wokenResp")
      /\ Held /\ ~Held'
  BY <1>2 DEF ProcessLine, SignalCommand, Threads, Held
<1>4. \A d \in Callers : /\ pc[d] \in Waiting <=> pc'[d] \in Waiting
                         /\ pc'[d] \in Commanding => pc[d] \in Commanding
                         /\ pc[d] \in {"escape", "closeTest", "closeFd"} <=>
                               pc'[d] \in {"escape", "closeTest", "closeFd"}
  BY <1>3 DEF Waiting, Commanding
<1>5. CallFrame /\ StreamFrame
  BY <1>1, <1>3, <1>4 DEF CallFrame, StreamFrame
<1>6. InFlight' = Range(buffer) \cup Range(fromModem) /\ InFlight' \subseteq InFlight
  BY <1>1, <1>3 DEF InFlight
<1>7. Queued' = Queued /\ (OneCommand(toModem) => OneCommand(toModem'))
  <2> DEFINE pdu == [kind |-> "pdu", cmd |-> Foreign, owner |-> 0]
  <2>1. CASE toModem' = toModem
    BY <2>1 DEF Queued
  <2>2. CASE toModem' = Append(toModem, pdu)
    <3>1. pdu \in Messages
      BY ConstantTypes, BoundAssumption DEF Messages
    <3>2. Range(toModem') = Range(toModem) \cup {pdu}
      BY <2>2, <3>1, <1>2, QueueRange
    <3>3. /\ DOMAIN toModem' = DOMAIN toModem \cup {Len(toModem) + 1}
          /\ \A i \in DOMAIN toModem : toModem'[i] = toModem[i]
          /\ toModem'[Len(toModem) + 1] = pdu
      BY <2>2, <3>1, <1>2
    <3>4. pdu.kind = "pdu"
      OBVIOUS
    <3> HIDE DEF pdu
    <3> QED BY <3>2, <3>3, <3>4 DEF Queued, OneCommand
  <2> QED BY <2>1, <2>2 DEF ProcessLine
<1>8. InStep' = InStep
  BY <1>1, <1>4 DEF InStep, Closing, AloneOnChannel
<1>9. AnswersInv'
  BY <1>1 DEF SyncInv, AnswersInv, AloneOnChannel, AnswersOwnCommand, OwnAnswer
<1>10. CASE ~final
  <2>1. \A d \in Callers : pc[d] \in Waiting => response'.final = response.final
    <3> SUFFICES ASSUME NEW d \in Callers, pc[d] \in Waiting PROVE response'.final = response.final
      OBVIOUS
    <3>1. response # NoResponse
      BY ThreadAssumption DEF LockInv, PendingDiscipline, PendingLabels, Waiting
    <3>2. response \in Responses
      BY <3>1 DEF LockInv, TypeOK, PendingTypeOK
    <3>3. [response EXCEPT !.infos = <<line>> \o @].final = response.final
      BY <3>2 DEF Responses
    <3> QED BY <3>3, <1>10 DEF ProcessLine
  <2>2. StepFrame
    BY <2>1, <1>1, <1>4, <1>6, <1>7, <1>8 DEF StepFrame, Alive
  <2> QED BY <2>2, <1>5, FrameKeepsFit, FrameKeepsStream, FrameKeepsStep DEF SyncInv
<1>11. CASE final
  <2>1. response \in Responses /\ response'.final = line /\ requestmutex # NoOne
    <3>1. response \in Responses
      BY <1>11 DEF LockInv, TypeOK, PendingTypeOK
    <3>2. [response EXCEPT !.success = (line.kind = "ok"), !.final = line].final = line
      BY <3>1 DEF Responses
    <3> QED BY <3>1, <3>2, <1>11 DEF ProcessLine, LockInv, PendingDiscipline
  <2>2. StepInv'
    <3> SUFFICES ASSUME InStep
                 PROVE  /\ \A d \in Callers : pc'[d] \in Waiting => Executes(call[d].id)'
                        /\ (\A d \in Callers : pc'[d] \notin Waiting) /\ Alive' => Idle'
      BY <1>8 DEF StepInv
    <3>1. Owned' \subseteq Owned /\ Answers' \subseteq Answers
      BY <1>6 DEF Owned, Answers
    <3>2. (\A d \in Callers : pc'[d] \notin Waiting) /\ Alive' => Idle'
      BY <3>1, <1>1, <1>4, <1>7 DEF SyncInv, StepInv, Idle, Alive
    <3>3. ASSUME NEW d \in Callers, pc'[d] \in Waiting PROVE Executes(call[d].id)'
      <4>1. Executes(call[d].id)
        BY <3>3, <1>4 DEF SyncInv, StepInv
      <4>2. line \in InFlight
        BY <1>3 DEF InFlight
      <4>3. line.kind = "nocarrier" => "nocarrier" \in scenario.urcKinds
        BY <4>2 DEF SyncInv, StreamInv
      <4>4. line.kind # "nocarrier" => line \in Answers /\ line \in Owned /\ line.cmd = call[d].id
        BY <4>1, <4>2, <1>11 DEF Answers, Owned, Executes
      <4>5. line.kind # "nocarrier" => Owned' = {}
        <5> SUFFICES ASSUME line.kind # "nocarrier", NEW o \in Owned' PROVE FALSE
          OBVIOUS
        <5>1. o \in Range(buffer) \cup Range(fromModem) /\ o \in Owned
          BY <3>1, <1>6 DEF Owned
        <5>2. o.serial <= line.serial
          BY <4>1, <4>4, <5>1 DEF Executes
        <5>3. line.serial < o.serial
          BY <1>3, <5>1 DEF SyncInv, StreamInv
        <5>4. line.serial \in Nat /\ o.serial \in Nat
          <6>1. o \in Lines /\ line \in Lines
            BY <5>1, QueueRange DEF LockInv, TypeOK, ReaderTypeOK
          <6> QED BY <6>1 DEF Lines
        <5> QED BY <5>2, <5>3, <5>4
      <4>6. line.kind # "nocarrier" => Idle'
        BY <4>1, <4>4, <4>5, <1>1, <1>7 DEF Executes, Idle
      <4>7. Answered' => Idle'
        BY <2>1, <4>6 DEF Answered
      <4>8. \/ response'.final.kind = "nocarrier" /\ "nocarrier" \in scenario.urcKinds
            \/ Answered' /\ response'.final.cmd = call[d].id
        BY <2>1, <4>3, <4>4, <1>11 DEF Answered
      <4>9. /\ \A m \in Queued' : m.owner = call[d].id
            /\ OneCommand(toModem')
            /\ \A l \in Owned' : l.cmd = call[d].id
            /\ Queued' # {} => modem.phase = "idle" /\ Owned' = {}
            /\ modem.phase # "idle" => modem.owner = call[d].id /\ Answers' = {}
            /\ \A l \in Answers', o \in Owned' : o.serial <= l.serial
        BY <4>1, <3>1, <1>7 DEF Executes
      <4> QED BY <4>7, <4>8, <4>9, <1>1 DEF Executes
    <3> QED BY <3>2, <3>3
  <2> QED BY <2>2, <1>5, <1>9, FrameKeepsFit, FrameKeepsStream DEF SyncInv
<1> QED BY <1>10, <1>11

\* Taking a command leaves none.
LEMMA TakenCommand ==
    ASSUME NEW q \in Seq(Messages), q # << >>, OneCommand(q)
    PROVE  /\ OneCommand(Tail(q))
           /\ Head(q).kind = "cmd" => \A m \in Range(Tail(q)) : m.kind # "cmd"
<1>1. /\ DOMAIN Tail(q) = 1 .. Len(q) - 1 /\ DOMAIN q = 1 .. Len(q) /\ Head(q) = q[1]
      /\ \A i \in 1 .. Len(q) - 1 : Tail(q)[i] = q[i + 1]
      /\ Len(q) \in Nat /\ Len(q) >= 1
  OBVIOUS
<1>2. OneCommand(Tail(q))
  <2> SUFFICES ASSUME NEW i \in 1 .. Len(q) - 1, NEW j \in 1 .. Len(q) - 1,
                      q[i + 1].kind = "cmd", q[j + 1].kind = "cmd"
               PROVE  i = j
    BY <1>1 DEF OneCommand
  <2>1. i + 1 \in DOMAIN q /\ j + 1 \in DOMAIN q
    BY <1>1
  <2>2. i + 1 = j + 1
    BY <2>1 DEF OneCommand
  <2> QED BY <2>2
<1>3. ASSUME NEW i \in 1 .. Len(q) - 1, q[1].kind = "cmd" PROVE q[i + 1].kind # "cmd"
  <2>1. 1 \in DOMAIN q /\ i + 1 \in DOMAIN q /\ 1 # i + 1
    BY <1>1
  <2> QED BY <2>1, <1>3 DEF OneCommand
<1> QED BY <1>1, <1>2, <1>3 DEF Range

\* What is under way are lines.
LEMMA InFlightLines ==
    ASSUME LockInv PROVE \A l \in InFlight : l \in Lines /\ l.serial \in Nat
<1>1. line \in Lines /\ Range(buffer) \subseteq Lines /\ Range(fromModem) \subseteq Lines
  BY QueueRange DEF LockInv, TypeOK, ReaderTypeOK
<1> QED BY <1>1 DEF InFlight, Lines

\* Lines the modem sends come last in the stream.
LEMMA SendKeepsStream ==
    ASSUME LockInv, StreamInv, NEW ls \in Seq(Lines), Sorted(ls),
           \A l \in Range(ls) : /\ serial < l.serial /\ l.serial <= serial + Len(ls)
                                /\ l.kind = "nocarrier" => "nocarrier" \in scenario.urcKinds,
           Send(ls), UNCHANGED <<pc, buffer, line, scenario>>
    PROVE  StreamInv' /\ InFlight' = InFlight \cup Range(ls)
<1>1. /\ buffer \in Seq(Lines) /\ fromModem \in Seq(Lines) /\ line \in Lines /\ serial \in Nat
      /\ Len(ls) \in Nat
  BY DEF LockInv, TypeOK, ReaderTypeOK, WireTypeOK
<1>2. fromModem' = fromModem \o ls /\ serial' = serial + Len(ls)
  BY DEF Send
<1>3. Range(fromModem') = Range(fromModem) \cup Range(ls)
  BY <1>1, <1>2, QueueRange
<1>4. InFlight' = InFlight \cup Range(ls)
  BY <1>3 DEF InFlight, Held
<1>5. \A l \in InFlight \cup Range(ls) : l \in Lines /\ l.serial \in Nat
  <2>1. Range(ls) \subseteq Lines
    BY QueueRange
  <2> QED BY <2>1, InFlightLines DEF Lines
<1>6. \A a \in InFlight, l \in Range(ls) : a.serial < l.serial
  BY <1>1, <1>5 DEF StreamInv
<1>7. Sorted(fromModem')
  <2>1. \A a \in Range(fromModem), l \in Range(ls) : a.serial < l.serial
    BY <1>6 DEF InFlight
  <2> QED BY <2>1, <1>1, <1>2, SortedParts DEF StreamInv
<1>8. \A l \in InFlight' : l.serial <= serial'
  BY <1>1, <1>2, <1>4, <1>5 DEF StreamInv
<1>9. /\ \A b \in Range(buffer'), l \in Range(fromModem') : b.serial < l.serial
      /\ Held' => \A l \in Range(buffer') \cup Range(fromModem') : line'.serial < l.serial
  BY <1>3, <1>6 DEF StreamInv, InFlight, Held
<1> QED BY <1>4, <1>7, <1>8, <1>9 DEF StreamInv

\* The same of a single line.
LEMMA SendLine ==
    ASSUME LockInv, StreamInv, NEW l \in Lines, l.serial = serial + 1,
           l.kind = "nocarrier" => "nocarrier" \in scenario.urcKinds,
           Send(<<l>>), UNCHANGED <<pc, buffer, line, scenario>>
    PROVE  StreamInv' /\ InFlight' = InFlight \cup {l}
<1>1. /\ <<l>> \in Seq(Lines) /\ Len(<<l>>) = 1 /\ Range(<<l>>) = {l} /\ Sorted(<<l>>)
  BY DEF Range, Sorted
<1>2. serial \in Nat
  BY DEF LockInv, TypeOK, WireTypeOK
<1>3. \A m \in Range(<<l>>) : /\ serial < m.serial /\ m.serial <= serial + Len(<<l>>)
                              /\ m.kind = "nocarrier" => "nocarrier" \in scenario.urcKinds
  BY <1>1, <1>2
<1>4. StreamInv' /\ InFlight' = InFlight \cup Range(<<l>>)
  BY <1>1, <1>3, SendKeepsStream
<1> QED BY <1>1, <1>4

\* The modem takes the command, or text for one.
LEMMA ModemTakesKeepsSync ==
    ASSUME LockInv, SyncInv, ModemTakes PROVE SyncInv'
<1> DEFINE msg == Head(toModem)
           prompt == Line("prompt", AnyPrefix, msg.owner, 1)
<1>1. UNCHANGED <<pc, scenario, desync, result, call, response, fdOpen, readerClosed, modemUp,
                  line, buffer>>
  BY DEF ModemTakes, ModemUnchanged, callerVars, chanVars, readerVars, commandVars
<1>2. /\ toModem \in Seq(Messages) /\ toModem # << >> /\ toModem' = Tail(toModem)
      /\ msg \in Messages /\ msg \in Range(toModem) /\ Range(toModem') \subseteq Range(toModem)
      /\ modem \in ModemStates
  <2>1. toModem \in Seq(Messages) /\ toModem # << >> /\ toModem' = Tail(toModem) /\ modem \in ModemStates
    BY DEF LockInv, TypeOK, WireTypeOK, ModemTakes
  <2> QED BY <2>1, QueueRange
<1>3. CallFrame /\ AnswersInv' /\ InStep' = InStep /\ Alive' = Alive
  BY <1>1 DEF CallFrame, SyncInv, AnswersInv, AloneOnChannel, AnswersOwnCommand, OwnAnswer, InStep,
     Closing, Alive
<1>4. Queued' \subseteq Queued
  BY <1>2 DEF Queued
<1>5. CASE modem.phase = "pdu" \/ msg.kind # "cmd"
  <2>1. UNCHANGED <<fromModem, serial>>
    BY <1>5 DEF ModemTakes
  <2>2. /\ modem'.owner = modem.owner /\ (modem.phase = "idle" => modem'.phase = "idle")
    BY <1>2, <1>5 DEF ModemTakes, ModemStates
  <2>3. StreamInv' /\ InFlight' = InFlight /\ Owned' = Owned /\ Answers' = Answers
    BY <2>1, <1>1, FrameKeepsStream DEF SyncInv, StreamFrame, InFlight, Held, Owned, Answers
  <2>4. Idle => Idle'
    BY <2>2, <2>3, <1>4 DEF Idle
  <2>5. ASSUME NEW c \in Callers, Executes(call[c].id) PROVE Executes(call[c].id)'
    <3>1. OneCommand(toModem')
      BY <2>5, <1>2, TakenCommand DEF Executes
    <3>2. Queued' # {} => modem'.phase = "idle" /\ Owned' = {}
      BY <2>2, <2>3, <2>5, <1>4 DEF Executes
    <3> QED BY <3>1, <3>2, <2>2, <2>3, <2>4, <2>5, <1>1, <1>4 DEF Executes, Answered
  <2>6. StepInv'
    BY <2>4, <2>5, <1>1, <1>3 DEF SyncInv, StepInv
  <2> QED BY <2>3, <2>6, <1>3, FrameKeepsFit DEF SyncInv
<1>6. CASE modem.phase # "pdu" /\ msg.kind = "cmd"
  <2>1. modem.phase = "idle" /\ modem'.owner = msg.owner /\ msg \in Queued
        /\ modem'.phase \in {"pdu", "run"}
    BY <1>2, <1>6 DEF ModemTakes, Queued
  <2>2. \/ UNCHANGED <<fromModem, serial>>
        \/ Send(<<prompt>>)
    BY <1>6 DEF ModemTakes
  <2>3. prompt \in Lines /\ prompt.serial = serial + 1 /\ prompt.kind = "prompt" /\ prompt.cmd = msg.owner
    <3>1. msg.owner \in 0 .. MaxCalls
      BY <1>2 DEF Messages
    <3>2. prompt \in Lines
      BY <3>1, LineType DEF LockInv, TypeOK, CommandPrefixes
    <3> QED BY <3>2 DEF Line
  <2>4. StreamInv' /\ InFlight' \subseteq InFlight \cup {prompt}
    <3>1. CASE UNCHANGED <<fromModem, serial>>
      BY <3>1, <1>1, FrameKeepsStream DEF SyncInv, StreamFrame, InFlight, Held
    <3>2. CASE Send(<<prompt>>)
      BY <3>2, <2>3, <1>1, SendLine DEF SyncInv
    <3> QED BY <3>1, <3>2, <2>2
  <2> HIDE DEF prompt
  <2>5. ASSUME NEW c \in Callers, Executes(call[c].id) PROVE Executes(call[c].id)'
    <3>1. msg.owner = call[c].id /\ Owned = {} /\ ~Answered
      BY <2>1, <2>5 DEF Executes, Idle
    <3>2. Queued' = {} /\ OneCommand(toModem')
      BY <2>5, <1>2, <1>6, TakenCommand DEF Executes, Queued
    <3>3. Owned' \subseteq {prompt} /\ Answers' = {}
      <4>1. Answers \subseteq Owned
        BY DEF Answers, Owned
      <4> QED BY <4>1, <2>3, <2>4, <3>1 DEF Owned, Answers
    <3>4. ~Answered'
      BY <3>1, <1>1 DEF Answered
    <3> QED BY <3>1, <3>2, <3>3, <3>4, <2>1, <2>3, <2>5, <1>1 DEF Executes
  <2>6. StepInv'
    <3>1. ~Idle
      BY <2>1 DEF Idle
    <3> QED BY <3>1, <2>5, <1>1, <1>3 DEF SyncInv, StepInv
  <2> QED BY <2>4, <2>6, <1>3, FrameKeepsFit DEF SyncInv
<1> QED BY <1>5, <1>6

\* The modem answers the command it executes, or reports something.
LEMMA ModemSendsKeepsSync ==
    ASSUME LockInv, SyncInv, ModemInfo \/ ModemAnswers \/ ModemUrc PROVE SyncInv'
<1>1. UNCHANGED <<pc, scenario, desync, result, call, response, fdOpen, readerClosed, modemUp,
                  line, buffer, toModem>>
  BY DEF ModemInfo, ModemAnswers, ModemUrc, ModemUnchanged, callerVars, chanVars, readerVars, commandVars
<1>2. CallFrame /\ AnswersInv' /\ InStep' = InStep /\ Alive' = Alive /\ Queued' = Queued
  BY <1>1 DEF CallFrame, SyncInv, AnswersInv, AloneOnChannel, AnswersOwnCommand, OwnAnswer, InStep,
     Closing, Alive, Queued
<1>3. modem \in ModemStates /\ serial \in Nat
  BY DEF LockInv, TypeOK, WireTypeOK
<1>4. CASE ModemInfo
  <2> DEFINE l == Line("info", modem.cmd.prefix, modem.owner, 1)
  <2>1. l \in Lines /\ l.serial = serial + 1 /\ l.kind = "info" /\ l.cmd = modem.owner
    <3>1. modem.owner \in 0 .. MaxCalls /\ modem.cmd.prefix \in CommandPrefixes
      BY <1>3 DEF ModemStates, Commands
    <3>2. l \in Lines
      BY <3>1, LineType DEF LockInv, TypeOK
    <3> QED BY <3>2 DEF Line
  <2>2. Send(<<l>>) /\ modem.phase = "run" /\ modem'.phase = "run" /\ modem'.owner = modem.owner
    BY <1>3, <1>4 DEF ModemInfo, ModemStates
  <2> HIDE DEF l
  <2>3. StreamInv' /\ InFlight' = InFlight \cup {l}
    BY <2>1, <2>2, <1>1, SendLine DEF SyncInv
  <2>4. Owned' = Owned \cup {l} /\ Answers' = Answers
    BY <2>1, <2>3 DEF Owned, Answers
  <2>5. ASSUME NEW c \in Callers, Executes(call[c].id) PROVE Executes(call[c].id)'
    <3>1. modem.owner = call[c].id /\ Answers = {} /\ ~Answered /\ Queued = {}
      BY <2>2, <2>5 DEF Executes, Idle
    <3> QED BY <3>1, <2>1, <2>2, <2>4, <2>5, <1>1, <1>2 DEF Executes, Answered
  <2>6. ~Idle
    BY <2>2 DEF Idle
  <2>7. StepInv'
    BY <2>5, <2>6, <1>1, <1>2 DEF SyncInv, StepInv
  <2> QED BY <2>3, <2>7, <1>2, FrameKeepsFit DEF SyncInv
<1>5. CASE ModemAnswers
  <2>1. PICK kind \in {"ok", "error"} : Send(<<Line(kind, AnyPrefix, modem.owner, 1)>>)
    BY <1>5 DEF ModemAnswers
  <2> DEFINE l == Line(kind, AnyPrefix, modem.owner, 1)
  <2>2. l \in Lines /\ l.serial = serial + 1 /\ l.kind \in {"ok", "error"} /\ l.cmd = modem.owner
    <3>1. modem.owner \in 0 .. MaxCalls /\ AnyPrefix \in CommandPrefixes
      BY <1>3 DEF ModemStates, CommandPrefixes
    <3>2. l \in Lines
      BY <3>1, LineType DEF LockInv, TypeOK
    <3> QED BY <3>2 DEF Line
  <2>3. Send(<<l>>) /\ modem.phase = "run" /\ modem'.phase = "idle" /\ modem'.owner = modem.owner
    BY <2>1, <1>3, <1>5 DEF ModemAnswers, ModemStates
  <2> HIDE DEF l
  <2>4. StreamInv' /\ InFlight' = InFlight \cup {l}
    BY <2>2, <2>3, <1>1, SendLine DEF SyncInv
  <2>5. Owned' = Owned \cup {l} /\ Answers' = Answers \cup {l}
    BY <2>2, <2>4 DEF Owned, Answers
  <2>6. \A o \in Owned : o.serial <= l.serial
    <3>1. \A o \in Owned : o \in InFlight /\ o \in Lines /\ o.serial \in Nat
      BY InFlightLines DEF Owned
    <3> QED BY <3>1, <2>2, <1>3 DEF SyncInv, StreamInv
  <2>7. ASSUME NEW c \in Callers, Executes(call[c].id) PROVE Executes(call[c].id)'
    <3>1. modem.owner = call[c].id /\ Answers = {} /\ ~Answered /\ Queued = {}
      BY <2>3, <2>7 DEF Executes, Idle
    <3>2. \A a \in Answers', o \in Owned' : o.serial <= a.serial
      <4>1. l.serial <= l.serial
        BY <2>2, <1>3
      <4> QED BY <4>1, <3>1, <2>5, <2>6
    <3> QED BY <3>1, <3>2, <2>2, <2>3, <2>5, <2>7, <1>1, <1>2 DEF Executes, Answered
  <2>8. ~Idle
    BY <2>3 DEF Idle
  <2>9. StepInv'
    BY <2>7, <2>8, <1>1, <1>2 DEF SyncInv, StepInv
  <2> QED BY <2>4, <2>9, <1>2, FrameKeepsFit DEF SyncInv
<1>6. CASE ModemUrc
  <2>1. PICK kind \in AllUrcKinds : kind \in scenario.urcKinds /\ \E lines \in UrcLines(kind) : Send(lines)
    BY <1>6 DEF ModemUrc
  <2>2. PICK ls \in UrcLines(kind) : Send(ls)
    BY <2>1
  <2>3. /\ ls \in Seq(Lines) /\ Sorted(ls)
        /\ \A l \in Range(ls) : /\ serial < l.serial /\ l.serial <= serial + Len(ls)
                                /\ l.kind \in {kind, "smspdu"}
    <3>1. ls \in Seq(Lines)
      BY UrcType DEF LockInv, TypeOK
    <3>2. CASE kind \in {"urc", "nocarrier"}
      <4>1. PICK p : ls = <<Line(kind, p, 0, 1)>>
        BY <3>2 DEF UrcLines
      <4> QED BY <4>1, <3>1, <1>3 DEF Range, Sorted, Line
    <3>3. CASE kind = "smsurc"
      <4>1. ls = <<Line("smsurc", AnyPrefix, 0, 1), Line("smspdu", AnyPrefix, 0, 2)>>
        BY <3>3 DEF UrcLines
      <4>2. /\ DOMAIN ls = {1, 2} /\ Len(ls) = 2
            /\ ls[1].serial = serial + 1 /\ ls[2].serial = serial + 2
            /\ ls[1].kind = "smsurc" /\ ls[2].kind = "smspdu"
        BY <4>1 DEF Line
      <4> QED BY <4>2, <3>1, <3>3, <1>3 DEF Range, Sorted
    <3> QED BY <3>1, <3>2, <3>3 DEF AllUrcKinds
  <2>4. StreamInv' /\ InFlight' = InFlight \cup Range(ls)
    BY <2>1, <2>2, <2>3, <1>1, SendKeepsStream DEF SyncInv
  <2>5. Owned' = Owned /\ Answers' = Answers /\ modem' = modem
    BY <2>3, <2>4, <1>6 DEF Owned, Answers, AllUrcKinds, ModemUrc
  <2>6. Idle' = Idle /\ Answered' = Answered
    BY <2>5, <1>1, <1>2 DEF Idle, Answered
  <2>7. ASSUME NEW c \in Callers, Executes(call[c].id) PROVE Executes(call[c].id)'
    BY <2>5, <2>6, <2>7, <1>1, <1>2 DEF Executes
  <2>8. StepInv'
    BY <2>6, <2>7, <1>1, <1>2 DEF SyncInv, StepInv
  <2> QED BY <2>4, <2>8, <1>2, FrameKeepsFit DEF SyncInv
<1> QED BY <1>4, <1>5, <1>6

-----------------------------------------------------------------------------
(***************************************************************************)
(* A command is written with an empty response: from ac->response = ... to *)
(* writeline its thread keeps commandmutex, so processLine adds nothing.   *)
(***************************************************************************)
FreshInv == \A c \in Callers : pc[c] = "write" => response = NewResponse

LEMMA NextFresh ==
    ASSUME LockInv, FreshInv, [Next]_vars PROVE FreshInv'
<1>1. pc \in [Threads -> CallerPcs \cup ReaderPcs] /\ Reader \in Threads /\ Reader \notin Callers
  BY ThreadAssumption DEF LockInv, TypeOK, PcTypeOK, Threads
<1>2. ASSUME UNCHANGED response, \A c \in Callers : pc'[c] = "write" => pc[c] = "write"
      PROVE  FreshInv'
  BY <1>2 DEF FreshInv
<1>3. ASSUME NEW c \in Callers, NEW err, NEW final, NEW infos, Finish(c, err, final, infos),
             pc[c] \in PendingLabels \cup {"claim"}, requestmutex \in {c, NoOne}
      PROVE  FreshInv'
  <2>1. NextLabel(c, err) # "write"
    BY DEF NextLabel
  <2>2. \A d \in Callers : pc'[d] # "write"
    BY <1>1, <1>3, <2>1, ThreadAssumption
       DEF Finish, BroadcastRequest, Threads, LockInv, PendingDiscipline, PendingLabels
  <2> QED BY <2>2 DEF FreshInv
<1>4. ASSUME NEW c \in Callers,
             \/ Call(c) \/ LockAndFormat(c) \/ WaitForRequest(c) \/ RetryRequest(c) \/ WaitForResponse(c)
             \/ RecheckResponse(c) \/ TimeOut(c) \/ HandshakeDone(c) \/ SpuriousWakeup(c)
             \/ StartClose(c) \/ SendEscape(c) \/ WriteCommand(c)
      PROVE  FreshInv'
  <2>1. UNCHANGED response
    BY <1>4 DEF Call, LockAndFormat, WaitForRequest, RetryRequest, WaitForResponse, RecheckResponse,
       TimeOut, HandshakeDone, SpuriousWakeup, StartClose, SendEscape, WriteCommand, restVars,
       commandVars
  <2>2. \E label \in CallerPcs \ {"write"} : pc' = [pc EXCEPT ![c] = label]
    BY <1>4 DEF Call, LockAndFormat, WaitForRequest, RetryRequest, WaitForResponse, RecheckResponse,
       TimeOut, HandshakeDone, SpuriousWakeup, StartClose, SendEscape, WriteCommand, Goto, CallerPcs
  <2> QED BY <2>1, <2>2, <1>1, <1>2 DEF Threads
<1>5. ASSUME NEW c \in Callers, CallerStep(c) PROVE FreshInv'
  <2>1. CASE ClaimRequest(c)
    BY <2>1 DEF ClaimRequest, FreshInv
  <2>2. CASE ClaimRefused(c)
    BY <2>2, <1>3 DEF ClaimRefused, TrylockSucceeds
  <2>3. CASE WriteFails(c)
    BY <2>3, <1>3 DEF WriteFails, LockInv, PendingDiscipline, PendingLabels
  <2>4. CASE TakeResponse(c)
    BY <2>4, <1>3 DEF TakeResponse, LockInv, PendingDiscipline, PendingLabels
  <2>5. CASE GiveUp(c)
    BY <2>5, <1>3 DEF GiveUp, LockInv, PendingDiscipline, PendingLabels
  <2> QED BY <1>4, <1>5, <2>1, <2>2, <2>3, <2>4, <2>5 DEF CallerStep, Claim
<1>6. ASSUME NEW t \in Threads, CloseStep(t) PROVE FreshInv'
  <2>1. UNCHANGED response
    BY <1>6 DEF CloseStep, CloseTest, CloseFd, CloseSignal, KickReader, restVars, commandVars
  <2>2. \E label \in {"closeFd", "closeLock", "kick", "exit", "idle"} :
           pc' \in {[pc EXCEPT ![t] = label], SignalCommand([pc EXCEPT ![t] = label])}
    BY <1>6 DEF CloseStep, CloseTest, CloseFd, CloseSignal, KickReader, Goto, AfterClose
  <2> QED BY <2>1, <2>2, <1>1, <1>2 DEF SignalCommand, Threads
<1>7. CASE ProcessLine
  <2>1. \A c \in Callers : pc[c] # "write"
    BY <1>7, ThreadAssumption DEF ProcessLine, LockInv, MutexDiscipline, HoldingLabels
  <2>2. \A c \in Callers : pc'[c] = pc[c] \/ pc'[c] = "wokenResp"
    BY <1>1, <1>7 DEF ProcessLine, SignalCommand, Threads
  <2> QED BY <2>1, <2>2 DEF FreshInv
<1>8. CASE ReaderStep /\ ~ProcessLine
  <2>1. UNCHANGED response
    BY <1>8 DEF ReaderStep, TakeBufferedLine, StartPoll, PollKick, PollData, PollEof, ReaderEof,
       ReaderReportsClosed, commandVars
  <2>2. \/ UNCHANGED pc
        \/ \E label : pc' \in {[pc EXCEPT ![Reader] = label],
                               SignalCommand([pc EXCEPT ![Reader] = label])}
    BY <1>8 DEF ReaderStep, TakeBufferedLine, StartPoll, PollKick, PollData, PollEof,
       ReaderEof, ReaderReportsClosed, Goto
  <2> QED BY <2>1, <2>2, <1>1, <1>2 DEF SignalCommand, Threads
<1>9. CASE ModemStep \/ OtherContextFormats \/ UNCHANGED vars
  <2>1. UNCHANGED <<pc, response>>
    BY <1>9 DEF ModemStep, ModemTakes, ModemInfo, ModemAnswers, ModemUrc, ModemDies,
       ModemUnchanged, OtherContextFormats, vars, restVars, commandVars
  <2> QED BY <2>1, <1>2
<1> QED BY <1>4, <1>5, <1>6, <1>7, <1>8, <1>9 DEF Next, Quiescent

-----------------------------------------------------------------------------
\* A call that starts is one of the scenario's.
LEMMA CallKeepsSync ==
    ASSUME LockInv, SyncInv, NEW c \in Callers, Call(c) PROVE SyncInv'
<1>1. UNCHANGED <<modem, scenario, desync, result, response, line, buffer, fromModem, serial,
                  toModem, fdOpen, readerClosed, modemUp>>
  BY DEF Call, chanVars, wireVars, modemVars, readerVars, commandVars
<1>2. /\ pc \in [Threads -> CallerPcs \cup ReaderPcs] /\ c \in Threads /\ Reader # c
      /\ call \in [Callers -> Commands]
  BY ThreadAssumption DEF LockInv, TypeOK, PcTypeOK, CallerTypeOK, Threads
<1>3. /\ pc[c] = "idle" /\ pc'[c] = "lock" /\ \A t \in Threads \ {c} : pc'[t] = pc[t]
      /\ \A d \in Callers \ {c} : call'[d] = call[d]
  BY <1>2 DEF Call, Goto
<1>4. c \in scenario.callers /\ call'[c].api \in scenario.apis
  BY <1>2 DEF Call
<1>5. CallsFit'
  BY <1>1, <1>3, <1>4 DEF SyncInv, CallsFit, Threads
<1>6. Held' = Held
  BY <1>2, <1>3 DEF Held, Threads
<1>7. StreamFrame
  BY <1>1, <1>6 DEF StreamFrame
<1>8. InStep' => InStep
  BY <1>1, <1>3 DEF InStep, Closing, AloneOnChannel, Threads
<1>9. StepFrame
  BY <1>1, <1>3, <1>6, <1>8 DEF StepFrame, InFlight, Queued, Alive, Waiting, Threads
<1> QED BY <1>5, <1>7, <1>9, FrameKeepsStream, FrameKeepsStep DEF SyncInv

\* The pending command is written when nothing of another is under way.
LEMMA WriteKeepsSync ==
    ASSUME LockInv, FreshInv, SyncInv, NEW c \in Callers, WriteCommand(c) PROVE SyncInv'
<1> DEFINE msg == [kind |-> "cmd", cmd |-> TextOf(c), owner |-> call[c].id]
<1>1. UNCHANGED <<modem, scenario, desync, result, response, call, line, buffer, fromModem, serial,
                  fdOpen, readerClosed, modemUp>>
  BY DEF WriteCommand, callerVars, chanVars, modemVars, readerVars, commandVars
<1>2. /\ pc \in [Threads -> CallerPcs \cup ReaderPcs] /\ c \in Threads /\ Reader # c
  BY ThreadAssumption DEF LockInv, TypeOK, PcTypeOK, Threads
<1>3. /\ pc[c] = "write" /\ pc'[c] = "check" /\ \A t \in Threads \ {c} : pc'[t] = pc[t]
      /\ Alive
  BY <1>2 DEF WriteCommand, Goto, Alive
<1>4. \A d \in Callers : /\ pc[d] \notin Waiting
                         /\ pc'[d] \in Waiting => d = c
  BY <1>3 DEF LockInv, PendingDiscipline, PendingLabels, Waiting, Threads
<1>5. CallFrame
  BY <1>1, <1>3 DEF CallFrame, Commanding, Threads
<1>6. Held' = Held
  BY <1>2, <1>3 DEF Held, Threads
<1>7. StreamFrame /\ InFlight' = InFlight /\ Owned' = Owned /\ Answers' = Answers
  BY <1>1, <1>6 DEF StreamFrame, InFlight, Owned, Answers
<1>8. InStep' => InStep
  BY <1>1, <1>3 DEF InStep, Closing, AloneOnChannel, Threads
<1>9. AnswersInv'
  BY <1>1 DEF SyncInv, AnswersInv, AloneOnChannel, AnswersOwnCommand, OwnAnswer
<1>10. ASSUME InStep PROVE Executes(call[c].id)'
  <2>1. Idle
    BY <1>3, <1>4, <1>10 DEF SyncInv, StepInv
  <2>2. response.final = NoLine
    BY <1>3 DEF FreshInv, NewResponse
  <2>3. toModem \in Seq(Messages) /\ msg \in Messages /\ toModem' = Append(toModem, msg)
    BY DEF LockInv, TypeOK, CallerTypeOK, ChannelTypeOK, WireTypeOK, TextOf, Messages, Commands,
       WriteCommand
  <2>4. msg.kind = "cmd" /\ msg.owner = call[c].id
    OBVIOUS
  <2>5. Range(toModem') = Range(toModem) \cup {msg}
    BY <2>3, QueueRange
  <2>6. /\ DOMAIN toModem' = DOMAIN toModem \cup {Len(toModem) + 1}
        /\ \A i \in DOMAIN toModem : toModem'[i] = toModem[i] /\ toModem[i] \in Range(toModem)
    BY <2>3 DEF Range
  <2> HIDE DEF msg
  <2>7. Queued' = {msg}
    BY <2>1, <2>4, <2>5 DEF Idle, Queued
  <2>8. OneCommand(toModem')
    BY <2>1, <2>6 DEF OneCommand, Idle, Queued
  <2>9. ~Answered'
    BY <2>2, <1>1 DEF Answered, NoLine
  <2>10. Answers = {}
    BY <2>1 DEF Idle, Owned, Answers
  <2> QED BY <2>1, <2>2, <2>4, <2>7, <2>8, <2>9, <2>10, <1>1, <1>7 DEF Executes, Idle
<1>11. StepInv'
  BY <1>3, <1>4, <1>8, <1>10, <1>1 DEF StepInv, Waiting
<1> QED BY <1>5, <1>7, <1>9, <1>11, FrameKeepsFit, FrameKeepsStream DEF SyncInv

\* The end of a command: in step, it was answered, or nothing can be written any more.
LEMMA FinishKeepsSync ==
    ASSUME LockInv, SyncInv, NEW c \in Callers, NEW err, NEW final, NEW infos,
           Finish(c, err, final, infos), UNCHANGED toModem,
           pc[c] \in PendingLabels, requestmutex = c,
           InStep' /\ Alive => Idle,
           ~desync' \/ AloneOnChannel =>
              final = NoLine \/ final.kind = "nocarrier" \/ final.cmd = call[c].id
    PROVE  SyncInv'
<1>1. UNCHANGED <<modem, scenario, call, line, buffer, fromModem, serial, toModem, fdOpen,
                  readerClosed, modemUp>>
  BY DEF Finish, chanVars, modemVars, readerVars
<1>2. /\ pc \in [Threads -> CallerPcs \cup ReaderPcs] /\ c \in Threads /\ Reader # c
      /\ Reader \in Threads /\ result \in [Callers -> Results]
  BY ThreadAssumption DEF LockInv, TypeOK, PcTypeOK, CallerTypeOK, Threads
<1>3. NextLabel(c, err) \in {"hsSleep", "claim", "idle", "escape"}
  BY DEF NextLabel
<1>4. /\ pc'[c] = NextLabel(c, err)
      /\ \A t \in Threads \ {c} : pc'[t] = IF pc[t] = "waitReq" THEN "wokenReq" ELSE pc[t]
  BY <1>2, <1>3 DEF Finish, BroadcastRequest
<1>5. \A d \in Callers : pc'[d] \notin Waiting
  BY <1>3, <1>4 DEF LockInv, PendingDiscipline, PendingLabels, Waiting, Threads
<1>6. CallFrame
  BY <1>1, <1>3, <1>4 DEF CallFrame, Commanding, Waiting, PendingLabels, Threads
<1>7. Held' = Held
  BY <1>2, <1>4 DEF Held
<1>8. StreamFrame /\ Idle' = Idle /\ Alive' = Alive
  BY <1>1, <1>7 DEF StreamFrame, InFlight, Owned, Queued, Idle, Alive
<1>9. StepInv'
  BY <1>5, <1>8 DEF StepInv
<1>10. AnswersInv'
  <2> SUFFICES ASSUME ~desync' \/ AloneOnChannel, NEW d \in Callers PROVE OwnAnswer(d)'
    BY <1>1 DEF AnswersInv, AnswersOwnCommand, AloneOnChannel
  <2>1. OwnAnswer(d)
    BY DEF SyncInv, AnswersInv, AnswersOwnCommand, Finish
  <2>2. CASE d # c
    BY <2>1, <2>2, <1>2 DEF OwnAnswer, Finish
  <2>3. CASE d = c
    <3>1. result'[c].final = final /\ result'[c].id = call[c].id
      BY <1>2 DEF Finish
    <3> QED BY <3>1, <2>3 DEF OwnAnswer
  <2> QED BY <2>2, <2>3
<1> QED BY <1>6, <1>8, <1>9, <1>10, FrameKeepsFit, FrameKeepsStream DEF SyncInv

LEMMA EndKeepsSync ==
    ASSUME LockInv, SyncInv, NEW c \in Callers,
           (response # NoResponse /\ ClaimRefused(c)) \/ WriteFails(c) \/ TakeResponse(c) \/ GiveUp(c)
    PROVE  SyncInv'
<1>1. CASE response # NoResponse /\ ClaimRefused(c)
  BY <1>1 DEF ClaimRefused, LockInv, PendingDiscipline, TrylockSucceeds
<1>2. CASE WriteFails(c)
  <2> DEFINE err == IF ~fdOpen \/ readerClosed THEN "CHANNEL_CLOSED" ELSE "GENERIC"
  <2>1. /\ pc[c] \in PendingLabels /\ requestmutex = c /\ ~Alive /\ UNCHANGED toModem
        /\ Finish(c, err, NoLine, << >>)
    BY <1>2 DEF WriteFails, LockInv, PendingDiscipline, PendingLabels, Alive
  <2> HIDE DEF err
  <2> QED BY <2>1, FinishKeepsSync
<1>3. CASE TakeResponse(c)
  <2> DEFINE err == IF readerClosed THEN "CHANNEL_CLOSED" ELSE ErrorOf(response)
             infos == ArrivalOrder(response.infos)
  <2>1. /\ pc[c] = "check" /\ pc[c] \in PendingLabels /\ requestmutex = c /\ UNCHANGED toModem
        /\ response.final # NoLine \/ readerClosed
        /\ Finish(c, err, response.final, infos)
    BY <1>3 DEF TakeResponse, LockInv, PendingDiscipline, PendingLabels
  <2> HIDE DEF err, infos
  <2>2. /\ desync' = (desync \/ err = "TIMEOUT" \/ response.final.kind = "nocarrier")
        /\ scenario' = scenario
    BY <2>1 DEF Finish
  <2>3. c \in scenario.callers
    BY <2>1 DEF SyncInv, CallsFit, Commanding, Waiting
  <2>4. ~desync' \/ AloneOnChannel => Executes(call[c].id)
    <3>1. AloneOnChannel => ~Closing
      BY <2>1, <2>3 DEF AloneOnChannel, Closing
    <3> QED BY <3>1, <2>1, <2>2 DEF SyncInv, StepInv, InStep, Waiting
  <2>5. InStep' => ~desync' \/ AloneOnChannel
    BY <2>2 DEF InStep, AloneOnChannel
  <2>6. InStep' /\ Alive => Idle
    <3> SUFFICES ASSUME InStep', Alive PROVE Idle
      OBVIOUS
    <3>1. Executes(call[c].id) /\ response.final # NoLine
      BY <2>1, <2>4, <2>5 DEF Alive
    <3>2. response.final.kind = "nocarrier" /\ "nocarrier" \in scenario.urcKinds => FALSE
      BY <2>2, <2>5 DEF AloneOnChannel
    <3> QED BY <3>1, <3>2 DEF Executes
  <2>7. ~desync' \/ AloneOnChannel =>
           \/ response.final = NoLine \/ response.final.kind = "nocarrier"
           \/ response.final.cmd = call[c].id
    BY <2>4 DEF Executes
  <2> QED BY <2>1, <2>6, <2>7, FinishKeepsSync
<1>4. CASE GiveUp(c)
  <2>1. /\ pc[c] = "timedOut" /\ pc[c] \in PendingLabels /\ requestmutex = c /\ UNCHANGED toModem
        /\ Finish(c, "TIMEOUT", NoLine, << >>)
    BY <1>4 DEF GiveUp, LockInv, PendingDiscipline, PendingLabels
  <2>2. ~InStep'
    <3> SUFFICES ASSUME InStep' PROVE FALSE
      OBVIOUS
    <3>1. desync' /\ scenario' = scenario
      BY <2>1 DEF Finish
    <3>2. AloneOnChannel /\ ~Closing'
      BY <3>1 DEF InStep, AloneOnChannel
    <3>3. c \in scenario.callers /\ call[c].api # "handshake"
      BY <2>1, <3>2 DEF SyncInv, CallsFit, Commanding, Waiting, AloneOnChannel
    <3>4. NextLabel(c, "TIMEOUT") = "escape"
      BY <3>3 DEF NextLabel
    <3>5. pc'[c] = "escape"
      BY <2>1, <3>4 DEF Finish, BroadcastRequest, LockInv, TypeOK, PcTypeOK, Threads
    <3> QED BY <3>1, <3>2, <3>3, <3>5 DEF Closing
  <2> QED BY <2>1, <2>2, FinishKeepsSync
<1> QED BY <1>1, <1>2, <1>3, <1>4

LEMMA NextSync ==
    ASSUME LockInv, FreshInv, SyncInv, [Next]_vars PROVE SyncInv'
<1>1. ASSUME QuietStep PROVE SyncInv'
  BY <1>1, FrameKeepsFit, FrameKeepsStream, FrameKeepsStep DEF QuietStep, SyncInv
<1>2. CallsFit
  BY DEF SyncInv
<1>3. ASSUME NEW c \in Callers, CallerStep(c) PROVE SyncInv'
  BY <1>1, <1>3, CallerMoveQuiet, ClaimRequestQuiet, SendEscapeQuiet, WriteKeepsSync, EndKeepsSync
     DEF CallerStep, Claim
<1>4. ASSUME NEW c \in Callers, TimeOut(c) \/ SpuriousWakeup(c) \/ StartClose(c) PROVE SyncInv'
  BY <1>1, <1>4, CallerMoveQuiet
<1>5. ASSUME NEW t \in Threads, CloseStep(t) PROVE SyncInv'
  BY <1>1, <1>2, <1>5, CloseStepQuiet
<1>6. CASE ReaderStep
  BY <1>1, <1>6, BackgroundQuiet, ReadKeepsSync, ProcessLineKeepsSync DEF ReaderStep
<1>7. CASE ModemStep \/ OtherContextFormats \/ UNCHANGED vars
  BY <1>1, <1>7, BackgroundQuiet, ModemTakesKeepsSync, ModemSendsKeepsSync DEF ModemStep
<1> QED BY <1>3, <1>4, <1>5, <1>6, <1>7, CallKeepsSync DEF Next, Quiescent

LEMMA InitSync == Init => FreshInv /\ SyncInv
<1> SUFFICES ASSUME Init PROVE FreshInv /\ SyncInv
  OBVIOUS
<1>1. /\ \A c \in Callers : pc[c] = "idle"
      /\ ~Held /\ Range(buffer) = {} /\ Range(fromModem) = {} /\ Range(toModem) = {}
  BY ThreadAssumption DEF Init, Threads, Held, Range
<1>2. InFlight = {} /\ Queued = {} /\ Idle
  BY <1>1 DEF Init, InFlight, Queued, Owned, Idle
<1>3. StreamInv
  BY <1>1, <1>2 DEF StreamInv, Sorted, Init
<1>4. AnswersInv
  BY DEF AnswersInv, AnswersOwnCommand, OwnAnswer, Init, NoResult
<1> QED BY <1>1, <1>2, <1>3, <1>4 DEF FreshInv, SyncInv, CallsFit, Commanding, Waiting, StepInv

(***************************************************************************)
(* In every behaviour, for any number of threads and commands and whatever *)
(* the modem reports in between, a command gets its own final line as long *)
(* as none timed out or was ended by NO CARRIER; and a thread alone on the *)
(* channel gets it even then: onTimeout closes the channel before the      *)
(* thread can write another command.                                       *)
(***************************************************************************)
THEOREM AnswersMatch == Spec => []AnswersItsCommand
<1>1. SyncInv => AnswersItsCommand
  BY DEF SyncInv, AnswersInv, AnswersItsCommand, AnswersOwnCommandInSync
<1> QED BY <1>1, InitLock, NextLock, InitSync, NextFresh, NextSync, PTL DEF Spec

-----------------------------------------------------------------------------
(***************************************************************************)
(* What a command gathers.  The completeness of the intermediate lines     *)
(* needs more than the channel being in step: that identities are unique   *)
(* and travel with the text (IdsInv, SentInv), that the response is the    *)
(* pending command's (PendingInv), that processLine stores lines in the    *)
(* order of the stream (InfosInv), that what the modem sent in answer is   *)
(* in the response or under way (GatherInv), and that readline drops only  *)
(* the second line of an SMS report (ReadInv).                             *)
(***************************************************************************)

\* A command is issued and its text not yet written.
Formatting == {"lock", "claim", "waitReq", "wokenReq", "write"}

\* Every command has an identity of its own, and what bears the identity of a call as its
\* text and its owner is that call's command.
IdsInv ==
    /\ strbuf.id <= calls
    /\ \A m \in Queued : m.owner <= calls
    /\ modem.phase # "idle" => modem.owner <= calls
    /\ \A c \in Callers :
          /\ call[c].id <= calls
          /\ pc[c] \in Commanding => call[c].id >= 1
          /\ call[c].id = 0 => call[c] = Foreign
          /\ strbuf.id = call[c].id => strbuf = call[c]
          /\ \A d \in Callers \ {c} : call[c].id = call[d].id => call[c].id = 0
          /\ \A m \in Queued : m.cmd.id = m.owner /\ m.owner = call[c].id => m.cmd = call[c]
          /\ modem.phase # "idle" /\ modem.cmd.id = modem.owner /\ modem.owner = call[c].id =>
                modem.cmd = call[c]

NotSent(id) ==
    /\ \A m \in Queued : m.owner # id
    /\ modem.phase # "idle" => modem.owner # id

\* Nothing is sent, or answered, under the identity of a command that is not written yet;
\* at_handshake writes its command several times.
SentInv ==
    /\ \A i \in 0 .. MaxCalls : i > calls => answered[i] = {}
    /\ \A c \in Callers :
          pc[c] \in Formatting /\ call[c].api # "handshake" =>
             NotSent(call[c].id) /\ answered[call[c].id] = {}

PendingInv ==
    \A c \in Callers : pc[c] \in Waiting \cup {"write"} =>
          type = TypeOfApi(call[c].api) /\ responsePrefix = call[c].prefix

\* The latest line is the first, and older than any that is under way.
InfosInv ==
    response # NoResponse =>
       /\ \A i, j \in DOMAIN response.infos :
             i < j => response.infos[j].serial < response.infos[i].serial
       /\ \A i \in DOMAIN response.infos :
             /\ response.infos[i].serial <= serial
             /\ \A l \in InFlight : response.infos[i].serial < l.serial
       /\ type # "MULTILINE" => Len(response.infos) <= 1

GatherInv ==
    ~desync => \A c \in Callers : pc[c] \in Waiting =>
       /\ \A i \in DOMAIN response.infos : response.infos[i].cmd \in {call[c].id, 0}
       /\ TypeOfApi(call[c].api) = "MULTILINE" => \A n \in answered[call[c].id] :
             \/ \E i \in DOMAIN response.infos : response.infos[i].serial = n
             \/ \E l \in Owned : /\ l.serial = n /\ l.kind = "info"
                                 /\ call[c].prefix \in {l.prefix, AnyPrefix}

GatheredInv == PendingInv /\ InfosInv /\ GatherInv

\* What was returned, and that the modem sends nothing more in answer to it.
ResultInv ==
    ~desync => \A c \in Callers : result[c].err = "NOERROR" =>
       /\ Complete(result[c])
       /\ result[c].id <= calls
       /\ TypeOfApi(result[c].api) = "MULTILINE" =>
            /\ NotSent(result[c].id)
            /\ \A d \in Callers :
                  pc[d] \in Formatting \/ call[d].api = "handshake" => call[d].id # result[c].id

\* The buffer is empty when read() fills it, and the line after the first of an SMS report is
\* its second.
ReadInv ==
    /\ pc[Reader] = "poll" => buffer = << >>
    /\ smsFirst => /\ ~Held
                   /\ \E p \in InFlight : /\ p.kind = "smspdu"
                                          /\ \A l \in InFlight : p.serial <= l.serial
    /\ \A l \in InFlight : l.kind = "smsurc" =>
          \E p \in InFlight : p.kind = "smspdu" /\ p.serial = l.serial + 1
    /\ \A l \in InFlight : l.kind \notin {"info", "ok", "error", "prompt"} => l.cmd = 0
    /\ Held => line.kind # "smsurc"

HandInv == ReadInv /\ IdsInv /\ SentInv /\ GatheredInv /\ ResultInv

-----------------------------------------------------------------------------
\* No text is written or taken, no call starts or returns.
IdFrame ==
    /\ UNCHANGED <<calls, answered, result, desync>>
    /\ strbuf' \in {strbuf, Foreign} \cup {call[c] : c \in Callers}
    /\ Queued' \subseteq Queued
    /\ modem'.phase # "idle" =>
          modem.phase # "idle" /\ modem'.owner = modem.owner /\ modem'.cmd = modem.cmd
    /\ call' = call
    /\ \A c \in Callers : /\ pc'[c] \in Commanding => pc[c] \in Commanding
                          /\ pc'[c] \in Formatting => pc[c] \in Formatting

\* No line is sent or stored, and no intermediate line dropped.
GatherFrame ==
    /\ UNCHANGED <<type, responsePrefix, response, answered, serial, desync>>
    /\ \A c \in Callers : pc'[c] \in Waiting \cup {"write"} => call'[c] = call[c]
    /\ InFlight' \subseteq InFlight
    /\ \A l \in InFlight : l.kind = "info" => l \in InFlight'
    /\ \A c \in Callers : /\ pc'[c] \in Waiting => pc[c] \in Waiting
                          /\ pc'[c] = "write" => pc[c] = "write"

\* No line moves.
ReadFrame ==
    /\ UNCHANGED <<buffer, fromModem, line>>
    /\ Held' = Held
    /\ smsFirst' => smsFirst
    /\ pc'[Reader] = "poll" => buffer = << >>

HandFrame == IdFrame /\ GatherFrame /\ ReadFrame

LEMMA IdFrameKeeps ==
    ASSUME LockInv, IdsInv, SentInv, ResultInv, IdFrame PROVE IdsInv' /\ SentInv' /\ ResultInv'
<1>1. call \in [Callers -> Commands] /\ calls \in Nat /\ Foreign.id = 0
  BY BoundAssumption DEF LockInv, TypeOK, CallerTypeOK, Foreign
<1>2. \A id : NotSent(id) => NotSent(id)'
  BY DEF NotSent, IdFrame
<1>3. IdsInv'
  <2>1. strbuf'.id <= calls /\ \A c \in Callers : strbuf'.id = call[c].id => strbuf' = call[c]
    <3>1. CASE strbuf' = strbuf
      BY <3>1 DEF IdsInv
    <3>2. CASE strbuf' = Foreign
      <4>1. \A c \in Callers : Foreign.id = call[c].id => Foreign = call[c]
        BY <1>1 DEF IdsInv
      <4> QED BY <3>2, <4>1, <1>1
    <3>3. ASSUME NEW d \in Callers, strbuf' = call[d]
          PROVE  strbuf'.id <= calls /\ \A c \in Callers : strbuf'.id = call[c].id => strbuf' = call[c]
      <4>1. \A c \in Callers : call[d].id = call[c].id => call[d] = call[c]
        BY DEF IdsInv
      <4> QED BY <3>3, <4>1 DEF IdsInv
    <3> QED BY <3>1, <3>2, <3>3 DEF IdFrame
  <2>2. /\ \A m \in Queued' : m.owner <= calls
        /\ modem'.phase # "idle" => modem'.owner <= calls
    BY DEF IdFrame, IdsInv
  <2>3. \A c \in Callers :
          /\ call[c].id <= calls
          /\ pc'[c] \in Commanding => call[c].id >= 1
          /\ call[c].id = 0 => call[c] = Foreign
          /\ \A d \in Callers \ {c} : call[c].id = call[d].id => call[c].id = 0
          /\ \A m \in Queued' : m.cmd.id = m.owner /\ m.owner = call[c].id => m.cmd = call[c]
          /\ modem'.phase # "idle" /\ modem'.cmd.id = modem'.owner /\ modem'.owner = call[c].id =>
                modem'.cmd = call[c]
    BY DEF IdFrame, IdsInv
  <2>4. call' = call /\ calls' = calls
    BY DEF IdFrame
  <2> QED BY <2>1, <2>2, <2>3, <2>4 DEF IdsInv
<1>4. SentInv'
  BY <1>2 DEF SentInv, IdFrame
<1>5. ResultInv'
  BY <1>2 DEF ResultInv, IdFrame, Complete
<1> QED BY <1>3, <1>4, <1>5

LEMMA GatherFrameKeeps ==
    ASSUME GatheredInv, GatherFrame PROVE GatheredInv'
<1>1. PendingInv'
  BY DEF GatheredInv, PendingInv, GatherFrame
<1>2. InfosInv'
  BY DEF GatheredInv, InfosInv, GatherFrame
<1>3. GatherInv'
  <2>1. \A l \in Owned : l.kind = "info" => l \in Owned'
    BY DEF Owned, GatherFrame
  <2> QED BY <2>1 DEF GatheredInv, GatherInv, GatherFrame
<1> QED BY <1>1, <1>2, <1>3 DEF GatheredInv

LEMMA ReadFrameKeeps ==
    ASSUME ReadInv, ReadFrame PROVE ReadInv'
<1>1. InFlight' = InFlight
  BY DEF ReadFrame, InFlight
<1> QED BY <1>1 DEF ReadInv, ReadFrame

\* A caller that moves to another label.
LEMMA CallerMoveHand ==
    ASSUME LockInv, ReadInv, NEW c \in Callers,
           \/ LockAndFormat(c) \/ WaitForRequest(c) \/ RetryRequest(c) \/ WaitForResponse(c)
           \/ RecheckResponse(c) \/ TimeOut(c) \/ HandshakeDone(c) \/ SpuriousWakeup(c)
           \/ StartClose(c) \/ SendEscape(c)
    PROVE  HandFrame
<1>1. UNCHANGED <<modem, desync, result, call, response, type, responsePrefix, line, smsFirst, buffer,
                  fromModem, serial, answered, calls>>
  BY DEF LockAndFormat, WaitForRequest, RetryRequest, WaitForResponse, RecheckResponse, TimeOut,
     HandshakeDone, SpuriousWakeup, StartClose, SendEscape, restVars, callerVars, chanVars, wireVars,
     modemVars, readerVars, commandVars
<1>2. pc \in [Threads -> CallerPcs \cup ReaderPcs] /\ c \in Threads /\ Reader # c /\ Reader \in Threads
  BY ThreadAssumption DEF LockInv, TypeOK, PcTypeOK, Threads
<1>3. PICK label : /\ pc' = [pc EXCEPT ![c] = label]
                   /\ label \in Waiting => pc[c] \in Waiting
                   /\ label \in Commanding => pc[c] \in Commanding
                   /\ label \in Formatting => pc[c] \in Formatting
                   /\ label # "write"
  <2>1. CASE LockAndFormat(c)
    BY <2>1 DEF LockAndFormat, Goto, Waiting, Commanding, Formatting
  <2>2. CASE WaitForRequest(c)
    BY <2>2 DEF WaitForRequest, Goto, Waiting, Commanding, Formatting
  <2>3. CASE RetryRequest(c)
    BY <2>3 DEF RetryRequest, Goto, Waiting, Commanding, Formatting
  <2>4. CASE WaitForResponse(c) \/ RecheckResponse(c)
    BY <2>4 DEF WaitForResponse, RecheckResponse, Goto, Waiting, Commanding, Formatting
  <2>5. CASE TimeOut(c) \/ HandshakeDone(c)
    BY <2>5 DEF TimeOut, HandshakeDone, Goto, Waiting, Commanding, Formatting
  <2>6. CASE SpuriousWakeup(c)
    BY <2>6 DEF SpuriousWakeup, Goto, Waiting, Commanding, Formatting
  <2>7. CASE StartClose(c) \/ SendEscape(c)
    BY <2>7 DEF StartClose, SendEscape, Goto, Waiting, Commanding, Formatting
  <2> QED BY <2>1, <2>2, <2>3, <2>4, <2>5, <2>6, <2>7
<1>4. \A t \in Threads : pc'[t] = IF t = c THEN label ELSE pc[t]
  BY <1>2, <1>3
<1>5. Held' = Held /\ pc'[Reader] = pc[Reader]
  BY <1>2, <1>4 DEF Held, Threads
<1>6. strbuf' \in {strbuf, Foreign} \cup {call[d] : d \in Callers}
  BY DEF LockAndFormat, WaitForRequest, RetryRequest, WaitForResponse, RecheckResponse, TimeOut,
     HandshakeDone, SpuriousWakeup, StartClose, SendEscape, restVars, chanVars
<1>7. Queued' = Queued
  <2>1. CASE SendEscape(c)
    <3>1. QuietStep
      BY <2>1, SendEscapeQuiet
    <3> DEFINE esc == [kind |-> "esc", cmd |-> Foreign, owner |-> 0]
    <3>2. toModem \in Seq(Messages) /\ esc \in Messages
      BY ConstantTypes, BoundAssumption DEF LockInv, TypeOK, WireTypeOK, Messages
    <3>3. CASE toModem' = Append(toModem, esc)
      <4>1. Range(toModem') = Range(toModem) \cup {esc}
        BY <3>2, <3>3, QueueRange
      <4> QED BY <4>1 DEF Queued
    <3> QED BY <2>1, <3>3 DEF SendEscape, Queued
  <2>2. CASE toModem' = toModem
    BY <2>2 DEF Queued
  <2> QED BY <2>1, <2>2
          DEF LockAndFormat, WaitForRequest, RetryRequest, WaitForResponse, RecheckResponse, TimeOut,
              HandshakeDone, SpuriousWakeup, StartClose, restVars, wireVars
<1>8. IdFrame
  BY <1>1, <1>3, <1>4, <1>6, <1>7 DEF IdFrame, Threads
<1>9. GatherFrame
  BY <1>1, <1>3, <1>4, <1>5 DEF GatherFrame, InFlight, Threads
<1>10. ReadFrame
  BY <1>1, <1>5 DEF ReadFrame, ReadInv
<1> QED BY <1>8, <1>9, <1>10 DEF HandFrame

BackgroundLabels ==
    {"read", "eof", "closedLock", "closeTest", "closeFd", "closeLock", "kick", "exit", "idle"}

\* at_close, the reader outside readline and processLine, the device and another context.
LEMMA BackgroundHand ==
    ASSUME LockInv, ReadInv,
           \/ \E t \in Threads : CloseStep(t)
           \/ StartPoll \/ PollKick \/ PollEof \/ ReaderEof \/ ReaderReportsClosed
           \/ ModemDies \/ OtherContextFormats \/ UNCHANGED vars
    PROVE  HandFrame
<1>1. UNCHANGED <<modem, desync, result, call, response, type, responsePrefix, line, buffer, fromModem,
                  serial, toModem, answered, calls>>
  BY DEF CloseStep, CloseTest, CloseFd, CloseSignal, KickReader, StartPoll, PollKick, PollEof,
     ReaderEof, ReaderReportsClosed, ModemDies, OtherContextFormats,
     ReaderUnchanged, ModemUnchanged, vars, restVars, callerVars, chanVars, wireVars, modemVars,
     readerVars, commandVars
<1>2. pc \in [Threads -> CallerPcs \cup ReaderPcs] /\ Reader \in Threads /\ Reader \notin Callers
  BY ThreadAssumption DEF LockInv, TypeOK, PcTypeOK, Threads
<1>3. \/ UNCHANGED pc
      \/ /\ StartPoll /\ pc' = [pc EXCEPT ![Reader] = IF fdOpen THEN "poll" ELSE "eof"]
         /\ pc[Reader] = "read"
      \/ \E t \in Threads, label \in BackgroundLabels :
            /\ pc' \in {[pc EXCEPT ![t] = label], SignalCommand([pc EXCEPT ![t] = label])}
            /\ pc[t] \in {"poll", "eof", "closedLock", "closeTest", "closeFd", "closeLock", "kick"}
  BY <1>2 DEF CloseStep, CloseTest, CloseFd, CloseSignal, KickReader, StartPoll, PollKick, PollEof,
     ReaderEof, ReaderReportsClosed, ModemDies, OtherContextFormats,
     ModemUnchanged, vars, restVars, Goto, AfterClose, BackgroundLabels
<1>4. Held' = Held
  BY <1>2, <1>3 DEF Held, SignalCommand, BackgroundLabels
<1>5. \A d \in Callers : \/ pc'[d] = pc[d] \/ (pc[d] = "waitResp" /\ pc'[d] = "wokenResp")
                         \/ pc'[d] \in BackgroundLabels
  BY <1>2, <1>3 DEF SignalCommand, Threads, BackgroundLabels
<1>6. \A d \in Callers : /\ pc'[d] \in Waiting => pc[d] \in Waiting
                         /\ pc'[d] \in Commanding => pc[d] \in Commanding
                         /\ pc'[d] \in Formatting => pc[d] \in Formatting
                         /\ pc'[d] = "write" => pc[d] = "write"
  BY <1>5 DEF Waiting, Commanding, Formatting, BackgroundLabels
<1>7. strbuf' \in {strbuf, Foreign}
  BY DEF CloseStep, CloseTest, CloseFd, CloseSignal, KickReader, StartPoll, PollKick, PollEof,
     ReaderEof, ReaderReportsClosed, ModemDies, OtherContextFormats,
     ReaderUnchanged, ModemUnchanged, vars, restVars, chanVars
<1>8. /\ smsFirst' => smsFirst
      /\ pc'[Reader] = "poll" => buffer = << >>
  <2>1. smsFirst' => smsFirst
    BY DEF CloseStep, CloseTest, CloseFd, CloseSignal, KickReader, StartPoll, PollKick, PollEof,
       ReaderEof, ReaderReportsClosed, ModemDies, OtherContextFormats, ModemUnchanged, vars, restVars,
       readerVars
  <2>2. CASE pc'[Reader] = pc[Reader]
    BY <2>1, <2>2 DEF ReadInv
  <2>3. CASE StartPoll
    BY <2>1, <2>3 DEF StartPoll
  <2>4. CASE pc'[Reader] # pc[Reader] /\ ~StartPoll
    <3>1. pc'[Reader] # "poll"
      BY <2>4, <1>2, <1>3 DEF SignalCommand, BackgroundLabels
    <3> QED BY <2>1, <3>1
  <2> QED BY <2>2, <2>3, <2>4
<1>9. IdFrame
  BY <1>1, <1>6, <1>7 DEF IdFrame, Queued
<1>10. GatherFrame
  BY <1>1, <1>4, <1>6 DEF GatherFrame, InFlight
<1>11. ReadFrame
  BY <1>1, <1>4, <1>8 DEF ReadFrame
<1> QED BY <1>9, <1>10, <1>11 DEF HandFrame


LEMMA HandFrameKeeps == ASSUME LockInv, HandInv, HandFrame PROVE HandInv'
  BY IdFrameKeeps, GatherFrameKeeps, ReadFrameKeeps DEF HandInv, HandFrame

\* A command that becomes the pending one starts with an empty response of its type.
LEMMA ClaimRequestKeepsHand ==
    ASSUME LockInv, HandInv, NEW c \in Callers, ClaimRequest(c) PROVE HandInv'
<1>1. UNCHANGED <<modem, desync, result, call, line, smsFirst, buffer, fromModem, toModem, serial,
                  answered, calls, strbuf>>
  BY DEF ClaimRequest, callerVars, chanVars, wireVars, modemVars, readerVars
<1>2. pc \in [Threads -> CallerPcs \cup ReaderPcs] /\ c \in Threads /\ Reader # c /\ Reader \in Threads
  BY ThreadAssumption DEF LockInv, TypeOK, PcTypeOK, Threads
<1>3. /\ pc[c] = "claim" /\ \A t \in Threads : pc'[t] = IF t = c THEN "write" ELSE pc[t]
  BY <1>2 DEF ClaimRequest, Goto
<1>4. \A d \in Callers : pc[d] \notin Waiting \cup {"write"}
  BY ThreadAssumption
     DEF ClaimRequest, TrylockSucceeds, LockInv, PendingDiscipline, PendingLabels, Waiting
<1>5. IdFrame
  BY <1>1, <1>3 DEF IdFrame, Queued, Commanding, Formatting, Waiting, Threads
<1>6. ReadFrame
  BY <1>1, <1>2, <1>3 DEF ReadFrame, Held, HandInv, ReadInv
<1>7. GatheredInv'
  <2>1. \A d \in Callers : pc'[d] \notin Waiting /\ (pc'[d] = "write" => d = c)
    BY <1>3, <1>4 DEF Waiting, Threads
  <2>2. response'.infos = << >>
    BY DEF ClaimRequest, NewResponse
  <2>3. DOMAIN << >> = {} /\ Len(<< >>) = 0
    OBVIOUS
  <2>4. PendingInv'
    BY <2>1, <1>1 DEF PendingInv, ClaimRequest
  <2>5. InfosInv'
    BY <2>2, <2>3 DEF InfosInv
  <2>6. GatherInv'
    BY <2>1 DEF GatherInv
  <2> QED BY <2>4, <2>5, <2>6 DEF GatheredInv
<1> QED BY <1>5, <1>6, <1>7, IdFrameKeeps, ReadFrameKeeps DEF HandInv

\* A new command has an identity nothing bears.
LEMMA CallKeepsHand ==
    ASSUME LockInv, HandInv, NEW c \in Callers, Call(c) PROVE HandInv'
<1>1. UNCHANGED <<modem, desync, result, response, type, responsePrefix, line, smsFirst, buffer,
                  fromModem, toModem, serial, answered, strbuf>>
  BY DEF Call, chanVars, wireVars, modemVars, readerVars, commandVars
<1>2. /\ pc \in [Threads -> CallerPcs \cup ReaderPcs] /\ c \in Threads /\ Reader # c /\ Reader \in Threads
      /\ call \in [Callers -> Commands] /\ calls \in Nat /\ MaxCalls \in Nat
      /\ result \in [Callers -> Results] /\ strbuf \in Commands
      /\ \A m \in Queued : m.owner \in Nat
      /\ modem.owner \in Nat
  <2>1. Range(toModem) \subseteq Messages
    BY QueueRange DEF LockInv, TypeOK, WireTypeOK
  <2> QED BY <2>1, ThreadAssumption, BoundAssumption
          DEF LockInv, TypeOK, PcTypeOK, CallerTypeOK, ChannelTypeOK, WireTypeOK, Threads, Queued,
              Messages, ModemStates
<1>3. /\ pc[c] = "idle" /\ \A t \in Threads : pc'[t] = IF t = c THEN "lock" ELSE pc[t]
      /\ calls' = calls + 1 /\ calls < MaxCalls
      /\ call'[c].id = calls + 1 /\ \A d \in Callers \ {c} : call'[d] = call[d]
  BY <1>2 DEF Call, Goto
<1>4. /\ strbuf.id \in Nat /\ \A d \in Callers : call[d].id \in Nat /\ result[d].id \in Nat
  BY <1>2 DEF Commands, Results
<1>5. /\ strbuf.id <= calls
      /\ \A m \in Queued : m.owner <= calls
      /\ modem.phase # "idle" => modem.owner <= calls
      /\ \A d \in Callers : call[d].id <= calls
  BY DEF HandInv, IdsInv
<1>6. Queued' = Queued
  BY <1>1 DEF Queued
<1>7. IdsInv'
  <2>1. strbuf'.id <= calls' /\ \A m \in Queued' : m.owner <= calls'
    BY <1>1, <1>2, <1>3, <1>4, <1>5, <1>6
  <2>2. modem'.phase # "idle" => modem'.owner <= calls'
    BY <1>1, <1>2, <1>3, <1>5
  <2>3. ASSUME NEW d \in Callers
        PROVE  /\ call'[d].id <= calls'
               /\ pc'[d] \in Commanding => call'[d].id >= 1
               /\ call'[d].id = 0 => call'[d] = Foreign
               /\ strbuf'.id = call'[d].id => strbuf' = call'[d]
    <3>1. CASE d = c
      BY <3>1, <1>1, <1>2, <1>3, <1>4, <1>5
    <3>2. CASE d # c
      BY <3>2, <1>1, <1>2, <1>3, <1>4, <1>5 DEF HandInv, IdsInv, Threads
    <3> QED BY <3>1, <3>2
  <2>4. ASSUME NEW d \in Callers, NEW e \in Callers \ {d}, call'[d].id = call'[e].id
        PROVE  call'[d].id = 0
    <3>1. CASE d = c \/ e = c
      BY <3>1, <2>4, <1>2, <1>3, <1>4, <1>5
    <3>2. CASE d # c /\ e # c
      BY <3>2, <2>4, <1>3 DEF HandInv, IdsInv
    <3> QED BY <3>1, <3>2
  <2>5. ASSUME NEW d \in Callers
        PROVE  /\ \A m \in Queued' : m.cmd.id = m.owner /\ m.owner = call'[d].id => m.cmd = call'[d]
               /\ modem'.phase # "idle" /\ modem'.cmd.id = modem'.owner /\ modem'.owner = call'[d].id =>
                     modem'.cmd = call'[d]
    <3>1. CASE d = c
      BY <3>1, <1>1, <1>2, <1>3, <1>5, <1>6
    <3>2. CASE d # c
      BY <3>2, <1>1, <1>3, <1>6 DEF HandInv, IdsInv
    <3> QED BY <3>1, <3>2
  <2> QED BY <2>1, <2>2, <2>3, <2>4, <2>5 DEF IdsInv
<1>8. \A id : NotSent(id)' = NotSent(id)
  BY <1>1, <1>6 DEF NotSent
<1>9. SentInv'
  <2>1. NotSent(calls + 1) /\ answered[calls + 1] = {}
    <3>1. calls + 1 \in 0 .. MaxCalls /\ calls + 1 > calls
      BY <1>2, <1>3
    <3> QED BY <3>1, <1>2, <1>5 DEF NotSent, HandInv, SentInv
  <2>2. \A i \in 0 .. MaxCalls : i > calls' => answered'[i] = {}
    BY <1>1, <1>2, <1>3 DEF HandInv, SentInv
  <2>3. ASSUME NEW d \in Callers, pc'[d] \in Formatting, call'[d].api # "handshake"
        PROVE  NotSent(call'[d].id) /\ answered'[call'[d].id] = {}
    <3>1. CASE d = c
      BY <3>1, <2>1, <1>1, <1>3
    <3>2. CASE d # c
      BY <3>2, <2>3, <1>1, <1>3 DEF HandInv, SentInv, Threads
    <3> QED BY <3>1, <3>2
  <2>4. ASSUME NEW d \in Callers, pc'[d] \in Formatting, call'[d].api # "handshake"
        PROVE  NotSent(call[d].id)' /\ answered'[call'[d].id] = {}
    <3>1. \A m \in Queued : m.owner # call'[d].id
      BY <2>3, <2>4 DEF NotSent
    <3>2. modem.phase # "idle" => modem.owner # call'[d].id
      BY <2>3, <2>4 DEF NotSent
    <3> QED BY <3>1, <3>2, <2>3, <2>4, <1>1, <1>6 DEF NotSent
  <2> QED BY <2>2, <2>4 DEF SentInv
<1>10. ResultInv'
  <2> SUFFICES ASSUME ~desync, NEW d \in Callers, result[d].err = "NOERROR"
               PROVE  (/\ Complete(result[d])
                       /\ result[d].id <= calls
                       /\ TypeOfApi(result[d].api) = "MULTILINE" =>
                            /\ NotSent(result[d].id)
                            /\ \A e \in Callers : pc[e] \in Formatting \/ call[e].api = "handshake"
                                                    => call[e].id # result[d].id)'
    BY <1>1 DEF ResultInv
  <2>1. /\ Complete(result[d])
        /\ result[d].id <= calls
        /\ TypeOfApi(result[d].api) = "MULTILINE" =>
             /\ NotSent(result[d].id)
             /\ \A e \in Callers : pc[e] \in Formatting \/ call[e].api = "handshake"
                                     => call[e].id # result[d].id
    BY DEF HandInv, ResultInv
  <2>2. Complete(result[d])'
    BY <2>1, <1>1 DEF Complete
  <2>3. result'[d].id <= calls'
    BY <2>1, <1>1, <1>2, <1>3, <1>4
  <2>4. NotSent(result[d].id) => NotSent(result[d].id)'
    BY <1>1, <1>6 DEF NotSent
  <2>5. TypeOfApi(result[d].api) = "MULTILINE" =>
           \A e \in Callers : pc'[e] \in Formatting \/ call'[e].api = "handshake"
                                => call'[e].id # result[d].id
    <3>1. call'[c].id # result[d].id
      BY <2>1, <1>2, <1>3, <1>4
    <3>2. \A e \in Callers \ {c} : pc'[e] = pc[e] /\ call'[e] = call[e]
      BY <1>3 DEF Threads
    <3> QED BY <3>1, <3>2, <2>1
  <2> QED BY <2>1, <2>2, <2>3, <2>4, <2>5, <1>1
<1>11. Held' = Held /\ pc'[Reader] = pc[Reader]
  BY <1>2, <1>3 DEF Held
<1>12. ReadFrame
  BY <1>1, <1>11 DEF ReadFrame, HandInv, ReadInv
<1>13. GatherFrame
  BY <1>1, <1>3, <1>11 DEF GatherFrame, InFlight, Threads, Waiting
<1> QED BY <1>7, <1>9, <1>10, <1>12, <1>13, GatherFrameKeeps, ReadFrameKeeps DEF HandInv

\* The text of the pending command, or another's that was formatted over it, is sent under the
\* command's identity, which no message or line bears yet.
LEMMA WriteKeepsHand ==
    ASSUME LockInv, FreshInv, HandInv, NEW c \in Callers, WriteCommand(c) PROVE HandInv'
<1> DEFINE msg == [kind |-> "cmd", cmd |-> TextOf(c), owner |-> call[c].id]
<1>1. UNCHANGED <<modem, desync, result, call, response, type, responsePrefix, line, smsFirst, buffer,
                  fromModem, serial, answered, calls, strbuf>>
  BY DEF WriteCommand, callerVars, chanVars, modemVars, readerVars, commandVars
<1>2. /\ pc \in [Threads -> CallerPcs \cup ReaderPcs] /\ c \in Threads /\ Reader # c /\ Reader \in Threads
      /\ call \in [Callers -> Commands]
  BY ThreadAssumption DEF LockInv, TypeOK, PcTypeOK, CallerTypeOK, Threads
<1>3. /\ pc[c] = "write" /\ \A t \in Threads : pc'[t] = IF t = c THEN "check" ELSE pc[t]
  BY <1>2 DEF WriteCommand, Goto
<1>4. \A d \in Callers : /\ pc[d] \notin Waiting
                         /\ pc'[d] \in Waiting \cup {"write"} => d = c
  BY <1>3 DEF LockInv, PendingDiscipline, PendingLabels, Waiting, Threads
<1>5. Queued' = Queued \cup {msg}
  <2>1. toModem \in Seq(Messages) /\ msg \in Messages /\ toModem' = Append(toModem, msg)
    BY DEF LockInv, TypeOK, CallerTypeOK, ChannelTypeOK, WireTypeOK, TextOf, Messages, Commands,
       WriteCommand
  <2>2. Range(toModem') = Range(toModem) \cup {msg}
    BY <2>1, QueueRange
  <2> QED BY <2>2 DEF Queued
<1>6. msg.cmd = TextOf(c) /\ msg.owner = call[c].id
  OBVIOUS
<1> HIDE DEF msg
<1>7. call[c].id >= 1 /\ call[c].id # 0 /\ call[c].id <= calls
  <2>1. call[c].id >= 1 /\ call[c].id <= calls
    BY <1>3 DEF HandInv, IdsInv, Commanding
  <2> QED BY <2>1
<1>8. \A d \in Callers \ {c} : call[d].id # call[c].id
  BY <1>7 DEF HandInv, IdsInv
<1>9. ReadFrame
  BY <1>1, <1>2, <1>3 DEF ReadFrame, Held, HandInv, ReadInv
<1>10. IdsInv'
  <2>1. \A m \in Queued' : m.owner <= calls
    BY <1>5, <1>6, <1>7 DEF HandInv, IdsInv
  <2>2. msg.cmd.id = msg.owner => msg.cmd = call[c]
    BY <1>6 DEF TextOf, HandInv, IdsInv
  <2>3. ASSUME NEW d \in Callers
        PROVE  \A m \in Queued' : m.cmd.id = m.owner /\ m.owner = call[d].id => m.cmd = call[d]
    BY <2>2, <1>5, <1>6, <1>8 DEF HandInv, IdsInv
  <2>4. \A d \in Callers : pc'[d] \in Commanding => pc[d] \in Commanding
    BY <1>3 DEF Commanding, Threads
  <2> QED BY <2>1, <2>3, <2>4, <1>1 DEF HandInv, IdsInv
<1>11. ASSUME NEW id, id # call[c].id, NotSent(id) PROVE NotSent(id)'
  BY <1>1, <1>5, <1>6, <1>11 DEF NotSent
<1>12. SentInv'
  <2>1. \A d \in Callers : pc'[d] \in Formatting => pc[d] \in Formatting /\ d # c
    BY <1>3 DEF Formatting, Threads
  <2> QED BY <2>1, <1>1, <1>8, <1>11 DEF HandInv, SentInv
<1>13. GatheredInv'
  <2>1. PendingInv'
    BY <1>1, <1>3, <1>4 DEF HandInv, GatheredInv, PendingInv
  <2>2. Held' = Held
    BY <1>2, <1>3 DEF Held
  <2>3. InfosInv'
    BY <2>2, <1>1 DEF HandInv, GatheredInv, InfosInv, InFlight
  <2>4. response.infos = << >> /\ DOMAIN << >> = {}
    BY <1>3 DEF FreshInv, NewResponse
  <2>5. TypeOfApi(call[c].api) = "MULTILINE" => answered[call[c].id] = {}
    BY <1>3 DEF HandInv, SentInv, Formatting, TypeOfApi
  <2>6. GatherInv'
    BY <2>4, <2>5, <1>1, <1>4 DEF GatherInv
  <2> QED BY <2>1, <2>3, <2>6 DEF GatheredInv
<1>14. ResultInv'
  <2> SUFFICES ASSUME ~desync, NEW d \in Callers, result[d].err = "NOERROR"
               PROVE  (/\ Complete(result[d])
                       /\ result[d].id <= calls
                       /\ TypeOfApi(result[d].api) = "MULTILINE" =>
                            /\ NotSent(result[d].id)
                            /\ \A e \in Callers : pc[e] \in Formatting \/ call[e].api = "handshake"
                                                    => call[e].id # result[d].id)'
    BY <1>1 DEF ResultInv
  <2>1. /\ Complete(result[d])
        /\ result[d].id <= calls
        /\ TypeOfApi(result[d].api) = "MULTILINE" =>
             /\ NotSent(result[d].id)
             /\ \A e \in Callers : pc[e] \in Formatting \/ call[e].api = "handshake"
                                     => call[e].id # result[d].id
    BY DEF HandInv, ResultInv
  <2>2. Complete(result[d])'
    BY <2>1, <1>1 DEF Complete
  <2>3. \A e \in Callers : pc'[e] \in Formatting => pc[e] \in Formatting
    BY <1>3 DEF Formatting, Threads
  <2>4. ASSUME TypeOfApi(result[d].api) = "MULTILINE" PROVE NotSent(result[d].id)'
    <3>1. call[c].id # result[d].id
      BY <2>1, <2>4, <1>3 DEF Formatting
    <3>2. NotSent(result[d].id)
      BY <2>1, <2>4
    <3>3. /\ \A m \in Queued' : m.owner # result[d].id
          /\ modem.phase # "idle" => modem.owner # result[d].id
      BY <3>1, <3>2, <1>5, <1>6 DEF NotSent
    <3> QED BY <3>3, <1>1 DEF NotSent
  <2> QED BY <2>1, <2>2, <2>3, <2>4, <1>1
<1> QED BY <1>9, <1>10, <1>12, <1>13, <1>14, ReadFrameKeeps DEF HandInv

\* A command returns; what it returns as a success is the condition of the next lemma.
LEMMA FinishKeepsHand ==
    ASSUME LockInv, HandInv, NEW c \in Callers, NEW err, NEW final, NEW infos,
           Finish(c, err, final, infos), UNCHANGED toModem,
           pc[c] \in PendingLabels, requestmutex = c,
           ~desync' /\ result'[c].err = "NOERROR" =>
              /\ Complete(result[c])'
              /\ TypeOfApi(call[c].api) = "MULTILINE" => NotSent(call[c].id)
    PROVE  HandInv'
<1>1. UNCHANGED <<modem, call, calls, line, buffer, smsFirst, fromModem, serial, toModem, answered, strbuf>>
  BY DEF Finish, chanVars, modemVars, readerVars
<1>2. /\ pc \in [Threads -> CallerPcs \cup ReaderPcs] /\ c \in Threads /\ Reader # c
      /\ Reader \in Threads /\ result \in [Callers -> Results] /\ pc[Reader] \in ReaderPcs
  BY ThreadAssumption DEF LockInv, TypeOK, PcTypeOK, CallerTypeOK, Threads
<1>3. /\ NextLabel(c, err) \in {"hsSleep", "claim", "idle", "escape"}
      /\ NextLabel(c, err) = "claim" => call[c].api = "handshake"
  BY DEF NextLabel
<1>4. /\ pc'[c] = NextLabel(c, err)
      /\ \A t \in Threads \ {c} : pc'[t] = IF pc[t] = "waitReq" THEN "wokenReq" ELSE pc[t]
  BY <1>2, <1>3 DEF Finish, BroadcastRequest
<1>5. \A d \in Callers : /\ pc'[d] \notin Waiting \cup {"write"}
                         /\ pc'[d] \in Commanding => pc[d] \in Commanding
                         /\ pc'[d] \in Formatting =>
                               pc[d] \in Formatting \/ (d = c /\ call[c].api = "handshake")
  BY <1>3, <1>4 DEF LockInv, PendingDiscipline, PendingLabels, Waiting, Commanding, Formatting, Threads
<1>6. pc'[Reader] = pc[Reader]
  BY <1>2, <1>4 DEF ReaderPcs
<1>7. ReadFrame
  BY <1>1, <1>6 DEF ReadFrame, Held, HandInv, ReadInv
<1>8. Queued' = Queued /\ \A id : NotSent(id)' = NotSent(id)
  BY <1>1 DEF Queued, NotSent
<1>9. IdsInv'
  BY <1>1, <1>5, <1>8 DEF HandInv, IdsInv
<1>10. SentInv'
  BY <1>1, <1>5, <1>8 DEF HandInv, SentInv
<1>11. GatheredInv'
  <2>1. response' = NoResponse
    BY DEF Finish
  <2> QED BY <2>1, <1>5 DEF GatheredInv, PendingInv, InfosInv, GatherInv
<1>12. ResultInv'
  <2> SUFFICES ASSUME ~desync', NEW d \in Callers, result'[d].err = "NOERROR"
               PROVE  (/\ Complete(result[d])
                       /\ result[d].id <= calls
                       /\ TypeOfApi(result[d].api) = "MULTILINE" =>
                            /\ NotSent(result[d].id)
                            /\ \A e \in Callers : pc[e] \in Formatting \/ call[e].api = "handshake"
                                                    => call[e].id # result[d].id)'
    BY DEF ResultInv
  <2>1. ~desync
    BY DEF Finish
  <2>2. CASE d = c
    <3>1. result'[c].id = call[c].id /\ result'[c].api = call[c].api
      BY <1>2 DEF Finish
    <3>2. call[c].id <= calls /\ call[c].id >= 1
      BY DEF HandInv, IdsInv, Commanding, PendingLabels, Waiting
    <3>3. \A e \in Callers \ {c} : call[e].id # call[c].id
      <4>1. call[c].id # 0
        BY <3>2
      <4> QED BY <4>1 DEF HandInv, IdsInv
    <3>4. ASSUME TypeOfApi(call[c].api) = "MULTILINE"
          PROVE  pc'[c] \notin Formatting /\ call[c].api # "handshake"
      <4>1. call[c].api # "handshake"
        BY <3>4 DEF TypeOfApi
      <4> QED BY <4>1, <1>3, <1>4 DEF Formatting
    <3> QED BY <2>2, <3>1, <3>2, <3>3, <3>4, <1>1, <1>8
  <2>3. CASE d # c
    <3>1. result'[d] = result[d]
      BY <2>3, <1>2 DEF Finish
    <3>2. /\ Complete(result[d])
          /\ result[d].id <= calls
          /\ TypeOfApi(result[d].api) = "MULTILINE" =>
               /\ NotSent(result[d].id)
               /\ \A e \in Callers : pc[e] \in Formatting \/ call[e].api = "handshake"
                                       => call[e].id # result[d].id
      BY <2>1, <3>1 DEF HandInv, ResultInv
    <3>3. Complete(result[d])'
      BY <3>1, <3>2, <1>1 DEF Complete
    <3>4. NotSent(result[d].id) => NotSent(result[d].id)'
      BY <3>1, <1>1, <1>8 DEF NotSent
    <3> QED BY <3>1, <3>2, <3>3, <3>4, <1>1, <1>5
  <2> QED BY <2>2, <2>3
<1> QED BY <1>7, <1>9, <1>10, <1>11, <1>12, ReadFrameKeeps DEF HandInv

\* Reverse turns the order of storage into the order of arrival.
LEMMA ReversedInfos ==
    ASSUME NEW S, NEW s \in Seq(S)
    PROVE  /\ Len(ArrivalOrder(s)) = Len(s) /\ DOMAIN ArrivalOrder(s) = DOMAIN s
           /\ \A i \in DOMAIN s : /\ Len(s) - i + 1 \in DOMAIN s
                                  /\ ArrivalOrder(s)[i] = s[Len(s) - i + 1]
<1>1. /\ DOMAIN s = 1 .. Len(s) /\ Len(s) \in Nat
      /\ ArrivalOrder(s) = [i \in 1 .. Len(s) |-> s[(Len(s) - i) + 1]]
  BY DEF ArrivalOrder, Reverse
<1>2. \A i \in 1 .. Len(s) : Len(s) - i + 1 \in 1 .. Len(s)
  BY <1>1
<1>3. ArrivalOrder(s) \in Seq(S) /\ Len(ArrivalOrder(s)) = Len(s)
  <2>1. \A i \in 1 .. Len(s) : s[(Len(s) - i) + 1] \in S
    BY <1>1, <1>2
  <2>2. ArrivalOrder(s) \in [1 .. Len(s) -> S]
    BY <1>1, <2>1
  <2> QED BY <2>2, <1>1
<1> QED BY <1>1, <1>2, <1>3

\* A command that was answered hands out all that was gathered, and nothing of it is left under way.
LEMMA EndKeepsHand ==
    ASSUME LockInv, SyncInv, HandInv, NEW c \in Callers,
           (response # NoResponse /\ ClaimRefused(c)) \/ WriteFails(c) \/ TakeResponse(c) \/ GiveUp(c)
    PROVE  HandInv'
<1>1. CASE response # NoResponse /\ ClaimRefused(c)
  BY <1>1 DEF ClaimRefused, LockInv, PendingDiscipline, TrylockSucceeds
<1>2. ASSUME NEW err, err # "NOERROR", NEW final, Finish(c, err, final, << >>)
      PROVE  result'[c].err # "NOERROR"
  BY <1>2 DEF Finish, WrapperError, LockInv, TypeOK, CallerTypeOK
<1>3. CASE WriteFails(c)
  <2> DEFINE err == IF ~fdOpen \/ readerClosed THEN "CHANNEL_CLOSED" ELSE "GENERIC"
  <2>1. /\ pc[c] \in PendingLabels /\ requestmutex = c /\ UNCHANGED toModem
        /\ Finish(c, err, NoLine, << >>) /\ err # "NOERROR"
    BY <1>3 DEF WriteFails, LockInv, PendingDiscipline, PendingLabels
  <2> HIDE DEF err
  <2> QED BY <2>1, <1>2, FinishKeepsHand
<1>4. CASE GiveUp(c)
  <2>1. /\ pc[c] \in PendingLabels /\ requestmutex = c /\ UNCHANGED toModem
        /\ Finish(c, "TIMEOUT", NoLine, << >>) /\ "TIMEOUT" # "NOERROR"
    BY <1>4 DEF GiveUp, LockInv, PendingDiscipline, PendingLabels
  <2> QED BY <2>1, <1>2, FinishKeepsHand
<1>5. CASE TakeResponse(c)
  <2> DEFINE err == IF readerClosed THEN "CHANNEL_CLOSED" ELSE ErrorOf(response)
             infos == ArrivalOrder(response.infos)
  <2>1. /\ pc[c] = "check" /\ pc[c] \in PendingLabels /\ requestmutex = c /\ UNCHANGED toModem
        /\ response.final # NoLine \/ readerClosed
        /\ Finish(c, err, response.final, infos)
    BY <1>5 DEF TakeResponse, LockInv, PendingDiscipline, PendingLabels
  <2>2. err = "NOERROR" => ~readerClosed
    OBVIOUS
  <2>3. /\ response # NoResponse /\ response \in Responses /\ call[c].api \in AllApis
        /\ result \in [Callers -> Results]
    BY <2>1, ThreadAssumption
       DEF LockInv, TypeOK, PendingTypeOK, CallerTypeOK, PendingDiscipline, Commands
  <2> DEFINE r == [id |-> call[c].id, api |-> call[c].api,
                   err |-> WrapperError(call[c].api, err, infos), final |-> response.final,
                   infos |-> WrapperInfos(call[c].api, WrapperError(call[c].api, err, infos), infos)]
  <2>4. /\ result'[c] = r /\ answered' = answered
        /\ desync' = (desync \/ err = "TIMEOUT" \/ response.final.kind = "nocarrier")
    BY <2>1, <2>3 DEF Finish, modemVars
  <2> HIDE DEF err
  <2>5. ASSUME ~desync', r.err = "NOERROR"
        PROVE  /\ Complete(result[c])'
               /\ TypeOfApi(call[c].api) = "MULTILINE" => NotSent(call[c].id)
    <3>1. err = "NOERROR" /\ ~desync /\ response.final.kind # "nocarrier"
      BY <2>4, <2>5 DEF WrapperError
    <3>2. Executes(call[c].id) /\ response.final # NoLine
      BY <2>1, <2>2, <3>1 DEF SyncInv, StepInv, InStep, Waiting
    <3>3. Idle
      BY <3>1, <3>2 DEF Executes
    <3>4. NotSent(call[c].id)
      BY <3>3 DEF Idle, NotSent
    <3>5. /\ \A i \in DOMAIN response.infos : response.infos[i].cmd \in {call[c].id, 0}
          /\ TypeOfApi(call[c].api) = "MULTILINE" =>
               \A n \in answered[call[c].id] : \E i \in DOMAIN response.infos : response.infos[i].serial = n
      BY <2>1, <3>1, <3>3 DEF HandInv, GatheredInv, GatherInv, Waiting, Idle
    <3>6. /\ \A i, j \in DOMAIN response.infos : i < j => response.infos[j].serial < response.infos[i].serial
          /\ TypeOfApi(call[c].api) # "MULTILINE" => Len(response.infos) <= 1
      BY <2>1, <2>3 DEF HandInv, GatheredInv, InfosInv, PendingInv, Waiting
    <3>7. response.infos \in Seq(Lines)
      BY <2>3 DEF Responses
    <3>8. /\ Len(infos) = Len(response.infos) /\ DOMAIN infos = DOMAIN response.infos
          /\ \A i \in DOMAIN response.infos :
                /\ Len(response.infos) - i + 1 \in DOMAIN response.infos
                /\ infos[i] = response.infos[Len(response.infos) - i + 1]
          /\ DOMAIN response.infos = 1 .. Len(response.infos) /\ Len(response.infos) \in Nat
      BY <3>7, ReversedInfos
    <3> HIDE DEF infos
    <3>9. \A i, j \in DOMAIN infos : i < j => infos[i].serial < infos[j].serial
      <4> TAKE i, j \in DOMAIN infos
      <4> HAVE i < j
      <4>1. /\ i \in DOMAIN response.infos /\ j \in DOMAIN response.infos
            /\ Len(response.infos) - j + 1 < Len(response.infos) - i + 1
        BY <3>8
      <4> QED BY <4>1, <3>6, <3>8
    <3>10. \A i \in DOMAIN infos : infos[i].cmd \in {call[c].id, 0}
      BY <3>5, <3>8
    <3>11. ASSUME TypeOfApi(call[c].api) = "MULTILINE", NEW n \in answered[call[c].id]
           PROVE  \E i \in DOMAIN infos : infos[i].serial = n
      <4>1. PICK j \in DOMAIN response.infos : response.infos[j].serial = n
        BY <3>5, <3>11
      <4>2. /\ Len(response.infos) - j + 1 \in DOMAIN infos
            /\ Len(response.infos) - (Len(response.infos) - j + 1) + 1 = j
        BY <3>8
      <4>3. infos[Len(response.infos) - j + 1] = response.infos[j]
        BY <4>2, <3>8
      <4> QED BY <4>1, <4>2, <4>3
    <3>12. NeedsIntermediate(call[c].api) => infos # << >>
      BY <2>5, <3>1 DEF WrapperError
    <3>13. CASE call[c].api \in {"command", "handshake"}
      <4>1. r.infos = << >>
        BY <3>13 DEF WrapperInfos
      <4>2. Len(<< >>) = 0 /\ DOMAIN << >> = {}
        OBVIOUS
      <4>3. TypeOfApi(call[c].api) # "MULTILINE" /\ ~NeedsIntermediate(call[c].api)
        BY <3>13 DEF TypeOfApi, NeedsIntermediate
      <4>4. r.infos = << >> /\ r.api = call[c].api
        BY <4>1
      <4> HIDE DEF r
      <4> QED BY <4>2, <4>3, <4>4, <3>4, <2>4 DEF Complete
    <3>14. CASE call[c].api \notin {"command", "handshake"}
      <4>1. r.infos = infos /\ r.api = call[c].api /\ r.id = call[c].id
        BY <3>14, <2>5 DEF WrapperInfos
      <4> HIDE DEF r
      <4>2. TypeOfApi(r.api) # "MULTILINE" => Len(r.infos) <= 1
        BY <4>1, <3>6, <3>8
      <4> QED BY <4>1, <4>2, <3>4, <3>9, <3>10, <3>11, <3>12, <2>4 DEF Complete
    <3> QED BY <3>13, <3>14
  <2>6. ~desync' /\ result'[c].err = "NOERROR" =>
           /\ Complete(result[c])'
           /\ TypeOfApi(call[c].api) = "MULTILINE" => NotSent(call[c].id)
    BY <2>4, <2>5
  <2> HIDE DEF infos, r
  <2> QED BY <2>1, <2>6, FinishKeepsHand
<1> QED BY <1>1, <1>3, <1>4, <1>5

\* A queue is its head and its tail, or any two parts it is cut into.
LEMMA QueueParts ==
    ASSUME NEW S, NEW s \in Seq(S)
    PROVE  /\ s # << >> => Range(s) = {Head(s)} \cup Range(Tail(s))
           /\ \A n \in 1 .. Len(s) :
                 Range(s) = Range(SubSeq(s, 1, n)) \cup Range(SubSeq(s, n + 1, Len(s)))
<1>1. ASSUME s # << >> PROVE Range(s) = {Head(s)} \cup Range(Tail(s))
  <2>1. /\ DOMAIN Tail(s) = 1 .. Len(s) - 1 /\ DOMAIN s = 1 .. Len(s) /\ Head(s) = s[1]
        /\ \A i \in 1 .. Len(s) - 1 : Tail(s)[i] = s[i + 1]
        /\ Len(s) \in Nat /\ Len(s) >= 1
    BY <1>1
  <2>2. \A i \in 1 .. Len(s) : i = 1 \/ (i - 1 \in 1 .. Len(s) - 1 /\ i = (i - 1) + 1)
    BY <2>1
  <2>3. ASSUME NEW i \in 1 .. Len(s) PROVE s[i] \in {Head(s)} \cup Range(Tail(s))
    <3>1. CASE i = 1
      BY <3>1, <2>1
    <3>2. CASE i # 1
      <4>1. i - 1 \in DOMAIN Tail(s) /\ Tail(s)[i - 1] = s[i]
        BY <3>2, <2>1, <2>2
      <4> QED BY <4>1 DEF Range
    <3> QED BY <3>1, <3>2
  <2>4. Range(s) \subseteq {Head(s)} \cup Range(Tail(s))
    BY <2>1, <2>3 DEF Range
  <2>5. {Head(s)} \cup Range(Tail(s)) \subseteq Range(s)
    BY <1>1, QueueRange
  <2> QED BY <2>4, <2>5
<1>2. ASSUME NEW n \in 1 .. Len(s)
      PROVE  Range(s) = Range(SubSeq(s, 1, n)) \cup Range(SubSeq(s, n + 1, Len(s)))
  <2>1. /\ DOMAIN SubSeq(s, 1, n) = 1 .. n /\ \A i \in 1 .. n : SubSeq(s, 1, n)[i] = s[i]
        /\ DOMAIN SubSeq(s, n + 1, Len(s)) = 1 .. Len(s) - n
        /\ \A i \in 1 .. Len(s) - n : SubSeq(s, n + 1, Len(s))[i] = s[n + i]
        /\ DOMAIN s = 1 .. Len(s) /\ Len(s) \in Nat
    OBVIOUS
  <2>2. ASSUME NEW i \in 1 .. Len(s)
        PROVE  s[i] \in Range(SubSeq(s, 1, n)) \cup Range(SubSeq(s, n + 1, Len(s)))
    <3>1. CASE i <= n
      <4>1. i \in DOMAIN SubSeq(s, 1, n) /\ SubSeq(s, 1, n)[i] = s[i]
        BY <3>1, <2>1
      <4> QED BY <4>1 DEF Range
    <3>2. CASE i > n
      <4>1. i - n \in 1 .. Len(s) - n /\ n + (i - n) = i
        BY <3>2, <2>1
      <4>2. SubSeq(s, n + 1, Len(s))[i - n] = s[i]
        BY <4>1, <2>1
      <4> QED BY <4>1, <4>2, <2>1 DEF Range
    <3> QED BY <3>1, <3>2, <2>1
  <2>3. Range(s) \subseteq Range(SubSeq(s, 1, n)) \cup Range(SubSeq(s, n + 1, Len(s)))
    BY <2>1, <2>2 DEF Range
  <2> QED BY <2>3, QueueRange
<1> QED BY <1>1, <1>2

\* readline and read() lose no line that belongs to a command: the line taken as the second of
\* an SMS is the one the modem sent with the first.
LEMMA ReadKeepsHand ==
    ASSUME LockInv, SyncInv, HandInv, TakeBufferedLine \/ PollData PROVE HandInv'
<1>1. UNCHANGED <<modem, desync, result, call, response, type, responsePrefix, serial, toModem,
                  answered, calls, strbuf>>
  BY DEF TakeBufferedLine, PollData, ReaderUnchanged, callerVars, modemVars, commandVars
<1>2. /\ pc \in [Threads -> CallerPcs \cup ReaderPcs] /\ Reader \in Threads /\ Reader \notin Callers
      /\ buffer \in Seq(Lines) /\ fromModem \in Seq(Lines)
  BY ThreadAssumption DEF LockInv, TypeOK, PcTypeOK, ReaderTypeOK, Threads
<1>3. \A d \in Callers : pc'[d] = pc[d]
  BY <1>2 DEF TakeBufferedLine, PollData, Goto, Threads
<1>4. IdFrame
  BY <1>1, <1>3 DEF IdFrame, Queued
<1>5. /\ InFlight' \subseteq InFlight
      /\ \A l \in InFlight : l.kind = "info" => l \in InFlight'
      /\ ReadInv'
  <2>1. CASE TakeBufferedLine
    <3> DEFINE head == Head(buffer)
               rest == Range(Tail(buffer)) \cup Range(fromModem)
    <3>1. ~Held /\ buffer # << >> /\ buffer' = Tail(buffer) /\ fromModem' = fromModem
      BY <2>1 DEF TakeBufferedLine, Held
    <3>2. InFlight = {head} \cup rest
      BY <3>1, <1>2, QueueParts DEF InFlight
    <3>3. head.serial \in Nat /\ \A l \in rest : l.serial \in Nat /\ head.serial < l.serial
      <4>1. \A l \in Range(Tail(buffer)) : head.serial < l.serial
        BY <3>1, <1>2, SortedParts DEF SyncInv, StreamInv
      <4>2. \A l \in Range(fromModem) : head.serial < l.serial
        BY <3>1, <1>2, QueueRange DEF SyncInv, StreamInv
      <4> QED BY <4>1, <4>2, <3>2, InFlightLines
    <3> HIDE DEF head, rest
    <3>4. CASE smsFirst
      <4>1. smsFirst' = FALSE /\ ~Held' /\ pc'[Reader] # "poll"
        BY <2>1, <3>1, <3>4 DEF TakeBufferedLine, Held
      <4>2. InFlight' = rest
        BY <4>1, <3>1 DEF InFlight, rest
      <4>3. head.kind = "smspdu"
        <5>1. PICK p \in InFlight : p.kind = "smspdu" /\ \A l \in InFlight : p.serial <= l.serial
          BY <3>4 DEF HandInv, ReadInv
        <5>2. p.serial <= head.serial
          BY <5>1, <3>2
        <5>3. p \notin rest
          BY <5>2, <3>3
        <5> QED BY <5>1, <5>3, <3>2
      <4>4. ASSUME NEW l \in rest, l.kind = "smsurc"
            PROVE  \E p \in rest : p.kind = "smspdu" /\ p.serial = l.serial + 1
        <5>1. PICK p \in InFlight : p.kind = "smspdu" /\ p.serial = l.serial + 1
          BY <4>4, <3>2 DEF HandInv, ReadInv
        <5>2. p # head
          BY <5>1, <3>3
        <5> QED BY <5>1, <5>2, <3>2
      <4> QED BY <4>1, <4>2, <4>3, <4>4, <3>2 DEF HandInv, ReadInv
    <3>5. CASE ~smsFirst /\ head.kind = "smsurc"
      <4>1. smsFirst' = TRUE /\ ~Held' /\ pc'[Reader] # "poll"
        BY <2>1, <3>1, <3>5 DEF TakeBufferedLine, Held, head
      <4>2. InFlight' = rest
        BY <4>1, <3>1 DEF InFlight, rest
      <4>3. PICK p \in InFlight : p.kind = "smspdu" /\ p.serial = head.serial + 1
        BY <3>2, <3>5 DEF HandInv, ReadInv
      <4>4. p \in rest /\ \A l \in rest : p.serial <= l.serial
        BY <4>3, <3>2, <3>3
      <4>5. ASSUME NEW l \in rest, l.kind = "smsurc"
            PROVE  \E q \in rest : q.kind = "smspdu" /\ q.serial = l.serial + 1
        <5>1. PICK q \in InFlight : q.kind = "smspdu" /\ q.serial = l.serial + 1
          BY <4>5, <3>2 DEF HandInv, ReadInv
        <5>2. q # head
          BY <5>1, <3>3
        <5> QED BY <5>1, <5>2, <3>2
      <4> QED BY <4>1, <4>2, <4>3, <4>4, <4>5, <3>2, <3>5 DEF HandInv, ReadInv
    <3>6. CASE ~smsFirst /\ head.kind # "smsurc"
      <4>1. smsFirst' = FALSE /\ line' = head /\ pc'[Reader] = "process" /\ Held'
        BY <2>1, <3>6, <1>2 DEF TakeBufferedLine, Goto, head, Held
      <4>2. InFlight' = InFlight
        BY <4>1, <3>1, <3>2 DEF InFlight, rest
      <4> QED BY <4>1, <4>2, <3>6 DEF HandInv, ReadInv
    <3> QED BY <3>4, <3>5, <3>6
  <2>2. CASE PollData /\ fdOpen
    <3>1. PICK n \in 1 .. Len(fromModem) :
             /\ buffer' = SubSeq(fromModem, 1, n)
             /\ fromModem' = SubSeq(fromModem, n + 1, Len(fromModem))
      BY <2>2 DEF PollData
    <3>2. ~Held /\ ~Held' /\ buffer = << >> /\ pc'[Reader] # "poll" /\ smsFirst' = smsFirst
      BY <2>2, <1>2 DEF PollData, Held, Goto, HandInv, ReadInv
    <3>3. Range(fromModem) = Range(buffer') \cup Range(fromModem')
      BY <3>1, <1>2, QueueParts
    <3>4. Range(<< >>) = {}
      BY DEF Range
    <3>5. InFlight' = InFlight
      BY <3>2, <3>3, <3>4 DEF InFlight
    <3> QED BY <3>2, <3>5 DEF HandInv, ReadInv
  <2>3. CASE PollData /\ ~fdOpen
    <3>1. UNCHANGED <<buffer, fromModem, line, smsFirst>> /\ ~Held' /\ ~Held /\ pc'[Reader] # "poll"
      BY <2>3, <1>2 DEF PollData, Held, Goto
    <3>2. InFlight' = InFlight
      BY <3>1 DEF InFlight
    <3> QED BY <3>1, <3>2 DEF HandInv, ReadInv
  <2> QED BY <2>1, <2>2, <2>3
<1>6. GatherFrame
  BY <1>1, <1>3, <1>5 DEF GatherFrame
<1> QED BY <1>4, <1>5, <1>6, IdFrameKeeps, GatherFrameKeeps DEF HandInv

\* A line in front of others.
LEMMA LineInFront ==
    ASSUME NEW S, NEW s \in Seq(S), NEW l \in S
    PROVE  /\ DOMAIN (<<l>> \o s) = 1 .. Len(s) + 1 /\ Len(<<l>> \o s) = Len(s) + 1
           /\ DOMAIN s = 1 .. Len(s) /\ Len(s) \in Nat
           /\ (<<l>> \o s)[1] = l
           /\ \A i \in 1 .. Len(s) : (<<l>> \o s)[i + 1] = s[i]
           /\ \A i \in 2 .. Len(s) + 1 : i - 1 \in 1 .. Len(s) /\ (<<l>> \o s)[i] = s[i - 1]
  OBVIOUS

\* processLine stores the line in front of the earlier ones, if it is one the command gathers.
LEMMA ProcessLineKeepsHand ==
    ASSUME LockInv, SyncInv, HandInv, ProcessLine PROVE HandInv'
<1> DEFINE final  == response # NoResponse /\ line.kind \in {"ok", "error", "nocarrier"}
           prompt == response # NoResponse /\ line.kind = "prompt" /\ smsPDU
           stored == response # NoResponse /\ ~final /\ ~prompt /\ IsIntermediate
<1>1. UNCHANGED <<modem, desync, result, call, type, responsePrefix, line, buffer, fromModem, smsFirst,
                  serial, answered, calls, strbuf>>
  BY DEF ProcessLine, ReaderUnchanged, callerVars, modemVars, readerVars
<1>2. /\ pc \in [Threads -> CallerPcs \cup ReaderPcs] /\ Reader \in Threads /\ Reader \notin Callers
      /\ toModem \in Seq(Messages) /\ line \in Lines
  BY ThreadAssumption DEF LockInv, TypeOK, PcTypeOK, WireTypeOK, ReaderTypeOK, Threads
<1>3. /\ \A d \in Callers : pc'[d] = pc[d] \/ (pc[d] = "waitResp" /\ pc'[d] = "wokenResp")
      /\ Held /\ ~Held' /\ pc'[Reader] = "read"
  BY <1>2 DEF ProcessLine, SignalCommand, Threads, Held
<1>4. \A d \in Callers : /\ pc'[d] \in Waiting <=> pc[d] \in Waiting
                         /\ pc'[d] \in Commanding => pc[d] \in Commanding
                         /\ pc'[d] \in Formatting => pc[d] \in Formatting
                         /\ pc'[d] = "write" => pc[d] = "write"
  BY <1>3 DEF Waiting, Commanding, Formatting
<1>5. Queued' = Queued
  <2> DEFINE pdu == [kind |-> "pdu", cmd |-> Foreign, owner |-> 0]
  <2>1. CASE toModem' = toModem
    BY <2>1 DEF Queued
  <2>2. CASE toModem' = Append(toModem, pdu)
    <3>1. pdu \in Messages
      BY ConstantTypes, BoundAssumption DEF Messages
    <3>2. Range(toModem') = Range(toModem) \cup {pdu}
      BY <2>2, <3>1, <1>2, QueueRange
    <3>3. pdu.kind = "pdu"
      OBVIOUS
    <3> HIDE DEF pdu
    <3> QED BY <3>2, <3>3 DEF Queued
  <2> QED BY <2>1, <2>2 DEF ProcessLine
<1>6. IdFrame
  BY <1>1, <1>4, <1>5 DEF IdFrame
<1>7. InFlight' = Range(buffer) \cup Range(fromModem) /\ InFlight = {line} \cup InFlight'
  BY <1>1, <1>3 DEF InFlight
<1>8. /\ \A l \in InFlight' : line.serial < l.serial /\ l.serial \in Nat
      /\ line.serial \in Nat /\ line.serial <= serial
  BY <1>3, <1>7, InFlightLines DEF SyncInv, StreamInv
<1>9. ReadInv'
  <2>1. ~smsFirst
    BY <1>3 DEF HandInv, ReadInv
  <2>2. ASSUME NEW l \in InFlight', l.kind = "smsurc"
        PROVE  \E p \in InFlight' : p.kind = "smspdu" /\ p.serial = l.serial + 1
    <3>1. PICK p \in InFlight : p.kind = "smspdu" /\ p.serial = l.serial + 1
      BY <2>2, <1>7 DEF HandInv, ReadInv
    <3>2. p # line
      BY <3>1, <1>8
    <3> QED BY <3>1, <3>2, <1>7
  <2> QED BY <2>1, <2>2, <1>1, <1>3, <1>7 DEF HandInv, ReadInv
<1>10. PendingInv'
  BY <1>1, <1>4 DEF HandInv, GatheredInv, PendingInv
<1>11. response # NoResponse => response \in Responses /\ response.infos \in Seq(Lines)
  BY DEF LockInv, TypeOK, PendingTypeOK, Responses
<1>12. \/ ~stored /\ response'.infos = response.infos /\ (response' # NoResponse => response # NoResponse)
       \/ stored /\ response'.infos = <<line>> \o response.infos
  <2>1. CASE final
    <3>1. [response EXCEPT !.success = (line.kind = "ok"), !.final = line].infos = response.infos
      BY <2>1, <1>11 DEF Responses
    <3> QED BY <2>1, <3>1 DEF ProcessLine
  <2>2. CASE stored
    <3>1. [response EXCEPT !.infos = <<line>> \o @].infos = <<line>> \o response.infos
      BY <2>2, <1>11 DEF Responses
    <3>2. response' = [response EXCEPT !.infos = <<line>> \o @]
      BY <2>2 DEF ProcessLine
    <3> QED BY <2>2, <3>1, <3>2
  <2>3. CASE ~final /\ ~stored
    <3>1. response' = response
      BY <2>3 DEF ProcessLine
    <3> QED BY <2>3, <3>1
  <2> QED BY <2>1, <2>2, <2>3
<1>13. stored => /\ IsIntermediate
                 /\ DOMAIN response'.infos = 1 .. Len(response.infos) + 1
                 /\ Len(response'.infos) = Len(response.infos) + 1
                 /\ DOMAIN response.infos = 1 .. Len(response.infos) /\ Len(response.infos) \in Nat
                 /\ response'.infos[1] = line
                 /\ \A i \in 1 .. Len(response.infos) : response'.infos[i + 1] = response.infos[i]
                 /\ \A i \in 2 .. Len(response.infos) + 1 :
                       i - 1 \in 1 .. Len(response.infos) /\ response'.infos[i] = response.infos[i - 1]
  BY <1>2, <1>11, <1>12, LineInFront
<1>14. stored => response # NoResponse
  OBVIOUS
<1>15. TypeOK
  BY DEF LockInv
<1>16. InfosInv'
  <2>1. CASE ~stored
    BY <2>1, <1>1, <1>7, <1>12 DEF HandInv, GatheredInv, InfosInv
  <2>2. CASE stored
    <3>1. /\ \A i, j \in DOMAIN response.infos :
                i < j => response.infos[j].serial < response.infos[i].serial
          /\ \A i \in DOMAIN response.infos :
                /\ response.infos[i].serial <= serial
                /\ \A l \in InFlight : response.infos[i].serial < l.serial
      BY <2>2, <1>14 DEF HandInv, GatheredInv, InfosInv
    <3> HIDE DEF stored
    <3>2. \A i \in DOMAIN response.infos : response.infos[i].serial < line.serial
      BY <3>1, <1>7
    <3>3. ASSUME NEW i \in DOMAIN response'.infos, NEW j \in DOMAIN response'.infos, i < j
          PROVE  response'.infos[j].serial < response'.infos[i].serial
      <4>1. j \in 2 .. Len(response.infos) + 1 /\ j - 1 \in DOMAIN response.infos
        BY <2>2, <3>3, <1>13
      <4>2. CASE i = 1
        BY <2>2, <4>1, <4>2, <3>2, <1>13
      <4>3. CASE i # 1
        <5>1. i \in 2 .. Len(response.infos) + 1 /\ i - 1 \in DOMAIN response.infos /\ i - 1 < j - 1
          BY <2>2, <4>1, <4>3, <3>3, <1>13
        <5> QED BY <2>2, <4>1, <5>1, <3>1, <1>13
      <4> QED BY <4>2, <4>3
    <3>4. ASSUME NEW i \in DOMAIN response'.infos
          PROVE  /\ response'.infos[i].serial <= serial
                 /\ \A l \in InFlight' : response'.infos[i].serial < l.serial
      <4>1. CASE i = 1
        BY <2>2, <4>1, <1>8, <1>13
      <4>2. CASE i # 1
        <5>1. i \in 2 .. Len(response.infos) + 1 /\ i - 1 \in DOMAIN response.infos
          BY <2>2, <4>2, <3>4, <1>13
        <5> QED BY <2>2, <5>1, <3>1, <1>7, <1>13
      <4> QED BY <4>1, <4>2
    <3>5. type # "MULTILINE" => Len(response'.infos) <= 1
      <4>1. type # "MULTILINE" => response.infos = << >>
        BY <2>2, <1>13 DEF IsIntermediate
      <4>2. Len(<< >>) = 0
        OBVIOUS
      <4> QED BY <2>2, <4>1, <4>2, <1>13
    <3> QED BY <3>3, <3>4, <3>5, <1>1 DEF InfosInv
  <2> QED BY <2>1, <2>2
<1>17. GatherInv'
  <2> SUFFICES ASSUME ~desync, NEW c \in Callers, pc'[c] \in Waiting
               PROVE  /\ \A i \in DOMAIN response'.infos : response'.infos[i].cmd \in {call[c].id, 0}
                      /\ TypeOfApi(call[c].api) = "MULTILINE" => \A n \in answered[call[c].id] :
                           \/ \E i \in DOMAIN response'.infos : response'.infos[i].serial = n
                           \/ \E l \in Owned' : /\ l.serial = n /\ l.kind = "info"
                                                /\ call[c].prefix \in {l.prefix, AnyPrefix}
    BY <1>1 DEF GatherInv
  <2>1. pc[c] \in Waiting
    BY <1>4
  <2>2. /\ \A i \in DOMAIN response.infos : response.infos[i].cmd \in {call[c].id, 0}
        /\ TypeOfApi(call[c].api) = "MULTILINE" => \A n \in answered[call[c].id] :
             \/ \E i \in DOMAIN response.infos : response.infos[i].serial = n
             \/ \E l \in Owned : l.serial = n /\ l.kind = "info" /\ call[c].prefix \in {l.prefix, AnyPrefix}
    BY <2>1 DEF HandInv, GatheredInv, GatherInv
  <2>3. response # NoResponse /\ type = TypeOfApi(call[c].api) /\ responsePrefix = call[c].prefix
    BY <2>1, ThreadAssumption
       DEF HandInv, GatheredInv, PendingInv, LockInv, PendingDiscipline, PendingLabels, Waiting
  <2>4. line.cmd \in {call[c].id, 0}
    <3>1. Executes(call[c].id)
      BY <2>1 DEF SyncInv, StepInv, InStep
    <3>2. line \in InFlight
      BY <1>7
    <3>3. CASE line.kind \in {"info", "ok", "error", "prompt"}
      BY <3>1, <3>2, <3>3 DEF Executes, Owned
    <3>4. CASE line.kind \notin {"info", "ok", "error", "prompt"}
      BY <3>2, <3>4 DEF HandInv, ReadInv
    <3> QED BY <3>3, <3>4
  <2>5. \A i \in DOMAIN response'.infos : response'.infos[i].cmd \in {call[c].id, 0}
    <3>1. CASE ~stored
      BY <3>1, <2>2, <1>12
    <3>2. CASE stored
      <4> HIDE DEF stored
      <4> TAKE i \in DOMAIN response'.infos
      <4>1. CASE i = 1
        BY <3>2, <4>1, <2>4, <1>13
      <4>2. CASE i # 1
        <5>1. i \in 2 .. Len(response.infos) + 1 /\ i - 1 \in DOMAIN response.infos
          BY <3>2, <4>2, <1>13
        <5> QED BY <3>2, <5>1, <2>2, <1>13
      <4> QED BY <4>1, <4>2
    <3> QED BY <3>1, <3>2
  <2>6. ASSUME TypeOfApi(call[c].api) = "MULTILINE", NEW n \in answered[call[c].id]
        PROVE  \/ \E i \in DOMAIN response'.infos : response'.infos[i].serial = n
               \/ \E l \in Owned' : /\ l.serial = n /\ l.kind = "info"
                                    /\ call[c].prefix \in {l.prefix, AnyPrefix}
    <3>1. CASE \E i \in DOMAIN response.infos : response.infos[i].serial = n
      <4>1. PICK i \in DOMAIN response.infos : response.infos[i].serial = n
        BY <3>1
      <4>2. CASE ~stored
        BY <4>1, <4>2, <1>12
      <4>3. CASE stored
        <5> HIDE DEF stored
        <5>1. i \in 1 .. Len(response.infos) /\ i + 1 \in DOMAIN response'.infos
          BY <4>1, <4>3, <1>13
        <5>2. response'.infos[i + 1].serial = n
          BY <4>1, <4>3, <5>1, <1>13
        <5> QED BY <5>1, <5>2
      <4> QED BY <4>2, <4>3
    <3>2. ASSUME NEW l \in Owned, l.serial = n, l.kind = "info", call[c].prefix \in {l.prefix, AnyPrefix}
          PROVE  \/ \E i \in DOMAIN response'.infos : response'.infos[i].serial = n
                 \/ \E k \in Owned' : /\ k.serial = n /\ k.kind = "info"
                                      /\ call[c].prefix \in {k.prefix, AnyPrefix}
      <4>1. CASE l = line
        <5>1. stored
          BY <4>1, <3>2, <2>3, <2>6 DEF IsIntermediate
        <5> HIDE DEF stored
        <5>2. 1 \in DOMAIN response'.infos /\ response'.infos[1].serial = n
          BY <5>1, <4>1, <3>2, <1>13
        <5> QED BY <5>2
      <4>2. CASE l # line
        <5>1. l \in Owned'
          BY <4>2, <1>7 DEF Owned
        <5> QED BY <5>1, <3>2
      <4> QED BY <4>1, <4>2
    <3> QED BY <3>1, <3>2, <2>2, <2>6
  <2> QED BY <2>5, <2>6
<1> QED BY <1>6, <1>9, <1>10, <1>16, <1>17, IdFrameKeeps DEF HandInv, GatheredInv

\* What the modem sends comes last, and an SMS report with its second line.
LEMMA SendKeepsRead ==
    ASSUME LockInv, StreamInv, ReadInv, InfosInv, NEW L, InFlight' = InFlight \cup L,
           \A l \in L : /\ l.serial \in Nat /\ serial < l.serial
                        /\ l.kind \notin {"info", "ok", "error", "prompt"} => l.cmd = 0
                        /\ l.kind = "smsurc" => \E p \in L : p.kind = "smspdu" /\ p.serial = l.serial + 1,
           serial' \in Nat, serial <= serial',
           UNCHANGED <<pc, line, smsFirst, buffer, response, type>>
    PROVE  ReadInv' /\ InfosInv'
<1>1. serial \in Nat /\ \A l \in InFlight : l.serial \in Nat /\ l.serial <= serial
  BY InFlightLines DEF LockInv, TypeOK, WireTypeOK, StreamInv
<1>2. Held' = Held
  BY DEF Held
<1>3. ASSUME NEW p \in InFlight, \A l \in InFlight : p.serial <= l.serial
      PROVE  \A l \in InFlight' : p.serial <= l.serial
  BY <1>1, <1>3
<1>4. ReadInv'
  <2>1. smsFirst' => /\ ~Held'
                     /\ \E p \in InFlight' : /\ p.kind = "smspdu"
                                             /\ \A l \in InFlight' : p.serial <= l.serial
    BY <1>2, <1>3 DEF ReadInv
  <2>2. /\ \A l \in InFlight' : l.kind = "smsurc" =>
              \E p \in InFlight' : p.kind = "smspdu" /\ p.serial = l.serial + 1
        /\ \A l \in InFlight' : l.kind \notin {"info", "ok", "error", "prompt"} => l.cmd = 0
    BY DEF ReadInv
  <2> QED BY <2>1, <2>2, <1>2 DEF ReadInv
<1>5. InfosInv'
  <2> SUFFICES ASSUME response # NoResponse PROVE InfosInv'
    BY DEF InfosInv
  <2>1. \A i \in DOMAIN response.infos : response.infos[i] \in Lines /\ response.infos[i].serial \in Nat
    <3>1. response.infos \in Seq(Lines)
      BY DEF LockInv, TypeOK, PendingTypeOK, Responses
    <3>2. \A i \in DOMAIN response.infos : response.infos[i] \in Lines
      BY <3>1
    <3> QED BY <3>2 DEF Lines
  <2>2. \A i \in DOMAIN response.infos :
           /\ response.infos[i].serial <= serial'
           /\ \A l \in InFlight' : response.infos[i].serial < l.serial
    BY <2>1, <1>1 DEF InfosInv
  <2> QED BY <2>2 DEF InfosInv
<1> QED BY <1>4, <1>5

\* The modem takes the command with the identity it was sent under.
LEMMA ModemTakesKeepsHand ==
    ASSUME LockInv, SyncInv, HandInv, ModemTakes PROVE HandInv'
<1> DEFINE msg == Head(toModem)
           prompt == Line("prompt", AnyPrefix, msg.owner, 1)
<1>1. UNCHANGED <<pc, scenario, desync, result, call, response, type, responsePrefix, line, buffer,
                  smsFirst, answered, calls, strbuf>>
  BY DEF ModemTakes, ModemUnchanged, callerVars, chanVars, readerVars, commandVars
<1>2. /\ toModem \in Seq(Messages) /\ toModem # << >> /\ toModem' = Tail(toModem)
      /\ msg \in Messages /\ msg \in Range(toModem) /\ Range(toModem') \subseteq Range(toModem)
      /\ modem \in ModemStates /\ serial \in Nat
  <2>1. /\ toModem \in Seq(Messages) /\ toModem # << >> /\ toModem' = Tail(toModem)
        /\ modem \in ModemStates /\ serial \in Nat
    BY DEF LockInv, TypeOK, WireTypeOK, ModemTakes
  <2> QED BY <2>1, QueueRange
<1>3. Queued' \subseteq Queued
  BY <1>2 DEF Queued
<1>4. StreamInv /\ ReadInv /\ InfosInv /\ PendingInv /\ GatherInv /\ IdsInv /\ SentInv /\ ResultInv
  BY DEF SyncInv, HandInv, GatheredInv
<1>5. CASE modem.phase = "pdu" \/ msg.kind # "cmd"
  <2>1. UNCHANGED <<fromModem, serial>>
    BY <1>5 DEF ModemTakes
  <2>2. modem'.phase # "idle" =>
           modem.phase # "idle" /\ modem'.owner = modem.owner /\ modem'.cmd = modem.cmd
    BY <1>2, <1>5 DEF ModemTakes, ModemStates
  <2>3. IdFrame
    BY <2>2, <1>1, <1>3 DEF IdFrame
  <2>4. GatherFrame /\ ReadFrame
    BY <2>1, <1>1, <1>4 DEF GatherFrame, ReadFrame, InFlight, Held, ReadInv
  <2> QED BY <2>3, <2>4, HandFrameKeeps DEF HandFrame
<1>6. CASE modem.phase # "pdu" /\ msg.kind = "cmd"
  <2>1. modem'.owner = msg.owner /\ modem'.cmd = msg.cmd /\ msg \in Queued
    BY <1>2, <1>6 DEF ModemTakes, Queued
  <2>2. \/ UNCHANGED <<fromModem, serial>>
        \/ Send(<<prompt>>)
    BY <1>6 DEF ModemTakes
  <2>3. prompt \in Lines /\ prompt.serial = serial + 1 /\ prompt.kind = "prompt"
    <3>1. msg.owner \in 0 .. MaxCalls
      BY <1>2 DEF Messages
    <3>2. prompt \in Lines
      BY <3>1, LineType DEF LockInv, TypeOK, CommandPrefixes
    <3> QED BY <3>2 DEF Line
  <2> HIDE DEF prompt
  <2>4. ReadInv' /\ InfosInv' /\ InFlight \subseteq InFlight'
    <3>1. CASE UNCHANGED <<fromModem, serial>>
      <4>1. InFlight' = InFlight /\ ReadFrame
        BY <3>1, <1>1, <1>4 DEF InFlight, Held, ReadFrame, ReadInv
      <4> QED BY <4>1, <3>1, <1>1, <1>4, ReadFrameKeeps DEF InfosInv
    <3>2. CASE Send(<<prompt>>)
      <4>1. InFlight' = InFlight \cup {prompt}
        BY <3>2, <2>3, <1>1, <1>4, SendLine
      <4>2. serial' = serial + 1
        BY <3>2 DEF Send
      <4>3. serial + 1 \in Nat /\ serial < serial + 1 /\ serial <= serial + 1
        BY <1>2
      <4> DEFINE L == {prompt}
      <4>4. InFlight' = InFlight \cup L
        BY <4>1
      <4>5. \A l \in L :
               /\ l.serial \in Nat /\ serial < l.serial
               /\ l.kind \notin {"info", "ok", "error", "prompt"} => l.cmd = 0
               /\ l.kind = "smsurc" => \E p \in L : p.kind = "smspdu" /\ p.serial = l.serial + 1
        BY <2>3, <4>3
      <4> HIDE DEF L
      <4>6. serial' \in Nat /\ serial <= serial'
        BY <4>2, <4>3
      <4>7. UNCHANGED <<pc, line, smsFirst, buffer, response, type>>
        BY <1>1
      <4>8. ReadInv' /\ InfosInv'
        BY <4>4, <4>5, <4>6, <4>7, <1>4, SendKeepsRead
      <4> QED BY <4>1, <4>8
    <3> QED BY <3>1, <3>2, <2>2
  <2>5. ASSUME NEW id, NotSent(id) PROVE NotSent(id)'
    BY <2>1, <2>5, <1>3 DEF NotSent
  <2>6. IdsInv'
    BY <2>1, <1>1, <1>3, <1>4 DEF IdsInv
  <2>7. SentInv'
    BY <2>5, <1>1, <1>4 DEF SentInv
  <2>8. ResultInv'
    BY <2>5, <1>1, <1>4 DEF ResultInv, Complete
  <2>9. PendingInv'
    BY <1>1, <1>4 DEF PendingInv
  <2>10. GatherInv'
    <3>1. Owned \subseteq Owned'
      BY <2>4 DEF Owned
    <3> QED BY <3>1, <1>1, <1>4 DEF GatherInv
  <2> QED BY <2>4, <2>6, <2>7, <2>8, <2>9, <2>10 DEF HandInv, GatheredInv
<1> QED BY <1>5, <1>6

\* The modem answers the command it executes, or reports something.
LEMMA ModemSendsKeepsHand ==
    ASSUME LockInv, SyncInv, HandInv, ModemInfo \/ ModemAnswers \/ ModemUrc PROVE HandInv'
<1>1. UNCHANGED <<pc, scenario, desync, result, call, response, type, responsePrefix, line, buffer,
                  smsFirst, toModem, calls, strbuf>>
  BY DEF ModemInfo, ModemAnswers, ModemUrc, ModemUnchanged, callerVars, chanVars, readerVars, commandVars
<1>2. /\ modem \in ModemStates /\ serial \in Nat /\ Queued' = Queued
      /\ answered \in [0 .. MaxCalls -> SUBSET Nat]
  BY <1>1 DEF LockInv, TypeOK, WireTypeOK, Queued
<1>3. StreamInv /\ ReadInv /\ InfosInv /\ PendingInv /\ GatherInv /\ IdsInv /\ SentInv /\ ResultInv
  BY DEF SyncInv, HandInv, GatheredInv
<1>4. serial + 1 \in Nat /\ serial < serial + 1 /\ serial <= serial + 1
  BY <1>2
<1>5. PendingInv'
  BY <1>1, <1>3 DEF PendingInv
<1>6. ASSUME NEW L, InFlight' = InFlight \cup L,
             \A l \in L : /\ l.serial \in Nat /\ serial < l.serial
                          /\ l.kind \notin {"info", "ok", "error", "prompt"} => l.cmd = 0
                          /\ l.kind = "smsurc" => \E p \in L : p.kind = "smspdu" /\ p.serial = l.serial + 1,
             serial' \in Nat, serial <= serial'
      PROVE  ReadInv' /\ InfosInv' /\ Owned \subseteq Owned'
  BY <1>1, <1>3, <1>6, SendKeepsRead DEF Owned
<1>7. ASSUME NEW l \in Lines, l.serial = serial + 1, l.kind \in {"info", "ok", "error"}, Send(<<l>>)
      PROVE  ReadInv' /\ InfosInv' /\ Owned' = Owned \cup {l}
  <2> DEFINE L == {l}
  <2>1. InFlight' = InFlight \cup L
    BY <1>1, <1>3, <1>7, SendLine
  <2>2. \A k \in L : /\ k.serial \in Nat /\ serial < k.serial
                     /\ k.kind \notin {"info", "ok", "error", "prompt"} => k.cmd = 0
                     /\ k.kind = "smsurc" => \E p \in L : p.kind = "smspdu" /\ p.serial = k.serial + 1
    BY <1>4, <1>7
  <2>3. serial' = serial + 1
    BY <1>7 DEF Send
  <2>4. Owned' = Owned \cup {l}
    BY <2>1, <1>7 DEF Owned
  <2> HIDE DEF L
  <2> QED BY <2>1, <2>2, <2>3, <2>4, <1>4, <1>6
<1>8. ASSUME UNCHANGED answered, Owned \subseteq Owned', ReadInv', InfosInv',
             modem'.phase # "idle" =>
                modem.phase # "idle" /\ modem'.owner = modem.owner /\ modem'.cmd = modem.cmd
      PROVE  HandInv'
  <2>1. IdFrame
    BY <1>1, <1>2, <1>8 DEF IdFrame
  <2>2. GatherInv'
    BY <1>1, <1>3, <1>8 DEF GatherInv
  <2> QED BY <2>1, <2>2, <1>3, <1>5, <1>8, IdFrameKeeps DEF HandInv, GatheredInv
<1>9. CASE ModemInfo
  <2> DEFINE l == Line("info", modem.cmd.prefix, modem.owner, 1)
  <2>1. /\ l \in Lines /\ l.serial = serial + 1 /\ l.kind = "info" /\ l.cmd = modem.owner
        /\ l.prefix = modem.cmd.prefix
    <3>1. modem.owner \in 0 .. MaxCalls /\ modem.cmd.prefix \in CommandPrefixes
      BY <1>2 DEF ModemStates, Commands
    <3>2. l \in Lines
      BY <3>1, LineType DEF LockInv, TypeOK
    <3> QED BY <3>2 DEF Line
  <2>2. /\ Send(<<l>>) /\ modem.phase = "run" /\ modem'.phase = "run"
        /\ modem'.owner = modem.owner /\ modem'.cmd = modem.cmd
    BY <1>2, <1>9 DEF ModemInfo, ModemStates
  <2> HIDE DEF l
  <2>3. ReadInv' /\ InfosInv' /\ Owned' = Owned \cup {l}
    BY <2>1, <2>2, <1>7
  <2>4. \A i \in 0 .. MaxCalls : i # modem.owner => answered'[i] = answered[i]
    BY <1>2, <1>9 DEF ModemInfo
  <2>5. \A n \in answered'[modem.owner] :
           n \in answered[modem.owner] \/ (n = serial + 1 /\ modem.cmd.id = modem.owner)
    BY <1>2, <1>9 DEF ModemInfo, ModemStates
  <2>6. \A id : NotSent(id)' = NotSent(id) /\ (NotSent(id) => modem.owner # id)
    BY <2>2, <1>2 DEF NotSent
  <2>7. IdsInv'
    BY <2>2, <1>1, <1>2, <1>3 DEF IdsInv
  <2>8. SentInv'
    <3>1. \A i \in 0 .. MaxCalls : i > calls => answered'[i] = {}
      <4>1. modem.owner <= calls /\ modem.owner \in Nat /\ calls \in Nat
        BY <2>2, <1>2, <1>3, BoundAssumption DEF IdsInv, ModemStates, LockInv, TypeOK, CallerTypeOK
      <4> QED BY <4>1, <2>4, <1>3 DEF SentInv
    <3>2. ASSUME NEW c \in Callers, pc[c] \in Formatting, call[c].api # "handshake"
          PROVE  NotSent(call[c].id)' /\ answered'[call[c].id] = {}
      <4>1. NotSent(call[c].id) /\ answered[call[c].id] = {}
        BY <3>2, <1>3 DEF SentInv
      <4>2. call[c].id \in 0 .. MaxCalls
        BY DEF LockInv, TypeOK, CallerTypeOK, Commands
      <4>3. modem.owner # call[c].id
        BY <4>1, <2>6
      <4>4. NotSent(call[c].id)'
        BY <4>1, <1>1, <1>2, <2>2 DEF NotSent
      <4> QED BY <4>1, <4>2, <4>3, <4>4, <2>4
    <3> QED BY <3>1, <3>2, <1>1 DEF SentInv, NotSent
  <2>9. ResultInv'
    <3> SUFFICES ASSUME ~desync, NEW d \in Callers, result[d].err = "NOERROR"
                 PROVE  (/\ Complete(result[d])
                         /\ result[d].id <= calls
                         /\ TypeOfApi(result[d].api) = "MULTILINE" =>
                              /\ NotSent(result[d].id)
                              /\ \A e \in Callers : pc[e] \in Formatting \/ call[e].api = "handshake"
                                                      => call[e].id # result[d].id)'
      BY <1>1 DEF ResultInv
    <3>1. /\ Complete(result[d])
          /\ result[d].id <= calls
          /\ TypeOfApi(result[d].api) = "MULTILINE" =>
               /\ NotSent(result[d].id)
               /\ \A e \in Callers : pc[e] \in Formatting \/ call[e].api = "handshake"
                                       => call[e].id # result[d].id
      BY <1>3 DEF ResultInv
    <3>2. TypeOfApi(result[d].api) = "MULTILINE" => answered'[result[d].id] = answered[result[d].id]
      <4>1. result[d].id \in 0 .. MaxCalls
        BY DEF LockInv, TypeOK, CallerTypeOK, Results
      <4>2. TypeOfApi(result[d].api) = "MULTILINE" => modem.owner # result[d].id
        BY <3>1, <2>6
      <4> QED BY <4>1, <4>2, <2>4
    <3>3. Complete(result[d])'
      BY <3>1, <3>2, <1>1 DEF Complete
    <3>4. NotSent(result[d].id) => NotSent(result[d].id)'
      BY <1>1, <1>2, <2>2 DEF NotSent
    <3> QED BY <3>1, <3>3, <3>4, <1>1
  <2>10. GatherInv'
    <3> SUFFICES ASSUME ~desync, NEW c \in Callers, pc[c] \in Waiting
                 PROVE  /\ \A i \in DOMAIN response.infos : response.infos[i].cmd \in {call[c].id, 0}
                        /\ TypeOfApi(call[c].api) = "MULTILINE" => \A n \in answered'[call[c].id] :
                             \/ \E i \in DOMAIN response.infos : response.infos[i].serial = n
                             \/ \E k \in Owned' : /\ k.serial = n /\ k.kind = "info"
                                                  /\ call[c].prefix \in {k.prefix, AnyPrefix}
      BY <1>1 DEF GatherInv
    <3>1. modem.owner = call[c].id
      BY <2>2 DEF SyncInv, StepInv, InStep, Executes
    <3>2. modem.cmd.id = modem.owner => call[c].prefix = l.prefix
      BY <2>1, <2>2, <3>1, <1>3 DEF IdsInv
    <3>3. l \in Owned' /\ Owned \subseteq Owned'
      BY <2>3
    <3> QED BY <3>1, <3>2, <3>3, <2>1, <2>5, <1>3 DEF GatherInv
  <2> QED BY <2>3, <2>7, <2>8, <2>9, <2>10, <1>5 DEF HandInv, GatheredInv
<1>10. CASE ModemAnswers
  <2>1. PICK kind \in {"ok", "error"} : Send(<<Line(kind, AnyPrefix, modem.owner, 1)>>)
    BY <1>10 DEF ModemAnswers
  <2> DEFINE l == Line(kind, AnyPrefix, modem.owner, 1)
  <2>2. l \in Lines /\ l.serial = serial + 1 /\ l.kind \in {"ok", "error"}
    <3>1. modem.owner \in 0 .. MaxCalls /\ AnyPrefix \in CommandPrefixes
      BY <1>2 DEF ModemStates, CommandPrefixes
    <3>2. l \in Lines
      BY <3>1, LineType DEF LockInv, TypeOK
    <3> QED BY <3>2 DEF Line
  <2>3. Send(<<l>>) /\ modem'.phase = "idle" /\ answered' = answered
    BY <2>1, <1>2, <1>10 DEF ModemAnswers, ModemStates
  <2> HIDE DEF l
  <2>4. ReadInv' /\ InfosInv' /\ Owned \subseteq Owned'
    BY <2>2, <2>3, <1>7
  <2> QED BY <2>3, <2>4, <1>8
<1>11. CASE ModemUrc
  <2>1. PICK kind \in AllUrcKinds : kind \in scenario.urcKinds /\ \E lines \in UrcLines(kind) : Send(lines)
    BY <1>11 DEF ModemUrc
  <2>2. PICK ls \in UrcLines(kind) : Send(ls)
    BY <2>1
  <2>3. /\ ls \in Seq(Lines) /\ Sorted(ls) /\ Len(ls) \in Nat
        /\ \A l \in Range(ls) : /\ l.serial \in Nat /\ serial < l.serial /\ l.serial <= serial + Len(ls)
                                /\ l.kind \in {kind, "smspdu"} /\ l.cmd = 0
                                /\ l.kind = "smsurc" =>
                                     \E p \in Range(ls) : p.kind = "smspdu" /\ p.serial = l.serial + 1
    <3>1. ls \in Seq(Lines)
      BY UrcType DEF LockInv, TypeOK
    <3>2. CASE kind \in {"urc", "nocarrier"}
      <4>1. PICK p : ls = <<Line(kind, p, 0, 1)>>
        BY <3>2 DEF UrcLines
      <4> QED BY <4>1, <3>1, <3>2, <1>2 DEF Range, Sorted, Line
    <3>3. CASE kind = "smsurc"
      <4>1. ls = <<Line("smsurc", AnyPrefix, 0, 1), Line("smspdu", AnyPrefix, 0, 2)>>
        BY <3>3 DEF UrcLines
      <4>2. /\ DOMAIN ls = {1, 2} /\ Len(ls) = 2
            /\ ls[1].serial = serial + 1 /\ ls[2].serial = serial + 2
            /\ ls[1].kind = "smsurc" /\ ls[2].kind = "smspdu" /\ ls[1].cmd = 0 /\ ls[2].cmd = 0
        BY <4>1 DEF Line
      <4>3. Range(ls) = {ls[1], ls[2]}
        BY <4>2 DEF Range
      <4>4. /\ serial + 1 \in Nat /\ serial + 2 \in Nat /\ serial < serial + 1 /\ serial < serial + 2
            /\ serial + 1 <= serial + 2 /\ serial + 2 <= serial + 2 /\ serial + 2 = (serial + 1) + 1
        BY <1>2
      <4>5. Sorted(ls)
        BY <4>2, <1>2 DEF Sorted
      <4> QED BY <4>2, <4>3, <4>4, <4>5, <3>1, <3>3
    <3> QED BY <3>1, <3>2, <3>3 DEF AllUrcKinds
  <2>4. InFlight' = InFlight \cup Range(ls)
    <3>1. \A l \in Range(ls) : l.kind = "nocarrier" => "nocarrier" \in scenario.urcKinds
      BY <2>1, <2>3
    <3> QED BY <2>2, <2>3, <3>1, <1>1, <1>3, SendKeepsStream
  <2>5. serial' \in Nat /\ serial <= serial'
    BY <2>2, <2>3, <1>2 DEF Send
  <2>6. answered' = answered /\ modem' = modem
    BY <1>11 DEF ModemUrc
  <2>7. ReadInv' /\ InfosInv' /\ Owned \subseteq Owned'
    BY <2>3, <2>4, <2>5, <1>6
  <2> QED BY <2>6, <2>7, <1>8
<1> QED BY <1>9, <1>10, <1>11

LEMMA NextHand ==
    ASSUME LockInv, FreshInv, SyncInv, HandInv, [Next]_vars PROVE HandInv'
<1>1. ReadInv
  BY DEF HandInv
<1>2. ASSUME NEW c \in Callers, CallerStep(c) PROVE HandInv'
  BY <1>1, <1>2, CallerMoveHand, HandFrameKeeps, ClaimRequestKeepsHand, WriteKeepsHand, EndKeepsHand
     DEF CallerStep, Claim
<1>3. ASSUME NEW c \in Callers, TimeOut(c) \/ SpuriousWakeup(c) \/ StartClose(c) PROVE HandInv'
  BY <1>1, <1>3, CallerMoveHand, HandFrameKeeps
<1>4. CASE ReaderStep
  BY <1>1, <1>4, BackgroundHand, HandFrameKeeps, ReadKeepsHand, ProcessLineKeepsHand DEF ReaderStep
<1>5. CASE ModemStep
  BY <1>1, <1>5, BackgroundHand, HandFrameKeeps, ModemTakesKeepsHand, ModemSendsKeepsHand DEF ModemStep
<1>6. CASE (\E t \in Threads : CloseStep(t)) \/ OtherContextFormats \/ UNCHANGED vars
  BY <1>1, <1>6, BackgroundHand, HandFrameKeeps
<1> QED BY <1>2, <1>3, <1>4, <1>5, <1>6, CallKeepsHand DEF Next, Quiescent

LEMMA InitHand == Init => HandInv
<1> SUFFICES ASSUME Init PROVE HandInv
  OBVIOUS
<1>1. /\ \A c \in Callers : pc[c] = "idle" /\ call[c] = Foreign /\ result[c] = NoResult
      /\ pc[Reader] = "read"
      /\ ~Held /\ Range(buffer) = {} /\ Range(fromModem) = {} /\ Range(toModem) = {}
  BY ThreadAssumption DEF Init, Threads, Held, Range
<1>2. InFlight = {} /\ Queued = {} /\ ~smsFirst
  BY <1>1 DEF Init, InFlight, Queued
<1>3. ReadInv
  BY <1>1, <1>2 DEF ReadInv
<1>4. IdsInv
  <2>1. Foreign.id = 0 /\ calls = 0 /\ strbuf = Foreign /\ modem.phase = "idle" /\ 0 <= 0
    BY DEF Foreign, Init
  <2> QED BY <2>1, <1>1, <1>2 DEF IdsInv, Commanding, Waiting
<1>5. SentInv
  BY <1>1 DEF SentInv, Init, Formatting
<1>6. GatheredInv
  BY <1>1 DEF GatheredInv, PendingInv, InfosInv, GatherInv, Init, Waiting
<1>7. ResultInv
  <2>1. NoResult.infos = << >> /\ NoResult.api = "command" /\ NoResult.id = 0
    BY DEF NoResult
  <2>2. DOMAIN << >> = {} /\ Len(<< >>) = 0 /\ 0 <= 0 /\ calls = 0
    BY DEF Init
  <2>3. TypeOfApi("command") # "MULTILINE" /\ ~NeedsIntermediate("command")
    BY DEF TypeOfApi, NeedsIntermediate
  <2> QED BY <2>1, <2>2, <2>3, <1>1 DEF ResultInv, Complete
<1> QED BY <1>3, <1>4, <1>5, <1>6, <1>7 DEF HandInv

(***************************************************************************)
(* A command that succeeds hands out what the modem sent: its lines and    *)
(* unsolicited ones only, in the order they came, and for the multi-line   *)
(* types every line of the answer to its text, for any number of threads,  *)
(* commands, prefixes and lines and wherever readline breaks the stream.   *)
(***************************************************************************)
THEOREM AnswersComplete == Spec => []IntermediatesComplete
<1>1. HandInv => IntermediatesComplete
  BY DEF HandInv, ResultInv, IntermediatesComplete
<1> QED BY <1>1, InitLock, NextLock, InitSync, NextFresh, NextSync, InitHand, NextHand, PTL DEF Spec
=============================================================================
