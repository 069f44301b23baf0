------------------------------ MODULE AtChannel ------------------------------
(***************************************************************************)
(* One AT channel of the RIL (mbm-ril/atchannel.c): an atcontext shared by *)
(* the threads that issue commands (Callers) and by the reader thread that *)
(* at_open started for it, talking to a modem.                             *)
(*                                                                         *)
(* The unit of atomicity is a section of code run under commandmutex.  A   *)
(* section is cut in two wherever it touches state the mutex does not      *)
(* cover: the static strbuf that every context shares, the descriptor      *)
(* that at_close invalidates before it locks, and the unlocked tests of    *)
(* readerClosed.                                                           *)
(*                                                                         *)
(* Data is abstracted to what the code branches on.  A command is the      *)
(* entry point that issued it, its response prefix and an identity; a line *)
(* is its kind, its prefix, and (ghosts) the command it answers and its    *)
(* position in the stream the modem sent.                                  *)
(***************************************************************************)
EXTENDS Integers, Sequences, SequencesExt

CONSTANTS
    Callers,        \* threads that issue commands on this context
    Reader,         \* the thread that runs readerLoop
    NoOne,          \* no thread: the holder of a free mutex
    NoResponse,     \* ac->response == NULL
    ResponsePrefixes, \* the response prefixes the commands expect
    Digit,          \* the "prefix" of a line that begins with a digit
    AnyPrefix,      \* "": the prefix of at_send_command_raw, matches all lines
    HasTimeout,     \* ac->timeoutMsec # 0 (0 means wait for ever)
    HasClosedCb,    \* at_set_on_reader_closed was called
    SharedStrbuf,   \* a second context (the prio channel) is in use
    CallersClose,   \* a caller may call at_close on its own account
    HandshakeTries, \* HANDSHAKE_RETRY_COUNT
    MaxCalls,       \* bound: calls issued by all callers together
    MaxInfos,       \* bound: intermediate lines in the answer to a command
    MaxUrcs,        \* bound: unsolicited lines
    Scenarios       \* what one behaviour is made of: who calls what, and what may happen

AllApis == {"command", "raw", "singleline", "numeric", "sms", "multiline",
            "handshake"}
AllUrcKinds == {"urc", "nocarrier", "smsurc"}

ASSUME ThreadAssumption ==
    /\ Reader \notin Callers
    /\ NoOne \notin Callers \cup {Reader}
ASSUME ApiAssumption ==
    /\ Scenarios \subseteq [callers : SUBSET Callers, calls : 0 .. MaxCalls, apis : SUBSET AllApis,
                            mayDie : BOOLEAN, urcKinds : SUBSET AllUrcKinds, maxSpurious : Nat]
    /\ {HasTimeout, HasClosedCb, SharedStrbuf, CallersClose} \subseteq BOOLEAN
ASSUME BoundAssumption ==
    /\ HandshakeTries \in Nat \ {0}
    /\ {MaxCalls, MaxInfos, MaxUrcs} \subseteq Nat

Threads == Callers \cup {Reader}

(***************************************************************************)
(* Commands.  Id 0 is the text another context formatted into strbuf.      *)
(***************************************************************************)
CommandPrefixes == ResponsePrefixes \cup {Digit, AnyPrefix}

Commands == [id : 0 .. MaxCalls, api : AllApis, prefix : CommandPrefixes]

Foreign == [id |-> 0, api |-> "command", prefix |-> AnyPrefix]

\* The ATCommandType each entry point passes.
TypeOfApi(api) ==
    CASE api \in {"command", "handshake"} -> "NO_RESULT"
      [] api \in {"raw", "multiline"}     -> "MULTILINE"
      [] api \in {"singleline", "sms"}    -> "SINGLELINE"
      [] api = "numeric"                  -> "NUMERIC"

\* The prefixes a caller of an entry point can ask for.
ResponsePrefixesOf(api) ==
    CASE api = "numeric"                  -> {Digit}
      [] api \in {"command", "handshake", "raw"} -> {AnyPrefix}
      [] OTHER                            -> ResponsePrefixes

\* useap: the text is formatted into the static strbuf.
UsesStrbuf(api) == api \in {"command", "singleline", "multiline"}

\* The entry points that fail when OK comes without an intermediate line.
NeedsIntermediate(api) == api \in {"singleline", "numeric", "sms", "multiline"}

Lines == [kind : {"info", "ok", "error", "prompt"} \cup AllUrcKinds \cup {"smspdu"},
          prefix : CommandPrefixes, cmd : 0 .. MaxCalls,
          serial : Nat]

NoLine == [kind |-> "info", prefix |-> AnyPrefix, cmd |-> 0, serial |-> 0]

Errors == {"NOERROR", "GENERIC", "COMMAND_PENDING", "CHANNEL_CLOSED",
           "TIMEOUT", "INVALID_RESPONSE", "MODEM_ERROR"}

Results == [id : 0 .. MaxCalls, api : AllApis, err : Errors, final : Lines,
            infos : Seq(Lines)]

\* *ac->response, what the descriptor carries to the modem, and the modem.
Responses == [success : BOOLEAN, final : Lines, infos : Seq(Lines)]

Messages == [kind : {"cmd", "pdu", "esc"}, cmd : Commands, owner : 0 .. MaxCalls]

ModemStates == [phase : {"idle", "pdu", "run"}, cmd : Commands,
                owner : 0 .. MaxCalls, sent : 0 .. MaxInfos + 1]

ASSUME ResponseAssumption == NoResponse \notin Responses

NoResult == [id |-> 0, api |-> "command", err |-> "NOERROR", final |-> NoLine, infos |-> << >>]

-----------------------------------------------------------------------------
VARIABLES
    pc,             \* where each thread is
    fdOpen,         \* ac->fd >= 0
    readerClosed,   \* ac->readerClosed
    commandmutex,   \* the thread that holds ac->commandmutex
    requestmutex,   \* the thread that holds ac->requestmutex
    type,           \* ac->type
    responsePrefix, \* ac->responsePrefix
    smsPDU,         \* ac->smsPDU # NULL
    response,       \* *ac->response
    strbuf,         \* the command text in the static strbuf
    kicks,          \* bytes in the wake-up pipe readerCmdFds
    buffer,         \* complete lines in ATBuffer from ATBufferCur on
    line,           \* the line readerLoop works on
    smsFirst,       \* readerLoop holds the first of two SMS lines
    call,           \* per caller: the command it is issuing
    tries,          \* per caller: i in at_handshake
    result,         \* per caller: what its last command returned
    calls,          \* number of commands issued so far
    spurious,       \* number of spurious wake-ups so far
    scenario,       \* the scenario of this behaviour: it never changes
    toModem,        \* what was written to the descriptor, not yet consumed
    fromModem,      \* lines the descriptor holds, not yet read
    modem,          \* the modem: what it is executing
    modemUp,        \* the device is there
    serial,         \* lines the modem sent so far
    urcs,           \* unsolicited lines the modem sent so far
    answered,       \* ghost: per command, the serials of the lines sent in answer to its own text
    desync,         \* ghost: some command ended without its own final line
    reformatted     \* ghost: callers that waited for another command while a third formatted its own

callerVars == <<call, tries, result, calls, spurious, scenario, reformatted>>
commandVars == <<type, responsePrefix, smsPDU, response>>
mutexVars == <<commandmutex, requestmutex>>
readerVars == <<buffer, line, smsFirst>>
chanVars == <<fdOpen, readerClosed, strbuf, kicks>>
modemVars == <<modem, modemUp, serial, urcs, answered>>
wireVars == <<toModem, fromModem, modemVars, desync>>
restVars == <<chanVars, mutexVars, commandVars, readerVars, callerVars, wireVars>>
vars == <<pc, restVars>>

CallerPcs == {"idle", "lock", "claim", "waitReq", "wokenReq", "write", "check",
              "waitResp", "wokenResp", "timedOut", "hsSleep", "escape",
              "closeTest", "closeFd", "closeLock", "kick"}
ReaderPcs == {"read", "poll", "process", "eof", "closedLock",
              "closeTest", "closeFd", "closeLock", "kick", "exit"}

NewResponse == [success |-> FALSE, final |-> NoLine, infos |-> << >>]

\* The state at_open leaves behind on a fresh context.
Init ==
    /\ pc = [t \in Threads |-> IF t = Reader THEN "read" ELSE "idle"]
    /\ fdOpen = TRUE
    /\ readerClosed = FALSE
    /\ commandmutex = NoOne
    /\ requestmutex = NoOne
    /\ type = "NO_RESULT"
    /\ responsePrefix = AnyPrefix
    /\ smsPDU = FALSE
    /\ response = NoResponse
    /\ strbuf = Foreign
    /\ kicks = 0
    /\ buffer = << >>
    /\ line = NoLine
    /\ smsFirst = FALSE
    /\ call = [c \in Callers |-> Foreign]
    /\ tries = [c \in Callers |-> 0]
    /\ result = [c \in Callers |-> NoResult]
    /\ calls = 0
    /\ spurious = 0
    /\ scenario \in Scenarios
    /\ toModem = << >>
    /\ fromModem = << >>
    /\ modem = [phase |-> "idle", cmd |-> Foreign, owner |-> 0, sent |-> 0]
    /\ modemUp = TRUE
    /\ serial = 0
    /\ urcs = 0
    /\ answered = [i \in 0 .. MaxCalls |-> {}]
    /\ desync = FALSE
    /\ reformatted = {}

-----------------------------------------------------------------------------
(***************************************************************************)
(* Condition variables.  A waiter of commandcond holds requestmutex, so    *)
(* there is at most one and signal wakes exactly the threads it names;     *)
(* requestcond is broadcast.                                               *)
(***************************************************************************)
\* Defect: the signal is forgotten.
LostSignal(pcs) == pcs

SignalCommand(pcs) ==
    [t \in Threads |-> IF pcs[t] = "waitResp" THEN "wokenResp" ELSE pcs[t]]

\* Defect: the waiters of requestcond are not woken.
LostBroadcast(pcs) == pcs

BroadcastRequest(pcs) ==
    [t \in Threads |-> IF pcs[t] = "waitReq" THEN "wokenReq" ELSE pcs[t]]

Goto(t, label) == pc' = [pc EXCEPT ![t] = label]

-----------------------------------------------------------------------------
(***************************************************************************)
(* The command threads.                                                    *)
(***************************************************************************)

\* A thread calls one of the at_send_command_* functions, or at_handshake.
Call(c) ==
    /\ pc[c] = "idle"
    /\ calls < MaxCalls
    /\ calls < scenario.calls
    /\ c \in scenario.callers
    /\ \E api \in AllApis : \E p \in ResponsePrefixesOf(api) :
        /\ api \in scenario.apis
        /\ call' = [call EXCEPT ![c] = [id |-> calls + 1, api |-> api, prefix |-> p]]
    /\ calls' = calls + 1
    /\ tries' = [tries EXCEPT ![c] = 0]
    /\ Goto(c, "lock")
    /\ UNCHANGED <<result, spurious, scenario, reformatted, wireVars, commandVars, chanVars,
                   readerVars, mutexVars>>

\* at_send_command_full locks commandmutex and formats into strbuf.
LockAndFormat(c) ==
    /\ pc[c] = "lock"
    /\ commandmutex = NoOne
    /\ commandmutex' = c
    /\ strbuf' = IF UsesStrbuf(call[c].api) THEN call[c] ELSE strbuf
    /\ reformatted' = (reformatted \ {c}) \cup
         {d \in Callers : UsesStrbuf(call[c].api) /\ pc[d] \in {"waitReq", "wokenReq"}}
    /\ Goto(c, "claim")
    /\ UNCHANGED <<fdOpen, readerClosed, requestmutex, kicks, wireVars, call, tries, result,
                   calls, spurious, scenario, commandVars, readerVars>>

(***************************************************************************)
(* The part of at_send_command_full_nolock under "finally", and what its   *)
(* callers do with the error: a wrapper replaces OK without an             *)
(* intermediate line by INVALID_RESPONSE and frees the response of a       *)
(* failed command (not at_send_command_raw); at_handshake tries again;     *)
(* at_send_command_full unlocks commandmutex and then calls onTimeout.     *)
(***************************************************************************)
WrapperError(api, err, infos) ==
    IF err = "NOERROR" /\ NeedsIntermediate(api) /\ infos = << >>
    THEN "INVALID_RESPONSE" ELSE err

WrapperInfos(api, err, infos) ==
    CASE api \in {"command", "handshake"} -> << >>
      [] api = "raw"                      -> infos
      [] OTHER -> IF err = "NOERROR" THEN infos ELSE << >>

NextLabel(c, err) ==
    IF call[c].api = "handshake"
    THEN IF err = "NOERROR" THEN "hsSleep"
         ELSE IF tries[c] + 1 < HandshakeTries THEN "claim" ELSE "idle"
    ELSE IF err = "TIMEOUT" THEN "escape" ELSE "idle"

Finish(c, err, final, infos) ==
    LET next == NextLabel(c, err)
        api  == call[c].api
    IN  /\ response' = NoResponse
        /\ responsePrefix' = AnyPrefix
        /\ smsPDU' = FALSE
        /\ pc' = BroadcastRequest([pc EXCEPT ![c] = next])
        /\ requestmutex' = NoOne
        /\ commandmutex' = IF next \in {"claim", "hsSleep"} THEN c ELSE NoOne
        /\ tries' = [tries EXCEPT ![c] = IF next = "claim" THEN @ + 1 ELSE 0]
        /\ result' = [result EXCEPT ![c] =
                        [id |-> call[c].id,
                         api |-> api,
                         err |-> WrapperError(api, err, infos),
                         final |-> final,
                         infos |-> WrapperInfos(api, WrapperError(api, err, infos), infos)]]
        /\ desync' = (desync \/ err = "TIMEOUT" \/ final.kind = "nocarrier")
        /\ UNCHANGED <<type, call, calls, spurious, scenario, reformatted, fromModem, modemVars,
                       chanVars, readerVars>>

\* pthread_mutex_trylock(&ac->requestmutex) succeeds.
TrylockSucceeds == requestmutex = NoOne

\* The trylock of requestmutex succeeds and the command becomes the pending one.
ClaimRequest(c) ==
    /\ pc[c] = "claim"
    /\ TrylockSucceeds
    /\ requestmutex' = c
    /\ type' = TypeOfApi(call[c].api)
    /\ responsePrefix' = call[c].prefix
    /\ smsPDU' = (call[c].api = "sms")
    /\ response' = NewResponse
    /\ Goto(c, "write")
    /\ UNCHANGED <<commandmutex, wireVars, callerVars, chanVars, readerVars>>

\* The trylock succeeds although a response is still pending.
ClaimRefused(c) ==
    /\ pc[c] = "claim"
    /\ TrylockSucceeds
    /\ Finish(c, "COMMAND_PENDING", NoLine, << >>)
    /\ UNCHANGED toModem

\* "if(ac->response != NULL)"
Claim(c) == IF response = NoResponse THEN ClaimRequest(c) ELSE ClaimRefused(c)

\* The trylock fails: wait on requestcond, which releases commandmutex.
WaitForRequest(c) ==
    /\ pc[c] = "claim"
    /\ ~TrylockSucceeds
    /\ commandmutex' = NoOne
    /\ Goto(c, "waitReq")
    /\ UNCHANGED <<requestmutex, wireVars, callerVars, commandVars, chanVars,
                   readerVars>>

\* pthread_cond_wait returns once it has commandmutex again.
RetryRequest(c) ==
    /\ pc[c] = "wokenReq"
    /\ commandmutex = NoOne
    /\ commandmutex' = c
    /\ Goto(c, "claim")
    /\ UNCHANGED <<requestmutex, wireVars, callerVars, commandVars, chanVars,
                   readerVars>>

\* Defect: useap is ignored.
TextOfAnyApi(c) == strbuf

\* The text writeline sends: strbuf as it is now, or the caller's own string.
TextOf(c) == IF UsesStrbuf(call[c].api) THEN strbuf ELSE call[c]

WriteCommand(c) ==
    /\ pc[c] = "write"
    /\ fdOpen
    /\ ~readerClosed
    /\ modemUp
    /\ toModem' = Append(toModem, [kind |-> "cmd", cmd |-> TextOf(c), owner |-> call[c].id])
    /\ Goto(c, "check")
    /\ UNCHANGED <<fromModem, desync, callerVars, modemVars,
                   commandVars, chanVars, readerVars, mutexVars>>

\* writeline refuses a closed channel; write() fails when the device is gone.
WriteFails(c) ==
    /\ pc[c] = "write"
    /\ \/ ~fdOpen \/ readerClosed
       \/ ~modemUp
    /\ Finish(c, IF ~fdOpen \/ readerClosed THEN "CHANNEL_CLOSED" ELSE "GENERIC",
              NoLine, << >>)
    /\ UNCHANGED toModem

\* The wait loop: nothing arrived and the channel is not closed.
WaitForResponse(c) ==
    /\ pc[c] = "check"
    /\ response.final = NoLine
    /\ ~readerClosed
    /\ commandmutex' = NoOne
    /\ Goto(c, "waitResp")
    /\ UNCHANGED <<requestmutex, wireVars, callerVars, commandVars, chanVars,
                   readerVars>>

\* at_get_error of a response whose success flag is not set.
ErrorOf(resp) ==
    IF resp.success THEN "NOERROR"
    ELSE IF resp.final = NoLine THEN "INVALID_RESPONSE" ELSE "MODEM_ERROR"

\* Defect: the lines are handed out as they are stored.
ReverseOrder(infos) == infos

\* reverseIntermediates
ArrivalOrder(infos) == Reverse(infos)

\* The wait loop ends; a closed channel overrides the answer.
TakeResponse(c) ==
    /\ pc[c] = "check"
    /\ response.final # NoLine \/ readerClosed
    /\ Finish(c, IF readerClosed THEN "CHANNEL_CLOSED" ELSE ErrorOf(response),
              response.final, ArrivalOrder(response.infos))
    /\ UNCHANGED toModem

\* Defect: the wait is an if, not a loop.
RecheckOnce(c) ==
    /\ pc[c] = "wokenResp"
    /\ commandmutex = NoOne
    /\ Finish(c, IF readerClosed THEN "CHANNEL_CLOSED" ELSE ErrorOf(response),
              response.final, ArrivalOrder(response.infos))
    /\ UNCHANGED toModem

\* A signalled (or spuriously woken) waiter has commandmutex again.
RecheckResponse(c) ==
    /\ pc[c] = "wokenResp"
    /\ commandmutex = NoOne
    /\ commandmutex' = c
    /\ Goto(c, "check")
    /\ UNCHANGED <<requestmutex, wireVars, callerVars, commandVars, chanVars,
                   readerVars>>

\* The timed wait ends without a signal.  A handshake always has a timeout.
TimeOut(c) ==
    /\ pc[c] = "waitResp"
    /\ HasTimeout \/ call[c].api = "handshake"
    /\ Goto(c, "timedOut")
    /\ UNCHANGED restVars

\* ETIMEDOUT ends the command even when the answer came before the mutex did.
GiveUp(c) ==
    /\ pc[c] = "timedOut"
    /\ commandmutex = NoOne
    /\ Finish(c, "TIMEOUT", NoLine, << >>)
    /\ UNCHANGED toModem

\* at_handshake sleeps with commandmutex held, then unlocks it.
HandshakeDone(c) ==
    /\ pc[c] = "hsSleep"
    /\ commandmutex' = NoOne
    /\ Goto(c, "idle")
    /\ UNCHANGED <<requestmutex, toModem, fromModem, desync, callerVars,
                   modemVars, commandVars, chanVars, readerVars>>

\* onTimeout, on the command thread: at_send_escape, then at_close.
SendEscape(c) ==
    /\ pc[c] = "escape"
    /\ toModem' = IF fdOpen /\ modemUp
                  THEN Append(toModem, [kind |-> "esc", cmd |-> Foreign, owner |-> 0])
                  ELSE toModem
    /\ Goto(c, "closeTest")
    /\ UNCHANGED <<fromModem, desync, callerVars, modemVars,
                   commandVars, chanVars, readerVars, mutexVars>>

\* A thread of another context formats its command into the same strbuf.
OtherContextFormats ==
    /\ SharedStrbuf
    /\ strbuf' = Foreign
    /\ UNCHANGED <<pc, fdOpen, readerClosed, kicks, wireVars, callerVars,
                   commandVars, readerVars, mutexVars>>

\* POSIX lets a condition wait return without a signal.
SpuriousWakeup(c) ==
    /\ pc[c] \in {"waitResp", "waitReq"}
    /\ spurious < scenario.maxSpurious
    /\ spurious' = spurious + 1
    /\ Goto(c, IF pc[c] = "waitResp" THEN "wokenResp" ELSE "wokenReq")
    /\ UNCHANGED <<call, tries, result, calls, scenario, reformatted, wireVars, commandVars,
                   chanVars, readerVars, mutexVars>>

-----------------------------------------------------------------------------
(***************************************************************************)
(* at_close, by a command thread or by the reader's callback.  The test of *)
(* fd and the close are not protected; only then is commandmutex taken.    *)
(***************************************************************************)
AfterClose(t) == IF t = Reader THEN "exit" ELSE "idle"

StartClose(c) ==
    /\ CallersClose
    /\ pc[c] = "idle"
    /\ fdOpen
    /\ Goto(c, "closeTest")
    /\ UNCHANGED restVars

CloseTest(t) ==
    /\ pc[t] = "closeTest"
    /\ Goto(t, IF fdOpen THEN "closeFd" ELSE AfterClose(t))
    /\ UNCHANGED restVars

CloseFd(t) ==
    /\ pc[t] = "closeFd"
    /\ fdOpen' = FALSE
    /\ Goto(t, "closeLock")
    /\ UNCHANGED <<readerClosed, strbuf, kicks, wireVars, callerVars,
                   commandVars, readerVars, mutexVars>>

\* Lock, readerClosed = 1, signal commandcond, unlock.
CloseSignal(t) ==
    /\ pc[t] = "closeLock"
    /\ commandmutex = NoOne
    /\ readerClosed' = TRUE
    /\ pc' = SignalCommand([pc EXCEPT ![t] = "kick"])
    /\ UNCHANGED <<fdOpen, strbuf, kicks, wireVars, callerVars, commandVars,
                   readerVars, mutexVars>>

\* Defect: at_close does not write to the wake-up pipe.
NoKick(t) == pc[t] = "kick" /\ Goto(t, AfterClose(t)) /\ UNCHANGED restVars

\* The byte that wakes readerLoop out of poll.
KickReader(t) ==
    /\ pc[t] = "kick"
    /\ kicks' = kicks + 1
    /\ Goto(t, AfterClose(t))
    /\ UNCHANGED <<fdOpen, readerClosed, strbuf, wireVars, callerVars,
                   commandVars, readerVars, mutexVars>>

-----------------------------------------------------------------------------
(***************************************************************************)
(* The reader thread.                                                      *)
(***************************************************************************)
ReaderUnchanged == UNCHANGED <<strbuf, desync, callerVars, modemVars,
                               mutexVars>>

\* readline finds a complete line in the buffer, whatever became of fd.
TakeBufferedLine ==
    /\ pc[Reader] = "read"
    /\ buffer # << >>
    /\ buffer' = Tail(buffer)
    /\ IF smsFirst
       THEN \* the second line of an SMS: unsolHandler(line1, line2)
            /\ smsFirst' = FALSE
            /\ UNCHANGED <<line, pc>>
       ELSE IF Head(buffer).kind = "smsurc"
            THEN /\ smsFirst' = TRUE
                 /\ UNCHANGED <<line, pc>>
            ELSE /\ line' = Head(buffer)
                 /\ Goto(Reader, "process")
                 /\ UNCHANGED smsFirst
    /\ UNCHANGED <<fdOpen, readerClosed, kicks, toModem, fromModem, commandVars>>
    /\ ReaderUnchanged

\* Nothing buffered: test fd, then poll.
StartPoll ==
    /\ pc[Reader] = "read"
    /\ buffer = << >>
    /\ Goto(Reader, IF fdOpen THEN "poll" ELSE "eof")
    /\ UNCHANGED <<fdOpen, readerClosed, kicks, toModem, fromModem,
                   commandVars, readerVars>>
    /\ ReaderUnchanged

\* poll returns for the wake-up pipe: drain one byte and test fd again.
PollKick ==
    /\ pc[Reader] = "poll"
    /\ kicks > 0
    /\ kicks' = kicks - 1
    /\ Goto(Reader, "read")
    /\ UNCHANGED <<fdOpen, readerClosed, toModem, fromModem, commandVars,
                   readerVars>>
    /\ ReaderUnchanged

\* poll returns for the descriptor: read() takes some of the lines there are,
\* or fails because at_close ran meanwhile.
PollData ==
    /\ pc[Reader] = "poll"
    /\ fromModem # << >>
    /\ IF fdOpen
       THEN /\ \E n \in 1 .. Len(fromModem) :
                  /\ buffer' = SubSeq(fromModem, 1, n)
                  /\ fromModem' = SubSeq(fromModem, n + 1, Len(fromModem))
            /\ Goto(Reader, "read")
       ELSE /\ Goto(Reader, "eof")
            /\ UNCHANGED <<buffer, fromModem>>
    /\ UNCHANGED <<fdOpen, readerClosed, kicks, line, smsFirst, toModem,
                   commandVars>>
    /\ ReaderUnchanged

\* The device went away: POLLERR, read error or end of file.
PollEof ==
    /\ pc[Reader] = "poll"
    /\ ~modemUp
    /\ fromModem = << >>
    /\ Goto(Reader, "eof")
    /\ UNCHANGED <<fdOpen, readerClosed, kicks, toModem, fromModem,
                   commandVars, readerVars>>
    /\ ReaderUnchanged

\* Does processLine add the line to the pending response?
IsIntermediate ==
    \/ type = "NUMERIC" /\ line.prefix = Digit /\ response.infos = << >>
    \/ type = "SINGLELINE" /\ line.prefix = responsePrefix /\ response.infos = << >>
    \/ type = "MULTILINE" /\ responsePrefix \in {line.prefix, AnyPrefix}

\* One processLine, under commandmutex from its first test to its last call.
ProcessLine ==
    /\ pc[Reader] = "process"
    /\ commandmutex = NoOne
    /\ LET pending == response # NoResponse
           final   == pending /\ line.kind \in {"ok", "error", "nocarrier"}
           prompt  == pending /\ line.kind = "prompt" /\ smsPDU
       IN  /\ response' =
                CASE final -> [response EXCEPT !.success = (line.kind = "ok"),
                                               !.final = line]
                  [] pending /\ ~final /\ ~prompt /\ IsIntermediate ->
                       [response EXCEPT !.infos = <<line>> \o @]
                  [] OTHER -> response    \* unsolHandler, outside this module
           /\ smsPDU' = (smsPDU /\ ~prompt)
           /\ toModem' = IF prompt /\ fdOpen /\ ~readerClosed /\ modemUp
                         THEN Append(toModem, [kind |-> "pdu", cmd |-> Foreign, owner |-> 0])
                         ELSE toModem
           /\ pc' = IF final THEN SignalCommand([pc EXCEPT ![Reader] = "read"])
                    ELSE [pc EXCEPT ![Reader] = "read"]
    /\ UNCHANGED <<fdOpen, readerClosed, type, responsePrefix, kicks,
                   fromModem, readerVars>>
    /\ ReaderUnchanged

\* onReaderClosed tests readerClosed before it locks.
ReaderEof ==
    /\ pc[Reader] = "eof"
    /\ Goto(Reader, IF HasClosedCb /\ ~readerClosed THEN "closedLock" ELSE "exit")
    /\ smsFirst' = FALSE
    /\ UNCHANGED <<fdOpen, readerClosed, kicks, buffer, line, toModem,
                   fromModem, commandVars>>
    /\ ReaderUnchanged

\* Lock, readerClosed = 1, signal, unlock; then the callback, which is at_close.
ReaderReportsClosed ==
    /\ pc[Reader] = "closedLock"
    /\ commandmutex = NoOne
    /\ readerClosed' = TRUE
    /\ pc' = SignalCommand([pc EXCEPT ![Reader] = "closeTest"])
    /\ UNCHANGED <<fdOpen, kicks, toModem, fromModem, commandVars, readerVars>>
    /\ ReaderUnchanged

-----------------------------------------------------------------------------
(***************************************************************************)
(* The modem (external).  It executes one command at a time, in the order  *)
(* it receives them, and may take any time to answer.                      *)
(***************************************************************************)
ModemUnchanged == UNCHANGED <<pc, desync, callerVars, commandVars,
                              chanVars, readerVars, mutexVars>>

Send(ls) ==
    /\ fromModem' = fromModem \o ls
    /\ serial' = serial + Len(ls)

Line(kind, prefix, id, n) ==
    [kind |-> kind, prefix |-> prefix, cmd |-> id, serial |-> serial + n]

ModemTakes ==
    /\ modemUp
    /\ modem.phase \in {"idle", "pdu"}
    /\ toModem # << >>
    /\ toModem' = Tail(toModem)
    /\ LET msg == Head(toModem) IN
       IF modem.phase = "pdu"
       THEN \* text is collected until ^Z; escape abandons it
            /\ modem' = [modem EXCEPT !.phase =
                           CASE msg.kind = "pdu" -> "run"
                             [] msg.kind = "esc" -> "idle"
                             [] msg.kind = "cmd" -> "pdu"]
            /\ UNCHANGED <<fromModem, serial>>
       ELSE IF msg.kind # "cmd"
            THEN UNCHANGED <<modem, fromModem, serial>>
            ELSE IF msg.cmd.api = "sms"
                 THEN /\ modem' = [phase |-> "pdu", cmd |-> msg.cmd,
                                  owner |-> msg.owner, sent |-> 0]
                      /\ Send(<<Line("prompt", AnyPrefix, msg.owner, 1)>>)
                 ELSE /\ modem' = [phase |-> "run", cmd |-> msg.cmd,
                                  owner |-> msg.owner, sent |-> 0]
                      /\ UNCHANGED <<fromModem, serial>>
    /\ UNCHANGED <<modemUp, urcs, answered>>
    /\ ModemUnchanged

\* An intermediate line; a single-line answer has at most one of them.
ModemInfo ==
    /\ modemUp
    /\ modem.phase = "run"
    /\ modem.cmd.api \in {"raw", "singleline", "numeric", "sms", "multiline"}
    /\ modem.sent < (IF modem.cmd.api \in {"raw", "multiline"} THEN MaxInfos ELSE 1)
    /\ modem' = [modem EXCEPT !.sent = @ + 1]
    /\ Send(<<Line("info", modem.cmd.prefix, modem.owner, 1)>>)
    /\ answered' = [answered EXCEPT ![modem.owner] =
                      IF modem.cmd.id = modem.owner THEN @ \cup {serial + 1} ELSE @]
    /\ UNCHANGED <<modemUp, urcs, toModem>>
    /\ ModemUnchanged

ModemAnswers ==
    /\ modemUp
    /\ modem.phase = "run"
    /\ modem' = [modem EXCEPT !.phase = "idle"]
    /\ \E kind \in {"ok", "error"} : Send(<<Line(kind, AnyPrefix, modem.owner, 1)>>)
    /\ UNCHANGED <<modemUp, urcs, answered, toModem>>
    /\ ModemUnchanged

\* An unsolicited result code, possibly with the prefix of a pending command;
\* a message comes as two lines.
UrcLines(kind) ==
    CASE kind = "urc"       -> {<<Line("urc", p, 0, 1)>> : p \in ResponsePrefixes}
      [] kind = "nocarrier" -> {<<Line("nocarrier", AnyPrefix, 0, 1)>>}
      [] kind = "smsurc"    -> {<<Line("smsurc", AnyPrefix, 0, 1),
                                  Line("smspdu", AnyPrefix, 0, 2)>>}

ModemUrc ==
    /\ modemUp
    /\ urcs < MaxUrcs
    /\ urcs' = urcs + 1
    /\ \E kind \in AllUrcKinds : /\ kind \in scenario.urcKinds
                                 /\ \E lines \in UrcLines(kind) : Send(lines)
    /\ UNCHANGED <<modem, modemUp, answered, toModem>>
    /\ ModemUnchanged

ModemDies ==
    /\ scenario.mayDie
    /\ modemUp
    /\ modemUp' = FALSE
    /\ UNCHANGED <<modem, fromModem, serial, urcs, answered, toModem>>
    /\ ModemUnchanged

-----------------------------------------------------------------------------
CallerStep(c) ==
    \/ LockAndFormat(c) \/ Claim(c)
    \/ WaitForRequest(c) \/ RetryRequest(c)
    \/ WriteCommand(c) \/ WriteFails(c)
    \/ WaitForResponse(c) \/ RecheckResponse(c) \/ TakeResponse(c)
    \/ GiveUp(c) \/ HandshakeDone(c) \/ SendEscape(c)

CloseStep(t) == CloseTest(t) \/ CloseFd(t) \/ CloseSignal(t) \/ KickReader(t)

ReaderStep ==
    \/ TakeBufferedLine \/ StartPoll \/ PollKick \/ PollData \/ PollEof
    \/ ProcessLine \/ ReaderEof \/ ReaderReportsClosed

ModemStep == ModemTakes \/ ModemInfo \/ ModemAnswers \/ ModemUrc \/ ModemDies

\* Every call has returned and the bound on calls is reached.
Quiescent ==
    /\ \A c \in Callers : pc[c] = "idle"
    /\ pc[Reader] \in {"poll", "exit"}
    /\ calls >= scenario.calls
    /\ UNCHANGED vars

Next ==
    \/ \E c \in Callers : \/ Call(c) \/ CallerStep(c) \/ TimeOut(c)
                          \/ SpuriousWakeup(c) \/ StartClose(c)
    \/ \E t \in Threads : CloseStep(t)
    \/ ReaderStep
    \/ ModemStep
    \/ OtherContextFormats
    \/ Quiescent

Spec == Init /\ [][Next]_vars

(***************************************************************************)
(* The scheduler runs every thread that can run, a mutex is not withheld   *)
(* for ever from a thread that waits for it (the traffic is finite), and a *)
(* modem that is there takes and answers commands.  Nothing makes a thread *)
(* call or close, a wait time out, or the device go away.                  *)
(***************************************************************************)
Fairness ==
    /\ \A c \in Callers : WF_vars(CallerStep(c))
    /\ \A t \in Threads : WF_vars(CloseStep(t))
    /\ WF_vars(ReaderStep)
    /\ WF_vars(ModemTakes) /\ WF_vars(ModemAnswers)

FairSpec == Spec /\ Fairness

-----------------------------------------------------------------------------
(***************************************************************************)
(* Properties                                                              *)
(***************************************************************************)
PcTypeOK ==
    /\ pc \in [Threads -> CallerPcs \cup ReaderPcs]
    /\ \A c \in Callers : pc[c] \in CallerPcs
    /\ pc[Reader] \in ReaderPcs

ChannelTypeOK ==
    /\ fdOpen \in BOOLEAN /\ readerClosed \in BOOLEAN
    /\ commandmutex \in Callers \cup {NoOne}
    /\ requestmutex \in Callers \cup {NoOne}
    /\ strbuf \in Commands
    /\ kicks \in Nat

PendingTypeOK ==
    /\ type \in {"NO_RESULT", "NUMERIC", "SINGLELINE", "MULTILINE"}
    /\ responsePrefix \in CommandPrefixes
    /\ smsPDU \in BOOLEAN
    /\ response \in Responses \cup {NoResponse}

ReaderTypeOK ==
    /\ buffer \in Seq(Lines) /\ fromModem \in Seq(Lines) /\ line \in Lines
    /\ smsFirst \in BOOLEAN

CallerTypeOK ==
    /\ call \in [Callers -> Commands]
    /\ tries \in [Callers -> 0 .. HandshakeTries - 1]
    /\ result \in [Callers -> Results]
    /\ calls \in 0 .. MaxCalls
    /\ spurious \in Nat

WireTypeOK ==
    /\ toModem \in Seq(Messages)
    /\ modem \in ModemStates
    /\ modemUp \in BOOLEAN /\ desync \in BOOLEAN
    /\ serial \in Nat
    /\ urcs \in 0 .. MaxUrcs
    /\ answered \in [0 .. MaxCalls -> SUBSET Nat]

\* Every variable has its type; an arithmetic slip or an exit path that leaves
\* a counter or a label out of range shows here.
TypeOK ==
    /\ PcTypeOK /\ ChannelTypeOK /\ PendingTypeOK
    /\ ReaderTypeOK /\ CallerTypeOK /\ WireTypeOK

\* The labels at which a caller holds commandmutex, and at which its command
\* is the pending one.
HoldingLabels == {"claim", "write", "check", "hsSleep"}
PendingLabels == {"write", "check", "waitResp", "wokenResp", "timedOut"}

(***************************************************************************)
(* ac->response is set exactly while one command, the one that holds       *)
(* requestmutex, is being written or waited for.  So a response is never   *)
(* shared, never freed under a waiter, never left behind by an error path  *)
(* (timeout, failed write, closed channel), and the COMMAND_PENDING exit   *)
(* of at_send_command_full_nolock is never taken.                          *)
(***************************************************************************)
PendingDiscipline ==
    /\ response = NoResponse <=> requestmutex = NoOne
    /\ \A c \in Callers : requestmutex = c <=> pc[c] \in PendingLabels
    /\ \A c \in Callers : result[c].err # "COMMAND_PENDING"

\* A thread runs the code between lock and unlock (or a condition wait) of
\* commandmutex only while it holds it, so two threads are never in it.
MutexDiscipline ==
    \A c \in Callers : commandmutex = c <=> pc[c] \in HoldingLabels

(***************************************************************************)
(* Nobody sleeps through an event: a thread waits on commandcond only      *)
(* while its answer is missing and the channel open (or a close that will  *)
(* signal is under way), and waits on requestcond only while another       *)
(* command is pending.                                                     *)
(***************************************************************************)
NoMissedSignal ==
    \A c \in Callers :
        /\ pc[c] = "waitResp" => response.final = NoLine /\ ~readerClosed
        /\ pc[c] = "waitReq" => requestmutex # NoOne

\* Types and locks: what the proofs carry from step to step.
LockInv == TypeOK /\ PendingDiscipline /\ MutexDiscipline /\ NoMissedSignal

(***************************************************************************)
(* A command that returns a final response returns its own: the answer of  *)
(* one command is never taken for the answer of another.                   *)
(***************************************************************************)
OwnAnswer(c) ==
    result[c].final # NoLine =>
        \/ result[c].final.kind = "nocarrier"
        \/ result[c].final.cmd = result[c].id

AnswersOwnCommand == \A c \in Callers : OwnAnswer(c)

\* The same as long as no command timed out or was ended by an unsolicited
\* NO CARRIER ("Sometimes!"): only these put the channel out of step.
AnswersOwnCommandInSync == desync \/ AnswersOwnCommand

\* And a thread that has the channel for itself always gets its own answer: a command
\* that times out closes the channel, unlike a handshake.
AloneOnChannel ==
    /\ \E c \in Callers : scenario.callers = {c}
    /\ "handshake" \notin scenario.apis /\ "nocarrier" \notin scenario.urcKinds

AnswersItsCommand ==
    AnswersOwnCommandInSync /\ (AloneOnChannel => AnswersOwnCommand)

(***************************************************************************)
(* What a successful command hands out: lines in the order the modem sent  *)
(* them (they are stored in reverse), its own or unsolicited ones; one at  *)
(* most for the single-line types, at least one where the wrapper insists; *)
(* and for the multi-line types every line of the answer to its text.  (A  *)
(* text another call was formatted over, see WritesOwnCommand, is answered *)
(* with lines of another prefix: to processLine these are unsolicited.)    *)
(***************************************************************************)
Complete(r) ==
    /\ \A i, j \in DOMAIN r.infos : i < j => r.infos[i].serial < r.infos[j].serial
    /\ \A i \in DOMAIN r.infos : r.infos[i].cmd \in {r.id, 0}
    /\ NeedsIntermediate(r.api) => r.infos # << >>
    /\ IF TypeOfApi(r.api) = "MULTILINE"
       THEN \A n \in answered[r.id] : \E i \in DOMAIN r.infos : r.infos[i].serial = n
       ELSE Len(r.infos) <= 1

IntermediatesComplete ==
    ~desync => \A c \in Callers : result[c].err = "NOERROR" => Complete(result[c])

(***************************************************************************)
(* The command text on the wire is the text of the caller whose command is *)
(* pending, although every text is formatted into one buffer: unless it    *)
(* had to wait for another command ("to prevent future problems due to     *)
(* calls from other threads"), which lets a third be formatted over it.    *)
(***************************************************************************)
WritesOwnCommand ==
    [][\A c \in Callers :
         pc[c] = "write" /\ pc'[c] = "check" =>
             Last(toModem').cmd = call[c] \/ c \in reformatted]_vars

\* Every command that is issued returns, whether the modem answers, the
\* device goes away or another thread closes the channel, also without any
\* timeout: no wake-up is lost and no lock is left held.
CommandReturns ==
    \A c \in Callers : (pc[c] # "idle") ~> (pc[c] = "idle")

\* Once the channel is closed its reader thread ends, even when it was blocked
\* in poll: at_close wakes it through the pipe.
ReaderEnds == ~fdOpen ~> (pc[Reader] = "exit")
=============================================================================
