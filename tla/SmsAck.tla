------------------------------- MODULE SmsAck -------------------------------
(***************************************************************************)
(* Delivery of incoming messages to the framework                          *)
(* (mbm-ril/u300-ril-messaging.c).  An SMS or a status report asks for an  *)
(* acknowledgement, and only one may be without it; a cell broadcast asks  *)
(* for none but waits for the outstanding one.  Everything that comes in   *)
(* between is held in s_held_pdus.                                         *)
(*                                                                         *)
(* The handlers of unsolicited lines run on the reader thread and          *)
(* requestSMSAcknowledge on a queue runner; each is one section under      *)
(* s_held_pdus_mutex, which also covers the call into the framework.       *)
(* processRequest refuses the acknowledgement unless the radio state lets  *)
(* it through, and onUnsolicited drops every line while it is UNAVAILABLE. *)
(***************************************************************************)
EXTENDS Integers, Sequences, SequencesExt

CONSTANTS
    RadioStates,    \* the radio states the model visits
    MaxPdus,        \* bound: messages that arrive
    MaxChanges      \* bound: changes of the radio state

\* BLOCKED stands for OFF, SIM_NOT_READY and SIM_LOCKED_OR_ABSENT, in which
\* processRequest refuses RIL_REQUEST_SMS_ACKNOWLEDGE.
AllRadioStates == {"UNAVAILABLE", "BLOCKED", "SIM_READY"}

ASSUME RadioAssumption == RadioStates \subseteq AllRadioStates /\ "SIM_READY" \in RadioStates
ASSUME BoundAssumption == MaxPdus \in Nat /\ MaxChanges \in Nat

\* OUTSTANDING_SMS and OUTSTANDING_STATUS need an acknowledgement, OUTSTANDING_CB
\* does not.  A PDU is numbered in the order of arrival.
AckedTypes == {"SMS", "STATUS"}
Pdu == [type : AckedTypes \cup {"CB"}, id : Nat \ {0}]

VARIABLES
    s_outstanding_acknowledge,
    s_held_pdus,
    radio,          \* getRadioState()
    sent,           \* messages handed to the framework, in order
    unacked,        \* of those, how many it has yet to acknowledge
    acks,           \* RIL_REQUEST_SMS_ACKNOWLEDGE in the request queue
    arrived,        \* messages that arrived
    changes         \* changes of the radio state

frameVars == <<radio, changes>>
vars == <<s_outstanding_acknowledge, s_held_pdus, sent, unacked, acks, arrived, frameVars>>

Init ==
    /\ s_outstanding_acknowledge = FALSE
    /\ s_held_pdus = << >>
    /\ radio = "SIM_READY"
    /\ sent = << >>
    /\ unacked = 0
    /\ acks = 0
    /\ arrived = 0
    /\ changes = 0

-----------------------------------------------------------------------------
(***************************************************************************)
(* Unsolicited lines, on the reader thread.                                *)
(***************************************************************************)
\* enqueue_held_pdu
Hold(pdu) == s_held_pdus' = Append(s_held_pdus, pdu)

\* A line comes in; onUnsolicited passes it on.
Arrives ==
    /\ arrived < MaxPdus
    /\ radio # "UNAVAILABLE"
    /\ arrived' = arrived + 1

\* Defect: the flag is not set.
MarkNothing == UNCHANGED s_outstanding_acknowledge

MarkOutstanding == s_outstanding_acknowledge' = TRUE

\* The common part of onNewSms and onNewStatusReport.
NewAcked(type) ==
    LET pdu == [type |-> type, id |-> arrived + 1]
    IN  /\ Arrives
        /\ IF s_outstanding_acknowledge
           THEN /\ Hold(pdu)
                /\ UNCHANGED <<s_outstanding_acknowledge, sent, unacked>>
           ELSE /\ MarkOutstanding
                /\ sent' = Append(sent, pdu)
                /\ unacked' = unacked + 1
                /\ UNCHANGED s_held_pdus
        /\ UNCHANGED <<acks, frameVars>>

onNewSms == NewAcked("SMS")

onNewStatusReport == NewAcked("STATUS")

onNewBroadcastSms ==
    LET pdu == [type |-> "CB", id |-> arrived + 1]
    IN  /\ Arrives
        /\ IF s_outstanding_acknowledge
           THEN Hold(pdu) /\ UNCHANGED sent
           ELSE sent' = Append(sent, pdu) /\ UNCHANGED s_held_pdus
        /\ UNCHANGED <<s_outstanding_acknowledge, unacked, acks, frameVars>>

-----------------------------------------------------------------------------
(***************************************************************************)
(* The framework, and the acknowledgement it requests.                     *)
(***************************************************************************)
\* The framework acknowledges the message it was given.
FrameworkAcks ==
    /\ unacked > 0
    /\ unacked' = unacked - 1
    /\ acks' = acks + 1
    /\ UNCHANGED <<s_outstanding_acknowledge, s_held_pdus, sent, arrived, frameVars>>

\* Defect: the last message that needs an acknowledgement comes first.
NewestAcked ==
    {i \in 1 .. Len(s_held_pdus) :
        /\ s_held_pdus[i].type \in AckedTypes
        /\ \A j \in i + 1 .. Len(s_held_pdus) : s_held_pdus[j].type \notin AckedTypes}

\* dequeue_held_pdu(OUTSTANDING_SMS | OUTSTANDING_STATUS): the place of the
\* oldest held message that needs an acknowledgement, if there is one.
OldestAcked ==
    {i \in 1 .. Len(s_held_pdus) :
        /\ s_held_pdus[i].type \in AckedTypes
        /\ \A j \in 1 .. i - 1 : s_held_pdus[j].type \notin AckedTypes}

\* requestSMSAcknowledge sends the oldest message that needs an acknowledgement;
\* "still need an ACK. Break out of the loop".
AcknowledgeNext ==
    /\ acks > 0
    /\ radio = "SIM_READY"
    /\ acks' = acks - 1
    /\ \E i \in OldestAcked :
           /\ sent' = Append(sent, s_held_pdus[i])
           /\ s_held_pdus' = RemoveAt(s_held_pdus, i)
    /\ unacked' = unacked + 1
    /\ UNCHANGED <<s_outstanding_acknowledge, arrived, frameVars>>

\* Defect: the loop ends after the first broadcast.
SendOneHeld ==
    IF s_held_pdus = << >> THEN UNCHANGED <<sent, s_held_pdus>>
    ELSE /\ sent' = Append(sent, Head(s_held_pdus))
         /\ s_held_pdus' = Tail(s_held_pdus)

SendAllHeld ==
    /\ sent' = sent \o s_held_pdus
    /\ s_held_pdus' = << >>

\* There is none: "just send them all".
AcknowledgeLast ==
    /\ acks > 0
    /\ radio = "SIM_READY"
    /\ OldestAcked = {}
    /\ acks' = acks - 1
    /\ SendAllHeld
    /\ s_outstanding_acknowledge' = FALSE
    /\ UNCHANGED <<unacked, arrived, frameVars>>

requestSMSAcknowledge == AcknowledgeNext \/ AcknowledgeLast

\* processRequest completes the request with an error and does not call the
\* handler.
AcknowledgeRefused ==
    /\ acks > 0
    /\ radio # "SIM_READY"
    /\ acks' = acks - 1
    /\ UNCHANGED <<s_outstanding_acknowledge, s_held_pdus, sent, unacked, arrived,
                   frameVars>>

RadioChanges ==
    /\ changes < MaxChanges
    /\ changes' = changes + 1
    /\ radio' \in RadioStates \ {radio}
    /\ UNCHANGED <<s_outstanding_acknowledge, s_held_pdus, sent, unacked, acks, arrived>>

\* Every bound is used up and nothing is pending: the model stops here.
Quiescent ==
    /\ arrived = MaxPdus \/ radio = "UNAVAILABLE"
    /\ unacked = 0
    /\ acks = 0
    /\ UNCHANGED vars

Next ==
    \/ onNewSms \/ onNewStatusReport \/ onNewBroadcastSms
    \/ FrameworkAcks \/ requestSMSAcknowledge \/ AcknowledgeRefused
    \/ RadioChanges
    \/ Quiescent

Spec == Init /\ [][Next]_vars

\* The framework acknowledges what it gets, and the queue runner serves it.
LiveSpec == Spec /\ WF_vars(FrameworkAcks) /\ WF_vars(requestSMSAcknowledge)

-----------------------------------------------------------------------------
(***************************************************************************)
(* Properties.                                                             *)
(***************************************************************************)
TypeOK ==
    /\ s_outstanding_acknowledge \in BOOLEAN
    /\ s_held_pdus \in Seq(Pdu)
    /\ radio \in AllRadioStates
    /\ sent \in Seq(Pdu)
    /\ {unacked, acks, arrived, changes} \subseteq Nat

\* "No RIL_UNSOL_RESPONSE_NEW_SMS or ..._STATUS_REPORT messages should be sent
\* until a RIL_REQUEST_SMS_ACKNOWLEDGE has been received for previous new SMS
\* or status": at most one message is with the framework or on its way back as
\* an acknowledgement, whatever the radio does, and the flag knows of it.
AtMostOneUnacknowledged ==
    unacked + acks <= IF s_outstanding_acknowledge THEN 1 ELSE 0

\* A held message always has an acknowledgement to wait for: when the flag is
\* clear the list is empty, or nothing would ever send it.
HeldOnlyWhileOutstanding ==
    s_held_pdus # << >> => s_outstanding_acknowledge

\* The discipline of the acknowledgement.
AckInv == TypeOK /\ AtMostOneUnacknowledged /\ HeldOnlyWhileOutstanding

\* Whether two messages are of the same kind: in need of an acknowledgement.
SameKind(p, q) == p.type \in AckedTypes <=> q.type \in AckedTypes

Ids(list) == {list[i].id : i \in 1 .. Len(list)}

\* No message of a list overtakes an older one of its kind.
InOrder(list) ==
    \A i, j \in 1 .. Len(list) :
        i < j /\ SameKind(list[i], list[j]) => list[i].id < list[j].id

\* Messages are neither lost nor duplicated nor reordered among their kind:
\* everything that arrived was sent or is held, and what is held is younger than
\* all that was sent of its kind.
KeptInOrder ==
    /\ Ids(sent) \cup Ids(s_held_pdus) = 1 .. arrived
    /\ InOrder(sent)
    /\ InOrder(s_held_pdus)
    /\ \A i \in 1 .. Len(sent), j \in 1 .. Len(s_held_pdus) :
           SameKind(sent[i], s_held_pdus[j]) => sent[i].id < s_held_pdus[j].id

\* Every message that arrives is sent, if no acknowledgement ever meets a radio
\* that is not ready: processRequest would refuse it and nothing repeats it.
EveryPduSent ==
    [](acks > 0 => radio = "SIM_READY")
        => \A n \in 1 .. MaxPdus : arrived >= n ~> n \in Ids(sent)
=============================================================================
