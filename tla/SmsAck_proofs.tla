---------------------------- MODULE SmsAck_proofs ----------------------------
(***************************************************************************)
(* Proofs about SmsAck, for any number of messages and any behaviour of    *)
(* the radio.                                                              *)
(*                                                                         *)
(* The discipline of the acknowledgement (AckInv) is inductive given the   *)
(* types.  The order of the messages then rests on                         *)
(* HeldOnlyWhileOutstanding: a message is sent directly only when none is  *)
(* held.                                                                   *)
(***************************************************************************)
EXTENDS SmsAck, TLAPS, SequenceTheorems

\* RemoveAt closes the gap.
LEMMA RemoveAtProperties ==
    ASSUME NEW S, NEW s \in Seq(S), NEW k \in 1 .. Len(s)
    PROVE  /\ RemoveAt(s, k) \in Seq(S)
           /\ Len(RemoveAt(s, k)) = Len(s) - 1
           /\ \A i \in 1 .. Len(s) - 1 :
                RemoveAt(s, k)[i] = IF i < k THEN s[i] ELSE s[i + 1]
<1> DEFINE a == SubSeq(s, 1, k - 1)
           b == SubSeq(s, k + 1, Len(s))
<1>1. Len(s) \in Nat /\ \A i \in 1 .. Len(s) : s[i] \in S
  OBVIOUS
<1>2. /\ a \in Seq(S) /\ Len(a) = k - 1
      /\ \A i \in 1 .. k - 1 : a[i] = s[i]
  BY <1>1, SubSeqProperties
<1>3. /\ b \in Seq(S) /\ Len(b) = Len(s) - k
      /\ \A i \in 1 .. Len(s) - k : b[i] = s[k + i]
  <2>1. \A i \in k + 1 .. Len(s) : s[i] \in S
    BY <1>1
  <2>2. /\ b \in Seq(S)
        /\ Len(b) = IF k + 1 <= Len(s) THEN (Len(s) - (k + 1)) + 1 ELSE 0
        /\ \A i \in 1 .. (Len(s) - (k + 1)) + 1 : b[i] = s[((k + 1) + i) - 1]
    BY <1>1, <2>1, SubSeqProperties
  <2>3. (Len(s) - (k + 1)) + 1 = Len(s) - k
    BY <1>1
  <2>4. \A i \in 1 .. Len(s) - k : ((k + 1) + i) - 1 = k + i
    BY <1>1
  <2>5. Len(b) = Len(s) - k
    BY <1>1, <2>2
  <2>6. ASSUME NEW i \in 1 .. Len(s) - k PROVE b[i] = s[k + i]
    BY <2>2, <2>3, <2>4
  <2> QED BY <2>2, <2>5, <2>6
<1> DEFINE r == a \o b
<1>4. RemoveAt(s, k) = r
  BY DEF RemoveAt, r, a, b
<1> HIDE DEF a, b
<1>5. Len(a) + Len(b) = Len(s) - 1
  BY <1>1, <1>2, <1>3
<1>6. /\ r \in Seq(S) /\ Len(r) = Len(s) - 1
      /\ \A i \in 1 .. Len(s) - 1 : r[i] = IF i <= k - 1 THEN a[i] ELSE b[i - (k - 1)]
  <2>1. /\ r \in Seq(S) /\ Len(r) = Len(a) + Len(b)
        /\ \A i \in 1 .. Len(a) + Len(b) :
              r[i] = IF i <= Len(a) THEN a[i] ELSE b[i - Len(a)]
    BY <1>2, <1>3, ConcatProperties
  <2> QED BY <1>2, <1>5, <2>1
<1> HIDE DEF r
<1>7. ASSUME NEW i \in 1 .. Len(s) - 1
      PROVE  r[i] = IF i < k THEN s[i] ELSE s[i + 1]
  <2>1. CASE i < k
    <3>1. i \in 1 .. k - 1 /\ i <= k - 1
      BY <1>1, <2>1
    <3> QED BY <1>2, <1>6, <2>1, <3>1
  <2>2. CASE ~(i < k)
    <3>1. i - (k - 1) \in 1 .. Len(s) - k /\ k + (i - (k - 1)) = i + 1 /\ ~(i <= k - 1)
      BY <1>1, <2>2
    <3>2. b[i - (k - 1)] = s[i + 1]
      BY <1>3, <3>1
    <3> QED BY <1>6, <2>2, <3>1, <3>2
  <2> QED BY <2>1, <2>2
<1> QED BY <1>4, <1>6, <1>7

-----------------------------------------------------------------------------
(***************************************************************************)
(* Types and the discipline of the acknowledgement.                        *)
(***************************************************************************)

LEMMA InitAck == Init => AckInv
<1> SUFFICES ASSUME Init PROVE AckInv
  OBVIOUS
<1>1. << >> \in Seq(Pdu)
  OBVIOUS
<1>2. TypeOK
  <2>1. s_outstanding_acknowledge \in BOOLEAN
    BY DEF Init
  <2>2. {unacked, acks, arrived, changes} \subseteq Nat
    BY DEF Init
  <2> QED BY <1>1, <2>1, <2>2 DEF Init, TypeOK, AllRadioStates
<1>3. AtMostOneUnacknowledged
  <2>1. unacked = 0 /\ acks = 0 /\ s_outstanding_acknowledge = FALSE
    BY DEF Init
  <2> QED BY <2>1 DEF AtMostOneUnacknowledged
<1>4. HeldOnlyWhileOutstanding
  BY DEF Init, HeldOnlyWhileOutstanding
<1> QED BY <1>2, <1>3, <1>4 DEF AckInv

\* A new message, held or sent, is a PDU.
LEMMA AppendPdu ==
    ASSUME TypeOK, NEW type \in AckedTypes \cup {"CB"}
    PROVE  LET pdu == [type |-> type, id |-> arrived + 1]
           IN  /\ pdu \in Pdu
               /\ Append(s_held_pdus, pdu) \in Seq(Pdu) /\ Append(s_held_pdus, pdu) # << >>
               /\ Append(sent, pdu) \in Seq(Pdu)
<1> DEFINE pdu == [type |-> type, id |-> arrived + 1]
<1>1. pdu \in Pdu
  BY DEF TypeOK, Pdu
<1> HIDE DEF pdu
<1>2. /\ Append(s_held_pdus, pdu) \in Seq(Pdu) /\ Append(s_held_pdus, pdu) # << >>
      /\ Append(sent, pdu) \in Seq(Pdu)
  <2>1. s_held_pdus \in Seq(Pdu) /\ sent \in Seq(Pdu)
    BY DEF TypeOK
  <2> QED BY <1>1, <2>1, AppendProperties
<1> QED BY <1>1, <1>2 DEF pdu

LEMMA NextAck == AckInv /\ [Next]_vars => AckInv'
<1> SUFFICES ASSUME AckInv, [Next]_vars PROVE AckInv'
  OBVIOUS
<1> USE DEF AckInv, AtMostOneUnacknowledged, HeldOnlyWhileOutstanding
<1>0. TypeOK
  OBVIOUS
<1>1. ASSUME NEW type \in AckedTypes, NewAcked(type) PROVE AckInv'
  <2> DEFINE pdu == [type |-> type, id |-> arrived + 1]
  <2>1. /\ Append(s_held_pdus, pdu) \in Seq(Pdu)
        /\ Append(s_held_pdus, pdu) # << >> /\ Append(sent, pdu) \in Seq(Pdu)
    BY <1>0, AppendPdu
  <2> HIDE DEF pdu
  <2>2. CASE s_outstanding_acknowledge
    <3>1. /\ s_held_pdus' = Append(s_held_pdus, pdu)
          /\ arrived' = arrived + 1
          /\ UNCHANGED <<s_outstanding_acknowledge, sent, unacked, acks, frameVars>>
      BY <1>1, <2>2 DEF NewAcked, Hold, Arrives, pdu
    <3> QED BY <2>1, <2>2, <3>1 DEF TypeOK, frameVars
  <2>3. CASE ~s_outstanding_acknowledge
    <3>1. /\ s_outstanding_acknowledge' = TRUE
          /\ sent' = Append(sent, pdu)
          /\ unacked' = unacked + 1 /\ arrived' = arrived + 1
          /\ UNCHANGED <<s_held_pdus, acks, frameVars>>
      BY <1>1, <2>3 DEF NewAcked, MarkOutstanding, Arrives, pdu
    <3> QED BY <2>1, <2>3, <3>1 DEF TypeOK, frameVars
  <2> QED BY <2>2, <2>3
<1>2. CASE onNewBroadcastSms
  <2> DEFINE pdu == [type |-> "CB", id |-> arrived + 1]
  <2>1. /\ Append(s_held_pdus, pdu) \in Seq(Pdu)
        /\ Append(s_held_pdus, pdu) # << >> /\ Append(sent, pdu) \in Seq(Pdu)
    BY <1>0, AppendPdu
  <2> HIDE DEF pdu
  <2>2. /\ IF s_outstanding_acknowledge
           THEN s_held_pdus' = Append(s_held_pdus, pdu) /\ UNCHANGED sent
           ELSE sent' = Append(sent, pdu) /\ UNCHANGED s_held_pdus
        /\ arrived' = arrived + 1
        /\ UNCHANGED <<s_outstanding_acknowledge, unacked, acks, frameVars>>
    BY <1>2 DEF onNewBroadcastSms, Hold, Arrives, pdu
  <2>3. CASE s_outstanding_acknowledge
    <3>1. s_held_pdus' = Append(s_held_pdus, pdu) /\ UNCHANGED sent
      BY <2>2, <2>3
    <3> QED BY <2>1, <2>2, <2>3, <3>1 DEF TypeOK, frameVars
  <2>4. CASE ~s_outstanding_acknowledge
    <3>1. sent' = Append(sent, pdu) /\ UNCHANGED s_held_pdus
      BY <2>2, <2>4
    <3> QED BY <2>1, <2>2, <2>4, <3>1 DEF TypeOK, frameVars
  <2> QED BY <2>3, <2>4
<1>3. CASE FrameworkAcks \/ AcknowledgeRefused
  BY <1>3 DEF FrameworkAcks, AcknowledgeRefused, TypeOK, frameVars
<1>4. CASE AcknowledgeNext
  <2>1. PICK i \in OldestAcked : /\ sent' = Append(sent, s_held_pdus[i])
                                 /\ s_held_pdus' = RemoveAt(s_held_pdus, i)
    BY <1>4 DEF AcknowledgeNext
  <2>2. i \in 1 .. Len(s_held_pdus) /\ s_held_pdus[i] \in Pdu /\ s_held_pdus # << >>
    BY DEF OldestAcked, TypeOK
  <2>3. s_held_pdus' \in Seq(Pdu) /\ sent' \in Seq(Pdu)
    BY <2>1, <2>2, RemoveAtProperties DEF TypeOK
  <2>4. /\ acks' = acks - 1 /\ acks > 0 /\ unacked' = unacked + 1
        /\ UNCHANGED <<s_outstanding_acknowledge, arrived, radio, changes>>
    BY <1>4 DEF AcknowledgeNext, frameVars
  <2> QED BY <2>2, <2>3, <2>4 DEF TypeOK
<1>5. CASE AcknowledgeLast
  <2>1. sent' \in Seq(Pdu) /\ s_held_pdus' \in Seq(Pdu) /\ s_held_pdus' = << >>
    BY <1>5, ConcatProperties DEF AcknowledgeLast, SendAllHeld, TypeOK
  <2>2. /\ acks' = acks - 1 /\ acks > 0 /\ s_outstanding_acknowledge' = FALSE
        /\ UNCHANGED <<unacked, arrived, radio, changes>>
    BY <1>5 DEF AcknowledgeLast, frameVars
  <2>3. acks + unacked <= 1 /\ acks \in Nat /\ unacked \in Nat
    BY DEF TypeOK
  <2>4. acks' \in Nat /\ unacked' + acks' <= 0
    BY <2>2, <2>3
  <2> QED BY <2>1, <2>2, <2>4 DEF TypeOK
<1>6. CASE RadioChanges
  BY <1>6, RadioAssumption DEF RadioChanges, TypeOK
<1>7. CASE UNCHANGED vars
  BY <1>7 DEF vars, TypeOK, frameVars
<1>8. CASE Quiescent
  BY <1>7, <1>8 DEF Quiescent
<1> QED
  BY <1>1, <1>2, <1>3, <1>4, <1>5, <1>6, <1>7, <1>8
  DEF Next, onNewSms, onNewStatusReport, requestSMSAcknowledge, AckedTypes

\* Types, and the acknowledgement the framework owes: at most one, and nothing held
\* without it (onNewSms, requestSMSAcknowledge).
THEOREM AckCorrect == Spec => []AckInv
<1>1. Init => AckInv
  BY InitAck
<1>2. AckInv /\ [Next]_vars => AckInv'
  BY NextAck
<1> QED BY <1>1, <1>2, PTL DEF Spec

\* At most one message is unacknowledged, whatever arrives and whatever the
\* radio does.
THEOREM OneUnacknowledged == Spec => []AtMostOneUnacknowledged
<1>1. AckInv => AtMostOneUnacknowledged
  BY DEF AckInv
<1> QED BY <1>1, AckCorrect, PTL

\* Nothing is held without an acknowledgement outstanding.
THEOREM NothingHeldForEver == Spec => []HeldOnlyWhileOutstanding
<1>1. AckInv => HeldOnlyWhileOutstanding
  BY DEF AckInv
<1> QED BY <1>1, AckCorrect, PTL

-----------------------------------------------------------------------------
(***************************************************************************)
(* The order of the messages.                                              *)
(***************************************************************************)

\* A message younger than those of its kind may go to the end of a list.
LEMMA AppendInOrder ==
    ASSUME NEW list \in Seq(Pdu), NEW pdu \in Pdu, InOrder(list),
           \A i \in 1 .. Len(list) : SameKind(list[i], pdu) => list[i].id < pdu.id
    PROVE  /\ InOrder(Append(list, pdu))
           /\ Ids(Append(list, pdu)) = Ids(list) \cup {pdu.id}
<1> DEFINE r == Append(list, pdu)
<1>1. Len(list) \in Nat
  OBVIOUS
<1>2. /\ Len(r) = Len(list) + 1
      /\ \A i \in 1 .. Len(list) : r[i] = list[i]
      /\ r[Len(list) + 1] = pdu
  BY AppendProperties
<1> HIDE DEF r
<1>3. ASSUME NEW i \in 1 .. Len(r), NEW j \in 1 .. Len(r), i < j, SameKind(r[i], r[j])
      PROVE  r[i].id < r[j].id
  <2>1. i \in 1 .. Len(list) /\ r[i] = list[i]
    BY <1>1, <1>2, <1>3
  <2>2. CASE j = Len(list) + 1
    BY <1>2, <1>3, <2>1, <2>2
  <2>3. CASE j # Len(list) + 1
    <3>1. j \in 1 .. Len(list) /\ r[j] = list[j]
      BY <1>1, <1>2, <2>3
    <3> QED BY <1>3, <2>1, <3>1 DEF InOrder
  <2> QED BY <2>2, <2>3
<1>4. Ids(r) = Ids(list) \cup {pdu.id}
  <2>1. \A i \in 1 .. Len(r) : i \in 1 .. Len(list) \/ i = Len(list) + 1
    BY <1>1, <1>2
  <2>2. \A i \in 1 .. Len(list) : i \in 1 .. Len(r)
    BY <1>1, <1>2
  <2>3. Len(list) + 1 \in 1 .. Len(r)
    BY <1>1, <1>2
  <2> QED BY <1>2, <2>1, <2>2, <2>3 DEF Ids
<1> QED BY <1>3, <1>4 DEF InOrder, r

\* A message that arrives is younger than all before it.
LEMMA NewPduYoungest ==
    ASSUME TypeOK, KeptInOrder
    PROVE  /\ \A i \in 1 .. Len(sent) : sent[i].id < arrived + 1
           /\ \A i \in 1 .. Len(s_held_pdus) : s_held_pdus[i].id < arrived + 1
<1>1. arrived \in Nat
  BY DEF TypeOK
<1>2. \A i \in 1 .. Len(sent) : sent[i].id \in 1 .. arrived
  BY DEF KeptInOrder, Ids
<1>3. \A i \in 1 .. Len(s_held_pdus) : s_held_pdus[i].id \in 1 .. arrived
  BY DEF KeptInOrder, Ids
<1> QED BY <1>1, <1>2, <1>3

\* Holding a message that arrives, or sending it when none is held.
LEMMA ArrivalInOrder ==
    ASSUME TypeOK, KeptInOrder, NEW type \in AckedTypes \cup {"CB"},
           arrived' = arrived + 1,
           LET pdu == [type |-> type, id |-> arrived + 1]
           IN  \/ /\ s_held_pdus' = Append(s_held_pdus, pdu)
                  /\ sent' = sent
               \/ /\ sent' = Append(sent, pdu)
                  /\ s_held_pdus' = s_held_pdus
                  /\ s_held_pdus = << >>
    PROVE  KeptInOrder'
<1> DEFINE pdu == [type |-> type, id |-> arrived + 1]
<1>1. /\ arrived \in Nat /\ s_held_pdus \in Seq(Pdu) /\ sent \in Seq(Pdu)
      /\ Len(s_held_pdus) \in Nat /\ Len(sent) \in Nat
  BY DEF TypeOK
<1>2. pdu \in Pdu /\ pdu.id = arrived + 1
  BY <1>1 DEF Pdu
<1>3. \/ /\ s_held_pdus' = Append(s_held_pdus, pdu)
         /\ sent' = sent
      \/ /\ sent' = Append(sent, pdu)
         /\ s_held_pdus' = s_held_pdus
         /\ s_held_pdus = << >>
  OBVIOUS
<1> HIDE DEF pdu
<1>4. 1 .. arrived + 1 = 1 .. arrived \cup {arrived + 1}
  BY <1>1
<1>5. CASE s_held_pdus' = Append(s_held_pdus, pdu) /\ sent' = sent
  <2>1. /\ InOrder(s_held_pdus')
        /\ Ids(s_held_pdus') = Ids(s_held_pdus) \cup {arrived + 1}
    BY <1>1, <1>2, <1>5, NewPduYoungest, AppendInOrder DEF KeptInOrder
  <2>2. /\ Len(s_held_pdus') = Len(s_held_pdus) + 1
        /\ \A j \in 1 .. Len(s_held_pdus) : s_held_pdus'[j] = s_held_pdus[j]
        /\ s_held_pdus'[Len(s_held_pdus) + 1] = pdu
    BY <1>1, <1>2, <1>5, AppendProperties
  <2>3. ASSUME NEW i \in 1 .. Len(sent), NEW j \in 1 .. Len(s_held_pdus'),
               SameKind(sent[i], s_held_pdus'[j])
        PROVE  sent[i].id < s_held_pdus'[j].id
    <3>1. CASE j = Len(s_held_pdus) + 1
      BY <1>2, <2>2, <3>1, NewPduYoungest
    <3>2. CASE j # Len(s_held_pdus) + 1
      <4>1. j \in 1 .. Len(s_held_pdus)
        BY <1>1, <2>2, <3>2
      <4> QED BY <2>2, <2>3, <4>1 DEF KeptInOrder
    <3> QED BY <3>1, <3>2
  <2>4. Ids(sent') \cup Ids(s_held_pdus') = 1 .. arrived'
    <3>1. Ids(sent') = Ids(sent) /\ arrived' = arrived + 1
      BY <1>5 DEF Ids
    <3> QED BY <1>4, <2>1, <3>1 DEF KeptInOrder
  <2>5. InOrder(sent')
    BY <1>5 DEF KeptInOrder, InOrder
  <2> QED BY <1>5, <2>1, <2>3, <2>4, <2>5 DEF KeptInOrder
<1>6. CASE sent' = Append(sent, pdu) /\ s_held_pdus' = s_held_pdus /\ s_held_pdus = << >>
  <2>1. /\ InOrder(sent')
        /\ Ids(sent') = Ids(sent) \cup {arrived + 1}
    BY <1>1, <1>2, <1>6, NewPduYoungest, AppendInOrder DEF KeptInOrder
  <2>2. Len(s_held_pdus') = 0
    BY <1>6
  <2>3. Ids(s_held_pdus') = {} /\ Ids(s_held_pdus) = {} /\ InOrder(s_held_pdus')
    BY <1>6, <2>2 DEF Ids, InOrder
  <2>4. Ids(sent') \cup Ids(s_held_pdus') = 1 .. arrived'
    BY <1>4, <2>1, <2>3 DEF KeptInOrder
  <2> QED BY <2>1, <2>2, <2>3, <2>4 DEF KeptInOrder
<1> QED BY <1>3, <1>5, <1>6

\* Taking the oldest message that needs an acknowledgement out of the list.
LEMMA NextInOrder ==
    ASSUME TypeOK, KeptInOrder, NEW k \in OldestAcked,
           sent' = Append(sent, s_held_pdus[k]),
           s_held_pdus' = RemoveAt(s_held_pdus, k),
           arrived' = arrived
    PROVE  KeptInOrder'
<1> DEFINE e == s_held_pdus[k]
           Old(i) == IF i < k THEN i ELSE i + 1
<1>1. /\ s_held_pdus \in Seq(Pdu) /\ sent \in Seq(Pdu)
      /\ Len(s_held_pdus) \in Nat /\ Len(sent) \in Nat
  BY DEF TypeOK
<1>2. /\ k \in 1 .. Len(s_held_pdus) /\ e \in Pdu /\ e.type \in AckedTypes
      /\ \A j \in 1 .. k - 1 : s_held_pdus[j].type \notin AckedTypes
  BY <1>1 DEF OldestAcked
<1>3. /\ Len(s_held_pdus') = Len(s_held_pdus) - 1
      /\ \A i \in 1 .. Len(s_held_pdus') :
            /\ s_held_pdus'[i] = s_held_pdus[Old(i)]
            /\ Old(i) \in 1 .. Len(s_held_pdus) /\ Old(i) # k
  <2>1. /\ Len(s_held_pdus') = Len(s_held_pdus) - 1
        /\ \A i \in 1 .. Len(s_held_pdus) - 1 :
              s_held_pdus'[i] = IF i < k THEN s_held_pdus[i] ELSE s_held_pdus[i + 1]
    BY <1>1, <1>2, RemoveAtProperties
  <2>2. ASSUME NEW i \in 1 .. Len(s_held_pdus')
        PROVE  /\ s_held_pdus'[i] = s_held_pdus[Old(i)]
               /\ Old(i) \in 1 .. Len(s_held_pdus) /\ Old(i) # k
    <3>1. i \in 1 .. Len(s_held_pdus) - 1
      BY <2>1
    <3>2. CASE i < k
      BY <1>1, <1>2, <2>1, <3>1, <3>2
    <3>3. CASE ~(i < k)
      BY <1>1, <1>2, <2>1, <3>1, <3>3
    <3> QED BY <3>2, <3>3
  <2> QED BY <2>1, <2>2
<1>4. \A i, j \in 1 .. Len(s_held_pdus') : i < j => Old(i) < Old(j)
  BY <1>1, <1>2, <1>3
<1>5. \A n \in 1 .. Len(s_held_pdus) :
          n = k \/ \E i \in 1 .. Len(s_held_pdus') : s_held_pdus'[i] = s_held_pdus[n]
  <2> SUFFICES ASSUME NEW n \in 1 .. Len(s_held_pdus), n # k
               PROVE  \E i \in 1 .. Len(s_held_pdus') : s_held_pdus'[i] = s_held_pdus[n]
    OBVIOUS
  <2>1. CASE n < k
    <3>1. n \in 1 .. Len(s_held_pdus') /\ Old(n) = n
      BY <1>1, <1>2, <1>3, <2>1
    <3> QED BY <1>3, <3>1
  <2>2. CASE n > k
    <3>1. n - 1 \in 1 .. Len(s_held_pdus') /\ Old(n - 1) = n
      BY <1>1, <1>2, <1>3, <2>2
    <3> QED BY <1>3, <3>1
  <2> QED BY <1>1, <1>2, <2>1, <2>2
<1> HIDE DEF Old
<1>6. \A i \in 1 .. Len(sent) : SameKind(sent[i], e) => sent[i].id < e.id
  BY <1>2 DEF KeptInOrder
<1>7. /\ InOrder(sent')
      /\ Ids(sent') = Ids(sent) \cup {e.id}
      /\ Len(sent') = Len(sent) + 1
      /\ \A i \in 1 .. Len(sent) : sent'[i] = sent[i]
      /\ sent'[Len(sent) + 1] = e
  BY <1>1, <1>2, <1>6, AppendInOrder, AppendProperties DEF KeptInOrder
<1>8. InOrder(s_held_pdus')
  BY <1>3, <1>4 DEF KeptInOrder, InOrder
<1>9. Ids(s_held_pdus) = Ids(s_held_pdus') \cup {e.id}
  <2>1. ASSUME NEW n \in 1 .. Len(s_held_pdus)
        PROVE  s_held_pdus[n].id \in Ids(s_held_pdus') \cup {e.id}
    BY <1>5 DEF Ids
  <2>2. ASSUME NEW i \in 1 .. Len(s_held_pdus')
        PROVE  s_held_pdus'[i].id \in Ids(s_held_pdus)
    BY <1>3 DEF Ids
  <2>3. e.id \in Ids(s_held_pdus)
    BY <1>2 DEF Ids
  <2>4. Ids(s_held_pdus) \subseteq Ids(s_held_pdus') \cup {e.id}
    BY <2>1 DEF Ids
  <2>5. Ids(s_held_pdus') \subseteq Ids(s_held_pdus)
    BY <2>2 DEF Ids
  <2> QED BY <2>3, <2>4, <2>5
<1>10. ASSUME NEW i \in 1 .. Len(sent'), NEW j \in 1 .. Len(s_held_pdus'),
              SameKind(sent'[i], s_held_pdus'[j])
       PROVE  sent'[i].id < s_held_pdus'[j].id
  <2>1. CASE i = Len(sent) + 1
    <3>1. SameKind(e, s_held_pdus[Old(j)])
      BY <1>3, <1>7, <1>10, <2>1
    <3>2. s_held_pdus[Old(j)].type \in AckedTypes
      BY <1>2, <3>1 DEF SameKind
    <3>3. ~(Old(j) < k)
      <4>1. Old(j) < k => Old(j) \in 1 .. k - 1
        BY <1>1, <1>2, <1>3
      <4> QED BY <1>2, <3>2, <4>1
    <3>4. k < Old(j)
      BY <1>1, <1>2, <1>3, <3>3
    <3> QED BY <1>2, <1>3, <1>7, <2>1, <3>1, <3>4 DEF KeptInOrder, InOrder
  <2>2. CASE i # Len(sent) + 1
    <3>1. i \in 1 .. Len(sent) /\ sent'[i] = sent[i]
      BY <1>1, <1>7, <2>2
    <3> QED BY <1>3, <1>10, <3>1 DEF KeptInOrder
  <2> QED BY <2>1, <2>2
<1>11. Ids(sent') \cup Ids(s_held_pdus') = 1 .. arrived'
  BY <1>7, <1>9 DEF KeptInOrder
<1> HIDE DEF e
<1> QED BY <1>7, <1>8, <1>10, <1>11 DEF KeptInOrder

\* Sending all that is held.
LEMMA LastInOrder ==
    ASSUME TypeOK, KeptInOrder, sent' = sent \o s_held_pdus, s_held_pdus' = << >>,
           arrived' = arrived
    PROVE  KeptInOrder'
<1>1. /\ s_held_pdus \in Seq(Pdu) /\ sent \in Seq(Pdu)
      /\ Len(s_held_pdus) \in Nat /\ Len(sent) \in Nat
  BY DEF TypeOK
<1>2. /\ Len(sent') = Len(sent) + Len(s_held_pdus)
      /\ \A i \in 1 .. Len(sent) + Len(s_held_pdus) :
            sent'[i] = IF i <= Len(sent) THEN sent[i] ELSE s_held_pdus[i - Len(sent)]
  BY <1>1, ConcatProperties
<1>3. /\ \A i \in 1 .. Len(sent) : i \in 1 .. Len(sent') /\ sent'[i] = sent[i]
      /\ \A i \in 1 .. Len(sent') : i \notin 1 .. Len(sent) =>
            /\ i - Len(sent) \in 1 .. Len(s_held_pdus)
            /\ sent'[i] = s_held_pdus[i - Len(sent)]
  BY <1>1, <1>2
<1>4. \A j \in 1 .. Len(s_held_pdus) :
          \E i \in 1 .. Len(sent') : sent'[i] = s_held_pdus[j]
  <2> SUFFICES ASSUME NEW j \in 1 .. Len(s_held_pdus)
               PROVE  \E i \in 1 .. Len(sent') : sent'[i] = s_held_pdus[j]
    OBVIOUS
  <2>1. /\ j + Len(sent) \in 1 .. Len(sent') /\ (j + Len(sent)) - Len(sent) = j
        /\ j + Len(sent) \notin 1 .. Len(sent)
    BY <1>1, <1>2
  <2> QED BY <1>3, <2>1
<1>5. Ids(sent') = Ids(sent) \cup Ids(s_held_pdus)
  BY <1>3, <1>4 DEF Ids
<1>6. ASSUME NEW i \in 1 .. Len(sent'), NEW j \in 1 .. Len(sent'), i < j,
             SameKind(sent'[i], sent'[j])
      PROVE  sent'[i].id < sent'[j].id
  <2>1. CASE j \in 1 .. Len(sent)
    <3>1. i \in 1 .. Len(sent)
      BY <1>1, <1>6, <2>1
    <3> QED BY <1>3, <1>6, <2>1, <3>1 DEF KeptInOrder, InOrder
  <2>2. CASE i \in 1 .. Len(sent) /\ j \notin 1 .. Len(sent)
    BY <1>3, <1>6, <2>2 DEF KeptInOrder
  <2>3. CASE i \notin 1 .. Len(sent) /\ j \notin 1 .. Len(sent)
    <3>1. i - Len(sent) < j - Len(sent)
      BY <1>1, <1>2, <1>6
    <3> QED BY <1>3, <1>6, <2>3, <3>1 DEF KeptInOrder, InOrder
  <2>4. CASE i \notin 1 .. Len(sent) /\ j \in 1 .. Len(sent)
    BY <1>1, <1>6, <2>4
  <2> QED BY <2>1, <2>2, <2>3, <2>4
<1>7. Len(s_held_pdus') = 0
  OBVIOUS
<1>8. Ids(s_held_pdus') = {} /\ InOrder(s_held_pdus')
  BY <1>7 DEF Ids, InOrder
<1>9. Ids(sent') \cup Ids(s_held_pdus') = 1 .. arrived'
  BY <1>5, <1>8 DEF KeptInOrder
<1>10. InOrder(sent')
  BY <1>6 DEF InOrder
<1> QED BY <1>7, <1>8, <1>9, <1>10 DEF KeptInOrder

LEMMA NextOrder == AckInv /\ KeptInOrder /\ [Next]_vars => KeptInOrder'
<1> SUFFICES ASSUME AckInv, KeptInOrder, [Next]_vars PROVE KeptInOrder'
  OBVIOUS
<1>0. TypeOK /\ (~s_outstanding_acknowledge => s_held_pdus = << >>)
  BY DEF AckInv, HeldOnlyWhileOutstanding
<1>1. CASE UNCHANGED <<sent, s_held_pdus, arrived>>
  BY <1>1 DEF KeptInOrder, Ids, InOrder
<1>2. ASSUME NEW type \in AckedTypes, NewAcked(type) PROVE KeptInOrder'
  <2> DEFINE pdu == [type |-> type, id |-> arrived + 1]
  <2>1. /\ arrived' = arrived + 1
        /\ \/ s_held_pdus' = Append(s_held_pdus, pdu) /\ sent' = sent
           \/ sent' = Append(sent, pdu) /\ s_held_pdus' = s_held_pdus /\ s_held_pdus = << >>
    BY <1>0, <1>2 DEF NewAcked, Hold, Arrives
  <2> QED BY <1>0, <2>1, ArrivalInOrder
<1>3. CASE onNewBroadcastSms
  <2> DEFINE pdu == [type |-> "CB", id |-> arrived + 1]
  <2>1. /\ arrived' = arrived + 1
        /\ \/ s_held_pdus' = Append(s_held_pdus, pdu) /\ sent' = sent
           \/ sent' = Append(sent, pdu) /\ s_held_pdus' = s_held_pdus /\ s_held_pdus = << >>
    BY <1>0, <1>3 DEF onNewBroadcastSms, Hold, Arrives
  <2> QED BY <1>0, <2>1, ArrivalInOrder
<1>4. CASE FrameworkAcks \/ AcknowledgeRefused \/ RadioChanges \/ Quiescent
           \/ UNCHANGED vars
  <2>1. UNCHANGED <<sent, s_held_pdus, arrived>>
    BY <1>4 DEF FrameworkAcks, AcknowledgeRefused, RadioChanges, Quiescent, vars
  <2> QED BY <1>1, <2>1
<1>5. CASE AcknowledgeNext
  <2>1. PICK k \in OldestAcked : /\ sent' = Append(sent, s_held_pdus[k])
                                 /\ s_held_pdus' = RemoveAt(s_held_pdus, k)
    BY <1>5 DEF AcknowledgeNext
  <2>2. arrived' = arrived
    BY <1>5 DEF AcknowledgeNext
  <2> QED BY <1>0, <2>1, <2>2, NextInOrder
<1>6. CASE AcknowledgeLast
  <2>1. sent' = sent \o s_held_pdus /\ s_held_pdus' = << >> /\ arrived' = arrived
    BY <1>6 DEF AcknowledgeLast, SendAllHeld
  <2> QED BY <1>0, <2>1, LastInOrder
<1> QED
  BY <1>2, <1>3, <1>4, <1>5, <1>6
  DEF Next, onNewSms, onNewStatusReport, requestSMSAcknowledge, AckedTypes

\* Every message that arrived was sent or is held, once, and none overtakes an
\* older one of its kind.
THEOREM MessagesKeptInOrder == Spec => []KeptInOrder
<1>1. Init => KeptInOrder
  <2> SUFFICES ASSUME Init PROVE KeptInOrder
    OBVIOUS
  <2>1. Len(sent) = 0 /\ Len(s_held_pdus) = 0 /\ arrived = 0
    BY DEF Init
  <2>2. Ids(sent) = {} /\ Ids(s_held_pdus) = {} /\ 1 .. arrived = {}
    BY <2>1 DEF Ids
  <2> QED BY <2>1, <2>2 DEF KeptInOrder, InOrder
<1>2. AckInv /\ KeptInOrder /\ [Next]_vars => KeptInOrder'
  BY NextOrder
<1> QED BY <1>1, <1>2, AckCorrect, PTL DEF Spec
=============================================================================
