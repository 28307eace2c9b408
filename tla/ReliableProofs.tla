--------------------------- MODULE ReliableProofs ---------------------------
(***************************************************************************)
(* The reliable datagrams deliver at most once and in order, for any set   *)
(* of nodes, any number of messages, retries, losses and restarts, because *)
(* every copy of a message still to be looked at is newer than what was    *)
(* delivered or carries the id seen last.  They implement Delivery as long *)
(* as no node sends more than 255 messages: a message's id is its number   *)
(* so long, until its sender restarts, and an acknowledgement under way    *)
(* bears the number of a message that was delivered.                       *)
(***************************************************************************)
EXTENDS ReliableDatagram, TLAPS

SendLabels == {"transmit", "transmitting", "waiting", "reacking"}
AckLabels == {"acking", "reacking"}

\* sendtoWait() is at the last message of its node.
SendingAt(n) ==
  /\ request[n] # NoMessage <=> pc[n] \in SendLabels
  /\ request[n] # NoMessage =>
       /\ request[n].from = n /\ request[n].n = Len(sent[n])
       /\ request[n].to = sent[n][Len(sent[n])] /\ request[n].to # n
       /\ request[n].id = lastId[n]
Sending == \A n \in Node : SendingAt(n)

\* A node that acknowledges holds no other message and hears nothing.
AckingAt(n) ==
  /\ taken[n] # NoMessage <=> pc[n] \in AckLabels
  /\ pc[n] \in AckLabels => slot[n] = NoMessage /\ phase[n] # "listening"
  /\ pc[n] = "reacking" => SeenBefore(n, taken[n])
  /\ phase[n] = "sending" => pc[n] \in AckLabels \cup {"transmitting"}
  /\ phase[n] = "listening" => slot[n] = NoMessage
Acking == \A n \in Node : AckingAt(n)

\* The ids of n's messages are their numbers.
Unwrapped(n) == n \notin restarted /\ Len(sent[n]) <= 255

NumberedAt(n) ==
  /\ Len(sent[n]) <= MaxSent[n]
  /\ Unwrapped(n) => lastId[n] = Len(sent[n])
Numbered == \A n \in Node : NumberedAt(n)

\* A copy of a message that d has still to look at.
Copy(d, m) ==
  /\ m.from # d /\ m.to \in {d, Broadcast}
  /\ m.n <= Len(sent[m.from]) /\ sent[m.from][m.n] = m.to
  /\ Unwrapped(m.from) => m.id = m.n
  /\ m.n = Len(sent[m.from]) /\ request[m.from] # NoMessage => m.id = lastId[m.from]
  /\ got[d][m.from] <= m.n
  /\ got[d][m.from] = m.n => SeenBefore(d, m)

CopiesAt(d) == /\ slot[d] \in Request => Copy(d, slot[d])
               /\ taken[d] # NoMessage => Copy(d, taken[d])
Copies == \A d \in Node : CopiesAt(d)

\* What d remembers of s.
RememberedAt(d, s) ==
  /\ got[d][s] <= Len(sent[s])
  /\ d \notin restarted /\ Unwrapped(s) => seenIds[d][s] = got[d][s]
  /\ got[d][s] = Len(sent[s]) /\ request[s] # NoMessage => seenIds[d][s] = lastId[s]
Remembered == \A d, s \in Node : RememberedAt(d, s)

\* An acknowledgement that s has still to look at.
Vouched(s, a) == /\ a.from # s /\ a.to = s
                 /\ a.from \notin restarted /\ Unwrapped(s) =>
                      a.id <= LastDelivered(a.from, s)

Acks == \A s \in Node : slot[s] \in Ack => Vouched(s, slot[s])

Inv == TypeOK /\ Sending /\ Acking /\ Numbered /\ Copies /\ Remembered /\ Acks
-----------------------------------------------------------------------------
USE DEF program, radio, history, Goto

\* What the records of messages are made of.
LEMMA RequestFields ==
  ASSUME NEW m \in Request
  PROVE  /\ m.from \in Node /\ m.to \in Node \cup {Broadcast} /\ m.id \in Ids
         /\ m.ack = FALSE /\ m.n \in Nat /\ m.n > 0 /\ m # NoMessage /\ m \notin Ack
<1>1. m.from \in Node /\ m.to \in Node \cup {Broadcast} /\ m.id \in Ids /\ m.ack = FALSE
  BY DEF Request
<1>2. m.n \in Nat /\ m.n > 0
  BY DEF Request
<1>3. m # NoMessage
  BY NoMessageAssumption DEF Message
<1>4. m \notin Ack
  BY <1>1 DEF Ack
<1> QED
  BY <1>1, <1>2, <1>3, <1>4

LEMMA AckFields ==
  ASSUME NEW m \in Ack
  PROVE  /\ m.from \in Node /\ m.to \in Node /\ m.id \in Ids
         /\ m.ack = TRUE /\ m # NoMessage /\ m \notin Request
BY NoMessageAssumption DEF Request, Ack, Message

\* Ids are bytes.
LEMMA IdsAreNumbers == ASSUME NEW id \in Ids PROVE id \in Nat
BY DEF Ids

\* Also the next id.
LEMMA NextIdIsId == ASSUME NEW id \in Ids PROVE NextId(id) \in Ids
BY DEF Ids, NextId

\* Up to the 255th message the ids do not wrap.
LEMMA NextIdIsNext ==
  ASSUME NEW id \in Ids, id < 255 PROVE NextId(id) = id + 1
<1>1. id + 1 \in 0 .. 255
  BY DEF Ids
<1> QED
  BY <1>1, Z3 DEF NextId

\* What recvfromAck() returns is remembered.
LEMMA ReturnTypes ==
  ASSUME TypeOK, NEW n \in Node, NEW m \in Request, ReturnIfNew(n, m)
  PROVE  seenIds' \in [Node -> [Node -> Ids]] /\ got' \in [Node -> [Node -> Nat]]
<1>1. m.from \in Node /\ m.id \in Ids /\ m.n \in Nat
  BY RequestFields
<1>2. CASE SeenBefore(n, m)
  BY <1>2 DEF TypeOK, ReturnIfNew
<1>3. CASE ~SeenBefore(n, m)
  <2>1. [seenIds[n] EXCEPT ![m.from] = m.id] \in [Node -> Ids]
    BY <1>1 DEF TypeOK
  <2>2. [got[n] EXCEPT ![m.from] = m.n] \in [Node -> Nat]
    BY <1>1 DEF TypeOK
  <2>3. /\ seenIds' = [seenIds EXCEPT ![n] = [seenIds[n] EXCEPT ![m.from] = m.id]]
        /\ got' = [got EXCEPT ![n] = [got[n] EXCEPT ![m.from] = m.n]]
    BY <1>3 DEF ReturnIfNew
  <2> QED
    BY <2>1, <2>2, <2>3 DEF TypeOK
<1> QED
  BY <1>2, <1>3

\* What is on the air is a message.
LEMMA OnAirIsMessage ==
  ASSUME Inv, NEW n \in Node, phase[n] = "sending"
  PROVE  /\ OnAir(n) \in Message
         /\ \/ pc[n] = "transmitting" /\ OnAir(n) = request[n] /\ request[n] \in Request
            \/ /\ pc[n] \in AckLabels /\ OnAir(n) = AckOf(taken[n], n)
               /\ taken[n] \in Request /\ AckOf(taken[n], n) \in Ack
<1>1. pc[n] \in AckLabels \cup {"transmitting"}
  BY DEF Inv, Acking, AckingAt
<1>2. CASE pc[n] = "transmitting"
  <2>1. request[n] \in Request
    BY <1>2 DEF Inv, TypeOK, Sending, SendingAt, SendLabels
  <2> QED BY <1>2, <2>1 DEF OnAir, Message
<1>3. CASE pc[n] \in AckLabels
  <2>1. taken[n] \in Request
    BY <1>3 DEF Inv, TypeOK, Acking, AckingAt
  <2>2. AckOf(taken[n], n) \in Ack
    BY <2>1 DEF AckOf, Ack, Request
  <2> QED BY <1>3, <2>1, <2>2 DEF OnAir, Message, AckLabels
<1> QED BY <1>1, <1>2, <1>3

\* Every step keeps the types.
LEMMA TypeInv == ASSUME Inv, [Next]_vars PROVE TypeOK'
<1> USE DEF Labels, TypeOK
<1>0. TypeOK
  BY DEF Inv
<1>1. CASE UNCHANGED vars
  BY <1>0, <1>1 DEF vars
<1>2. ASSUME NEW n \in Node, SendtoWait(n) PROVE TypeOK'
  <2>1. ASSUME NEW to \in (Node \ {n}) \cup {Broadcast}, Submit(n, to) PROVE TypeOK'
    <3>1. Len(sent[n]) + 1 \in Nat \ {0}
      BY <1>0
    <3>2. NextId(lastId[n]) \in Ids
      BY <1>0, NextIdIsId
    <3>3. request' \in [Node -> Request \cup {NoMessage}]
      BY <1>0, <2>1, <3>1, <3>2 DEF Submit, Request
    <3>4. 0 \in Ids
      BY DEF Ids
    <3> QED
      BY <1>0, <2>1, <3>2, <3>3, <3>4 DEF Submit
  <2>2. CASE TransmitRequest(n)
    <3>1. (tries[n] + 1) % 256 \in Ids
      BY <1>0, NextIdIsId DEF NextId
    <3> QED
      BY <1>0, <2>2, <3>1 DEF TransmitRequest, Transmit
  <2>3. CASE RequestSent(n)
    <3>1. request[n] \in Request
      BY <1>0, <2>3 DEF Inv, Sending, SendingAt, SendLabels, RequestSent
    <3>2. request[n].n \in Nat
      BY <3>1, RequestFields
    <3> QED
      BY <1>0, <2>3, <3>2 DEF RequestSent, Return, Confirm
  <2>4. CASE ReceiveAwaited(n)
    <3>1. request[n] \in Request
      BY <1>0, <2>4 DEF Inv, Sending, SendingAt, SendLabels, ReceiveAwaited
    <3>2. request[n].n \in Nat
      BY <3>1, RequestFields
    <3> QED
      BY <1>0, <2>4, <3>2 DEF ReceiveAwaited, Receive, Return, Confirm, Listening
  <2>5. CASE ReceiveSeen(n)
    <3>1. slot[n] \in Request
      BY <1>0, <2>5, AckFields DEF ReceiveSeen, Receive, Message
    <3> QED
      BY <1>0, <2>5, <3>1 DEF ReceiveSeen, Receive
  <2>6. CASE Discard(n)
    BY <1>0, <2>6 DEF Discard, Receive, Listening
  <2>7. CASE AckAgainSent(n) \/ TimeOut(n) \/ GiveUp(n)
    BY <1>0, <2>7 DEF AckAgainSent, TimeOut, GiveUp, Return
  <2> QED
    BY <1>2, <2>1, <2>2, <2>3, <2>4, <2>5, <2>6, <2>7 DEF SendtoWait
<1>3. ASSUME NEW n \in Node, RecvfromAck(n) PROVE TypeOK'
  <2>1. CASE ReceiveAck(n)
    BY <1>0, <2>1 DEF ReceiveAck, Receive, Listening
  <2>2. CASE ReceiveBroadcast(n)
    <3>1. slot[n] \in Request
      BY <1>0, <2>2, AckFields, AddressAssumption DEF ReceiveBroadcast, Receive, Message
    <3> QED
      BY <1>0, <2>2, <3>1, ReturnTypes DEF ReceiveBroadcast, Receive, Listening
  <2>3. CASE ReceiveRequest(n)
    <3>1. slot[n] \in Request
      BY <1>0, <2>3, AckFields DEF ReceiveRequest, Receive, Message
    <3> QED
      BY <1>0, <2>3, <3>1 DEF ReceiveRequest, Receive
  <2>4. CASE AckSent(n)
    <3>1. taken[n] \in Request
      BY <1>0, <2>4 DEF Inv, Acking, AckingAt, AckLabels, AckSent
    <3> QED
      BY <1>0, <2>4, <3>1, ReturnTypes DEF AckSent
  <2> QED
    BY <1>3, <2>1, <2>2, <2>3, <2>4 DEF RecvfromAck
<1>4. ASSUME NEW n \in Node, Available(n) PROVE TypeOK'
  BY <1>0, <1>4 DEF Available, Listening
<1>5. ASSUME NEW n \in Node, Air(n) PROVE TypeOK'
  <2>1. OnAir(n) \in Message
    BY <1>5, OnAirIsMessage DEF Air
  <2> QED
    BY <1>0, <1>5, <2>1 DEF Air, TransmissionEnds
<1>6. ASSUME NEW n \in Node, Restart(n) PROVE TypeOK'
  <2>1. 0 \in Ids
    BY DEF Ids
  <2> QED
    BY <1>0, <1>6, <2>1 DEF Restart, NothingSeen
<1> QED
  BY <1>1, <1>2, <1>3, <1>4, <1>5, <1>6 DEF Next

\* Every step keeps sendtoWait() at its node's last message.
LEMMA SendingInv == ASSUME Inv, [Next]_vars PROVE Sending'
<1> SUFFICES ASSUME NEW m \in Node PROVE SendingAt(m)'
  BY DEF Sending
<1>0. TypeOK /\ SendingAt(m)
  BY DEF Inv, Sending
<1> USE DEF SendingAt, SendLabels
<1>1. CASE UNCHANGED <<request[m], sent[m], lastId[m]>> /\ (pc[m] \in SendLabels <=> pc'[m] \in SendLabels)
  BY <1>0, <1>1
<1>2. ASSUME NEW to \in (Node \ {m}) \cup {Broadcast}, Submit(m, to) PROVE SendingAt(m)'
  <2>1. /\ sent'[m] = Append(sent[m], to) /\ pc'[m] = "transmit"
        /\ lastId'[m] = NextId(lastId[m])
        /\ request'[m] = [from |-> m, to |-> to, id |-> NextId(lastId[m]), ack |-> FALSE,
                          n |-> Len(sent[m]) + 1]
    BY <1>0, <1>2 DEF Submit, TypeOK
  <2>2. Len(sent'[m]) = Len(sent[m]) + 1 /\ sent'[m][Len(sent'[m])] = to
    BY <1>0, <2>1 DEF TypeOK
  <2>3. request'[m] \in Request
    <3>1. NextId(lastId[m]) \in Ids /\ Len(sent[m]) + 1 \in Nat \ {0}
      BY <1>0, NextIdIsId DEF TypeOK
    <3> QED
      BY <2>1, <3>1 DEF Request
  <2>4. request'[m] # NoMessage
    BY <2>3, RequestFields
  <2>5. to # m
    BY AddressAssumption
  <2> QED
    BY <2>1, <2>2, <2>4, <2>5
<1>3. ASSUME RequestSent(m) \/ ReceiveAwaited(m) \/ GiveUp(m) \/ Restart(m) PROVE SendingAt(m)'
  BY <1>0, <1>3 DEF RequestSent, ReceiveAwaited, GiveUp, Restart, Return, TypeOK
<1>4. CASE UNCHANGED vars
  BY <1>1, <1>4 DEF vars
<1>5. ASSUME NEW n \in Node, SendtoWait(n) PROVE SendingAt(m)'
  <2>1. ASSUME NEW to \in (Node \ {n}) \cup {Broadcast}, Submit(n, to), n # m PROVE SendingAt(m)'
    BY <1>0, <1>1, <2>1 DEF Submit, TypeOK
  <2>2. CASE TransmitRequest(n)
    BY <1>0, <1>1, <2>2 DEF TransmitRequest, TypeOK
  <2>3. CASE ReceiveSeen(n)
    BY <1>0, <1>1, <2>3 DEF ReceiveSeen, TypeOK
  <2>4. CASE Discard(n)
    BY <1>1, <2>4 DEF Discard
  <2>5. CASE AckAgainSent(n)
    BY <1>0, <1>1, <2>5 DEF AckAgainSent, TypeOK
  <2>6. CASE TimeOut(n)
    BY <1>0, <1>1, <2>6 DEF TimeOut, TypeOK
  <2>7. CASE n # m /\ (RequestSent(n) \/ ReceiveAwaited(n) \/ GiveUp(n))
    BY <1>0, <1>1, <2>7 DEF RequestSent, ReceiveAwaited, GiveUp, Return, TypeOK
  <2> QED
    BY <1>2, <1>3, <1>5, <2>1, <2>2, <2>3, <2>4, <2>5, <2>6, <2>7 DEF SendtoWait
<1>6. ASSUME NEW n \in Node, RecvfromAck(n) PROVE SendingAt(m)'
  <2>1. CASE ReceiveAck(n)
    BY <1>1, <2>1 DEF ReceiveAck
  <2>2. CASE ReceiveBroadcast(n)
    BY <1>1, <2>2 DEF ReceiveBroadcast
  <2>3. CASE ReceiveRequest(n)
    BY <1>0, <1>1, <2>3 DEF ReceiveRequest, TypeOK
  <2>4. CASE AckSent(n)
    BY <1>0, <1>1, <2>4 DEF AckSent, TypeOK
  <2> QED
    BY <1>6, <2>1, <2>2, <2>3, <2>4 DEF RecvfromAck
<1>7. ASSUME NEW n \in Node, Available(n) \/ Air(n) PROVE SendingAt(m)'
  BY <1>1, <1>7 DEF Available, Air, TransmissionEnds
<1>8. ASSUME NEW n \in Node, n # m, Restart(n) PROVE SendingAt(m)'
  BY <1>0, <1>1, <1>8 DEF Restart, TypeOK
<1> QED
  BY <1>3, <1>4, <1>5, <1>6, <1>7, <1>8 DEF Next

\* Every step keeps a node that acknowledges deaf.
LEMMA AckingInv == ASSUME Inv, [Next]_vars PROVE Acking'
<1> SUFFICES ASSUME NEW m \in Node PROVE AckingAt(m)'
  BY DEF Acking
<1>0. TypeOK /\ AckingAt(m) /\ seenIds[m] \in [Node -> Ids]
  BY DEF Inv, Acking, TypeOK
<1> USE DEF AckingAt, AckLabels, SeenBefore
<1>1. CASE UNCHANGED <<pc[m], taken[m], slot[m], phase[m], seenIds[m]>>
  BY <1>0, <1>1
<1>2. CASE UNCHANGED vars
  BY <1>1, <1>2 DEF vars
<1>3. ASSUME NEW n \in Node, SendtoWait(n) PROVE AckingAt(m)'
  <2>1. ASSUME NEW to \in (Node \ {n}) \cup {Broadcast}, Submit(n, to) PROVE AckingAt(m)'
    BY <1>0, <2>1 DEF Submit, TypeOK
  <2>2. CASE TransmitRequest(n)
    BY <1>0, <2>2 DEF TransmitRequest, Transmit, TypeOK
  <2>3. CASE RequestSent(n)
    BY <1>0, <2>3 DEF RequestSent, Return, TypeOK
  <2>4. CASE ReceiveAwaited(n)
    BY <1>0, <2>4 DEF ReceiveAwaited, Receive, Return, Listening, TypeOK
  <2>5. CASE ReceiveSeen(n)
    <3>1. CASE n = m
      BY <1>0, <2>5, <3>1 DEF ReceiveSeen, Receive, TypeOK
    <3>2. CASE n # m
      BY <1>0, <1>1, <2>5, <3>2 DEF ReceiveSeen, Receive, TypeOK
    <3> QED
      BY <3>1, <3>2
  <2>6. CASE Discard(n)
    BY <1>0, <2>6 DEF Discard, Receive, Listening, TypeOK
  <2>7. CASE AckAgainSent(n)
    BY <1>0, <2>7 DEF AckAgainSent, TypeOK
  <2>8. CASE TimeOut(n)
    BY <1>0, <2>8 DEF TimeOut, TypeOK
  <2>9. CASE GiveUp(n)
    BY <1>0, <2>9 DEF GiveUp, Return, TypeOK
  <2> QED
    BY <1>3, <2>1, <2>2, <2>3, <2>4, <2>5, <2>6, <2>7, <2>8, <2>9 DEF SendtoWait
<1>4. ASSUME NEW n \in Node, RecvfromAck(n) PROVE AckingAt(m)'
  <2>1. CASE ReceiveAck(n)
    BY <1>0, <2>1 DEF ReceiveAck, Receive, Listening, TypeOK
  <2>2. CASE ReceiveBroadcast(n)
    <3>1. CASE n = m
      BY <1>0, <2>2, <3>1 DEF ReceiveBroadcast, Receive, Listening, TypeOK
    <3>2. CASE n # m
      BY <1>0, <1>1, <2>2, <3>2 DEF ReceiveBroadcast, Receive, Listening, ReturnIfNew, TypeOK
    <3> QED
      BY <3>1, <3>2
  <2>3. CASE ReceiveRequest(n)
    BY <1>0, <2>3 DEF ReceiveRequest, Receive, TypeOK
  <2>4. CASE AckSent(n)
    <3>1. CASE n = m
      BY <1>0, <2>4, <3>1 DEF AckSent, TypeOK
    <3>2. CASE n # m
      BY <1>0, <1>1, <2>4, <3>2 DEF AckSent, ReturnIfNew, TypeOK
    <3> QED
      BY <3>1, <3>2
  <2> QED
    BY <1>4, <2>1, <2>2, <2>3, <2>4 DEF RecvfromAck
<1>5. ASSUME NEW n \in Node, Available(n) PROVE AckingAt(m)'
  BY <1>0, <1>5 DEF Available, Listening, TypeOK
<1>6. ASSUME NEW n \in Node, Air(n) PROVE AckingAt(m)'
  BY <1>0, <1>6 DEF Air, TransmissionEnds, Hearing, TypeOK
<1>7. ASSUME NEW n \in Node, Restart(n) PROVE AckingAt(m)'
  BY <1>0, <1>7 DEF Restart, TypeOK
<1> QED
  BY <1>2, <1>3, <1>4, <1>5, <1>6, <1>7 DEF Next

\* The three kinds of steps: a new message, a restart, and all the others.
LEMMA Steps ==
  ASSUME [Next]_vars
  PROVE  \/ \E n \in Node : \E to \in (Node \ {n}) \cup {Broadcast} : Submit(n, to)
         \/ \E n \in Node : Restart(n)
         \/ UNCHANGED <<sent, lastId, restarted>>
<1> SUFFICES ASSUME Next PROVE \/ \E n \in Node : \E to \in (Node \ {n}) \cup {Broadcast} : Submit(n, to)
                               \/ \E n \in Node : Restart(n)
                               \/ UNCHANGED <<sent, lastId, restarted>>
  BY DEF vars
<1>1. ASSUME NEW n \in Node, SendtoWait(n),
             ~ \E to \in (Node \ {n}) \cup {Broadcast} : Submit(n, to)
      PROVE  UNCHANGED <<sent, lastId, restarted>>
  BY <1>1 DEF SendtoWait, TransmitRequest, RequestSent, ReceiveAwaited, ReceiveSeen, Discard,
              AckAgainSent, TimeOut, GiveUp
<1>2. ASSUME NEW n \in Node, RecvfromAck(n) PROVE UNCHANGED <<sent, lastId, restarted>>
  BY <1>2 DEF RecvfromAck, ReceiveAck, ReceiveBroadcast, ReceiveRequest, AckSent
<1>3. ASSUME NEW n \in Node, Available(n) \/ Air(n) PROVE UNCHANGED <<sent, lastId, restarted>>
  BY <1>3 DEF Available, Air, TransmissionEnds
<1> QED
  BY <1>1, <1>2, <1>3 DEF Next

\* Every step keeps ids and numbers the same, up to the 255th message.
LEMMA NumberedInv == ASSUME Inv, [Next]_vars PROVE Numbered'
<1> SUFFICES ASSUME NEW m \in Node PROVE NumberedAt(m)'
  BY DEF Numbered
<1>0. TypeOK /\ NumberedAt(m)
  BY DEF Inv, Numbered
<1> USE DEF NumberedAt, Unwrapped
<1>1. ASSUME NEW n \in Node, NEW to \in (Node \ {n}) \cup {Broadcast}, Submit(n, to)
      PROVE  NumberedAt(m)'
  <2>1. CASE n = m
    <3>1. /\ sent'[m] = Append(sent[m], to) /\ Len(sent[m]) < MaxSent[m]
          /\ lastId'[m] = NextId(lastId[m]) /\ restarted' = restarted
      BY <1>0, <1>1, <2>1 DEF Submit, TypeOK
    <3>2. Len(sent'[m]) = Len(sent[m]) + 1 /\ Len(sent[m]) \in Nat
      BY <1>0, <3>1 DEF TypeOK
    <3>3. MaxSent[m] \in Nat
      BY LimitAssumption
    <3>4. ASSUME m \notin restarted, Len(sent[m]) + 1 <= 255
          PROVE  lastId'[m] = Len(sent[m]) + 1
      <4>1. lastId[m] \in Ids /\ lastId[m] < 255
        BY <1>0, <3>1, <3>2, <3>3, <3>4 DEF TypeOK
      <4> QED
        BY <1>0, <3>1, <3>4, <4>1, NextIdIsNext
    <3> QED
      BY <3>1, <3>2, <3>3, <3>4
  <2>2. CASE n # m
    BY <1>0, <1>1, <2>2 DEF Submit, TypeOK
  <2> QED
    BY <2>1, <2>2
<1>2. ASSUME NEW n \in Node, Restart(n) PROVE NumberedAt(m)'
  BY <1>0, <1>2 DEF Restart, TypeOK
<1>3. CASE UNCHANGED <<sent, lastId, restarted>>
  BY <1>0, <1>3
<1> QED
  BY <1>1, <1>2, <1>3, Steps
-----------------------------------------------------------------------------
(* What a step can do to a sender. *)

SenderKept(s) == /\ sent'[s] = sent[s] /\ restarted \subseteq restarted'
                 /\ \/ request'[s] = NoMessage
                    \/ request[s] # NoMessage /\ lastId'[s] = lastId[s]
SenderGrown(s) == /\ restarted \subseteq restarted'
                  /\ \E to \in Node \cup {Broadcast} : sent'[s] = Append(sent[s], to)

\* A sender goes on with its message, ends it, or begins the next one.
LEMMA Senders ==
  ASSUME Inv, [Next]_vars, NEW s \in Node PROVE SenderKept(s) \/ SenderGrown(s)
<1>0. TypeOK
  BY DEF Inv
<1> USE DEF SenderKept
<1>1. CASE UNCHANGED <<request[s], sent[s], lastId[s], restarted>>
  BY <1>1
<1>2. CASE UNCHANGED vars
  BY <1>1, <1>2 DEF vars
<1>3. ASSUME NEW n \in Node, SendtoWait(n) PROVE SenderKept(s) \/ SenderGrown(s)
  <2>1. ASSUME NEW to \in (Node \ {n}) \cup {Broadcast}, Submit(n, to)
        PROVE  SenderKept(s) \/ SenderGrown(s)
    <3>1. CASE n = s
      BY <1>0, <2>1, <3>1 DEF Submit, SenderGrown, TypeOK
    <3>2. CASE n # s
      BY <1>0, <1>1, <2>1, <3>2 DEF Submit, TypeOK
    <3> QED
      BY <3>1, <3>2
  <2>2. CASE RequestSent(n) \/ ReceiveAwaited(n) \/ GiveUp(n)
    BY <1>0, <2>2 DEF RequestSent, ReceiveAwaited, GiveUp, Return, TypeOK
  <2>3. CASE TransmitRequest(n) \/ ReceiveSeen(n) \/ Discard(n) \/ AckAgainSent(n) \/ TimeOut(n)
    BY <1>1, <2>3 DEF TransmitRequest, ReceiveSeen, Discard, AckAgainSent, TimeOut
  <2> QED
    BY <1>3, <2>1, <2>2, <2>3 DEF SendtoWait
<1>4. ASSUME NEW n \in Node, RecvfromAck(n) PROVE SenderKept(s)
  BY <1>1, <1>4 DEF RecvfromAck, ReceiveAck, ReceiveBroadcast, ReceiveRequest, AckSent
<1>5. ASSUME NEW n \in Node, Available(n) \/ Air(n) PROVE SenderKept(s)
  BY <1>1, <1>5 DEF Available, Air, TransmissionEnds
<1>6. ASSUME NEW n \in Node, Restart(n) PROVE SenderKept(s)
  BY <1>0, <1>6 DEF Restart, TypeOK
<1> QED
  BY <1>2, <1>3, <1>4, <1>5, <1>6 DEF Next

\* A number once ambiguous stays so.
LEMMA WrappedStays ==
  ASSUME TypeOK, NEW s \in Node, SenderKept(s) \/ SenderGrown(s), Unwrapped(s)'
  PROVE  Unwrapped(s)
BY DEF TypeOK, SenderKept, SenderGrown, Unwrapped

\* A copy stays what it is while its receiver does not look at it.
LEMMA CopyKept ==
  ASSUME TypeOK, NEW d \in Node, NEW m \in Request, Copy(d, m),
         SenderKept(m.from) \/ SenderGrown(m.from), got'[d] = got[d], seenIds'[d] = seenIds[d]
  PROVE  Copy(d, m)'
<1>1. m.from \in Node /\ m.n \in Nat /\ m.n > 0
  BY RequestFields
<1>2. sent[m.from] \in Seq(Node \cup {Broadcast}) /\ Len(sent[m.from]) \in Nat
  BY <1>1 DEF TypeOK
<1>5. Unwrapped(m.from)' => Unwrapped(m.from)
  BY <1>1, WrappedStays
<1>3. CASE SenderKept(m.from)
  BY <1>3, <1>5 DEF Copy, SenderKept, SeenBefore
<1>4. CASE SenderGrown(m.from)
  <2>1. /\ Len(sent'[m.from]) = Len(sent[m.from]) + 1
        /\ sent'[m.from][m.n] = sent[m.from][m.n]
    BY <1>1, <1>2, <1>4 DEF SenderGrown, Copy
  <2>2. m.n # Len(sent'[m.from]) /\ m.n <= Len(sent'[m.from])
    BY <1>1, <1>2, <2>1 DEF Copy
  <2> QED
    BY <1>4, <1>5, <2>1, <2>2 DEF Copy, SenderGrown, SeenBefore
<1> QED
  BY <1>3, <1>4

\* What sendtoWait() transmits is a copy worth looking at.
LEMMA RequestIsCopy ==
  ASSUME Inv, NEW n \in Node, request[n] # NoMessage, NEW d \in Node \ {n},
         request[n].to \in {d, Broadcast}
  PROVE  Copy(d, request[n])
<1>1. request[n] \in Request /\ request[n].n \in Nat
  BY RequestFields DEF Inv, TypeOK
<1>2. SendingAt(n) /\ NumberedAt(n) /\ RememberedAt(d, n)
  BY DEF Inv, Sending, Numbered, Remembered
<1> QED
  BY <1>1, <1>2 DEF SendingAt, NumberedAt, RememberedAt, Copy, SeenBefore

\* Every step keeps the copies worth looking at.
LEMMA CopiesInv == ASSUME Inv, [Next]_vars PROVE Copies'
<1> SUFFICES ASSUME NEW d \in Node PROVE CopiesAt(d)'
  BY DEF Copies
<1>0. TypeOK /\ CopiesAt(d) /\ AckingAt(d)
  BY DEF Inv, Copies, Acking
<1>1. ASSUME NEW m \in Request, Copy(d, m), got'[d] = got[d], seenIds'[d] = seenIds[d]
      PROVE  Copy(d, m)'
  BY <1>0, <1>1, CopyKept, Senders, RequestFields
<1>2. CASE /\ got'[d] = got[d] /\ seenIds'[d] = seenIds[d]
           /\ slot'[d] \in {slot[d], NoMessage} /\ taken'[d] \in {taken[d], NoMessage}
  <2>1. (slot[d] \in Request => Copy(d, slot[d]))'
    BY <1>0, <1>1, <1>2, RequestFields DEF CopiesAt
  <2>2. (taken[d] # NoMessage => Copy(d, taken[d]))'
    BY <1>0, <1>1, <1>2 DEF CopiesAt, TypeOK
  <2> QED
    BY <2>1, <2>2 DEF CopiesAt
<1>3. CASE slot'[d] = NoMessage /\ taken'[d] = NoMessage
  BY <1>3, RequestFields DEF CopiesAt
<1>4. CASE /\ got'[d] = got[d] /\ seenIds'[d] = seenIds[d]
           /\ slot[d] \in Request /\ taken'[d] = slot[d] /\ slot'[d] = NoMessage
  BY <1>0, <1>1, <1>4, RequestFields DEF CopiesAt
<1>5. CASE UNCHANGED vars
  BY <1>2, <1>5 DEF vars
<1>6. ASSUME NEW n \in Node, SendtoWait(n) PROVE CopiesAt(d)'
  <2>1. ASSUME NEW to \in (Node \ {n}) \cup {Broadcast}, Submit(n, to) PROVE CopiesAt(d)'
    BY <1>2, <2>1 DEF Submit
  <2>2. CASE TransmitRequest(n) \/ RequestSent(n) \/ TimeOut(n) \/ GiveUp(n)
    BY <1>2, <2>2 DEF TransmitRequest, Transmit, RequestSent, TimeOut, GiveUp
  <2>3. CASE ReceiveAwaited(n) \/ Discard(n)
    BY <1>0, <1>2, <2>3 DEF ReceiveAwaited, Discard, Receive, TypeOK
  <2>4. CASE ReceiveSeen(n)
    <3>1. CASE n = d
      <4>1. slot[d] \in Request
        BY <1>0, <2>4, <3>1, AckFields DEF ReceiveSeen, Receive, TypeOK, Message
      <4> QED
        BY <1>0, <1>4, <2>4, <3>1, <4>1 DEF ReceiveSeen, Receive, TypeOK
    <3>2. CASE n # d
      BY <1>0, <1>2, <2>4, <3>2 DEF ReceiveSeen, Receive, TypeOK
    <3> QED
      BY <3>1, <3>2
  <2>5. CASE AckAgainSent(n)
    BY <1>0, <1>2, <2>5 DEF AckAgainSent, TypeOK
  <2> QED
    BY <1>6, <2>1, <2>2, <2>3, <2>4, <2>5 DEF SendtoWait
<1>7. ASSUME NEW n \in Node, RecvfromAck(n) PROVE CopiesAt(d)'
  <2>1. CASE ReceiveAck(n)
    BY <1>0, <1>2, <2>1 DEF ReceiveAck, Receive, TypeOK
  <2>2. CASE ReceiveBroadcast(n)
    <3>1. CASE n = d
      BY <1>0, <1>3, <2>2, <3>1 DEF ReceiveBroadcast, Receive, TypeOK, AckingAt, AckLabels
    <3>2. CASE n # d
      BY <1>0, <1>2, <2>2, <3>2 DEF ReceiveBroadcast, Receive, ReturnIfNew, TypeOK
    <3> QED
      BY <3>1, <3>2
  <2>3. CASE ReceiveRequest(n)
    <3>1. CASE n = d
      <4>1. slot[d] \in Request
        BY <1>0, <2>3, <3>1, AckFields DEF ReceiveRequest, Receive, TypeOK, Message
      <4> QED
        BY <1>0, <1>4, <2>3, <3>1, <4>1 DEF ReceiveRequest, Receive, TypeOK
    <3>2. CASE n # d
      BY <1>0, <1>2, <2>3, <3>2 DEF ReceiveRequest, Receive, TypeOK
    <3> QED
      BY <3>1, <3>2
  <2>4. CASE AckSent(n)
    <3>1. CASE n = d
      BY <1>0, <1>3, <2>4, <3>1 DEF AckSent, TypeOK, AckingAt, AckLabels
    <3>2. CASE n # d
      BY <1>0, <1>2, <2>4, <3>2 DEF AckSent, ReturnIfNew, TypeOK
    <3> QED
      BY <3>1, <3>2
  <2> QED
    BY <1>7, <2>1, <2>2, <2>3, <2>4 DEF RecvfromAck
<1>8. ASSUME NEW n \in Node, Available(n) PROVE CopiesAt(d)'
  BY <1>2, <1>8 DEF Available
<1>9. ASSUME NEW n \in Node, Air(n) PROVE CopiesAt(d)'
  <2>1. PICK heard \in SUBSET Hearing(n) : TransmissionEnds(n, heard)
    BY <1>9 DEF Air
  <2>2. UNCHANGED <<got, seenIds, taken>>
    BY <2>1 DEF TransmissionEnds
  <2>3. CASE d \notin heard
    BY <1>2, <2>1, <2>2, <2>3 DEF TransmissionEnds
  <2>4. CASE d \in heard
    <3>1. slot'[d] = OnAir(n) /\ d # n /\ OnAir(n).to \in {d, Broadcast}
      BY <2>1, <2>4 DEF TransmissionEnds, Hearing
    <3>2. OnAir(n) \in Request => Copy(d, OnAir(n))
      <4>1. CASE OnAir(n) = request[n] /\ request[n] \in Request
        <5>1. request[n] # NoMessage
          BY <4>1, RequestFields
        <5> QED
          BY <3>1, <4>1, <5>1, RequestIsCopy
      <4>2. CASE OnAir(n) \in Ack
        BY <4>2, AckFields
      <4> QED
        BY <1>9, <4>1, <4>2, OnAirIsMessage DEF Air
    <3>3. (slot[d] \in Request => Copy(d, slot[d]))'
      BY <1>1, <2>2, <3>1, <3>2
    <3>4. (taken[d] # NoMessage => Copy(d, taken[d]))'
      BY <1>0, <1>1, <2>2 DEF CopiesAt, TypeOK
    <3> QED
      BY <3>3, <3>4 DEF CopiesAt
  <2> QED
    BY <2>3, <2>4
<1>10. ASSUME NEW n \in Node, Restart(n) PROVE CopiesAt(d)'
  BY <1>0, <1>2, <1>3, <1>10 DEF Restart, TypeOK
<1> QED
  BY <1>5, <1>6, <1>7, <1>8, <1>9, <1>10 DEF Next

\* What recvfromAck() keeps of a copy, if it is not a duplicate.
LEMMA ReturnedIsNew ==
  ASSUME TypeOK, NEW d \in Node, NEW m \in Request, Copy(d, m), ReturnIfNew(d, m)
  PROVE  /\ ~SeenBefore(d, m) => /\ got'[d][m.from] = m.n /\ seenIds'[d][m.from] = m.id
                                 /\ got[d][m.from] < m.n
         /\ \A c, s \in Node : c # d \/ s # m.from \/ SeenBefore(d, m) =>
              got'[c][s] = got[c][s] /\ seenIds'[c][s] = seenIds[c][s]
<1>1. m.from \in Node /\ m.n \in Nat /\ got[d][m.from] \in Nat
  BY RequestFields DEF TypeOK
<1>2. CASE SeenBefore(d, m)
  BY <1>2 DEF ReturnIfNew
<1>3. CASE ~SeenBefore(d, m)
  <2>1. got[d][m.from] < m.n
    BY <1>1, <1>3 DEF Copy
  <2>2. /\ seenIds' = [seenIds EXCEPT ![d] = [seenIds[d] EXCEPT ![m.from] = m.id]]
        /\ got' = [got EXCEPT ![d] = [got[d] EXCEPT ![m.from] = m.n]]
    BY <1>3 DEF ReturnIfNew
  <2>3. got'[d][m.from] = m.n /\ seenIds'[d][m.from] = m.id
    BY <1>1, <2>2 DEF TypeOK
  <2>4. \A c, s \in Node : c # d \/ s # m.from =>
          got'[c][s] = got[c][s] /\ seenIds'[c][s] = seenIds[c][s]
    BY <1>1, <2>2 DEF TypeOK
  <2> QED
    BY <1>3, <2>1, <2>3, <2>4
<1> QED
  BY <1>2, <1>3

\* The three kinds of steps of a receiver: recvfromAck() returns, a restart,
\* and all the others.
LEMMA Returns ==
  ASSUME Inv, [Next]_vars
  PROVE  \/ \E n \in Node : \E m \in Request : /\ Copy(n, m) /\ ReturnIfNew(n, m)
                                               /\ UNCHANGED <<sent, request, lastId, restarted>>
         \/ \E n \in Node : Restart(n)
         \/ UNCHANGED <<got, seenIds>>
<1> DEFINE Goal == \/ \E n \in Node : \E m \in Request :
                        /\ Copy(n, m) /\ ReturnIfNew(n, m)
                        /\ UNCHANGED <<sent, request, lastId, restarted>>
                   \/ \E n \in Node : Restart(n)
                   \/ UNCHANGED <<got, seenIds>>
<1>0. TypeOK
  BY DEF Inv
<1>1. CASE UNCHANGED vars
  BY <1>1 DEF vars
<1>2. ASSUME NEW n \in Node, SendtoWait(n) PROVE UNCHANGED <<got, seenIds>>
  BY <1>2 DEF SendtoWait, Submit, TransmitRequest, RequestSent, ReceiveAwaited, ReceiveSeen,
              Discard, AckAgainSent, TimeOut, GiveUp
<1>3. ASSUME NEW n \in Node, RecvfromAck(n) PROVE Goal
  <2>1. CASE ReceiveAck(n) \/ ReceiveRequest(n)
    BY <2>1 DEF ReceiveAck, ReceiveRequest
  <2>2. CASE ReceiveBroadcast(n)
    <3>1. slot[n] \in Request
      BY <1>0, <2>2, AckFields, AddressAssumption DEF ReceiveBroadcast, Receive, Message, TypeOK
    <3>2. Copy(n, slot[n])
      BY <3>1 DEF Inv, Copies, CopiesAt
    <3> QED
      BY <2>2, <3>1, <3>2 DEF ReceiveBroadcast
  <2>3. CASE AckSent(n)
    <3>1. taken[n] # NoMessage
      BY <2>3 DEF Inv, Acking, AckingAt, AckLabels, AckSent
    <3>2. taken[n] \in Request /\ Copy(n, taken[n])
      BY <1>0, <3>1 DEF Inv, Copies, CopiesAt, TypeOK
    <3> QED
      BY <2>3, <3>2 DEF AckSent
  <2> QED
    BY <1>3, <2>1, <2>2, <2>3 DEF RecvfromAck
<1>4. ASSUME NEW n \in Node, Available(n) \/ Air(n) PROVE UNCHANGED <<got, seenIds>>
  BY <1>4 DEF Available, Air, TransmissionEnds
<1> QED
  BY <1>1, <1>2, <1>3, <1>4 DEF Next

\* Every step keeps what is remembered in order with what was sent.
LEMMA RememberedInv == ASSUME Inv, [Next]_vars PROVE Remembered'
<1> SUFFICES ASSUME NEW d \in Node, NEW s \in Node PROVE RememberedAt(d, s)'
  BY DEF Remembered
<1>0. TypeOK /\ RememberedAt(d, s) /\ got[d][s] \in Nat /\ Len(sent[s]) \in Nat
  BY DEF Inv, Remembered, TypeOK
<1>1. CASE got'[d][s] = got[d][s] /\ seenIds'[d][s] = seenIds[d][s]
  <2>1. CASE SenderKept(s)
    BY <1>0, <1>1, <2>1, WrappedStays DEF RememberedAt, SenderKept
  <2>2. CASE SenderGrown(s)
    <3>1. Len(sent'[s]) = Len(sent[s]) + 1
      BY <1>0, <2>2 DEF SenderGrown, TypeOK
    <3>2. Unwrapped(s)' => Unwrapped(s)
      BY <1>0, <2>2, WrappedStays
    <3> QED
      BY <1>0, <1>1, <2>2, <3>1, <3>2 DEF RememberedAt, SenderGrown
  <2> QED
    BY <2>1, <2>2, Senders
<1>2. ASSUME NEW m \in Request, Copy(d, m), ReturnIfNew(d, m), m.from = s, ~SeenBefore(d, m),
             UNCHANGED <<sent, request, lastId, restarted>>
      PROVE  RememberedAt(d, s)'
  BY <1>0, <1>2, ReturnedIsNew DEF RememberedAt, Copy, Unwrapped
<1>3. ASSUME NEW n \in Node, NEW m \in Request, Copy(n, m), ReturnIfNew(n, m),
             UNCHANGED <<sent, request, lastId, restarted>>
      PROVE  RememberedAt(d, s)'
  BY <1>0, <1>1, <1>2, <1>3, ReturnedIsNew
<1>4. ASSUME Restart(d) PROVE RememberedAt(d, s)'
  <2>1. got'[d][s] = 0 /\ seenIds'[d][s] = 0 /\ d \in restarted' /\ sent'[s] = sent[s]
    BY <1>0, <1>4 DEF Restart, NothingSeen, TypeOK
  <2>2. request'[s] # NoMessage => Len(sent'[s]) # 0
    <3>1. request'[s] \in Request \cup {NoMessage}
      BY TypeInv DEF TypeOK
    <3>2. request'[s] # NoMessage => request'[s].n = Len(sent'[s])
      BY SendingInv DEF Sending, SendingAt
    <3>3. request'[s] \in Request => request'[s].n > 0
      BY RequestFields
    <3> QED
      BY <3>1, <3>2, <3>3
  <2> QED
    BY <1>0, <2>1, <2>2 DEF RememberedAt
<1>5. ASSUME NEW n \in Node \ {d}, Restart(n) PROVE RememberedAt(d, s)'
  BY <1>0, <1>1, <1>5 DEF Restart, TypeOK
<1>6. CASE UNCHANGED <<got, seenIds>>
  BY <1>1, <1>6
<1> QED
  BY <1>3, <1>4, <1>5, <1>6, Returns
-----------------------------------------------------------------------------
(* What a step delivers. *)

\* What counts as delivered is a number.
LEMMA DeliveredIsNumber ==
  ASSUME Inv, NEW d \in Node, NEW s \in Node
  PROVE  LastDelivered(d, s) \in Nat /\ LastDelivered(d, s) <= Len(sent[s])
<1>1. got[d][s] \in Nat /\ got[d][s] <= Len(sent[s])
  BY DEF Inv, TypeOK, Remembered, RememberedAt
<1>2. ASSUME pc[d] = "acking", taken[d].from = s
      PROVE  taken[d].n \in Nat /\ taken[d].n <= Len(sent[s])
  <2>1. taken[d] \in Request /\ Copy(d, taken[d])
    BY <1>2 DEF Inv, TypeOK, Acking, AckingAt, AckLabels, Copies, CopiesAt
  <2> QED
    BY <1>2, <2>1, RequestFields DEF Copy
<1> QED
  BY <1>1, <1>2 DEF LastDelivered

\* What was delivered stays what it is while the receiver does not look at a message.
LEMMA DeliveredKept ==
  ASSUME NEW d \in Node, got'[d] = got[d], seenIds'[d] = seenIds[d],
         \/ UNCHANGED <<pc[d], taken[d]>>
         \/ pc[d] # "acking" /\ pc'[d] # "acking"
  PROVE  \A s \in Node : LastDelivered(d, s)' = LastDelivered(d, s)
BY DEF LastDelivered, SeenBefore

\* One message was delivered to d and nothing else happened.
Delivers(d, m) ==
  /\ Copy(d, m) /\ LastDelivered(d, m.from) < m.n /\ LastDelivered(d, m.from)' = m.n
  /\ \A c, s \in Node : c # d \/ s # m.from => LastDelivered(c, s)' = LastDelivered(c, s)
  /\ UNCHANGED <<sent, request, confirmed, restarted>>

DeliveredSame == \A d, s \in Node : LastDelivered(d, s)' = LastDelivered(d, s)

\* sendtoWait() delivers nothing.
LEMMA SendtoWaitDelivers ==
  ASSUME Inv, NEW n \in Node, SendtoWait(n) PROVE DeliveredSame
<1> SUFFICES ASSUME NEW d \in Node PROVE \A s \in Node : LastDelivered(d, s)' = LastDelivered(d, s)
  BY DEF DeliveredSame
<1>0. TypeOK
  BY DEF Inv
<1>1. got'[d] = got[d] /\ seenIds'[d] = seenIds[d]
  BY DEF SendtoWait, Submit, TransmitRequest, RequestSent, ReceiveAwaited, ReceiveSeen,
         Discard, AckAgainSent, TimeOut, GiveUp
<1>2. ASSUME NEW to \in (Node \ {n}) \cup {Broadcast}, Submit(n, to)
      PROVE  UNCHANGED <<pc[d], taken[d]>> \/ (pc[d] # "acking" /\ pc'[d] # "acking")
  BY <1>0, <1>2 DEF Submit, TypeOK
<1>3. CASE TransmitRequest(n)
  BY <1>0, <1>1, <1>3, DeliveredKept DEF TransmitRequest, TypeOK
<1>4. CASE RequestSent(n)
  BY <1>0, <1>1, <1>4, DeliveredKept DEF RequestSent, Return, TypeOK
<1>5. CASE ReceiveAwaited(n)
  BY <1>0, <1>1, <1>5, DeliveredKept DEF ReceiveAwaited, Return, TypeOK
<1>6. CASE ReceiveSeen(n)
  BY <1>0, <1>1, <1>6, DeliveredKept DEF ReceiveSeen, TypeOK
<1>7. CASE Discard(n)
  BY <1>1, <1>7, DeliveredKept DEF Discard
<1>8. CASE AckAgainSent(n)
  BY <1>0, <1>1, <1>8, DeliveredKept DEF AckAgainSent, TypeOK
<1>9. CASE TimeOut(n)
  BY <1>0, <1>1, <1>9, DeliveredKept DEF TimeOut, TypeOK
<1>10. CASE GiveUp(n)
  BY <1>0, <1>1, <1>10, DeliveredKept DEF GiveUp, Return, TypeOK
<1> QED
  BY <1>1, <1>2, <1>3, <1>4, <1>5, <1>6, <1>7, <1>8, <1>9, <1>10, DeliveredKept DEF SendtoWait

\* recvfromAck() delivers at most the message it looks at, when it takes it.
LEMMA RecvfromAckDelivers ==
  ASSUME Inv, NEW n \in Node, RecvfromAck(n)
  PROVE  DeliveredSame \/ \E m \in Request : Delivers(n, m)
<1>0. TypeOK
  BY DEF Inv
<1>1. CASE ReceiveAck(n)
  BY <1>1, DeliveredKept DEF ReceiveAck, DeliveredSame
<1>2. CASE ReceiveBroadcast(n)
  <2>1. slot[n] \in Request
    BY <1>0, <1>2, AckFields, AddressAssumption DEF ReceiveBroadcast, Receive, Message, TypeOK
  <2>2. Copy(n, slot[n]) /\ ReturnIfNew(n, slot[n])
    BY <1>2, <2>1 DEF Inv, Copies, CopiesAt, ReceiveBroadcast
  <2>3. pc[n] = "app" /\ UNCHANGED <<pc, taken, sent, request, confirmed, restarted>>
    BY <1>2 DEF ReceiveBroadcast
  <2>4. \A c \in Node \ {n} : got'[c] = got[c] /\ seenIds'[c] = seenIds[c]
    BY <1>0, <2>2 DEF ReturnIfNew, TypeOK
  <2>5. \A c \in Node \ {n} : \A s \in Node : LastDelivered(c, s)' = LastDelivered(c, s)
    BY <2>3, <2>4, DeliveredKept
  <2>6. \A s \in Node : LastDelivered(n, s) = got[n][s] /\ LastDelivered(n, s)' = got'[n][s]
    BY <2>3 DEF LastDelivered
  <2> QED
    BY <1>0, <2>1, <2>2, <2>3, <2>5, <2>6, ReturnedIsNew, RequestFields DEF Delivers, DeliveredSame
<1>3. CASE ReceiveRequest(n)
  <2>1. PICK m \in Request : m = slot[n]
    BY <1>0, <1>3, AckFields DEF ReceiveRequest, Receive, Message, TypeOK
  <2>2. Copy(n, m)
    BY <2>1 DEF Inv, Copies, CopiesAt
  <2>3. /\ pc[n] = "app" /\ pc'[n] = "acking" /\ taken'[n] = m
        /\ UNCHANGED <<got, seenIds, sent, request, confirmed, restarted>>
    BY <1>0, <1>3, <2>1 DEF ReceiveRequest, TypeOK
  <2>4. \A c \in Node \ {n} : \A s \in Node : LastDelivered(c, s)' = LastDelivered(c, s)
    BY <1>0, <1>3, DeliveredKept DEF ReceiveRequest, TypeOK
  <2>5. \A s \in Node : LastDelivered(n, s) = got[n][s]
    BY <2>3 DEF LastDelivered
  <2>6. CASE SeenBefore(n, m)
    BY <2>3, <2>4, <2>5, <2>6 DEF DeliveredSame, LastDelivered, SeenBefore
  <2>7. CASE ~SeenBefore(n, m)
    <3>0. m.from \in Node /\ m.n \in Nat /\ got[n][m.from] \in Nat
      BY <1>0, RequestFields DEF TypeOK
    <3>1. got[n][m.from] < m.n
      BY <2>2, <2>7, <3>0 DEF Copy
    <3>2. \A s \in Node : LastDelivered(n, s)' = IF s = m.from THEN m.n ELSE got[n][s]
      BY <2>3, <2>7 DEF LastDelivered, SeenBefore
    <3>3. LastDelivered(n, m.from) < m.n /\ LastDelivered(n, m.from)' = m.n
      BY <2>5, <3>0, <3>1, <3>2
    <3>4. ASSUME NEW c \in Node, NEW s \in Node, c # n \/ s # m.from
          PROVE  LastDelivered(c, s)' = LastDelivered(c, s)
      BY <2>4, <2>5, <3>2, <3>4
    <3> QED
      BY <2>2, <2>3, <3>3, <3>4 DEF Delivers
  <2> QED
    BY <2>6, <2>7
<1>4. CASE AckSent(n)
  <2>1. taken[n] \in Request
    BY <1>0, <1>4 DEF Inv, Acking, AckingAt, AckLabels, AckSent, TypeOK
  <2>2. Copy(n, taken[n]) /\ ReturnIfNew(n, taken[n])
    BY <1>4, <2>1, RequestFields DEF Inv, Copies, CopiesAt, AckSent
  <2>3. pc[n] = "acking" /\ pc'[n] = "app"
    BY <1>0, <1>4 DEF AckSent, TypeOK
  <2>4. \A c \in Node \ {n} : /\ got'[c] = got[c] /\ seenIds'[c] = seenIds[c]
                              /\ UNCHANGED <<pc[c], taken[c]>>
    BY <1>0, <1>4, <2>2 DEF ReturnIfNew, AckSent, TypeOK
  <2>5. \A c \in Node \ {n} : \A s \in Node : LastDelivered(c, s)' = LastDelivered(c, s)
    BY <2>4, DeliveredKept
  <2>6. \A s \in Node : LastDelivered(n, s)' = got'[n][s]
    BY <2>3 DEF LastDelivered
  <2>7. \A s \in Node : LastDelivered(n, s) = got'[n][s]
    BY <1>0, <2>1, <2>2, <2>3, ReturnedIsNew DEF LastDelivered
  <2> QED
    BY <2>5, <2>6, <2>7 DEF DeliveredSame
<1> QED
  BY <1>1, <1>2, <1>3, <1>4 DEF RecvfromAck

\* Nothing is delivered by the radios.
LEMMA RadiosDeliver ==
  ASSUME NEW n \in Node, Available(n) \/ Air(n) PROVE DeliveredSame
BY DeliveredKept DEF Available, Air, TransmissionEnds, DeliveredSame

\* A restart forgets what was delivered to its node.
LEMMA RestartDelivers ==
  ASSUME Inv, NEW n \in Node, Restart(n)
  PROVE  \A d, s \in Node : LastDelivered(d, s)' = IF d = n THEN 0 ELSE LastDelivered(d, s)
<1>1. \A s \in Node : LastDelivered(n, s)' = 0
  BY DEF Inv, TypeOK, Restart, NothingSeen, LastDelivered
<1>2. \A d \in Node \ {n} : \A s \in Node : LastDelivered(d, s)' = LastDelivered(d, s)
  BY DeliveredKept DEF Inv, TypeOK, Restart
<1> QED
  BY <1>1, <1>2
-----------------------------------------------------------------------------
(* Acknowledgements, the invariant and the refinement. *)

\* Without restarts what was delivered never becomes less.
LEMMA DeliveredGrows ==
  ASSUME Inv, [Next]_vars, NEW d \in Node, d \notin restarted', NEW s \in Node
  PROVE  LastDelivered(d, s) <= LastDelivered(d, s)'
<1>0. LastDelivered(d, s) \in Nat
  BY DeliveredIsNumber
<1>1. CASE LastDelivered(d, s)' = LastDelivered(d, s)
  BY <1>0, <1>1
<1>2. CASE UNCHANGED vars
  BY <1>1, <1>2 DEF vars, LastDelivered, SeenBefore
<1>3. ASSUME NEW n \in Node, SendtoWait(n) \/ Available(n) \/ Air(n)
      PROVE  LastDelivered(d, s)' = LastDelivered(d, s)
  BY <1>3, SendtoWaitDelivers, RadiosDeliver DEF DeliveredSame
<1>4. ASSUME NEW n \in Node, RecvfromAck(n) PROVE LastDelivered(d, s) <= LastDelivered(d, s)'
  <2>1. ASSUME NEW m \in Request, Delivers(n, m)
        PROVE  LastDelivered(d, s) <= LastDelivered(d, s)'
    <3>1. m.n \in Nat /\ m.from \in Node
      BY RequestFields
    <3>2. CASE d = n /\ s = m.from
      BY <1>0, <2>1, <3>1, <3>2 DEF Delivers
    <3>3. CASE d # n \/ s # m.from
      BY <1>1, <2>1, <3>3 DEF Delivers
    <3> QED
      BY <3>2, <3>3
  <2> QED
    BY <1>1, <1>4, <2>1, RecvfromAckDelivers DEF DeliveredSame
<1>5. ASSUME NEW n \in Node, Restart(n) PROVE LastDelivered(d, s)' = LastDelivered(d, s)
  BY <1>5, RestartDelivers DEF Restart
<1> QED
  BY <1>1, <1>2, <1>3, <1>4, <1>5 DEF Next

\* What acknowledge() sends is true.
LEMMA AckIsVouched ==
  ASSUME Inv, NEW d \in Node, pc[d] \in AckLabels, NEW s \in Node, taken[d].from = s
  PROVE  Vouched(s, AckOf(taken[d], d))
<1>1. taken[d] \in Request /\ Copy(d, taken[d])
  BY DEF Inv, TypeOK, Acking, AckingAt, Copies, CopiesAt
<1>2. SeenBefore(d, taken[d]) \/ pc[d] = "acking"
  BY DEF Inv, Acking, AckingAt, AckLabels
<1>3. taken[d].id \in Nat /\ taken[d].from # d
  BY <1>1, RequestFields, IdsAreNumbers DEF Copy
<1>4. ASSUME d \notin restarted, Unwrapped(s) PROVE taken[d].id <= LastDelivered(d, s)
  <2>1. CASE SeenBefore(d, taken[d])
    <3>1. seenIds[d][s] = got[d][s]
      BY <1>4 DEF Inv, Remembered, RememberedAt
    <3> QED
      BY <1>3, <2>1, <3>1 DEF SeenBefore, LastDelivered
  <2>2. CASE ~SeenBefore(d, taken[d])
    BY <1>1, <1>2, <1>3, <1>4, <2>2 DEF LastDelivered, Copy
  <2> QED
    BY <2>1, <2>2
<1> QED
  BY <1>3, <1>4 DEF AckOf, Vouched

\* An acknowledgement stays true.
LEMMA VouchedKept ==
  ASSUME Inv, [Next]_vars, NEW s \in Node, NEW a \in Ack, Vouched(s, a)
  PROVE  Vouched(s, a)'
<1>1. a.from \in Node /\ a.id \in Nat
  BY AckFields, IdsAreNumbers
<1>2. restarted \subseteq restarted' /\ (Unwrapped(s)' => Unwrapped(s))
  BY Senders, WrappedStays DEF SenderKept, SenderGrown, Inv
<1>3. ASSUME a.from \notin restarted', Unwrapped(s)' PROVE a.id <= LastDelivered(a.from, s)'
  <2>1. a.id <= LastDelivered(a.from, s)
    BY <1>2, <1>3 DEF Vouched
  <2>2. LastDelivered(a.from, s) <= LastDelivered(a.from, s)'
    BY <1>1, <1>3, DeliveredGrows
  <2>3. LastDelivered(a.from, s) \in Nat
    BY <1>1, DeliveredIsNumber
  <2>4. LastDelivered(a.from, s)' \in Nat
    <3>1. got'[a.from][s] \in Nat /\ taken'[a.from] \in Request \cup {NoMessage}
      BY <1>1, TypeInv DEF TypeOK
    <3>2. pc'[a.from] = "acking" => taken'[a.from] # NoMessage
      BY <1>1, AckingInv DEF Acking, AckingAt, AckLabels
    <3>3. taken'[a.from] \in Request => taken'[a.from].n \in Nat
      BY RequestFields
    <3>4. \/ LastDelivered(a.from, s)' = got'[a.from][s]
          \/ pc'[a.from] = "acking" /\ LastDelivered(a.from, s)' = taken'[a.from].n
      BY DEF LastDelivered
    <3> QED
      BY <3>1, <3>2, <3>3, <3>4
  <2> QED
    BY <1>1, <2>1, <2>2, <2>3, <2>4
<1> QED
  BY <1>3 DEF Vouched

\* Every step keeps the acknowledgements under way true.
LEMMA AcksInv == ASSUME Inv, [Next]_vars PROVE Acks'
<1> SUFFICES ASSUME NEW s \in Node, slot'[s] \in Ack PROVE Vouched(s, slot[s])'
  BY DEF Acks
<1>0. TypeOK
  BY DEF Inv
<1>1. CASE slot'[s] = slot[s]
  BY <1>1, VouchedKept DEF Inv, Acks
<1>2. CASE slot'[s] = NoMessage
  BY <1>2, AckFields
<1>3. CASE UNCHANGED vars
  BY <1>1, <1>3 DEF vars
<1>4. ASSUME NEW n \in Node, SendtoWait(n) PROVE Vouched(s, slot[s])'
  BY <1>0, <1>1, <1>2, <1>4 DEF SendtoWait, Submit, TransmitRequest, Transmit, RequestSent,
     ReceiveAwaited, ReceiveSeen, Discard, Receive, AckAgainSent, TimeOut, GiveUp, TypeOK
<1>5. ASSUME NEW n \in Node, RecvfromAck(n) PROVE Vouched(s, slot[s])'
  BY <1>0, <1>1, <1>2, <1>5 DEF RecvfromAck, ReceiveAck, ReceiveBroadcast, ReceiveRequest,
     Receive, AckSent, TypeOK
<1>6. ASSUME NEW n \in Node, Available(n) PROVE Vouched(s, slot[s])'
  BY <1>1, <1>6 DEF Available
<1>7. ASSUME NEW n \in Node, Air(n) PROVE Vouched(s, slot[s])'
  <2>1. PICK heard \in SUBSET Hearing(n) : TransmissionEnds(n, heard)
    BY <1>7 DEF Air
  <2>2. CASE s \notin heard
    BY <1>1, <2>1, <2>2 DEF TransmissionEnds
  <2>3. CASE s \in heard
    <3>1. slot'[s] = OnAir(n) /\ OnAir(n).to \in {s, Broadcast}
      BY <2>1, <2>3 DEF TransmissionEnds, Hearing
    <3>2. /\ pc[n] \in AckLabels /\ OnAir(n) = AckOf(taken[n], n) /\ OnAir(n) \in Ack
          /\ taken[n] \in Request
      BY <1>7, <3>1, OnAirIsMessage, RequestFields DEF Air
    <3>3. taken[n].from = s
      <4>1. taken[n].from \in Node
        BY <3>2, RequestFields
      <4>2. OnAir(n).to = taken[n].from
        BY <3>2 DEF AckOf
      <4> QED
        BY <3>1, <4>1, <4>2, AddressAssumption
    <3>4. Vouched(s, OnAir(n))
      BY <3>2, <3>3, AckIsVouched
    <3> QED
      BY <3>1, <3>2, <3>4, VouchedKept
  <2> QED
    BY <2>2, <2>3
<1>8. ASSUME NEW n \in Node, Restart(n) PROVE Vouched(s, slot[s])'
  BY <1>0, <1>1, <1>2, <1>8 DEF Restart, TypeOK
<1> QED
  BY <1>3, <1>4, <1>5, <1>6, <1>7, <1>8 DEF Next

\* At the start.
LEMMA InitInv == Init => Inv
<1> SUFFICES ASSUME Init PROVE Inv
  OBVIOUS
<1>1. TypeOK
  <2>1. 0 \in Ids
    BY DEF Ids
  <2> QED
    BY <2>1 DEF Init, TypeOK, Labels, NothingSeen
<1>2. Sending /\ Acking
  BY DEF Init, Sending, SendingAt, SendLabels, Acking, AckingAt, AckLabels
<1>3. Numbered
  BY LimitAssumption DEF Init, Numbered, NumberedAt
<1>4. Copies /\ Acks
  BY RequestFields, AckFields DEF Init, Copies, CopiesAt, Acks
<1>5. Remembered
  BY DEF Init, Remembered, RememberedAt, NothingSeen
<1> QED
  BY <1>1, <1>2, <1>3, <1>4, <1>5 DEF Inv

\* The inductive invariant.
THEOREM InvAlways == Spec => []Inv
<1>1. Inv /\ [Next]_vars => Inv'
  BY TypeInv, SendingInv, AckingInv, NumberedInv, CopiesInv, RememberedInv, AcksInv DEF Inv
<1> QED
  BY <1>1, InitInv, PTL DEF Spec

\* Every variable keeps its type.
THEOREM Types == Spec => []TypeOK
<1>1. Inv => TypeOK
  BY DEF Inv
<1> QED
  BY <1>1, InvAlways, PTL
-----------------------------------------------------------------------------
(* Every step is one of Delivery or does not concern it. *)

\* What counts as delivered is all Delivery sees of the receivers.
LEMMA SameDelivered == ASSUME DeliveredSame PROVE Delivered' = Delivered
BY DEF DeliveredSame, Delivered

\* A step that neither begins or ends a request nor delivers anything.
LEMMA Unseen ==
  ASSUME DeliveredSame, UNCHANGED <<sent, request, confirmed, restarted>>
  PROVE  UNCHANGED Promised!vars
BY SameDelivered DEF Promised!vars, Underway

\* A new message.
LEMMA SubmitImplements ==
  ASSUME Inv, NEW n \in Node, NEW to \in (Node \ {n}) \cup {Broadcast}, Submit(n, to)
  PROVE  Promised!Submit(n)
<1>0. TypeOK /\ SendingAt(n)
  BY DEF Inv, Sending
<1>1. request[n] = NoMessage
  BY <1>0 DEF Submit, SendingAt, SendLabels
<1>2. request'[n] # NoMessage
  <2>1. request'[n] \in Request \cup {NoMessage} /\ request'[n].n = Len(sent[n]) + 1
    BY <1>0, TypeInv DEF TypeOK, Submit, Next, SendtoWait
  <2>2. SendingAt(n)' /\ pc'[n] = "transmit"
    BY <1>0, SendingInv DEF Sending, Submit, TypeOK, Next, SendtoWait
  <2> QED
    BY <2>2 DEF SendingAt, SendLabels
<1>3. Underway' = Underway \cup {n}
  BY <1>0, <1>2 DEF Underway, Submit, TypeOK
<1>4. Delivered' = Delivered
  BY SendtoWaitDelivers, SameDelivered DEF SendtoWait
<1> QED
  BY <1>1, <1>3, <1>4 DEF Promised!Submit, Underway, Submit

\* sendtoWait() returns.
LEMMA ReturnEnds ==
  ASSUME Inv, NEW n \in Node, request' = [request EXCEPT ![n] = NoMessage], request[n] # NoMessage
  PROVE  n \in Underway /\ Underway' = Underway \ {n}
BY DEF Inv, TypeOK, Underway

\* n is told that its last message arrived, after more messages than there are ids.
ConfirmsAny(n) ==
  /\ n \in Underway /\ Len(sent[n]) > 255
  /\ Underway' = Underway \ {n}
  /\ confirmed' = [confirmed EXCEPT ![n] = Len(sent[n])]
  /\ UNCHANGED <<sent, Delivered, restarted>>

PromisedOrWrapped == Promised!Next \/ \E n \in Node : ConfirmsAny(n)

\* sendtoWait() confirms only what arrived, while ids are numbers.
LEMMA ConfirmImplements ==
  ASSUME Inv, NEW n \in Node, SendtoWait(n), request[n] # NoMessage, Return(n), Confirm(n),
         UNCHANGED <<sent, restarted>>,
         \/ request[n].to = Broadcast
         \/ slot[n] \in Ack /\ Acknowledges(slot[n], request[n])
  PROVE  Promised!Confirm(n) \/ ConfirmsAny(n)
<1>1. /\ request[n] \in Request /\ request[n].n = Len(sent[n]) /\ request[n].id = lastId[n]
      /\ sent[n][Len(sent[n])] = request[n].to /\ request[n].to # n
  BY DEF Inv, TypeOK, Sending, SendingAt
<1>2. ASSUME Len(sent[n]) <= 255 PROVE Promised!Arrived(n, Len(sent[n]))
  <2>1. CASE request[n].to = Broadcast
    BY <1>1, <2>1 DEF Promised!Arrived
  <2>2. CASE slot[n] \in Ack /\ Acknowledges(slot[n], request[n])
    <3>1. /\ slot[n].from = request[n].to /\ slot[n].id = request[n].id
          /\ slot[n].from \in Node /\ Vouched(n, slot[n])
      BY <2>2, AckFields DEF Acknowledges, Inv, Acks
    <3>2. CASE restarted \cap {n, request[n].to} # {}
      BY <1>1, <3>2 DEF Promised!Arrived
    <3>3. CASE n \notin restarted /\ request[n].to \notin restarted
      <4>1. lastId[n] <= LastDelivered(request[n].to, n) /\ lastId[n] = Len(sent[n])
        BY <1>1, <1>2, <3>1, <3>3 DEF Vouched, Inv, Numbered, NumberedAt, Unwrapped
      <4>2. /\ LastDelivered(request[n].to, n) \in Nat /\ Len(sent[n]) \in Nat
            /\ LastDelivered(request[n].to, n) <= Len(sent[n])
        BY <3>1, DeliveredIsNumber DEF Inv, TypeOK
      <4>3. LastDelivered(request[n].to, n) = Len(sent[n])
        BY <4>1, <4>2
      <4>4. Delivered[request[n].to][n] = Len(sent[n])
        BY <3>1, <4>3 DEF Delivered
      <4> QED
        BY <1>1, <4>4 DEF Promised!Arrived
    <3> QED
      BY <3>2, <3>3
  <2> QED
    BY <2>1, <2>2
<1>3. n \in Underway /\ Underway' = Underway \ {n}
  BY ReturnEnds DEF Return
<1>4. Delivered' = Delivered
  BY SendtoWaitDelivers, SameDelivered
<1>5. Len(sent[n]) \in Nat
  BY DEF Inv, TypeOK
<1> QED
  BY <1>1, <1>2, <1>3, <1>4, <1>5 DEF Promised!Confirm, Confirm, ConfirmsAny

\* A delivery.
LEMMA DeliverImplements ==
  ASSUME Inv, NEW d \in Node, NEW m \in Request, Delivers(d, m)
  PROVE  Promised!Deliver(d)
<1>1. m.from \in Node \ {d} /\ m.n \in Nat /\ m.to \in {d, Broadcast}
  BY RequestFields DEF Delivers, Copy
<1>2. m.n <= Len(sent[m.from]) /\ sent[m.from][m.n] = m.to
  BY DEF Delivers, Copy
<1>3. LastDelivered(d, m.from) \in Nat /\ Len(sent[m.from]) \in Nat
  <2>1. sent \in [Node -> Seq(Node \cup {Broadcast})]
    BY DEF Inv, TypeOK
  <2>2. Len(sent[m.from]) \in Nat
    BY <1>1, <2>1
  <2>3. LastDelivered(d, m.from) \in Nat
    BY <1>1, DeliveredIsNumber
  <2> QED
    BY <2>2, <2>3
<1>4. LastDelivered(d, m.from) < m.n
  BY DEF Delivers
<1>5. m.n \in LastDelivered(d, m.from) + 1 .. Len(sent[m.from])
  BY <1>1, <1>2, <1>3, <1>4
<1>6. Delivered[d][m.from] = LastDelivered(d, m.from)
  BY <1>1 DEF Delivered
<1>7. Delivered' = [Delivered EXCEPT ![d][m.from] = m.n]
  <2>1. \A c, s \in Node : LastDelivered(c, s)' =
          IF c = d /\ s = m.from THEN m.n ELSE LastDelivered(c, s)
    BY DEF Delivers
  <2>2. Delivered' = [c \in Node |-> [s \in Node |->
          IF c = d /\ s = m.from THEN m.n ELSE LastDelivered(c, s)]]
    BY <2>1 DEF Delivered
  <2> QED
    BY <1>1, <2>2 DEF Delivered
<1>8. UNCHANGED <<sent, Underway, confirmed, restarted>>
  BY DEF Delivers, Underway
<1> QED
  BY <1>1, <1>2, <1>5, <1>6, <1>7, <1>8 DEF Promised!Deliver

\* A restart.
LEMMA RestartImplements ==
  ASSUME Inv, NEW n \in Node, Restart(n) PROVE Promised!Restart(n)
<1>1. Underway' = Underway \ {n}
  BY DEF Inv, TypeOK, Underway, Restart
<1>2. Delivered' = [Delivered EXCEPT ![n] = Promised!NothingGot]
  BY RestartDelivers DEF Delivered, Promised!NothingGot
<1> QED
  BY <1>1, <1>2 DEF Promised!Restart, Restart

\* Every step of sendtoWait() is one of Delivery or does not concern it.
LEMMA SendtoWaitImplements ==
  ASSUME Inv, NEW n \in Node, SendtoWait(n) PROVE PromisedOrWrapped \/ UNCHANGED Promised!vars
<1>. USE DEF PromisedOrWrapped
<1>0. TypeOK /\ DeliveredSame
  BY SendtoWaitDelivers DEF Inv
<1>1. ASSUME NEW to \in (Node \ {n}) \cup {Broadcast}, Submit(n, to) PROVE Promised!Next
  BY <1>1, SubmitImplements DEF Promised!Next
<1>2. CASE RequestSent(n)
  <2>1. request[n] # NoMessage
    BY <1>2 DEF RequestSent, Inv, Sending, SendingAt, SendLabels
  <2>2. CASE request[n].to = Broadcast
    BY <1>2, <2>1, <2>2, ConfirmImplements DEF RequestSent, Promised!Next
  <2>3. CASE request[n].to # Broadcast
    BY <1>0, <1>2, <2>3, Unseen DEF RequestSent
  <2> QED
    BY <2>2, <2>3
<1>3. CASE ReceiveAwaited(n)
  <2>1. request[n] # NoMessage
    BY <1>3 DEF ReceiveAwaited, Inv, Sending, SendingAt, SendLabels
  <2>2. slot[n] \in Ack
    BY <1>0, <1>3, RequestFields DEF ReceiveAwaited, Receive, Acknowledges, TypeOK, Message
  <2> QED
    BY <1>3, <2>1, <2>2, ConfirmImplements DEF ReceiveAwaited, Promised!Next
<1>4. CASE GiveUp(n)
  <2>1. request[n] # NoMessage
    BY <1>4 DEF GiveUp, Inv, Sending, SendingAt, SendLabels
  <2>2. n \in Underway /\ Underway' = Underway \ {n}
    BY <1>4, <2>1, ReturnEnds DEF GiveUp, Return
  <2> QED
    BY <1>0, <1>4, <2>2, SameDelivered DEF GiveUp, Promised!GiveUp, Promised!Next
<1>5. CASE TransmitRequest(n) \/ ReceiveSeen(n) \/ Discard(n) \/ AckAgainSent(n) \/ TimeOut(n)
  BY <1>0, <1>5, Unseen DEF TransmitRequest, ReceiveSeen, Discard, AckAgainSent, TimeOut
<1> QED
  BY <1>1, <1>2, <1>3, <1>4, <1>5 DEF SendtoWait

\* At the start nothing was sent.
LEMMA InitImplements == ASSUME Init PROVE Promised!Init
<1>1. Underway = {}
  BY DEF Init, Underway
<1>2. Delivered = [n \in Node |-> Promised!NothingGot]
  BY DEF Init, NothingSeen, Delivered, LastDelivered, Promised!NothingGot
<1>3. confirmed = Promised!NothingGot
  BY DEF Init, Promised!NothingGot
<1> QED
  BY <1>1, <1>2, <1>3 DEF Promised!Init, Init

\* The datagrams deliver at most once and in order, for any nodes, messages, retries and
\* restarts, and confirm what they should not only to a node that has sent more messages
\* than there are ids.
THEOREM DatagramsDeliver ==
  Spec => Promised!Init /\ [][PromisedOrWrapped]_(Promised!vars)
<1>1. Init => Promised!Init
  BY InitImplements
<1>2. Inv /\ [Next]_vars => [PromisedOrWrapped]_(Promised!vars)
  <2> SUFFICES ASSUME Inv, [Next]_vars PROVE PromisedOrWrapped \/ UNCHANGED Promised!vars
    OBVIOUS
  <2>1. CASE UNCHANGED vars
    BY <2>1, Unseen DEF vars, DeliveredSame, LastDelivered, SeenBefore
  <2>2. ASSUME NEW n \in Node, SendtoWait(n)
        PROVE  PromisedOrWrapped \/ UNCHANGED Promised!vars
    BY <2>2, SendtoWaitImplements
  <2>3. ASSUME NEW n \in Node, RecvfromAck(n) PROVE Promised!Next \/ UNCHANGED Promised!vars
    <3>1. CASE DeliveredSame
      BY <2>3, <3>1, Unseen
         DEF RecvfromAck, ReceiveAck, ReceiveBroadcast, ReceiveRequest, AckSent
    <3>2. ASSUME NEW m \in Request, Delivers(n, m) PROVE Promised!Next
      BY <3>2, DeliverImplements DEF Promised!Next
    <3> QED
      BY <2>3, <3>1, <3>2, RecvfromAckDelivers
  <2>4. ASSUME NEW n \in Node, Available(n) \/ Air(n) PROVE UNCHANGED Promised!vars
    BY <2>4, RadiosDeliver, Unseen DEF Available, Air, TransmissionEnds
  <2>5. ASSUME NEW n \in Node, Restart(n) PROVE Promised!Next
    BY <2>5, RestartImplements DEF Promised!Next
  <2> QED
    BY <2>1, <2>2, <2>3, <2>4, <2>5 DEF Next, PromisedOrWrapped
<1> QED
  BY <1>1, <1>2, InvAlways, PTL DEF Spec

\* While no node sends more than 255 messages, they keep all of the promise of Delivery:
\* what is confirmed has reached its program unless the sender or the receiver restarted.
\* The bound is real: the 256th may bear the id seen last.
THEOREM DatagramsImplementDelivery ==
  ASSUME \A n \in Node : MaxSent[n] <= 255 PROVE Spec => Implements
<1>1. Inv /\ [PromisedOrWrapped]_(Promised!vars) => [Promised!Next]_(Promised!vars)
  <2> SUFFICES ASSUME Inv, NEW n \in Node, ConfirmsAny(n) PROVE FALSE
    BY DEF PromisedOrWrapped
  <2>1. Len(sent[n]) \in Nat /\ Len(sent[n]) <= MaxSent[n] /\ MaxSent[n] \in Nat
    BY LimitAssumption DEF Inv, TypeOK, Numbered, NumberedAt
  <2>2. MaxSent[n] <= 255 /\ Len(sent[n]) > 255
    BY DEF ConfirmsAny
  <2> QED
    BY <2>1, <2>2
<1> QED
  BY <1>1, DatagramsDeliver, InvAlways, PTL DEF Implements, Promised!Spec
-----------------------------------------------------------------------------
\* What is left of a call of sendtoWait(): transmissions, and steps of the one in hand.
Left(n) == 3 * (Retries + 1 - tries[n])
           + (IF pc[n] = "transmitting" THEN 2
              ELSE IF pc[n] \in {"waiting", "reacking"} THEN 1 ELSE 0)

Calling(n) == pc[n] \in SendLabels

\* A call comes nearer to its end with every transmission, end of one and timeout, and
\* nothing that this or another node does takes it back.
EndsNearer ==
  [][\A n \in Node : Calling(n) /\ Calling(n)' =>
       /\ Left(n)' <= Left(n)
       /\ TransmitRequest(n) \/ RequestSent(n) \/ TimeOut(n) => Left(n)' < Left(n)]_vars

Counted == pc \in [Node -> Labels] /\ tries \in [Node -> 0 .. Retries + 1]

LEMMA LeftIsNat ==
  ASSUME Counted, NEW n \in Node
  PROVE  Left(n) \in Nat
<1>1. tries[n] \in Nat /\ tries[n] <= Retries + 1 /\ Retries \in Nat
  BY RetriesAssumption DEF Counted
<1>2. Retries + 1 - tries[n] \in Nat
  BY <1>1
<1> QED
  BY <1>2 DEF Left

\* A step of node n, in terms of its own pc and tries; those of others it leaves alone.
LEMMA StepCounts ==
  ASSUME Retries < 255, Counted, NEW n \in Node,
         SendtoWait(n) \/ RecvfromAck(n) \/ Available(n) \/ Air(n) \/ Restart(n)
  PROVE  /\ Counted'
         /\ \A m \in Node \ {n} : pc'[m] = pc[m] /\ tries'[m] = tries[m]
         /\ \/ pc[n] \notin SendLabels \/ pc'[n] \notin SendLabels
            \/ /\ pc[n] = "transmit" /\ pc'[n] = "transmitting"
               /\ tries[n] <= Retries /\ tries'[n] = tries[n] + 1
            \/ pc[n] = "transmitting" /\ pc'[n] = "waiting" /\ tries'[n] = tries[n]
            \/ pc[n] = "waiting" /\ pc'[n] = "transmit" /\ tries'[n] = tries[n]
            \/ /\ \/ pc[n] = "waiting" /\ pc'[n] = "reacking"
                  \/ pc[n] = "reacking" /\ pc'[n] = "waiting"
                  \/ pc'[n] = pc[n]
               /\ tries'[n] = tries[n]
               /\ ~TransmitRequest(n) /\ ~RequestSent(n) /\ ~TimeOut(n)
<1>. USE DEF Counted, Labels, SendLabels, Goto
<1>0. Retries \in Nat /\ 0 \in 0 .. Retries + 1
  BY RetriesAssumption
<1>1. ASSUME NEW to, Submit(n, to)
      PROVE  /\ pc' = [pc EXCEPT ![n] = "transmit"] /\ tries' = [tries EXCEPT ![n] = 0]
             /\ pc[n] = "app"
  BY <1>1 DEF Submit
<1>2. CASE TransmitRequest(n)
  <2>1. tries[n] + 1 <= 255 /\ tries[n] + 1 \in 0 .. Retries + 1
    BY <1>0, <1>2 DEF TransmitRequest
  <2>2. (tries[n] + 1) % 256 = tries[n] + 1
    BY <1>0, <2>1
  <2>. QED
    BY <1>2, <2>1, <2>2 DEF TransmitRequest
<1>3. CASE RequestSent(n)
  BY <1>3 DEF RequestSent, Return
<1>4. CASE TimeOut(n)
  BY <1>4 DEF TimeOut
<1>5. CASE ReceiveAwaited(n) \/ GiveUp(n)
  BY <1>5 DEF ReceiveAwaited, GiveUp, Return
<1>6. CASE ReceiveSeen(n) \/ AckAgainSent(n)
  BY <1>6 DEF ReceiveSeen, AckAgainSent, TransmitRequest, RequestSent, TimeOut
<1>7. CASE Discard(n) \/ Available(n) \/ Air(n)
  <2>1. UNCHANGED <<pc, tries>>
    BY <1>7 DEF Discard, Available, Air, TransmissionEnds, program
  <2>2. ~TransmitRequest(n) /\ ~TimeOut(n) /\ ~RequestSent(n)
    BY <2>1 DEF TransmitRequest, TimeOut, RequestSent, Return
  <2>. QED
    BY <2>1, <2>2
<1>8. CASE RecvfromAck(n)
  BY <1>8 DEF RecvfromAck, ReceiveAck, ReceiveBroadcast, ReceiveRequest, AckSent, program
<1>9. CASE Restart(n)
  BY <1>0, <1>9 DEF Restart
<1>. QED
  BY <1>0, <1>1, <1>2, <1>3, <1>4, <1>5, <1>6, <1>7, <1>8, <1>9 DEF SendtoWait

\* The safety half of SendtoWaitReturns, and why it needs Retries < 255: a call transmits
\* its message Retries + 1 times at most, since the tries left are a number that only
\* falls.  With 255 the byte that counts the tries starts again.
THEOREM SendtoWaitBounded ==
  ASSUME Retries < 255
  PROVE  Spec => [](\A n \in Node : Left(n) \in Nat) /\ EndsNearer
<1>1. Init => Counted
  BY RetriesAssumption DEF Init, Counted, Labels
<1>2. ASSUME Counted, [Next]_vars
      PROVE  /\ Counted'
             /\ [\A n \in Node : Calling(n) /\ Calling(n)' =>
                   /\ Left(n)' <= Left(n)
                   /\ TransmitRequest(n) \/ RequestSent(n) \/ TimeOut(n) => Left(n)' < Left(n)]_vars
  <2>1. CASE UNCHANGED vars
    BY <1>2, <2>1 DEF vars, program, Counted
  <2>2. ASSUME NEW n \in Node,
               SendtoWait(n) \/ RecvfromAck(n) \/ Available(n) \/ Air(n) \/ Restart(n),
               NEW m \in Node, Calling(m), Calling(m)'
        PROVE  /\ Left(m)' <= Left(m)
               /\ TransmitRequest(m) \/ RequestSent(m) \/ TimeOut(m) => Left(m)' < Left(m)
    <3>1. /\ tries[m] \in Nat /\ tries'[m] \in Nat /\ Retries \in Nat
          /\ tries[m] <= Retries + 1 /\ tries'[m] <= Retries + 1
      BY <1>2, <2>2, StepCounts, RetriesAssumption DEF Counted
    <3>2. CASE m # n
      <4>1. pc'[m] = pc[m] /\ tries'[m] = tries[m]
        BY <1>2, <2>2, <3>2, StepCounts
      <4>2. ~TransmitRequest(m) /\ ~TimeOut(m) /\ ~RequestSent(m)
        BY <1>2, <2>2, <4>1
           DEF TransmitRequest, TimeOut, RequestSent, Return, Goto,
               Counted, Calling, SendLabels
      <4>. QED
        BY <3>1, <4>1, <4>2 DEF Left
    <3>3. CASE m = n
      BY <1>2, <2>2, <3>1, <3>3, StepCounts DEF Left, Calling, SendLabels
    <3>. QED
      BY <3>2, <3>3
  <2>3. CASE Next
    <3>1. Counted'
      BY <1>2, <2>3, StepCounts DEF Next
    <3>. QED
      BY <2>2, <2>3, <3>1 DEF Next
  <2>. QED
    BY <1>2, <2>1, <2>3
<1>3. Counted => \A n \in Node : Left(n) \in Nat
  BY LeftIsNat
<1>. QED
  BY <1>1, <1>2, <1>3, PTL DEF Spec, EndsNearer
=============================================================================
