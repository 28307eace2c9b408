-------------------------- MODULE ReliableDatagram --------------------------
(***************************************************************************)
(* RHReliableDatagram.cpp: datagrams that are acknowledged and repeated.   *)
(* sendtoWait() transmits, waits for the acknowledgement and repeats when  *)
(* none comes; recvfromAck() acknowledges and drops what it has seen.  A   *)
(* node remembers of each sender only the id it saw last.                  *)
(*                                                                         *)
(* The nodes' radios behave as Radio says: deaf while they transmit or     *)
(* hold a message.  A packet that is heard may be held for long before the *)
(* program takes it, and may be lost for any receiver.                     *)
(***************************************************************************)
EXTENDS Naturals, Sequences, FiniteSets

CONSTANTS
  Node,          \* addresses of the nodes
  Broadcast,     \* RH_BROADCAST_ADDRESS
  Retries,       \* _retries
  NoMessage,
  Unstable,      \* the nodes that may lose power
  MaxSent        \* bound on the messages of each node

ASSUME AddressAssumption == Broadcast \notin Node
ASSUME RetriesAssumption == Retries \in 0 .. 255
ASSUME UnstableAssumption == Unstable \subseteq Node
ASSUME LimitAssumption == MaxSent \in [Node -> Nat]

Ids == 0 .. 255
NextId(id) == (id + 1) % 256

\* What travels: the headers, and of the text only which message of the
\* sender it is; no code reads n.
Request == [from : Node, to : Node \cup {Broadcast}, id : Ids, ack : {FALSE}, n : Nat \ {0}]
Ack == [from : Node, to : Node, id : Ids, ack : {TRUE}, n : {0}]
Message == Request \cup Ack
ASSUME NoMessageAssumption == NoMessage \notin Message

VARIABLES
  pc,            \* where the program is: its own code, sendtoWait, recvfromAck
  phase, slot,   \* the radio's mode and the message it holds
  lastId,        \* _lastSequenceNumber
  seenIds,       \* _seenIds
  request,       \* the message sendtoWait() is at
  tries,         \* retries of sendtoWait(): transmissions so far
  taken,         \* the message that is being acknowledged
  sent, got,     \* history, see Delivery
  confirmed, restarted

program == <<pc, lastId, seenIds, request, tries, taken>>
radio == <<phase, slot>>
history == <<sent, got, confirmed, restarted>>
vars == <<program, radio, history>>

NothingSeen == [s \in Node |-> 0]

\* Global objects: memory is zeroed before the constructor runs.
Init == /\ pc = [n \in Node |-> "app"]
        /\ phase = [n \in Node |-> "idle"]
        /\ slot = [n \in Node |-> NoMessage]
        /\ lastId = [n \in Node |-> 0]
        /\ seenIds = [n \in Node |-> NothingSeen]
        /\ request = [n \in Node |-> NoMessage]
        /\ tries = [n \in Node |-> 0]
        /\ taken = [n \in Node |-> NoMessage]
        /\ sent = [n \in Node |-> <<>>]
        /\ got = [n \in Node |-> NothingSeen]
        /\ confirmed = [n \in Node |-> 0]
        /\ restarted = {}

Goto(n, from, to) == pc[n] = from /\ pc' = [pc EXCEPT ![n] = to]

Transmit(n) == phase' = [phase EXCEPT ![n] = "sending"] /\ UNCHANGED slot

\* available() and recv(): the message is taken and the radio listens.
Receive(n) == /\ slot[n] # NoMessage
              /\ slot' = [slot EXCEPT ![n] = NoMessage]

Listening(n) == phase' = [phase EXCEPT ![n] = "listening"]
-----------------------------------------------------------------------------
(* sendtoWait *)

Submit(n, to) ==
  /\ Goto(n, "app", "transmit")
  /\ Len(sent[n]) < MaxSent[n]
  /\ sent' = [sent EXCEPT ![n] = Append(@, to)]
  /\ lastId' = [lastId EXCEPT ![n] = NextId(@)]
  /\ request' = [request EXCEPT ![n] =
       [from |-> n, to |-> to, id |-> NextId(lastId[n]), ack |-> FALSE, n |-> Len(sent[n]) + 1]]
  /\ tries' = [tries EXCEPT ![n] = 0]
  /\ UNCHANGED <<seenIds, taken, radio, got, confirmed, restarted>>

\* retries++ <= _retries
TransmitRequest(n) ==
  /\ Goto(n, "transmit", "transmitting")
  /\ tries[n] <= Retries
  /\ tries' = [tries EXCEPT ![n] = (@ + 1) % 256]
  /\ Transmit(n)
  /\ UNCHANGED <<lastId, seenIds, request, taken, history>>

Return(n) == /\ pc' = [pc EXCEPT ![n] = "app"]
             /\ request' = [request EXCEPT ![n] = NoMessage]

Confirm(n) == confirmed' = [confirmed EXCEPT ![n] = request[n].n]

\* Broadcasts are not acknowledged.
RequestSent(n) ==
  /\ pc[n] = "transmitting" /\ phase[n] # "sending"
  /\ \/ request[n].to = Broadcast /\ Return(n) /\ Confirm(n)
     \/ /\ request[n].to # Broadcast
        /\ pc' = [pc EXCEPT ![n] = "waiting"]
        /\ UNCHANGED <<request, confirmed>>
  /\ UNCHANGED <<lastId, seenIds, tries, taken, radio, sent, got, restarted>>

\* Mutant: any acknowledgement of the right node will do.
AcknowledgesAny(m, r) == m.from = r.to /\ m.to = r.from /\ m.ack

Acknowledges(m, r) == m.from = r.to /\ m.to = r.from /\ m.ack /\ m.id = r.id

SeenBefore(n, m) == m.id = seenIds[n][m.from]

\* The acknowledgement sendtoWait() waits for.
ReceiveAwaited(n) ==
  /\ pc[n] = "waiting"
  /\ Receive(n) /\ Acknowledges(slot[n], request[n])
  /\ Listening(n)
  /\ Return(n) /\ Confirm(n)
  /\ UNCHANGED <<lastId, seenIds, tries, taken, sent, got, restarted>>

\* A request already received is acknowledged again.
ReceiveSeen(n) ==
  /\ Goto(n, "waiting", "reacking")
  /\ Receive(n) /\ ~slot[n].ack /\ SeenBefore(n, slot[n])
  /\ taken' = [taken EXCEPT ![n] = slot[n]]
  /\ phase' = [phase EXCEPT ![n] = "sending"]
  /\ UNCHANGED <<lastId, seenIds, request, tries, history>>

\* Everything else is discarded unread, also new requests.
Discard(n) ==
  /\ pc[n] = "waiting"
  /\ Receive(n) /\ ~Acknowledges(slot[n], request[n])
  /\ slot[n].ack \/ ~SeenBefore(n, slot[n])
  /\ Listening(n)
  /\ UNCHANGED <<program, history>>

AckAgainSent(n) ==
  /\ Goto(n, "reacking", "waiting") /\ phase[n] # "sending"
  /\ taken' = [taken EXCEPT ![n] = NoMessage]
  /\ UNCHANGED <<lastId, seenIds, request, tries, radio, history>>

\* Mutant: the tries are counted anew.
TimeOutStartsOver(n) == /\ Goto(n, "waiting", "transmit")
                        /\ tries' = [tries EXCEPT ![n] = 0]
                        /\ UNCHANGED <<lastId, seenIds, request, taken, radio, history>>

\* No time left: the request is repeated as long as tries are left.
TimeOut(n) == /\ Goto(n, "waiting", "transmit")
              /\ UNCHANGED <<lastId, seenIds, request, tries, taken, radio, history>>

GiveUp(n) == /\ pc[n] = "transmit" /\ tries[n] > Retries
             /\ Return(n)
             /\ UNCHANGED <<lastId, seenIds, tries, taken, radio, history>>
-----------------------------------------------------------------------------
(* recvfromAck *)

\* available() finds nothing and turns the receiver on; also in sendtoWait.
Available(n) == /\ pc[n] \in {"app", "waiting"}
                /\ slot[n] = NoMessage /\ phase[n] = "idle"
                /\ Listening(n)
                /\ UNCHANGED <<program, slot, history>>

\* The message is returned to the program unless its id is the one seen last.
ReturnIfNew(n, m) ==
  IF SeenBefore(n, m) THEN UNCHANGED <<seenIds, got>>
  ELSE /\ seenIds' = [seenIds EXCEPT ![n][m.from] = m.id]
       /\ got' = [got EXCEPT ![n][m.from] = m.n]

ReceiveAck(n) ==
  /\ pc[n] = "app"
  /\ Receive(n) /\ slot[n].ack
  /\ Listening(n)
  /\ UNCHANGED <<program, history>>

ReceiveBroadcast(n) ==
  /\ pc[n] = "app"
  /\ Receive(n) /\ slot[n].to = Broadcast
  /\ Listening(n)
  /\ ReturnIfNew(n, slot[n])
  /\ UNCHANGED <<pc, lastId, request, tries, taken, sent, confirmed, restarted>>

\* The acknowledgement goes out before the message is looked at.
ReceiveRequest(n) ==
  /\ Goto(n, "app", "acking")
  /\ Receive(n) /\ ~slot[n].ack /\ slot[n].to # Broadcast
  /\ taken' = [taken EXCEPT ![n] = slot[n]]
  /\ phase' = [phase EXCEPT ![n] = "sending"]
  /\ UNCHANGED <<lastId, seenIds, request, tries, history>>

AckSent(n) ==
  /\ Goto(n, "acking", "app") /\ phase[n] # "sending"
  /\ ReturnIfNew(n, taken[n])
  /\ taken' = [taken EXCEPT ![n] = NoMessage]
  /\ UNCHANGED <<lastId, request, tries, radio, sent, confirmed, restarted>>
-----------------------------------------------------------------------------
(* External: the air and the power. *)

\* Mutant: the TO header comes back as the FROM header, also a broadcast's.
AckOfSwapped(m, n) == [from |-> m.to, to |-> m.from, id |-> m.id, ack |-> TRUE, n |-> 0]

\* acknowledge() answers the sender and keeps the id.
AckOf(m, n) == [from |-> n, to |-> m.from, id |-> m.id, ack |-> TRUE, n |-> 0]

OnAir(n) == IF pc[n] = "transmitting" THEN request[n] ELSE AckOf(taken[n], n)

Hearing(n) == {m \in Node \ {n} : phase[m] = "listening" /\ OnAir(n).to \in {m, Broadcast}}

\* Of those who listen to the address, any may miss the packet.
TransmissionEnds(n, heard) ==
  /\ phase' = [m \in Node |-> IF m \in heard \cup {n} THEN "idle" ELSE phase[m]]
  /\ slot' = [m \in Node |-> IF m \in heard THEN OnAir(n) ELSE slot[m]]
  /\ UNCHANGED <<program, history>>

\* Nothing survives a loss of power.
Restart(n) ==
  /\ n \in Unstable
  /\ restarted' = restarted \cup {n}
  /\ pc' = [pc EXCEPT ![n] = "app"]
  /\ phase' = [phase EXCEPT ![n] = "idle"]
  /\ slot' = [slot EXCEPT ![n] = NoMessage]
  /\ lastId' = [lastId EXCEPT ![n] = 0]
  /\ seenIds' = [seenIds EXCEPT ![n] = NothingSeen]
  /\ request' = [request EXCEPT ![n] = NoMessage]
  /\ tries' = [tries EXCEPT ![n] = 0]
  /\ taken' = [taken EXCEPT ![n] = NoMessage]
  /\ got' = [got EXCEPT ![n] = NothingSeen]
  /\ UNCHANGED <<sent, confirmed>>

SendtoWait(n) == \/ \E to \in (Node \ {n}) \cup {Broadcast} : Submit(n, to)
                 \/ TransmitRequest(n) \/ RequestSent(n)
                 \/ ReceiveAwaited(n) \/ ReceiveSeen(n) \/ Discard(n)
                 \/ AckAgainSent(n) \/ TimeOut(n) \/ GiveUp(n)
RecvfromAck(n) == ReceiveAck(n) \/ ReceiveBroadcast(n) \/ ReceiveRequest(n) \/ AckSent(n)
Air(n) == /\ phase[n] = "sending"
          /\ \E heard \in SUBSET Hearing(n) : TransmissionEnds(n, heard)

Next == \E n \in Node : SendtoWait(n) \/ RecvfromAck(n) \/ Available(n) \/ Air(n) \/ Restart(n)

Spec == Init /\ [][Next]_vars

\* sendtoWait() runs, transmissions end, and time passes also while packets
\* keep coming: the timeout runs from the end of the transmission.
Fairness == \A n \in Node :
  /\ WF_vars(TransmitRequest(n)) /\ WF_vars(RequestSent(n)) /\ WF_vars(AckAgainSent(n))
  /\ WF_vars(GiveUp(n)) /\ WF_vars(Air(n))
  /\ SF_vars(TimeOut(n))

FairSpec == Spec /\ Fairness
-----------------------------------------------------------------------------
(* Properties. *)

Labels == {"app", "transmit", "transmitting", "waiting", "reacking", "acking"}

\* Every variable has its type; a byte counts the tries.
TypeOK == /\ pc \in [Node -> Labels]
          /\ phase \in [Node -> {"idle", "listening", "sending"}]
          /\ slot \in [Node -> Message \cup {NoMessage}]
          /\ lastId \in [Node -> Ids] /\ seenIds \in [Node -> [Node -> Ids]]
          /\ request \in [Node -> Request \cup {NoMessage}]
          /\ tries \in [Node -> Ids]
          /\ taken \in [Node -> Request \cup {NoMessage}]
          /\ sent \in [Node -> Seq(Node \cup {Broadcast})]
          /\ got \in [Node -> [Node -> Nat]]
          /\ confirmed \in [Node -> Nat] /\ restarted \subseteq Node

\* A message counts as delivered from the moment recvfromAck() takes it, since
\* the acknowledgement may arrive before recvfromAck() returns.
LastDelivered(d, s) ==
  IF pc[d] = "acking" /\ taken[d].from = s /\ ~SeenBefore(d, taken[d])
  THEN taken[d].n ELSE got[d][s]
Delivered == [d \in Node |-> [s \in Node |-> LastDelivered(d, s)]]
Underway == {n \in Node : request[n] # NoMessage}

Promised == INSTANCE Delivery WITH underway <- Underway, got <- Delivered

\* The datagrams keep the promise of Delivery: at most once and in order, also
\* through restarts; confirmed only if delivered, unless there was a restart.
Implements == Promised!Spec

\* "sendtoWait will give up and return false if there is no ack received after
\* all transmissions time out and the retries count is exhausted": it returns,
\* whatever the other nodes send meanwhile.
SendtoWaitReturns == \A n \in Node : request[n] # NoMessage ~> request[n] = NoMessage

\* "Duplicated messages are re-acknowledged when received [...] even though we
\* have already received that message": what recvfromAck() drops as a duplicate
\* has been given to the program before.
OnlyDuplicatesDropped ==
  [][\A n \in Node : AckSent(n) => got'[n][taken[n].from] = taken[n].n]_vars
=============================================================================
