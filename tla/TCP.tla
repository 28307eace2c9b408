--------------------------------- MODULE TCP ---------------------------------
(***************************************************************************)
(* RH_TCP.cpp: packets in the simulated air of etherSimulator.pl, which    *)
(* come as messages over a socket.  queue holds the messages that have     *)
(* come and were not read; air tells that of one more, five octets or more *)
(* have come, but not all.  What is sent is written to the socket at once, *)
(* and _mode does not matter.                                              *)
(***************************************************************************)
EXTENDS PacketRadio, FiniteSetsExt

\* A new connection.
init == Started("Initialising")

\* Messages of another type, and those too long for _rxBuf, are passed over.
Packets == {i \in DOMAIN queue : queue[i] # "faulty"}

\* Of all packets read at once the last is kept; it takes the place of one that is
\* still held, too, and validateRxBuf() forgets nothing.
checkForEvents ==
  /\ queue' = <<>>
  /\ IF Packets = {} THEN UNCHANGED <<valid, buf, relistened>>
     ELSE LET last == Max(Packets)
          IN /\ buf' = <<queue[last]>> /\ valid' = (valid \/ queue[last] = "ours")
             /\ relistened' = (relistened \/ valid \/ Packets # {last})

\* Messages one of which does not fit into socketBuf may be read in part.
available ==
  /\ At("available") /\ air = "none"
  /\ checkForEvents /\ Answer(valid')
  /\ UNCHANGED <<chip, air, done, mode, heardOf, handed, sentOver, late, sends>>

\* "while (socketBufLen >= 5)" ends when the rest of the message is there, which is not
\* read in the loop.
partRead ==
  /\ At("available") /\ (air # "none" \/ Len(queue) > 1)
  /\ Goto("stuck")
  /\ UNCHANGED <<radio, driven, history>>

stuck == At("stuck") /\ UNCHANGED vars

recv ==
  /\ At("copy")
  /\ HandOver /\ valid' = FALSE /\ buf' = <<>> /\ Return("any")
  /\ UNCHANGED <<radio, mode, heardOf, flags>>

\* send() returns after ten milliseconds; waitPacketSent() has nothing to wait for.
send == /\ At("send") \/ At("waitSent")
        /\ Return("any")
        /\ UNCHANGED <<radio, driven, history>>

MessageStarts ==
  /\ air = "none" /\ arrived < MaxPackets
  /\ air' = "young"
  /\ UNCHANGED <<chip, queue, done, driven, thread, history>>

MessageEnds ==
  /\ air # "none"
  /\ \E kind \in Kinds : /\ queue' = Append(queue, kind) /\ seen' = seen \cup {kind}
                         /\ heard' = heard + (IF kind = "ours" THEN 1 ELSE 0)
  /\ arrived' = arrived + 1 /\ air' = "none"
  /\ UNCHANGED <<chip, done, driven, thread, handed, flags>>

socket == MessageStarts \/ TimePasses \/ MessageEnds

Thread == available \/ partRead \/ stuck \/ recv \/ send
Next == Calls \/ Thread \/ socket
=============================================================================
