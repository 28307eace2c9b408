-------------------------------- MODULE RF24 --------------------------------
(***************************************************************************)
(* RH_RF24.cpp.  The chip stops listening after a packet; _buf is used for *)
(* reception and transmission, and what is received is appended to it.     *)
(* Packets are abstracted from the fragments in which they pass the FIFO.  *)
(***************************************************************************)
EXTENDS InterruptRadio

CONSTANT Room            \* packets that fit into _buf

\* power_on_reset(); _mode is left as it was.
init == Started("Initialising")

available == Test(mode = "Tx" \/ valid, mode # "Tx") \/ SetModeRx \/ Result(valid)

recv == Copy \/ Clear(<<>>)

\* setModeIdle(), "Prevent RX while filling the fifo", then the message is put into the
\* buffer.  _rxBufValid is left as it is.
fillBuf ==
  /\ Step("waitSent") /\ op = "send" /\ mode # "Tx"
  /\ SetMode("Idle", "idle") /\ buf' = <<Own>>
  /\ sentOver' = (sentOver \/ valid) /\ Goto("transmit")
  /\ UNCHANGED <<queue, done, valid, heardOf, handed, relistened, late, sends>>

startTransmit ==
  /\ Step("transmit")
  /\ SetMode("Tx", "tx") /\ Return("any")
  /\ UNCHANGED <<queue, done, valid, buf, history>>

send == Check \/ (mode # "Tx" /\ Waited) \/ fillBuf \/ startTransmit

sleep == Sleep

clearBuffer == valid' = FALSE /\ buf' = <<>>

\* Mutant: the room left is not looked at.
ReceiveUnchecked(packet) ==
  buf' = Append(buf, packet) /\ valid' = (valid \/ Head(buf') = "ours")

\* readNextFragment() and validateRxBuf(): the headers looked at are the first in
\* the buffer, which a packet for another node has not left.
Receive(packet) ==
  IF Len(buf) = Room THEN clearBuffer
  ELSE buf' = Append(buf, packet) /\ valid' = (valid \/ Head(buf') = "ours")

\* INVALID_SYNC, any number of times: "After INVALID_SYNC, sometimes the radio gets into
\* a silly state and subsequently reports it for every packet".  The FIFO and the buffer
\* are cleared, and _mode says idle, but the chip goes on receiving.
invalidSync ==
  /\ chip = "rx"
  /\ mode' = "Idle" /\ clearBuffer
  /\ seen' = seen \cup {"nosync"}
  /\ UNCHANGED <<radio, thread, arrived, heard, handed, flags>>

\* CRC_ERROR, PACKET_SENT and PACKET_RX.
handleInterrupt ==
  /\ queue # <<>> \/ done
  /\ queue' = <<>> /\ done' = FALSE
  /\ mode' = "Idle"
  /\ IF queue = <<>> \/ Head(queue) = "faulty" THEN clearBuffer ELSE Receive(Head(queue))
  /\ UNCHANGED <<chip, air, thread, history>>

chipActs == PacketStarts(1) \/ TimePasses \/ RxEnds(Kinds, "idle") \/ TxEnds \/ invalidSync

Thread == available \/ recv \/ send \/ sleep
Next == Calls \/ CallSleep \/ Thread \/ handleInterrupt \/ chipActs
=============================================================================
