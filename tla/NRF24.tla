-------------------------------- MODULE NRF24 --------------------------------
(* RH_NRF24.cpp: no interrupts; available() and waitPacketSent() ask the chip,*)
(* whose FIFO holds three packets.                                            *)
EXTENDS PacketRadio

CONSTANT FifoSize        \* 3

\* Flags are cleared, FIFOs are flushed.
init == Started("Idle")

\* Nothing in the FIFO; too long a packet, for which it is flushed; a packet.
ReadFifo ==
  \/ /\ queue = <<>>
     /\ SetMode("Rx", "rx") /\ Answer(FALSE)
     /\ UNCHANGED <<queue, valid, buf>>
  \/ /\ queue # <<>> /\ Head(queue) = "faulty"
     /\ mode' = "Idle" /\ SetChip("idle") /\ Answer(FALSE)
     /\ queue' = <<>> /\ valid' = FALSE /\ buf' = <<>>
  \/ /\ queue # <<>> /\ Head(queue) = "other"
     /\ SetMode("Rx", "rx") /\ Answer(FALSE)
     /\ queue' = Tail(queue) /\ buf' = <<Head(queue)>> /\ UNCHANGED valid
  \/ /\ queue # <<>> /\ Head(queue) = "ours"
     /\ mode' = "Idle" /\ SetChip("idle") /\ Answer(TRUE)
     /\ queue' = Tail(queue) /\ buf' = <<Head(queue)>> /\ valid' = TRUE

available ==
  /\ At("available")
  /\ IF valid \/ mode = "Tx"
     THEN Answer(valid) /\ UNCHANGED <<chip, air, queue, driven>>
     ELSE ReadFifo
  /\ UNCHANGED <<done, history>>

recv ==
  /\ At("copy")
  /\ HandOver /\ valid' = FALSE /\ buf' = <<>> /\ Return("any")
  /\ UNCHANGED <<radio, mode, heardOf, flags>>

\* Our own message is put together in _buf; the flag of the last is cleared.
send ==
  /\ At("send")
  /\ \/ /\ SetMode("Tx", "tx") /\ done' = FALSE /\ buf' = <<Own>>
        /\ sentOver' = (sentOver \/ valid) /\ Return("waitSent")
     \/ Return("any") /\ UNCHANGED <<radio, mode, buf, sentOver>>
  /\ UNCHANGED <<queue, valid, heardOf, handed, relistened, late, sends>>

\* Mutant: the mode is left for an interrupt to change.
waitPacketSentLeft ==
  /\ At("waitSent") /\ Return("any")
  /\ UNCHANGED <<radio, driven, history>>

waitPacketSent ==
  /\ At("waitSent") /\ Return("any")
  /\ IF mode = "Tx" THEN done /\ SetMode("Idle", "idle") /\ done' = FALSE
                    ELSE UNCHANGED <<mode, chip, air, done>>
  /\ UNCHANGED <<queue, valid, buf, history>>

sleep ==
  /\ At("sleep") /\ SetMode("Sleep", "sleep") /\ Return("any")
  /\ UNCHANGED <<queue, done, valid, buf, history>>

chipActs == PacketStarts(FifoSize) \/ TimePasses \/ RxEnds(Kinds, "rx") \/ TxEnds

Thread == available \/ recv \/ send \/ waitPacketSent \/ sleep
Next == Calls \/ CallSleep \/ Thread \/ chipActs
=============================================================================
