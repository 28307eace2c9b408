-------------------------------- MODULE RF22 --------------------------------
(***************************************************************************)
(* RH_RF22.cpp.  The chip checks the address and the checksum, and stops   *)
(* listening after a packet; _buf is used for reception and transmission.  *)
(* Packets are abstracted from the fragments in which they pass the FIFO.  *)
(***************************************************************************)
EXTENDS InterruptRadio

\* reset(), setModeIdle().
init == Started("Idle")

available == Test(valid \/ mode = "Tx", valid) \/ SetModeRx \/ Result(valid)

recv == Copy \/ Clear(<<>>)

\* The first half of send()'s atomic block: the buffer is emptied, for a text that is
\* refused, too, while the receiver is on.
fillTxBuf ==
  /\ Step("waitSent") /\ op = "send" /\ mode # "Tx"
  /\ \/ buf' = <<Own>> /\ sentOver' = (sentOver \/ valid) /\ Goto("transmit")
     \/ buf' = <<>> /\ sentOver' = (sentOver \/ valid \/ air = "old") /\ Return("any")
  /\ UNCHANGED <<radio, mode, valid, heardOf, handed, relistened, late, sends>>

\* The second: setModeTx() resets the RX FIFO, and with it _rxBufValid.  A preamble
\* heard since the first has its handler empty the buffer now; what else came in is
\* left to handleInterrupt.
startTransmit ==
  /\ At("transmit")
  /\ mode' = "Tx" /\ SetChip("tx") /\ valid' = FALSE
  /\ buf' = buf \/ (air = "young" /\ buf' = <<>>)
  /\ sentOver' = (sentOver \/ queue # <<>>) /\ late' = ~NoInterrupt
  /\ Return("any")
  /\ UNCHANGED <<queue, done, heardOf, handed, relistened, sends>>

send == Check \/ (mode # "Tx" /\ Waited) \/ fillTxBuf \/ startTransmit

sleep == Sleep

\* IPREAVAL: the preamble of a packet clears the buffer.
Preamble ==
  /\ chip = "rx" /\ air = "young" /\ Waiting
  /\ air' = "old" /\ valid' = FALSE /\ buf' = <<>>
  /\ UNCHANGED <<chip, queue, done, mode, thread, history>>

\* IFFERROR: the transmission is started anew, the packet being received is lost.
FifoError ==
  /\ air = "old" /\ Waiting
  /\ \/ mode = "Tx" /\ air' = "young" /\ UNCHANGED <<valid, buf>>
     \/ /\ chip = "rx" /\ air' = "none"
        /\ IF mode = "Rx" THEN valid' = FALSE /\ buf' = <<>> ELSE UNCHANGED <<valid, buf>>
  /\ UNCHANGED <<chip, queue, done, mode, thread, history>>

\* IPKSENT.
PacketSent == queue = <<>> /\ mode' = "Idle" /\ UNCHANGED <<chip, air, valid, buf>>

\* IPKVALID: the octets of a packet that came while the buffer was filled for sending
\* go behind those, if it is the longer.
PacketValid == /\ queue = <<"ours">> /\ mode' = "Idle"
               /\ valid' = TRUE /\ buf' = (IF buf = <<>> THEN queue ELSE buf)
               /\ UNCHANGED <<chip, air>>

\* IPKVALID, with a length less than what the buffer holds: the receiver stays off.
BadLength == /\ queue = <<"faulty">> \/ (queue = <<"ours">> /\ buf # <<>>)
             /\ mode' = "Idle" /\ valid' = FALSE /\ buf' = <<>>
             /\ UNCHANGED <<chip, air>>

\* Mutant: setModeRx() is called with _mode still at receive.
CrcErrorStillRx == /\ queue = <<"faulty">>
                   /\ SetMode("Rx", "rx") /\ valid' = FALSE /\ buf' = <<>>

\* ICRCERROR: the receiver is turned on, whatever the chip is at by now.
CrcError == /\ queue = <<"faulty">>
            /\ mode' = "Rx" /\ SetChip("rx") /\ valid' = FALSE /\ buf' = <<>>

\* The atomic block of send() holds it up.
handleInterrupt ==
  /\ pc # "transmit" /\ (queue # <<>> \/ done)
  /\ PacketSent \/ PacketValid \/ BadLength \/ CrcError
  /\ queue' = <<>> /\ done' = FALSE
  /\ UNCHANGED <<thread, history>>

chipActs == \/ PacketStarts(1) \/ Preamble \/ (chip = "tx" /\ TimePasses)
            \/ FifoError \/ RxEnds({"ours", "faulty"}, "idle") \/ TxEnds

Thread == available \/ recv \/ send \/ sleep
Next == Calls \/ CallSleep \/ Thread \/ handleInterrupt \/ chipActs
=============================================================================
