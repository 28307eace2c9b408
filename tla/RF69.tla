-------------------------------- MODULE RF69 --------------------------------
(* RH_RF69.cpp: interrupts for a packet and for the end of a transmission.   *)
EXTENDS InterruptRadio

\* The chip is not reset, but put into standby; its FIFO is emptied when the receiver
\* is turned on.
init == Started("Idle")

\* The receiver is turned on over a message held, too.
available == Test(mode = "Tx", FALSE) \/ SetModeRx \/ Result(valid)

recv == Copy \/ Clear(buf)

\* waitPacketSent(), then the FIFO is filled in standby.
send == \/ Check
        \/ /\ mode # "Tx" /\ Sent(SetMode("Tx", "tx") /\ UNCHANGED <<valid, buf>>)
           /\ UNCHANGED done

sleep == Sleep

\* readFifo(): another node's packet is left in the chip.
readFifo == IF Head(queue) = "ours" THEN valid' = TRUE /\ buf' = queue
                                    ELSE UNCHANGED <<valid, buf>>

\* The receiver stops for every packet.
handleInterrupt ==
  /\ \/ done /\ mode = "Tx" /\ UNCHANGED <<valid, buf>>
     \/ queue # <<>> /\ mode = "Rx" /\ readFifo
  /\ SetMode("Idle", "idle") /\ queue' = <<>> /\ done' = FALSE
  /\ UNCHANGED <<thread, history>>

chipActs == PacketStarts(1) \/ TimePasses \/ RxEnds(Kinds, "rx") \/ TxEnds

Thread == available \/ recv \/ send \/ sleep
Next == Calls \/ CallSleep \/ Thread \/ handleInterrupt \/ chipActs
=============================================================================
