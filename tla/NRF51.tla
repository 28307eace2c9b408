-------------------------------- MODULE NRF51 --------------------------------
(* RH_NRF51.cpp: no interrupts; the chip writes a packet into _buf and        *)
(* disables itself.  queue stands for the event that says so.                 *)
EXTENDS PacketRadio

\* "Disable and reset the radio", setModeIdle().
init == Started("Idle")

\* setModeRx() clears the event and starts the receiver, unless _mode says that
\* it is on: after a packet that was not accepted, the event stays and nothing
\* is started.
Look ==
  IF mode # "Rx"
  THEN /\ SetMode("Rx", "rx") /\ queue' = <<>> /\ Answer(FALSE) /\ UNCHANGED <<valid, buf>>
  ELSE IF queue # <<>> /\ Head(queue) = "ours"
  THEN /\ mode' = "Idle" /\ SetChip("idle") /\ queue' = <<>> /\ Answer(TRUE)
       /\ valid' = TRUE /\ buf' = queue
  ELSE Answer(FALSE) /\ UNCHANGED <<queue, driven, chip, air>>

available ==
  /\ At("available")
  /\ IF valid \/ mode = "Tx"
     THEN Answer(valid) /\ UNCHANGED <<chip, air, queue, driven>>
     ELSE Look
  /\ UNCHANGED <<done, history>>

recv ==
  /\ At("copy")
  /\ HandOver /\ valid' = FALSE /\ buf' = <<>> /\ Return("any")
  /\ UNCHANGED <<radio, mode, heardOf, flags>>

\* The buffer is the one the chip receives into; setModeTx() clears the event.
send ==
  /\ At("send")
  /\ \/ /\ mode' = "Tx" /\ SetChip("tx") /\ done' = FALSE /\ queue' = <<>>
        /\ buf' = <<Own>> /\ valid' = FALSE
        /\ sentOver' = (sentOver \/ valid \/ queue # <<>>) /\ Return("waitSent")
     \/ Return("any") /\ UNCHANGED <<radio, driven, sentOver>>
  /\ UNCHANGED <<heardOf, handed, relistened, late, sends>>

waitPacketSent ==
  /\ At("waitSent") /\ Return("any")
  /\ IF mode = "Tx" THEN done /\ SetMode("Idle", "idle") /\ done' = FALSE
                    ELSE UNCHANGED <<mode, chip, air, done>>
  /\ UNCHANGED <<queue, valid, buf, history>>

chipActs == PacketStarts(1) \/ TimePasses \/ RxEnds(Kinds, "idle") \/ TxEnds

Thread == available \/ recv \/ send \/ waitPacketSent
Next == Calls \/ Thread \/ chipActs
=============================================================================
