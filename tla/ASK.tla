--------------------------------- MODULE ASK ---------------------------------
(***************************************************************************)
(* RH_ASK.cpp: a transmitter and a receiver without a chip.  A timer's     *)
(* interrupt samples and sends bits, while _mode says so; here it ends     *)
(* packets.  queue stands for _rxBufFull.  What a transmission leaves of a *)
(* packet that was coming in may spoil the next, which is then faulty.     *)
(***************************************************************************)
EXTENDS InterruptRadio

\* Pins and timer.
init == Started("Idle")

\* validateRxBuf(), of what the interrupt has put into the buffer.
validateRxBuf ==
  /\ Step("result")
  /\ queue' = <<>>
  /\ IF queue = <<>> THEN UNCHANGED <<valid, buf>>
     ELSE buf' = queue /\ valid' = (Head(queue) = "ours" \/ (valid /\ Head(queue) = "other"))
  /\ Answer(valid')
  /\ UNCHANGED <<chip, air, done, mode, history>>

available == Test(mode = "Tx", FALSE) \/ SetModeRx \/ validateRxBuf

recv == Copy \/ Clear(buf)

\* The symbols to be sent have a buffer of their own.
send == \/ Check
        \/ /\ mode # "Tx" /\ Sent(SetMode("Tx", "tx") /\ UNCHANGED <<valid, buf>>)
           /\ UNCHANGED done

\* The last of a packet's bits: the receiver stops.
receiveTimer == Receives(Kinds, "idle") /\ mode' = "Idle" /\ UNCHANGED <<valid, buf>>

\* After the last bit.
transmitTimer == /\ done /\ done' = FALSE
                 /\ SetMode("Idle", "idle")
                 /\ UNCHANGED <<queue, valid, buf, thread, history>>

chipActs == PacketStarts(1) \/ TimePasses \/ TxEnds

Thread == available \/ recv \/ send
Next == Calls \/ Thread \/ receiveTimer \/ transmitTimer \/ chipActs
=============================================================================
