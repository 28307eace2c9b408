-------------------------------- MODULE MRF89 --------------------------------
(* RH_MRF89.cpp: interrupts for a packet and for the end of a transmission.   *)
EXTENDS InterruptRadio

\* "Make sure we are not in some unexpected mode from a previous run": setOpMode(),
\* which leaves _mode as it was.
init == Started("Initialising")

available == Test(mode = "Tx", FALSE) \/ SetModeRx \/ Result(valid)

recv == Copy \/ Clear(<<>>)

send == \/ Check
        \/ /\ mode # "Tx" /\ Sent(SetMode("Tx", "tx") /\ UNCHANGED <<valid, buf>>)
           /\ UNCHANGED done

sleep == Sleep

\* Mutant: the receiver stays on whatever has come.
handleInterruptListening ==
  /\ queue # <<>> \/ done
  /\ queue' = <<>> /\ done' = FALSE
  /\ IF mode = "Tx" THEN SetMode("Idle", "idle") /\ UNCHANGED <<valid, buf>>
     ELSE IF Head(queue) = "faulty"
     THEN valid' = FALSE /\ buf' = <<>> /\ UNCHANGED <<mode, chip, air>>
     ELSE /\ buf' = queue /\ valid' = (valid \/ Head(queue) = "ours")
          /\ UNCHANGED <<mode, chip, air>>
  /\ UNCHANGED <<thread, history>>

\* A packet that is not for us is read, and the receiver stays on.
handleInterrupt ==
  /\ queue # <<>> \/ done
  /\ queue' = <<>> /\ done' = FALSE
  /\ IF mode = "Tx" THEN SetMode("Idle", "idle") /\ UNCHANGED <<valid, buf>>
     ELSE IF Head(queue) = "faulty"
     THEN valid' = FALSE /\ buf' = <<>> /\ UNCHANGED <<mode, chip, air>>
     ELSE /\ buf' = queue /\ valid' = (valid \/ Head(queue) = "ours")
          /\ IF valid' THEN SetMode("Idle", "idle") ELSE UNCHANGED <<mode, chip, air>>
  /\ UNCHANGED <<thread, history>>

chipActs == PacketStarts(1) \/ TimePasses \/ RxEnds(Kinds, "rx") \/ TxEnds

Thread == available \/ recv \/ send \/ sleep
Next == Calls \/ CallSleep \/ Thread \/ handleInterrupt \/ chipActs
=============================================================================
