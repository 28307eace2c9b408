-------------------------------- MODULE CC110 --------------------------------
(* RH_CC110.cpp: an interrupt for a packet; the end of a transmission is      *)
(* looked for by waitPacketSent() alone.                                      *)
EXTENDS InterruptRadio

\* The chip is reset; _mode is left as it was.
init == Started("Initialising")

\* Nothing is held at the test; the receiver may be turned on, and FALSE
\* answered, over a message that has come since.
available ==
  Test(mode = "Tx" \/ valid, mode # "Tx") \/ SetModeRx \/ Result(FALSE)

recv == Copy \/ Clear(<<>>)

\* Mutant: send() does not wait.
waitPacketSentAtOnce == UNCHANGED done

\* waitPacketSent() sees that the chip is idle again.
waitPacketSent == (mode = "Tx" => chip # "tx") /\ done' = FALSE

\* Called by the program; send() goes on to turn the transmitter on.
send ==
  \/ Check
  \/ /\ waitPacketSent
     /\ IF op = "send"
        THEN Sent(mode' = "Tx" /\ SetChip("tx") /\ UNCHANGED <<valid, buf>>)
        ELSE /\ Step("waitSent") /\ Return("any")
             /\ mode' = IF mode = "Tx" THEN "Idle" ELSE mode
             /\ UNCHANGED <<chip, air, queue, valid, buf, history>>

sleep == Sleep

\* The receiver stops for a message for us; what is read replaces what is held.
handleInterrupt ==
  /\ queue # <<>> /\ mode = "Rx"
  /\ queue' = <<>>
  /\ IF Head(queue) = "faulty" THEN valid' = FALSE /\ buf' = <<>>
                               ELSE valid' = (valid \/ Head(queue) = "ours") /\ buf' = queue
  /\ IF Head(queue) # "faulty" /\ valid' THEN SetMode("Idle", "idle")
                                         ELSE UNCHANGED <<mode, chip, air>>
  /\ UNCHANGED <<done, thread, history>>

chipActs == PacketStarts(1) \/ TimePasses \/ RxEnds(Kinds, "rx") \/ TxEnds

Thread == available \/ recv \/ send \/ sleep
Next == Calls \/ CallSleep \/ Thread \/ handleInterrupt \/ chipActs
=============================================================================
