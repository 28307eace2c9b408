--------------------------- MODULE InterruptRadio ---------------------------
(***************************************************************************)
(* What the drivers that an interrupt tells of the chip's events share.    *)
(* The handler runs before the program's next step, and may run between    *)
(* any two of the steps of a call.                                         *)
(***************************************************************************)
EXTENDS PacketRadio

CONSTANT Interrupts      \* the events that interrupt: "packet", "sent"

NoInterrupt == /\ "packet" \in Interrupts => queue = <<>>
               /\ "sent" \in Interrupts => ~done

Step(label) == At(label) /\ NoInterrupt

\* The first test of available(): go on to turn the receiver on, or answer.
Test(answers, yes) ==
  /\ Step("available")
  /\ IF answers THEN Answer(yes) ELSE Goto("setModeRx")
  /\ UNCHANGED <<radio, driven, history>>

SetModeRx ==
  /\ Step("setModeRx")
  /\ SetMode("Rx", "rx") /\ Goto("result")
  /\ relistened' = (relistened \/ valid)
  /\ UNCHANGED <<queue, done, valid, buf, heardOf, handed, sentOver, late, sends>>

Result(yes) ==
  /\ Step("result")
  /\ Answer(yes)
  /\ UNCHANGED <<radio, driven, history>>

Copy ==
  /\ Step("copy")
  /\ HandOver /\ Goto("clear")
  /\ UNCHANGED <<radio, driven, heardOf, flags>>

Clear(emptied) ==
  /\ Step("clear")
  /\ valid' = FALSE /\ buf' = emptied /\ Return("any")
  /\ UNCHANGED <<radio, mode, history>>

\* The message is too long, or waitPacketSent() comes first.
Check ==
  /\ Step("send")
  /\ Goto("waitSent") \/ Return("any")
  /\ UNCHANGED <<radio, driven, history>>

\* waitPacketSent() returns, to the program or to send().
Sent(transmit) ==
  /\ Step("waitSent")
  /\ Return("any")
  /\ IF op = "send" THEN transmit /\ sentOver' = (sentOver \/ valid)
                    ELSE UNCHANGED <<driven, chip, air, sentOver>>
  /\ UNCHANGED <<queue, heardOf, handed, relistened, late, sends>>

\* The same, of a driver whose send() has a step of its own.
Waited ==
  /\ Step("waitSent") /\ op # "send"
  /\ Return("any")
  /\ UNCHANGED <<radio, driven, history>>

\* sleep() tells the chip, and then sets _mode.  The handler may run in between, for
\* an event of the moment before: what it does to the chip, the chip stays at.
Sleep ==
  \/ /\ At("sleep")
     /\ IF mode = "Sleep" THEN Return("any") /\ UNCHANGED <<chip, air, late>>
        ELSE SetChip("sleep") /\ late' = ~NoInterrupt /\ Goto("sleepMode")
     /\ UNCHANGED <<queue, done, driven, heardOf, handed, relistened, sentOver, sends>>
  \/ /\ Step("sleepMode")
     /\ mode' = "Sleep" /\ Return("any")
     /\ UNCHANGED <<radio, valid, buf, history>>
=============================================================================
