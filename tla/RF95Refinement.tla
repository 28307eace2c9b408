--------------------------- MODULE RF95Refinement ---------------------------
(***************************************************************************)
(* The driver implements Radio, for prompt programs: each step of RF95 is  *)
(* a step of the mailbox Radio describes, or does not concern it.  The     *)
(* invariant of RF95Proofs says why: a message comes only while nothing is *)
(* held, and neither setModeRx() nor setModeTx() runs during a             *)
(* transmission.                                                           *)
(***************************************************************************)
EXTENDS RF95Proofs

USE DEF Goto, Return, Due, Running, radio, driver, thread, history, IrqFlags, RxEvents

\* The mailbox's content is a matter of the buffer.
LEMMA SlotUnchanged ==
  ASSUME UNCHANGED <<rxBufValid, buf>>, (pc = "clearRxBuf") = (pc' = "clearRxBuf")
  PROVE  Slot' = Slot
BY DEF Slot, Held

\* A step that leaves them alone does not concern the mailbox.
LEMMA NothingSeen ==
  ASSUME mode' = mode, Slot' = Slot, out'.pkt = out.pkt
  PROVE  UNCHANGED Promised!vars
BY DEF Promised!vars, Phase

\* A step that only changes the mode is one of the mailbox's changes of phase.
LEMMA ModeChange ==
  ASSUME Slot' = Slot, out'.pkt = out.pkt,
         \/ mode' = "Idle" \/ mode' = "Sleep"
         \/ mode # "Tx" /\ mode' \in {"Rx", "Tx"}
  PROVE  Promised!Next
<1>1. CASE mode' = "Idle"
  BY <1>1 DEF Promised!Next, Promised!Stop, Phase
<1>2. CASE mode' = "Sleep"
  BY <1>2 DEF Promised!Next, Promised!Sleep, Phase
<1>3. CASE mode # "Tx" /\ mode' = "Rx"
  BY <1>3 DEF Promised!Next, Promised!Listen, Phase
<1>4. CASE mode # "Tx" /\ mode' = "Tx"
  BY <1>4 DEF Promised!Next, Promised!StartSend, Phase
<1> QED
  BY <1>1, <1>2, <1>3, <1>4

\* A call's entry touches neither mode nor buffer.
LEMMA CallsImplement ==
  ASSUME Inv, Calls PROVE UNCHANGED Promised!vars
<1>1. UNCHANGED <<mode, rxBufValid, buf, out>> /\ pc = "app" /\ pc' # "clearRxBuf"
  BY DEF Calls, CallAvailable, CallRecvfrom, CallSend, CallWaitSent, CallIdle, CallSleep, Call
<1>2. Slot' = Slot
  BY <1>1, SlotUnchanged
<1> QED
  BY <1>1, <1>2, NothingSeen

\* available() at most turns the receiver on.
LEMMA AvailableImplements ==
  ASSUME Inv, Available PROVE Promised!Next \/ UNCHANGED Promised!vars
<1> USE DEF Available, AvailableInTx, AvailableNotInTx, SetModeRx, RxOpMode, RxDio, RxMode,
            IsAvailable, WriteOpMode, WriteDio, AssignMode
<1>1. UNCHANGED <<rxBufValid, buf, out>> /\ pc # "clearRxBuf" /\ pc' # "clearRxBuf"
  OBVIOUS
<1>2. mode' = mode \/ (mode # "Tx" /\ mode' = "Rx")
  BY DEF Inv, Places
<1>3. Slot' = Slot
  BY <1>1, SlotUnchanged
<1> QED
  BY <1>1, <1>2, <1>3, NothingSeen, ModeChange

\* Of recvfrom()'s steps only the copy concerns the mailbox: it takes what is held.
LEMMA RecvfromImplements ==
  ASSUME Inv, Recvfrom PROVE Promised!Next \/ UNCHANGED Promised!vars
<1>1. CASE Copy
  <2>1. Held /\ Acceptable(buf) /\ ~Held' /\ mode' = mode
    BY <1>1 DEF Inv, Mailbox, Held, Copy
  <2>2. out'.pkt = buf
    BY <1>1 DEF Copy
  <2>3. buf # NoPacket
    BY <2>1 DEF Acceptable, LongEnough, NoPacket, HeaderLen
  <2>4. Slot = buf /\ Slot' = NoPacket /\ Phase' = Phase
    BY <2>1 DEF Slot, Phase
  <2> QED
    BY <2>2, <2>3, <2>4 DEF Promised!Next, Promised!Take
<1>2. CASE ClearRxBuf
  <2>1. ~Held /\ ~Held' /\ UNCHANGED <<mode, out>>
    BY <1>2 DEF ClearRxBuf, Held
  <2>2. Slot' = Slot
    BY <2>1 DEF Slot
  <2> QED
    BY <2>1, <2>2, NothingSeen
<1>3. CASE ReadHeaders
  <2>1. out'.pkt = out.pkt
    BY <1>3 DEF ReadHeaders, Inv, TypeOK, ThreadTypeOK
  <2>2. UNCHANGED <<mode, rxBufValid, buf>> /\ pc = "headers" /\ pc' = "app"
    BY <1>3 DEF ReadHeaders
  <2>3. Slot' = Slot
    BY <2>2, SlotUnchanged
  <2> QED
    BY <2>1, <2>2, <2>3, NothingSeen
<1> QED
  BY <1>1, <1>2, <1>3 DEF Recvfrom

\* send() changes the phase to idle and to sending; channel activity detection
\* is part of the idle phase.
LEMMA SendImplements ==
  ASSUME Inv, Send PROVE Promised!Next \/ UNCHANGED Promised!vars
<1> USE DEF Send, SendLength, WaitPacketSent, SetModeIdle, AfterIdle, IdleOpMode, IdleMode,
            CadOpMode, CadDio, CadMode, CadClear, CadRetry, CadGiveUp, Load, TxOpMode,
            TxDio, TxMode, WriteOpMode, WriteDio, AssignMode
<1>1. UNCHANGED <<rxBufValid, buf, out>> /\ pc # "clearRxBuf" /\ pc' # "clearRxBuf"
  OBVIOUS
<1>2. Slot' = Slot
  BY <1>1 DEF Slot, Held
<1>3. \/ mode' = mode \/ mode' = "Idle"
      \/ mode = "Idle" /\ mode' \in {"Cad", "Tx"}
  BY DEF Inv, Places
<1>4. CASE mode = "Idle" /\ mode' = "Cad"
  BY <1>1, <1>2, <1>4 DEF Promised!vars, Phase
<1> QED
  BY <1>1, <1>2, <1>3, <1>4, NothingSeen, ModeChange

\* sleep() changes the phase, or finds the radio asleep.
LEMMA GoToSleepImplements ==
  ASSUME Inv, GoToSleep PROVE Promised!Next \/ UNCHANGED Promised!vars
<1>1. /\ UNCHANGED <<rxBufValid, buf, out>> /\ pc # "clearRxBuf" /\ pc' # "clearRxBuf"
      /\ mode' = mode \/ mode' = "Sleep"
  BY DEF GoToSleep, SleepCheck, SleepOpMode, SleepMode, WriteOpMode, AssignMode
<1>2. Slot' = Slot
  BY <1>1, SlotUnchanged
<1> QED
  BY <1>1, <1>2, NothingSeen, ModeChange

\* Only the receive branch puts a message in the mailbox.
LEMMA HandleInterruptImplements ==
  ASSUME Prompt = TRUE, Inv, HandleInterrupt
  PROVE  Promised!Next \/ UNCHANGED Promised!vars
<1>1. UNCHANGED <<pc, out>> /\ irq \in IrqFlags
  BY DEF HandleInterrupt, Inv, TypeOK, RadioTypeOK
<1>2. CASE mode = "Rx" /\ "CrcError" \notin irq /\ "RxDone" \in irq
  <2>1. ReceivePacket /\ irq \in RxEvents
    BY <1>1, <1>2 DEF HandleInterrupt
  <2>2. /\ buf' \in Packet /\ ~rxBufValid /\ pc # "clearRxBuf"
        /\ \/ Acceptable(buf') /\ rxBufValid' /\ mode' = "Idle"
           \/ ~rxBufValid' /\ mode' = mode
    BY <1>2, <2>1, Received
  <2>3. CASE Acceptable(buf') /\ rxBufValid' /\ mode' = "Idle"
    <3>1. Slot = NoPacket /\ Slot' = buf' /\ buf' \in GoodPackets
      BY <1>1, <2>2, <2>3 DEF Slot, Held, GoodPackets
    <3>2. Phase = "listening" /\ Phase' = "idle"
      BY <1>2, <2>3 DEF Phase
    <3> QED
      BY <1>1, <3>1, <3>2 DEF Promised!Next, Promised!Arrive, Promised!Hear
  <2>4. CASE ~rxBufValid' /\ mode' = mode
    <3>1. ~Held /\ ~Held'
      BY <2>2, <2>4 DEF Held
    <3>2. Slot' = Slot
      BY <3>1 DEF Slot
    <3> QED
      BY <1>1, <2>4, <3>2, NothingSeen
  <2> QED
    BY <2>2, <2>3, <2>4
<1>3. CASE ~(mode = "Rx" /\ "CrcError" \notin irq /\ "RxDone" \in irq)
  <2>1. UNCHANGED <<rxBufValid, buf>> /\ (mode' = mode \/ mode' = "Idle")
    BY <1>3 DEF HandleInterrupt, ReceiveError, PacketIsSent, ActivityDetected
  <2>2. Slot' = Slot
    BY <1>1, <2>1, SlotUnchanged
  <2> QED
    BY <1>1, <2>1, <2>2, NothingSeen, ModeChange
<1> QED
  BY <1>2, <1>3

\* What happens on the air shows in the mailbox only once it is handled.
LEMMA EnvironmentImplements ==
  ASSUME Environment PROVE UNCHANGED Promised!vars
<1>1. UNCHANGED <<mode, rxBufValid, buf, pc, out>>
  BY DEF Environment, PacketStarts, TimePasses, RxEnds, TxEnds, CadEnds
<1>2. Slot' = Slot
  BY <1>1, SlotUnchanged
<1> QED
  BY <1>1, <1>2, NothingSeen

\* For prompt programs the driver keeps the promise of Radio: whatever the
\* interrupts interleave with, available(), recvfrom(), send() and sleep() act
\* on a mailbox of one packet that fills only while the radio listens.
THEOREM Refinement == ASSUME Prompt = TRUE PROVE Spec => Implements
<1>1. Init => Promised!Init
  BY DEF Init, Promised!Init, Phase, Slot, Held, NoOut
<1>2. Inv /\ [Next]_vars => [Promised!Next]_Promised!vars
  <2> SUFFICES ASSUME Inv, [Next]_vars PROVE Promised!Next \/ UNCHANGED Promised!vars
    OBVIOUS
  <2>1. CASE UNCHANGED vars
    <3>1. UNCHANGED <<mode, rxBufValid, buf, pc, out>>
      BY <2>1 DEF vars
    <3>2. Slot' = Slot
      BY <3>1, SlotUnchanged
    <3> QED
      BY <3>1, <3>2, NothingSeen
  <2>2. CASE Next
    BY <2>2, CallsImplement, AvailableImplements, RecvfromImplements, SendImplements,
       GoToSleepImplements, HandleInterruptImplements, EnvironmentImplements DEF Next, Thread
  <2> QED
    BY <2>1, <2>2
<1> QED
  BY <1>1, <1>2, InvAlways, PTL DEF Spec, Implements, Promised!Spec
=============================================================================
