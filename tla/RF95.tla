-------------------------------- MODULE RF95 --------------------------------
(***************************************************************************)
(* The RadioHead driver of the RFM95 radio (RH_RF95.cpp, RHSPIDriver.cpp,  *)
(* RHGenericDriver.cpp) on a Feather M0: the program's thread, which calls *)
(* available(), recvfrom(), send(), waitPacketSent(), setModeIdle() and    *)
(* sleep(), and the interrupt handler, which the radio's DIO0 line starts  *)
(* between two of the thread's steps.                                      *)
(*                                                                         *)
(* One step of the thread is the code between two points where the handler *)
(* can run and see a difference.  A register access runs with interrupts   *)
(* off (ATOMIC_BLOCK), so an event that arrives during one is handled just *)
(* after it: a write of the operating mode may be overtaken by an event,   *)
(* no other step may.  The handler itself is not interrupted.              *)
(*                                                                         *)
(* Timing: the driver relies on a packet (tens of milliseconds), and a     *)
(* channel activity detection (two), taking longer than the microseconds   *)
(* of one call's straight-line code.  An activity of the radio starts      *)
(* "young" and can only end once it is "old"; it ages while the program is *)
(* outside the driver, or waits in a loop of it (TimePasses).              *)
(***************************************************************************)
EXTENDS Integers

CONSTANTS
  Addresses,      \* the TO headers heard on the air
  ThisAddress,    \* _thisAddress
  Broadcast,      \* RH_BROADCAST_ADDRESS
  Promiscuous,    \* _promiscuous
  PacketLens,     \* lengths, headers included, of the packets on the air
  MaxMessageLen,  \* RH_RF95_MAX_MESSAGE_LEN
  CallerLen,      \* the room in the buffer the program gives to recv()
  SendLens,       \* lengths the program gives to send()
  CadTimeouts,    \* whether _cad_timeout, which the program may set, is not 0
  Prompt,         \* whether the program calls recv() as soon as available() says so
  MaxPackets,     \* bound on the packets that arrive
  MaxSends        \* bound on the packets that are sent

HeaderLen == 4
Byte == 0 .. 255

ASSUME AddressAssumption == {ThisAddress, Broadcast} \subseteq Addresses
ASSUME LenAssumption == /\ PacketLens \subseteq Byte
                        /\ MaxMessageLen = 255 - HeaderLen
                        /\ CallerLen \in 0 .. MaxMessageLen
                        /\ SendLens \subseteq Byte
ASSUME FlagAssumption == /\ Promiscuous \in BOOLEAN
                         /\ CadTimeouts \subseteq BOOLEAN
                         /\ Prompt \in BOOLEAN
\* The driver's counters are 16 bits wide.
ASSUME BoundAssumption == /\ MaxPackets \in Nat /\ MaxPackets < 2^16
                          /\ MaxSends \in Nat /\ MaxSends < 2^16

VARIABLES
  (* the radio *)
  opMode,    \* register OP_MODE: "stdby", "rx", "tx", "cad", "sleep"
  dio,       \* register DIO_MAPPING1: the event that raises DIO0
  irq,       \* register IRQ_FLAGS
  air,       \* what the radio is engaged in: "none", "young", "old"
  fifo,      \* what the FIFO holds
  (* the driver *)
  mode,      \* _mode
  rxBufValid, buf, headers, cad, rxGood, rxBad, txGood,
  (* the program *)
  pc, op,    \* where the thread is, and in which call
  due,       \* the call it owes the driver next
  out,       \* what the last successful recvfrom() returned
  (* history *)
  arrived,   \* packets heard
  taken,     \* messages handed over by recv()
  sends      \* calls of send()

radio == <<opMode, dio, irq, air, fifo>>
driver == <<mode, rxBufValid, buf, headers, cad, rxGood, rxBad, txGood>>
thread == <<pc, op, due, out>>
history == <<arrived, taken, sends>>
vars == <<radio, driver, thread, history>>

Packet == [id : Nat, to : Addresses, len : Byte]
NoPacket == [id |-> 0, to |-> Broadcast, len |-> 0]
Sent == [NoPacket EXCEPT !.len = HeaderLen]     \* a message of our own in the FIFO
NoOut == [pkt |-> NoPacket, len |-> 0, from |-> 0]

IrqOf == [rx |-> "RxDone", tx |-> "TxDone", cad |-> "CadDone"]
Dio0 == IrqOf[dio] \in irq

\* validateRxBuf(): a complete message for this node.
LongEnough(p) == p.len >= HeaderLen
ForUs(p) == Promiscuous \/ p.to \in {ThisAddress, Broadcast}
Acceptable(p) == LongEnough(p) /\ ForUs(p)
-----------------------------------------------------------------------------
\* After init(): standby, nothing received.
Init ==
  /\ opMode = "stdby" /\ dio = "rx" /\ irq = {} /\ air = "none" /\ fifo = NoPacket
  /\ mode = "Idle" /\ rxBufValid = FALSE /\ buf = NoPacket /\ headers = 0
  /\ cad = FALSE /\ rxGood = 0 /\ rxBad = 0 /\ txGood = 0
  /\ pc = "app" /\ op = "none" /\ due = "any" /\ out = NoOut
  /\ arrived = 0 /\ taken = 0 /\ sends = 0
-----------------------------------------------------------------------------
(* The radio and time. *)

SetOpMode(m) == /\ opMode' = m
                /\ air' = IF m \in {"tx", "cad"} THEN "young" ELSE "none"

PacketStarts ==
  /\ opMode = "rx" /\ air = "none" /\ arrived < MaxPackets
  /\ air' = "young"
  /\ UNCHANGED <<opMode, dio, irq, fifo, driver, thread, history>>

Waiting == \/ pc = "app" /\ ~(Prompt /\ due = "recv")
           \/ pc \in {"waitPacketSent", "cadWait"}

TimePasses ==
  /\ air = "young" /\ Waiting
  /\ air' = "old"
  /\ UNCHANGED <<opMode, dio, irq, fifo, driver, thread, history>>

\* The radio raises RxDone for a packet with a bad checksum too.
RxEnds ==
  /\ opMode = "rx" /\ air = "old" /\ ~Dio0
  /\ arrived < MaxPackets
  /\ \E to \in Addresses, len \in PacketLens :
       fifo' = [id |-> arrived + 1, to |-> to, len |-> len]
  /\ \E error \in {{}, {"CrcError"}} : irq' = {"RxDone"} \cup error
  /\ arrived' = arrived + 1
  /\ air' = "none"
  /\ UNCHANGED <<opMode, dio, driver, thread, taken, sends>>

TxEnds ==
  /\ opMode = "tx" /\ air = "old" /\ ~Dio0
  /\ irq' = {"TxDone"} /\ opMode' = "stdby" /\ air' = "none"
  /\ UNCHANGED <<dio, fifo, driver, thread, history>>

CadEnds ==
  /\ opMode = "cad" /\ air = "old" /\ ~Dio0
  /\ \E found \in {{}, {"CadDetected"}} : irq' = {"CadDone"} \cup found
  /\ opMode' = "stdby" /\ air' = "none"
  /\ UNCHANGED <<dio, fifo, driver, thread, history>>
-----------------------------------------------------------------------------
(* The interrupt handler. *)

\* Mutant: the handler goes on listening although it holds a message.
ReceivePacketStillListening ==
  /\ buf' = fifo
  /\ headers' = IF LongEnough(fifo) THEN fifo.id ELSE headers
  /\ rxGood' = IF Acceptable(fifo) THEN rxGood + 1 ELSE rxGood
  /\ rxBufValid' = (rxBufValid \/ Acceptable(fifo))
  /\ UNCHANGED <<mode, opMode, air, cad, rxBad, txGood>>

\* Mutant: the handler sets _mode to idle without telling the radio.
ReceivePacketModeOnly ==
  /\ buf' = fifo
  /\ headers' = IF LongEnough(fifo) THEN fifo.id ELSE headers
  /\ rxGood' = IF Acceptable(fifo) THEN rxGood + 1 ELSE rxGood
  /\ rxBufValid' = (rxBufValid \/ Acceptable(fifo))
  /\ mode' = IF rxBufValid' THEN "Idle" ELSE mode
  /\ UNCHANGED <<opMode, air, cad, rxBad, txGood>>

\* The receive branch: read the FIFO (a sleeping radio returns anything),
\* validate, and stop listening if a good message is now held.
ReceivePacket ==
  \E p \in IF opMode = "sleep"
           THEN [id : {0}, to : Addresses, len : PacketLens] ELSE {fifo} :
    /\ buf' = p
    /\ headers' = IF LongEnough(p) THEN p.id ELSE headers
    /\ rxGood' = IF Acceptable(p) THEN rxGood + 1 ELSE rxGood
    /\ rxBufValid' = (rxBufValid \/ Acceptable(p))
    /\ IF rxBufValid'
       THEN mode' = "Idle" /\ SetOpMode("stdby")
       ELSE UNCHANGED <<mode, opMode, air>>
    /\ UNCHANGED <<cad, rxBad, txGood>>

ReceiveError ==
  /\ rxBad' = rxBad + 1
  /\ UNCHANGED <<mode, opMode, air, rxBufValid, buf, headers, cad, rxGood, txGood>>

\* Mutant: TxDone is counted, but the mode stays Tx.
PacketIsSentStillTx ==
  /\ txGood' = txGood + 1
  /\ UNCHANGED <<mode, opMode, air, rxBufValid, buf, headers, cad, rxGood, rxBad>>

\* Mutant: TxDone is counted twice.
PacketIsSentTwice ==
  /\ txGood' = txGood + 2
  /\ mode' = "Idle" /\ SetOpMode("stdby")
  /\ UNCHANGED <<rxBufValid, buf, headers, cad, rxGood, rxBad>>

PacketIsSent ==
  /\ txGood' = txGood + 1
  /\ mode' = "Idle" /\ SetOpMode("stdby")
  /\ UNCHANGED <<rxBufValid, buf, headers, cad, rxGood, rxBad>>

ActivityDetected ==
  /\ cad' = ("CadDetected" \in irq)
  /\ mode' = "Idle" /\ SetOpMode("stdby")
  /\ UNCHANGED <<rxBufValid, buf, headers, rxGood, rxBad, txGood>>

HandleInterrupt ==
  /\ Dio0
  /\ irq' = {}
  /\ IF mode = "Rx" /\ "CrcError" \in irq THEN ReceiveError
     ELSE IF mode = "Rx" /\ "RxDone" \in irq THEN ReceivePacket
     ELSE IF mode = "Tx" /\ "TxDone" \in irq THEN PacketIsSent
     ELSE IF mode = "Cad" /\ "CadDone" \in irq THEN ActivityDetected
     ELSE UNCHANGED <<driver, opMode, air>>
  /\ UNCHANGED <<dio, fifo, thread, history>>
-----------------------------------------------------------------------------
(* The program's calls.  A prompt program follows available() = TRUE by     *)
(* recv() at once, as all the sketches and managers do.                     *)

Due(what) == due' = IF Prompt THEN what ELSE "any"

Call(o, label, allowed) ==
  /\ pc = "app" /\ ~Dio0 /\ due \in allowed
  /\ op' = o /\ pc' = label
  /\ UNCHANGED <<due, out, radio, driver, arrived, taken>>

CallAvailable == Call("available", "available", {"any"}) /\ UNCHANGED sends
CallRecvfrom  == Call("recvfrom", "available", {"any", "recv"}) /\ UNCHANGED sends
CallSend      == Call("send", "send", {"any"}) /\ sends < MaxSends /\ sends' = sends + 1
CallWaitSent  == Call("waitSent", "waitPacketSent", {"any"}) /\ UNCHANGED sends
CallIdle      == Call("idle", "setModeIdle", {"any"}) /\ UNCHANGED sends
CallSleep     == Call("sleep", "sleep", {"any"}) /\ UNCHANGED sends

Goto(from, to) == pc = from /\ pc' = to /\ UNCHANGED <<op, due, out>>
Return(from, next) == pc = from /\ pc' = "app" /\ op' = "none" /\ Due(next) /\ UNCHANGED out

Running == ~Dio0        \* the handler runs first
-----------------------------------------------------------------------------
(* available(), and recvfrom(), which starts with it. *)

AvailableInTx ==
  /\ Running /\ mode = "Tx"
  /\ Return("available", "any")
  /\ UNCHANGED <<radio, driver, history>>

AvailableNotInTx ==
  /\ Running /\ mode # "Tx"
  /\ Goto("available", "setModeRx")
  /\ UNCHANGED <<radio, driver, history>>

SetModeRx ==
  /\ Running
  /\ Goto("setModeRx", IF mode # "Rx" THEN "rxOpMode" ELSE "isAvailable")
  /\ UNCHANGED <<radio, driver, history>>

\* Write the operating mode; an event may come during the write.
WriteOpMode(from, m, to) ==
  /\ Goto(from, to)
  /\ SetOpMode(m)
  /\ UNCHANGED <<dio, irq, fifo, driver, history>>

WriteDio(from, m, to) ==
  /\ Running /\ Goto(from, to)
  /\ dio' = m
  /\ UNCHANGED <<opMode, irq, air, fifo, driver, history>>

AssignMode(m) ==
  /\ Running /\ mode' = m
  /\ UNCHANGED <<radio, rxBufValid, buf, headers, cad, rxGood, rxBad, txGood, history>>

RxOpMode == WriteOpMode("rxOpMode", "rx", "rxDio")
RxDio == WriteDio("rxDio", "rx", "rxMode")
RxMode == Goto("rxMode", "isAvailable") /\ AssignMode("Rx")

\* Mutant: available() does not tell of the message that recv() would find.
IsAvailableUntold ==
  /\ Running
  /\ IF op = "recvfrom" /\ rxBufValid
     THEN Goto("isAvailable", "copy")
     ELSE Return("isAvailable", "any")
  /\ UNCHANGED <<radio, driver, history>>

IsAvailable ==
  /\ Running
  /\ IF op = "recvfrom" /\ rxBufValid
     THEN Goto("isAvailable", "copy")
     ELSE Return("isAvailable", IF rxBufValid THEN "recv" ELSE "any")
  /\ UNCHANGED <<radio, driver, history>>

\* Mutant: the message's own length is not looked at.
CopiedUnclipped(p) == CallerLen

\* recv() copies the message, with interrupts off; *len is a byte.
Copied(p) == IF CallerLen > p.len - HeaderLen THEN (p.len - HeaderLen) % 256 ELSE CallerLen

Copy ==
  /\ Running /\ pc = "copy"
  /\ pc' = "clearRxBuf"
  /\ out' = [pkt |-> buf, len |-> Copied(buf), from |-> 0]
  /\ taken' = taken + 1
  /\ UNCHANGED <<op, due, radio, driver, arrived, sends>>

\* Mutant: the buffer is emptied but stays valid.
ClearRxBufStillValid ==
  /\ Running /\ Goto("clearRxBuf", "headers")
  /\ buf' = [buf EXCEPT !.len = 0]
  /\ UNCHANGED <<radio, mode, rxBufValid, headers, cad, rxGood, rxBad, txGood, history>>

ClearRxBuf ==
  /\ Running /\ Goto("clearRxBuf", "headers")
  /\ rxBufValid' = FALSE /\ buf' = [buf EXCEPT !.len = 0]
  /\ UNCHANGED <<radio, mode, headers, cad, rxGood, rxBad, txGood, history>>

\* RHDatagram::recvfrom() reads the headers once recv() has returned.
ReadHeaders ==
  /\ Running /\ pc = "headers"
  /\ pc' = "app" /\ op' = "none" /\ Due("any")
  /\ out' = [out EXCEPT !.from = headers]
  /\ UNCHANGED <<radio, driver, history>>
-----------------------------------------------------------------------------
(* send(), waitPacketSent() and setModeIdle(). *)

SendLength ==
  /\ Running
  /\ \E len \in SendLens : IF len > MaxMessageLen THEN Return("send", "any")
                                                  ELSE Goto("send", "waitPacketSent")
  /\ UNCHANGED <<radio, driver, history>>

\* Mutant: send() does not wait for the transmission under way.
DontWaitPacketSent ==
  /\ Running
  /\ IF op = "send" THEN Goto("waitPacketSent", "setModeIdle")
                    ELSE Return("waitPacketSent", "any")
  /\ UNCHANGED <<radio, driver, history>>

WaitPacketSent ==
  /\ Running /\ mode # "Tx"
  /\ IF op = "send" THEN Goto("waitPacketSent", "setModeIdle")
                    ELSE Return("waitPacketSent", "any")
  /\ UNCHANGED <<radio, driver, history>>

\* send() goes on to waitCAD(), which does nothing when no timeout is set.
AfterIdle(from) ==
  IF op = "send"
  THEN \E timeout \in CadTimeouts : Goto(from, IF timeout THEN "cadOpMode" ELSE "load")
  ELSE Return(from, "any")

\* Mutant: send() leaves the receiver on while it loads the FIFO.
StayInRx ==
  /\ Running /\ AfterIdle("setModeIdle")
  /\ UNCHANGED <<radio, driver, history>>

SetModeIdle ==
  /\ Running
  /\ IF mode # "Idle" THEN Goto("setModeIdle", "idleOpMode") ELSE AfterIdle("setModeIdle")
  /\ UNCHANGED <<radio, driver, history>>

IdleOpMode == WriteOpMode("idleOpMode", "stdby", "idleMode")
IdleMode == AfterIdle("idleMode") /\ AssignMode("Idle")

CadOpMode == WriteOpMode("cadOpMode", "cad", "cadDio")
CadDio == WriteDio("cadDio", "cad", "cadMode")
CadMode == Goto("cadMode", "cadWait") /\ AssignMode("Cad")

CadClear ==
  /\ Running /\ mode # "Cad" /\ ~cad
  /\ Goto("cadWait", "load")
  /\ UNCHANGED <<radio, driver, history>>

CadRetry ==
  /\ Running /\ mode # "Cad" /\ cad
  /\ Goto("cadWait", "cadOpMode")
  /\ UNCHANGED <<radio, driver, history>>

\* millis() - t > _cad_timeout: send() returns false.
CadGiveUp ==
  /\ Running /\ mode # "Cad" /\ cad
  /\ Return("cadWait", "any")
  /\ UNCHANGED <<radio, driver, history>>

\* Headers, data and length go to the FIFO, which reception uses too.
Load ==
  /\ Running /\ Goto("load", "txOpMode")
  /\ fifo' = Sent
  /\ UNCHANGED <<opMode, dio, irq, air, driver, history>>

TxOpMode == WriteOpMode("txOpMode", "tx", "txDio")
\* Mutant: DIO0 is not switched to TxDone.
TxDioForgotten == WriteDio("txDio", dio, "txMode")

TxDio == WriteDio("txDio", "tx", "txMode")
TxMode == Return("txMode", "any") /\ AssignMode("Tx")
-----------------------------------------------------------------------------
(* sleep() *)

SleepCheck ==
  /\ Running
  /\ IF mode # "Sleep" THEN Goto("sleep", "sleepOpMode") ELSE Return("sleep", "any")
  /\ UNCHANGED <<radio, driver, history>>

SleepOpMode == WriteOpMode("sleepOpMode", "sleep", "sleepMode")
SleepMode == Return("sleepMode", "any") /\ AssignMode("Sleep")
-----------------------------------------------------------------------------
Calls == \/ CallAvailable \/ CallRecvfrom \/ CallSend
         \/ CallWaitSent \/ CallIdle \/ CallSleep

Available == AvailableInTx \/ AvailableNotInTx \/ SetModeRx \/ RxOpMode \/ RxDio
             \/ RxMode \/ IsAvailable
Recvfrom == Copy \/ ClearRxBuf \/ ReadHeaders
Send == \/ SendLength \/ WaitPacketSent \/ SetModeIdle \/ IdleOpMode \/ IdleMode
        \/ CadOpMode \/ CadDio \/ CadMode \/ CadClear \/ CadRetry \/ CadGiveUp
        \/ Load \/ TxOpMode \/ TxDio \/ TxMode
GoToSleep == SleepCheck \/ SleepOpMode \/ SleepMode

Thread == Available \/ Recvfrom \/ Send \/ GoToSleep
Environment == PacketStarts \/ TimePasses \/ RxEnds \/ TxEnds \/ CadEnds

Next == Calls \/ Thread \/ HandleInterrupt \/ Environment

Spec == Init /\ [][Next]_vars

\* The thread runs, the radio finishes what it does, the CAD timeout elapses,
\* and the program's main loop keeps polling and makes the calls it owes.
Fairness == /\ WF_vars(Thread) /\ WF_vars(HandleInterrupt)
            /\ SF_vars(TimePasses) /\ WF_vars(TxEnds) /\ WF_vars(CadEnds)
            /\ SF_vars(CadGiveUp)
            /\ SF_vars(CallAvailable)
            /\ WF_vars(CallRecvfrom /\ due = "recv")

FairSpec == Spec /\ Fairness
-----------------------------------------------------------------------------
(* Properties. *)

Labels == {"app", "available", "setModeRx", "rxOpMode", "rxDio", "rxMode",
           "isAvailable", "copy", "clearRxBuf", "headers", "send",
           "waitPacketSent", "setModeIdle", "idleOpMode", "idleMode",
           "cadOpMode", "cadDio", "cadMode", "cadWait", "load",
           "txOpMode", "txDio", "txMode", "sleep", "sleepOpMode", "sleepMode"}

IrqFlags == {{}, {"RxDone"}, {"RxDone", "CrcError"}, {"TxDone"},
             {"CadDone"}, {"CadDone", "CadDetected"}}

RadioTypeOK ==
  /\ opMode \in {"stdby", "rx", "tx", "cad", "sleep"}
  /\ dio \in {"rx", "tx", "cad"}
  /\ irq \in IrqFlags
  /\ air \in {"none", "young", "old"}
  /\ fifo \in Packet

DriverTypeOK ==
  /\ mode \in {"Idle", "Rx", "Tx", "Cad", "Sleep"}
  /\ rxBufValid \in BOOLEAN /\ cad \in BOOLEAN
  /\ buf \in Packet /\ headers \in Nat

ThreadTypeOK ==
  /\ pc \in Labels
  /\ op \in {"none", "available", "recvfrom", "send", "waitSent", "idle", "sleep"}
  /\ due \in {"any", "recv"}
  /\ out \in [pkt : Packet, len : Byte, from : Nat]

CountersTypeOK ==
  /\ rxGood \in 0 .. MaxPackets /\ rxBad \in 0 .. MaxPackets /\ txGood \in 0 .. MaxSends
  /\ arrived \in 0 .. MaxPackets /\ taken \in 0 .. MaxPackets /\ sends \in 0 .. MaxSends

\* Every variable has its type; the counters stay within their 16 bits.
TypeOK == RadioTypeOK /\ DriverTypeOK /\ ThreadTypeOK /\ CountersTypeOK

\* A message is in the buffer and has not been copied yet.
Held == rxBufValid /\ pc # "clearRxBuf"

\* Every packet rxGood counts has been handed to the program exactly once or
\* is waiting in _buf: none is overwritten, dropped by clearRxBuf(), or
\* handed over twice, whenever the handler runs.
EveryGoodPacketTakenOnce == rxGood = taken + (IF Held THEN 1 ELSE 0)

\* What recvfrom() returns is one packet for this node: its body, the length
\* of that body as far as the caller has room, and the headers of the same
\* packet, although they are read after the buffer was released.
DeliveredWhole ==
  out # NoOut =>
    /\ Acceptable(out.pkt)
    /\ out.len <= CallerLen /\ out.len <= out.pkt.len - HeaderLen
    /\ pc # "headers" /\ pc # "clearRxBuf" => out.from = out.pkt.id

\* "In non-promiscuous mode, only messages with a TO header the same as
\* thisAddress or the broadcast address will be accepted": what the program
\* gets is addressed to it.
OnlyOurMessages == out # NoOut => ForUs(out.pkt)

\* Every event of the radio raises DIO0, and the handler finds _mode to be
\* the mode the event belongs to: no TxDone, RxDone or CadDone is cleared unseen.
EveryEventHandled ==
  irq # {} => \E m \in {"rx", "tx", "cad"} :
                /\ dio = m /\ IrqOf[m] \in irq
                /\ mode = [rx |-> "Rx", tx |-> "Tx", cad |-> "Cad"][m]

\* Between calls the radio is in the mode the driver believes it to be in, so
\* that a node that thinks it is listening does listen.
ModeMatchesRadio ==
  pc = "app" /\ ~Dio0 =>
    /\ mode = "Rx" => opMode = "rx" /\ dio = "rx"
    /\ mode = "Tx" => opMode = "tx" /\ dio = "tx"
    /\ mode = "Idle" => opMode = "stdby"
    /\ mode # "Cad"

\* Reception and transmission share the FIFO: it is loaded in standby only,
\* with no packet in it that the handler has still to read.
FifoNotShared == pc = "load" => opMode = "stdby" /\ irq = {}

\* "Make sure we dont interrupt an outgoing message": only the end of the
\* transmission, setModeIdle() or sleep() takes the radio out of transmit.
TxNotInterrupted ==
  [][opMode = "tx" /\ opMode' # "tx" => "TxDone" \in irq' \/ op \in {"idle", "sleep"}]_vars

\* The promise of sleep(): once it has returned the radio sleeps until it is
\* woken by another call.
StaysAsleep == pc = "app" /\ ~Dio0 /\ mode = "Sleep" => opMode = "sleep"

\* send() always returns, with or without listen-before-talk.
SendReturns == (op = "send") ~> (op = "none")

\* A message received is handed over sooner or later.
ReceivedIsTaken == Held ~> ~Held

\* The mailbox the driver promises, in terms of the driver.
Phase == CASE mode = "Rx" -> "listening" [] mode = "Tx" -> "sending"
           [] mode = "Sleep" -> "asleep" [] OTHER -> "idle"
Slot == IF Held THEN buf ELSE NoPacket
GoodPackets == {p \in Packet : Acceptable(p)}

Promised == INSTANCE Radio WITH Message <- GoodPackets, NoMessage <- NoPacket,
                                phase <- Phase, slot <- Slot, taken <- out.pkt

\* The driver keeps the promise of Radio to programs that call recv() as soon
\* as available() says so.
Implements == Promised!Spec
=============================================================================
