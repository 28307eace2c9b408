----------------------------- MODULE RF95Proofs -----------------------------
(***************************************************************************)
(* The safety properties of RF95, for any addresses, packet lengths and    *)
(* numbers of packets, of programs that call recv() as soon as available() *)
(* says so.  TypeOK is not inductive alone, nor is anything else: Inv adds *)
(* where the thread can be in each mode (Places), how the radio's          *)
(* registers follow _mode (Tracks), which events can be pending (Pending), *)
(* why no packet comes in while one is held (Mailbox) and the bounds of    *)
(* the counters (Counts).                                                  *)
(***************************************************************************)
EXTENDS RF95, TLAPS

RxEvents == {{"RxDone"}, {"RxDone", "CrcError"}}
CadEvents == {{"CadDone"}, {"CadDone", "CadDetected"}}

\* Where the thread can be, by call and by mode.
Places ==
  /\ due = "recv" => /\ pc \in {"app", "available", "setModeRx", "rxOpMode", "rxDio", "rxMode",
                                "isAvailable", "copy", "clearRxBuf", "headers"}
                     /\ pc # "app" => op = "recvfrom"
  /\ pc \in {"setModeRx", "rxOpMode", "rxDio", "rxMode"} => mode # "Tx"
  /\ pc \in {"rxOpMode", "rxDio", "rxMode"} => mode # "Rx"
  /\ pc \in {"cadOpMode", "cadDio", "cadMode", "load", "txOpMode", "txDio", "txMode"} =>
       mode = "Idle" /\ op = "send"
  /\ pc = "cadWait" => mode \in {"Cad", "Idle"} /\ op = "send"
  /\ mode = "Cad" => pc = "cadWait"
  /\ pc \in {"setModeIdle", "idleOpMode", "idleMode"} =>
       \/ op = "idle"
       \/ op = "send" /\ mode # "Tx"
  /\ pc \in {"send", "waitPacketSent"} => op \in {"send", "waitSent"}
  /\ pc \in {"sleep", "sleepOpMode", "sleepMode"} => op = "sleep"
  /\ pc \in {"available", "setModeRx", "rxOpMode", "rxDio", "rxMode", "isAvailable"} =>
       op \in {"available", "recvfrom"}
  /\ pc \in {"copy", "clearRxBuf", "headers"} => op = "recvfrom"
  /\ pc = "app" <=> op = "none"

\* The registers follow the mode, except between their writes and the
\* assignment of _mode; an activity only ends after the assignment.
Tracks ==
  /\ pc \in {"rxDio", "rxMode"} => opMode = "rx" /\ air # "old"
  /\ pc \in {"txDio", "txMode"} => opMode = "tx" /\ air # "old"
  /\ pc \in {"cadDio", "cadMode"} => opMode = "cad" /\ air # "old"
  /\ pc = "rxMode" => dio = "rx"
  /\ pc = "txMode" => dio = "tx"
  /\ pc = "cadMode" => dio = "cad"
  /\ opMode = "rx" => pc \in {"rxDio", "rxMode"} \/ (mode = "Rx" /\ dio = "rx")
  /\ opMode = "tx" => pc \in {"txDio", "txMode"} \/ (mode = "Tx" /\ dio = "tx")
  /\ opMode = "cad" => pc \in {"cadDio", "cadMode"} \/ (mode = "Cad" /\ dio = "cad")
  /\ pc = "idleMode" => opMode = "stdby"
  /\ pc = "sleepMode" => opMode \in {"sleep", "stdby"}
  /\ mode = "Rx" => dio = "rx" /\ (opMode = "rx" \/ pc \in {"idleMode", "sleepMode"})
  /\ mode = "Tx" => /\ dio = "tx"
                    /\ \/ opMode = "tx" \/ irq = {"TxDone"}
                       \/ pc \in {"idleMode", "sleepMode"}
  /\ mode = "Idle" => \/ opMode = "stdby"
                      \/ pc \in {"rxDio", "rxMode", "txDio", "txMode",
                                 "cadDio", "cadMode", "sleepMode"}

\* A pending event belongs to the mode and has its line armed.
Pending ==
  /\ irq \in RxEvents => mode = "Rx" /\ dio = "rx"
  /\ irq = {"TxDone"} => mode = "Tx" /\ dio = "tx" /\ opMode # "tx"
  /\ irq \in CadEvents => mode = "Cad" /\ dio = "cad" /\ opMode # "cad"

\* A packet cannot end while a message is held: the radio was off when the
\* message came, and the program takes it within the next packet's airtime.
Mailbox ==
  /\ rxBufValid => irq \notin RxEvents
  /\ rxBufValid /\ opMode = "rx" =>
       /\ air # "old"
       /\ \/ due = "recv"
          \/ pc \in {"rxDio", "rxMode", "isAvailable", "copy", "clearRxBuf"}
  /\ pc \in {"copy", "clearRxBuf"} => rxBufValid
  /\ pc = "headers" => /\ ~rxBufValid
                       /\ irq \notin RxEvents
                       /\ ~(opMode = "rx" /\ air = "old")
  /\ Held => Acceptable(buf) /\ headers = buf.id
  /\ pc \in {"clearRxBuf", "headers"} => headers = out.pkt.id /\ out # NoOut

RxPending == IF irq \in RxEvents THEN 1 ELSE 0

Counts ==
  /\ rxGood + rxBad + RxPending <= arrived
  /\ txGood + (IF mode = "Tx" THEN 1 ELSE 0) + (IF op = "send" THEN 1 ELSE 0) <= sends

Inv == /\ TypeOK /\ Places /\ Tracks /\ Pending /\ Mailbox /\ Counts
       /\ EveryGoodPacketTakenOnce /\ DeliveredWhole

USE DEF Goto, Return, Due, Running, radio, driver, thread, history, IrqFlags, RxEvents, CadEvents

\* clearRxBuf() leaves a packet, without a length.
LEMMA ShortenedPacket ==
  ASSUME NEW p \in Packet PROVE [p EXCEPT !.len = 0] \in Packet
BY DEF Packet, Byte

\* What recv() copies of a good packet: no more than it has, nor than there is room for.
LEMMA CopiedBounds ==
  ASSUME NEW p \in Packet, LongEnough(p)
  PROVE  /\ Copied(p) \in Byte
         /\ Copied(p) <= CallerLen /\ Copied(p) <= p.len - HeaderLen
<1>1. p.len \in 4 .. 255
  BY DEF Packet, Byte, LongEnough, HeaderLen
<1>2. CallerLen \in 0 .. 251
  BY LenAssumption DEF HeaderLen
<1>3. (p.len - 4) % 256 = p.len - 4
  BY <1>1
<1> QED
  BY <1>1, <1>2, <1>3 DEF Copied, Byte, HeaderLen

\* The packets the radio, the program and Init put into variables.
LEMMA PacketTypes ==
  /\ NoPacket \in Packet /\ Sent \in Packet
  /\ \A id \in Nat, to \in Addresses, len \in PacketLens :
       [id |-> id, to |-> to, len |-> len] \in Packet
  /\ [id : {0}, to : Addresses, len : PacketLens] \subseteq Packet
BY AddressAssumption, LenAssumption DEF Packet, NoPacket, Sent, Byte, HeaderLen

\* The receive branch of the handler either keeps a good packet and stops the
\* receiver, or drops the packet; it never meets a message already held.
LEMMA Received ==
  ASSUME Prompt = TRUE, Inv, ReceivePacket, mode = "Rx",
         irq \in RxEvents
  PROVE  /\ buf' \in Packet /\ rxBufValid' \in BOOLEAN
         /\ ~rxBufValid /\ pc \notin {"copy", "clearRxBuf", "headers"}
         /\ UNCHANGED <<cad, rxBad, txGood>>
         /\ \/ /\ Acceptable(buf') /\ headers' = buf'.id
               /\ rxBufValid' /\ rxGood' = rxGood + 1
               /\ mode' = "Idle" /\ opMode' = "stdby" /\ air' = "none"
            \/ /\ headers' \in {headers, buf'.id}
               /\ ~rxBufValid' /\ UNCHANGED <<rxGood, mode, opMode, air>>
<1>1. ~rxBufValid /\ pc \notin {"copy", "clearRxBuf", "headers"}
  BY DEF Inv, Mailbox
<1>2. fifo \in Packet
  BY DEF Inv, TypeOK, RadioTypeOK
<1>3. PICK p \in Packet :
        /\ buf' = p
        /\ headers' = IF LongEnough(p) THEN p.id ELSE headers
        /\ rxGood' = IF Acceptable(p) THEN rxGood + 1 ELSE rxGood
        /\ rxBufValid' = (rxBufValid \/ Acceptable(p))
        /\ IF rxBufValid'
           THEN mode' = "Idle" /\ SetOpMode("stdby")
           ELSE UNCHANGED <<mode, opMode, air>>
        /\ UNCHANGED <<cad, rxBad, txGood>>
  BY <1>2, PacketTypes DEF ReceivePacket
<1>4. Acceptable(p) => LongEnough(p)
  BY DEF Acceptable
<1>5. CASE Acceptable(p)
  BY <1>1, <1>3, <1>4, <1>5 DEF SetOpMode
<1>6. CASE ~Acceptable(p)
  <2>1. rxBufValid' = FALSE /\ rxBufValid = FALSE
    BY <1>1, <1>3, <1>6 DEF Inv, TypeOK, DriverTypeOK
  <2> QED BY <1>1, <1>3, <1>6, <2>1
<1> QED
  BY <1>5, <1>6

\* What a packet pending, a transmission under way and a message held leave
\* to the counters.
LEMMA RoomToCount ==
  ASSUME Inv
  PROVE  /\ irq \in RxEvents =>
              rxGood + 1 \in 0 .. MaxPackets /\ rxBad + 1 \in 0 .. MaxPackets
         /\ mode = "Tx" => txGood + 1 \in 0 .. MaxSends
         /\ Held => taken + 1 \in 0 .. MaxPackets
<1>1. /\ rxGood \in Nat /\ rxBad \in Nat /\ txGood \in Nat /\ taken \in Nat
      /\ rxGood <= MaxPackets /\ arrived \in Nat /\ arrived <= MaxPackets
      /\ sends \in Nat /\ sends <= MaxSends /\ MaxPackets \in Nat /\ MaxSends \in Nat
  BY BoundAssumption DEF Inv, TypeOK, CountersTypeOK
<1>2. ASSUME irq \in RxEvents
      PROVE  rxGood + 1 \in 0 .. MaxPackets /\ rxBad + 1 \in 0 .. MaxPackets
  <2>1. RxPending = 1
    BY <1>2 DEF RxPending
  <2> QED BY <1>1, <2>1 DEF Inv, Counts
<1>3. ASSUME mode = "Tx" PROVE txGood + 1 \in 0 .. MaxSends
  <2>1. CASE op = "send"
    BY <1>1, <1>3, <2>1 DEF Inv, Counts
  <2>2. CASE op # "send"
    BY <1>1, <1>3, <2>2 DEF Inv, Counts
  <2> QED BY <2>1, <2>2
<1>4. ASSUME Held PROVE taken + 1 \in 0 .. MaxPackets
  BY <1>1, <1>4 DEF Inv, EveryGoodPacketTakenOnce
<1> QED
  BY <1>2, <1>3, <1>4

\* Each part of Next keeps the invariant: one step per conjunct.
LEMMA CallsKeepsInv == ASSUME Prompt = TRUE, Inv, Calls PROVE Inv'
<1> USE DEF Calls, CallAvailable, CallRecvfrom, CallSend, CallWaitSent, CallIdle, CallSleep, Call
<1>1. RadioTypeOK'
  BY PacketTypes DEF Inv, TypeOK, RadioTypeOK
<1>2. DriverTypeOK'
  BY DEF Inv, TypeOK, DriverTypeOK
<1>3. ThreadTypeOK'
  BY DEF Inv, TypeOK, ThreadTypeOK, Labels
<1>4. Places'
  BY DEF Inv, TypeOK, Places
<1>5. Tracks'
  BY DEF Inv, TypeOK, Tracks, Places, Pending, Dio0, IrqOf
<1>6. Pending'
  BY DEF Inv, TypeOK, Pending, Places, Tracks, Dio0, IrqOf, RadioTypeOK
<1>7. Mailbox'
  BY DEF Inv, TypeOK, Mailbox, Places, Tracks, Pending, Held, Dio0, IrqOf
<1>8. Counts'
  BY DEF Inv, TypeOK, Counts, Places, RxPending, Tracks, Pending, Dio0, IrqOf,
       RadioTypeOK, CountersTypeOK
<1>9. EveryGoodPacketTakenOnce'
  BY DEF Inv, TypeOK, EveryGoodPacketTakenOnce, Places, Mailbox, Held, Dio0
<1>10. DeliveredWhole'
  BY DEF Inv, TypeOK, DeliveredWhole, Places, Mailbox, Held, Dio0
<1>11. CountersTypeOK'
  <2>1. sends' \in 0 .. MaxSends
    BY BoundAssumption DEF Inv, TypeOK, CountersTypeOK
  <2>2. UNCHANGED <<rxGood, rxBad, txGood, arrived, taken>>
    BY DEF driver
  <2> QED BY <2>1, <2>2 DEF Inv, TypeOK, CountersTypeOK
<1> QED
  BY <1>1, <1>2, <1>3, <1>4, <1>5, <1>6, <1>7, <1>8, <1>9, <1>10, <1>11 DEF Inv, TypeOK

LEMMA AvailableKeepsInv == ASSUME Prompt = TRUE, Inv, Available PROVE Inv'
<1> USE DEF Available, AvailableInTx, AvailableNotInTx, SetModeRx, RxOpMode, RxDio, RxMode,
            IsAvailable, WriteOpMode, WriteDio, SetOpMode, AssignMode
<1>1. RadioTypeOK'
  BY PacketTypes DEF Inv, TypeOK, RadioTypeOK
<1>2. DriverTypeOK'
  BY DEF Inv, TypeOK, DriverTypeOK
<1>3. ThreadTypeOK'
  BY DEF Inv, TypeOK, ThreadTypeOK, Labels
<1>4. Places'
  BY DEF Inv, TypeOK, Places
<1>5. Tracks'
  BY DEF Inv, TypeOK, Tracks, Places, Pending, Dio0, IrqOf
<1>6. Pending'
  BY DEF Inv, TypeOK, Pending, Places, Tracks, Dio0, IrqOf, RadioTypeOK
<1>7. Mailbox'
  BY DEF Inv, TypeOK, Mailbox, Places, Tracks, Pending, Held, Dio0, IrqOf
<1>8. Counts'
  BY DEF Inv, TypeOK, Counts, Places, RxPending, Tracks, Pending, Dio0, IrqOf,
       RadioTypeOK, CountersTypeOK
<1>9. EveryGoodPacketTakenOnce'
  BY DEF Inv, TypeOK, EveryGoodPacketTakenOnce, Places, Mailbox, Held, Dio0
<1>10. DeliveredWhole'
  BY DEF Inv, TypeOK, DeliveredWhole, Places, Mailbox, Held, Dio0
<1>11. CountersTypeOK'
  BY DEF Inv, TypeOK, CountersTypeOK
<1> QED
  BY <1>1, <1>2, <1>3, <1>4, <1>5, <1>6, <1>7, <1>8, <1>9, <1>10, <1>11 DEF Inv, TypeOK

LEMMA SendKeepsInv == ASSUME Prompt = TRUE, Inv, Send PROVE Inv'
<1> USE DEF Send, SendLength, WaitPacketSent, SetModeIdle, AfterIdle, IdleOpMode, IdleMode,
            CadOpMode, CadDio, CadMode, CadClear, CadRetry, CadGiveUp, Load, TxOpMode,
            TxDio, TxMode, WriteOpMode, WriteDio, SetOpMode, AssignMode
<1>1. RadioTypeOK'
  BY PacketTypes DEF Inv, TypeOK, RadioTypeOK
<1>2. DriverTypeOK'
  BY DEF Inv, TypeOK, DriverTypeOK
<1>3. ThreadTypeOK'
  BY DEF Inv, TypeOK, ThreadTypeOK, Labels
<1>4. Places'
  BY DEF Inv, TypeOK, Places
<1>5. Tracks'
  BY DEF Inv, TypeOK, Tracks, Places, Pending, Dio0, IrqOf
<1>6. Pending'
  BY DEF Inv, TypeOK, Pending, Places, Tracks, Dio0, IrqOf, RadioTypeOK
<1>7. Mailbox'
  BY DEF Inv, TypeOK, Mailbox, Places, Tracks, Pending, Held, Dio0, IrqOf
<1>8. Counts'
  BY DEF Inv, TypeOK, Counts, Places, RxPending, Tracks, Pending, Dio0, IrqOf,
       RadioTypeOK, CountersTypeOK
<1>9. EveryGoodPacketTakenOnce'
  BY DEF Inv, TypeOK, EveryGoodPacketTakenOnce, Places, Mailbox, Held, Dio0
<1>10. DeliveredWhole'
  BY DEF Inv, TypeOK, DeliveredWhole, Places, Mailbox, Held, Dio0
<1>11. CountersTypeOK'
  BY DEF Inv, TypeOK, CountersTypeOK
<1> QED
  BY <1>1, <1>2, <1>3, <1>4, <1>5, <1>6, <1>7, <1>8, <1>9, <1>10, <1>11 DEF Inv, TypeOK

LEMMA GoToSleepKeepsInv == ASSUME Prompt = TRUE, Inv, GoToSleep PROVE Inv'
<1> USE DEF GoToSleep, SleepCheck, SleepOpMode, SleepMode, WriteOpMode, SetOpMode, AssignMode
<1>1. RadioTypeOK'
  BY PacketTypes DEF Inv, TypeOK, RadioTypeOK
<1>2. DriverTypeOK'
  BY DEF Inv, TypeOK, DriverTypeOK
<1>3. ThreadTypeOK'
  BY DEF Inv, TypeOK, ThreadTypeOK, Labels
<1>4. Places'
  BY DEF Inv, TypeOK, Places
<1>5. Tracks'
  BY DEF Inv, TypeOK, Tracks, Places, Pending, Dio0, IrqOf
<1>6. Pending'
  BY DEF Inv, TypeOK, Pending, Places, Tracks, Dio0, IrqOf, RadioTypeOK
<1>7. Mailbox'
  BY DEF Inv, TypeOK, Mailbox, Places, Tracks, Pending, Held, Dio0, IrqOf
<1>8. Counts'
  BY DEF Inv, TypeOK, Counts, Places, RxPending, Tracks, Pending, Dio0, IrqOf,
       RadioTypeOK, CountersTypeOK
<1>9. EveryGoodPacketTakenOnce'
  BY DEF Inv, TypeOK, EveryGoodPacketTakenOnce, Places, Mailbox, Held, Dio0
<1>10. DeliveredWhole'
  BY DEF Inv, TypeOK, DeliveredWhole, Places, Mailbox, Held, Dio0
<1>11. CountersTypeOK'
  BY DEF Inv, TypeOK, CountersTypeOK
<1> QED
  BY <1>1, <1>2, <1>3, <1>4, <1>5, <1>6, <1>7, <1>8, <1>9, <1>10, <1>11 DEF Inv, TypeOK

\* recv() and the headers: the message leaves the buffer in three steps.
LEMMA RecvfromKeepsInv == ASSUME Prompt = TRUE, Inv, Recvfrom PROVE Inv'
<1>1. RadioTypeOK'
  BY DEF Inv, TypeOK, RadioTypeOK, Recvfrom, Copy, ClearRxBuf, ReadHeaders
<1>2. DriverTypeOK'
  <2>1. buf \in Packet /\ headers \in Nat /\ DriverTypeOK
    BY DEF Inv, TypeOK, DriverTypeOK
  <2>2. CASE Copy
    BY <2>1, <2>2 DEF Copy, driver, DriverTypeOK
  <2>3. CASE ClearRxBuf
    <3>1. buf' \in Packet
      BY <2>1, <2>3, ShortenedPacket DEF ClearRxBuf
    <3> QED BY <2>1, <2>3, <3>1 DEF ClearRxBuf, DriverTypeOK
  <2>4. CASE ReadHeaders
    BY <2>1, <2>4 DEF ReadHeaders, driver, DriverTypeOK
  <2> QED
    BY <2>2, <2>3, <2>4 DEF Recvfrom
<1>3. ThreadTypeOK'
  <2>1. /\ buf \in Packet /\ headers \in Nat
        /\ ThreadTypeOK /\ out \in [pkt : Packet, len : Byte, from : Nat]
    BY DEF Inv, TypeOK, DriverTypeOK, ThreadTypeOK
  <2>2. CASE Copy
    <3>1. Acceptable(buf)
      BY <2>2 DEF Inv, Mailbox, Held, Copy
    <3>2. Copied(buf) \in Byte
      BY <2>1, <3>1, CopiedBounds DEF Acceptable
    <3>3. out' \in [pkt : Packet, len : Byte, from : Nat]
      BY <2>1, <2>2, <3>2 DEF Copy
    <3> QED BY <2>1, <2>2, <3>3 DEF Copy, ThreadTypeOK, Labels
  <2>3. CASE ClearRxBuf
    BY <2>1, <2>3 DEF ClearRxBuf, Goto, ThreadTypeOK, Labels
  <2>4. CASE ReadHeaders
    <3>1. out' \in [pkt : Packet, len : Byte, from : Nat]
      BY <2>1, <2>4 DEF ReadHeaders
    <3> QED BY <2>1, <2>4, <3>1 DEF ReadHeaders, Due, ThreadTypeOK, Labels
  <2> QED
    BY <2>2, <2>3, <2>4 DEF Recvfrom
<1>4. Places'
  BY DEF Inv, TypeOK, Places, Recvfrom, Copy, ClearRxBuf, ReadHeaders
<1>5. Tracks'
  BY DEF Inv, TypeOK, Tracks, Places, Pending, Dio0, IrqOf, Recvfrom, Copy, ClearRxBuf,
         ReadHeaders
<1>6. Pending'
  BY DEF Inv, TypeOK, Pending, Places, Tracks, Dio0, IrqOf, RadioTypeOK, Recvfrom,
         Copy, ClearRxBuf, ReadHeaders
<1>7. Mailbox'
  <2>1. buf \in Packet /\ out \in [pkt : Packet, len : Byte, from : Nat]
    BY DEF Inv, TypeOK, DriverTypeOK, ThreadTypeOK
  <2>2. CASE Copy
    <3>1. Held /\ Acceptable(buf) /\ headers = buf.id
      BY <2>2 DEF Inv, Mailbox, Held, Copy
    <3>2. out'.pkt = buf /\ out' # NoOut
      BY <2>2, <3>1 DEF Copy, Acceptable, LongEnough, HeaderLen, NoOut, NoPacket
    <3> QED
      BY <2>2, <3>1, <3>2 DEF Inv, Mailbox, Held, Copy, driver, radio
  <2>3. CASE ClearRxBuf
    BY <2>3 DEF Inv, Mailbox, Held, ClearRxBuf, Goto, radio, Running
  <2>4. CASE ReadHeaders
    BY <2>4 DEF Inv, Mailbox, Held, ReadHeaders, Due, radio, driver, Acceptable,
           LongEnough, ForUs
  <2> QED
    BY <2>2, <2>3, <2>4 DEF Recvfrom
<1>8. Counts'
  BY DEF Inv, TypeOK, Counts, Places, RxPending, Tracks, Pending, Dio0, IrqOf,
       RadioTypeOK, CountersTypeOK, Recvfrom, Copy, ClearRxBuf, ReadHeaders
<1>9. EveryGoodPacketTakenOnce'
  <2>1. rxGood \in Nat /\ taken \in Nat /\ rxGood' = rxGood
    BY BoundAssumption DEF Inv, TypeOK, CountersTypeOK, Recvfrom, Copy, ClearRxBuf,
           ReadHeaders
  <2>2. CASE Copy
    <3>1. Held /\ ~Held' /\ taken' = taken + 1
      BY <2>2 DEF Inv, Mailbox, Held, Copy
    <3> QED BY <2>1, <3>1 DEF Inv, EveryGoodPacketTakenOnce
  <2>3. CASE ClearRxBuf
    <3>1. ~Held /\ ~Held' /\ taken' = taken
      BY <2>3 DEF Held, ClearRxBuf
    <3> QED BY <2>1, <3>1 DEF Inv, EveryGoodPacketTakenOnce
  <2>4. CASE ReadHeaders
    <3>1. Held' = Held /\ taken' = taken
      BY <2>4 DEF Held, ReadHeaders
    <3> QED BY <2>1, <3>1 DEF Inv, EveryGoodPacketTakenOnce
  <2> QED
    BY <2>2, <2>3, <2>4 DEF Recvfrom
<1>10. DeliveredWhole'
  <2>1. buf \in Packet /\ out \in [pkt : Packet, len : Byte, from : Nat]
    BY DEF Inv, TypeOK, DriverTypeOK, ThreadTypeOK
  <2>2. CASE Copy
    <3>1. Acceptable(buf) /\ pc' = "clearRxBuf"
      BY <2>2 DEF Inv, Mailbox, Held, Copy
    <3>2. out'.pkt = buf /\ out'.len = Copied(buf)
      BY <2>2 DEF Copy
    <3>3. Acceptable(out'.pkt)
      BY <3>1, <3>2
    <3>4. out'.len <= CallerLen /\ out'.len <= out'.pkt.len - HeaderLen
      BY <2>1, <3>1, <3>2, CopiedBounds DEF Acceptable
    <3> QED BY <3>1, <3>3, <3>4 DEF DeliveredWhole, Acceptable, LongEnough, ForUs
  <2>3. CASE ClearRxBuf
    BY <2>3 DEF Inv, DeliveredWhole, ClearRxBuf, Goto, Acceptable, LongEnough, ForUs
  <2>4. CASE ReadHeaders
    <3>1. /\ out'.pkt = out.pkt /\ out'.len = out.len /\ out'.from = headers
      BY <2>1, <2>4 DEF ReadHeaders
    <3>2. headers = out.pkt.id /\ out.pkt \in Packet
      BY <2>1, <2>4 DEF Inv, Mailbox, ReadHeaders
    <3>3. out # NoOut
      BY <2>4 DEF Inv, Mailbox, ReadHeaders
    <3> QED
      BY <2>4, <3>1, <3>2, <3>3 DEF Inv, DeliveredWhole, ReadHeaders, Acceptable,
             LongEnough, ForUs
  <2> QED
    BY <2>2, <2>3, <2>4 DEF Recvfrom
<1>11. CountersTypeOK'
  <2>1. UNCHANGED <<rxGood, rxBad, txGood, arrived, sends>>
    BY DEF Recvfrom, Copy, ClearRxBuf, ReadHeaders
  <2>2. CASE Copy
    <3>1. Held /\ taken' = taken + 1
      BY <2>2 DEF Inv, Mailbox, Held, Copy
    <3> QED BY <2>1, <3>1, RoomToCount DEF Inv, TypeOK, CountersTypeOK
  <2>3. CASE ClearRxBuf \/ ReadHeaders
    BY <2>1, <2>3 DEF ClearRxBuf, ReadHeaders, Inv, TypeOK, CountersTypeOK
  <2> QED BY <2>2, <2>3 DEF Recvfrom
<1> QED
  BY <1>1, <1>2, <1>3, <1>4, <1>5, <1>6, <1>7, <1>8, <1>9, <1>10, <1>11 DEF Inv, TypeOK

\* The handler: only its receive branch touches the buffer.
LEMMA HandleInterruptKeepsInv == ASSUME Prompt = TRUE, Inv, HandleInterrupt PROVE Inv'
<1>1. RadioTypeOK'
  BY DEF Inv, TypeOK, RadioTypeOK, HandleInterrupt, ReceiveError, ReceivePacket,
         PacketIsSent,
         ActivityDetected, SetOpMode
<1>2. DriverTypeOK'
  <2>1. DriverTypeOK /\ irq \in IrqFlags
    BY DEF Inv, TypeOK, RadioTypeOK
  <2>2. CASE mode = "Rx" /\ "CrcError" \notin irq /\ "RxDone" \in irq
    <3>1. ReceivePacket /\ irq \in RxEvents
      BY <2>1, <2>2 DEF HandleInterrupt
    <3>2. \A p \in Packet : p.id \in Nat
      BY DEF Packet
    <3> QED BY <2>1, <2>2, <3>1, <3>2, Received DEF DriverTypeOK
  <2>3. CASE ~(mode = "Rx" /\ "CrcError" \notin irq /\ "RxDone" \in irq)
    <3>1. cad' \in BOOLEAN
      <4>1. ActivityDetected \/ cad' = cad
        BY <2>3 DEF HandleInterrupt, ReceiveError, PacketIsSent, driver
      <4>2. ActivityDetected => cad' \in BOOLEAN
        BY SMT DEF ActivityDetected
      <4> QED BY <2>1, <4>1, <4>2 DEF DriverTypeOK
    <3>2. /\ UNCHANGED <<rxBufValid, buf, headers>>
          /\ mode' \in {mode, "Idle"}
      BY <2>3 DEF HandleInterrupt, ReceiveError, PacketIsSent, ActivityDetected, driver
    <3> QED BY <2>1, <3>1, <3>2 DEF DriverTypeOK
  <2> QED
    BY <2>2, <2>3
<1>3. ThreadTypeOK'
  BY DEF Inv, TypeOK, ThreadTypeOK, Labels, HandleInterrupt, ReceiveError,
         ReceivePacket, PacketIsSent,
         ActivityDetected, SetOpMode
<1>4. Places'
  BY DEF Inv, TypeOK, Places, HandleInterrupt, ReceiveError, ReceivePacket, PacketIsSent,
         ActivityDetected, SetOpMode
<1>5. Tracks'
  BY DEF Inv, TypeOK, Tracks, Places, Pending, Dio0, IrqOf, HandleInterrupt,
         ReceiveError, ReceivePacket, PacketIsSent,
         ActivityDetected, SetOpMode
<1>6. Pending'
  BY DEF Inv, TypeOK, Pending, Places, Tracks, Dio0, IrqOf, RadioTypeOK,
         HandleInterrupt, ReceiveError, ReceivePacket, PacketIsSent,
         ActivityDetected, SetOpMode
<1>7. Mailbox'
  <2>1. DriverTypeOK /\ irq \in IrqFlags
    BY DEF Inv, TypeOK, RadioTypeOK
  <2>2. CASE mode = "Rx" /\ "CrcError" \notin irq /\ "RxDone" \in irq
    <3>1. ReceivePacket /\ irq \in RxEvents
      BY <2>1, <2>2 DEF HandleInterrupt
    <3>2. irq' = {} /\ UNCHANGED <<pc, op, due, out>>
      BY DEF HandleInterrupt, thread
    <3> QED BY <2>2, <3>1, <3>2, Received
           DEF Inv, Mailbox, Held, Acceptable, LongEnough, ForUs
  <2>3. CASE ~(mode = "Rx" /\ "CrcError" \notin irq /\ "RxDone" \in irq)
    <3>1. UNCHANGED <<buf, headers, rxBufValid, pc, op, due, out>> /\ irq' = {}
      BY <2>3 DEF HandleInterrupt, ReceiveError, PacketIsSent, ActivityDetected,
             driver, thread
    <3>2. opMode' = "stdby" \/ UNCHANGED <<opMode, air>>
      BY <2>3 DEF HandleInterrupt, ReceiveError, PacketIsSent, ActivityDetected, SetOpMode
    <3> QED BY <3>1, <3>2 DEF Inv, Mailbox, Held, Acceptable, LongEnough, ForUs
  <2> QED
    BY <2>2, <2>3
<1>8. Counts'
  BY DEF Inv, TypeOK, Counts, Places, RxPending, Tracks, Pending, Dio0, IrqOf,
       RadioTypeOK, CountersTypeOK, HandleInterrupt, ReceiveError, ReceivePacket, PacketIsSent,
         ActivityDetected, SetOpMode
<1>9. EveryGoodPacketTakenOnce'
  <2>1. irq \in IrqFlags
    BY DEF Inv, TypeOK, RadioTypeOK
  <2>2. UNCHANGED <<pc, taken>>
    BY DEF HandleInterrupt
  <2>3. CASE mode = "Rx" /\ "CrcError" \notin irq /\ "RxDone" \in irq
    BY <2>1, <2>2, <2>3, Received
       DEF Inv, TypeOK, CountersTypeOK, HandleInterrupt, EveryGoodPacketTakenOnce, Held
  <2>4. CASE ~(mode = "Rx" /\ "CrcError" \notin irq /\ "RxDone" \in irq)
    BY <2>2, <2>4 DEF Inv, EveryGoodPacketTakenOnce, Held, HandleInterrupt, ReceiveError,
                      PacketIsSent, ActivityDetected
  <2> QED BY <2>3, <2>4
<1>10. DeliveredWhole'
  BY DEF Inv, TypeOK, DeliveredWhole, Places, Mailbox, Held, Dio0, HandleInterrupt,
         ReceiveError, ReceivePacket, PacketIsSent,
         ActivityDetected, SetOpMode
<1>11. CountersTypeOK'
  <2>1. /\ CountersTypeOK /\ UNCHANGED <<arrived, taken, sends>>
        /\ irq \in IrqFlags
    BY DEF Inv, TypeOK, RadioTypeOK, HandleInterrupt
  <2>2. CASE mode = "Rx" /\ "CrcError" \notin irq /\ "RxDone" \in irq
    <3>1. ReceivePacket /\ irq \in RxEvents
      BY <2>1, <2>2 DEF HandleInterrupt
    <3>2. rxGood' \in {rxGood, rxGood + 1} /\ UNCHANGED <<rxBad, txGood>>
      BY <2>2, <3>1, Received
    <3> QED BY <2>1, <3>1, <3>2, RoomToCount DEF CountersTypeOK
  <2>3. CASE mode = "Rx" /\ "CrcError" \in irq
    <3>1. rxBad' = rxBad + 1 /\ UNCHANGED <<rxGood, txGood>>
      BY <2>3 DEF HandleInterrupt, ReceiveError
    <3>2. irq \in RxEvents
      BY <2>1, <2>3
    <3> QED BY <2>1, <3>1, <3>2, RoomToCount DEF CountersTypeOK
  <2>4. CASE ~(mode = "Rx" /\ ("CrcError" \in irq \/ "RxDone" \in irq))
    <3>1. \/ mode = "Tx" /\ PacketIsSent
          \/ ActivityDetected
          \/ UNCHANGED driver
      BY <2>4 DEF HandleInterrupt
    <3>2. UNCHANGED <<rxGood, rxBad>>
      BY <3>1 DEF PacketIsSent, ActivityDetected, driver
    <3>3. txGood' = txGood \/ (mode = "Tx" /\ txGood' = txGood + 1)
      BY <3>1 DEF PacketIsSent, ActivityDetected, driver
    <3> QED BY <2>1, <3>2, <3>3, RoomToCount DEF CountersTypeOK
  <2> QED BY <2>2, <2>3, <2>4
<1> QED
  BY <1>1, <1>2, <1>3, <1>4, <1>5, <1>6, <1>7, <1>8, <1>9, <1>10, <1>11 DEF Inv, TypeOK

\* The radio: a packet that ends becomes a pending event.
LEMMA EnvironmentKeepsInv == ASSUME Prompt = TRUE, Inv, Environment PROVE Inv'
<1> USE DEF Environment, PacketStarts, TimePasses, Waiting, RxEnds, TxEnds, CadEnds
<1>1. RadioTypeOK'
  <2>1. CASE RxEnds
    <3>1. fifo' \in Packet
      BY <2>1, PacketTypes DEF Inv, TypeOK, CountersTypeOK
    <3>2. irq' \in RxEvents
      BY <2>1
    <3> QED BY <2>1, <3>1, <3>2 DEF Inv, TypeOK, RadioTypeOK
  <2>2. CASE CadEnds
    <3>1. irq' \in CadEvents
      BY <2>2
    <3> QED BY <2>2, <3>1 DEF Inv, TypeOK, RadioTypeOK
  <2>3. CASE PacketStarts \/ TimePasses \/ TxEnds
    BY <2>3 DEF Inv, TypeOK, RadioTypeOK
  <2> QED BY <2>1, <2>2, <2>3
<1>2. DriverTypeOK'
  BY DEF Inv, TypeOK, DriverTypeOK
<1>3. ThreadTypeOK'
  BY DEF Inv, TypeOK, ThreadTypeOK, Labels
<1>4. Places'
  BY DEF Inv, TypeOK, Places
<1>5. Tracks'
  BY DEF Inv, TypeOK, Tracks, Places, Pending, Dio0, IrqOf
<1>6. Pending'
  BY DEF Inv, TypeOK, Pending, Places, Tracks, Dio0, IrqOf, RadioTypeOK
<1>7. Mailbox'
  BY DEF Inv, TypeOK, Mailbox, Places, Tracks, Pending, Held, Dio0, IrqOf
<1>8. Counts'
  <2>1. /\ rxGood \in Nat /\ rxBad \in Nat /\ arrived \in Nat
        /\ rxGood + rxBad + RxPending <= arrived
    BY BoundAssumption DEF Inv, TypeOK, CountersTypeOK, Counts
  <2>2. UNCHANGED <<rxGood, rxBad, txGood, mode, op, sends>>
    OBVIOUS
  <2>3. rxGood' + rxBad' + RxPending' <= arrived'
    <3>1. CASE RxEnds
      <4>1. RxPending = 0
        BY <3>1 DEF Inv, Tracks, RxPending, Dio0, IrqOf
      <4>2. RxPending' = 1 \/ RxPending' = 0
        BY DEF RxPending
      <4>3. arrived' = arrived + 1
        BY <3>1
      <4> QED BY <2>1, <2>2, <4>1, <4>2, <4>3
    <3>2. CASE TxEnds \/ CadEnds
      <4>1. irq' \in {{"TxDone"}, {"CadDone"}, {"CadDone", "CadDetected"}}
        BY <3>2
      <4>2. RxPending' = 0 /\ arrived' = arrived
        BY <3>2, <4>1 DEF RxPending
      <4>3. RxPending \in {0, 1}
        BY DEF RxPending
      <4> QED BY <2>1, <2>2, <4>2, <4>3
    <3>3. CASE PacketStarts \/ TimePasses
      BY <2>1, <3>3 DEF RxPending
    <3> QED BY <3>1, <3>2, <3>3
  <2> QED BY <2>2, <2>3 DEF Inv, Counts
<1>9. EveryGoodPacketTakenOnce'
  BY DEF Inv, TypeOK, EveryGoodPacketTakenOnce, Places, Mailbox, Held, Dio0
<1>10. DeliveredWhole'
  BY DEF Inv, TypeOK, DeliveredWhole, Places, Mailbox, Held, Dio0
<1>11. CountersTypeOK'
  <2>1. arrived \in 0 .. MaxPackets
    BY DEF Inv, TypeOK, CountersTypeOK
  <2>2. arrived' \in 0 .. MaxPackets
    <3>1. CASE RxEnds
      BY <2>1, <3>1, BoundAssumption
    <3>2. CASE PacketStarts \/ TimePasses \/ TxEnds \/ CadEnds
      BY <2>1, <3>2
    <3> QED BY <3>1, <3>2
  <2>3. UNCHANGED <<rxGood, rxBad, txGood, taken, sends>>
    OBVIOUS
  <2> QED BY <2>2, <2>3 DEF Inv, TypeOK, CountersTypeOK
<1> QED
  BY <1>1, <1>2, <1>3, <1>4, <1>5, <1>6, <1>7, <1>8, <1>9, <1>10, <1>11 DEF Inv, TypeOK

\* After init().
LEMMA InitInv == Init => Inv
<1> SUFFICES ASSUME Init PROVE Inv
  OBVIOUS
<1>1. TypeOK
  <2>1. RadioTypeOK
    BY PacketTypes DEF Init, RadioTypeOK
  <2>2. DriverTypeOK
    BY PacketTypes DEF Init, DriverTypeOK
  <2>3. ThreadTypeOK
    <3>1. NoOut \in [pkt : Packet, len : Byte, from : Nat]
      BY PacketTypes DEF NoOut, Byte
    <3> QED BY <3>1 DEF Init, ThreadTypeOK, Labels
  <2>4. CountersTypeOK
    BY BoundAssumption DEF Init, CountersTypeOK
  <2> QED BY <2>1, <2>2, <2>3, <2>4 DEF TypeOK
<1>2. Places /\ Tracks /\ Pending /\ Mailbox
  BY DEF Init, Places, Tracks, Pending, Mailbox, Held
<1>3. Counts /\ EveryGoodPacketTakenOnce /\ DeliveredWhole
  BY DEF Init, Counts, RxPending, EveryGoodPacketTakenOnce, Held, DeliveredWhole
<1> QED
  BY <1>1, <1>2, <1>3 DEF Inv

\* A step that changes nothing.
LEMMA StutterInv == Inv /\ UNCHANGED vars => Inv'
BY DEF vars, Inv, TypeOK, RadioTypeOK, DriverTypeOK, ThreadTypeOK, CountersTypeOK, Places,
       Tracks, Pending, Mailbox, Counts, RxPending, EveryGoodPacketTakenOnce, DeliveredWhole,
       Held, Acceptable, LongEnough, ForUs

\* The inductive invariant of prompt programs.
THEOREM InvAlways == ASSUME Prompt = TRUE PROVE Spec => []Inv
<1>1. Inv /\ [Next]_vars => Inv'
  BY CallsKeepsInv, AvailableKeepsInv, RecvfromKeepsInv, SendKeepsInv, GoToSleepKeepsInv,
     HandleInterruptKeepsInv, EnvironmentKeepsInv, StutterInv DEF Next, Thread
<1> QED
  BY <1>1, InitInv, PTL DEF Spec

\* Every variable keeps its type; the driver's counters do not overflow.
THEOREM Types == ASSUME Prompt = TRUE PROVE Spec => []TypeOK
BY InvAlways, PTL DEF Inv

\* No packet the driver has counted as good is ever overwritten, dropped or
\* delivered twice, however the handler interleaves with the program.
THEOREM EveryGoodPacketIsTakenOnce ==
  ASSUME Prompt = TRUE PROVE Spec => []EveryGoodPacketTakenOnce
BY InvAlways, PTL DEF Inv

\* Body, length and headers that recvfrom() returns are one packet's, and this node's.
THEOREM DeliveredIsWhole == ASSUME Prompt = TRUE PROVE Spec => []DeliveredWhole
BY InvAlways, PTL DEF Inv

\* No event is cleared unseen.
THEOREM EventsAreHandled == ASSUME Prompt = TRUE PROVE Spec => []EveryEventHandled
<1>1. Inv => EveryEventHandled
  BY DEF Inv, TypeOK, RadioTypeOK, Pending, EveryEventHandled, IrqOf
<1> QED
  BY <1>1, InvAlways, PTL

\* Between calls the radio is in the mode the driver believes it to be in.
THEOREM ModeIsRadios == ASSUME Prompt = TRUE PROVE Spec => []ModeMatchesRadio
<1>1. Inv => ModeMatchesRadio
  BY DEF Inv, Places, Tracks, ModeMatchesRadio, Dio0, IrqOf
<1> QED
  BY <1>1, InvAlways, PTL

\* The FIFO is loaded in standby, with nothing left to read in it.
THEOREM FifoIsNotShared == ASSUME Prompt = TRUE PROVE Spec => []FifoNotShared
<1>1. Inv => FifoNotShared
  BY DEF Inv, TypeOK, RadioTypeOK, Places, Tracks, Pending, FifoNotShared
<1> QED
  BY <1>1, InvAlways, PTL

\* No call but setModeIdle() and sleep() breaks a transmission off.
THEOREM TransmissionsAreNotInterrupted == ASSUME Prompt = TRUE PROVE Spec => TxNotInterrupted
<1> DEFINE Kept == opMode = "tx" /\ opMode' # "tx" => "TxDone" \in irq' \/ op \in {"idle", "sleep"}
<1>1. Inv /\ [Next]_vars => [Kept]_vars
  <2> SUFFICES ASSUME Inv, [Next]_vars PROVE Kept
    OBVIOUS
  <2>1. CASE Calls
    BY <2>1 DEF Calls, CallAvailable, CallRecvfrom, CallSend, CallWaitSent, CallIdle,
           CallSleep, Call
  <2>2. CASE Available
    BY <2>2 DEF Inv, Places, Tracks, Available, AvailableInTx, AvailableNotInTx, SetModeRx,
       RxOpMode, RxDio, RxMode, IsAvailable, WriteOpMode, WriteDio, SetOpMode, AssignMode
  <2>3. CASE Recvfrom
    BY <2>3 DEF Recvfrom, Copy, ClearRxBuf, ReadHeaders
  <2>4. CASE Send
    BY <2>4 DEF Inv, Places, Tracks, Send, SendLength, WaitPacketSent, SetModeIdle,
           AfterIdle,
       IdleOpMode, IdleMode, CadOpMode, CadDio, CadMode, CadClear, CadRetry, CadGiveUp, Load,
       TxOpMode, TxDio, TxMode, WriteOpMode, WriteDio, SetOpMode, AssignMode
  <2>5. CASE GoToSleep
    BY <2>5 DEF Inv, Places, GoToSleep, SleepCheck, SleepOpMode, SleepMode, WriteOpMode,
       SetOpMode, AssignMode
  <2>6. CASE HandleInterrupt
    BY <2>6 DEF Inv, TypeOK, RadioTypeOK, Places, Tracks, Pending, Dio0, IrqOf,
           HandleInterrupt,
       ReceiveError, ReceivePacket, PacketIsSent, ActivityDetected, SetOpMode
  <2>7. CASE Environment
    BY <2>7 DEF Environment, PacketStarts, TimePasses, RxEnds, TxEnds, CadEnds
  <2>8. CASE UNCHANGED vars
    BY <2>8 DEF vars
  <2> QED
    BY <2>1, <2>2, <2>3, <2>4, <2>5, <2>6, <2>7, <2>8 DEF Next, Thread
<1> QED
  BY <1>1, InvAlways, PTL DEF Spec, TxNotInterrupted
-----------------------------------------------------------------------------
\* What the program waits for: a transmission or a detection is under way, and its event
\* will reach the handler.
UnderWay ==
  /\ opMode \in {"tx", "cad"} => air # "none"
  /\ mode = "Cad" => dio = "cad" /\ (opMode = "cad" \/ irq \in CadEvents)

\* No call waits in vain: waitPacketSent() and isChannelActive() leave their loops when the
\* handler changes _mode, and its event has come, with its line armed, or is still to come.
EndIsToCome ==
  /\ pc = "waitPacketSent" /\ mode = "Tx" =>
       (opMode = "tx" /\ air # "none") \/ (Dio0 /\ irq = {"TxDone"})
  /\ pc = "cadWait" /\ mode = "Cad" =>
       (opMode = "cad" /\ air # "none") \/ (Dio0 /\ irq \in CadEvents)

LEMMA UnderWayKept == Prompt = TRUE /\ Inv /\ UnderWay /\ [Next]_vars => UnderWay'
<1> SUFFICES ASSUME Prompt = TRUE, Inv, UnderWay, [Next]_vars PROVE UnderWay'
  OBVIOUS
<1> USE DEF UnderWay
<1>1. CASE Calls
  BY <1>1 DEF Calls, CallAvailable, CallRecvfrom, CallSend, CallWaitSent, CallIdle,
         CallSleep, Call
<1>2. CASE Available
  BY <1>2 DEF Inv, Places, Available, AvailableInTx, AvailableNotInTx, SetModeRx,
     RxOpMode, RxDio, RxMode, IsAvailable, WriteOpMode, WriteDio, SetOpMode, AssignMode
<1>3. CASE Recvfrom
  BY <1>3 DEF Recvfrom, Copy, ClearRxBuf, ReadHeaders
<1>4. CASE Send
  <2>1. CASE CadMode
    BY <1>4, <2>1 DEF Inv, Tracks, CadMode, AssignMode
  <2>2. CASE ~CadMode
    BY <1>4, <2>2 DEF Inv, Places, Send, SendLength, WaitPacketSent, SetModeIdle, AfterIdle,
       IdleOpMode, IdleMode, CadOpMode, CadDio, CadClear, CadRetry, CadGiveUp, Load,
       TxOpMode, TxDio, TxMode, WriteOpMode, WriteDio, SetOpMode, AssignMode
  <2> QED
    BY <2>1, <2>2
<1>5. CASE GoToSleep
  BY <1>5 DEF Inv, Places, GoToSleep, SleepCheck, SleepOpMode, SleepMode, WriteOpMode,
     SetOpMode, AssignMode
<1>6. CASE HandleInterrupt
  BY <1>6 DEF Inv, TypeOK, RadioTypeOK, Pending, Dio0, IrqOf, HandleInterrupt,
     ReceiveError, ReceivePacket, PacketIsSent, ActivityDetected, SetOpMode
<1>7. CASE Environment
  BY <1>7 DEF Inv, Tracks, Environment, PacketStarts, TimePasses, RxEnds, TxEnds, CadEnds
<1>8. CASE UNCHANGED vars
  BY <1>8 DEF vars
<1> QED
  BY <1>1, <1>2, <1>3, <1>4, <1>5, <1>6, <1>7, <1>8 DEF Next, Thread

\* The safety half of SendReturns: while send(), waitPacketSent() or listen-before-talk
\* waits, what ends the wait is under way or pending.
THEOREM NoWaitIsInVain == ASSUME Prompt = TRUE PROVE Spec => []EndIsToCome
<1>1. Init => UnderWay
  BY DEF Init, UnderWay
<1>2. Inv /\ UnderWay => EndIsToCome
  BY DEF Inv, Tracks, UnderWay, EndIsToCome, Dio0, IrqOf
<1> QED
  BY <1>1, <1>2, UnderWayKept, InvAlways, PTL DEF Spec
=============================================================================
