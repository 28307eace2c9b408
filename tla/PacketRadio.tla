----------------------------- MODULE PacketRadio -----------------------------
(***************************************************************************)
(* What the drivers of the other radios share: a chip that hears packets   *)
(* and sends one at a time, the driver's mode and buffer, and a program    *)
(* that calls available(), recv(), send(), waitPacketSent() and sleep().   *)
(* The program takes a message as soon as available() tells of it, and     *)
(* does not put a radio to sleep that is sending.                          *)
(*                                                                         *)
(* As in RF95, a packet takes longer than the straight-line code of a      *)
(* call: the chip's activity starts young, and ends only when it is old.   *)
(***************************************************************************)
EXTENDS Integers, Sequences

CONSTANTS MaxPackets,    \* bound on the packets that arrive
          MaxSends       \* bound on the packets that are sent

ASSUME PacketRadioAssumption == MaxPackets \in Nat /\ MaxSends \in Nat

VARIABLES
  chip, air,     \* what the chip does, and its packet: "none", "young" or "old"
  queue,         \* packets received that the driver has not read
  done,          \* a transmission has ended and the driver has not seen it
  mode, valid,   \* _mode and _rxBufValid
  buf,           \* _buf: the packets of which it holds the octets
  pc, op, due,   \* where the program is, in which call, and the call it owes
  arrived, heard, seen,   \* packets that came, those for this node, and the kinds
  taken, out,    \* messages handed over, and the last
  relistened,    \* the receiver was turned on over a message held
  sentOver,      \* send() was called over one, or over a packet not yet read
  late,          \* an event awaited the handler when sleep(), or send() of the RF22,
                 \* last told the chip to change
  sends

radio == <<chip, air, queue, done>>
thread == <<pc, op, due>>
driven == <<mode, valid, buf>>
heardOf == <<arrived, heard, seen>>
handed == <<taken, out>>
flags == <<relistened, sentOver, late, sends>>
history == <<heardOf, handed, flags>>
vars == <<radio, driven, thread, history>>

\* For this node or the broadcast address, for another, or not what the driver
\* accepts: a wrong length or checksum.
Kinds == {"ours", "other", "faulty"}
Own == "own"
Contents == Kinds \cup {Own}

\* The program starts, or starts again: what the chip is at is not known, nor what it
\* still holds of earlier days.
Init ==
  /\ \/ chip \in {"idle", "sleep"} /\ air = "none"
     \/ chip = "rx" /\ air \in {"none", "young"}
     \/ chip = "tx" /\ air = "young"
  /\ queue \in {<<>>} \cup {<<kind>> : kind \in Kinds} /\ done \in BOOLEAN
  /\ mode = "Initialising" /\ valid = FALSE /\ buf = <<>>
  /\ pc = "init" /\ op = "none" /\ due = "any"
  /\ arrived = 0 /\ heard = 0 /\ seen = {} /\ taken = 0 /\ out = <<>>
  /\ relistened = FALSE /\ sentOver = FALSE /\ late = FALSE /\ sends = 0
-----------------------------------------------------------------------------
(* The chip and time. *)

SetChip(c) == chip' = c /\ air' = IF c = "tx" THEN "young" ELSE "none"

\* setModeIdle(), setModeRx() and setModeTx() of every driver.
SetMode(m, c) ==
  IF mode # m THEN mode' = m /\ SetChip(c) ELSE UNCHANGED <<mode, chip, air>>

Waiting == (pc = "app" /\ due # "recv") \/ pc = "waitSent"

PacketStarts(room) ==
  /\ chip = "rx" /\ air = "none" /\ arrived < MaxPackets /\ Len(queue) < room
  /\ air' = "young"
  /\ UNCHANGED <<chip, queue, done, driven, thread, history>>

TimePasses ==
  /\ air = "young" /\ Waiting
  /\ air' = "old"
  /\ UNCHANGED <<chip, queue, done, driven, thread, history>>

\* A packet has come; some chips then stop listening.
Receives(kinds, next) ==
  /\ chip = "rx" /\ air = "old"
  /\ \E kind \in kinds : /\ queue' = Append(queue, kind)
                         /\ seen' = seen \cup {kind}
                         /\ heard' = heard + (IF kind = "ours" THEN 1 ELSE 0)
  /\ arrived' = arrived + 1
  /\ air' = "none" /\ chip' = next
  /\ UNCHANGED <<done, thread, handed, flags>>

RxEnds(kinds, next) == Receives(kinds, next) /\ UNCHANGED driven

TxEnds ==
  /\ chip = "tx" /\ air = "old"
  /\ chip' = "idle" /\ air' = "none" /\ done' = TRUE
  /\ UNCHANGED <<queue, driven, thread, history>>
-----------------------------------------------------------------------------
(* The program. *)

Call(o, label, allowed) ==
  /\ pc = "app" /\ due \in allowed
  /\ op' = o /\ pc' = label
  /\ UNCHANGED <<due, radio, driven, heardOf, handed, relistened, sentOver, late>>

CallAvailable == Call("available", "available", {"any"}) /\ UNCHANGED sends
CallRecv      == Call("recv", "available", {"any", "recv"}) /\ UNCHANGED sends
CallSend      == Call("send", "send", {"any"}) /\ sends < MaxSends /\ sends' = sends + 1
CallWaitSent  == Call("waitSent", "waitSent", {"any", "waitSent"}) /\ UNCHANGED sends
CallSleep     == mode # "Tx" /\ Call("sleep", "sleep", {"any"}) /\ UNCHANGED sends

Calls == CallAvailable \/ CallRecv \/ CallSend \/ CallWaitSent

At(label) == pc = label

\* init() has found its chip and made it idle; what came before is not seen any more.
\* If it answers FALSE, which may happen at any of its tests, the program tries again.
Started(m) ==
  /\ At("init") /\ pc' = "app"
  /\ chip' = "idle" /\ air' = "none" /\ queue' = <<>> /\ done' = FALSE
  /\ mode' = m
  /\ UNCHANGED <<op, due, valid, buf, history>>

Goto(label) == pc' = label /\ UNCHANGED <<op, due>>
Return(owed) == pc' = "app" /\ op' = "none" /\ due' = owed

\* What available() says, to the program or to recv().
Answer(yes) == IF op = "recv" /\ yes THEN Goto("copy")
               ELSE Return(IF yes THEN "recv" ELSE "any")

\* recv() hands the message over, and then lets go of it.
HandOver == taken' = taken + 1 /\ out' = buf
=============================================================================
