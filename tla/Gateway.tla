------------------------------ MODULE Gateway -------------------------------
(***************************************************************************)
(* transceiver.ino: the board on the Pi's USB port.  loop() prints what    *)
(* the radio received as a line to the Pi, then reads from the Pi until    *)
(* the port has been silent for a second, and sends all it read as one     *)
(* LoRa message.                                                           *)
(***************************************************************************)
EXTENDS Messages

CONSTANT LineCapacity   \* lines the USB port holds for the Pi, at least one

VARIABLES
  pc,                    \* where loop() is
  text,                  \* serialFromPi, as the commands it consists of
  phase, slot, taken,    \* the radio
  serialDown, serialUp   \* the serial port, from and to the Pi

radio == <<phase, slot, taken>>
serial == <<serialDown, serialUp>>
vars == <<pc, text, radio, serial>>

RF95 == INSTANCE Radio WITH Message <- Packet

Init == pc = "receive" /\ text = <<>> /\ RF95!Init

Goto(from, to) == pc = from /\ pc' = to

\* Mutant: looking for a message does not turn the receiver on.
AvailableDeaf ==
  /\ Goto("receive", IF slot = NoMessage THEN "readString" ELSE "recv")
  /\ UNCHANGED <<text, radio, serial>>

\* receiveLoRa()
Available == /\ Goto("receive", IF slot = NoMessage THEN "readString" ELSE "recv")
             /\ RF95!Listen
             /\ UNCHANGED <<text, serial>>

Recv == /\ Goto("recv", "println")
        /\ RF95!Take
        /\ UNCHANGED <<text, serial>>

\* Serial.println(): the line is lost when the Pi does not read.
Println == /\ Goto("println", "readString")
           /\ serialUp' = IF Len(serialUp) < LineCapacity
                          THEN Append(serialUp, taken) ELSE serialUp
           /\ taken' = NoMessage
           /\ UNCHANGED <<text, phase, slot, serialDown>>

\* receiveSerial(): readString() returns all that came before a second's
\* silence; nothing is sent unless there is text.
ReadString == /\ Goto("readString", IF serialDown = <<>> THEN "receive" ELSE "send")
              /\ text' = serialDown
              /\ serialDown' = <<>>
              /\ UNCHANGED <<radio, serialUp>>

\* sendLoRaMessage() counts the terminating zero in an int; send() takes a byte.
Bytes(commands) == Len(commands) * CommandLen + 1
SentBytes(commands) == Bytes(commands) % 256

OnAir(commands) == [kind |-> "command", head |-> Head(commands),
                    cut |-> SentBytes(commands) < CommandLen]

Send == /\ SentBytes(text) <= MaxMessageLen
        /\ Goto("send", "sent")
        /\ RF95!StartSend
        /\ UNCHANGED <<text, serial>>

\* send() returns false: nobody looks, the text is dropped.
SendRefused == /\ SentBytes(text) > MaxMessageLen
               /\ Goto("send", "receive")
               /\ text' = <<>>
               /\ UNCHANGED <<radio, serial>>

PacketSent == /\ Goto("sent", "receive") /\ phase # "sending"
              /\ text' = <<>>
              /\ UNCHANGED <<radio, serial>>

Step == \/ Available \/ Recv \/ Println \/ ReadString
        \/ Send \/ SendRefused \/ PacketSent

TypeOK == /\ pc \in {"receive", "recv", "println", "readString", "send", "sent"}
          /\ text \in Seq(Command)
          /\ RF95!TypeOK
          /\ serialDown \in Seq(Command) /\ serialUp \in Seq(Packet)
=============================================================================
