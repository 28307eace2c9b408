----------------------------- MODULE SerialLine -----------------------------
(***************************************************************************)
(* RH_Serial.cpp: frames on a serial line.  queue is the port's buffer and *)
(* chip the state of handleRx(); there is no other mode than idle, and     *)
(* what is sent does not disturb what comes in.                            *)
(***************************************************************************)
EXTENDS PacketRadio

CONSTANTS PortSize,      \* characters that fit into the port's buffer
          PayloadSize    \* characters that fit into the driver's

States == {"idle", "dle", "data", "escape", "fcs"}
Characters == {"DLE", "STX", "ETX", "octet"}

init == Started("Initialising")

\* A text with a character that has to be doubled, and one without.  A frame ends
\* with a checksum, one character here, which stands for the node it is for.
Bodies == {<<"octet">>, <<"octet", "DLE">>}
Stuffed(body) == IF body = <<"octet">> THEN body ELSE <<"octet", "DLE", "DLE">>
Frame(body) == <<"DLE", "STX">> \o Stuffed(body) \o <<"DLE", "ETX">>

\* One character is lost or one has strayed onto the line before the frame.
Without(s, i) == SubSeq(s, 1, i - 1) \o SubSeq(s, i + 1, Len(s))
Garbled(frame) == {Without(frame, i) : i \in DOMAIN frame} \cup {<<"DLE">> \o frame}

\* The message is kept when the checksum is right and it is for this node.
validateRxBuf(fcs) ==
  /\ chip' = "idle"
  /\ IF fcs = "ours" /\ buf \in Bodies THEN valid' = TRUE /\ buf' = <<"ours">>
     ELSE UNCHANGED <<valid, buf>>

\* available() handles characters until a message is complete.
handleRx ==
  /\ At("available") /\ ~valid /\ queue # <<>>
  /\ LET ch == Head(queue)
         becomes(state) == chip' = state /\ UNCHANGED <<valid, buf>>
         appendRxBuf == /\ chip' = "data" /\ UNCHANGED valid
                        /\ buf' = IF Len(buf) < PayloadSize THEN Append(buf, ch) ELSE buf
     IN \/ chip = "idle" /\ becomes(IF ch = "DLE" THEN "dle" ELSE "idle")
        \/ chip = "dle" /\ ch # "STX" /\ becomes("idle")
        \/ chip = "dle" /\ ch = "STX" /\ chip' = "data" /\ buf' = <<>> /\ valid' = FALSE
        \/ chip = "data" /\ ch = "DLE" /\ becomes("escape")
        \/ chip = "data" /\ ch # "DLE" /\ appendRxBuf
        \/ chip = "escape" /\ ch = "DLE" /\ appendRxBuf
        \/ chip = "escape" /\ ch = "ETX" /\ becomes("fcs")
        \/ chip = "escape" /\ ch \notin {"DLE", "ETX"} /\ becomes("idle")
        \/ chip = "fcs" /\ validateRxBuf(ch)
  /\ queue' = Tail(queue)
  /\ UNCHANGED <<air, done, mode, thread, history>>

available ==
  /\ At("available") /\ (valid \/ queue = <<>>)
  /\ Answer(valid)
  /\ UNCHANGED <<radio, driven, history>>

recv ==
  /\ At("copy")
  /\ HandOver /\ valid' = FALSE /\ buf' = <<>> /\ Return("any")
  /\ UNCHANGED <<radio, mode, heardOf, flags>>

\* send() writes to the port; waitPacketSent() has nothing to wait for.
send == /\ At("send") \/ At("waitSent")
        /\ Return("any")
        /\ UNCHANGED <<radio, driven, history>>

FrameStarts ==
  /\ air = "none" /\ arrived < MaxPackets
  /\ \E body \in Bodies : /\ Len(queue) + Len(Frame(body)) < PortSize
                          /\ queue' = queue \o Frame(body)
  /\ air' = "young"
  /\ UNCHANGED <<chip, done, driven, thread, history>>

FrameEnds ==
  /\ air = "old"
  /\ \E kind \in {"ours", "other"} :
       /\ queue' = Append(queue, kind) /\ seen' = seen \cup {kind}
       /\ heard' = heard + (IF kind = "ours" THEN 1 ELSE 0)
  /\ arrived' = arrived + 1 /\ air' = "none"
  /\ UNCHANGED <<chip, done, driven, thread, handed, flags>>

FrameGarbled ==
  /\ air = "none" /\ arrived < MaxPackets
  /\ \E body \in Bodies : \E frame \in Garbled(Append(Frame(body), "faulty")) :
       /\ Len(queue) + Len(frame) <= PortSize
       /\ queue' = queue \o frame
  /\ arrived' = arrived + 1 /\ seen' = seen \cup {"faulty"}
  /\ UNCHANGED <<chip, air, done, driven, thread, heard, handed, flags>>

line == FrameStarts \/ TimePasses \/ FrameEnds \/ FrameGarbled

Thread == handleRx \/ available \/ recv \/ send
Next == Calls \/ Thread \/ line
=============================================================================
