------------------------------ MODULE Listener ------------------------------
(***************************************************************************)
(* listen.py on the Pi.  The MQTT client's thread writes every payload it  *)
(* receives to the serial port; the main loop posts every line that starts *)
(* with '{' to the API and goes on, whatever comes of it.                  *)
(***************************************************************************)
EXTENDS Messages

VARIABLES
  mqtt,                  \* messages the broker has for this client
  serialDown, serialUp,  \* the serial port, to and from the gateway
  line,                  \* the line the main loop holds
  api                    \* external: the last reading the API has accepted

vars == <<mqtt, serialDown, serialUp, line, api>>

Init == mqtt = <<>> /\ serialDown = <<>> /\ serialUp = <<>> /\ line = NoMessage

\* Mutant: of the payloads that wait the newest goes first.
OnMessageNewestFirst ==
  /\ mqtt # <<>>
  /\ serialDown' = Append(serialDown, mqtt[Len(mqtt)])
  /\ mqtt' = SubSeq(mqtt, 1, Len(mqtt) - 1)
  /\ UNCHANGED <<serialUp, line, api>>

\* on_message()
OnMessage == /\ mqtt # <<>>
             /\ serialDown' = Append(serialDown, Head(mqtt))
             /\ mqtt' = Tail(mqtt)
             /\ UNCHANGED <<serialUp, line, api>>

\* readline() blocks until there is one; what is no JSON is not posted.
ReadLine == /\ line = NoMessage /\ serialUp # <<>>
            /\ line' = IF StartsWithBrace(Head(serialUp)) THEN Head(serialUp) ELSE NoMessage
            /\ serialUp' = Tail(serialUp)
            /\ UNCHANGED <<mqtt, serialDown, api>>

\* The API keeps the valve's readings; the status a startup implies is not in it.
Post == /\ line # NoMessage
        /\ api' = IF line.kind = "reading" THEN line ELSE api
        /\ line' = NoMessage
        /\ UNCHANGED <<mqtt, serialDown, serialUp>>

\* Mutant: a reading that could not be posted is tried again after the others.
PostLater == /\ line # NoMessage
             /\ line' = NoMessage
             /\ serialUp' = Append(serialUp, line)
             /\ UNCHANGED <<mqtt, serialDown, api>>

\* "except:" prints; the reading is gone.
PostFails == /\ line # NoMessage
             /\ line' = NoMessage
             /\ UNCHANGED <<mqtt, serialDown, serialUp, api>>

Step == OnMessage \/ ReadLine \/ Post \/ PostFails

TypeOK == /\ mqtt \in Seq(Command)
          /\ line \in Packet \cup {NoMessage}
          /\ api \in Reading
=============================================================================
