----------------------------- MODULE ValveNode ------------------------------
(***************************************************************************)
(* simple_motor.ino: the node that opens and closes the water valve.       *)
(* setup() announces itself and waits for the GPS; loop() sends a reading  *)
(* when ten seconds have passed, then looks for one received message, and  *)
(* obeys it if it starts with this device's id and a verb.                 *)
(***************************************************************************)
EXTENDS Messages

VARIABLES
  pc,                  \* where setup() or loop() is
  status, pin,         \* valveStatus and the level of ENABLE_PIN
  reading,             \* the message sendMessage() is at
  phase, slot, taken,  \* the radio; taken is the String message while it lives
  boot, applied        \* history: restarts, the last command obeyed

radio == <<phase, slot, taken>>
vars == <<pc, status, pin, reading, radio, boot, applied>>

RF95 == INSTANCE Radio WITH Message <- Packet

\* Mutant: the reading is built from the status the node started with.
MessageAtStart(kind) ==
  [kind |-> kind, status |-> "open", stamp |-> Stamped(boot, applied)]

Message(kind) == [kind |-> kind, status |-> status, stamp |-> Stamped(boot, applied)]

\* The node after power up: the valve's pin is low, which opens it.
Init == /\ pc = "setup" /\ status = "open" /\ pin = "LOW"
        /\ RF95!Init
        /\ boot = 0 /\ applied = 0
        /\ reading = NoMessage

Goto(from, to) == pc = from /\ pc' = to

\* Power is lost and comes back: nothing survives, the valve opens.
Restart == /\ pc' = "setup" /\ status' = "open" /\ pin' = "LOW"
           /\ phase' = "idle" /\ slot' = NoMessage /\ taken' = NoMessage
           /\ reading' = NoMessage
           /\ boot' = boot + 1
           /\ UNCHANGED applied

SendStartup == /\ Goto("setup", "setupSent")
               /\ reading' = Message("startup")
               /\ RF95!StartSend
               /\ UNCHANGED <<status, pin, boot, applied>>

\* waitPacketSent()
StartupSent == /\ Goto("setupSent", "setupGPS") /\ phase # "sending"
               /\ reading' = NoMessage
               /\ UNCHANGED <<status, pin, radio, boot, applied>>

\* readGPS() blocks until location and altitude have been updated.
FirstFix == /\ Goto("setupGPS", "loop")
            /\ UNCHANGED <<status, pin, reading, radio, boot, applied>>

\* millis() - lastTrans > 10000
ReadingDue == /\ Goto("loop", "readGPS")
              /\ UNCHANGED <<status, pin, reading, radio, boot, applied>>

NoReadingDue == /\ Goto("loop", "receive")
                /\ UNCHANGED <<status, pin, reading, radio, boot, applied>>

\* readSensors() builds the reading once readGPS() returns.
Fix == /\ Goto("readGPS", "send")
       /\ reading' = Message("reading")
       /\ UNCHANGED <<status, pin, radio, boot, applied>>

SendReading == /\ Goto("send", "sent")
               /\ RF95!StartSend
               /\ UNCHANGED <<status, pin, reading, boot, applied>>

ReadingSent == /\ Goto("sent", "receive") /\ phase # "sending"
               /\ reading' = NoMessage
               /\ UNCHANGED <<status, pin, radio, boot, applied>>

\* Mutant: looking for a message does not turn the receiver on.
AvailableDeaf ==
  /\ Goto("receive", IF slot = NoMessage THEN "loop" ELSE "recv")
  /\ UNCHANGED <<status, pin, reading, radio, boot, applied>>

\* available() turns the receiver on and tells whether a message is held.
Available == /\ Goto("receive", IF slot = NoMessage THEN "loop" ELSE "recv")
             /\ RF95!Listen
             /\ UNCHANGED <<status, pin, reading, boot, applied>>

Recv == /\ Goto("recv", "process")
        /\ RF95!Take
        /\ UNCHANGED <<status, pin, reading, boot, applied>>

\* Mutant: the device id is not compared.
OutcomesForAnyone(packet) ==
  IF packet.kind = "command" THEN {packet.head.verb} ELSE {"none"}

\* What processMessage() can make of a packet.  A packet cut short by the sender has no
\* terminating zero: the String runs on into what the stack held, which may complete it
\* to anything, if the cut is inside the id even of another node's.
Outcomes(packet) ==
  IF packet.kind # "command" THEN {"none"}
  ELSE IF packet.cut THEN Verbs \cup {"none"}
  ELSE IF packet.head.device = Valve THEN {packet.head.verb} ELSE {"none"}

\* Mutant: the status becomes the verb.
ObeyLiterally(verb) == /\ status' = verb
                       /\ pin' = IF verb = "SHUT_OFF" THEN "HIGH" ELSE "LOW"
                       /\ applied' = taken.head.n

Obey(verb) == /\ status' = StatusAfter[verb]
              /\ pin' = IF verb = "SHUT_OFF" THEN "HIGH" ELSE "LOW"
              /\ applied' = taken.head.n

Process == /\ Goto("process", "loop")
           /\ \E outcome \in Outcomes(taken) :
                IF outcome \in Verbs THEN Obey(outcome)
                                     ELSE UNCHANGED <<status, pin, applied>>
           /\ taken' = NoMessage
           /\ UNCHANGED <<reading, phase, slot, boot>>

Step == \/ SendStartup \/ StartupSent \/ FirstFix \/ ReadingDue \/ NoReadingDue
        \/ Fix \/ SendReading \/ ReadingSent \/ Available \/ Recv \/ Process

Labels == {"setup", "setupSent", "setupGPS", "loop", "readGPS", "send", "sent",
           "receive", "recv", "process"}

TypeOK == /\ pc \in Labels
          /\ status \in {"open", "closed"} /\ pin \in {"LOW", "HIGH"}
          /\ reading \in Reading \cup {NoMessage}
          /\ RF95!TypeOK
          /\ boot \in Nat /\ applied \in Nat
=============================================================================
