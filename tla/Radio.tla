------------------------------- MODULE Radio -------------------------------
(***************************************************************************)
(* What a RadioHead driver promises to the program that uses it: a half    *)
(* duplex radio with a mailbox for one message.  A message arrives only    *)
(* while the radio listens and the mailbox is empty; the arrival switches  *)
(* the radio to idle, and nothing more is heard until the program polls    *)
(* available() again; a message stays in the mailbox, whatever else the    *)
(* program does, until it is taken, and is taken once.                     *)
(*                                                                         *)
(* RF95 implements this specification (RF95!Implements), and so do RF69,   *)
(* MRF89, ASK and, within limits, CC110, RF22, RF24 and NRF51              *)
(* (DriversProofs!Mailboxes); the sketches' modules use its actions for    *)
(* the radios of the nodes.                                                *)
(***************************************************************************)
CONSTANTS Message,        \* what the mailbox can hold
          NoMessage       \* the empty mailbox, not a Message

VARIABLES phase,          \* what the radio is doing
          slot,           \* the mailbox
          taken           \* the message taken last

vars == <<phase, slot, taken>>

Phases == {"idle", "listening", "sending", "asleep"}

TypeOK == /\ phase \in Phases
          /\ slot \in Message \cup {NoMessage}
          /\ taken \in Message \cup {NoMessage}

Init == phase = "idle" /\ slot = NoMessage /\ taken = NoMessage

\* available() and recv() turn the receiver on unless a transmission is under way.
Listen == /\ phase # "sending"
          /\ phase' = "listening"
          /\ UNCHANGED <<slot, taken>>

\* A message is heard; the receiver is switched off.
Hear(m) == /\ phase = "listening" /\ slot = NoMessage
           /\ slot' = m
           /\ phase' = "idle"
           /\ UNCHANGED taken

Arrive == slot' \in Message /\ Hear(slot')

\* recv() hands the message over.
Take == /\ slot # NoMessage
        /\ taken' = slot
        /\ slot' = NoMessage
        /\ UNCHANGED phase

\* send() turns the receiver off, then the transmitter on.
StartSend == /\ phase # "sending"
             /\ phase' = "sending"
             /\ UNCHANGED <<slot, taken>>

\* The transmission has ended, or the program gave up listening or sending.
Stop == /\ phase' = "idle"
        /\ UNCHANGED <<slot, taken>>

Sleep == /\ phase' = "asleep"
         /\ UNCHANGED <<slot, taken>>

Next == Listen \/ Arrive \/ Take \/ StartSend \/ Stop \/ Sleep

Spec == Init /\ [][Next]_vars
=============================================================================
