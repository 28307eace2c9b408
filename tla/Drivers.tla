------------------------------- MODULE Drivers -------------------------------
(***************************************************************************)
(* The drivers of the other packet radios, from init() on, each under the  *)
(* same program and the same air; a behaviour is one driver's.             *)
(***************************************************************************)
EXTENDS PacketRadio, FiniteSets

CONSTANTS Room,          \* packets that fit into the buffer of RH_RF24
          FifoSize,      \* packets that fit into the chip's FIFO of RH_NRF24
          PortSize,      \* characters that fit into the port's buffer of RH_Serial
          PayloadSize,   \* characters that fit into the driver's
          MaxFrames      \* bound on the frames that RH_Serial hears

ASSUME SizesAssumption == {Room, FifoSize, PortSize, PayloadSize, MaxFrames} \subseteq Nat \ {0}

VARIABLE driver

\* The CC110's chip does not tell of the end of a transmission.
A == INSTANCE RF69 WITH Interrupts <- {"packet", "sent"}
B == INSTANCE CC110 WITH Interrupts <- {"packet"}
C == INSTANCE MRF89 WITH Interrupts <- {"packet", "sent"}
D == INSTANCE RF22 WITH Interrupts <- {"packet", "sent"}
E == INSTANCE RF24 WITH Interrupts <- {"packet", "sent"}
F == INSTANCE NRF24
G == INSTANCE NRF51
H == INSTANCE ASK WITH Interrupts <- {"sent"}
I == INSTANCE SerialLine WITH MaxPackets <- MaxFrames
J == INSTANCE TCP

allVars == <<driver, vars>>

Names == {"RF69", "CC110", "MRF89", "RF22", "RF24", "NRF24", "NRF51", "ASK", "Serial", "TCP"}

\* Radios that start with the processor, or have no chip.
Together == {"NRF51", "ASK", "Serial", "TCP"}

DriversInit == /\ Init /\ driver \in Names
               /\ driver \in Together => chip = "idle" /\ queue = <<>> /\ ~done

\* init(), which may fail for ever.  Until it succeeds the chip's own steps do not
\* matter: whatever they lead to is an initial state, too.
Initialise == \/ driver = "RF69" /\ A!init
              \/ driver = "CC110" /\ B!init
              \/ driver = "MRF89" /\ C!init
              \/ driver = "RF22" /\ D!init
              \/ driver = "RF24" /\ E!init
              \/ driver = "NRF24" /\ F!init
              \/ driver = "NRF51" /\ G!init
              \/ driver = "ASK" /\ H!init
              \/ driver = "Serial" /\ I!init
              \/ driver = "TCP" /\ J!init

Work ==
  /\ pc # "init"
  /\ \/ driver = "RF69" /\ A!Next
     \/ driver = "CC110" /\ B!Next
     \/ driver = "MRF89" /\ C!Next
     \/ driver = "RF22" /\ D!Next
     \/ driver = "RF24" /\ E!Next
     \/ driver = "NRF24" /\ F!Next
     \/ driver = "NRF51" /\ G!Next
     \/ driver = "ASK" /\ H!Next
     \/ driver = "Serial" /\ I!Next
     \/ driver = "TCP" /\ J!Next

DriversNext == UNCHANGED driver /\ (Initialise \/ Work)

Spec == DriversInit /\ [][DriversNext]_allVars

Thread == \/ driver = "RF69" /\ A!Thread
          \/ driver = "CC110" /\ B!Thread
          \/ driver = "MRF89" /\ C!Thread
          \/ driver = "RF22" /\ D!Thread
          \/ driver = "RF24" /\ E!Thread
          \/ driver = "NRF24" /\ F!Thread
          \/ driver = "NRF51" /\ G!Thread
          \/ driver = "ASK" /\ H!Thread
          \/ driver = "Serial" /\ I!Thread
          \/ driver = "TCP" /\ J!Thread

Handler == /\ pc # "init"
           /\ \/ driver = "RF69" /\ A!handleInterrupt
              \/ driver = "CC110" /\ B!handleInterrupt
              \/ driver = "MRF89" /\ C!handleInterrupt
              \/ driver = "RF22" /\ D!handleInterrupt
              \/ driver = "RF24" /\ E!handleInterrupt
              \/ driver = "ASK" /\ H!transmitTimer

\* Calls return, handlers run, a transmission ends (however often the FIFO of the
\* RF22 fails), and the program calls waitPacketSent() now and then.
Fairness == /\ WF_allVars(Thread /\ UNCHANGED driver) /\ WF_allVars(Handler /\ UNCHANGED driver)
            /\ SF_allVars(TimePasses /\ UNCHANGED driver)
            /\ SF_allVars(TxEnds /\ UNCHANGED driver)
            /\ SF_allVars(CallWaitSent /\ UNCHANGED driver)

FairSpec == Spec /\ Fairness
-----------------------------------------------------------------------------
\* Every variable has its type: no buffer of a driver or chip overflows.
TypeOK ==
  /\ chip \in (IF driver = "Serial" THEN I!States ELSE {"idle", "rx", "tx", "sleep"})
  /\ air \in {"none", "young", "old"}
  /\ IF driver = "Serial" THEN /\ queue \in Seq(Kinds \cup I!Characters)
                               /\ Len(queue) <= PortSize
     ELSE queue \in Seq(Kinds) /\ (Len(queue) <= FifoSize \/ driver = "TCP")
  /\ {done, valid} \subseteq BOOLEAN
  /\ mode \in {"Initialising", "Idle", "Rx", "Tx", "Sleep"}
  /\ IF driver = "Serial" THEN buf \in Seq(Kinds \cup I!Characters) /\ Len(buf) <= PayloadSize
     ELSE buf \in Seq(Contents) /\ Len(buf) <= Room
  /\ pc \in {"init", "app", "available", "setModeRx", "result", "copy", "clear", "send", "waitSent",
             "transmit", "sleep", "sleepMode", "stuck"}

Held == valid /\ pc # "clear"
Unread == IF pc = "init" THEN 0 ELSE Cardinality({i \in DOMAIN queue : queue[i] = "ours"})

\* Ways in which a driver loses or mixes up messages.  CC110: available() answers
\* FALSE and turns the receiver on over a message that came after its test, and the
\* next packet, if only another node's, takes its place.  RF22, RF24 and NRF51:
\* send() uses the buffer of a message the program does not know of yet.  RF24:
\* another node's packet stays in the buffer, before the next; INVALID_SYNC clears it.
\* NRF24: too long a packet empties the FIFO.  Serial: what a lost or stray character
\* leaves behind takes the next frame with it.  TCP: of several packets read at once,
\* and of one held and those read after it, only the last is kept.
Excused ==
  \/ driver \in {"CC110", "TCP"} /\ relistened
  \/ driver \in {"RF22", "RF24", "NRF51"} /\ sentOver
  \/ driver = "RF24" /\ seen \cap {"other", "nosync"} # {}
  \/ driver \in {"NRF24", "Serial"} /\ "faulty" \in seen

OnTheWay == Unread + (IF Held THEN 1 ELSE 0)

\* In no other way: every packet for this node that the chip has received is handed
\* over once or is on its way, and nothing else is handed over.  NRF24 and Serial
\* only lose messages: what they hand over is as it should be all the same.
DeliveredOnce ==
  /\ Excused \/ heard = taken + OnTheWay
  /\ \/ Excused /\ driver \notin {"NRF24", "Serial"}
     \/ heard >= taken + OnTheWay /\ out \in {<<>>, <<"ours">>}

\* A driver is right about its chip between calls, from init() on and whatever a
\* restarted program found the chip doing, but in the following ways, each of them
\* against what the code is there for.  Receiver: an event may wait for the handler or
\* the next poll; the packet that NRF51 did not accept leaves the receiver off until
\* something is sent ("Bad CRC, restart the radio").  Sleep: the handler has run inside
\* sleep(), for an event that was late, and the chip is awake.  Idle: INVALID_SYNC set
\* the mode of a RF24 that goes on receiving; an event that came late into the atomic
\* block of the RF22's send() was handled over the transmission.
ModeMatchesChip ==
  /\ pc = "app" /\ mode = "Rx" /\ chip # "rx" =>
       queue # <<>> /\ (Head(queue) = "ours" \/ driver \in {"RF22", "RF24", "NRF51"})
  /\ pc = "app" /\ mode = "Sleep" =>
       chip = "sleep" \/ (late /\ driver \in {"RF22", "RF69", "MRF89", "CC110"})
  /\ pc = "app" /\ mode \in {"Initialising", "Idle"} =>
       \/ chip = "idle" \/ driver = "Serial"
       \/ driver = "RF24" /\ chip = "rx" /\ "nosync" \in seen
       \/ driver = "RF22" /\ chip = "tx" /\ late

\* "Make sure we dont interrupt an outgoing message": no call of the program stops
\* a transmission or starts another before its end.  Only init() may, after a restart;
\* and in RF22 what is done for an event that came late into the atomic block of send(),
\* in which the receiver is still on: the handler turns the receiver on over the
\* transmission, or leaves the mode at idle, so that a call does.
TxNotCut ==
  [][pc # "init" /\ chip = "tx" /\ (chip' # "tx" \/ (thread' # thread /\ air' # air)) =>
       done' \/ (driver = "RF22" /\ late)]_allVars

\* The mode does not stay at transmit, in which available() says no.
TxEndSeen == (mode = "Tx") ~> (mode # "Tx")
=============================================================================
