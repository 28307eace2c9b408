----------------------------- MODULE ValveSystem ----------------------------
(***************************************************************************)
(* From the cloud to the valve and back: the operator publishes commands;  *)
(* listen.py passes them to the gateway, the gateway to the air, the valve *)
(* node obeys; its readings take the way back to the API.  MQTT and the    *)
(* air lose messages; other nodes' readings are heard by everybody, since  *)
(* all the sketches leave the address at its default, broadcast; the valve *)
(* node loses power.                                                       *)
(***************************************************************************)
EXTENDS Messages

CONSTANTS
  Commands,       \* what the operator may order: records of device and verb
  LineCapacity,
  MaxCommands,    \* bound on the commands published
  MaxOther,       \* bound on the packets of other nodes
  MaxRestarts     \* bound on the restarts of the valve node

ASSUME BoundsAssumption == /\ Commands \subseteq [device : Devices, verb : Verbs]
                           /\ LineCapacity \in Nat \ {0}
                           /\ MaxCommands \in Nat /\ MaxOther \in Nat
                           /\ MaxRestarts \in Nat

VARIABLES
  mqtt, serialDown, serialUp, line, api,
  gPc, gText, gPhase, gSlot, gTaken,
  vPc, vStatus, vPin, vReading, vPhase, vSlot, vTaken, vBoot, vApplied,
  published,      \* history: the commands in the order of publication
  others          \* packets of other nodes so far

L == INSTANCE Listener
G == INSTANCE Gateway WITH pc <- gPc, text <- gText, phase <- gPhase,
                           slot <- gSlot, taken <- gTaken
V == INSTANCE ValveNode WITH pc <- vPc, status <- vStatus, pin <- vPin,
       reading <- vReading, phase <- vPhase, slot <- vSlot, taken <- vTaken,
       boot <- vBoot, applied <- vApplied

listener == <<mqtt, line, api>>
serial == <<serialDown, serialUp>>
gRadio == <<gPhase, gSlot, gTaken>>
gateway == <<gPc, gText, gRadio>>
vRadio == <<vPhase, vSlot, vTaken>>
valve == <<vPc, vStatus, vPin, vReading, vRadio, vBoot, vApplied>>
environment == <<published, others>>
vars == <<listener, serial, gateway, valve, environment>>

Unknown == [kind |-> "reading", status |-> "open", stamp |-> Stamped(0, 0)]

Init == L!Init /\ G!Init /\ V!Init /\ api = Unknown /\ published = <<>> /\ others = 0

\* External: the operator, the broker (quality of service 0: a message may be lost).
Publish ==
  /\ Len(published) < MaxCommands
  /\ \E c \in Commands :
       LET command == [n |-> Len(published) + 1, device |-> c.device, verb |-> c.verb]
       IN /\ published' = Append(published, command)
          /\ mqtt' \in {mqtt, Append(mqtt, command)}
  /\ UNCHANGED <<line, api, serial, gateway, valve, others>>

Listen == L!Step /\ UNCHANGED <<gateway, valve, environment>>
GatewayStep == G!Step /\ UNCHANGED <<listener, valve, environment>>
ValveStep == V!Step /\ UNCHANGED <<listener, serial, gateway, environment>>

\* A transmission ends; the other side may have heard it if it listens.
GatewayHeard == /\ gPhase = "sending" /\ G!RF95!Stop
                /\ V!RF95!Hear(G!OnAir(gText))
                /\ UNCHANGED <<listener, serial, gPc, gText, environment,
                               vPc, vStatus, vPin, vReading, vBoot, vApplied>>

GatewayUnheard == /\ gPhase = "sending" /\ G!RF95!Stop
                  /\ UNCHANGED <<listener, serial, gPc, gText, valve, environment>>

ValveHeard == /\ vPhase = "sending" /\ V!RF95!Stop
              /\ G!RF95!Hear(vReading)
              /\ UNCHANGED <<listener, serial, gPc, gText, environment,
                             vPc, vStatus, vPin, vReading, vBoot, vApplied>>

ValveUnheard == /\ vPhase = "sending" /\ V!RF95!Stop
                /\ UNCHANGED <<listener, serial, gateway, environment,
                               vPc, vStatus, vPin, vReading, vBoot, vApplied>>

\* Another node's reading, heard by the gateway, the valve node or both.
OtherHeardByGateway == /\ others < MaxOther /\ others' = others + 1
                       /\ G!RF95!Hear(Other)
                       /\ \/ V!RF95!Hear(Other)
                          \/ UNCHANGED vRadio
                       /\ UNCHANGED <<listener, serial, gPc, gText, published,
                                      vPc, vStatus, vPin, vReading, vBoot, vApplied>>

OtherHeardByValve == /\ others < MaxOther /\ others' = others + 1
                     /\ V!RF95!Hear(Other)
                     /\ UNCHANGED <<listener, serial, gateway, published,
                                    vPc, vStatus, vPin, vReading, vBoot, vApplied>>

ValveRestart == /\ vBoot < MaxRestarts
                /\ V!Restart
                /\ UNCHANGED <<listener, serial, gateway, environment>>

Next == \/ Publish \/ Listen \/ GatewayStep \/ ValveStep
        \/ GatewayHeard \/ GatewayUnheard \/ ValveHeard \/ ValveUnheard
        \/ OtherHeardByGateway \/ OtherHeardByValve \/ ValveRestart

Spec == Init /\ [][Next]_vars

Lifted(A) == A /\ UNCHANGED <<listener, serial, gateway, environment>>

\* Every program runs; transmissions end; a reading is due and the GPS gets a
\* fix again and again; not every transmission nor every POST fails.
Fairness ==
  /\ WF_vars(L!OnMessage /\ UNCHANGED <<gateway, valve, environment>>)
  /\ WF_vars(L!ReadLine /\ UNCHANGED <<gateway, valve, environment>>)
  /\ SF_vars(L!Post /\ UNCHANGED <<gateway, valve, environment>>)
  /\ WF_vars(GatewayStep) /\ WF_vars(ValveStep)
  /\ SF_vars(Lifted(V!ReadingDue))
  /\ WF_vars(GatewayHeard \/ GatewayUnheard) /\ WF_vars(ValveHeard \/ ValveUnheard)
  /\ SF_vars(ValveHeard)

FairSpec == Spec /\ Fairness
-----------------------------------------------------------------------------
(* Properties. *)

\* Every variable has its type.
TypeOK == /\ L!TypeOK /\ G!TypeOK /\ V!TypeOK
          /\ published \in Seq(Command)
          /\ others \in 0 .. MaxOther

\* The valve node obeys commands in the order in which they were published:
\* merging, losing and holding them back on the way never makes an older
\* command overtake a newer one.
CommandsObeyedInOrder == [][vApplied' # vApplied => vApplied' > vApplied]_vars

\* The valve moves only when its node restarts or obeys a command that was
\* published for it, and then to the position that command orders, although
\* the command may have been merged with others on the way.
ValveMovesAsOrdered ==
  [][vPin' # vPin /\ vBoot' = vBoot =>
       /\ vApplied' \in DOMAIN published
       /\ published[vApplied'].device = Valve
       /\ StatusAfter[published[vApplied'].verb] = vStatus'
       /\ vPin' = IF vStatus' = "closed" THEN "HIGH" ELSE "LOW"]_vars

\* The API never replaces what it knows by an older reading.
ApiNeverGoesBack == [][NotAfter(api.stamp, api'.stamp)]_vars

\* Once the operator, the other nodes and the power are quiet, the API comes
\* to know the position of the valve and keeps knowing it.
ApiComesToKnow == <>[](api.status = vStatus)

\* Neither radio stays deaf: it listens again or holds a message to be read.
GatewayListensAgain == []<>(gPhase = "listening")
ValveListensAgain == []<>(vPhase = "listening")

\* "If the message is too long for the underlying radio technology, send()
\* will return false and will not send the message."
LongTextRefused ==
  [][gPhase # "sending" /\ gPhase' = "sending" => G!Bytes(gText) <= MaxMessageLen]_vars
=============================================================================
