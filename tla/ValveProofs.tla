----------------------------- MODULE ValveProofs -----------------------------
(***************************************************************************)
(* What holds of the valve, the gateway and the Pi for any number of       *)
(* commands, devices, other packets and restarts.  Commands go one way and *)
(* readings the other; two invariants say that on either way nothing       *)
(* overtakes anything, whatever is lost, merged, held or misread.          *)
(***************************************************************************)
EXTENDS ValveSystem, TLAPS

\* Where the programs are, what they hold there, and that commands reach only the
\* valve node and readings only the gateway.
Uplink == Reading \cup {Other}
Control ==
  /\ gPhase = "sending" => gPc = "sent"
  /\ gPc = "send" \/ gPhase = "sending" => gText # <<>>
  /\ gPc = "recv" => gSlot # NoMessage
  /\ gPc = "println" => gTaken # NoMessage
  /\ {gSlot, gTaken, line} \subseteq Uplink \cup {NoMessage} /\ serialUp \in Seq(Uplink)
  /\ vPc = "recv" => vSlot # NoMessage
  /\ vPc = "process" => vTaken # NoMessage
  /\ vPhase = "sending" => vPc \in {"setupSent", "sent"}
  /\ vPc \in {"setupSent", "send", "sent"} => vReading \in Reading

\* Of the commands on their way.
Issued(c) == c.n \in DOMAIN published /\ published[c.n] = c
AllIssued(s) == \A i \in DOMAIN s : Issued(s[i])
Later(n, s) == \A i \in DOMAIN s : n < s[i].n
Before(s, t) == \A i \in DOMAIN s : Later(s[i].n, t)
Increasing(s) == \A i, j \in DOMAIN s : i < j => s[i].n < s[j].n

\* The number of the last command that has reached the valve node.
Number(packet, n) == IF packet \in CommandPacket THEN packet.head.n ELSE n
Reached == Number(vSlot, Number(vTaken, vApplied))

\* The gateway has text that is still to be heard.
Live == gPc = "send" \/ gPhase = "sending"

Order ==
  /\ vApplied <= Len(published)
  /\ vTaken \in CommandPacket => Issued(vTaken.head) /\ vApplied < vTaken.head.n
  /\ vSlot \in CommandPacket => /\ Issued(vSlot.head)
                                /\ Number(vTaken, vApplied) < vSlot.head.n
  /\ AllIssued(gText) /\ AllIssued(serialDown) /\ AllIssued(mqtt)
  /\ Live => Later(Reached, gText) /\ Before(gText, serialDown) /\ Before(gText, mqtt)
  /\ Later(Reached, serialDown) /\ Later(Reached, mqtt)
  /\ Before(serialDown, mqtt) /\ Increasing(mqtt)

\* No text is longer than everything published; and if everything fits into a length
\* octet, no command is cut.
Short == /\ Len(gText) + Len(serialDown) + Len(mqtt) <= Len(published)
         /\ Len(published) <= MaxCommands
         /\ \A p \in {vSlot, vTaken} : p \in CommandPacket => ~p.cut

\* Of the readings on their way: the youngest the API may already have, and the
\* oldest that is still behind the port.
StampOf(packet, stamp) == IF packet \in Reading THEN packet.stamp ELSE stamp
Present == Stamped(vBoot, vApplied)
Built == StampOf(vReading, Present)
InAir == StampOf(gSlot, Built)
Oldest == StampOf(gTaken, InAir)
Youngest == StampOf(line, api.stamp)

Stamps ==
  /\ NotAfter(Built, Present) /\ NotAfter(InAir, Built) /\ NotAfter(Oldest, InAir)
  /\ NotAfter(api.stamp, Youngest) /\ NotAfter(Youngest, Oldest)
  /\ \A i \in DOMAIN serialUp : serialUp[i] \in Reading =>
       /\ NotAfter(Youngest, serialUp[i].stamp) /\ NotAfter(serialUp[i].stamp, Oldest)
       /\ \A j \in DOMAIN serialUp : i < j /\ serialUp[j] \in Reading =>
            NotAfter(serialUp[i].stamp, serialUp[j].stamp)
-----------------------------------------------------------------------------
\* Packets of different kinds are different, and none of them is NoMessage.
LEMMA Kinds ==
  /\ CommandPacket \subseteq Packet /\ Uplink \subseteq Packet /\ Reading \subseteq Uplink
  /\ Other \in Uplink /\ Other \notin Reading
  /\ \A p \in CommandPacket : p \notin Uplink /\ p.head \in Command /\ p.kind = "command"
  /\ \A p \in Uplink : p \notin CommandPacket /\ p.kind # "command"
  /\ \A p \in Uplink : p.kind = "reading" => p \in Reading
  /\ \A p \in Reading : p.stamp \in Stamp
  /\ NoMessage \notin Packet
BY NoMessageAssumption DEF Packet, CommandPacket, Reading, Other, Uplink

\* The instances speak of the same texts.
LEMMA SameTexts ==
  /\ L!Command = Command /\ G!Command = Command
  /\ L!Packet = Packet /\ G!Packet = Packet /\ V!Packet = Packet
  /\ L!Reading = Reading /\ V!Reading = Reading
  /\ V!Verbs = Verbs /\ V!StatusAfter = StatusAfter
<1>1. L!Command = Command /\ G!Command = Command /\ V!Command = Command
  BY DEF Command, L!Command, G!Command, V!Command, Verbs, L!Verbs, G!Verbs, V!Verbs
<1>2. /\ L!CommandPacket = CommandPacket /\ G!CommandPacket = CommandPacket
      /\ V!CommandPacket = CommandPacket
  BY <1>1 DEF CommandPacket, L!CommandPacket, G!CommandPacket, V!CommandPacket
<1>3. L!Reading = Reading /\ G!Reading = Reading /\ V!Reading = Reading
  BY DEF Reading, L!Reading, G!Reading, V!Reading, Stamp, L!Stamp, G!Stamp, V!Stamp
<1>4. L!Packet = Packet /\ G!Packet = Packet /\ V!Packet = Packet
  BY <1>2, <1>3 DEF Packet, L!Packet, G!Packet, V!Packet, Other, L!Other, G!Other, V!Other
<1>5. V!Verbs = Verbs /\ V!StatusAfter = StatusAfter
  BY DEF Verbs, V!Verbs, StatusAfter, V!StatusAfter
<1> QED
  BY <1>1, <1>3, <1>4, <1>5

LEMMA Packets ==
  ASSUME TypeOK
  PROVE  /\ gText # <<>> => G!OnAir(gText) \in CommandPacket /\ G!OnAir(gText).head = Head(gText)
         /\ V!Message("reading") \in Reading /\ V!Message("startup") \in Reading
         /\ V!Message("reading").stamp = Present /\ V!Message("startup").stamp = Present
<1>1. gText \in Seq(Command) /\ vStatus \in {"open", "closed"} /\ vBoot \in Nat /\ vApplied \in Nat
  BY SameTexts DEF TypeOK, G!TypeOK, V!TypeOK
<1>2. gText # <<>> => Head(gText) \in Command
  BY <1>1
<1>3. gText # <<>> => G!OnAir(gText) \in CommandPacket /\ G!OnAir(gText).head = Head(gText)
  BY <1>2 DEF G!OnAir, CommandPacket
<1>4. V!Message("reading") \in Reading /\ V!Message("startup") \in Reading
  BY <1>1 DEF V!Message, V!Stamped, Reading, Stamp
<1>5. V!Message("reading").stamp = Present /\ V!Message("startup").stamp = Present
  BY DEF V!Message, V!Stamped, Present, Stamped
<1> QED
  BY <1>3, <1>4, <1>5

\* The types, as the steps use them.
Types ==
  /\ mqtt \in Seq(Command) /\ line \in Packet \cup {NoMessage} /\ api \in Reading
  /\ gPc \in {"receive", "recv", "println", "readString", "send", "sent"}
  /\ gText \in Seq(Command) /\ serialDown \in Seq(Command) /\ serialUp \in Seq(Packet)
  /\ {gPhase, vPhase} \subseteq {"idle", "listening", "sending", "asleep"}
  /\ {gSlot, gTaken, vSlot, vTaken} \subseteq Packet \cup {NoMessage}
  /\ vPc \in V!Labels /\ vStatus \in {"open", "closed"} /\ vPin \in {"LOW", "HIGH"}
  /\ vReading \in Reading \cup {NoMessage} /\ vBoot \in Nat /\ vApplied \in Nat
  /\ published \in Seq(Command) /\ others \in 0 .. MaxOther

LEMMA TypesAre == TypeOK <=> Types
BY SameTexts DEF TypeOK, Types, L!TypeOK, G!TypeOK, V!TypeOK, G!RF95!TypeOK, V!RF95!TypeOK,
                 G!RF95!Phases, V!RF95!Phases

LEMMA InitTypes == Init => TypeOK /\ Control
<1> SUFFICES ASSUME Init PROVE Types /\ Control
  BY TypesAre
<1>1. Unknown \in Reading
  BY DEF Unknown, Reading, Stamped, Stamp
<1>2. Types
  BY <1>1, BoundsAssumption DEF Init, L!Init, G!Init, V!Init, G!RF95!Init, V!RF95!Init, Types, V!Labels
<1>3. Control
  BY DEF Init, L!Init, G!Init, V!Init, G!RF95!Init, V!RF95!Init, Control
<1> QED
  BY <1>2, <1>3

\* The Pi and the operator.
LEMMA ListenTypes == Types /\ Control /\ Listen => Types' /\ Control'
<1> SUFFICES ASSUME Types, Control, Listen PROVE Types' /\ Control'
  OBVIOUS
<1> USE DEF Types, Control, listener, serial, gateway, gRadio, valve, vRadio, environment
<1>1. CASE L!OnMessage
  BY <1>1 DEF Listen, L!OnMessage
<1>2. CASE L!ReadLine
  BY <1>2 DEF Listen, L!ReadLine
<1>3. CASE L!Post
  BY <1>3, Kinds DEF Listen, L!Post
<1>4. CASE L!PostFails
  BY <1>4 DEF Listen, L!PostFails
<1> QED
  BY <1>1, <1>2, <1>3, <1>4 DEF Listen, L!Step

LEMMA GatewayTypes == Types /\ Control /\ GatewayStep => Types' /\ Control'
<1> SUFFICES ASSUME Types, Control, GatewayStep PROVE Types' /\ Control'
  OBVIOUS
<1> USE DEF Types, Control, listener, serial, gateway, gRadio, valve, vRadio, environment,
            GatewayStep, G!Goto, G!radio, G!serial
<1>1. CASE G!Available
  BY <1>1 DEF G!Available, G!RF95!Listen
<1>2. CASE G!Recv
  BY <1>2 DEF G!Recv, G!RF95!Take
<1>3. CASE G!Println
  <2>1. gTaken \in Uplink /\ serialUp' \in Seq(Uplink) /\ serialUp' \in Seq(Packet)
    BY <1>3, Kinds DEF G!Println
  <2> QED
    BY <1>3, <2>1 DEF G!Println
<1>4. CASE G!ReadString
  BY <1>4 DEF G!ReadString
<1>5. CASE G!Send
  BY <1>5 DEF G!Send, G!RF95!StartSend
<1>6. CASE G!SendRefused
  BY <1>6 DEF G!SendRefused
<1>7. CASE G!PacketSent
  BY <1>7 DEF G!PacketSent
<1> QED
  BY <1>1, <1>2, <1>3, <1>4, <1>5, <1>6, <1>7 DEF G!Step

\* processMessage() obeys or it does not.
LEMMA Processed ==
  ASSUME Types, Control, V!Process
  PROVE  /\ vTaken \in Packet /\ vPc = "process" /\ vPc' = "loop" /\ vTaken' = NoMessage
         /\ UNCHANGED <<vReading, vPhase, vSlot, vBoot>>
         /\ \/ /\ vTaken \in CommandPacket /\ (vTaken.cut \/ vTaken.head.device = Valve)
               /\ vApplied' = vTaken.head.n
               /\ \E verb \in Verbs : /\ ~vTaken.cut => verb = vTaken.head.verb
                                      /\ vStatus' = StatusAfter[verb]
                                      /\ vPin' = IF verb = "SHUT_OFF" THEN "HIGH" ELSE "LOW"
            \/ UNCHANGED <<vStatus, vPin, vApplied>>
<1>1. /\ vPc = "process" /\ vPc' = "loop" /\ vTaken' = NoMessage
      /\ UNCHANGED <<vReading, vPhase, vSlot, vBoot>>
  BY DEF V!Process, V!Goto
<1>2. vTaken \in Packet
  BY <1>1 DEF Types, Control
<1>3. PICK outcome \in V!Outcomes(vTaken) : IF outcome \in Verbs THEN V!Obey(outcome)
                                            ELSE UNCHANGED <<vStatus, vPin, vApplied>>
  BY SameTexts DEF V!Process
<1>4. CASE outcome \in Verbs
  <2>1. /\ vApplied' = vTaken.head.n /\ vStatus' = StatusAfter[outcome]
        /\ vPin' = IF outcome = "SHUT_OFF" THEN "HIGH" ELSE "LOW"
    BY <1>3, <1>4, SameTexts DEF V!Obey
  <2>2. vTaken.kind = "command" /\ (vTaken.cut \/ vTaken.head.device = Valve)
    BY <1>3, <1>4 DEF V!Outcomes, Verbs
  <2>3. vTaken \in CommandPacket
    BY <1>2, <2>2, Kinds DEF Packet, Uplink
  <2>4. ~vTaken.cut => outcome = vTaken.head.verb
    BY <1>3, <2>2 DEF V!Outcomes
  <2> QED
    BY <1>1, <1>2, <1>4, <2>1, <2>2, <2>3, <2>4
<1>5. CASE outcome \notin Verbs
  BY <1>1, <1>2, <1>3, <1>5
<1> QED
  BY <1>4, <1>5

LEMMA ValveTypes == Types /\ Control /\ ValveStep => Types' /\ Control'
<1> SUFFICES ASSUME Types, Control, ValveStep PROVE Types' /\ Control'
  OBVIOUS
<1>a. V!Message("reading") \in Reading /\ V!Message("startup") \in Reading
  BY Packets, TypesAre
<1> USE DEF Types, Control, listener, serial, gateway, gRadio, valve, vRadio, environment,
            ValveStep, V!Goto, V!radio, V!Labels
<1>1. CASE V!SendStartup
  BY <1>1, <1>a DEF V!SendStartup, V!RF95!StartSend
<1>2. CASE V!StartupSent
  BY <1>2 DEF V!StartupSent
<1>3. CASE V!FirstFix
  BY <1>3 DEF V!FirstFix
<1>4. CASE V!ReadingDue
  BY <1>4 DEF V!ReadingDue
<1>5. CASE V!NoReadingDue
  BY <1>5 DEF V!NoReadingDue
<1>6. CASE V!Fix
  BY <1>6, <1>a DEF V!Fix
<1>7. CASE V!SendReading
  BY <1>7 DEF V!SendReading, V!RF95!StartSend
<1>8. CASE V!ReadingSent
  BY <1>8 DEF V!ReadingSent
<1>9. CASE V!Available
  BY <1>9 DEF V!Available, V!RF95!Listen
<1>10. CASE V!Recv
  BY <1>10 DEF V!Recv, V!RF95!Take
<1>11. CASE V!Process
  <2>1. vTaken \in CommandPacket => vTaken.head.n \in Nat
    BY Kinds DEF Command
  <2>2. vStatus' \in {"open", "closed"} /\ vPin' \in {"LOW", "HIGH"} /\ vApplied' \in Nat
    BY <1>11, <2>1, Processed DEF StatusAfter, Verbs
  <2> QED
    BY <1>11, <2>2, Processed
<1> QED
  BY <1>1, <1>2, <1>3, <1>4, <1>5, <1>6, <1>7, <1>8, <1>9, <1>10, <1>11 DEF V!Step

\* The operator: a command of its own number, in the broker's hands or lost.
LEMMA Published ==
  ASSUME Types, Publish
  PROVE  \E c \in Command : /\ c.n = Len(published) + 1 /\ published' = Append(published, c)
                            /\ mqtt' = mqtt \/ mqtt' = Append(mqtt, c)
<1>1. PICK k \in Commands :
        /\ published' = Append(published, [n |-> Len(published) + 1, device |-> k.device,
                                           verb |-> k.verb])
        /\ mqtt' \in {mqtt, Append(mqtt, [n |-> Len(published) + 1, device |-> k.device,
                                          verb |-> k.verb])}
  BY DEF Publish
<1> DEFINE c == [n |-> Len(published) + 1, device |-> k.device, verb |-> k.verb]
<1>2. Len(published) + 1 \in Nat
  BY DEF Types
<1>3. c \in Command /\ c.n = Len(published) + 1
  BY <1>2, BoundsAssumption DEF Command
<1> HIDE DEF c
<1>4. published' = Append(published, c) /\ mqtt' \in {mqtt, Append(mqtt, c)}
  BY <1>1 DEF c
<1> QED
  BY <1>3, <1>4

LEMMA AirTypes ==
  ASSUME Types, Control,
         Publish \/ GatewayHeard \/ GatewayUnheard \/ ValveHeard \/ ValveUnheard
           \/ OtherHeardByGateway \/ OtherHeardByValve \/ ValveRestart
  PROVE  Types' /\ Control'
<1> USE DEF Types, Control, listener, serial, gateway, gRadio, valve, vRadio, environment
<1>1. CASE Publish
  <2>1. published' \in Seq(Command) /\ mqtt' \in Seq(Command)
    <3>1. PICK c \in Command : /\ published' = Append(published, c)
                               /\ mqtt' = mqtt \/ mqtt' = Append(mqtt, c)
      BY <1>1, Published
    <3>2. Append(published, c) \in Seq(Command) /\ Append(mqtt, c) \in Seq(Command)
      BY DEF Types
    <3> QED
      BY <3>1, <3>2
  <2> QED
    BY <1>1, <2>1 DEF Publish
<1>2. CASE GatewayHeard
  <2>1. G!OnAir(gText) \in Packet
    BY <1>2, Packets, TypesAre, Kinds DEF GatewayHeard
  <2> QED
    BY <1>2, <2>1 DEF GatewayHeard, G!RF95!Stop, V!RF95!Hear
<1>3. CASE GatewayUnheard
  BY <1>3 DEF GatewayUnheard, G!RF95!Stop
<1>4. CASE ValveHeard
  <2>1. vReading \in Reading /\ vReading \in Uplink /\ vReading \in Packet
    BY <1>4, Kinds DEF ValveHeard
  <2> QED
    BY <1>4, <2>1, Kinds DEF ValveHeard, V!RF95!Stop, G!RF95!Hear
<1>5. CASE ValveUnheard
  BY <1>5 DEF ValveUnheard, V!RF95!Stop
<1>6. CASE OtherHeardByGateway
  BY <1>6, Kinds, BoundsAssumption DEF OtherHeardByGateway, G!RF95!Hear, V!RF95!Hear
<1>7. CASE OtherHeardByValve
  BY <1>7, Kinds, BoundsAssumption DEF OtherHeardByValve, V!RF95!Hear
<1>8. CASE ValveRestart
  BY <1>8 DEF ValveRestart, V!Restart, V!Labels
<1> QED
  BY <1>1, <1>2, <1>3, <1>4, <1>5, <1>6, <1>7, <1>8

LEMMA StepTypes == TypeOK /\ Control /\ [Next]_vars => TypeOK' /\ Control'
<1>a. (TypeOK <=> Types) /\ (TypeOK' <=> Types')
  BY TypesAre, PTL
<1> SUFFICES ASSUME Types, Control, [Next]_vars PROVE Types' /\ Control'
  BY <1>a
<1>1. CASE UNCHANGED vars
  BY <1>1 DEF vars, listener, serial, gateway, gRadio, valve, vRadio, environment, Types, Control
<1>2. CASE Next
  BY <1>2, ListenTypes, GatewayTypes, ValveTypes, AirTypes DEF Next
<1> QED
  BY <1>1, <1>2

LEMMA AlwaysTyped == Spec => [](TypeOK /\ Control)
BY InitTypes, StepTypes, PTL DEF Spec

-----------------------------------------------------------------------------
(* Commands. *)

\* How sequences of commands grow and shrink.
LEMMA Appended ==
  ASSUME NEW s \in Seq(Command), NEW c \in Command
  PROVE  /\ Append(s, c) \in Seq(Command) /\ Len(Append(s, c)) = Len(s) + 1
         /\ \A i \in DOMAIN Append(s, c) : \/ i \in DOMAIN s /\ Append(s, c)[i] = s[i]
                                           \/ i = Len(s) + 1 /\ Append(s, c)[i] = c
         /\ \A i \in DOMAIN s : i \in DOMAIN Append(s, c) /\ Append(s, c)[i] = s[i]
         /\ \A i \in DOMAIN s : i < Len(s) + 1
         /\ Append(s, c)[Len(s) + 1] = c /\ Len(s) + 1 \in DOMAIN Append(s, c)
OBVIOUS

LEMMA LaterAppended ==
  ASSUME NEW n, NEW s \in Seq(Command), NEW c \in Command, Later(n, s), n < c.n
  PROVE  Later(n, Append(s, c))
BY Appended DEF Later

LEMMA IncreasingAppended ==
  ASSUME NEW s \in Seq(Command), NEW c \in Command, Increasing(s),
         \A i \in DOMAIN s : s[i].n < c.n
  PROVE  Increasing(Append(s, c))
BY Appended DEF Increasing

LEMMA Numbered ==
  ASSUME NEW s \in Seq(Command)
  PROVE  \A i \in DOMAIN s : s[i] \in Command /\ s[i].n \in Nat
<1>1. \A i \in DOMAIN s : s[i] \in Command
  OBVIOUS
<1>2. \A c \in Command : c.n \in Nat
  BY DEF Command
<1> QED
  BY <1>1, <1>2

LEMMA Shortened ==
  ASSUME NEW s \in Seq(Command), s # <<>>
  PROVE  /\ Tail(s) \in Seq(Command) /\ Len(Tail(s)) = Len(s) - 1 /\ Head(s) \in Command
         /\ 1 \in DOMAIN s /\ Head(s) = s[1]
         /\ \A i \in DOMAIN Tail(s) : /\ i \in Nat /\ i + 1 \in DOMAIN s /\ 1 < i + 1
                                      /\ Tail(s)[i] = s[i + 1]
OBVIOUS

\* What has reached the valve node has been published.
LEMMA ReachedIsIssued ==
  ASSUME Types, Order
  PROVE  /\ vTaken \in CommandPacket => vTaken.head.n \in Nat
         /\ vSlot \in CommandPacket => vSlot.head.n \in Nat
         /\ Number(vTaken, vApplied) \in Nat /\ vApplied <= Number(vTaken, vApplied)
         /\ Reached \in Nat /\ Number(vTaken, vApplied) <= Reached
         /\ Reached <= Len(published)
<1>1. /\ vTaken \in CommandPacket => vTaken.head.n \in Nat
      /\ vSlot \in CommandPacket => vSlot.head.n \in Nat
  BY Kinds DEF Command
<1>2. vTaken \in CommandPacket => vApplied < vTaken.head.n /\ vTaken.head.n <= Len(published)
  BY DEF Order, Issued, Types
<1>3. vSlot \in CommandPacket => /\ Number(vTaken, vApplied) < vSlot.head.n
                                 /\ vSlot.head.n <= Len(published)
  BY DEF Order, Issued, Types
<1>4. /\ Number(vTaken, vApplied) \in Nat /\ vApplied <= Number(vTaken, vApplied)
      /\ Number(vTaken, vApplied) <= Len(published)
  BY <1>1, <1>2 DEF Number, Types, Order
<1>5. CASE vSlot \in CommandPacket
  BY <1>1, <1>3, <1>4, <1>5 DEF Reached, Number
<1>6. CASE vSlot \notin CommandPacket
  BY <1>1, <1>4, <1>6 DEF Reached, Number
<1> QED
  BY <1>5, <1>6

\* What concerns the valve's side alone, and brings nothing further.
LEMMA ValveSide ==
  ASSUME Types, Order, UNCHANGED <<gText, gPc, gPhase, serialDown, mqtt, published>>,
         Reached' \in Nat, Reached' <= Reached, vApplied' <= Len(published),
         vTaken' \in CommandPacket => Issued(vTaken'.head) /\ vApplied' < vTaken'.head.n,
         vSlot' \in CommandPacket => /\ Issued(vSlot'.head)
                                     /\ Number(vTaken', vApplied') < vSlot'.head.n
  PROVE  Order'
<1>1. Reached \in Nat
  BY ReachedIsIssued
<1>2. ASSUME NEW s \in Seq(Command), Later(Reached, s)
      PROVE  \A i \in DOMAIN s : Reached' < s[i].n
  <2>1. \A i \in DOMAIN s : s[i].n \in Nat
    BY Numbered
  <2> HIDE DEF Reached
  <2> QED
    BY <1>1, <1>2, <2>1 DEF Later
<1>3. Live' = Live
  BY DEF Live
<1>4. /\ \A i \in DOMAIN serialDown : Reached' < serialDown[i].n
      /\ \A i \in DOMAIN mqtt : Reached' < mqtt[i].n
      /\ Live => \A i \in DOMAIN gText : Reached' < gText[i].n
  BY <1>2 DEF Types, Order
<1> HIDE DEF Reached
<1> QED
  BY <1>3, <1>4 DEF Order, Later, Before, Increasing, AllIssued, Issued, Number

LEMMA PublishOrder == Types /\ Order /\ Publish => Order'
<1> SUFFICES ASSUME Types, Order, Publish PROVE Order'
  OBVIOUS
<1>1. PICK c \in Command : /\ c.n = Len(published) + 1 /\ published' = Append(published, c)
                           /\ mqtt' = mqtt \/ mqtt' = Append(mqtt, c)
  BY Published
<1>2. /\ UNCHANGED <<gText, gPc, gPhase, serialDown, vApplied, vTaken, vSlot>>
      /\ Reached' = Reached /\ Live' = Live
  BY DEF Publish, serial, gateway, gRadio, valve, vRadio, Reached, Number, Live
<1>3. published \in Seq(Command) /\ Len(published) \in Nat /\ Len(published') = Len(published) + 1
  BY <1>1, Appended DEF Types
<1>4. \A d : Issued(d) => /\ d.n < c.n
                          /\ d.n \in DOMAIN published' /\ published'[d.n] = d
  BY <1>1, <1>3, Appended DEF Issued
<1>5. c.n \in DOMAIN published' /\ published'[c.n] = c
  BY <1>1, <1>3, Appended
<1>6. AllIssued(gText)' /\ AllIssued(serialDown)'
  BY <1>2, <1>4 DEF Order, AllIssued, Issued
<1>7. /\ vTaken \in CommandPacket => Issued(vTaken.head)'
      /\ vSlot \in CommandPacket => Issued(vSlot.head)'
  BY <1>2, <1>4 DEF Order, Issued
<1>8. CASE mqtt' = mqtt
  <2>1. AllIssued(mqtt)'
    BY <1>4, <1>8 DEF Order, AllIssued, Issued
  <2> HIDE DEF Reached
  <2> QED
    BY <1>2, <1>3, <1>6, <1>7, <1>8, <2>1 DEF Order, Later, Before, Increasing, Number, Types
<1>9. CASE mqtt' = Append(mqtt, c)
  <2>1. mqtt \in Seq(Command) /\ Reached < c.n
    BY <1>1, ReachedIsIssued, <1>3 DEF Types
  <2>2. AllIssued(mqtt)'
    BY <1>4, <1>5, <1>9, <2>1, Appended DEF Order, AllIssued, Issued
  <2>3. Later(Reached, mqtt')
    BY <1>9, <2>1, LaterAppended DEF Order
  <2>4. Before(serialDown, mqtt') /\ (Live => Before(gText, mqtt'))
    BY <1>4, <1>9, <2>1, LaterAppended DEF Order, Before, AllIssued
  <2>5. Increasing(mqtt')
    BY <1>4, <1>9, <2>1, IncreasingAppended DEF Order, AllIssued
  <2> HIDE DEF Reached
  <2> QED
    BY <1>2, <1>3, <1>6, <1>7, <2>2, <2>3, <2>4, <2>5 DEF Order, Later, Before, Increasing, Number, Types
<1> QED
  BY <1>1, <1>8, <1>9

LEMMA ListenOrder == Types /\ Order /\ Listen => Order'
<1> SUFFICES ASSUME Types, Order, Listen PROVE Order'
  OBVIOUS
<1>1. /\ UNCHANGED <<gText, gPc, gPhase, vApplied, vTaken, vSlot, published>>
      /\ Reached' = Reached /\ Live' = Live
  BY DEF Listen, gateway, gRadio, valve, vRadio, environment, Reached, Number, Live
<1>2. CASE L!OnMessage
  <2>1. /\ mqtt \in Seq(Command) /\ serialDown \in Seq(Command) /\ mqtt # <<>>
        /\ mqtt' = Tail(mqtt) /\ serialDown' = Append(serialDown, Head(mqtt))
    BY <1>2 DEF L!OnMessage, Types
  <2> DEFINE c == Head(mqtt)
  <2>2. c \in Command /\ c = mqtt[1] /\ 1 \in DOMAIN mqtt
    BY <2>1, Shortened
  <2> HIDE DEF c
  <2>3. Issued(c) /\ Reached < c.n /\ Increasing(mqtt)
    BY <2>2 DEF Order, AllIssued, Later
  <2>4. \A i \in DOMAIN mqtt' : /\ i \in Nat /\ i + 1 \in DOMAIN mqtt /\ 1 < i + 1
                                /\ mqtt'[i] = mqtt[i + 1]
    BY <2>1, Shortened
  <2>5. AllIssued(mqtt)' /\ Later(Reached, mqtt') /\ Later(c.n, mqtt') /\ Increasing(mqtt')
    <3>1. AllIssued(mqtt)'
      BY <1>1, <2>4 DEF Order, AllIssued, Issued
    <3>2. Later(Reached, mqtt')
      BY <2>4 DEF Order, Later
    <3>3. Later(c.n, mqtt')
      BY <2>2, <2>3, <2>4 DEF Later, Increasing
    <3>4. Increasing(mqtt')
      BY <2>3, <2>4 DEF Increasing
    <3> QED
      BY <3>1, <3>2, <3>3, <3>4
  <2>6. \A s : Before(s, mqtt) => Before(s, mqtt') /\ \A i \in DOMAIN s : s[i].n < c.n
    BY <2>2, <2>4 DEF Before, Later
  <2>7. AllIssued(serialDown)' /\ Later(Reached, serialDown')
    <3>1. serialDown' = Append(serialDown, c)
      BY <2>1 DEF c
    <3>2. AllIssued(serialDown)'
      BY <1>1, <2>1, <2>2, <2>3, <3>1, Appended DEF Order, AllIssued, Issued
    <3>3. Later(Reached, serialDown')
      BY <2>1, <2>2, <2>3, <3>1, LaterAppended DEF Order
    <3> QED
      BY <3>2, <3>3
  <2>8. Before(serialDown', mqtt')
    <3>1. serialDown' = Append(serialDown, c)
      BY <2>1 DEF c
    <3>2. Before(serialDown, mqtt')
      BY <2>6 DEF Order
    <3> QED
      BY <2>1, <2>2, <2>5, <3>1, <3>2, Appended DEF Before
  <2>9. Live => Before(gText, serialDown') /\ Before(gText, mqtt')
    <3> SUFFICES ASSUME Live PROVE Before(gText, serialDown') /\ Before(gText, mqtt')
      OBVIOUS
    <3>1. serialDown' = Append(serialDown, c)
      BY <2>1 DEF c
    <3>2. Before(gText, mqtt') /\ \A i \in DOMAIN gText : gText[i].n < c.n
      BY <2>6 DEF Order
    <3>3. Before(gText, serialDown)
      BY DEF Order
    <3> QED
      BY <2>1, <2>2, <3>1, <3>2, <3>3, LaterAppended DEF Before
  <2> HIDE DEF Reached
  <2> QED
    BY <1>1, <2>5, <2>7, <2>8, <2>9 DEF Order, Later, Before, AllIssued, Issued, Number, Increasing
<1>3. CASE UNCHANGED <<mqtt, serialDown>>
  BY <1>1, <1>3 DEF Order, Later, Before, AllIssued, Issued, Number, Increasing
<1> QED
  BY <1>2, <1>3 DEF Listen, L!Step, L!ReadLine, L!Post, L!PostFails

LEMMA GatewayOrder == Types /\ Control /\ Order /\ GatewayStep => Order'
<1> SUFFICES ASSUME Types, Control, Order, GatewayStep PROVE Order'
  OBVIOUS
<1>1. UNCHANGED <<vApplied, vTaken, vSlot, published, mqtt>> /\ Reached' = Reached
  BY DEF GatewayStep, listener, valve, vRadio, environment, Reached, Number
<1> USE DEF G!Goto, G!radio, G!serial
<1>2. CASE G!ReadString
  <2>1. /\ gPhase # "sending" /\ gPhase' = gPhase
        /\ gText' = serialDown /\ serialDown' = <<>>
    BY <1>2 DEF G!ReadString, Control
  <2> HIDE DEF Reached
  <2> QED
    BY <1>1, <2>1 DEF Order, Later, Before, AllIssued, Issued, Number, Increasing
<1>3. CASE G!SendRefused \/ G!PacketSent
  <2>1. gText' = <<>> /\ serialDown' = serialDown
    BY <1>3 DEF G!SendRefused, G!PacketSent
  <2> HIDE DEF Reached
  <2> QED
    BY <1>1, <2>1 DEF Order, Later, Before, AllIssued, Issued, Number, Increasing
<1>4. CASE G!Available \/ G!Recv \/ G!Println \/ G!Send
  <2>1. gText' = gText /\ serialDown' = serialDown /\ (Live' => Live)
    BY <1>4 DEF G!Available, G!Recv, G!Println, G!Send, G!RF95!Listen, G!RF95!Take,
                G!RF95!StartSend, Live, Types, Control
  <2> HIDE DEF Reached, Live
  <2> QED
    BY <1>1, <2>1 DEF Order, Later, Before, AllIssued, Issued, Number, Increasing
<1> QED
  BY <1>2, <1>3, <1>4 DEF GatewayStep, G!Step

LEMMA ValveOrder == Types /\ Control /\ Order /\ ValveStep => Order'
<1> SUFFICES ASSUME Types, Control, Order, ValveStep PROVE Order'
  OBVIOUS
<1>1. UNCHANGED <<gText, gPc, gPhase, serialDown, mqtt, published>>
  BY DEF ValveStep, listener, serial, gateway, gRadio, environment
<1>2. /\ vApplied <= Len(published) /\ Reached \in Nat /\ vApplied \in Nat
      /\ vTaken \in CommandPacket => Issued(vTaken.head) /\ vApplied < vTaken.head.n
      /\ vSlot \in CommandPacket => /\ Issued(vSlot.head)
                                    /\ Number(vTaken, vApplied) < vSlot.head.n
      /\ NoMessage \notin CommandPacket
  BY ReachedIsIssued, Kinds DEF Order, Types
<1>3. CASE V!Recv
  <2>1. vTaken' = vSlot /\ vSlot' = NoMessage /\ vApplied' = vApplied
    BY <1>3 DEF V!Recv, V!RF95!Take
  <2>2. vApplied <= Number(vTaken, vApplied) /\ Number(vTaken, vApplied) \in Nat
        /\ (vSlot \in CommandPacket => vSlot.head.n \in Nat) /\ Number(vTaken, vApplied) <= Reached
    BY ReachedIsIssued
  <2>3. Reached' = Number(vSlot, vApplied)
    BY <1>2, <2>1 DEF Reached, Number
  <2>4. Reached' \in Nat /\ Reached' <= Reached
    <3>1. CASE vSlot \in CommandPacket
      BY <1>2, <2>2, <2>3, <3>1 DEF Reached, Number
    <3>2. CASE vSlot \notin CommandPacket
      <4>1. Reached' = vApplied
        BY <2>3, <3>2 DEF Number
      <4> HIDE DEF Reached
      <4> QED
        BY <1>2, <2>2, <4>1
    <3> QED
      BY <3>1, <3>2
  <2>5. vSlot \in CommandPacket => Issued(vSlot.head) /\ vApplied < vSlot.head.n
    <3> HIDE DEF Reached
    <3> QED
      BY <1>2, <2>2
  <2> HIDE DEF Reached
  <2> QED
    BY <1>1, <1>2, <2>1, <2>4, <2>5, ValveSide
<1>4. CASE V!Process
  <2>1. /\ vTaken' = NoMessage /\ vSlot' = vSlot
        /\ \/ vTaken \in CommandPacket /\ vApplied' = vTaken.head.n
           \/ vApplied' = vApplied
    BY <1>4, Processed
  <2>2. vApplied' \in Nat /\ vApplied <= vApplied' /\ vApplied' <= Number(vTaken, vApplied)
        /\ vApplied' <= Len(published)
    <3>1. CASE vTaken \in CommandPacket /\ vApplied' = vTaken.head.n
      BY <1>2, <3>1, ReachedIsIssued DEF Number, Issued, Types
    <3>2. CASE vApplied' = vApplied
      BY <1>2, <3>2, ReachedIsIssued
    <3> QED
      BY <2>1, <3>1, <3>2
  <2>3. Number(vTaken', vApplied') = vApplied' /\ Reached' = Number(vSlot, vApplied')
    BY <1>2, <2>1 DEF Number, Reached
  <2>4. Number(vTaken, vApplied) \in Nat /\ Number(vTaken, vApplied) <= Reached
        /\ (vSlot \in CommandPacket => vSlot.head.n \in Nat)
    BY ReachedIsIssued
  <2>5. Reached' \in Nat /\ Reached' <= Reached
    <3>1. CASE vSlot \in CommandPacket
      BY <1>2, <2>3, <2>4, <3>1 DEF Reached, Number
    <3>2. CASE vSlot \notin CommandPacket
      <4>1. Reached' = vApplied'
        BY <2>3, <3>2 DEF Number
      <4> HIDE DEF Reached
      <4> QED
        BY <1>2, <2>2, <2>4, <4>1
    <3> QED
      BY <3>1, <3>2
  <2>6. vSlot \in CommandPacket => Issued(vSlot.head) /\ Number(vTaken', vApplied') < vSlot.head.n
    <3> HIDE DEF Number
    <3> QED
      BY <1>2, <2>2, <2>3, <2>4
  <2> HIDE DEF Reached, Number
  <2> QED
    BY <1>1, <1>2, <2>1, <2>2, <2>5, <2>6, ValveSide
<1>5. CASE UNCHANGED <<vApplied, vTaken, vSlot>>
  BY <1>1, <1>5 DEF Order, Later, Before, AllIssued, Issued, Number, Increasing, Live, Reached
<1> QED
  BY <1>3, <1>4, <1>5
     DEF ValveStep, V!Step, V!SendStartup, V!StartupSent, V!FirstFix, V!ReadingDue, V!NoReadingDue,
         V!Fix, V!SendReading, V!ReadingSent, V!Available, V!radio, V!RF95!StartSend,
         V!RF95!Listen

LEMMA AirOrder ==
  ASSUME Types, Control, Order,
         GatewayHeard \/ GatewayUnheard \/ ValveHeard \/ ValveUnheard
           \/ OtherHeardByGateway \/ OtherHeardByValve \/ ValveRestart
  PROVE  Order'
<1> USE DEF listener, serial, gateway, gRadio, valve, vRadio, environment
<1>1. CASE GatewayHeard
  <2>1. /\ UNCHANGED <<gText, serialDown, mqtt, published, vTaken, vApplied>>
        /\ vSlot = NoMessage /\ vSlot' = G!OnAir(gText) /\ Live /\ ~Live'
    BY <1>1 DEF GatewayHeard, G!RF95!Stop, V!RF95!Hear, Live, Control
  <2>2. /\ gText \in Seq(Command) /\ gText # <<>>
        /\ vSlot' \in CommandPacket /\ vSlot'.head = Head(gText)
    BY <2>1, Packets, TypesAre DEF Control, Live, Types
  <2>3. Head(gText) = gText[1] /\ 1 \in DOMAIN gText
    BY <2>2, Shortened
  <2>4. Reached = Number(vTaken, vApplied) /\ Reached' = gText[1].n
    BY <2>1, <2>2, <2>3, Kinds DEF Reached, Number
  <2>5. Issued(gText[1]) /\ Reached < gText[1].n
        /\ Later(gText[1].n, serialDown) /\ Later(gText[1].n, mqtt)
    BY <2>1, <2>3 DEF Order, AllIssued, Later, Before
  <2> HIDE DEF Reached, Live
  <2> QED
    BY <2>1, <2>2, <2>3, <2>4, <2>5 DEF Order, Later, Before, AllIssued, Issued, Number, Increasing
<1>2. CASE GatewayUnheard
  <2>1. UNCHANGED <<gText, serialDown, mqtt, published, vTaken, vApplied, vSlot>> /\ (Live' => Live)
    BY <1>2 DEF GatewayUnheard, G!RF95!Stop, Live
  <2> HIDE DEF Live
  <2> QED
    BY <2>1 DEF Order, Later, Before, AllIssued, Issued, Number, Increasing, Reached
<1>3. CASE ValveUnheard
  <2>1. UNCHANGED <<gText, serialDown, mqtt, published, vTaken, vApplied, vSlot, gPc, gPhase>>
    BY <1>3 DEF ValveUnheard, V!RF95!Stop
  <2> QED
    BY <2>1 DEF Order, Later, Before, AllIssued, Issued, Number, Increasing, Reached, Live
<1>4. CASE ValveHeard
  <2>1. UNCHANGED <<gText, serialDown, mqtt, published, vTaken, vApplied, vSlot>> /\ (Live' => Live)
    BY <1>4 DEF ValveHeard, V!RF95!Stop, G!RF95!Hear, Live
  <2> HIDE DEF Live
  <2> QED
    BY <2>1 DEF Order, Later, Before, AllIssued, Issued, Number, Increasing, Reached
<1>5. CASE OtherHeardByGateway \/ OtherHeardByValve
  <2>1. UNCHANGED <<gText, serialDown, mqtt, published, vTaken, vApplied>> /\ (Live' => Live)
    BY <1>5 DEF OtherHeardByGateway, OtherHeardByValve, V!RF95!Hear, G!RF95!Hear, Live
  <2>2. vSlot' = vSlot \/ (vSlot = NoMessage /\ vSlot' = Other)
    BY <1>5 DEF OtherHeardByGateway, OtherHeardByValve, V!RF95!Hear
  <2>3. Reached' = Reached /\ (vSlot' \in CommandPacket => vSlot' = vSlot)
    BY <2>1, <2>2, Kinds DEF Reached, Number
  <2> HIDE DEF Live, Reached
  <2> QED
    BY <2>1, <2>3 DEF Order, Later, Before, AllIssued, Issued, Number, Increasing
<1>6. CASE ValveRestart
  <2>1. /\ UNCHANGED <<gText, gPc, gPhase, serialDown, mqtt, published, vApplied>>
        /\ vSlot' = NoMessage /\ vTaken' = NoMessage /\ NoMessage \notin CommandPacket
    BY <1>6, Kinds DEF ValveRestart, V!Restart
  <2>2. Reached' = vApplied /\ vApplied \in Nat /\ vApplied <= Reached /\ Reached \in Nat
    <3>1. Reached' = vApplied
      BY <2>1 DEF Reached, Number
    <3>2. vApplied \in Nat /\ vApplied <= Number(vTaken, vApplied)
          /\ Number(vTaken, vApplied) <= Reached /\ Number(vTaken, vApplied) \in Nat /\ Reached \in Nat
      BY ReachedIsIssued DEF Types
    <3> HIDE DEF Reached, Number
    <3> QED
      BY <3>1, <3>2
  <2>3. vApplied <= Len(published)
    BY DEF Order
  <2> HIDE DEF Reached
  <2> QED
    BY <2>1, <2>2, <2>3, ValveSide
<1> QED
  BY <1>1, <1>2, <1>3, <1>4, <1>5, <1>6

LEMMA InitOrder == Init => Order
<1> SUFFICES ASSUME Init PROVE Order
  OBVIOUS
<1>1. /\ mqtt = <<>> /\ serialDown = <<>> /\ gText = <<>> /\ published = <<>> /\ vApplied = 0
      /\ vTaken = NoMessage /\ vSlot = NoMessage /\ NoMessage \notin CommandPacket
  BY Kinds DEF Init, L!Init, G!Init, V!Init, V!RF95!Init
<1> QED
  BY <1>1 DEF Order, Later, Before, AllIssued, Increasing

LEMMA StepOrder == TypeOK /\ Control /\ Order /\ [Next]_vars => Order'
<1> SUFFICES ASSUME Types, Control, Order, [Next]_vars PROVE Order'
  BY TypesAre
<1>1. CASE UNCHANGED vars
  BY <1>1 DEF vars, listener, serial, gateway, gRadio, valve, vRadio, environment,
              Order, Later, Before, AllIssued, Issued, Number, Increasing, Live, Reached
<1>2. CASE Next
  BY <1>2, PublishOrder, ListenOrder, GatewayOrder, ValveOrder, AirOrder DEF Next
<1> QED
  BY <1>1, <1>2

LEMMA AlwaysOrdered == Spec => []Order
BY InitOrder, StepOrder, AlwaysTyped, PTL DEF Spec

\* A step of the valve node, or none.
LEMMA OnlyProcessObeys ==
  ASSUME Next, ~(ValveStep /\ V!Process) /\ ~ValveRestart
  PROVE  UNCHANGED <<vPin, vApplied, vBoot>>
BY DEF Next, Publish, Listen, GatewayStep, ValveStep, GatewayHeard, GatewayUnheard, ValveHeard,
       ValveUnheard, OtherHeardByGateway, OtherHeardByValve, valve,
       V!Step, V!SendStartup, V!StartupSent, V!FirstFix, V!ReadingDue, V!NoReadingDue,
       V!Fix, V!SendReading, V!ReadingSent, V!Available, V!Recv

LEMMA ObeysLater ==
  ASSUME Types, Control, Order, [Next]_vars
  PROVE  vApplied' # vApplied => vApplied' > vApplied
<1> SUFFICES ASSUME vApplied' # vApplied PROVE vApplied' > vApplied
  OBVIOUS
<1>1. Next
  BY DEF vars, valve
<1>2. ~ValveRestart
  BY DEF ValveRestart, V!Restart
<1>3. V!Process
  BY <1>1, <1>2, OnlyProcessObeys
<1>4. vTaken \in CommandPacket /\ vApplied' = vTaken.head.n
  BY <1>3, Processed
<1> QED
  BY <1>4 DEF Order

-----------------------------------------------------------------------------
(* Texts that are never cut. *)

LEMMA Uncut ==
  ASSUME Types, gText # <<>>, Len(gText) <= MaxCommands, MaxCommands * CommandLen + 1 <= 255
  PROVE  ~G!OnAir(gText).cut
<1>1. Len(gText) \in Nat \ {0} /\ CommandLen \in Nat /\ MaxCommands \in Nat
  BY CommandLenAssumption, MaxMessageLenAssumption, BoundsAssumption DEF Types
<1>2. \A n \in Nat \ {0} : n <= MaxCommands =>
        n * CommandLen \in Nat /\ CommandLen <= n * CommandLen /\ n * CommandLen <= MaxCommands * CommandLen
  BY <1>1
<1>3. G!Bytes(gText) \in 0 .. 255 /\ CommandLen <= G!Bytes(gText)
  <2>1. /\ Len(gText) * CommandLen \in Nat /\ CommandLen <= Len(gText) * CommandLen
        /\ Len(gText) * CommandLen <= MaxCommands * CommandLen /\ MaxCommands * CommandLen \in Nat
    BY <1>1, <1>2
  <2>2. \A m, n \in Nat : CommandLen <= m /\ m <= n /\ n + 1 <= 255 =>
                           m + 1 \in 0 .. 255 /\ CommandLen <= m + 1
    BY <1>1
  <2>3. Len(gText) * CommandLen + 1 \in 0 .. 255 /\ CommandLen <= Len(gText) * CommandLen + 1
    BY <2>1, <2>2, Zenon
  <2> QED
    BY <2>3, Zenon DEF G!Bytes
<1>4. \A n \in 0 .. 255 : n % 256 = n
  OBVIOUS
<1>5. G!SentBytes(gText) = G!Bytes(gText)
  BY <1>3, <1>4 DEF G!SentBytes
<1>6. ~(G!SentBytes(gText) < CommandLen)
  <2>1. \A n \in 0 .. 255 : CommandLen <= n => ~(n < CommandLen)
    BY <1>1
  <2> QED
    BY <1>3, <1>5, <2>1, Zenon
<1> QED
  BY <1>6, Zenon DEF G!OnAir

LEMMA InitShort == Init => Short
<1> SUFFICES ASSUME Init PROVE Short
  OBVIOUS
<1>1. /\ mqtt = <<>> /\ serialDown = <<>> /\ gText = <<>> /\ published = <<>>
      /\ vTaken = NoMessage /\ vSlot = NoMessage /\ NoMessage \notin CommandPacket
  BY Kinds DEF Init, L!Init, G!Init, V!Init, V!RF95!Init
<1> QED
  BY <1>1, BoundsAssumption DEF Short

LEMMA StepShort ==
  ASSUME MaxCommands * CommandLen + 1 <= 255
  PROVE  TypeOK /\ Control /\ Short /\ [Next]_vars => Short'
<1> SUFFICES ASSUME Types, Control, Short, [Next]_vars PROVE Short'
  BY TypesAre
<1> USE DEF listener, serial, gateway, gRadio, valve, vRadio, environment
<1> DEFINE Lengths == Len(gText) + Len(serialDown) + Len(mqtt) <= Len(published)
           Whole == \A p \in {vSlot, vTaken} : p \in CommandPacket => ~p.cut
<1>a. /\ Len(gText) \in Nat /\ Len(serialDown) \in Nat /\ Len(mqtt) \in Nat
      /\ Len(published) \in Nat /\ MaxCommands \in Nat
  BY BoundsAssumption DEF Types
<1>b. NoMessage \notin CommandPacket /\ Other \notin CommandPacket
  BY Kinds
<1>1. CASE Publish
  <2>1. PICK c \in Command : /\ published' = Append(published, c)
                             /\ mqtt' = mqtt \/ mqtt' = Append(mqtt, c)
    BY <1>1, Published
  <2>2. Len(published') = Len(published) + 1 /\ Len(mqtt') <= Len(mqtt) + 1 /\ Len(mqtt') \in Nat
    <3>1. mqtt \in Seq(Command) /\ published \in Seq(Command)
      BY DEF Types
    <3>2. Len(Append(mqtt, c)) = Len(mqtt) + 1 /\ Len(Append(published, c)) = Len(published) + 1
      BY <3>1, Appended
    <3> QED
      BY <1>a, <2>1, <3>2
  <2>3. Len(published) < MaxCommands /\ UNCHANGED <<gText, serialDown, vSlot, vTaken>>
    BY <1>1 DEF Publish
  <2> QED
    BY <1>a, <2>2, <2>3 DEF Short
<1>2. CASE Listen
  <2>1. UNCHANGED <<gText, published, vSlot, vTaken>>
    BY <1>2 DEF Listen
  <2>2. Len(serialDown') + Len(mqtt') = Len(serialDown) + Len(mqtt)
    <3>1. CASE L!OnMessage
      <4>1. /\ mqtt \in Seq(Command) /\ serialDown \in Seq(Command) /\ mqtt # <<>>
            /\ mqtt' = Tail(mqtt) /\ serialDown' = Append(serialDown, Head(mqtt))
        BY <3>1 DEF L!OnMessage, Types
      <4>2. Len(mqtt') = Len(mqtt) - 1 /\ Len(serialDown') = Len(serialDown) + 1
        BY <4>1, Shortened, Appended
      <4> QED
        BY <1>a, <4>2
    <3>2. CASE UNCHANGED <<mqtt, serialDown>>
      BY <3>2
    <3> QED
      BY <1>2, <3>1, <3>2 DEF Listen, L!Step, L!ReadLine, L!Post, L!PostFails
  <2>3. Len(serialDown') \in Nat /\ Len(mqtt') \in Nat
    <3>1. Types'
      BY <1>2, ListenTypes
    <3> QED
      BY <3>1 DEF Types
  <2> QED
    BY <1>a, <2>1, <2>2, <2>3 DEF Short
<1>3. CASE GatewayStep
  <2>1. UNCHANGED <<mqtt, published, vSlot, vTaken>>
    BY <1>3 DEF GatewayStep
  <2>2. \/ gText' \in {gText, <<>>} /\ serialDown' = serialDown
        \/ gText' = serialDown /\ serialDown' = <<>>
    BY <1>3 DEF GatewayStep, G!Step, G!Available, G!Recv, G!Println, G!ReadString, G!Send,
                G!SendRefused, G!PacketSent, G!serial
  <2> QED
    BY <1>a, <2>1, <2>2 DEF Short
<1>4. CASE ValveStep
  <2>1. UNCHANGED <<mqtt, published, gText, serialDown>>
    BY <1>4 DEF ValveStep
  <2>2. vSlot' \in {vSlot, NoMessage} /\ vTaken' \in {vSlot, vTaken, NoMessage}
    BY <1>4 DEF ValveStep, V!Step, V!SendStartup, V!StartupSent, V!FirstFix, V!ReadingDue,
         V!NoReadingDue, V!Fix, V!SendReading, V!ReadingSent, V!Available, V!Recv, V!Process,
         V!radio, V!RF95!StartSend, V!RF95!Listen, V!RF95!Take
  <2> QED
    BY <1>b, <2>1, <2>2 DEF Short
<1>5. CASE GatewayHeard
  <2>1. /\ UNCHANGED <<mqtt, published, gText, serialDown, vTaken>>
        /\ gText # <<>> /\ vSlot' = G!OnAir(gText)
    BY <1>5 DEF GatewayHeard, V!RF95!Hear, G!RF95!Stop, Control
  <2>2. ~G!OnAir(gText).cut
    BY <1>a, <2>1, Uncut DEF Short
  <2> QED
    BY <2>1, <2>2 DEF Short
<1>6. CASE GatewayUnheard \/ ValveHeard \/ ValveUnheard
  <2>1. UNCHANGED <<mqtt, published, gText, serialDown, vSlot, vTaken>>
    BY <1>6 DEF GatewayUnheard, ValveHeard, ValveUnheard, G!RF95!Stop, V!RF95!Stop, G!RF95!Hear
  <2> QED
    BY <2>1 DEF Short
<1>7. CASE OtherHeardByGateway \/ OtherHeardByValve \/ ValveRestart
  <2>1. /\ UNCHANGED <<mqtt, published, gText, serialDown>>
        /\ vSlot' \in {vSlot, Other, NoMessage} /\ vTaken' \in {vTaken, NoMessage}
    BY <1>7 DEF OtherHeardByGateway, OtherHeardByValve, ValveRestart, V!Restart, G!RF95!Hear, V!RF95!Hear
  <2> QED
    BY <1>b, <2>1 DEF Short
<1>8. CASE UNCHANGED vars
  BY <1>8 DEF vars, Short
<1> QED
  BY <1>1, <1>2, <1>3, <1>4, <1>5, <1>6, <1>7, <1>8 DEF Next

-----------------------------------------------------------------------------
(* Readings. *)

LEMMA NotAfterOrders ==
  /\ \A s \in Stamp : NotAfter(s, s)
  /\ \A s, t, u \in Stamp : NotAfter(s, t) /\ NotAfter(t, u) => NotAfter(s, u)
BY DEF Stamp, NotAfter

Typed == {Present, Built, InAir, Oldest, api.stamp, Youngest} \subseteq Stamp

LEMMA StampsTyped == Types => Typed
<1> SUFFICES ASSUME Types PROVE Typed
  OBVIOUS
<1>1. \A p : p \in Reading => p.stamp \in Stamp
  BY Kinds
<1>2. Present \in Stamp
  BY DEF Present, Stamped, Stamp, Types
<1>3. api.stamp \in Stamp
  BY <1>1 DEF Types
<1>4. \A p : \A s \in Stamp : StampOf(p, s) \in Stamp
  BY <1>1 DEF StampOf
<1> QED
  BY <1>1, <1>2, <1>3, <1>4 DEF Built, InAir, Oldest, Youngest, Typed

LEMMA StampsTypedNext == Types' => Typed'
BY StampsTyped, PTL

\* What is behind the port may only become younger.
LEMMA PortRises ==
  ASSUME Types, Types', Stamps, UNCHANGED <<line, api, serialUp>>,
         NotAfter(Oldest, Oldest'), NotAfter(Oldest', InAir'),
         NotAfter(InAir', Built'), NotAfter(Built', Present')
  PROVE  Stamps'
<1>1. Oldest \in Stamp /\ Oldest' \in Stamp /\ Youngest \in Stamp
  BY StampsTyped, StampsTypedNext DEF Typed
<1>2. Youngest' = Youngest /\ api' = api /\ serialUp' = serialUp
  BY DEF Youngest
<1>3. \A s \in Stamp : NotAfter(s, Oldest) => NotAfter(s, Oldest')
  BY <1>1, NotAfterOrders
<1>4. \A i \in DOMAIN serialUp : serialUp[i] \in Reading => serialUp[i].stamp \in Stamp
  BY Kinds
<1> HIDE DEF NotAfter, Oldest, InAir, Built, Present, Youngest
<1>5. NotAfter(Youngest, Oldest')
  BY <1>1, <1>3 DEF Stamps
<1>6. \A i \in DOMAIN serialUp : serialUp[i] \in Reading => NotAfter(serialUp[i].stamp, Oldest')
  BY <1>3, <1>4 DEF Stamps
<1>7. (\A i \in DOMAIN serialUp : serialUp[i] \in Reading =>
        /\ NotAfter(Youngest, serialUp[i].stamp) /\ NotAfter(serialUp[i].stamp, Oldest)
        /\ \A j \in DOMAIN serialUp : i < j /\ serialUp[j] \in Reading =>
             NotAfter(serialUp[i].stamp, serialUp[j].stamp))
      /\ NotAfter(api.stamp, Youngest)
  BY DEF Stamps
<1>8. (\A i \in DOMAIN serialUp : serialUp[i] \in Reading =>
        /\ NotAfter(Youngest, serialUp[i].stamp) /\ NotAfter(serialUp[i].stamp, Oldest')
        /\ \A j \in DOMAIN serialUp : i < j /\ serialUp[j] \in Reading =>
             NotAfter(serialUp[i].stamp, serialUp[j].stamp))
  BY <1>6, <1>7
<1> QED
  BY <1>2, <1>5, <1>7, <1>8 DEF Stamps

\* Time goes on: the valve node restarts or obeys a later command.
LEMMA PresentGrows ==
  ASSUME Types, Control, Order, [Next]_vars, Types'
  PROVE  NotAfter(Present, Present')
<1>1. vBoot \in Nat /\ vBoot' \in Nat /\ vApplied \in Nat /\ vApplied' \in Nat
  BY DEF Types
<1>2. vApplied' # vApplied => vApplied' > vApplied
  BY ObeysLater
<1>3. vBoot' = vBoot \/ vBoot' = vBoot + 1
  <2>1. CASE ValveRestart
    BY <2>1 DEF ValveRestart, V!Restart
  <2>2. CASE ValveStep /\ V!Process
    BY <2>2, Processed
  <2>3. CASE ~ValveRestart /\ ~(ValveStep /\ V!Process)
    BY <2>3, OnlyProcessObeys DEF vars, valve
  <2> QED
    BY <2>1, <2>2, <2>3
<1> QED
  BY <1>1, <1>2, <1>3 DEF Present, Stamped, NotAfter

\* The valve node forgets its reading, keeps it or builds one of the present.
LEMMA ValveStamps ==
  ASSUME Types, Control, Order, Stamps, Types', ValveStep \/ ValveRestart
  PROVE  Stamps'
<1> USE DEF listener, serial, gateway, gRadio, valve, vRadio, environment
<1>1. UNCHANGED <<line, api, serialUp, gSlot, gTaken>>
  BY DEF ValveStep, ValveRestart
<1>2. NotAfter(Present, Present')
  BY PresentGrows DEF Next
<1>3. /\ {Present, Built, InAir, Oldest} \subseteq Stamp
      /\ {Present', Built', InAir', Oldest'} \subseteq Stamp
  BY StampsTyped, StampsTypedNext DEF Typed
<1>4. NoMessage \notin Reading
  BY Kinds
<1>5. Built' \in {Built, Present, Present'}
  <2>1. CASE UNCHANGED <<vReading, vBoot, vApplied>>
    BY <2>1 DEF Built, Present
  <2>2. CASE vReading' = NoMessage
    BY <1>4, <2>2 DEF Built, StampOf
  <2>3. CASE vReading' \in {V!Message("reading"), V!Message("startup")}
    <3>1. vReading' \in Reading /\ vReading'.stamp = Present
      BY <2>3, Packets, TypesAre
    <3> QED
      BY <3>1 DEF Built, StampOf
  <2>4. CASE ValveStep /\ V!Process
    <3>1. vReading' = vReading
      BY <2>4, Processed
    <3> QED
      BY <3>1 DEF Built, StampOf
  <2>5. CASE ValveRestart
    BY <2>2, <2>5 DEF ValveRestart, V!Restart
  <2> QED
    BY <2>1, <2>2, <2>3, <2>4, <2>5
       DEF ValveStep, V!Step, V!SendStartup, V!StartupSent, V!FirstFix, V!ReadingDue,
           V!NoReadingDue, V!Fix, V!SendReading, V!ReadingSent, V!Available, V!Recv
<1>6. NotAfter(Built, Present) /\ NotAfter(InAir, Built) /\ NotAfter(Oldest, InAir)
  BY DEF Stamps
<1>7. NotAfter(Built, Built') /\ NotAfter(Built', Present')
  <2> HIDE DEF Built, Present, NotAfter
  <2> QED
    BY <1>2, <1>3, <1>5, <1>6, NotAfterOrders
<1>8. NotAfter(InAir, InAir') /\ NotAfter(InAir', Built')
  <2>1. (InAir' = InAir /\ InAir' = gSlot.stamp /\ gSlot \in Reading) \/ (InAir = Built /\ InAir' = Built')
    BY <1>1 DEF InAir, StampOf
  <2> HIDE DEF InAir, Built, Present, NotAfter
  <2> QED
    BY <1>3, <1>6, <1>7, <2>1, NotAfterOrders
<1>9. NotAfter(Oldest, Oldest') /\ NotAfter(Oldest', InAir')
  <2>1. Oldest' = Oldest \/ (Oldest = InAir /\ Oldest' = InAir')
    BY <1>1 DEF Oldest, StampOf
  <2> HIDE DEF Oldest, InAir, Built, Present, NotAfter
  <2> QED
    BY <1>3, <1>6, <1>8, <2>1, NotAfterOrders
<1> QED
  BY <1>1, <1>7, <1>8, <1>9, PortRises

\* What the valve node hears does not touch the readings.
LEMMA SameStamps ==
  ASSUME Stamps, UNCHANGED <<vReading, vBoot, vApplied, gSlot, gTaken, line, api, serialUp>>
  PROVE  Stamps'
<1>1. UNCHANGED <<Present, Built, InAir, Oldest, Youngest>>
  BY DEF Present, Built, InAir, Oldest, Youngest
<1> HIDE DEF NotAfter, Present, Built, InAir, Oldest, Youngest
<1> QED
  BY <1>1 DEF Stamps

\* The gateway hears the reading the valve node has sent, or another node's.
LEMMA HeardStamps ==
  ASSUME Types, Control, Stamps, Types', gSlot = NoMessage,
         gSlot' = Other \/ (gSlot' = vReading /\ vReading \in Reading),
         UNCHANGED <<vReading, vBoot, vApplied, gTaken, line, api, serialUp>>
  PROVE  Stamps'
<1>1. UNCHANGED <<Present, Built>>
  BY DEF Present, Built
<1>2. InAir' = InAir
  BY <1>1, Kinds DEF InAir, StampOf, Built
<1>3. Oldest' = Oldest /\ Youngest' = Youngest
  BY <1>2 DEF Oldest, Youngest
<1> HIDE DEF NotAfter, Present, Built, InAir, Oldest, Youngest
<1> QED
  BY <1>1, <1>2, <1>3 DEF Stamps

LEMMA AirStamps ==
  ASSUME Types, Control, Stamps, Types',
         Publish \/ GatewayHeard \/ GatewayUnheard \/ ValveHeard \/ ValveUnheard
           \/ OtherHeardByGateway \/ OtherHeardByValve
  PROVE  Stamps'
<1> USE DEF listener, serial, gateway, gRadio, valve, vRadio, environment
<1>1. CASE Publish \/ GatewayHeard \/ GatewayUnheard \/ ValveUnheard \/ OtherHeardByValve
  BY <1>1, SameStamps DEF Publish, GatewayHeard, GatewayUnheard, ValveUnheard, OtherHeardByValve,
                          G!RF95!Stop, V!RF95!Stop
<1>2. CASE ValveHeard
  <2>1. vReading \in Reading
    BY <1>2 DEF ValveHeard, Control
  <2> QED
    BY <1>2, <2>1, HeardStamps DEF ValveHeard, V!RF95!Stop, G!RF95!Hear
<1>3. CASE OtherHeardByGateway
  BY <1>3, HeardStamps DEF OtherHeardByGateway, G!RF95!Hear
<1> QED
  BY <1>1, <1>2, <1>3

LEMMA UpShortened ==
  ASSUME NEW s \in Seq(Packet), s # <<>>
  PROVE  /\ 1 \in DOMAIN s /\ Head(s) = s[1]
         /\ \A i \in DOMAIN Tail(s) : /\ i \in Nat /\ i + 1 \in DOMAIN s /\ 1 < i + 1
                                      /\ Tail(s)[i] = s[i + 1]
OBVIOUS

LEMMA UpAppended ==
  ASSUME NEW s \in Seq(Packet), NEW p \in Packet
  PROVE  /\ DOMAIN s \subseteq Nat
         /\ \A i \in DOMAIN Append(s, p) : \/ i \in DOMAIN s /\ Append(s, p)[i] = s[i]
                                           \/ i = Len(s) + 1 /\ Append(s, p)[i] = p
         /\ \A i \in DOMAIN s : i < Len(s) + 1 /\ ~(Len(s) + 1 < i)
         /\ ~(Len(s) + 1 < Len(s) + 1)
OBVIOUS

LEMMA GatewayStamps == Types /\ Control /\ Stamps /\ Types' /\ GatewayStep => Stamps'
<1> SUFFICES ASSUME Types, Control, Stamps, Types', GatewayStep PROVE Stamps'
  OBVIOUS
<1>1. UNCHANGED <<vReading, vBoot, vApplied, line, api>>
  BY DEF GatewayStep, listener, valve
<1>2. UNCHANGED <<Present, Built, Youngest>>
  BY <1>1 DEF Present, Built, Youngest
<1>3. {Built, InAir, Oldest, Youngest, api.stamp} \subseteq Stamp /\ {InAir', Oldest'} \subseteq Stamp
  BY StampsTyped, StampsTypedNext DEF Typed
<1>4. NoMessage \notin Reading
  BY Kinds
<1>5. CASE G!Recv
  <2>1. gSlot' = NoMessage /\ gTaken' = gSlot /\ serialUp' = serialUp
    BY <1>5 DEF G!Recv, G!RF95!Take, G!serial
  <2>2. InAir' = Built
    BY <1>2, <1>4, <2>1 DEF InAir, StampOf
  <2>3. Oldest' = InAir
    BY <1>2, <2>1, <2>2 DEF Oldest, InAir, StampOf
  <2>4. NotAfter(Oldest, Oldest') /\ NotAfter(Oldest', InAir') /\ NotAfter(InAir', Built')
        /\ NotAfter(Built', Present')
    <3> HIDE DEF Built, InAir, Oldest, Present, NotAfter
    <3> QED
      BY <1>2, <1>3, <2>2, <2>3, NotAfterOrders DEF Stamps
  <2> QED
    BY <1>1, <2>1, <2>4, PortRises
<1>6. CASE G!Println
  <2>1. gSlot' = gSlot /\ gTaken' = NoMessage /\ gTaken \in Packet
        /\ (serialUp' = serialUp \/ serialUp' = Append(serialUp, gTaken))
    BY <1>6 DEF G!Println, G!Goto, Types, Control
  <2>2. InAir' = InAir
    BY <1>2, <2>1 DEF InAir
  <2>3. Oldest' = InAir
    BY <1>4, <2>1, <2>2 DEF Oldest, StampOf
  <2>4. gTaken \in Reading => Oldest = gTaken.stamp
    BY DEF Oldest, StampOf
  <2>5. NotAfter(Oldest, Oldest') /\ NotAfter(Oldest', InAir') /\ NotAfter(InAir', Built')
        /\ NotAfter(Built', Present') /\ NotAfter(api.stamp, Youngest) /\ NotAfter(Youngest, Oldest)
    <3> HIDE DEF Built, InAir, Oldest, Present, NotAfter, Youngest
    <3> QED
      BY <1>2, <1>3, <2>2, <2>3, NotAfterOrders DEF Stamps
  <2>6. CASE serialUp' = serialUp
    BY <1>1, <2>5, <2>6, PortRises
  <2>7. CASE serialUp' = Append(serialUp, gTaken)
    <3>1. serialUp \in Seq(Packet) /\ \A i \in DOMAIN serialUp : serialUp[i] \in Reading =>
            serialUp[i].stamp \in Stamp
      BY Kinds DEF Types
    <3> HIDE DEF Built, InAir, Oldest, Present, NotAfter, Youngest
    <3>2. NotAfter(Youngest, Oldest')
      BY <1>3, <2>5, NotAfterOrders
    <3>3. \A i \in DOMAIN serialUp : serialUp[i] \in Reading =>
            NotAfter(Youngest, serialUp[i].stamp) /\ NotAfter(serialUp[i].stamp, Oldest')
            /\ NotAfter(serialUp[i].stamp, Oldest)
      BY <1>3, <2>5, <3>1, NotAfterOrders DEF Stamps
    <3>4. \A i, j \in DOMAIN serialUp : serialUp[i] \in Reading /\ i < j /\ serialUp[j] \in Reading =>
            NotAfter(serialUp[i].stamp, serialUp[j].stamp)
      BY DEF Stamps
    <3>5. \A i \in DOMAIN serialUp' : \/ i \in DOMAIN serialUp /\ serialUp'[i] = serialUp[i]
                                      \/ i = Len(serialUp) + 1 /\ serialUp'[i] = gTaken
      BY <2>1, <2>7, <3>1, UpAppended
    <3>6. ASSUME NEW i \in DOMAIN serialUp', serialUp'[i] \in Reading
          PROVE  NotAfter(Youngest, serialUp'[i].stamp) /\ NotAfter(serialUp'[i].stamp, Oldest')
      BY <2>4, <2>5, <3>3, <3>5, <3>6
    <3>7. ASSUME NEW i \in DOMAIN serialUp', serialUp'[i] \in Reading,
                 NEW j \in DOMAIN serialUp', serialUp'[j] \in Reading, i < j
          PROVE  NotAfter(serialUp'[i].stamp, serialUp'[j].stamp)
      <4>1. i \in DOMAIN serialUp /\ serialUp'[i] = serialUp[i]
        BY <2>1, <3>1, <3>5, <3>7, UpAppended
      <4>2. CASE j \in DOMAIN serialUp /\ serialUp'[j] = serialUp[j]
        BY <3>4, <3>7, <4>1, <4>2
      <4>3. CASE serialUp'[j] = gTaken
        BY <2>4, <3>3, <3>7, <4>1, <4>3
      <4> QED
        BY <3>5, <4>2, <4>3
    <3> QED
      BY <1>1, <1>2, <2>5, <3>2, <3>6, <3>7 DEF Stamps
  <2> QED
    BY <2>1, <2>6, <2>7
<1>7. CASE UNCHANGED <<gSlot, gTaken, serialUp>>
  BY <1>1, <1>7, SameStamps
<1> QED
  BY <1>5, <1>6, <1>7
     DEF GatewayStep, G!Step, G!Available, G!ReadString, G!Send, G!SendRefused, G!PacketSent,
         G!radio, G!serial, G!RF95!Listen, G!RF95!StartSend

LEMMA ListenStamps == Types /\ Control /\ Stamps /\ Types' /\ Listen => Stamps'
<1> SUFFICES ASSUME Types, Control, Stamps, Types', Listen PROVE Stamps'
  OBVIOUS
<1>1. UNCHANGED <<vReading, vBoot, vApplied, gSlot, gTaken>>
  BY DEF Listen, gateway, gRadio, valve
<1>2. UNCHANGED <<Present, Built, InAir, Oldest>>
  BY <1>1 DEF Present, Built, InAir, Oldest
<1>3. {Oldest, Youngest, Youngest', api.stamp} \subseteq Stamp
  BY StampsTyped, StampsTypedNext DEF Typed
<1>4. NoMessage \notin Reading
  BY Kinds
<1>5. CASE L!OnMessage
  BY <1>1, <1>5, SameStamps DEF L!OnMessage
<1>6. CASE L!ReadLine
  <2>1. line = NoMessage /\ serialUp # <<>> /\ serialUp \in Seq(Packet) /\ serialUp' = Tail(serialUp)
        /\ api' = api /\ line' \in {Head(serialUp), NoMessage}
    BY <1>6 DEF L!ReadLine, Types
  <2>2. /\ 1 \in DOMAIN serialUp /\ Head(serialUp) = serialUp[1]
        /\ \A i \in DOMAIN serialUp' : /\ i \in Nat /\ i + 1 \in DOMAIN serialUp /\ 1 < i + 1
                                       /\ serialUp'[i] = serialUp[i + 1]
    BY <2>1, UpShortened
  <2>3. Youngest = api.stamp
    BY <1>4, <2>1 DEF Youngest, StampOf
  <2>4. Youngest' = Youngest \/ (serialUp[1] \in Reading /\ Youngest' = serialUp[1].stamp)
    BY <1>4, <2>1, <2>2, <2>3 DEF Youngest, StampOf
  <2> HIDE DEF Built, InAir, Oldest, Present, NotAfter, Youngest
  <2>5. NotAfter(api.stamp, Youngest') /\ NotAfter(Youngest', Oldest)
    BY <1>3, <2>2, <2>3, <2>4 DEF Stamps
  <2>6. \A i \in DOMAIN serialUp : serialUp[i] \in Reading /\ 1 < i =>
          NotAfter(Youngest', serialUp[i].stamp)
    BY <2>2, <2>4 DEF Stamps
  <2>7. ASSUME NEW i \in DOMAIN serialUp', serialUp'[i] \in Reading
        PROVE  NotAfter(Youngest', serialUp'[i].stamp) /\ NotAfter(serialUp'[i].stamp, Oldest)
    BY <2>2, <2>6, <2>7 DEF Stamps
  <2>8. ASSUME NEW i \in DOMAIN serialUp', serialUp'[i] \in Reading,
               NEW j \in DOMAIN serialUp', serialUp'[j] \in Reading, i < j
        PROVE  NotAfter(serialUp'[i].stamp, serialUp'[j].stamp)
    <3>1. i + 1 \in DOMAIN serialUp /\ j + 1 \in DOMAIN serialUp /\ i + 1 < j + 1
          /\ serialUp'[i] = serialUp[i + 1] /\ serialUp'[j] = serialUp[j + 1]
      BY <2>2, <2>8
    <3> QED
      BY <2>8, <3>1 DEF Stamps
  <2> QED
    BY <1>2, <2>1, <2>5, <2>7, <2>8 DEF Stamps
<1>7. CASE L!Post \/ L!PostFails
  <2>1. line # NoMessage /\ line' = NoMessage /\ serialUp' = serialUp
        /\ (api' = api \/ (api' = line /\ line.kind = "reading"))
    BY <1>7 DEF L!Post, L!PostFails
  <2>2. Youngest' = api'.stamp
    BY <1>4, <2>1 DEF Youngest, StampOf
  <2>3. Youngest' = Youngest \/ Youngest' = api.stamp
    <3>1. CASE api' = api
      BY <2>2, <3>1
    <3>2. CASE api' = line /\ line.kind = "reading"
      <4>1. line \in Reading
        BY <2>1, <3>2, Kinds DEF Control
      <4> QED
        BY <2>2, <3>2, <4>1 DEF Youngest, StampOf
    <3> QED
      BY <2>1, <3>1, <3>2
  <2> HIDE DEF Built, InAir, Oldest, Present, NotAfter, Youngest
  <2>4. NotAfter(Youngest', Youngest)
    BY <1>3, <2>3, NotAfterOrders DEF Stamps
  <2>5. NotAfter(api'.stamp, Youngest') /\ NotAfter(Youngest', Oldest)
    BY <1>3, <2>2, <2>4, NotAfterOrders DEF Stamps
  <2>6. \A i \in DOMAIN serialUp : serialUp[i] \in Reading => serialUp[i].stamp \in Stamp
    BY Kinds
  <2>7. \A i \in DOMAIN serialUp : serialUp[i] \in Reading => NotAfter(Youngest', serialUp[i].stamp)
    BY <1>3, <2>4, <2>6, NotAfterOrders DEF Stamps
  <2>8. \A i \in DOMAIN serialUp : serialUp[i] \in Reading =>
          /\ NotAfter(serialUp[i].stamp, Oldest)
          /\ \A j \in DOMAIN serialUp : i < j /\ serialUp[j] \in Reading =>
               NotAfter(serialUp[i].stamp, serialUp[j].stamp)
    BY DEF Stamps
  <2>9. NotAfter(Built, Present) /\ NotAfter(InAir, Built) /\ NotAfter(Oldest, InAir)
    BY DEF Stamps
  <2> QED
    BY <1>2, <2>1, <2>5, <2>7, <2>8, <2>9 DEF Stamps
<1> QED
  BY <1>5, <1>6, <1>7 DEF Listen, L!Step

LEMMA InitStamps == Init => Stamps
<1> SUFFICES ASSUME Init PROVE Stamps
  OBVIOUS
<1>1. /\ vReading = NoMessage /\ gSlot = NoMessage /\ gTaken = NoMessage /\ line = NoMessage
      /\ serialUp = <<>> /\ api.stamp = Stamped(0, 0) /\ vBoot = 0 /\ vApplied = 0
      /\ NoMessage \notin Reading
  BY Kinds DEF Init, L!Init, G!Init, V!Init, G!RF95!Init, Unknown
<1>2. \A s \in {Present, Built, InAir, Oldest, api.stamp, Youngest} : s = Stamped(0, 0)
  BY <1>1 DEF Present, Built, InAir, Oldest, Youngest, StampOf
<1>3. NotAfter(Stamped(0, 0), Stamped(0, 0))
  BY DEF NotAfter, Stamped
<1>4. DOMAIN serialUp = {}
  BY <1>1
<1> HIDE DEF Present, Built, InAir, Oldest, Youngest, NotAfter
<1> QED
  BY <1>2, <1>3, <1>4 DEF Stamps

LEMMA StepStamps ==
  TypeOK /\ Control /\ Order /\ Stamps /\ [Next]_vars => Stamps'
<1>1. TypeOK /\ Control /\ [Next]_vars => Types'
  BY StepTypes, TypesAre, PTL
<1> SUFFICES ASSUME Types, Control, Order, Stamps, [Next]_vars, Types' PROVE Stamps'
  BY <1>1, TypesAre
<1>2. CASE UNCHANGED vars
  BY <1>2, SameStamps DEF vars, listener, serial, gateway, gRadio, valve
<1>3. CASE Next
  BY <1>3, ListenStamps, GatewayStamps, ValveStamps, AirStamps DEF Next
<1> QED
  BY <1>2, <1>3

LEMMA AlwaysStamped == Spec => []Stamps
BY InitStamps, StepStamps, AlwaysTyped, AlwaysOrdered, PTL DEF Spec

-----------------------------------------------------------------------------
(* The properties. *)

\* Every variable of the system has its type (TypeOK): for any commands, devices,
\* other packets and restarts of the valve node.
THEOREM TypeCorrect == Spec => []TypeOK
BY AlwaysTyped, PTL

\* The valve node obeys commands in the order in which they were published
\* (CommandsObeyedInOrder), however long texts are merged, cut, lost or held.
THEOREM InOrder == Spec => CommandsObeyedInOrder
<1>1. TypeOK /\ Control /\ Order /\ [Next]_vars => [vApplied' # vApplied => vApplied' > vApplied]_vars
  BY ObeysLater, TypesAre
<1> QED
  BY <1>1, AlwaysTyped, AlwaysOrdered, PTL DEF Spec, CommandsObeyedInOrder

\* The valve moves only to where a command that was published for it orders
\* (ValveMovesAsOrdered), as long as all the commands together fit into the octet
\* that holds a text's length.
THEOREM AsOrdered ==
  ASSUME MaxCommands * CommandLen + 1 <= 255
  PROVE  Spec => ValveMovesAsOrdered
<1>1. TypeOK /\ Control /\ Order /\ Short /\ [Next]_vars =>
        [vPin' # vPin /\ vBoot' = vBoot =>
           /\ vApplied' \in DOMAIN published
           /\ published[vApplied'].device = Valve
           /\ StatusAfter[published[vApplied'].verb] = vStatus'
           /\ vPin' = IF vStatus' = "closed" THEN "HIGH" ELSE "LOW"]_vars
  <2> SUFFICES ASSUME Types, Control, Order, Short, Next, vPin' # vPin, vBoot' = vBoot
               PROVE  /\ vApplied' \in DOMAIN published
                      /\ published[vApplied'].device = Valve
                      /\ StatusAfter[published[vApplied'].verb] = vStatus'
                      /\ vPin' = IF vStatus' = "closed" THEN "HIGH" ELSE "LOW"
    BY TypesAre
  <2>1. vBoot \in Nat
    BY DEF Types
  <2>2. V!Process
    BY <2>1, OnlyProcessObeys DEF ValveRestart, V!Restart
  <2>3. PICK verb \in Verbs : /\ vTaken \in CommandPacket
                              /\ vTaken.cut \/ vTaken.head.device = Valve
                              /\ vApplied' = vTaken.head.n
                              /\ ~vTaken.cut => verb = vTaken.head.verb
                              /\ vStatus' = StatusAfter[verb]
                              /\ vPin' = IF verb = "SHUT_OFF" THEN "HIGH" ELSE "LOW"
    BY <2>2, Processed
  <2>4. Issued(vTaken.head) /\ ~vTaken.cut
    BY <2>3 DEF Order, Short
  <2> QED
    BY <2>3, <2>4 DEF Issued, StatusAfter, Verbs
<1>2. Spec => []Short
  BY InitShort, StepShort, AlwaysTyped, PTL DEF Spec
<1> QED
  BY <1>1, <1>2, AlwaysTyped, AlwaysOrdered, PTL DEF Spec, ValveMovesAsOrdered

\* No older reading replaces a younger one at the API (ApiNeverGoesBack), whatever
\* the air, the USB port and the POSTs lose, and through any restarts of the valve node.
THEOREM NeverBack == Spec => ApiNeverGoesBack
<1>1. TypeOK /\ Control /\ Stamps /\ [Next]_vars => [NotAfter(api.stamp, api'.stamp)]_vars
  <2> SUFFICES ASSUME Types, Control, Stamps, Next PROVE NotAfter(api.stamp, api'.stamp)
    BY TypesAre
  <2>1. NotAfter(api.stamp, api.stamp)
    <3>1. api.stamp \in Stamp
      BY StampsTyped DEF Typed
    <3> QED
      BY <3>1, NotAfterOrders
  <2>2. CASE L!Post /\ line.kind = "reading"
    <3>1. line \in Reading /\ api' = line
      BY <2>2, Kinds DEF L!Post, Control
    <3>2. api'.stamp = Youngest
      BY <3>1 DEF Youngest, StampOf
    <3> HIDE DEF NotAfter, Youngest
    <3> QED
      BY <3>2 DEF Stamps
  <2>3. CASE api' = api
    BY <2>1, <2>3
  <2> QED
    BY <2>2, <2>3 DEF Next, Publish, Listen, L!Step, L!OnMessage, L!ReadLine, L!Post, L!PostFails,
       GatewayStep, ValveStep, GatewayHeard, GatewayUnheard, ValveHeard, ValveUnheard,
       OtherHeardByGateway, OtherHeardByValve, ValveRestart, listener
<1> QED
  BY <1>1, AlwaysTyped, AlwaysStamped, PTL DEF Spec, ApiNeverGoesBack
=============================================================================
