------------------------------ MODULE MeshProofs ------------------------------
(***************************************************************************)
(* What holds of the mesh for any nodes, links, table sizes, hop limits    *)
(* and bytes left in the buffers.  Inv says of every message, offered or   *)
(* held, that it is GoodMessage and came from a node in range, and of      *)
(* every table that it is Sound; OneCopy says of every text that for each  *)
(* node it is in one place at most from which it may still reach the       *)
(* program, or has reached it.                                             *)
(***************************************************************************)
EXTENDS Mesh, RoutingProofs, SequenceTheorems

Around(n) == {s \in Node : <<s, n>> \in world.linked}

GoodMessage(m) ==
  /\ m \in Message
  /\ m.hops <= MaxHops /\ Len(m.passed) <= MaxHops
  /\ \A i, j \in 1 .. Len(m.passed) : m.passed[i] = m.passed[j] => i = j
  /\ m.kind = "request" => \A i \in 1 .. Len(m.passed) : m.passed[i] # m.source
  /\ m.source # m.dest

GoodOffer(o, n) ==
  /\ o \in Offer /\ GoodMessage(o.msg)
  /\ o.hop # Broadcast => o.msg.dest # Broadcast /\ (o.msg.source # n => o.via \in Around(n))

GoodHeld(c, n) == c \in Held /\ GoodMessage(c.msg) /\ c.from \in Around(n)

TablesGood == table \in [Node -> Table] /\ \A n \in Node : Sound(table[n], Around(n))
OffersGood == /\ offer \in [Node -> Offer \cup {Nothing}]
              /\ \A n \in Node : offer[n] # Nothing => GoodOffer(offer[n], n)
SlotsGood == /\ slot \in [Node -> Held \cup {Nothing}]
             /\ \A n \in Node : slot[n] # Nothing => GoodHeld(slot[n], n)
WaitsGood == /\ arp \in [Node -> Node \cup {Nothing}]
             /\ asked \in [Node -> Nat]
             /\ \A n \in Node : /\ asked[n] <= Len(world.errands[n])
                                /\ arp[n] # Nothing => asked[n] >= 1

Inv == /\ world \in Worlds
       /\ TablesGood /\ OffersGood /\ SlotsGood /\ WaitsGood
       /\ cramped \in [Node -> BOOLEAN] /\ inbox \in [Node -> Seq(Node \X Nat)]

-----------------------------------------------------------------------------
LEMMA FreshIsGood ==
  ASSUME NEW source \in Node, NEW kind \in {"text", "empty", "request", "response", "failure"},
         NEW dest \in Node \cup {Broadcast}, NEW about \in Address, NEW passed \in Seq(Node),
         Len(passed) <= MaxHops, source # dest,
         \A i, j \in 1 .. Len(passed) : passed[i] = passed[j] => i = j,
         kind = "request" => \A i \in 1 .. Len(passed) : passed[i] # source
  PROVE  GoodMessage(Fresh(source, kind, dest, about, passed))
<1>1. Fresh(source, kind, dest, about, passed) \in Message
  BY DEF Fresh, Message
<1> QED
  BY <1>1, HopsAssumption DEF Fresh, GoodMessage

LEMMA WorldFacts ==
  ASSUME NEW w \in Worlds, NEW n \in Node
  PROVE  /\ w.linked \subseteq Node \X Node
         /\ w.wired \in [Node -> Table] /\ Unshadowed(w.wired[n])
         /\ \A i \in Slots : w.wired[n][i].valid => <<w.wired[n][i].hop, n>> \in w.linked
         /\ w.errands[n] \in Seq(Errand)
         /\ \A k \in 1 .. Len(w.errands[n]) : w.errands[n][k].dest # n
<1>1. w \in World
  BY WorldsAssumption
<1>2. w.linked \subseteq Node \X Node /\ w.wired \in [Node -> Table] /\ w.errands[n] \in Seq(Errand)
  BY <1>1 DEF World
<1> QED
  BY <1>2, WorldsAssumption

LEMMA TextIsGood ==
  ASSUME NEW n \in Node, world \in Worlds, NEW k \in 1 .. Len(world.errands[n])
  PROVE  GoodMessage(Text(n, k)) /\ Text(n, k).source = n
<1> DEFINE e == world.errands[n][k]
           m == Fresh(n, e.kind, e.dest, n, <<>>)
<1>1. e \in Errand /\ e.dest # n /\ k \in Nat
  BY WorldFacts
<1>2. e.kind \in {"text", "empty"} /\ e.dest \in Node \cup {Broadcast}
  BY <1>1 DEF Errand, Texts
<1>3. <<>> \in Seq(Node) /\ Len(<<>>) = 0 /\ MaxHops \in Nat /\ n \in Address
  BY HopsAssumption, NodeAssumption
<1>4. GoodMessage(m)
  <2>1. \A i \in 1 .. Len(<<>>) : FALSE
    BY <1>3
  <2>2. n # e.dest /\ e.kind # "request"
    BY <1>1, <1>2
  <2>3. e.kind \in {"text", "empty", "request", "response", "failure"}
    BY <1>2
  <2>4. 0 <= MaxHops /\ \A i, j \in 1 .. Len(<<>>) : <<>>[i] = <<>>[j] => i = j
    BY <1>3, <2>1
  <2> HIDE DEF e
  <2> QED
    BY <1>2, <1>3, <2>2, <2>3, <2>4, FreshIsGood
<1>5. Text(n, k) = [m EXCEPT !.n = k]
  BY DEF Text
<1>6. m \in Message /\ m.source = n
  BY <1>4 DEF GoodMessage, Fresh
<1> HIDE DEF m
<1>7. Text(n, k) \in Message
  BY <1>1, <1>5, <1>6 DEF Message
<1>8. /\ Text(n, k).hops = m.hops /\ Text(n, k).passed = m.passed /\ Text(n, k).kind = m.kind
      /\ Text(n, k).source = m.source /\ Text(n, k).dest = m.dest
  BY <1>5, <1>6 DEF Message
<1> QED
  BY <1>4, <1>6, <1>7, <1>8 DEF GoodMessage

-----------------------------------------------------------------------------
(* What becomes of one node's table and offer *)

LEMMA AroundIsNear ==
  ASSUME NEW n \in Node
  PROVE  Around(n) \subseteq Node /\ Around(n) \subseteq Address
BY NodeAssumption DEF Around

LEMMA SetTableKeeps ==
  ASSUME TablesGood, UNCHANGED world, NEW n \in Node, NEW t, Sound(t, Around(n)), SetTable(n, t)
  PROVE  TablesGood'
<1>1. t \in Table
  BY DEF Sound
<1>2. table' \in [Node -> Table] /\ \A k \in Node : table'[k] = IF k = n THEN t ELSE table[k]
  BY <1>1 DEF TablesGood, SetTable
<1>3. \A k \in Node : Around(k)' = Around(k)
  BY DEF Around
<1>4. \A k \in Node : Sound(table'[k], Around(k))
  BY <1>2 DEF TablesGood
<1> QED
  BY <1>2, <1>3, <1>4 DEF TablesGood

LEMMA OneOfferKeeps ==
  ASSUME OffersGood, UNCHANGED world, NEW n \in Node, NEW o,
         o # Nothing => GoodOffer(o, n), offer' = [offer EXCEPT ![n] = o]
  PROVE  OffersGood'
<1>1. o \in Offer \cup {Nothing}
  BY DEF GoodOffer
<1>2. /\ offer' \in [Node -> Offer \cup {Nothing}]
      /\ \A k \in Node : offer'[k] = IF k = n THEN o ELSE offer[k]
  BY <1>1 DEF OffersGood
<1>3. \A k \in Node : Around(k)' = Around(k)
  BY DEF Around
<1>4. \A k \in Node : offer'[k] # Nothing => GoodOffer(offer'[k], k)
  BY <1>2 DEF OffersGood
<1> QED
  BY <1>2, <1>3, <1>4 DEF OffersGood, GoodOffer

LEMMA OfferToKeeps ==
  ASSUME OffersGood, UNCHANGED world, NEW n \in Node, NEW m, GoodMessage(m),
         NEW hop \in Node \cup {Broadcast}, NEW via \in Node,
         hop # Broadcast => m.dest # Broadcast /\ (m.source # n => via \in Around(n)),
         OfferTo(n, m, hop, via)
  PROVE  OffersGood'
<1> DEFINE o == [msg |-> m, hop |-> hop, via |-> via, heard |-> {}]
<1>1. o \in Offer
  BY DEF GoodMessage, Offer
<1>2. GoodOffer(o, n)
  BY <1>1 DEF GoodOffer
<1>3. offer' = [offer EXCEPT ![n] = o]
  BY DEF OfferTo
<1> QED
  BY <1>2, <1>3, OneOfferKeeps

LEMMA UndeliverableKeeps ==
  ASSUME TablesGood, OffersGood, UNCHANGED world, NEW n \in Node,
         NEW t, Sound(t, Around(n)), NEW m, GoodMessage(m), m.dest # Broadcast,
         NEW via \in Node, m.source # n => via \in Around(n),
         Undeliverable(n, t, m, via)
  PROVE  TablesGood' /\ OffersGood'
<1> DEFINE u == DeleteRouteTo(t, m.dest)
<1>1. Sound(u, Around(n))
  BY DeleteRouteToKeeps
<1>2. m.source \in Node /\ m.dest \in Node /\ m.dest \in Address /\ m.source \in Address
  BY NodeAssumption DEF GoodMessage, Message
<1>3. CASE m.source = n
  BY <1>1, <1>3, SetTableKeeps, OneOfferKeeps DEF Undeliverable
<1>4. CASE m.source # n
  <2> DEFINE f == Fresh(n, "failure", m.source, m.dest, <<>>)
             v == AddRouteTo(u, m.source, via)
  <2>1. SetTable(n, v) /\ OfferTo(n, f, via, n)
    BY <1>4 DEF Undeliverable
  <2>2. Sound(v, Around(n))
    BY <1>1, <1>2, <1>4, AroundIsNear, AddRouteToKeeps
  <2>3. GoodMessage(f) /\ f.dest # Broadcast /\ f.source = n
    <3>1. <<>> \in Seq(Node) /\ Len(<<>>) = 0 /\ MaxHops \in Nat
      BY HopsAssumption
    <3>2. Len(<<>>) <= MaxHops /\ \A i, j \in 1 .. Len(<<>>) : <<>>[i] = <<>>[j] => i = j
      BY <3>1
    <3>3. GoodMessage(f)
      BY <1>2, <1>4, <3>1, <3>2, FreshIsGood
    <3> QED
      BY <1>2, <3>3, NodeAssumption DEF Fresh
  <2> HIDE DEF f, v
  <2> QED
    BY <2>1, <2>2, <2>3, SetTableKeeps, OfferToKeeps
<1> QED
  BY <1>3, <1>4

LEMMA RouteKeeps ==
  ASSUME TablesGood, OffersGood, UNCHANGED world, NEW n \in Node,
         NEW t, Sound(t, Around(n)), NEW m, GoodMessage(m),
         NEW via \in Node, m.source # n => via \in Around(n),
         Route(n, t, m, via)
  PROVE  TablesGood' /\ OffersGood'
<1>1. CASE m.dest = Broadcast
  <2>1. SetTable(n, t) /\ OfferTo(n, m, Broadcast, via)
    BY <1>1 DEF Route
  <2> QED
    BY <2>1, SetTableKeeps, OfferToKeeps
<1>2. CASE m.dest # Broadcast /\ HasRoute(t, m.dest)
  <2>1. SetTable(n, t) /\ OfferTo(n, m, NextHop(t, m.dest), via)
    BY <1>2 DEF Route
  <2>2. NextHop(t, m.dest) \in Around(n)
    <3>1. First(Routes(t, m.dest)) \in Routes(t, m.dest)
      BY <1>2, MentionsInSlots, FirstIsLeast DEF HasRoute
    <3> QED
      BY <3>1 DEF NextHop, Routes, Mentions, Sound
  <2> QED
    BY <1>2, <2>1, <2>2, AroundIsNear, SetTableKeeps, OfferToKeeps
<1>3. CASE m.dest # Broadcast /\ ~HasRoute(t, m.dest)
  BY <1>3, UndeliverableKeeps DEF Route
<1> QED
  BY <1>1, <1>2, <1>3

LEMMA OnwardIsList ==
  ASSUME NEW n, NEW m, m.passed \in Seq(Node), NEW residue \in Residue
  PROVE  Onward(n, m, residue) \in Seq(Address)
<1> DEFINE here == {k \in DOMAIN m.passed : m.passed[k] = n}
<1>1. CASE here = {} \/ First(here) = Len(m.passed)
  <2>1. Onward(n, m, residue) = <<>>
    BY <1>1 DEF Onward
  <2> QED
    BY <2>1
<1>2. CASE ~(here = {} \/ First(here) = Len(m.passed))
  <2>1. here \subseteq Nat /\ \A k \in here : 1 <= k /\ k <= Len(m.passed)
    OBVIOUS
  <2>2. First(here) \in here
    <3> HIDE DEF here
    <3>1. \E x \in here : \A y \in here : x <= y
      BY <1>2, <2>1, LeastExists
    <3> QED
      BY <3>1 DEF First
  <2>3. First(here) \in Nat /\ 1 <= First(here) /\ First(here) <= Len(m.passed)
    BY <2>1, <2>2
  <2> DEFINE rest == SubSeq(m.passed, First(here) + 2, Len(m.passed))
  <2>4. rest \in Seq(Node)
    <3> DEFINE a == First(here) + 2
               l == Len(m.passed)
    <3>0. a \in Nat /\ l \in Nat /\ 1 <= a
      BY <2>3
    <3> HIDE DEF a
    <3>1. \A k \in a .. l : m.passed[k] \in Node
      BY <3>0
    <3> QED
      BY <3>0, <3>1, SubSeqProperties DEF a
  <2>5. rest \in Seq(Address) /\ residue \in Address
    BY <2>4, NodeAssumption, ResidueAssumption
  <2>6. Onward(n, m, residue) = Append(rest, residue)
    BY <1>2 DEF Onward
  <2> HIDE DEF rest
  <2> QED
    BY <2>5, <2>6
<1> QED
  BY <1>1, <1>2

LEMMA PeekedAreSound ==
  ASSUME TablesGood, NEW n \in Node, GoodHeld(slot[n], n), NEW t \in Peeked(n)
  PROVE  Sound(t, Around(n))
<1> DEFINE m == slot[n].msg
           from == slot[n].from
<1>1. Sound(table[n], Around(n)) /\ from \in Around(n) /\ m \in Message
  BY DEF TablesGood, GoodHeld, GoodMessage
<1>2. CASE m.kind = "response"
  <2>1. PICK residue \in Residue :
          t = AddRoutesTo(table[n], <<m.about>> \o Onward(n, m, residue), from)
    BY <1>2 DEF Peeked
  <2>2. <<m.about>> \in Seq(Address) /\ m.passed \in Seq(Node)
    BY <1>1 DEF Message
  <2>3. Onward(n, m, residue) \in Seq(Address)
    BY <2>2, OnwardIsList
  <2>4. <<m.about>> \o Onward(n, m, residue) \in Seq(Address)
    BY <2>2, <2>3
  <2> HIDE DEF m, from
  <2> QED
    BY <1>1, <2>1, <2>4, AroundIsNear, AddRoutesToKeeps
<1>3. CASE m.kind # "response"
  BY <1>1, <1>3, DeleteRouteToKeeps DEF Peeked
<1> QED
  BY <1>2, <1>3

-----------------------------------------------------------------------------
LEMMA InitInv == Init => Inv
<1>1. SUFFICES ASSUME Init PROVE Inv
  OBVIOUS
<1>2. /\ world \in Worlds /\ table = world.wired
      /\ offer = [n \in Node |-> Nothing] /\ slot = [n \in Node |-> Nothing]
      /\ arp = [n \in Node |-> Nothing] /\ cramped = [n \in Node |-> FALSE]
      /\ asked = [n \in Node |-> 0] /\ inbox = [n \in Node |-> <<>>]
  BY <1>1 DEF Init
<1>3. TablesGood
  <2>1. table \in [Node -> Table]
    <3>1. world \in World
      BY <1>2, WorldsAssumption
    <3> QED
      BY <1>2, <3>1 DEF World
  <2>2. ASSUME NEW n \in Node PROVE Sound(table[n], Around(n))
    <3>1. table[n] \in Table
      BY <2>1
    <3>2. \A i \in Slots : table[n][i].valid => table[n][i].hop \in Around(n)
      BY <1>2, WorldFacts DEF Around
    <3> QED
      BY <1>2, <3>1, <3>2, WorldFacts DEF Sound
  <2> QED
    BY <2>1, <2>2 DEF TablesGood
<1>4. OffersGood /\ SlotsGood
  BY <1>2 DEF OffersGood, SlotsGood
<1>5. WaitsGood
  <2>1. \A n \in Node : Len(world.errands[n]) \in Nat
    BY <1>2, WorldFacts
  <2> QED
    BY <1>2, <2>1 DEF WaitsGood
<1> QED
  BY <1>2, <1>3, <1>4, <1>5 DEF Inv

-----------------------------------------------------------------------------
(* One lemma for each part of Inv that an action leaves alone or sets *)

LEMMA Frames ==
  ASSUME Inv, UNCHANGED world
  PROVE  /\ world' \in Worlds
         /\ UNCHANGED table => TablesGood'
         /\ UNCHANGED offer => OffersGood'
         /\ UNCHANGED slot => SlotsGood'
         /\ UNCHANGED <<arp, asked>> => WaitsGood'
<1>1. \A k \in Node : Around(k)' = Around(k)
  BY DEF Around
<1>2. UNCHANGED table => TablesGood'
  BY <1>1 DEF Inv, TablesGood
<1>3. UNCHANGED offer => OffersGood'
  BY <1>1 DEF Inv, OffersGood, GoodOffer
<1>4. UNCHANGED slot => SlotsGood'
  BY <1>1 DEF Inv, SlotsGood, GoodHeld
<1>5. UNCHANGED <<arp, asked>> => WaitsGood'
  BY DEF Inv, WaitsGood
<1> QED
  BY <1>2, <1>3, <1>4, <1>5 DEF Inv

LEMMA SlotKeeps ==
  ASSUME Inv, UNCHANGED world, NEW n \in Node, NEW c,
         c # Nothing => GoodHeld(c, n), slot' = [slot EXCEPT ![n] = c]
  PROVE  SlotsGood'
<1>1. c \in Held \cup {Nothing}
  BY DEF GoodHeld
<1>2. /\ slot' \in [Node -> Held \cup {Nothing}]
      /\ \A k \in Node : slot'[k] = IF k = n THEN c ELSE slot[k]
  BY <1>1 DEF Inv, SlotsGood
<1>3. \A k \in Node : Around(k)' = Around(k)
  BY DEF Around
<1>4. \A k \in Node : slot'[k] # Nothing => GoodHeld(slot'[k], k)
  BY <1>2 DEF Inv, SlotsGood
<1> QED
  BY <1>2, <1>3, <1>4 DEF SlotsGood, GoodHeld

LEMMA ArpKeeps ==
  ASSUME Inv, UNCHANGED <<world, asked>>, NEW n \in Node, arp' = [arp EXCEPT ![n] = Nothing]
  PROVE  WaitsGood'
BY DEF Inv, WaitsGood

LEMMA HeardKeeps ==
  ASSUME Inv, UNCHANGED world, NEW s \in Node, offer[s] # Nothing, NEW h \in SUBSET Node,
         offer' = [offer EXCEPT ![s] = [offer[s] EXCEPT !.heard = h]]
  PROVE  OffersGood'
<1> DEFINE o == [offer[s] EXCEPT !.heard = h]
<1>1. offer[s] \in Offer /\ GoodOffer(offer[s], s)
  BY DEF Inv, OffersGood, GoodOffer
<1>2. /\ o \in Offer /\ o.msg = offer[s].msg /\ o.hop = offer[s].hop /\ o.via = offer[s].via
  BY <1>1 DEF Offer
<1>3. GoodOffer(o, s)
  BY <1>1, <1>2 DEF GoodOffer
<1> QED
  BY <1>3, OneOfferKeeps DEF Inv

\* What recvfromAck() finds and does to the slot.
LEMMA Received ==
  ASSUME Inv, NEW n \in Node, Receive(n)
  PROVE  /\ UNCHANGED <<world, asked>> /\ SlotsGood'
         /\ GoodHeld(slot[n], n) /\ GoodMessage(slot[n].msg) /\ slot[n].msg \in Message
         /\ slot[n].from \in Around(n) /\ slot[n].from \in Node
         /\ \A t \in Peeked(n) : Sound(t, Around(n))
<1>1. UNCHANGED <<world, asked>> /\ slot[n] # Nothing /\ slot' = [slot EXCEPT ![n] = Nothing]
  BY DEF Receive
<1>2. GoodHeld(slot[n], n)
  BY <1>1 DEF Inv, SlotsGood
<1>3. GoodMessage(slot[n].msg) /\ slot[n].msg \in Message /\ slot[n].from \in Around(n)
  BY <1>2 DEF GoodHeld, GoodMessage
<1>4. SlotsGood'
  BY <1>1, SlotKeeps
<1>5. \A t \in Peeked(n) : Sound(t, Around(n))
  BY <1>2, PeekedAreSound DEF Inv
<1> QED
  BY <1>1, <1>2, <1>3, <1>4, <1>5, AroundIsNear

-----------------------------------------------------------------------------
(* One lemma per action *)

LEMMA SendKeeps == ASSUME Inv, NEW n \in Node, Send(n) PROVE Inv'
<1> DEFINE k == asked[n] + 1
           d == world.errands[n][k].dest
<1>1. /\ asked[n] < Len(world.errands[n]) /\ asked' = [asked EXCEPT ![n] = k]
      /\ UNCHANGED <<world, slot, inbox>>
  BY DEF Send
<1>2. /\ world \in Worlds /\ asked \in [Node -> Nat] /\ arp \in [Node -> Node \cup {Nothing}]
      /\ \A j \in Node : asked[j] <= Len(world.errands[j]) /\ (arp[j] # Nothing => asked[j] >= 1)
  BY DEF Inv, WaitsGood
<1>3. \A j \in Node : asked[j] \in Nat /\ Len(world.errands[j]) \in Nat
  BY <1>2, WorldFacts
<1>4. k \in 1 .. Len(world.errands[n]) /\ k \in Nat /\ k >= 1 /\ k <= Len(world.errands[n])
  BY <1>1, <1>3
<1>5. d \in Node \cup {Broadcast} /\ d # n
  <2>1. /\ world.errands[n] \in Seq(Errand)
        /\ \A j \in 1 .. Len(world.errands[n]) : world.errands[n][j].dest # n
    BY <1>2, WorldFacts
  <2>2. world.errands[n][k] \in Errand
    <3> HIDE DEF k
    <3> QED
      BY <1>4, <2>1
  <2> HIDE DEF k
  <2> QED
    BY <1>4, <2>1, <2>2 DEF Errand
<1>6. asked' \in [Node -> Nat] /\ \A j \in Node : asked'[j] = IF j = n THEN k ELSE asked[j]
  <2> HIDE DEF k
  <2> QED
    BY <1>1, <1>2, <1>4
<1>10. \/ UNCHANGED <<table, offer, arp, cramped>>
       \/ /\ d = Broadcast \/ HasRoute(table[n], d)
          /\ Route(n, table[n], Text(n, k), n) /\ UNCHANGED <<arp, cramped>>
       \/ /\ ~(d = Broadcast \/ HasRoute(table[n], d))
          /\ OfferTo(n, Fresh(n, "request", Broadcast, d, <<>>), Broadcast, n) /\ UNCHANGED table
          /\ arp' = [arp EXCEPT ![n] = d] /\ cramped' = [cramped EXCEPT ![n] = FALSE]
  BY DEF Send
<1>9. CASE UNCHANGED <<table, offer, arp, cramped>>
  <2>1. WaitsGood'
    <3> HIDE DEF k
    <3> QED
      BY <1>1, <1>2, <1>4, <1>6, <1>9 DEF WaitsGood
  <2> QED
    BY <1>1, <1>9, <2>1, Frames DEF Inv
<1>7. CASE /\ d = Broadcast \/ HasRoute(table[n], d)
           /\ Route(n, table[n], Text(n, k), n) /\ UNCHANGED <<arp, cramped>>
  <2>1. Route(n, table[n], Text(n, k), n) /\ UNCHANGED <<arp, cramped>>
    BY <1>7
  <2>2. GoodMessage(Text(n, k)) /\ Text(n, k).source = n
    BY <1>2, <1>4, TextIsGood
  <2>3. TablesGood /\ OffersGood /\ Sound(table[n], Around(n))
    BY DEF Inv, TablesGood
  <2>4. TablesGood' /\ OffersGood'
    BY <1>1, <2>1, <2>2, <2>3, RouteKeeps
  <2>5. WaitsGood'
    <3> HIDE DEF k
    <3> QED
      BY <1>1, <1>2, <1>4, <1>6, <2>1 DEF WaitsGood
  <2> QED
    BY <1>1, <2>1, <2>4, <2>5, Frames DEF Inv
<1>8. CASE /\ ~(d = Broadcast \/ HasRoute(table[n], d))
           /\ OfferTo(n, Fresh(n, "request", Broadcast, d, <<>>), Broadcast, n) /\ UNCHANGED table
           /\ arp' = [arp EXCEPT ![n] = d] /\ cramped' = [cramped EXCEPT ![n] = FALSE]
  <2> DEFINE f == Fresh(n, "request", Broadcast, d, <<>>)
  <2>1. /\ OfferTo(n, f, Broadcast, n) /\ UNCHANGED table
        /\ arp' = [arp EXCEPT ![n] = d] /\ cramped' = [cramped EXCEPT ![n] = FALSE]
    BY <1>8
  <2>2. d \in Node /\ d \in Address
    BY <1>5, <1>8, NodeAssumption
  <2>3. GoodMessage(f)
    <3>1. <<>> \in Seq(Node) /\ Len(<<>>) = 0 /\ MaxHops \in Nat
      BY HopsAssumption
    <3>2. /\ Len(<<>>) <= MaxHops /\ \A i, j \in 1 .. Len(<<>>) : <<>>[i] = <<>>[j] => i = j
          /\ \A i \in 1 .. Len(<<>>) : <<>>[i] # n
      BY <3>1
    <3>3. n # Broadcast
      BY NodeAssumption
    <3> HIDE DEF d
    <3> QED
      BY <2>2, <3>1, <3>2, <3>3, FreshIsGood
  <2>4. OffersGood'
    <3> HIDE DEF f
    <3> QED
      BY <1>1, <2>1, <2>3, OfferToKeeps DEF Inv
  <2>5. WaitsGood'
    <3>1. arp' \in [Node -> Node \cup {Nothing}] /\ \A j \in Node : j # n => arp'[j] = arp[j]
      BY <1>2, <2>1, <2>2
    <3> HIDE DEF k
    <3> QED
      BY <1>1, <1>2, <1>4, <1>6, <3>1 DEF WaitsGood
  <2>6. cramped' \in [Node -> BOOLEAN]
    BY <2>1 DEF Inv
  <2> QED
    BY <1>1, <2>1, <2>4, <2>5, <2>6, Frames DEF Inv
<1> QED
  BY <1>7, <1>8, <1>9, <1>10

LEMMA ArpTimeoutKeeps == ASSUME Inv, NEW n \in Node, ArpTimeout(n) PROVE Inv'
BY Frames, ArpKeeps DEF ArpTimeout, Inv

LEMMA HearKeeps == ASSUME Inv, NEW n \in Node, Hear(n) PROVE Inv'
<1>1. PICK s \in Node : /\ <<s, n>> \in world.linked
                        /\ offer[s] # Nothing
                        /\ slot' = [slot EXCEPT ![n] = [msg |-> offer[s].msg, from |-> s]]
                        /\ offer' = [offer EXCEPT ![s].heard = @ \cup {n}]
  BY DEF Hear
<1>2. UNCHANGED <<world, table, arp, cramped, asked, inbox>>
  BY DEF Hear
<1>3. offer[s] \in Offer /\ GoodMessage(offer[s].msg)
  BY <1>1 DEF Inv, OffersGood, GoodOffer
<1>4. GoodHeld([msg |-> offer[s].msg, from |-> s], n)
  BY <1>1, <1>3 DEF GoodHeld, Held, Around, GoodMessage
<1>5. SlotsGood'
  BY <1>1, <1>2, <1>4, SlotKeeps
<1>6. OffersGood'
  <2> DEFINE h == offer[s].heard \cup {n}
  <2>1. h \in SUBSET Node /\ offer' = [offer EXCEPT ![s] = [offer[s] EXCEPT !.heard = h]]
    BY <1>1, <1>3 DEF Offer
  <2> HIDE DEF h
  <2> QED
    BY <1>1, <1>2, <2>1, HeardKeeps
<1> QED
  BY <1>2, <1>5, <1>6, Frames DEF Inv

LEMMA DropKeeps == ASSUME Inv, NEW n \in Node, Drop(n) PROVE Inv'
<1> DEFINE s == slot[n].from
<1>1. /\ slot[n] # Nothing /\ slot' = [slot EXCEPT ![n] = Nothing]
      /\ offer' = IF offer[s] # Nothing /\ offer[s].hop = n
                  THEN [offer EXCEPT ![s].heard = {}] ELSE offer
      /\ UNCHANGED <<world, table, arp, cramped, asked, inbox>>
  BY DEF Drop
<1>2. SlotsGood'
  BY <1>1, SlotKeeps
<1>3. s \in Node
  BY <1>1 DEF Inv, SlotsGood, GoodHeld, Held
<1>4. OffersGood'
  <2>1. CASE offer[s] # Nothing /\ offer[s].hop = n
    <3>1. offer' = [offer EXCEPT ![s] = [offer[s] EXCEPT !.heard = {}]]
      BY <1>1, <2>1
    <3>2. {} \in SUBSET Node
      OBVIOUS
    <3> HIDE DEF s
    <3> QED
      BY <1>1, <1>3, <2>1, <3>1, <3>2, HeardKeeps
  <2>2. CASE ~(offer[s] # Nothing /\ offer[s].hop = n)
    BY <1>1, <2>2, Frames
  <2> QED
    BY <2>1, <2>2
<1> QED
  BY <1>1, <1>2, <1>4, Frames DEF Inv

LEMMA ReturnKeeps == ASSUME Inv, NEW n \in Node, Return(n) PROVE Inv'
BY Frames, OneOfferKeeps DEF Return, Inv

LEMMA GiveUpKeeps == ASSUME Inv, NEW n \in Node, GiveUp(n) PROVE Inv'
<1>1. /\ offer[n] # Nothing /\ offer[n].hop # Broadcast
      /\ Undeliverable(n, table[n], offer[n].msg, offer[n].via)
      /\ UNCHANGED <<world, slot, arp, cramped, asked, inbox>>
  BY DEF GiveUp
<1>2. GoodOffer(offer[n], n) /\ TablesGood /\ OffersGood /\ Sound(table[n], Around(n))
  BY <1>1 DEF Inv, OffersGood, TablesGood
<1>3. /\ GoodMessage(offer[n].msg) /\ offer[n].msg.dest # Broadcast /\ offer[n].via \in Node
      /\ offer[n].msg.source # n => offer[n].via \in Around(n)
  BY <1>1, <1>2 DEF GoodOffer, Offer
<1>4. TablesGood' /\ OffersGood'
  BY <1>1, <1>2, <1>3, UndeliverableKeeps
<1> QED
  BY <1>1, <1>4, Frames DEF Inv

LEMMA RelayKeeps == ASSUME Inv, NEW n \in Node, Relay(n) PROVE Inv'
<1> DEFINE m == slot[n].msg
           next == [m EXCEPT !.hops = @ + 1]
<1>1. Receive(n) /\ UNCHANGED <<arp, cramped, inbox>>
  BY DEF Relay
<1>2. PICK t \in Peeked(n) : IF m.hops < MaxHops THEN Route(n, t, next, slot[n].from)
                             ELSE SetTable(n, t) /\ UNCHANGED offer
  BY DEF Relay
<1>3. TablesGood' /\ OffersGood'
  <2>1. CASE m.hops < MaxHops
    <3>1. m.hops \in Nat /\ m.hops + 1 <= MaxHops /\ m.hops + 1 \in 0 .. 255
      <4>1. m.hops \in 0 .. 255
        BY <1>1, Received DEF Message
      <4> HIDE DEF m
      <4> QED
        BY <2>1, <4>1, HopsAssumption
    <3>2. GoodMessage(m) /\ m \in Message
      BY <1>1, Received
    <3>3. next \in Message
      BY <3>1, <3>2 DEF Message
    <3>4. /\ next.hops = m.hops + 1 /\ next.passed = m.passed /\ next.kind = m.kind
          /\ next.source = m.source /\ next.dest = m.dest
      BY <3>2 DEF Message
    <3>5. GoodMessage(next)
      <4> HIDE DEF m, next
      <4> QED
        BY <3>1, <3>2, <3>3, <3>4 DEF GoodMessage
    <3>6. Route(n, t, next, slot[n].from)
      BY <1>2, <2>1
    <3> HIDE DEF next
    <3> QED
      BY <1>1, <3>5, <3>6, Received, RouteKeeps DEF Inv
  <2>2. CASE ~(m.hops < MaxHops)
    BY <1>1, <1>2, <2>2, Received, Frames, SetTableKeeps DEF Inv
  <2> QED
    BY <2>1, <2>2
<1> QED
  BY <1>1, <1>3, Received, Frames DEF Receive, Inv

LEMMA RouteFoundKeeps == ASSUME Inv, NEW n \in Node, RouteFound(n) PROVE Inv'
<1> DEFINE from == slot[n].from
<1>1. /\ arp[n] # Nothing /\ Receive(n) /\ arp' = [arp EXCEPT ![n] = Nothing]
      /\ UNCHANGED <<cramped, inbox>>
  BY DEF RouteFound
<1>2. PICK t \in Peeked(n) : Route(n, AddRouteTo(t, arp[n], from), Text(n, asked[n]), n)
  BY DEF RouteFound
<1>3. arp[n] \in Address /\ from \in Around(n) /\ Sound(t, Around(n))
  <2>1. arp[n] \in Node
    BY <1>1 DEF Inv, WaitsGood
  <2> QED
    BY <1>1, <2>1, Received, NodeAssumption
<1>4. Sound(AddRouteTo(t, arp[n], from), Around(n))
  BY <1>3, AroundIsNear, AddRouteToKeeps
<1>5. asked[n] \in 1 .. Len(world.errands[n]) /\ world \in Worlds
  <2>1. /\ world \in Worlds /\ asked[n] \in Nat
        /\ asked[n] <= Len(world.errands[n]) /\ asked[n] >= 1
    BY <1>1 DEF Inv, WaitsGood
  <2>2. Len(world.errands[n]) \in Nat
    BY <2>1, WorldFacts
  <2> QED
    BY <2>1, <2>2
<1>6. GoodMessage(Text(n, asked[n])) /\ Text(n, asked[n]).source = n
  BY <1>5, TextIsGood
<1>7. TablesGood' /\ OffersGood'
  <2> HIDE DEF from
  <2>1. TablesGood /\ OffersGood /\ UNCHANGED world
    BY <1>1, Received DEF Inv
  <2> QED
    BY <1>2, <1>4, <1>6, <2>1, RouteKeeps
<1>8. WaitsGood'
  BY <1>1, Received, ArpKeeps
<1> QED
  BY <1>1, <1>7, <1>8, Received, Frames DEF Inv

LEMMA SwallowKeeps == ASSUME Inv, NEW n \in Node, Swallow(n) PROVE Inv'
<1>1. /\ Receive(n) /\ UNCHANGED <<offer, arp, inbox>>
      /\ cramped' = [cramped EXCEPT ![n] = @ \/ slot[n].msg.kind = "empty"]
  BY DEF Swallow
<1>2. PICK t \in Peeked(n) : SetTable(n, t)
  BY DEF Swallow
<1>3. TablesGood'
  BY <1>1, <1>2, Received, SetTableKeeps DEF Inv
<1>4. cramped' \in [Node -> BOOLEAN]
  BY <1>1 DEF Inv
<1> QED
  BY <1>1, <1>3, <1>4, Received, Frames DEF Inv

LEMMA DeliverKeeps == ASSUME Inv, NEW n \in Node, Deliver(n) PROVE Inv'
<1>1. /\ Receive(n) /\ UNCHANGED <<table, offer, arp, cramped>>
      /\ inbox' = [inbox EXCEPT ![n] = Append(@, <<slot[n].msg.source, slot[n].msg.n>>)]
  BY DEF Deliver
<1>2. slot[n].msg.source \in Node /\ slot[n].msg.n \in Nat
  BY <1>1, Received DEF Message
<1>3. inbox' \in [Node -> Seq(Node \X Nat)]
  BY <1>1, <1>2 DEF Inv
<1> QED
  BY <1>1, <1>3, Received, Frames DEF Inv

LEMMA HandleRequestKeeps == ASSUME Inv, NEW n \in Node, HandleRequest(n) PROVE Inv'
<1> DEFINE m == slot[n].msg
           from == slot[n].from
           learnt == AddRoutesTo(table[n], <<m.source>> \o m.passed, from)
           answer == Fresh(n, "response", m.source, n, m.passed)
           onward == Fresh(m.source, "request", Broadcast, m.about, Append(m.passed, n))
<1>1. /\ Receive(n) /\ m.dest = Broadcast /\ m.kind = "request" /\ ~AlreadyPassed(n, m)
      /\ UNCHANGED <<arp, cramped, inbox>>
  BY DEF HandleRequest
<1>2. \/ Route(n, learnt, answer, n)
      \/ Len(m.passed) < MaxHops /\ Route(n, learnt, onward, n)
      \/ SetTable(n, learnt) /\ UNCHANGED offer
  BY DEF HandleRequest
<1>3. GoodMessage(m) /\ m \in Message /\ from \in Around(n)
  BY <1>1, Received
<1>4. /\ m.source \in Node /\ m.source \in Address /\ m.about \in Address
      /\ m.passed \in Seq(Node) /\ m.passed \in Seq(Address) /\ n \in Address
  BY <1>3, NodeAssumption DEF Message
<1>5. m.source # n /\ \A i \in 1 .. Len(m.passed) : m.passed[i] # n
  BY <1>1, <1>4 DEF AlreadyPassed
<1>6. /\ Len(m.passed) <= MaxHops
      /\ \A i, j \in 1 .. Len(m.passed) : m.passed[i] = m.passed[j] => i = j
      /\ \A i \in 1 .. Len(m.passed) : m.passed[i] # m.source
  BY <1>1, <1>3 DEF GoodMessage
<1>7. Sound(learnt, Around(n))
  <2>1. <<m.source>> \o m.passed \in Seq(Address)
    BY <1>4
  <2>2. Sound(table[n], Around(n))
    BY DEF Inv, TablesGood
  <2> HIDE DEF m, from
  <2> QED
    BY <1>3, <2>1, <2>2, AroundIsNear, AddRoutesToKeeps
<1>8. GoodMessage(answer) /\ answer.source = n
  <2> HIDE DEF m
  <2>1. GoodMessage(answer)
    BY <1>4, <1>5, <1>6, FreshIsGood
  <2> QED
    BY <2>1 DEF Fresh
<1>9. Len(m.passed) < MaxHops => GoodMessage(onward)
  <2> DEFINE p == Append(m.passed, n)
  <2>1. SUFFICES ASSUME Len(m.passed) < MaxHops PROVE GoodMessage(onward)
    OBVIOUS
  <2>2. p \in Seq(Node) /\ Len(p) = Len(m.passed) + 1 /\ Len(m.passed) \in Nat
    BY <1>4
  <2>3. /\ p[Len(p)] = n
        /\ \A i \in 1 .. Len(p) : i # Len(p) => i \in 1 .. Len(m.passed) /\ p[i] = m.passed[i]
    <3>1. \A q \in Seq(Node) : LET r == Append(q, n) IN
            /\ Len(r) = Len(q) + 1 /\ r[Len(q) + 1] = n
            /\ \A i \in 1 .. Len(q) : r[i] = q[i]
      OBVIOUS
    <3>2. \A i \in 1 .. Len(p) : i # Len(p) => i \in 1 .. Len(m.passed)
      <4> HIDE DEF p, m
      <4> QED
        BY <2>2
    <3> HIDE DEF m
    <3> QED
      BY <1>4, <2>2, <3>1, <3>2
  <2>4. Len(p) <= MaxHops
    BY <2>1, <2>2, HopsAssumption
  <2>5. /\ \A i, j \in 1 .. Len(p) : p[i] = p[j] => i = j
        /\ \A i \in 1 .. Len(p) : p[i] # m.source
    <3> HIDE DEF p, m
    <3> QED
      BY <1>5, <1>6, <2>3
  <2>6. m.source # Broadcast
    BY <1>4, NodeAssumption
  <2> HIDE DEF p, m
  <2>7. GoodMessage(Fresh(m.source, "request", Broadcast, m.about, p))
    BY <1>4, <2>2, <2>4, <2>5, <2>6, FreshIsGood
  <2> QED
    BY <2>7 DEF p
<1>10. m.source = onward.source /\ onward.dest = Broadcast
  BY DEF Fresh
<1>11. TablesGood /\ OffersGood /\ UNCHANGED world
  BY <1>1, Received DEF Inv
<1>12. TablesGood' /\ OffersGood'
  <2> HIDE DEF learnt, answer, onward
  <2>1. CASE Route(n, learnt, answer, n)
    BY <1>7, <1>8, <1>11, <2>1, RouteKeeps
  <2>2. CASE Len(m.passed) < MaxHops /\ Route(n, learnt, onward, n)
    <3>1. SetTable(n, learnt) /\ OfferTo(n, onward, Broadcast, n)
      BY <1>10, <2>2 DEF Route
    <3> QED
      BY <1>7, <1>9, <1>11, <2>2, <3>1, SetTableKeeps, OfferToKeeps
  <2>3. CASE SetTable(n, learnt) /\ UNCHANGED offer
    BY <1>7, <1>11, <2>3, SetTableKeeps, Frames
  <2> QED
    BY <1>2, <2>1, <2>2, <2>3
<1> QED
  BY <1>1, <1>11, <1>12, Received, Frames DEF Inv, Receive

LEMMA IgnoreRequestKeeps == ASSUME Inv, NEW n \in Node, IgnoreRequest(n) PROVE Inv'
<1>1. Receive(n) /\ UNCHANGED <<table, offer, arp, cramped, inbox>>
  BY DEF IgnoreRequest
<1> QED
  BY <1>1, Received, Frames DEF Inv

LEMMA PeekOnlyKeeps == ASSUME Inv, NEW n \in Node, PeekOnly(n) PROVE Inv'
<1>1. Receive(n) /\ UNCHANGED <<offer, arp, cramped, inbox>>
  BY DEF PeekOnly
<1>2. PICK t \in Peeked(n) : SetTable(n, t)
  BY DEF PeekOnly
<1>3. TablesGood'
  BY <1>1, <1>2, Received, SetTableKeeps DEF Inv
<1> QED
  BY <1>1, <1>3, Received, Frames DEF Inv

LEMMA StepInv == Inv /\ [Next]_vars => Inv'
<1>1. SUFFICES ASSUME Inv, [Next]_vars PROVE Inv'
  OBVIOUS
<1>2. CASE UNCHANGED vars
  <2>1. UNCHANGED <<world, table, offer, slot, arp, cramped, asked, inbox>>
    BY <1>2 DEF vars
  <2> QED
    BY <1>1, <2>1, Frames DEF Inv
<1>3. CASE Next
  <2>1. PICK n \in Node : Send(n) \/ ArpTimeout(n) \/ Hear(n) \/ Drop(n) \/ Return(n)
                            \/ GiveUp(n) \/ Handle(n)
    BY <1>3 DEF Next
  <2>2. CASE Handle(n)
    BY <1>1, <2>2, RelayKeeps, RouteFoundKeeps, SwallowKeeps, DeliverKeeps,
       HandleRequestKeeps, IgnoreRequestKeeps, PeekOnlyKeeps DEF Handle
  <2> QED
    BY <1>1, <2>1, <2>2, SendKeeps, ArpTimeoutKeeps, HearKeeps, DropKeeps, ReturnKeeps, GiveUpKeeps
<1> QED
  BY <1>1, <1>2, <1>3

LEMMA AlwaysInv == Spec => []Inv
BY InitInv, StepInv, PTL DEF Spec

-----------------------------------------------------------------------------
\* Every variable of RHRouter and RHMesh keeps its type.
THEOREM MeshTypeOK == Spec => []TypeOK
<1>1. Inv => TypeOK
  BY DEF Inv, TablesGood, OffersGood, SlotsGood, WaitsGood, TypeOK
<1> QED
  BY <1>1, AlwaysInv, PTL

\* RHRouter.cpp: in no routing table are there two routes to one destination or
\* a dead entry in front of a live one, however routes were learnt and deleted.
THEOREM MeshTablesSound == Spec => []TablesSound
<1>1. Inv => TablesSound
  BY DEF Inv, TablesGood, Sound, TablesSound
<1> QED
  BY <1>1, AlwaysInv, PTL

\* RHMesh.h, "This prevents broadcast storms": requests and responses name no
\* node twice, and a request has not passed the node that asked.
THEOREM MeshNoNodePassedTwice == Spec => []NoNodePassedTwice
<1>1. Inv => \A m \in Messages : GoodMessage(m)
  BY DEF Inv, OffersGood, SlotsGood, GoodOffer, GoodHeld, Messages
<1>2. ASSUME NEW m, GoodMessage(m) PROVE DOMAIN m.passed = 1 .. Len(m.passed)
  BY <1>2 DEF GoodMessage, Message
<1>3. Inv => NoNodePassedTwice
  BY <1>1, <1>2 DEF GoodMessage, NoNodePassedTwice
<1> QED
  BY <1>3, AlwaysInv, PTL

\* Routing loops do arise; setMaxHops() still bounds how long a message lives.
THEOREM MeshHopsLimited == Spec => []HopsLimited
<1>1. Inv => \A m \in Messages : GoodMessage(m)
  BY DEF Inv, OffersGood, SlotsGood, GoodOffer, GoodHeld, Messages
<1>2. Inv => HopsLimited
  BY <1>1 DEF GoodMessage, HopsLimited
<1> QED
  BY <1>2, AlwaysInv, PTL

\* Misread lists of nodes and answers to somebody else's question give a node
\* useless routes, but never a next hop that it cannot hear.
THEOREM MeshNextHopsInRange == Spec => []NextHopsInRange
<1>1. Inv => NextHopsInRange
  BY DEF Inv, TablesGood, Sound, Around, NextHopsInRange
<1> QED
  BY <1>1, AlwaysInv, PTL

\* RHMesh::route(): a message that could not be handed on leaves no route to its
\* destination behind, also when the failure report is routed at once.
THEOREM MeshFailedRouteForgotten == Spec => FailedRouteForgotten
<1>1. ASSUME Inv, NEW n \in Node, GiveUp(n)
      PROVE  ~HasRoute(table'[n], offer[n].msg.dest)
  <2> DEFINE m == offer[n].msg
             u == DeleteRouteTo(table[n], m.dest)
  <2>1. /\ offer[n] # Nothing /\ offer[n].hop # Broadcast
        /\ Undeliverable(n, table[n], m, offer[n].via)
    BY <1>1 DEF GiveUp
  <2>2. Sound(table[n], Around(n)) /\ table \in [Node -> Table] /\ GoodMessage(m)
    BY <1>1, <2>1 DEF Inv, TablesGood, OffersGood, GoodOffer
  <2>3. Sound(u, Around(n)) /\ ~HasRoute(u, m.dest)
    BY <2>2, DeleteRouteToKeeps, DeleteRouteToForgets
  <2>4. CASE m.source = n
    BY <2>1, <2>2, <2>3, <2>4 DEF Undeliverable, SetTable
  <2>5. CASE m.source # n
    <3>1. table'[n] = AddRouteTo(u, m.source, offer[n].via)
      BY <2>1, <2>2, <2>5 DEF Undeliverable, SetTable
    <3>2. m.source # m.dest
      BY <2>2 DEF GoodMessage
    <3> QED
      BY <2>3, <3>1, <3>2, AddRouteToOthers
  <2> QED
    BY <2>4, <2>5
<1>2. Inv /\ [Next]_vars => [\A n \in Node : GiveUp(n) => ~HasRoute(table'[n], offer[n].msg.dest)]_vars
  BY <1>1
<1> QED
  BY <1>2, AlwaysInv, PTL DEF Spec, FailedRouteForgotten

-----------------------------------------------------------------------------
(* Text k of the program of s: x is an offer, what a slot holds, or Nothing. *)

Is(m, s, k) == m.kind \in Texts /\ m.source = s /\ m.n = k
Has(x, s, k) == x # Nothing /\ Is(x.msg, s, k)

\* What sendtoWait() offers can no longer be heard by d, if it is for all, and by nobody
\* if it is for one.
Over(o, d) == IF o.hop = Broadcast THEN d \in o.heard ELSE o.hop \in o.heard
Open(o, d, s, k) == Has(o, s, k) /\ ~Over(o, d)

Came(d, s, k) == \E i \in DOMAIN inbox[d] : inbox[d][i] = <<s, k>>
ToAll(s, k) == world.errands[s][k].dest = Broadcast
Sent(s, k) == k \in 1 .. asked[s] /\ (arp[s] # Nothing => k < asked[s])

\* No text is on the way before it is sent, and one for all is not sent to one.
Known ==
  \A x, s \in Node, k \in Nat :
    /\ Has(offer[x], s, k) =>
         /\ Sent(s, k)
         /\ offer[x].msg.dest = Broadcast <=> ToAll(s, k)
         /\ offer[x].hop = Broadcast <=> ToAll(s, k)
    /\ Has(slot[x], s, k) => Sent(s, k) /\ (slot[x].msg.dest = Broadcast <=> ToAll(s, k))
    /\ Came(x, s, k) => Sent(s, k)

\* For each node d, a text is in one place only from which it may still reach d's program,
\* or has reached it: a hop that is still open, a radio, the program.
Apart ==
  \A d, s \in Node, k \in Nat :
    /\ \A o \in Node : Open(offer[o], d, s, k) => ~Has(slot[d], s, k) /\ ~Came(d, s, k)
    /\ \A o, p \in Node : Open(offer[o], d, s, k) /\ Open(offer[p], d, s, k) => o = p
    /\ \A h \in Node : Has(slot[h], s, k) /\ (h = d \/ ~ToAll(s, k)) =>
         ~Came(d, s, k) /\ (Has(slot[d], s, k) => h = d)

\* What the next hop has heard and not yet taken is what is offered, so that dropping it
\* opens the right hop again.
Latest ==
  \A o, d \in Node :
    /\ offer[o] # Nothing /\ offer[o].hop = d /\ d \in offer[o].heard
    /\ slot[d] # Nothing /\ slot[d].from = o
    => slot[d].msg = offer[o].msg

OneCopy == Known /\ Apart /\ Latest /\ NoTextTwice

\* A new hop without a text.
Textless(o) == o # Nothing => o.msg.kind \notin Texts /\ o.heard = {}

LEMMA InitOneCopy == Init => OneCopy
<1>1. SUFFICES ASSUME Init PROVE OneCopy
  OBVIOUS
<1>2. \A x \in Node : offer[x] = Nothing /\ slot[x] = Nothing /\ inbox[x] = <<>>
  BY <1>1 DEF Init
<1>3. \A x \in Node : DOMAIN inbox[x] = {}
  BY <1>2
<1>4. Known /\ Apart
  BY <1>2, <1>3 DEF Known, Apart, Open, Has, Came
<1> QED
  BY <1>2, <1>3, <1>4 DEF OneCopy, Latest, NoTextTwice

\* A step that at most loses texts, or repeats an offer that nobody has taken.
LEMMA LosingKeeps ==
  ASSUME OneCopy, UNCHANGED <<world, inbox>>,
         \A x \in Node : \/ offer'[x] = offer[x]
                         \/ Textless(offer'[x])
                         \/ /\ offer[x] # Nothing /\ offer'[x] # Nothing
                            /\ offer'[x].msg = offer[x].msg /\ offer'[x].hop = offer[x].hop
                            /\ offer[x].hop # Broadcast
                            /\ offer[x].hop \notin offer[x].heard /\ offer'[x].heard = {},
         \A x \in Node : slot'[x] \in {slot[x], Nothing},
         \A s \in Node, k \in Nat : Sent(s, k) => Sent(s, k)'
  PROVE  OneCopy'
<1>1. \A x, s \in Node, k \in Nat : /\ ToAll(s, k)' = ToAll(s, k)
                                    /\ Came(x, s, k)' <=> Came(x, s, k)
  BY DEF ToAll, Came
<1>2. ASSUME NEW x \in Node, NEW s \in Node, NEW k \in Nat, Has(offer'[x], s, k)
      PROVE  /\ Has(offer[x], s, k)
             /\ offer'[x].msg = offer[x].msg /\ offer'[x].hop = offer[x].hop
             /\ \A d \in Node : Over(offer'[x], d) <=> Over(offer[x], d)
  BY <1>2 DEF Has, Is, Textless, Over
<1>3. \A x, s \in Node, k \in Nat : Has(slot'[x], s, k) => slot'[x] = slot[x]
  BY DEF Has
<1>4. Known'
  BY <1>1, <1>2, <1>3 DEF OneCopy, Known
<1>5. Apart'
  BY <1>1, <1>2, <1>3 DEF OneCopy, Apart, Open
<1>6. Latest'
  BY DEF OneCopy, Latest, Textless
<1>7. NoTextTwice'
  BY DEF OneCopy, NoTextTwice
<1> QED
  BY <1>4, <1>5, <1>6, <1>7 DEF OneCopy

\* A step that opens a hop for a text that is nowhere else.
LEMMA OpeningKeeps ==
  ASSUME OneCopy, UNCHANGED <<world, inbox>>,
         NEW n \in Node, NEW s0 \in Node, NEW k0 \in Nat,
         \A x \in Node : x # n => offer'[x] = offer[x],
         Has(offer'[n], s0, k0), offer'[n].heard = {},
         offer'[n].msg.dest = Broadcast <=> ToAll(s0, k0),
         offer'[n].hop = Broadcast <=> ToAll(s0, k0),
         \A x \in Node : slot'[x] \in {slot[x], Nothing},
         \A s \in Node, k \in Nat : Sent(s, k) => Sent(s, k)',
         Sent(s0, k0)',
         \A x, d \in Node : /\ x # n => ~Open(offer[x], d, s0, k0)
                            /\ ~Has(slot'[d], s0, k0) /\ ~Came(d, s0, k0)
  PROVE  OneCopy'
<1>1. \A x, s \in Node, k \in Nat : /\ ToAll(s, k)' = ToAll(s, k)
                                    /\ Came(x, s, k)' <=> Came(x, s, k)
  BY DEF ToAll, Came
<1>2. ASSUME NEW s \in Node, NEW k \in Nat, Has(offer'[n], s, k)
      PROVE  s = s0 /\ k = k0
  BY <1>2 DEF Has, Is
<1>3. \A x, s \in Node, k \in Nat : Has(slot'[x], s, k) => slot'[x] = slot[x]
  BY DEF Has
<1>4. Known'
  BY <1>1, <1>2, <1>3 DEF OneCopy, Known
<1>5. Apart'
  BY <1>1, <1>2, <1>3 DEF OneCopy, Apart, Open
<1>6. Latest'
  BY DEF OneCopy, Latest
<1>7. NoTextTwice'
  BY DEF OneCopy, NoTextTwice
<1> QED
  BY <1>4, <1>5, <1>6, <1>7 DEF OneCopy


\* Where no hop is possible none is left open for the message.
LEMMA UndeliverableIsTextless ==
  ASSUME Inv, NEW n \in Node, NEW t, NEW m, NEW via, Undeliverable(n, t, m, via)
  PROVE  Textless(offer'[n]) /\ \A x \in Node : x # n => offer'[x] = offer[x]
<1>1. offer \in [Node -> Offer \cup {Nothing}]
  BY DEF Inv, OffersGood
<1>2. CASE m.source = n
  BY <1>1, <1>2 DEF Undeliverable, Textless
<1>3. CASE m.source # n
  <2>1. OfferTo(n, Fresh(n, "failure", m.source, m.dest, <<>>), via, n)
    BY <1>3 DEF Undeliverable
  <2>2. /\ offer'[n] = [msg |-> Fresh(n, "failure", m.source, m.dest, <<>>), hop |-> via,
                        via |-> n, heard |-> {}]
        /\ \A x \in Node : x # n => offer'[x] = offer[x]
    BY <1>1, <2>1 DEF OfferTo
  <2> QED
    BY <2>2 DEF Textless, Fresh, Texts
<1> QED
  BY <1>2, <1>3

\* The one hop that route() leaves open is the message's own, or bears no text.
LEMMA RouteAnyOpens ==
  ASSUME Inv, NEW n \in Node, NEW t, NEW m, NEW via, Route(n, t, m, via)
  PROVE  /\ \A x \in Node : x # n => offer'[x] = offer[x]
         /\ \/ Textless(offer'[n])
            \/ /\ offer'[n] # Nothing /\ offer'[n].msg = m /\ offer'[n].heard = {}
               /\ \/ m.dest = Broadcast /\ offer'[n].hop = Broadcast
                  \/ /\ m.dest # Broadcast /\ HasRoute(t, m.dest)
                     /\ offer'[n].hop = NextHop(t, m.dest)
<1>1. offer \in [Node -> Offer \cup {Nothing}]
  BY DEF Inv, OffersGood
<1>2. ASSUME NEW hop, OfferTo(n, m, hop, via)
      PROVE  /\ \A x \in Node : x # n => offer'[x] = offer[x]
             /\ offer'[n].msg = m /\ offer'[n].heard = {} /\ offer'[n].hop = hop
  <2>1. /\ offer'[n] = [msg |-> m, hop |-> hop, via |-> via, heard |-> {}]
        /\ \A x \in Node : x # n => offer'[x] = offer[x]
    BY <1>1, <1>2 DEF OfferTo
  <2> QED
    BY <2>1
<1>3. CASE m.dest = Broadcast
  BY <1>2, <1>3 DEF Route, Textless
<1>4. CASE m.dest # Broadcast /\ HasRoute(t, m.dest)
  BY <1>2, <1>4 DEF Route, Textless
<1>5. CASE m.dest # Broadcast /\ ~HasRoute(t, m.dest)
  BY <1>5, UndeliverableIsTextless DEF Route
<1> QED
  BY <1>3, <1>4, <1>5

LEMMA RouteOpens ==
  ASSUME Inv, NEW n \in Node, NEW t, Sound(t, Around(n)), NEW m, NEW via, Route(n, t, m, via)
  PROVE  /\ \A x \in Node : x # n => offer'[x] = offer[x]
         /\ \/ Textless(offer'[n])
            \/ /\ offer'[n] # Nothing /\ offer'[n].msg = m /\ offer'[n].heard = {}
               /\ offer'[n].hop = Broadcast <=> m.dest = Broadcast
<1>1. ASSUME HasRoute(t, m.dest)
      PROVE  NextHop(t, m.dest) # Broadcast
  <2>1. First(Routes(t, m.dest)) \in Routes(t, m.dest)
    BY <1>1, MentionsInSlots, FirstIsLeast DEF HasRoute
  <2>2. NextHop(t, m.dest) \in Around(n)
    BY <2>1 DEF NextHop, Routes, Mentions, Sound
  <2> QED
    BY <2>2, AroundIsNear, NodeAssumption
<1> QED
  BY <1>1, RouteAnyOpens

LEMMA HearOnce == ASSUME Inv, OneCopy, NEW n \in Node, Hear(n) PROVE OneCopy'
<1> USE DEF OneCopy
<1>1. /\ slot[n] = Nothing
      /\ UNCHANGED <<world, table, arp, cramped, asked, inbox>>
  BY DEF Hear
<1>2. PICK s \in Node : /\ offer[s] # Nothing /\ offer[s].hop \in {n, Broadcast}
                        /\ n \notin offer[s].heard
                        /\ slot' = [slot EXCEPT ![n] = [msg |-> offer[s].msg, from |-> s]]
                        /\ offer' = [offer EXCEPT ![s].heard = @ \cup {n}]
  BY DEF Hear
<1>3. /\ offer \in [Node -> Offer \cup {Nothing}] /\ slot \in [Node -> Held \cup {Nothing}]
      /\ offer[s] \in Offer
  BY <1>2 DEF Inv, OffersGood, SlotsGood
<1>4. /\ \A x \in Node : x # s => offer'[x] = offer[x]
      /\ offer'[s].msg = offer[s].msg /\ offer'[s].hop = offer[s].hop
      /\ offer'[s].heard = offer[s].heard \cup {n} /\ offer'[s] # Nothing
  BY <1>2, <1>3, NothingAssumption DEF Offer
<1>5. /\ \A x \in Node : x # n => slot'[x] = slot[x]
      /\ slot'[n].msg = offer[s].msg /\ slot'[n].from = s
  BY <1>2, <1>3
<1>6. \A x, q \in Node, k \in Nat : /\ ToAll(q, k)' = ToAll(q, k)
                                    /\ Came(x, q, k)' <=> Came(x, q, k)
                                    /\ Sent(q, k)' <=> Sent(q, k)
  BY <1>1 DEF ToAll, Came, Sent
<1>7. \A x, q \in Node, k \in Nat : Has(offer'[x], q, k) <=> Has(offer[x], q, k)
  BY <1>2, <1>4 DEF Has
<1>8. \A q \in Node, k \in Nat : Has(slot'[n], q, k) => Has(offer[s], q, k)
  BY <1>2, <1>5 DEF Has
<1>9. Known'
  BY <1>4, <1>5, <1>6, <1>7, <1>8 DEF Known
<1>10. ASSUME NEW o \in Node, NEW d \in Node, NEW q \in Node, NEW k \in Nat,
              Open(offer'[o], d, q, k)
       PROVE  Open(offer[o], d, q, k) /\ ~(o = s /\ (d = n \/ ~ToAll(q, k)))
  <2>1. Has(offer[o], q, k)
    BY <1>7, <1>10 DEF Open
  <2>2. CASE o # s
    BY <1>4, <1>10, <2>2
  <2>3. CASE o = s
    <3>1. ~Over(offer'[s], d) /\ (offer[s].hop = Broadcast <=> ToAll(q, k))
      BY <1>10, <2>1, <2>3 DEF Open, Known
    <3> QED
      BY <1>2, <1>4, <2>1, <2>3, <3>1 DEF Over, Open
  <2> QED
    BY <2>2, <2>3
<1>11. ASSUME NEW d \in Node, NEW q \in Node, NEW k \in Nat, Has(slot'[n], q, k)
       PROVE  Open(offer[s], n, q, k) /\ (~ToAll(q, k) => Open(offer[s], d, q, k))
  BY <1>2, <1>8, <1>11 DEF Open, Over, Known
<1>12. Apart'
  <2> SUFFICES ASSUME NEW d \in Node, NEW q \in Node, NEW k \in Nat
               PROVE  /\ \A o \in Node : Open(offer'[o], d, q, k) =>
                           ~Has(slot'[d], q, k) /\ ~Came(d, q, k)
                      /\ \A o, p \in Node :
                           Open(offer'[o], d, q, k) /\ Open(offer'[p], d, q, k) => o = p
                      /\ \A h \in Node : Has(slot'[h], q, k) /\ (h = d \/ ~ToAll(q, k)) =>
                           ~Came(d, q, k) /\ (Has(slot'[d], q, k) => h = d)
    BY <1>6 DEF Apart
  <2>1. ASSUME NEW o \in Node, Open(offer'[o], d, q, k)
        PROVE  ~Has(slot'[d], q, k) /\ ~Came(d, q, k)
    <3>1. Open(offer[o], d, q, k) /\ ~(o = s /\ (d = n \/ ~ToAll(q, k)))
      BY <1>10, <2>1
    <3>2. CASE d # n
      BY <1>5, <3>1, <3>2 DEF Apart
    <3>3. CASE d = n
      BY <1>11, <3>1, <3>3 DEF Apart
    <3> QED
      BY <3>2, <3>3
  <2>2. ASSUME NEW o \in Node, NEW p \in Node, Open(offer'[o], d, q, k), Open(offer'[p], d, q, k)
        PROVE  o = p
    BY <1>10, <2>2 DEF Apart
  <2>3. ASSUME NEW h \in Node, Has(slot'[h], q, k), h = d \/ ~ToAll(q, k)
        PROVE  ~Came(d, q, k) /\ (Has(slot'[d], q, k) => h = d)
    <3>1. CASE h # n /\ d # n
      BY <1>5, <2>3, <3>1 DEF Apart
    <3>2. CASE h = n
      <4>1. Open(offer[s], d, q, k)
        BY <1>11, <2>3, <3>2
      <4> QED
        BY <1>5, <3>2, <4>1 DEF Apart
    <3>3. CASE h # n /\ d = n
      <4>1. Has(slot[h], q, k) /\ ~ToAll(q, k) /\ ~Came(d, q, k)
        BY <1>5, <2>3, <3>3 DEF Apart
      <4>2. ~Has(slot'[n], q, k)
        BY <1>11, <4>1 DEF Apart
      <4> QED
        BY <3>3, <4>1, <4>2
    <3> QED
      BY <3>1, <3>2, <3>3
  <2> QED
    BY <2>1, <2>2, <2>3
<1>13. Latest'
  <2> SUFFICES ASSUME NEW o \in Node, NEW d \in Node, offer'[o] # Nothing, offer'[o].hop = d,
                      d \in offer'[o].heard, slot'[d] # Nothing, slot'[d].from = o
               PROVE  slot'[d].msg = offer'[o].msg
    BY DEF Latest
  <2>1. CASE d = n
    <3>1. o = s
      BY <1>5, <2>1
    <3> QED
      BY <1>4, <1>5, <2>1, <3>1
  <2>2. CASE d # n
    <3>1. slot[d] # Nothing /\ slot[d].from = o /\ slot'[d] = slot[d]
      BY <1>5, <2>2
    <3>2. offer[o] # Nothing /\ offer[o].hop = d /\ d \in offer[o].heard /\ offer'[o].msg = offer[o].msg
      BY <1>2, <1>4, <2>2
    <3> QED
      BY <3>1, <3>2 DEF Latest
  <2> QED
    BY <2>1, <2>2
<1>14. NoTextTwice'
  BY <1>1 DEF NoTextTwice
<1> QED
  BY <1>9, <1>12, <1>13, <1>14

LEMMA DropOnce == ASSUME Inv, OneCopy, NEW n \in Node, Drop(n) PROVE OneCopy'
<1> DEFINE s == slot[n].from
<1>1. /\ slot[n] # Nothing /\ slot' = [slot EXCEPT ![n] = Nothing]
      /\ offer' = IF offer[s] # Nothing /\ offer[s].hop = n
                  THEN [offer EXCEPT ![s].heard = {}] ELSE offer
      /\ UNCHANGED <<world, table, arp, cramped, asked, inbox>>
  BY DEF Drop
<1>2. /\ offer \in [Node -> Offer \cup {Nothing}] /\ slot \in [Node -> Held \cup {Nothing}]
      /\ slot[n] \in Held /\ s \in Node /\ n # Broadcast
  BY <1>1, NodeAssumption DEF Inv, OffersGood, SlotsGood, GoodHeld, Held
<1>3. /\ \A x \in Node : slot'[x] = IF x = n THEN Nothing ELSE slot[x]
      /\ \A q \in Node, k \in Nat : Sent(q, k)' <=> Sent(q, k)
  BY <1>1, <1>2 DEF Sent
<1>4. CASE ~(offer[s] # Nothing /\ offer[s].hop = n)
  BY <1>1, <1>3, <1>4, LosingKeeps
<1>5. CASE offer[s] # Nothing /\ offer[s].hop = n
  <2>1. /\ \A x \in Node : x # s => offer'[x] = offer[x]
        /\ offer'[s].msg = offer[s].msg /\ offer'[s].hop = n /\ offer'[s].heard = {}
        /\ offer'[s] # Nothing
    BY <1>1, <1>2, <1>5, NothingAssumption DEF Offer
  <2>2. CASE n \notin offer[s].heard
    <3> HIDE DEF s
    <3> QED
      BY <1>1, <1>2, <1>3, <1>5, <2>1, <2>2, LosingKeeps
  <2>3. CASE n \in offer[s].heard
    <3>1. slot[n].msg = offer[s].msg
      BY <1>1, <1>2, <1>5, <2>3 DEF OneCopy, Latest
    <3> DEFINE m == offer[s].msg
    <3>2. CASE m.kind \notin Texts
      <4>1. Textless(offer'[s])
        BY <2>1, <3>2 DEF Textless
      <4> HIDE DEF s
      <4> QED
        BY <1>1, <1>2, <1>3, <2>1, <4>1, LosingKeeps
    <3>3. CASE m.kind \in Texts
      <4>1. PICK s0 \in Node, k0 \in Nat : m.source = s0 /\ m.n = k0
        <5>1. m.source \in Node /\ m.n \in Nat
          BY <1>2, <1>5 DEF Offer, Message
        <5> QED
          BY <5>1
      <4>2. /\ Has(offer[s], s0, k0) /\ Has(offer'[s], s0, k0)
            /\ Has(slot[n], s0, k0)
        BY <1>1, <1>5, <2>1, <3>1, <3>3, <4>1 DEF Has, Is
      <4>3. ~ToAll(s0, k0) /\ Sent(s0, k0) /\ m.dest # Broadcast
        BY <1>2, <1>5, <4>1, <4>2 DEF OneCopy, Known
      <4>4. ASSUME NEW x \in Node, NEW d \in Node
            PROVE  /\ ~Open(offer[x], d, s0, k0)
                   /\ ~Has(slot'[d], s0, k0) /\ ~Came(d, s0, k0)
        <5>1. ~Came(d, s0, k0) /\ (Has(slot[d], s0, k0) => d = n)
          BY <4>1, <4>2, <4>3 DEF OneCopy, Apart
        <5>2. ~Has(slot'[d], s0, k0)
          BY <1>3, <5>1 DEF Has
        <5>3. Open(offer[x], d, s0, k0) => Open(offer[x], n, s0, k0)
          BY <4>1, <4>3 DEF OneCopy, Known, Open, Over
        <5>4. ~Open(offer[x], n, s0, k0)
          BY <4>1, <4>2 DEF OneCopy, Apart
        <5> QED
          BY <5>1, <5>2, <5>3, <5>4
      <4>5. /\ offer'[s].msg.dest = Broadcast <=> ToAll(s0, k0)
            /\ offer'[s].hop = Broadcast <=> ToAll(s0, k0)
        BY <1>2, <2>1, <4>3
      <4>6. /\ UNCHANGED <<world, inbox>> /\ \A x \in Node : slot'[x] \in {slot[x], Nothing}
            /\ \A q \in Node, k \in Nat : Sent(q, k) => Sent(q, k)'
        BY <1>1, <1>3
      <4>7. s \in Node /\ Sent(s0, k0)'
        BY <1>2, <1>3, <4>3
      <4> HIDE DEF s, m
      <4> QED
        BY <2>1, <4>2, <4>4, <4>5, <4>6, <4>7, OpeningKeeps
    <3> QED
      BY <3>2, <3>3
  <2> QED
    BY <2>2, <2>3
<1> QED
  BY <1>4, <1>5


LEMMA LosingOnce ==
  ASSUME OneCopy, UNCHANGED <<world, inbox>>, NEW n \in Node,
         \A x \in Node : x # n => offer'[x] = offer[x],
         offer'[n] = offer[n] \/ Textless(offer'[n]),
         \A x \in Node : slot'[x] \in {slot[x], Nothing},
         \A s \in Node, k \in Nat : Sent(s, k) => Sent(s, k)'
  PROVE  OneCopy'
BY LosingKeeps

\* What a step does that takes a message out of the radio.
LEMMA ReceivedOnce ==
  ASSUME Inv, NEW n \in Node, Receive(n)
  PROVE  /\ slot[n] # Nothing /\ slot[n].msg \in Message
         /\ \A x \in Node : slot'[x] = IF x = n THEN Nothing ELSE slot[x]
         /\ offer[n] = Nothing /\ UNCHANGED <<world, asked>>
         /\ UNCHANGED arp => \A s \in Node, k \in Nat : Sent(s, k) => Sent(s, k)'
<1>1. slot \in [Node -> Held \cup {Nothing}]
  BY DEF Inv, SlotsGood
<1> QED
  BY <1>1, Received DEF Receive, Sent

\* The text that Send or RouteFound routes is nowhere yet.
LEMMA NewTextOnce ==
  ASSUME Inv, OneCopy, NEW n \in Node, NEW k0 \in Nat, k0 \in 1 .. Len(world.errands[n]),
         NEW t, Sound(t, Around(n)), Route(n, t, Text(n, k0), n),
         UNCHANGED <<world, inbox>>,
         \A x \in Node : slot'[x] \in {slot[x], Nothing},
         \A s \in Node, k \in Nat : Sent(s, k) => Sent(s, k)',
         ~Sent(n, k0), Sent(n, k0)'
  PROVE  OneCopy'
<1>1. world.errands[n] \in Seq(Errand)
  BY WorldFacts DEF Inv
<1>2. world.errands[n][k0] \in Errand
  BY <1>1
<1>3. Is(Text(n, k0), n, k0) /\ (Text(n, k0).dest = Broadcast <=> ToAll(n, k0))
  BY <1>2 DEF Errand, Text, Fresh, Is, ToAll
<1>4. CASE Textless(offer'[n])
  BY <1>4, LosingOnce, RouteOpens
<1>5. CASE ~Textless(offer'[n])
  <2>1. /\ \A x \in Node : x # n => offer'[x] = offer[x]
        /\ offer'[n] # Nothing /\ offer'[n].msg = Text(n, k0) /\ offer'[n].heard = {}
        /\ offer'[n].hop = Broadcast <=> Text(n, k0).dest = Broadcast
    BY <1>5, RouteOpens
  <2>2. Has(offer'[n], n, k0)
    BY <1>3, <2>1 DEF Has
  <2>3. ASSUME NEW x \in Node, NEW d \in Node
        PROVE  ~Open(offer[x], d, n, k0) /\ ~Has(slot'[d], n, k0) /\ ~Came(d, n, k0)
    BY DEF OneCopy, Known, Open, Has
  <2>4. /\ offer'[n].msg.dest = Broadcast <=> ToAll(n, k0)
        /\ offer'[n].hop = Broadcast <=> ToAll(n, k0)
    BY <1>3, <2>1
  <2> QED
    BY <2>1, <2>2, <2>3, <2>4, OpeningKeeps
<1> QED
  BY <1>4, <1>5

LEMMA SendOnce == ASSUME Inv, OneCopy, NEW n \in Node, Send(n) PROVE OneCopy'
<1>1. /\ AtRest(n) /\ asked[n] < Len(world.errands[n])
      /\ UNCHANGED <<world, slot, inbox>>
  BY DEF Send
<1>2. /\ world \in Worlds /\ asked \in [Node -> Nat] /\ arp \in [Node -> Node \cup {Nothing}]
      /\ offer \in [Node -> Offer \cup {Nothing}] /\ Sound(table[n], Around(n))
  BY DEF Inv, WaitsGood, OffersGood, TablesGood
<1>3. PICK k0 \in Nat : k0 = asked[n] + 1
  BY <1>2
<1> DEFINE d == world.errands[n][k0].dest
<1>4. /\ \A x \in Node : asked'[x] = IF x = n THEN k0 ELSE asked[x]
      /\ k0 \in 1 .. Len(world.errands[n]) /\ arp[n] = Nothing
  <2>1. asked[n] \in Nat /\ Len(world.errands[n]) \in Nat
    BY <1>2, WorldFacts
  <2> QED
    BY <1>1, <1>2, <1>3, <2>1 DEF Send, AtRest
<1>5. \A s \in Node : asked[s] \in Nat
  BY <1>2
<1>9. \/ UNCHANGED <<offer, arp>>
      \/ /\ d = Broadcast \/ HasRoute(table[n], d)
         /\ Route(n, table[n], Text(n, k0), n) /\ UNCHANGED arp
      \/ /\ ~(d = Broadcast \/ HasRoute(table[n], d))
         /\ OfferTo(n, Fresh(n, "request", Broadcast, d, <<>>), Broadcast, n)
         /\ arp' = [arp EXCEPT ![n] = d]
  BY <1>3 DEF Send
<1>8. CASE UNCHANGED <<offer, arp>>
  <2>1. \A s \in Node, k \in Nat : Sent(s, k) => Sent(s, k)'
    BY <1>3, <1>4, <1>5, <1>8 DEF Sent
  <2> QED
    BY <1>1, <1>8, <2>1, LosingOnce
<1>6. CASE /\ d = Broadcast \/ HasRoute(table[n], d)
           /\ Route(n, table[n], Text(n, k0), n) /\ UNCHANGED arp
  <2>1. Route(n, table[n], Text(n, k0), n) /\ UNCHANGED arp
    BY <1>6
  <2>2. \A s \in Node, k \in Nat : Sent(s, k) => Sent(s, k)'
    BY <1>3, <1>4, <1>5, <2>1 DEF Sent
  <2>3. ~Sent(n, k0) /\ Sent(n, k0)'
    BY <1>3, <1>4, <1>5, <2>1 DEF Sent
  <2>4. \A x \in Node : slot'[x] \in {slot[x], Nothing}
    BY <1>1
  <2> QED
    BY <1>1, <1>2, <1>4, <2>1, <2>2, <2>3, <2>4, NewTextOnce
<1>7. CASE /\ ~(d = Broadcast \/ HasRoute(table[n], d))
           /\ OfferTo(n, Fresh(n, "request", Broadcast, d, <<>>), Broadcast, n)
           /\ arp' = [arp EXCEPT ![n] = d]
  <2>1. /\ OfferTo(n, Fresh(n, "request", Broadcast, d, <<>>), Broadcast, n)
        /\ arp' = [arp EXCEPT ![n] = d]
    BY <1>7
  <2>2. /\ offer'[n] = [msg |-> Fresh(n, "request", Broadcast, d, <<>>), hop |-> Broadcast,
                        via |-> n, heard |-> {}]
        /\ \A x \in Node : x # n => offer'[x] = offer[x]
    BY <1>2, <2>1 DEF OfferTo
  <2>3. Textless(offer'[n])
    BY <2>2 DEF Textless, Fresh, Texts
  <2>4. \A s \in Node, k \in Nat : Sent(s, k) => Sent(s, k)'
    <3>1. \A x \in Node : x # n => arp'[x] = arp[x]
      BY <1>2, <2>1
    <3> QED
      BY <1>3, <1>4, <1>5, <3>1 DEF Sent
  <2>5. \A x \in Node : slot'[x] \in {slot[x], Nothing}
    BY <1>1
  <2> QED
    BY <1>1, <2>2, <2>3, <2>4, <2>5, LosingOnce
<1> QED
  BY <1>6, <1>7, <1>8, <1>9

LEMMA ArpTimeoutOnce == ASSUME Inv, OneCopy, NEW n \in Node, ArpTimeout(n) PROVE OneCopy'
<1>1. /\ arp' = [arp EXCEPT ![n] = Nothing]
      /\ UNCHANGED <<world, table, offer, slot, cramped, asked, inbox>>
  BY DEF ArpTimeout
<1>2. \A x \in Node : arp'[x] # Nothing => arp'[x] = arp[x]
  BY <1>1 DEF Inv, WaitsGood
<1>3. \A s \in Node, k \in Nat : Sent(s, k) => Sent(s, k)'
  BY <1>1, <1>2 DEF Sent
<1> QED
  BY <1>1, <1>3, LosingOnce

LEMMA ReturnOnce == ASSUME Inv, OneCopy, NEW n \in Node, Return(n) PROVE OneCopy'
<1>1. /\ offer' = [offer EXCEPT ![n] = Nothing]
      /\ UNCHANGED <<world, table, slot, arp, cramped, asked, inbox>>
  BY DEF Return
<1>2. \A x \in Node : offer'[x] = IF x = n THEN Nothing ELSE offer[x]
  BY <1>1 DEF Inv, OffersGood
<1>3. \A s \in Node, k \in Nat : Sent(s, k) => Sent(s, k)'
  BY <1>1 DEF Sent
<1> QED
  BY <1>1, <1>2, <1>3, LosingOnce DEF Textless

LEMMA GiveUpOnce == ASSUME Inv, OneCopy, NEW n \in Node, GiveUp(n) PROVE OneCopy'
<1>1. /\ Undeliverable(n, table[n], offer[n].msg, offer[n].via)
      /\ UNCHANGED <<world, slot, arp, cramped, asked, inbox>>
  BY DEF GiveUp
<1>2. \A s \in Node, k \in Nat : Sent(s, k) => Sent(s, k)'
  BY <1>1 DEF Sent
<1>3. Textless(offer'[n]) /\ \A x \in Node : x # n => offer'[x] = offer[x]
  BY <1>1, UndeliverableIsTextless
<1> QED
  BY <1>1, <1>2, <1>3, LosingOnce

LEMMA RelayOnce == ASSUME Inv, OneCopy, NEW n \in Node, Relay(n) PROVE OneCopy'
<1> DEFINE m == slot[n].msg
           next == [m EXCEPT !.hops = @ + 1]
<1>1. Receive(n) /\ ~ForUs(n, m) /\ UNCHANGED <<arp, cramped, inbox>>
  BY DEF Relay
<1>2. PICK t \in Peeked(n) : IF m.hops < MaxHops THEN Route(n, t, next, slot[n].from)
                             ELSE SetTable(n, t) /\ UNCHANGED offer
  BY DEF Relay
<1>3. /\ slot[n] # Nothing /\ m \in Message /\ Sound(t, Around(n))
      /\ \A x \in Node : slot'[x] = IF x = n THEN Nothing ELSE slot[x]
      /\ offer[n] = Nothing /\ UNCHANGED <<world, asked>>
      /\ \A s \in Node, k \in Nat : Sent(s, k) => Sent(s, k)'
  BY <1>1, ReceivedOnce, Received
<1>4. /\ next.kind = m.kind /\ next.source = m.source /\ next.dest = m.dest /\ next.n = m.n
      /\ m.source \in Node /\ m.n \in Nat
  BY <1>3 DEF Message
<1>5. CASE ~(m.hops < MaxHops)
  BY <1>1, <1>2, <1>3, <1>5, LosingOnce
<1>6. CASE m.hops < MaxHops
  <2> HIDE DEF next
  <2>1. Route(n, t, next, slot[n].from)
    BY <1>2, <1>6
  <2>2. /\ \A x \in Node : x # n => offer'[x] = offer[x]
        /\ \/ Textless(offer'[n])
           \/ /\ offer'[n] # Nothing /\ offer'[n].msg = next /\ offer'[n].heard = {}
              /\ offer'[n].hop = Broadcast <=> next.dest = Broadcast
    BY <1>3, <2>1, RouteOpens
  <2>3. CASE Textless(offer'[n])
    BY <1>1, <1>3, <2>2, <2>3, LosingOnce
  <2>4. CASE ~Textless(offer'[n])
    <3>1. m.kind \in Texts
      BY <1>4, <2>2, <2>4 DEF Textless
    <3>2. PICK s0 \in Node, k0 \in Nat : m.source = s0 /\ m.n = k0
      BY <1>4
    <3>3. Has(slot[n], s0, k0) /\ Has(offer'[n], s0, k0)
      BY <1>3, <1>4, <2>2, <2>4, <3>1, <3>2 DEF Has, Is
    <3>4. m.dest # Broadcast /\ ~ToAll(s0, k0) /\ Sent(s0, k0)
      BY <1>1, <3>3 DEF ForUs, OneCopy, Known
    <3>5. ASSUME NEW x \in Node, NEW d \in Node
          PROVE  ~Open(offer[x], d, s0, k0) /\ ~Has(slot'[d], s0, k0) /\ ~Came(d, s0, k0)
      <4>1. ~Came(d, s0, k0) /\ (Has(slot[d], s0, k0) => d = n)
        BY <3>3, <3>4 DEF OneCopy, Apart
      <4>2. ~Has(slot'[d], s0, k0)
        BY <1>3, <4>1 DEF Has
      <4>3. Open(offer[x], d, s0, k0) => Open(offer[x], n, s0, k0)
        BY <3>4 DEF OneCopy, Known, Open, Over
      <4>4. ~Open(offer[x], n, s0, k0)
        BY <3>3 DEF OneCopy, Apart
      <4> QED
        BY <4>1, <4>2, <4>3, <4>4
    <3>6. /\ offer'[n].msg.dest = Broadcast <=> ToAll(s0, k0)
          /\ offer'[n].hop = Broadcast <=> ToAll(s0, k0)
      BY <1>4, <2>2, <2>4, <3>4
    <3>7. /\ UNCHANGED <<world, inbox>> /\ Sent(s0, k0)' /\ offer'[n].heard = {}
          /\ \A x \in Node : slot'[x] \in {slot[x], Nothing}
      BY <1>1, <1>3, <2>2, <2>4, <3>4
    <3> HIDE DEF m
    <3> QED
      BY <1>3, <2>2, <3>3, <3>5, <3>6, <3>7, OpeningKeeps
  <2> QED
    BY <2>3, <2>4
<1> QED
  BY <1>5, <1>6

LEMMA RouteFoundOnce == ASSUME Inv, OneCopy, NEW n \in Node, RouteFound(n) PROVE OneCopy'
<1> DEFINE from == slot[n].from
<1>1. /\ arp[n] # Nothing /\ Receive(n) /\ arp' = [arp EXCEPT ![n] = Nothing]
      /\ UNCHANGED <<cramped, inbox>>
  BY DEF RouteFound
<1>2. PICK t \in Peeked(n) : Route(n, AddRouteTo(t, arp[n], from), Text(n, asked[n]), n)
  BY DEF RouteFound
<1>3. arp[n] \in Address /\ from \in Around(n) /\ Sound(t, Around(n))
  <2>1. arp[n] \in Node
    BY <1>1 DEF Inv, WaitsGood
  <2> QED
    BY <1>1, <2>1, Received, NodeAssumption
<1>4. Sound(AddRouteTo(t, arp[n], from), Around(n))
  BY <1>3, AroundIsNear, AddRouteToKeeps
<1>5. /\ world \in Worlds /\ \A x \in Node : asked[x] \in Nat
      /\ asked[n] <= Len(world.errands[n]) /\ asked[n] >= 1
      /\ \A x \in Node : arp'[x] = IF x = n THEN Nothing ELSE arp[x]
  BY <1>1 DEF Inv, WaitsGood
<1>6. PICK k0 \in Nat : k0 = asked[n]
  BY <1>5
<1>7. k0 \in 1 .. Len(world.errands[n])
  <2>1. Len(world.errands[n]) \in Nat
    BY <1>5, WorldFacts
  <2> QED
    BY <1>5, <1>6, <2>1
<1>8. /\ UNCHANGED <<world, asked>> /\ \A x \in Node : slot'[x] = IF x = n THEN Nothing ELSE slot[x]
  BY <1>1, ReceivedOnce
<1>9. /\ \A s \in Node, k \in Nat : Sent(s, k) => Sent(s, k)'
      /\ ~Sent(n, k0) /\ Sent(n, k0)'
  BY <1>1, <1>5, <1>6, <1>8 DEF Sent
<1>10. \A x \in Node : slot'[x] \in {slot[x], Nothing}
  BY <1>8
<1>11. Route(n, AddRouteTo(t, arp[n], from), Text(n, k0), n)
  BY <1>2, <1>6
<1> HIDE DEF from
<1> QED
  BY <1>1, <1>4, <1>7, <1>8, <1>9, <1>10, <1>11, NewTextOnce

LEMMA Appended ==
  ASSUME NEW S, NEW q \in Seq(S), NEW e \in S
  PROVE  /\ DOMAIN Append(q, e) = 1 .. Len(q) + 1 /\ DOMAIN q = 1 .. Len(q)
         /\ Len(q) \in Nat
         /\ \A i \in 1 .. Len(q) : Append(q, e)[i] = q[i]
         /\ Append(q, e)[Len(q) + 1] = e
  OBVIOUS

LEMMA DeliverOnce == ASSUME Inv, OneCopy, NEW n \in Node, Deliver(n) PROVE OneCopy'
<1>1. /\ Receive(n) /\ slot[n].msg.kind \in Texts
      /\ inbox' = [inbox EXCEPT ![n] = Append(@, <<slot[n].msg.source, slot[n].msg.n>>)]
      /\ UNCHANGED <<table, offer, arp, cramped>>
  BY DEF Deliver
<1>2. /\ slot[n] # Nothing /\ slot[n].msg \in Message
      /\ \A x \in Node : slot'[x] = IF x = n THEN Nothing ELSE slot[x]
      /\ UNCHANGED <<world, asked>>
  BY <1>1, ReceivedOnce
<1>3. PICK s0 \in Node, k0 \in Nat : slot[n].msg.source = s0 /\ slot[n].msg.n = k0
  BY <1>2 DEF Message
<1>4. Has(slot[n], s0, k0)
  BY <1>1, <1>2, <1>3 DEF Has, Is
<1>5. /\ inbox \in [Node -> Seq(Node \X Nat)]
      /\ \A x \in Node : inbox'[x] = IF x = n THEN Append(inbox[n], <<s0, k0>>) ELSE inbox[x]
  BY <1>1, <1>3 DEF Inv
<1>6. /\ DOMAIN inbox'[n] = 1 .. Len(inbox[n]) + 1 /\ DOMAIN inbox[n] = 1 .. Len(inbox[n])
      /\ Len(inbox[n]) \in Nat
      /\ \A i \in 1 .. Len(inbox[n]) : inbox'[n][i] = inbox[n][i]
      /\ inbox'[n][Len(inbox[n]) + 1] = <<s0, k0>>
  <2>1. inbox[n] \in Seq(Node \X Nat) /\ inbox'[n] = Append(inbox[n], <<s0, k0>>)
    BY <1>5
  <2>2. <<s0, k0>> \in Node \X Nat
    OBVIOUS
  <2> QED
    BY <2>1, <2>2, Appended
<1>7. \A x, s \in Node, k \in Nat :
        Came(x, s, k)' => Came(x, s, k) \/ (x = n /\ s = s0 /\ k = k0)
  <2> SUFFICES ASSUME NEW x \in Node, NEW s \in Node, NEW k \in Nat, Came(x, s, k)'
               PROVE  Came(x, s, k) \/ (x = n /\ s = s0 /\ k = k0)
    OBVIOUS
  <2>1. CASE x # n
    BY <1>5, <2>1 DEF Came
  <2>2. CASE x = n
    <3>1. PICK i \in 1 .. Len(inbox[n]) + 1 : inbox'[n][i] = <<s, k>>
      BY <1>6, <2>2 DEF Came
    <3>2. CASE i = Len(inbox[n]) + 1
      BY <1>6, <2>2, <3>1, <3>2
    <3>3. CASE i # Len(inbox[n]) + 1
      <4>1. i \in 1 .. Len(inbox[n])
        BY <1>6, <3>3
      <4> QED
        BY <1>6, <2>2, <3>1, <4>1 DEF Came
    <3> QED
      BY <3>2, <3>3
  <2> QED
    BY <2>1, <2>2
<1>8. \A q, x \in Node, k \in Nat : /\ ToAll(q, k)' = ToAll(q, k) /\ Sent(q, k)' <=> Sent(q, k)
  BY <1>1, <1>2 DEF ToAll, Sent
<1>9. \A x, s \in Node, k \in Nat : Has(slot'[x], s, k) => x # n /\ slot'[x] = slot[x]
  BY <1>2 DEF Has
<1>10. Known'
  BY <1>1, <1>4, <1>7, <1>8, <1>9 DEF OneCopy, Known
<1>11. Apart'
  <2> SUFFICES ASSUME NEW d \in Node, NEW s \in Node, NEW k \in Nat
               PROVE  /\ \A o \in Node : Open(offer'[o], d, s, k) =>
                            ~Has(slot'[d], s, k) /\ ~Came(d, s, k)'
                      /\ \A o, p \in Node :
                            Open(offer'[o], d, s, k) /\ Open(offer'[p], d, s, k) => o = p
                      /\ \A h \in Node : Has(slot'[h], s, k) /\ (h = d \/ ~ToAll(s, k)') =>
                            ~Came(d, s, k)' /\ (Has(slot'[d], s, k) => h = d)
    BY DEF Apart
  <2>1. Came(d, s, k)' => Came(d, s, k) \/ (d = n /\ Has(slot[d], s, k))
    BY <1>4, <1>7
  <2>2. /\ \A o \in Node : Open(offer[o], d, s, k) => ~Has(slot[d], s, k) /\ ~Came(d, s, k)
        /\ \A o, p \in Node : Open(offer[o], d, s, k) /\ Open(offer[p], d, s, k) => o = p
        /\ \A h \in Node : Has(slot[h], s, k) /\ (h = d \/ ~ToAll(s, k)) =>
              ~Came(d, s, k) /\ (Has(slot[d], s, k) => h = d)
    BY DEF OneCopy, Apart
  <2>3. \A x \in Node : Has(slot'[x], s, k) => x # n /\ Has(slot[x], s, k)
    BY <1>9
  <2>4. offer' = offer /\ (ToAll(s, k)' <=> ToAll(s, k))
    BY <1>1, <1>2 DEF ToAll
  <2>5. ASSUME NEW o \in Node, Open(offer'[o], d, s, k)
        PROVE  ~Has(slot'[d], s, k) /\ ~Came(d, s, k)'
    <3>1. Open(offer[o], d, s, k)
      BY <2>4, <2>5
    <3> QED
      BY <2>1, <2>2, <2>3, <3>1
  <2>6. ASSUME NEW o \in Node, NEW p \in Node,
               Open(offer'[o], d, s, k), Open(offer'[p], d, s, k)
        PROVE  o = p
    <3>1. Open(offer[o], d, s, k) /\ Open(offer[p], d, s, k)
      BY <2>4, <2>6
    <3> QED
      BY <2>2, <3>1
  <2>7. ASSUME NEW h \in Node, Has(slot'[h], s, k), h = d \/ ~ToAll(s, k)'
        PROVE  ~Came(d, s, k)' /\ (Has(slot'[d], s, k) => h = d)
    <3>1. h # n /\ Has(slot[h], s, k) /\ (h = d \/ ~ToAll(s, k))
      BY <2>3, <2>4, <2>7
    <3>2. ~Came(d, s, k) /\ (Has(slot[d], s, k) => h = d)
      BY <2>2, <3>1
    <3>3. ~(d = n /\ Has(slot[d], s, k))
      BY <3>1, <3>2
    <3> QED
      BY <2>1, <2>3, <3>2, <3>3
  <2> QED
    BY <2>5, <2>6, <2>7
<1>12. Latest'
  BY <1>1, <1>2 DEF OneCopy, Latest
<1>13. NoTextTwice'
  <2>1. ~Came(n, s0, k0)
    BY <1>4 DEF OneCopy, Apart
  <2>2. \A i \in 1 .. Len(inbox[n]) : inbox[n][i] # <<s0, k0>>
    BY <1>6, <2>1 DEF Came
  <2>3. ASSUME NEW i \in DOMAIN inbox'[n], NEW j \in DOMAIN inbox'[n], inbox'[n][i] = inbox'[n][j]
        PROVE  i = j
    <3>1. \A l \in DOMAIN inbox'[n] : l \in 1 .. Len(inbox[n]) \/ l = Len(inbox[n]) + 1
      BY <1>6
    <3>2. CASE i \in 1 .. Len(inbox[n]) /\ j \in 1 .. Len(inbox[n])
      BY <1>6, <2>3, <3>2 DEF OneCopy, NoTextTwice
    <3> QED
      BY <1>6, <2>2, <2>3, <3>1, <3>2
  <2> QED
    BY <1>5, <2>3 DEF OneCopy, NoTextTwice
<1> QED
  BY <1>10, <1>11, <1>12, <1>13 DEF OneCopy

LEMMA HandleRequestOnce == ASSUME Inv, OneCopy, NEW n \in Node, HandleRequest(n) PROVE OneCopy'
<1> DEFINE m == slot[n].msg
           t == AddRoutesTo(table[n], <<m.source>> \o m.passed, slot[n].from)
<1>1. Receive(n) /\ UNCHANGED <<arp, cramped, inbox>>
  BY DEF HandleRequest
<1>2. \/ Route(n, t, Fresh(n, "response", m.source, n, m.passed), n)
      \/ Route(n, t, Fresh(m.source, "request", Broadcast, m.about, Append(m.passed, n)), n)
      \/ UNCHANGED offer
  BY DEF HandleRequest
<1>3. /\ \A x \in Node : slot'[x] = IF x = n THEN Nothing ELSE slot[x]
      /\ UNCHANGED world /\ \A s \in Node, k \in Nat : Sent(s, k) => Sent(s, k)'
  BY <1>1, ReceivedOnce
<1>4. ASSUME NEW f, Route(n, t, f, n), f.kind \notin Texts
      PROVE  Textless(offer'[n]) /\ \A x \in Node : x # n => offer'[x] = offer[x]
  <2> HIDE DEF t
  <2> QED
    BY <1>4, RouteAnyOpens DEF Textless
<1>5. /\ Fresh(n, "response", m.source, n, m.passed).kind \notin Texts
      /\ Fresh(m.source, "request", Broadcast, m.about, Append(m.passed, n)).kind \notin Texts
  BY DEF Fresh, Texts
<1> HIDE DEF t
<1> QED
  BY <1>1, <1>2, <1>3, <1>4, <1>5, LosingOnce

LEMMA OthersOnce ==
  ASSUME Inv, OneCopy, NEW n \in Node, Swallow(n) \/ IgnoreRequest(n) \/ PeekOnly(n)
  PROVE  OneCopy'
<1>1. Receive(n) /\ UNCHANGED <<offer, arp, inbox>>
  BY DEF Swallow, IgnoreRequest, PeekOnly
<1> QED
  BY <1>1, ReceivedOnce, LosingOnce

LEMMA StepOneCopy == Inv /\ OneCopy /\ [Next]_vars => OneCopy'
<1>1. SUFFICES ASSUME Inv, OneCopy, [Next]_vars PROVE OneCopy'
  OBVIOUS
<1>2. CASE UNCHANGED vars
  <2>1. UNCHANGED <<world, offer, slot, arp, asked, inbox>>
    BY <1>2 DEF vars
  <2>2. \A s \in Node, k \in Nat : Sent(s, k) => Sent(s, k)'
    BY <2>1 DEF Sent
  <2> QED
    BY <1>1, <2>1, <2>2, LosingKeeps
<1>3. CASE Next
  <2>1. PICK n \in Node : Send(n) \/ ArpTimeout(n) \/ Hear(n) \/ Drop(n) \/ Return(n)
                            \/ GiveUp(n) \/ Handle(n)
    BY <1>3 DEF Next
  <2>2. CASE Handle(n)
    BY <1>1, <2>2, RelayOnce, RouteFoundOnce, DeliverOnce, HandleRequestOnce, OthersOnce DEF Handle
  <2> QED
    BY <1>1, <2>1, <2>2, SendOnce, ArpTimeoutOnce, HearOnce, DropOnce, ReturnOnce, GiveUpOnce
<1> QED
  BY <1>1, <1>2, <1>3

\* RHRouter.cpp, RHMesh.cpp: however often a hop is repeated, given up although the next node
\* has the text, or dropped and offered again, and round whatever loop it is relayed, no
\* program gets a text twice.
THEOREM MeshNoTextTwice == Spec => []NoTextTwice
<1>1. OneCopy => NoTextTwice
  BY DEF OneCopy
<1>2. Spec => []OneCopy
  BY InitOneCopy, StepOneCopy, AlwaysInv, PTL DEF Spec
<1> QED
  BY <1>1, <1>2, PTL

=============================================================================
