-------------------------------- MODULE Mesh --------------------------------
(***************************************************************************)
(* RHRouter.cpp and RHMesh.cpp: messages routed over several hops, with    *)
(* routes found by flooding a request and returning a response.            *)
(*                                                                         *)
(* One hop is what Delivery promises of a reliable datagram: offered to    *)
(* the next hop until it is taken or given up, taken at most once, and     *)
(* confirmed only if taken; a broadcast is offered once, to whoever hears. *)
(* A node blocked in sendtoWait() drops what else it hears (line 98 of     *)
(* RHReliableDatagram.cpp).  The radio of a node holds one message.        *)
(***************************************************************************)
EXTENDS RoutingTable, FiniteSets

CONSTANTS
  Node,          \* the nodes' addresses
  Broadcast,     \* RH_BROADCAST_ADDRESS
  MaxHops,       \* _max_hops
  Residue,       \* what an earlier, longer message may have left behind a shorter one
  Nothing,
  Worlds         \* who hears whom, the routes each program starts with, the texts it sends

ASSUME NodeAssumption == Node \subseteq Address \ {0} /\ Broadcast \notin Node
ASSUME HopsAssumption == MaxHops \in 0 .. 254
ASSUME ResidueAssumption == Residue \subseteq Address

\* A text of no octets, and any other.
Texts == {"empty", "text"}
Errand == [kind : Texts, dest : Node \cup {Broadcast}]
World == [linked : SUBSET (Node \X Node), wired : [Node -> Table],
          errands : [Node -> Seq(Errand)]]

\* Routes are wired to nodes in range, one for a destination, and no program
\* writes to its own node.
ASSUME WorldsAssumption ==
  \A w \in Worlds :
    /\ w \in World
    /\ \A n \in Node : /\ Unshadowed(w.wired[n])
                       /\ \A i \in Slots : w.wired[n][i].valid =>
                            <<w.wired[n][i].hop, n>> \in w.linked
                       /\ \A k \in 1 .. Len(w.errands[n]) : w.errands[n][k].dest # n

\* The router's header, and of the mesh's the node in question and the nodes
\* passed; n tells the texts of a program apart, no code reads it.
Message == [kind : {"text", "empty", "request", "response", "failure"},
            source : Node, dest : Node \cup {Broadcast}, hops : 0 .. 255,
            about : Address, passed : Seq(Node), n : Nat]
Offer == [msg : Message, hop : Node \cup {Broadcast}, via : Node,
          heard : SUBSET Node]
Held == [msg : Message, from : Node]
ASSUME NothingAssumption == Nothing \notin Offer \cup Held \cup Address

VARIABLES
  world,         \* one of Worlds, for good
  table,         \* _routes
  offer,         \* the hop sendtoWait() is blocked at, or Nothing
  slot,          \* the message the radio holds
  arp,           \* the address doArp() waits for, or Nothing
  cramped,       \* doArp()'s messageLen has shrunk to the length of an empty text
  asked,         \* errands of the program so far
  inbox          \* what the program was given: source and n, in order

vars == <<world, table, offer, slot, arp, cramped, asked, inbox>>

\* Every variable has its type: routes name addresses, and the radios and the
\* hops hold well-formed messages.
TypeOK == /\ world \in Worlds
          /\ table \in [Node -> Table]
          /\ offer \in [Node -> Offer \cup {Nothing}]
          /\ slot \in [Node -> Held \cup {Nothing}]
          /\ arp \in [Node -> Node \cup {Nothing}]
          /\ cramped \in [Node -> BOOLEAN]
          /\ asked \in [Node -> Nat]
          /\ inbox \in [Node -> Seq(Node \X Nat)]

Init == /\ world \in Worlds
        /\ table = world.wired
        /\ offer = [n \in Node |-> Nothing]
        /\ slot = [n \in Node |-> Nothing]
        /\ arp = [n \in Node |-> Nothing]
        /\ cramped = [n \in Node |-> FALSE]
        /\ asked = [n \in Node |-> 0]
        /\ inbox = [n \in Node |-> <<>>]

SetTable(n, t) == table' = [table EXCEPT ![n] = t]

\* sendtoFromSourceWait: a message that has not been routed yet.
Fresh(source, kind, dest, about, passed) ==
  [kind |-> kind, source |-> source, dest |-> dest, hops |-> 0,
   about |-> about, passed |-> passed, n |-> 0]

Text(n, k) == [Fresh(n, world.errands[n][k].kind, world.errands[n][k].dest, n, <<>>) EXCEPT !.n = k]
-----------------------------------------------------------------------------
(* RHMesh::route: the next hop, and what becomes of the routes without one *)

OfferTo(n, m, hop, via) ==
  offer' = [offer EXCEPT ![n] = [msg |-> m, hop |-> hop, via |-> via, heard |-> {}]]

\* The route is forgotten and, if the message is another node's, that node is
\* told, by way of the node the message came from.
Undeliverable(n, t, m, via) ==
  LET forgotten == DeleteRouteTo(t, m.dest)
  IN IF m.source = n
     THEN SetTable(n, forgotten) /\ offer' = [offer EXCEPT ![n] = Nothing]
     ELSE /\ SetTable(n, AddRouteTo(forgotten, m.source, via))
          /\ OfferTo(n, Fresh(n, "failure", m.source, m.dest, <<>>), via, n)

Route(n, t, m, via) ==
  \/ m.dest = Broadcast /\ SetTable(n, t) /\ OfferTo(n, m, Broadcast, via)
  \/ /\ m.dest # Broadcast /\ HasRoute(t, m.dest)
     /\ SetTable(n, t) /\ OfferTo(n, m, NextHop(t, m.dest), via)
  \/ m.dest # Broadcast /\ ~HasRoute(t, m.dest) /\ Undeliverable(n, t, m, via)
-----------------------------------------------------------------------------
(* sendtoWait, called by the program, and doArp *)

AtRest(n) == offer[n] = Nothing /\ arp[n] = Nothing

\* Mutant: a broadcast is looked up too.
SendLookedUp(n) ==
  /\ AtRest(n) /\ asked[n] < Len(world.errands[n])
  /\ asked' = [asked EXCEPT ![n] = @ + 1]
  /\ LET d == world.errands[n][asked[n] + 1].dest
     IN \/ UNCHANGED <<table, offer, arp, cramped>>
        \/ /\ HasRoute(table[n], d)
           /\ Route(n, table[n], Text(n, asked[n] + 1), n)
           /\ UNCHANGED <<arp, cramped>>
        \/ /\ ~HasRoute(table[n], d)
           /\ OfferTo(n, Fresh(n, "request", Broadcast, d, <<>>), Broadcast, n)
           /\ arp' = [arp EXCEPT ![n] = d]
           /\ cramped' = [cramped EXCEPT ![n] = FALSE]
           /\ UNCHANGED table
  /\ UNCHANGED <<world, slot, inbox>>

\* sendtoWait(): a message that is too long is refused.
Send(n) ==
  /\ AtRest(n) /\ asked[n] < Len(world.errands[n])
  /\ asked' = [asked EXCEPT ![n] = @ + 1]
  /\ LET d == world.errands[n][asked[n] + 1].dest
     IN \/ UNCHANGED <<table, offer, arp, cramped>>
        \/ /\ d = Broadcast \/ HasRoute(table[n], d)
           /\ Route(n, table[n], Text(n, asked[n] + 1), n)
           /\ UNCHANGED <<arp, cramped>>
        \/ /\ d # Broadcast /\ ~HasRoute(table[n], d)
           /\ OfferTo(n, Fresh(n, "request", Broadcast, d, <<>>), Broadcast, n)
           /\ arp' = [arp EXCEPT ![n] = d]
           /\ cramped' = [cramped EXCEPT ![n] = FALSE]
           /\ UNCHANGED table
  /\ UNCHANGED <<world, slot, inbox>>

\* RH_MESH_ARP_TIMEOUT: sendtoWait() returns RH_ROUTER_ERROR_NO_ROUTE.
ArpTimeout(n) ==
  /\ arp[n] # Nothing /\ offer[n] = Nothing
  /\ arp' = [arp EXCEPT ![n] = Nothing]
  /\ UNCHANGED <<world, table, offer, slot, cramped, asked, inbox>>
-----------------------------------------------------------------------------
(* One hop *)

\* Mutant: a repetition of what was taken is received again.
HearAgain(n) ==
  /\ slot[n] = Nothing
  /\ \E s \in Node : /\ <<s, n>> \in world.linked
                     /\ offer[s] # Nothing /\ offer[s].hop \in {n, Broadcast}
                     /\ slot' = [slot EXCEPT ![n] = [msg |-> offer[s].msg, from |-> s]]
                     /\ offer' = [offer EXCEPT ![s].heard = @ \cup {n}]
  /\ UNCHANGED <<world, table, arp, cramped, asked, inbox>>

Hear(n) ==
  /\ slot[n] = Nothing
  /\ \E s \in Node : /\ <<s, n>> \in world.linked
                     /\ offer[s] # Nothing /\ offer[s].hop \in {n, Broadcast}
                     /\ n \notin offer[s].heard
                     /\ slot' = [slot EXCEPT ![n] = [msg |-> offer[s].msg, from |-> s]]
                     /\ offer' = [offer EXCEPT ![s].heard = @ \cup {n}]
  /\ UNCHANGED <<world, table, arp, cramped, asked, inbox>>

\* sendtoWait() discards a message it does not wait for; it may be repeated.
Drop(n) ==
  /\ offer[n] # Nothing /\ slot[n] # Nothing
  /\ slot' = [slot EXCEPT ![n] = Nothing]
  /\ LET s == slot[n].from
     IN offer' = IF offer[s] # Nothing /\ offer[s].hop = n
                 THEN [offer EXCEPT ![s].heard = {}] ELSE offer
  /\ UNCHANGED <<world, table, arp, cramped, asked, inbox>>

\* The next hop's program has the message: it was heard, not dropped, and is no
\* longer in the radio.
Taken(n) == LET h == offer[n].hop
            IN h \in offer[n].heard /\ ~(slot[h] # Nothing /\ slot[h].from = n)

\* Mutant: broadcasts wait for an acknowledgement too.
ReturnWhenTaken(n) ==
  /\ offer[n] # Nothing /\ Taken(n)
  /\ offer' = [offer EXCEPT ![n] = Nothing]
  /\ UNCHANGED <<world, table, slot, arp, cramped, asked, inbox>>

\* sendtoWait() returns true.
Return(n) ==
  /\ offer[n] # Nothing /\ (offer[n].hop = Broadcast \/ Taken(n))
  /\ offer' = [offer EXCEPT ![n] = Nothing]
  /\ UNCHANGED <<world, table, slot, arp, cramped, asked, inbox>>

\* The retries are exhausted; the message may have been taken all the same.
GiveUp(n) ==
  /\ offer[n] # Nothing /\ offer[n].hop # Broadcast
  /\ Undeliverable(n, table[n], offer[n].msg, offer[n].via)
  /\ UNCHANGED <<world, slot, arp, cramped, asked, inbox>>
-----------------------------------------------------------------------------
(* recvfromAck *)

\* The nodes a response is taken to show the way to.  Those after n are meant;
\* the index is incremented twice, so the first of them is skipped and what lies
\* behind the list is read.
Onward(n, m, residue) ==
  LET here == {k \in DOMAIN m.passed : m.passed[k] = n}
  IN IF here = {} \/ First(here) = Len(m.passed) THEN <<>>
     ELSE Append(SubSeq(m.passed, First(here) + 2, Len(m.passed)), residue)

\* peekAtMessage: the tables it may leave.
Peeked(n) ==
  LET m == slot[n].msg
  IN IF m.kind = "response"
     THEN {AddRoutesTo(table[n], <<m.about>> \o Onward(n, m, residue), slot[n].from)
             : residue \in Residue}
     ELSE {IF m.kind = "failure" THEN DeleteRouteTo(table[n], m.about) ELSE table[n]}

\* RHRouter::recvfromAck: the message is taken out of the radio and acknowledged.
Receive(n) == /\ offer[n] = Nothing /\ slot[n] # Nothing
              /\ slot' = [slot EXCEPT ![n] = Nothing]
              /\ UNCHANGED <<world, asked>>

ForUs(n, m) == m.dest \in {n, Broadcast}

\* Mutant: hops++ <= _max_hops
RelayOnceMore(n) ==
  LET m == slot[n].msg
  IN /\ Receive(n) /\ ~ForUs(n, m)
     /\ \E t \in Peeked(n) :
          IF m.hops <= MaxHops
          THEN Route(n, t, [m EXCEPT !.hops = @ + 1], slot[n].from)
          ELSE SetTable(n, t) /\ UNCHANGED offer
     /\ UNCHANGED <<arp, cramped, inbox>>

\* hops++ < _max_hops
Relay(n) ==
  LET m == slot[n].msg
  IN /\ Receive(n) /\ ~ForUs(n, m)
     /\ \E t \in Peeked(n) :
          IF m.hops < MaxHops
          THEN Route(n, t, [m EXCEPT !.hops = @ + 1], slot[n].from)
          ELSE SetTable(n, t) /\ UNCHANGED offer
     /\ UNCHANGED <<arp, cramped, inbox>>

\* Mutant: the next hop is taken to be who answered.
RouteFoundAtSource(n) ==
  LET m == slot[n].msg
  IN /\ arp[n] # Nothing
     /\ Receive(n) /\ ForUs(n, m) /\ m.kind = "response" /\ ~cramped[n]
     /\ arp' = [arp EXCEPT ![n] = Nothing]
     /\ \E t \in Peeked(n) :
          Route(n, AddRouteTo(t, arp[n], m.source), Text(n, asked[n]), n)
     /\ UNCHANGED <<cramped, inbox>>

\* doArp: the first response, whatever node it is about, gives the route, and
\* the text that waited for it is sent.
RouteFound(n) ==
  LET m == slot[n].msg
  IN /\ arp[n] # Nothing
     /\ Receive(n) /\ ForUs(n, m) /\ m.kind = "response" /\ ~cramped[n]
     /\ arp' = [arp EXCEPT ![n] = Nothing]
     /\ \E t \in Peeked(n) :
          Route(n, AddRouteTo(t, arp[n], slot[n].from), Text(n, asked[n]), n)
     /\ UNCHANGED <<cramped, inbox>>

\* doArp: anything else for this node is acknowledged and lost.
Swallow(n) ==
  LET m == slot[n].msg
  IN /\ arp[n] # Nothing
     /\ Receive(n) /\ ForUs(n, m) /\ (m.kind # "response" \/ cramped[n])
     /\ \E t \in Peeked(n) : SetTable(n, t)
     /\ cramped' = [cramped EXCEPT ![n] = @ \/ m.kind = "empty"]
     /\ UNCHANGED <<offer, arp, inbox>>

Deliver(n) ==
  LET m == slot[n].msg
  IN /\ arp[n] = Nothing
     /\ Receive(n) /\ ForUs(n, m) /\ m.kind \in Texts
     /\ inbox' = [inbox EXCEPT ![n] = Append(@, <<m.source, m.n>>)]
     /\ UNCHANGED <<table, offer, arp, cramped>>

\* Mutant: only the node that asked ignores its request.
Ours(n, m) == m.source = n

AlreadyPassed(n, m) == m.source = n \/ \E k \in DOMAIN m.passed : m.passed[k] = n

\* A request for a route: learn the way back, then answer or pass it on in the
\* name of its source.
HandleRequest(n) ==
  LET m == slot[n].msg
  IN /\ arp[n] = Nothing
     /\ Receive(n) /\ m.dest = Broadcast /\ m.kind = "request" /\ ~AlreadyPassed(n, m)
     /\ \E t \in {AddRoutesTo(table[n], <<m.source>> \o m.passed, slot[n].from)} :
          \/ /\ m.about = n
             /\ Route(n, t, Fresh(n, "response", m.source, n, m.passed), n)
          \/ /\ m.about # n /\ Len(m.passed) < MaxHops
             /\ Route(n, t, Fresh(m.source, "request", Broadcast, m.about,
                                  Append(m.passed, n)), n)
          \/ /\ m.about # n /\ Len(m.passed) >= MaxHops
             /\ SetTable(n, t) /\ UNCHANGED offer
     /\ UNCHANGED <<arp, cramped, inbox>>

IgnoreRequest(n) ==
  /\ arp[n] = Nothing
  /\ Receive(n) /\ slot[n].msg.kind = "request" /\ AlreadyPassed(n, slot[n].msg)
  /\ UNCHANGED <<table, offer, arp, cramped, inbox>>

\* A response nobody waits for, and a failure: peeked at, no more.
PeekOnly(n) ==
  /\ arp[n] = Nothing
  /\ Receive(n) /\ ForUs(n, slot[n].msg) /\ slot[n].msg.kind \in {"response", "failure"}
  /\ \E t \in Peeked(n) : SetTable(n, t)
  /\ UNCHANGED <<offer, arp, cramped, inbox>>
-----------------------------------------------------------------------------
Handle(n) == Relay(n) \/ RouteFound(n) \/ Swallow(n) \/ Deliver(n)
               \/ HandleRequest(n) \/ IgnoreRequest(n) \/ PeekOnly(n)

Next == \E n \in Node : Send(n) \/ ArpTimeout(n) \/ Hear(n) \/ Drop(n) \/ Return(n)
                          \/ GiveUp(n) \/ Handle(n)

Spec == Init /\ [][Next]_vars

\* sendtoWait() ends after its retries, doArp() after its time, and programs keep
\* polling.  Whether a message is heard is left open.
FairSpec == /\ Spec
            /\ \A n \in Node : /\ WF_vars(Return(n) \/ GiveUp(n))
                               /\ WF_vars(ArpTimeout(n) \/ Drop(n) \/ Handle(n))
-----------------------------------------------------------------------------
\* No table holds two routes to one destination, or a dead entry in front of a
\* live one, which deletions would find instead.
TablesSound == \A n \in Node : Unshadowed(table[n])

Messages == {offer[n].msg : n \in {k \in Node : offer[k] # Nothing}}
              \cup {slot[n].msg : n \in {k \in Node : slot[k] # Nothing}}

\* The route of a request or a response passes no node twice and does not come
\* back to who asked: a flood ends (RHMesh.h: "This prevents broadcast storms").
NoNodePassedTwice ==
  \A m \in Messages :
    /\ \A i, j \in DOMAIN m.passed : m.passed[i] = m.passed[j] => i = j
    /\ m.kind = "request" => \A i \in DOMAIN m.passed : m.passed[i] # m.source

\* A message is relayed MaxHops times at most, even round a loop, and a request
\* passes MaxHops nodes at most.
HopsLimited == \A m \in Messages : m.hops <= MaxHops /\ Len(m.passed) <= MaxHops

\* Whatever was heard, misread or lost, a next hop is a node that is in range.
NextHopsInRange ==
  \A n \in Node : \A i \in Slots :
    table[n][i].valid => <<table[n][i].hop, n>> \in world.linked

\* A program gets no text twice, whichever way it came and however often a hop
\* was repeated.
NoTextTwice == \A n \in Node : \A i, j \in DOMAIN inbox[n] :
                 inbox[n][i] = inbox[n][j] => i = j

\* When a message cannot be handed on, its node has no route to the destination
\* left: the next text for it starts a discovery.
FailedRouteForgotten ==
  [][\A n \in Node : GiveUp(n) => ~HasRoute(table'[n], offer[n].msg.dest)]_vars

\* After the last errand the network falls silent: floods end, messages do not
\* circle for ever and nobody keeps waiting for somebody.
FallsSilent == <>[](\A n \in Node : AtRest(n) /\ slot[n] = Nothing)
=============================================================================
