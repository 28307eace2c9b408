------------------------------ MODULE Delivery ------------------------------
(***************************************************************************)
(* What reliable datagrams promise the programs of the nodes.  A node has  *)
(* at most one message under way.  A message reaches a program at most     *)
(* once and not after a later one of the same sender; it is confirmed only *)
(* if it reached the program it was sent to.  A restart forgets what       *)
(* reached the node's program, and with it goes the confirmations' worth   *)
(* for every message from or to that node.                                 *)
(*                                                                         *)
(* ReliableDatagram implements this specification.                         *)
(***************************************************************************)
EXTENDS Naturals, Sequences

CONSTANTS Node, Broadcast

VARIABLES
  sent,        \* of each node, the destinations of its messages, in order
  underway,    \* the nodes that wait for the fate of their last message
  got,         \* got[d][s]: the last message of s that reached d's program
  confirmed,   \* of each node, the last message it was told had arrived
  restarted    \* the nodes that have ever restarted

vars == <<sent, underway, got, confirmed, restarted>>

NothingGot == [s \in Node |-> 0]

Init == /\ sent = [n \in Node |-> <<>>]
        /\ underway = {}
        /\ got = [n \in Node |-> NothingGot]
        /\ confirmed = NothingGot
        /\ restarted = {}

Submit(s) == /\ s \notin underway
             /\ underway' = underway \cup {s}
             /\ \E to \in (Node \ {s}) \cup {Broadcast} : sent' = [sent EXCEPT ![s] = Append(@, to)]
             /\ UNCHANGED <<got, confirmed, restarted>>

Deliver(d) == /\ \E s \in Node \ {d} : \E k \in got[d][s] + 1 .. Len(sent[s]) :
                   /\ sent[s][k] \in {d, Broadcast}
                   /\ got' = [got EXCEPT ![d][s] = k]
              /\ UNCHANGED <<sent, underway, confirmed, restarted>>

Arrived(s, k) == LET d == sent[s][k]
                 IN d = Broadcast \/ got[d][s] = k \/ restarted \cap {s, d} # {}

Confirm(s) == /\ s \in underway
              /\ Arrived(s, Len(sent[s]))
              /\ underway' = underway \ {s}
              /\ confirmed' = [confirmed EXCEPT ![s] = Len(sent[s])]
              /\ UNCHANGED <<sent, got, restarted>>

GiveUp(s) == /\ s \in underway
             /\ underway' = underway \ {s}
             /\ UNCHANGED <<sent, got, confirmed, restarted>>

Restart(n) == /\ underway' = underway \ {n}
              /\ got' = [got EXCEPT ![n] = NothingGot]
              /\ restarted' = restarted \cup {n}
              /\ UNCHANGED <<sent, confirmed>>

Next == \E n \in Node : Submit(n) \/ Deliver(n) \/ Confirm(n) \/ GiveUp(n) \/ Restart(n)

Spec == Init /\ [][Next]_vars
=============================================================================
