------------------------- MODULE MCReliableDatagram -------------------------
(* ReliableDatagram for TLC: a node that sends once and one that sends twice *)
(* and may lose power, before, between or after its messages.                *)
EXTENDS ReliableDatagram

Steady == 1
Fragile == 2
MCNodes == {Steady, Fragile}
MCUnstable == {Fragile}
MCMaxSent == [n \in MCNodes |-> IF n = Steady THEN 1 ELSE 2]
\* One request in all, and no restarts.
MCNobody == {}
MCOneRequest == [n \in MCNodes |-> IF n = Steady THEN 1 ELSE 0]
=============================================================================
