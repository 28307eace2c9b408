---------------------------- MODULE RoutingTable ----------------------------
(***************************************************************************)
(* The routing table of RHRouter.cpp: an array of entries searched from    *)
(* its first one.  An entry that is not valid keeps its destination, and   *)
(* an update looks for the destination in those entries too.               *)
(***************************************************************************)
EXTENDS Naturals, Sequences

CONSTANTS Address,      \* addresses, 0 and those a stray byte may name included
          Size          \* RH_ROUTING_TABLE_SIZE

ASSUME SizeAssumption == Size \in Nat \ {0}
ASSUME ZeroAssumption == 0 \in Address

Slots == 1 .. Size
Entry == [dest : Address, hop : Address, valid : BOOLEAN]
Table == [Slots -> Entry]

\* Memory is zeroed before the constructor invalidates every entry.
ClearedTable == [i \in Slots |-> [dest |-> 0, hop |-> 0, valid |-> FALSE]]

First(S) == CHOOSE i \in S : \A j \in S : i <= j

Mentions(t, d) == {i \in Slots : t[i].dest = d}
Routes(t, d) == {i \in Mentions(t, d) : t[i].valid}
Free(t) == {i \in Slots : ~t[i].valid}

HasRoute(t, d) == Routes(t, d) # {}
NextHop(t, d) == t[First(Routes(t, d))].hop

\* The entries behind move up; what was last is left there, invalid.
DeleteRoute(t, i) ==
  [j \in Slots |-> IF j = Size THEN [t[j] EXCEPT !.valid = FALSE]
                   ELSE IF j < i THEN t[j] ELSE t[j + 1]]

\* Mutant: the table is searched from its end.
DeleteLastRouteTo(t, d) ==
  IF Mentions(t, d) = {} THEN t
  ELSE DeleteRoute(t, CHOOSE i \in Mentions(t, d) : \A j \in Mentions(t, d) : i >= j)

DeleteRouteTo(t, d) ==
  IF Mentions(t, d) = {} THEN t ELSE DeleteRoute(t, First(Mentions(t, d)))

RetireOldestRoute(t) == DeleteRoute(t, 1)

\* Mutant: a free entry is preferred to the destination's own.
AddRouteAnew(t, d, h) ==
  LET new == [dest |-> d, hop |-> h, valid |-> TRUE]
  IN IF Free(t) # {} THEN [t EXCEPT ![First(Free(t))] = new]
     ELSE [t EXCEPT ![1] = new]

AddRouteTo(t, d, h) ==
  LET new == [dest |-> d, hop |-> h, valid |-> TRUE]
      retired == RetireOldestRoute(t)
  IN IF Mentions(t, d) # {} THEN [t EXCEPT ![First(Mentions(t, d))] = new]
     ELSE IF Free(t) # {} THEN [t EXCEPT ![First(Free(t))] = new]
     ELSE [i \in Slots |-> IF retired[i].valid THEN retired[i] ELSE new]

\* One destination after the other, all by the same next hop.
AddRoutesTo(t, ds, h) ==
  LET after[i \in 0 .. Len(ds)] ==
        IF i = 0 THEN t ELSE CHOOSE u \in {AddRouteTo(b, ds[i], h) : b \in {after[i - 1]}} : TRUE
  IN after[Len(ds)]

\* Of the entries that name a destination only the first can be valid: what an
\* update or a deletion finds first is the route, and there is no other.
Unshadowed(t) == \A i, j \in Slots : i < j /\ t[i].dest = t[j].dest => ~t[j].valid
=============================================================================
