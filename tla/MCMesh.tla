------------------------------- MODULE MCMesh -------------------------------
(* Mesh for TLC: four addresses, in lines of four or three nodes or a pair.  *)
EXTENDS Mesh, TLC

MCNodes == 1 .. 4
MCAddresses == {0} \cup MCNodes
Line(k) == {<<a, b>> \in (1 .. k) \X (1 .. k) : a = b + 1 \/ b = a + 1}
To(d) == [kind |-> "text", dest |-> d]
EmptyTo(d) == [kind |-> "empty", dest |-> d]
Errands(a, b, c) == (1 :> a) @@ (2 :> b) @@ (3 :> c) @@ (4 :> <<>>)
Unwired == [n \in MCNodes |-> ClearedTable]
MCWorlds == {
  \* Two relays, and a route there is no room for: a response with a node between
  \* a relay and the node it is about.
  [linked |-> Line(4), errands |-> Errands(<<To(4)>>, <<>>, <<>>),
   wired |-> [Unwired EXCEPT ![2] = AddRouteTo(@, 3, 3)]],
  \* Texts that meet a discovery.
  [linked |-> Line(3), errands |-> Errands(<<To(3)>>, <<EmptyTo(1)>>, <<>>),
   wired |-> Unwired],
  \* The response to one discovery comes during the next; a broadcast.
  [linked |-> Line(3), errands |-> Errands(<<To(255)>>, <<To(3), To(1)>>, <<>>),
   wired |-> Unwired],
  \* Two ways to go.
  [linked |-> Line(3) \cup {<<1, 3>>, <<3, 1>>}, errands |-> Errands(<<To(3)>>, <<>>, <<>>),
   wired |-> Unwired]}
=============================================================================
