---------------------------- MODULE RoutingProofs ----------------------------
(***************************************************************************)
(* What the routing table's operations do, for a table of any size.        *)
(*                                                                         *)
(* Induction is by a least counterexample: the library states that a set   *)
(* of naturals has a least element without a parameter a prover would have *)
(* to guess.                                                               *)
(***************************************************************************)
EXTENDS RoutingTable, WellFoundedInduction, TLAPS

LEMMA LeastExists ==
  ASSUME NEW T, T \subseteq Nat, T # {}
  PROVE  \E x \in T : \A y \in T : x <= y
<1>1. IsWellFoundedOn(OpToRel(<, Nat), Nat)
  BY NatLessThanWellFounded
<1>2. PICK x \in T : \A y \in T : ~(<<y, x>> \in OpToRel(<, Nat))
  BY <1>1, WFMin
<1>3. ASSUME NEW y \in T PROVE x <= y
  <2>1. ~(<<y, x>> \in {ss \in Nat \X Nat : ss[1] < ss[2]})
    BY <1>2 DEF OpToRel
  <2>2. x \in Nat /\ y \in Nat
    OBVIOUS
  <2>3. ~(y < x)
    BY <2>1, <2>2
  <2> QED
    BY <2>2, <2>3
<1> QED
  BY <1>3

LEMMA FirstIsLeast ==
  ASSUME NEW S, S \subseteq Slots, S # {}
  PROVE  First(S) \in S /\ \A j \in S : First(S) <= j
<1>1. S \subseteq Nat
  BY SizeAssumption DEF Slots
<1>2. \E x \in S : \A y \in S : x <= y
  BY <1>1, LeastExists
<1> QED
  BY <1>2 DEF First

\* A table whose valid entries are distinct routes by way of the nodes in H.
Sound(t, H) == /\ t \in Table
               /\ Unshadowed(t)
               /\ \A i \in Slots : t[i].valid => t[i].hop \in H

LEMMA DeleteRouteKeeps ==
  ASSUME NEW H, NEW t, Sound(t, H), NEW i \in Slots
  PROVE  Sound(DeleteRoute(t, i), H)
<1> DEFINE u == DeleteRoute(t, i)
<1>1. t \in [Slots -> Entry] /\ Unshadowed(t)
  BY DEF Sound, Table
<1>2. \A j \in Slots : j \in Nat /\ j >= 1 /\ j <= Size /\ (j # Size => j + 1 \in Slots)
  BY SizeAssumption DEF Slots
<1>3. /\ u = [j \in Slots |-> u[j]]
      /\ \A j \in Slots : u[j] = IF j = Size THEN [t[j] EXCEPT !.valid = FALSE]
                                 ELSE IF j < i THEN t[j] ELSE t[j + 1]
  BY DEF DeleteRoute
<1>4. \A j \in Slots : j = Size =>
        u[j] \in Entry /\ ~u[j].valid /\ u[j].dest = t[j].dest
  BY <1>1, <1>3 DEF Entry
<1>5. \A j \in Slots : j # Size /\ j < i => u[j] = t[j]
  BY <1>2, <1>3
<1>6. \A j \in Slots : j # Size /\ ~(j < i) => u[j] = t[j + 1]
  BY <1>2, <1>3
<1>7. u \in Table
  BY <1>1, <1>2, <1>3, <1>4, <1>5, <1>6 DEF Table
<1>8. \A j \in Slots : u[j].valid => u[j].hop \in H
  BY <1>2, <1>4, <1>5, <1>6 DEF Sound
<1>9. Unshadowed(u)
  <2>1. SUFFICES ASSUME NEW j \in Slots, NEW k \in Slots, j < k, u[j].dest = u[k].dest
                 PROVE  ~u[k].valid
    BY DEF Unshadowed
  <2>2. CASE k = Size
    BY <1>4, <2>2
  <2>3. CASE k # Size
    <3>1. PICK a \in Slots : u[j] = t[a] /\ a = IF j < i THEN j ELSE j + 1
      BY <1>2, <1>5, <1>6, <2>1, <2>3
    <3>2. PICK b \in Slots : u[k] = t[b] /\ b = IF k < i THEN k ELSE k + 1
      BY <1>2, <1>5, <1>6, <2>3
    <3>3. a < b
      BY <1>2, <2>1, <3>1, <3>2
    <3> QED
      BY <1>1, <2>1, <3>1, <3>2, <3>3 DEF Unshadowed
  <2> QED
    BY <2>2, <2>3
<1> QED
  BY <1>7, <1>8, <1>9 DEF Sound

LEMMA MentionsInSlots ==
  ASSUME NEW t, NEW d
  PROVE  Mentions(t, d) \subseteq Slots /\ Routes(t, d) \subseteq Slots /\ Free(t) \subseteq Slots
BY DEF Mentions, Routes, Free

LEMMA DeleteRouteToKeeps ==
  ASSUME NEW H, NEW t, Sound(t, H), NEW d
  PROVE  Sound(DeleteRouteTo(t, d), H)
BY DeleteRouteKeeps, MentionsInSlots, FirstIsLeast DEF DeleteRouteTo

\* RHRouter::deleteRouteTo(): afterwards there is no route to the destination,
\* although only the first entry that names it is removed.
THEOREM DeleteRouteToForgets ==
  ASSUME NEW H, NEW t, Sound(t, H), NEW d
  PROVE  ~HasRoute(DeleteRouteTo(t, d), d)
<1> DEFINE u == DeleteRouteTo(t, d)
           f == First(Mentions(t, d))
<1>1. t \in [Slots -> Entry] /\ Unshadowed(t)
  BY DEF Sound, Table
<1>2. CASE Mentions(t, d) = {}
  BY <1>2 DEF DeleteRouteTo, HasRoute, Routes
<1>3. CASE Mentions(t, d) # {}
  <2>1. f \in Slots /\ t[f].dest = d /\ \A j \in Slots : t[j].dest = d => f <= j
    BY <1>3, MentionsInSlots, FirstIsLeast DEF Mentions
  <2>2. u = DeleteRoute(t, f)
    BY <1>3 DEF DeleteRouteTo
  <2>3. \A j \in Slots : j \in Nat /\ j >= 1 /\ j <= Size /\ (j # Size => j + 1 \in Slots)
    BY SizeAssumption DEF Slots
  <2>4. SUFFICES ASSUME NEW j \in Slots, u[j].dest = d, u[j].valid PROVE FALSE
    BY DEF HasRoute, Routes, Mentions
  <2>5. u[j] = IF j = Size THEN [t[j] EXCEPT !.valid = FALSE]
               ELSE IF j < f THEN t[j] ELSE t[j + 1]
    BY <2>2 DEF DeleteRoute
  <2>6. CASE j = Size
    BY <1>1, <2>4, <2>5, <2>6 DEF Entry
  <2>7. CASE j # Size /\ j < f
    BY <2>1, <2>3, <2>4, <2>5, <2>7
  <2>8. CASE j # Size /\ ~(j < f)
    <3>1. u[j] = t[j + 1] /\ j + 1 \in Slots /\ f < j + 1
      BY <2>1, <2>3, <2>5, <2>8
    <3> QED
      BY <1>1, <2>1, <2>4, <3>1 DEF Unshadowed
  <2> QED
    BY <2>6, <2>7, <2>8
<1> QED
  BY <1>2, <1>3

\* A full table: the first entry goes, the others move up, the last slot is free.
LEMMA RetiredTable ==
  ASSUME NEW H, NEW t, Sound(t, H), Free(t) = {}
  PROVE  LET r == RetireOldestRoute(t)
         IN \A i \in Slots : /\ i # Size => i + 1 \in Slots /\ r[i] = t[i + 1] /\ r[i].valid
                             /\ i = Size => ~r[i].valid
<1> DEFINE r == RetireOldestRoute(t)
<1>1. t \in [Slots -> Entry] /\ \A i \in Slots : t[i].valid
  BY DEF Sound, Table, Free, Entry
<1>2. \A j \in Slots : j \in Nat /\ j >= 1 /\ j <= Size /\ (j # Size => j + 1 \in Slots)
  BY SizeAssumption DEF Slots
<1>3. \A j \in Slots : r[j] = IF j = Size THEN [t[j] EXCEPT !.valid = FALSE]
                              ELSE IF j < 1 THEN t[j] ELSE t[j + 1]
  BY DEF RetireOldestRoute, DeleteRoute
<1>4. \A j \in Slots : j = Size => ~r[j].valid
  BY <1>1, <1>3 DEF Entry
<1>5. ASSUME NEW j \in Slots, j # Size PROVE r[j] = t[j + 1] /\ r[j].valid
  <2>1. ~(j < 1) /\ j + 1 \in Slots
    BY <1>2, <1>5
  <2>2. r[j] = t[j + 1]
    BY <1>3, <1>5, <2>1
  <2> QED
    BY <1>1, <2>1, <2>2
<1> QED
  BY <1>2, <1>4, <1>5

\* The two ways AddRouteTo() leaves u of t: one entry overwritten, or all moved.
Overwrites(t, u, new) ==
  \E f \in Slots : /\ u = [t EXCEPT ![f] = new]
                   /\ \A j \in Slots : t[j].dest = new.dest => f <= j
                   /\ t[f].dest = new.dest \/ (Mentions(t, new.dest) = {} /\ ~t[f].valid)
Moves(t, u, new) ==
  /\ Mentions(t, new.dest) = {} /\ Free(t) = {}
  /\ u \in [Slots -> {new} \cup {t[j] : j \in Slots}]
  /\ \A j \in Slots : /\ j # Size => j + 1 \in Slots /\ u[j] = t[j + 1]
                      /\ j = Size => u[j] = new

LEMMA AddRouteToWrites ==
  ASSUME NEW H, NEW t, Sound(t, H), NEW d, NEW h,
         NEW new, new = [dest |-> d, hop |-> h, valid |-> TRUE]
  PROVE  Overwrites(t, AddRouteTo(t, d, h), new) \/ Moves(t, AddRouteTo(t, d, h), new)
<1> DEFINE u == AddRouteTo(t, d, h)
           r == RetireOldestRoute(t)
<1>1. CASE Mentions(t, d) # {}
  <2> DEFINE f == First(Mentions(t, d))
  <2>1. f \in Slots /\ t[f].dest = d /\ \A j \in Slots : t[j].dest = d => f <= j
    BY <1>1, MentionsInSlots, FirstIsLeast DEF Mentions
  <2>2. u = [t EXCEPT ![f] = new]
    BY <1>1 DEF AddRouteTo
  <2> QED
    BY <2>1, <2>2 DEF Overwrites
<1>2. CASE Mentions(t, d) = {} /\ Free(t) # {}
  <2> DEFINE f == First(Free(t))
  <2>1. f \in Slots /\ ~t[f].valid
    BY <1>2, MentionsInSlots, FirstIsLeast DEF Free
  <2>2. \A j \in Slots : t[j].dest # d
    BY <1>2 DEF Mentions
  <2>3. u = [t EXCEPT ![f] = new]
    BY <1>2 DEF AddRouteTo
  <2> QED
    BY <1>2, <2>1, <2>2, <2>3 DEF Overwrites
<1>3. CASE Mentions(t, d) = {} /\ Free(t) = {}
  <2>1. u = [i \in Slots |-> IF r[i].valid THEN r[i] ELSE new]
    BY <1>3 DEF AddRouteTo
  <2>2. \A i \in Slots : /\ i # Size => i + 1 \in Slots /\ r[i] = t[i + 1] /\ r[i].valid
                         /\ i = Size => ~r[i].valid
    BY <1>3, RetiredTable
  <2>3. \A j \in Slots : /\ j # Size => j + 1 \in Slots /\ u[j] = t[j + 1]
                         /\ j = Size => u[j] = new
    BY <2>1, <2>2
  <2>4. u \in [Slots -> {new} \cup {t[j] : j \in Slots}]
    BY <2>1, <2>3
  <2> QED
    BY <1>3, <2>3, <2>4 DEF Moves
<1> QED
  BY <1>1, <1>2, <1>3

LEMMA AddRouteToKeeps ==
  ASSUME NEW H, H \subseteq Address, NEW t, Sound(t, H), NEW d \in Address, NEW h \in H
  PROVE  Sound(AddRouteTo(t, d, h), H)
<1> DEFINE new == [dest |-> d, hop |-> h, valid |-> TRUE]
           u == AddRouteTo(t, d, h)
<1>1. t \in [Slots -> Entry] /\ Unshadowed(t) /\ new \in Entry
  BY DEF Sound, Table, Entry
<1>2. \A j \in Slots : j \in Nat /\ j >= 1 /\ j <= Size
  BY SizeAssumption DEF Slots
<1>3. CASE Overwrites(t, u, new)
  <2>1. PICK f \in Slots : /\ u = [t EXCEPT ![f] = new]
                           /\ \A j \in Slots : t[j].dest = d => f <= j
                           /\ t[f].dest = d \/ (Mentions(t, d) = {} /\ ~t[f].valid)
    BY <1>3 DEF Overwrites
  <2>2. u \in Table /\ u[f] = new /\ \A j \in Slots : j # f => u[j] = t[j]
    BY <1>1, <2>1 DEF Table
  <2>3. \A j \in Slots : u[j].valid => u[j].hop \in H
    BY <2>2 DEF Sound
  <2>4. Unshadowed(u)
    <3>1. SUFFICES ASSUME NEW j \in Slots, NEW k \in Slots, j < k, u[j].dest = u[k].dest
                   PROVE  ~u[k].valid
      BY DEF Unshadowed
    <3>2. CASE j # f /\ k # f
      BY <1>1, <2>2, <3>1, <3>2 DEF Unshadowed
    <3>3. CASE j = f
      <4>1. k # f /\ u[k] = t[k] /\ t[k].dest = d
        BY <1>2, <2>2, <3>1, <3>3
      <4>2. t[f].dest = d
        BY <2>1, <4>1 DEF Mentions
      <4> QED
        BY <1>1, <3>1, <3>3, <4>1, <4>2 DEF Unshadowed
    <3>4. CASE k = f
      <4>1. j # f /\ u[j] = t[j] /\ t[j].dest = d
        BY <1>2, <2>2, <3>1, <3>4
      <4>2. f <= j
        BY <2>1, <4>1
      <4> QED
        BY <1>2, <3>1, <3>4, <4>2
    <3> QED
      BY <3>2, <3>3, <3>4
  <2> QED
    BY <2>2, <2>3, <2>4 DEF Sound
<1>4. CASE Moves(t, u, new)
  <2>0. /\ Mentions(t, d) = {}
        /\ u \in [Slots -> {new} \cup {t[j] : j \in Slots}]
        /\ \A j \in Slots : /\ j # Size => j + 1 \in Slots /\ u[j] = t[j + 1]
                            /\ j = Size => u[j] = new
    BY <1>4 DEF Moves
  <2>1. u \in Table
    <3>1. {new} \cup {t[j] : j \in Slots} \subseteq Entry
      BY <1>1
    <3> QED
      BY <2>0, <3>1 DEF Table
  <2>2. \A j \in Slots : u[j].valid => u[j].hop \in H
    BY <2>0 DEF Sound
  <2>3. Unshadowed(u)
    <3>1. SUFFICES ASSUME NEW j \in Slots, NEW k \in Slots, j < k, u[j].dest = u[k].dest
                   PROVE  ~u[k].valid
      BY DEF Unshadowed
    <3>2. j # Size /\ j + 1 \in Slots /\ u[j] = t[j + 1]
      BY <1>2, <2>0, <3>1
    <3>3. CASE k = Size
      <4>1. t[j + 1].dest = d
        BY <2>0, <3>1, <3>2, <3>3
      <4> QED
        BY <2>0, <3>2, <4>1 DEF Mentions
    <3>4. CASE k # Size
      <4>1. k + 1 \in Slots /\ u[k] = t[k + 1] /\ j + 1 < k + 1
        BY <1>2, <2>0, <3>1, <3>4
      <4> QED
        BY <1>1, <3>1, <3>2, <4>1 DEF Unshadowed
    <3> QED
      BY <3>3, <3>4
  <2> QED
    BY <2>1, <2>2, <2>3 DEF Sound
<1> QED
  BY <1>3, <1>4, AddRouteToWrites

\* RHRouter::addRouteTo() followed by getRouteTo(): the route is the one just
\* given, whatever the table held and however full it was.
THEOREM AddRouteToGives ==
  ASSUME NEW H, H \subseteq Address, NEW t, Sound(t, H), NEW d \in Address, NEW h \in H
  PROVE  LET u == AddRouteTo(t, d, h) IN HasRoute(u, d) /\ NextHop(u, d) = h
<1> DEFINE new == [dest |-> d, hop |-> h, valid |-> TRUE]
           u == AddRouteTo(t, d, h)
<1>1. Sound(u, H)
  BY AddRouteToKeeps
<1>2. t \in [Slots -> Entry] /\ Size \in Slots
  BY SizeAssumption DEF Sound, Table, Slots
<1>3. PICK f \in Slots : u[f] = new
  <2>1. CASE Overwrites(t, u, new)
    BY <1>2, <2>1 DEF Overwrites
  <2>2. CASE Moves(t, u, new)
    BY <1>2, <2>2 DEF Moves
  <2> QED
    BY <2>1, <2>2, AddRouteToWrites
<1>4. f \in Routes(u, d)
  BY <1>3 DEF Routes, Mentions
<1>5. \A j \in Slots : j \in Nat
  BY DEF Slots
<1>6. \A j \in Routes(u, d) : j = f
  <2>1. SUFFICES ASSUME NEW j \in Routes(u, d), j # f PROVE FALSE
    OBVIOUS
  <2>2. j \in Slots /\ u[j].dest = d /\ u[j].valid /\ u[f].dest = d /\ u[f].valid
    BY <1>3, <2>1 DEF Routes, Mentions
  <2>3. j < f \/ f < j
    BY <1>5, <2>1, <2>2
  <2> QED
    BY <1>1, <2>2, <2>3 DEF Sound, Unshadowed
<1>7. First(Routes(u, d)) \in Routes(u, d)
  BY <1>4, MentionsInSlots, FirstIsLeast
<1>8. First(Routes(u, d)) = f
  BY <1>6, <1>7
<1> QED
  BY <1>3, <1>4, <1>8 DEF HasRoute, NextHop

\* RHRouter.h: "If there is not enough room the oldest (first) route will be
\* deleted": no other is, and with room none at all.
THEOREM AddRouteToSpares ==
  ASSUME NEW H, H \subseteq Address, NEW t, Sound(t, H), NEW d \in Address, NEW h \in H,
         NEW e \in Address, e # d, HasRoute(t, e)
  PROVE  HasRoute(AddRouteTo(t, d, h), e) \/ (Free(t) = {} /\ t[1].dest = e)
<1> DEFINE new == [dest |-> d, hop |-> h, valid |-> TRUE]
           u == AddRouteTo(t, d, h)
<1>1. t \in [Slots -> Entry] /\ \A j \in Slots : j \in Nat /\ j >= 1 /\ j <= Size
  BY SizeAssumption DEF Sound, Table, Slots
<1>2. PICK i \in Slots : t[i].dest = e /\ t[i].valid
  BY DEF HasRoute, Routes, Mentions
<1>3. CASE Overwrites(t, u, new)
  <2>1. u[i] = t[i]
    BY <1>1, <1>2, <1>3 DEF Overwrites
  <2> QED
    BY <1>2, <2>1 DEF HasRoute, Routes, Mentions
<1>4. CASE Moves(t, u, new)
  <2>1. CASE i = 1
    BY <1>2, <1>4, <2>1 DEF Moves
  <2>2. CASE i # 1
    <3>1. i - 1 \in Slots /\ i - 1 # Size /\ (i - 1) + 1 = i
      BY <1>1, <2>2, SizeAssumption DEF Slots
    <3>2. u[i - 1] = t[i]
      BY <1>4, <3>1 DEF Moves
    <3> QED
      BY <1>2, <3>1, <3>2 DEF HasRoute, Routes, Mentions
  <2> QED
    BY <2>1, <2>2
<1> QED
  BY <1>3, <1>4, AddRouteToWrites

\* An update gives no route to any other destination.
LEMMA AddRouteToOthers ==
  ASSUME NEW H, NEW t, Sound(t, H), NEW d, NEW h, NEW e, e # d, ~HasRoute(t, e)
  PROVE  ~HasRoute(AddRouteTo(t, d, h), e)
<1> DEFINE new == [dest |-> d, hop |-> h, valid |-> TRUE]
           u == AddRouteTo(t, d, h)
<1>1. SUFFICES ASSUME NEW i \in Slots, u[i].dest = e, u[i].valid PROVE FALSE
  BY DEF HasRoute, Routes, Mentions
<1>2. t \in [Slots -> Entry] /\ \A j \in Slots : ~(t[j].dest = e /\ t[j].valid)
  BY DEF Sound, Table, HasRoute, Routes, Mentions
<1>3. u[i] = new \/ \E j \in Slots : u[i] = t[j]
  <2>1. CASE Overwrites(t, u, new)
    BY <1>2, <2>1 DEF Overwrites
  <2>2. CASE Moves(t, u, new)
    BY <1>2, <2>2 DEF Moves
  <2> QED
    BY <2>1, <2>2, AddRouteToWrites
<1> QED
  BY <1>1, <1>2, <1>3

\* One step of AddRoutesTo().
Added(b, d, h) == CHOOSE u \in {AddRouteTo(c, d, h) : c \in {b}} : TRUE

LEMMA AddedIs == ASSUME NEW b, NEW d, NEW h PROVE Added(b, d, h) = AddRouteTo(b, d, h)
BY DEF Added

\* The tables between the first and the last.
IsRun(f, t, ds, h) ==
  f = [i \in 0 .. Len(ds) |-> IF i = 0 THEN t ELSE AddRouteTo(f[i - 1], ds[i], h)]

LEMMA AddRoutesToSteps ==
  ASSUME NEW t, NEW ds, Len(ds) \in Nat, NEW h
  PROVE  \E f : IsRun(f, t, ds, h) /\ AddRoutesTo(t, ds, h) = f[Len(ds)]
<1> DEFINE Run(f, k) == f = [i \in 0 .. k |-> IF i = 0 THEN t ELSE AddRouteTo(f[i - 1], ds[i], h)]
           Bad == {k \in Nat : ~\E f : Run(f, k)}
<1>1. Bad = {}
  <2>1. SUFFICES ASSUME Bad # {} PROVE FALSE
    OBVIOUS
  <2>2. Bad \subseteq Nat
    OBVIOUS
  <2>3. PICK k \in Bad : \A j \in Bad : k <= j
    BY <2>1, <2>2, LeastExists
  <2>4. CASE k = 0
    <3> DEFINE f == [i \in 0 .. 0 |-> t]
    <3>1. f = [i \in 0 .. 0 |-> IF i = 0 THEN t ELSE AddRouteTo(f[i - 1], ds[i], h)]
      OBVIOUS
    <3> QED
      BY <2>3, <2>4, <3>1
  <2>5. CASE k # 0
    <3>0. k \in Nat
      OBVIOUS
    <3>a. k - 1 \in Nat /\ ~(k <= k - 1)
      BY <2>5, <3>0
    <3>b. k - 1 \notin Bad
      <4> HIDE DEF Bad
      <4> QED
        BY <2>3, <3>a
    <3>1. k - 1 \in Nat /\ k \in Nat /\ k - 1 \notin Bad
      BY <3>0, <3>a, <3>b
    <3>2. PICK f : Run(f, k - 1)
      BY <3>1
    <3> DEFINE g == [i \in 0 .. k |-> IF i = k THEN AddRouteTo(f[k - 1], ds[k], h) ELSE f[i]]
    <3>3. ASSUME NEW i \in 0 .. k
          PROVE  g[i] = IF i = 0 THEN t ELSE AddRouteTo(g[i - 1], ds[i], h)
      <4>1. CASE i = k
        BY <2>5, <3>1, <4>1
      <4>2. CASE i # k /\ i = 0
        BY <3>1, <3>2, <4>2
      <4>3. CASE i # k /\ i # 0
        <5>1. i \in 0 .. (k - 1) /\ i - 1 \in 0 .. k /\ i - 1 # k
          BY <3>1, <4>3
        <5>2. f[i] = AddRouteTo(f[i - 1], ds[i], h)
          BY <3>2, <4>3, <5>1
        <5>3. g[i] = f[i] /\ g[i - 1] = f[i - 1]
          BY <4>3, <5>1
        <5> QED
          BY <4>3, <5>2, <5>3
      <4> QED
        BY <4>1, <4>2, <4>3
    <3>4. Run(g, k)
      BY <3>3
    <3> QED
      BY <2>3, <3>4
  <2> QED
    BY <2>4, <2>5
<1>2. PICK f0 : Run(f0, Len(ds))
  BY <1>1
<1> DEFINE F == CHOOSE f : f = [i \in 0 .. Len(ds) |->
                   IF i = 0 THEN t ELSE CHOOSE u \in {AddRouteTo(b, ds[i], h) : b \in {f[i - 1]}} : TRUE]
<1>3. AddRoutesTo(t, ds, h) = F[Len(ds)]
  BY DEF AddRoutesTo
<1>4. ASSUME NEW f, f = [i \in 0 .. Len(ds) |-> IF i = 0 THEN t ELSE AddRouteTo(f[i - 1], ds[i], h)]
      PROVE  f = [i \in 0 .. Len(ds) |-> IF i = 0 THEN t ELSE Added(f[i - 1], ds[i], h)]
  BY <1>4, AddedIs
<1>5. ASSUME NEW f, f = [i \in 0 .. Len(ds) |-> IF i = 0 THEN t ELSE Added(f[i - 1], ds[i], h)]
      PROVE  f = [i \in 0 .. Len(ds) |-> IF i = 0 THEN t ELSE AddRouteTo(f[i - 1], ds[i], h)]
  BY <1>5, AddedIs
<1>6. F = [i \in 0 .. Len(ds) |-> IF i = 0 THEN t ELSE Added(F[i - 1], ds[i], h)]
  <2>1. f0 = [i \in 0 .. Len(ds) |-> IF i = 0 THEN t ELSE Added(f0[i - 1], ds[i], h)]
    BY <1>2, <1>4
  <2> QED
    BY <2>1 DEF Added
<1>7. IsRun(F, t, ds, h)
  BY <1>5, <1>6 DEF IsRun
<1> QED
  BY <1>3, <1>7

\* A whole list of routes by one neighbour.
LEMMA AddRoutesToKeeps ==
  ASSUME NEW H, H \subseteq Address, NEW t, Sound(t, H), NEW ds \in Seq(Address), NEW h \in H
  PROVE  Sound(AddRoutesTo(t, ds, h), H)
<1>0. Len(ds) \in Nat /\ \A i \in 1 .. Len(ds) : ds[i] \in Address
  OBVIOUS
<1>1. PICK f : IsRun(f, t, ds, h) /\ AddRoutesTo(t, ds, h) = f[Len(ds)]
  BY <1>0, AddRoutesToSteps
<1> DEFINE Bad == {k \in Nat : k <= Len(ds) /\ ~Sound(f[k], H)}
<1>2. SUFFICES ASSUME Bad # {} PROVE FALSE
  <2>1. Bad = {} => Len(ds) \notin Bad
    OBVIOUS
  <2>2. Len(ds) \notin Bad => Sound(f[Len(ds)], H)
    BY <1>0
  <2> QED
    BY <1>1, <2>1, <2>2
<1>3. Bad \subseteq Nat
  OBVIOUS
<1>4. PICK k \in Bad : \A j \in Bad : k <= j
  <2> HIDE DEF Bad
  <2> QED
    BY <1>2, <1>3, LeastExists
<1>5. k \in Nat /\ k <= Len(ds) /\ ~Sound(f[k], H)
  OBVIOUS
<1>6. CASE k = 0
  BY <1>0, <1>1, <1>5, <1>6 DEF IsRun
<1>7. CASE k # 0
  <2>1. k - 1 \in Nat /\ ~(k <= k - 1) /\ k - 1 <= Len(ds) /\ k \in 0 .. Len(ds) /\ k \in 1 .. Len(ds)
    BY <1>0, <1>5, <1>7
  <2>2. k - 1 \notin Bad
    <3> HIDE DEF Bad
    <3> QED
      BY <1>4, <2>1
  <2>3. Sound(f[k - 1], H)
    BY <2>1, <2>2
  <2>4. f[k] = AddRouteTo(f[k - 1], ds[k], h)
    BY <1>1, <1>7, <2>1 DEF IsRun
  <2>5. ds[k] \in Address
    BY <1>0, <2>1
  <2> QED
    BY <1>5, <2>3, <2>4, <2>5, AddRouteToKeeps
<1> QED
  BY <1>6, <1>7
=============================================================================
