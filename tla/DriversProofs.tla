---------------------------- MODULE DriversProofs ----------------------------
(***************************************************************************)
(* What holds of the drivers for any number of packets and calls, and any  *)
(* sizes of their buffers: each hands over every message for its node once *)
(* and unmixed, except in the ways that Excused names.                     *)
(***************************************************************************)
EXTENDS Drivers, FiniteSetTheorems, FunctionTheorems, WellFoundedInduction, TLAPS

Sure == {"RF69", "MRF89", "ASK"}

\* The drivers whose handler may leave the chip in standby under sleep()'s mode.
Dozing == {"RF69", "MRF89", "CC110"}

Modes == {"Initialising", "Idle", "Rx", "Tx", "Sleep"}

\* After init(): the mode is the chip's, and where the program is in each.  In the
\* middle of sleep() the chip sleeps, or is where the handler has put it since.
ModeIsChips ==
  /\ mode \in Modes
  /\ IF pc = "sleepMode"
     THEN chip \in {"sleep", "idle"} /\ (chip = "idle" \/ queue # <<>> => late)
     ELSE /\ mode \in {"Initialising", "Idle"} => chip = "idle"
          /\ mode = "Rx" => chip = IF driver = "NRF51" /\ queue # <<>> THEN "idle" ELSE "rx"
          /\ mode = "Sleep" => chip = "sleep" \/ (chip = "idle" /\ late /\ driver \in Dozing)
  /\ mode = "Tx" => IF done THEN chip = "idle" ELSE chip = "tx"
  /\ mode # "Tx" => ~done

Program ==
  /\ pc \in {"app", "available", "setModeRx", "result", "copy", "clear", "send", "waitSent",
            "transmit", "sleep", "sleepMode"}
  /\ due \in {"any", "recv"} /\ {done, valid, late} \subseteq BOOLEAN
  /\ pc \in {"send", "waitSent", "transmit", "sleep", "sleepMode"} => due = "any"
  /\ pc \in {"setModeRx", "result", "copy", "clear", "transmit", "sleep", "sleepMode"} => mode # "Tx"

\* While a message is held, none is waiting in the chip, and none can end there: if
\* the receiver is on, the program is about to take what is held.
OneAtATime ==
  /\ queue = <<>> \/ \E kind \in Kinds : queue = <<kind>>
  /\ queue # <<>> => ~valid /\ (mode = "Rx" \/ driver = "ASK")
  /\ pc \in {"copy", "clear"} => valid
  /\ valid /\ mode = "Rx" => pc \in {"result", "copy", "clear"} \/ due = "recv"
  /\ mode = "Rx" /\ air # "none" => queue = <<>>
  /\ mode = "Rx" /\ air = "old" => ~valid

Waits == queue = <<"ours">>

\* What was heard was handed over, is held or waits, and it is unmixed.
Accounted ==
  /\ {heard, taken} \subseteq Nat
  /\ heard = taken + (IF Waits THEN 1 ELSE 0) + (IF Held THEN 1 ELSE 0)
  /\ valid => buf = <<"ours">>
  /\ out \in {<<>>, <<"ours">>}

Running == ModeIsChips /\ Program /\ OneAtATime /\ Accounted

\* At most one packet waits, and while it does the mode is receive.
One(seq) == seq = <<>> \/ \E kind \in Kinds : seq = <<kind>>
OneWaits == One(queue) /\ (queue # <<>> => mode = "Rx" /\ air = "none")

\* CC110 lets a message go before the receiver is on again, unless it is turned on over it.
CC110Runs ==
  /\ ModeIsChips /\ Program /\ OneWaits
  /\ ~relistened => /\ pc \in {"copy", "clear"} => valid
                    /\ valid => mode # "Rx"
                    /\ Accounted

\* RF22's mode is the chip's but where an event came late: into the atomic block of send(),
\* whose handler ran over the transmission, or into sleep().
RF22Modes ==
  /\ mode \in Modes
  /\ IF pc = "sleepMode"
     THEN /\ chip \in {"sleep", "rx"} /\ air # "old"
          /\ chip = "rx" \/ queue # <<>> => late
     ELSE /\ mode \in {"Initialising", "Idle"} => chip = "idle" \/ (chip = "tx" /\ late)
          /\ mode = "Rx" => chip = IF queue # <<>> THEN "idle" ELSE "rx"
          /\ mode = "Sleep" => (chip = "sleep" /\ queue = <<>>) \/ (chip \in {"idle", "rx"} /\ late)
  /\ mode = "Tx" => chip = "tx" \/ (chip = "idle" /\ done)
  /\ chip = "tx" => mode \in {"Idle", "Tx"} /\ (mode # "Tx" \/ done \/ queue # <<>> => late)
  /\ done => mode \in {"Idle", "Tx"}

\* What waits for its handler has found the receiver on, and nothing in the buffer.
RF22Waits ==
  /\ One(queue)
  /\ queue # <<>> => /\ chip # "rx" /\ mode \in {"Rx", "Sleep", "Tx"}
                     /\ IF mode = "Tx" THEN sentOver
                        ELSE air = "none" /\ (pc # "transmit" => buf = <<>>)
  /\ air # "none" => chip \in {"rx", "tx"}
  /\ chip = "rx" /\ air = "old" /\ pc # "transmit" => buf = <<>>

RF22Runs ==
  /\ RF22Modes /\ Program /\ RF22Waits
  /\ mode = "Tx" => ~valid
  /\ ~sentOver => /\ queue # <<>> => ~valid
                  /\ pc \in {"copy", "clear"} => valid
                  /\ pc = "transmit" => ~valid
                  /\ valid /\ chip = "rx" => pc \in {"result", "copy", "clear"} \/ due = "recv"
                  /\ chip = "rx" /\ air = "old" => ~valid
                  /\ Accounted

\* RF24's is but where INVALID_SYNC has set it.
RF24Modes ==
  /\ mode \in Modes
  /\ IF pc = "sleepMode" THEN chip = "sleep"
     ELSE /\ mode \in {"Initialising", "Idle"} =>
               chip = "idle" \/ (chip = "rx" /\ "nosync" \in seen)
          /\ mode = "Rx" => chip = IF queue # <<>> THEN "idle" ELSE "rx"
          /\ mode = "Sleep" => chip = "sleep"
  /\ pc = "transmit" => mode = "Idle"
  /\ mode = "Tx" => IF done THEN chip = "idle" ELSE chip = "tx"
  /\ mode # "Tx" => ~done

RF24Waits ==
  /\ One(queue)
  /\ queue # <<>> => /\ mode \notin {"Tx", "Sleep"} /\ air = "none" /\ chip # "rx"
                     /\ mode = "Rx" \/ "nosync" \in seen
  /\ \A i \in DOMAIN queue : queue[i] \in seen

\* Nothing has come that Excused names.
RF24Undisturbed == ~sentOver /\ "other" \notin seen /\ "nosync" \notin seen

RF24Runs ==
  /\ RF24Modes /\ Program /\ RF24Waits
  /\ RF24Undisturbed => /\ OneAtATime /\ Accounted
                        /\ mode = "Tx" \/ pc = "transmit" => ~valid
                        /\ ~valid /\ mode # "Tx" /\ pc # "transmit" => buf = <<>>

\* NRF24 and NRF51 have no interrupts: a message is held only while the program is about
\* to take it, and it waits for the end of what it sends.
Polling ==
  /\ pc \in {"app", "available", "copy", "send", "waitSent", "sleep"}
  /\ due \in {"any", "recv", "waitSent"} /\ {done, valid} \subseteq BOOLEAN
  /\ mode = "Tx" <=> due = "waitSent"
  /\ due = "waitSent" => pc \in {"app", "waitSent"}
  /\ pc \in {"send", "waitSent", "sleep"} => due \in {"any", "waitSent"}
  /\ valid => pc = "copy" \/ (due = "recv" /\ pc \in {"app", "available"})
  /\ pc = "copy" => valid

NRF51Runs ==
  /\ ModeIsChips /\ Polling /\ OneWaits
  /\ valid => mode # "Rx"
  /\ ~sentOver => Accounted

\* The messages in the FIFO are counted.
Totals ==
  /\ {heard, taken} \subseteq Nat
  /\ heard >= taken + OnTheWay
  /\ "faulty" \notin seen => heard = taken + OnTheWay
  /\ valid => buf = <<"ours">>
  /\ out \in {<<>>, <<"ours">>}

NRF24Runs ==
  /\ ModeIsChips /\ Polling /\ Totals
  /\ queue \in Seq(Kinds) /\ Len(queue) <= FifoSize
  /\ chip = "rx" /\ air # "none" => Len(queue) < FifoSize
  /\ \A i \in DOMAIN queue : queue[i] \in seen

\* Where in a frame the receiver of a serial line is, by the characters it has handled, and
\* where the next one takes it.
Places == {"idle", "dle", "data0", "data1", "escape1", "data2", "escape2", "fcs"}
Moves == {<<"idle", "DLE", "dle">>, <<"dle", "STX", "data0">>, <<"data0", "octet", "data1">>,
          <<"data1", "DLE", "escape1">>, <<"escape1", "DLE", "data2">>,
          <<"data2", "DLE", "escape2">>, <<"escape1", "ETX", "fcs">>,
          <<"escape2", "ETX", "fcs">>, <<"fcs", "ours", "idle">>, <<"fcs", "other", "idle">>}

\* The characters of seq lead from place a to place b.
Leads(seq, a, b) ==
  \E p \in [1 .. Len(seq) + 1 -> Places] :
    /\ p[1] = a /\ p[Len(seq) + 1] = b
    /\ \A i \in 1 .. Len(seq) : <<p[i], seq[i], p[i + 1]>> \in Moves

IsAt(a) == \/ a = "idle" /\ chip = "idle"
           \/ a = "dle" /\ chip = "dle"
           \/ a = "data0" /\ chip = "data" /\ buf = <<>>
           \/ a = "data1" /\ chip = "data" /\ buf = <<"octet">>
           \/ a = "escape1" /\ chip = "escape" /\ buf = <<"octet">>
           \/ a = "data2" /\ chip = "data" /\ buf \in I!Bodies
           \/ a = "escape2" /\ chip = "escape" /\ buf \in I!Bodies
           \/ a = "fcs" /\ chip = "fcs" /\ buf \in I!Bodies

\* What waits in the port completes the frame in hand, and whole frames follow it.
Parsed == \E a \in Places : IsAt(a) /\ Leads(queue, a, IF air = "none" THEN "idle" ELSE "fcs")

SerialRuns ==
  /\ mode = "Initialising" /\ chip \in I!States /\ done = FALSE
  /\ pc \in {"app", "available", "copy", "send", "waitSent"} /\ due \in {"any", "recv"}
  /\ valid \in BOOLEAN /\ (pc = "copy" => valid) /\ (valid => chip = "idle")
  /\ queue \in Seq(Kinds \cup I!Characters) /\ Len(queue) <= PortSize
  /\ air # "none" => Len(queue) < PortSize
  /\ buf \in Seq(Kinds \cup I!Characters) /\ Len(buf) <= PayloadSize
  /\ Totals
  /\ "faulty" \notin seen => Parsed

TCPRuns ==
  /\ mode = "Initialising" /\ chip = "idle" /\ done = FALSE
  /\ pc \in {"app", "available", "copy", "send", "waitSent", "stuck"} /\ due \in {"any", "recv"}
  /\ valid \in BOOLEAN /\ (pc = "copy" => valid)
  /\ queue \in Seq(Kinds) /\ One(buf)
  /\ ~relistened => /\ {heard, taken} \subseteq Nat
                    /\ heard = taken + OnTheWay
                    /\ valid => buf = <<"ours">>
                    /\ out \in {<<>>, <<"ours">>}

\* What memory and chip hold has its type, and fits.
Airs == {"none", "young", "old"}
Single(seq) == seq = <<>> \/ \E x \in Contents : seq = <<x>>

\* A transmission lasts, and then it ends.
OnAir == air \in Airs /\ (chip = "tx" => air # "none")

Fits == /\ OnAir
        /\ driver # "Serial" => buf \in Seq(Contents) /\ Len(buf) <= Room

\* Before init() has succeeded.
Starting == /\ mode = "Initialising" /\ valid = FALSE /\ buf = <<>> /\ due = "any"
            /\ heard = 0 /\ taken = 0 /\ out = <<>>
            /\ chip \in {"idle", "rx", "tx", "sleep"} /\ {done, late} \subseteq BOOLEAN /\ One(queue)
            /\ driver \in Together => chip = "idle" /\ queue = <<>>

Working == /\ driver \in Sure => Running
           /\ driver = "CC110" => CC110Runs
           /\ driver = "RF22" => RF22Runs
           /\ driver = "RF24" => RF24Runs
           /\ driver = "NRF24" => NRF24Runs
           /\ driver = "NRF51" => NRF51Runs
           /\ driver = "Serial" => SerialRuns
           /\ driver = "TCP" => TCPRuns

Inv == /\ driver \in Names /\ Fits
       /\ IF pc = "init" THEN Starting ELSE Working

-----------------------------------------------------------------------------
\* The queue has at most one packet.
LEMMA Singles ==
  /\ <<>> # <<"ours">>
  /\ \A kind \in Kinds : /\ <<kind>> # <<>> /\ Head(<<kind>>) = kind
                         /\ Append(<<>>, kind) = <<kind>>
                         /\ <<kind>> = <<"ours">> => kind = "ours"
<1>1. ASSUME NEW kind \in Kinds
      PROVE  /\ <<kind>> # <<>> /\ Head(<<kind>>) = kind
             /\ Append(<<>>, kind) = <<kind>>
  OBVIOUS
<1>2. ASSUME NEW kind \in Kinds, <<kind>> = <<"ours">>
      PROVE  kind = "ours"
  BY <1>2, <<kind>>[1] = <<"ours">>[1]
<1>. QED
  BY <1>1, <1>2

\* The places of a sequence at which there are packets for this node.
Ours(q) == {i \in DOMAIN q : q[i] = "ours"}

LEMMA OursFinite ==
  ASSUME NEW S, NEW q \in Seq(S)
  PROVE  IsFiniteSet(Ours(q)) /\ Cardinality(Ours(q)) \in Nat
<1>1. Ours(q) \subseteq 1 .. Len(q) /\ Len(q) \in Nat
  BY DEF Ours
<1>2. IsFiniteSet(1 .. Len(q))
  BY <1>1, FS_Interval
<1>3. IsFiniteSet(Ours(q))
  BY <1>1, <1>2, FS_Subset
<1>. QED
  BY <1>3, FS_CardinalityType

LEMMA OursAppend ==
  ASSUME NEW S, NEW q \in Seq(S), NEW kind \in S
  PROVE  Cardinality(Ours(Append(q, kind))) =
           Cardinality(Ours(q)) + (IF kind = "ours" THEN 1 ELSE 0)
<1> DEFINE n == Len(q) + 1
<1>1. /\ Len(q) \in Nat /\ DOMAIN q = 1 .. Len(q) /\ DOMAIN Append(q, kind) = 1 .. n
      /\ Append(q, kind)[n] = kind
      /\ \A i \in 1 .. Len(q) : Append(q, kind)[i] = q[i]
  OBVIOUS
<1>2. Ours(Append(q, kind)) = IF kind = "ours" THEN Ours(q) \cup {n} ELSE Ours(q)
  <2>1. \A i \in 1 .. n : i \in 1 .. Len(q) \/ i = n
    BY <1>1
  <2>2. 1 .. Len(q) \subseteq 1 .. n /\ n \in 1 .. n
    BY <1>1
  <2> HIDE DEF n
  <2>. QED
    BY <1>1, <2>1, <2>2 DEF Ours
<1>3. n \notin Ours(q)
  BY <1>1 DEF Ours
<1>4. Cardinality(Ours(q)) \in Nat
  BY OursFinite
<1>. QED
  <2> HIDE DEF n
  <2>1. IsFiniteSet(Ours(q))
    BY OursFinite
  <2>2. kind = "ours" => Cardinality(Ours(q) \cup {n}) = Cardinality(Ours(q)) + 1
    BY <1>3, <2>1, FS_AddElement
  <2>. QED
    BY <1>2, <1>4, <2>2

LEMMA OursTail ==
  ASSUME NEW S, NEW q \in Seq(S), q # <<>>
  PROVE  Cardinality(Ours(q)) =
           Cardinality(Ours(Tail(q))) + (IF Head(q) = "ours" THEN 1 ELSE 0)
<1> DEFINE rest == Ours(q) \ {1}
           f == [i \in Ours(Tail(q)) |-> i + 1]
<1>1. /\ Len(q) \in Nat /\ Len(q) >= 1 /\ DOMAIN q = 1 .. Len(q) /\ Head(q) = q[1]
      /\ Tail(q) \in Seq(S) /\ DOMAIN Tail(q) = 1 .. Len(q) - 1
      /\ \A i \in 1 .. Len(q) - 1 : Tail(q)[i] = q[i + 1]
  OBVIOUS
<1>2. f \in Bijection(Ours(Tail(q)), rest)
  <2>1. \A i \in Ours(Tail(q)) : i \in Nat /\ i >= 1 /\ i + 1 \in rest
    BY <1>1 DEF Ours
  <2>2. \A i, j \in Ours(Tail(q)) : f[i] = f[j] => i = j
    BY <2>1
  <2>3. \A j \in rest : j - 1 \in Ours(Tail(q)) /\ f[j - 1] = j
    <3> SUFFICES ASSUME NEW j \in rest
                 PROVE  j - 1 \in Ours(Tail(q)) /\ f[j - 1] = j
      OBVIOUS
    <3>1. j \in 1 .. Len(q) /\ j # 1 /\ q[j] = "ours"
      BY <1>1 DEF Ours
    <3>2. j - 1 \in 1 .. Len(q) - 1 /\ (j - 1) + 1 = j
      BY <1>1, <3>1
    <3>3. j - 1 \in Ours(Tail(q))
      BY <1>1, <3>1, <3>2 DEF Ours
    <3>. QED
      BY <3>2, <3>3
  <2>4. f \in [Ours(Tail(q)) -> rest]
    BY <2>1
  <2> HIDE DEF f
  <2>5. f \in Injection(Ours(Tail(q)), rest)
    BY <2>2, <2>4, Fun_IsInj
  <2>6. f \in Surjection(Ours(Tail(q)), rest)
    BY <2>3, <2>4, Fun_IsSurj
  <2>. QED
    BY <2>5, <2>6 DEF Bijection
<1>3. Cardinality(rest) = Cardinality(Ours(Tail(q)))
  <2>1. IsFiniteSet(Ours(Tail(q)))
    BY <1>1, OursFinite
  <2>. QED
    BY <1>2, <2>1, FS_Bijection DEF ExistsBijection
<1>4. Cardinality(Ours(q)) \in Nat /\ IsFiniteSet(Ours(q)) /\ Cardinality(Ours(Tail(q))) \in Nat
  BY <1>1, OursFinite
<1>5. CASE q[1] = "ours"
  <2>1. 1 \in Ours(q)
    BY <1>1, <1>5 DEF Ours
  <2>2. Cardinality(rest) = Cardinality(Ours(q)) - 1
    BY <1>4, <2>1, FS_RemoveElement
  <2>. QED
    BY <1>1, <1>3, <1>4, <1>5, <2>2
<1>6. CASE q[1] # "ours"
  <2>1. rest = Ours(q)
    BY <1>6 DEF Ours
  <2> HIDE DEF rest
  <2>. QED
    BY <1>1, <1>3, <1>4, <1>6, <2>1
<1>. QED
  BY <1>5, <1>6

\* What holds no packet for this node adds none.
LEMMA OursConcat ==
  ASSUME NEW S, NEW q \in Seq(S), NEW r \in Seq(S), \A i \in DOMAIN r : r[i] # "ours"
  PROVE  Ours(q \o r) = Ours(q)
<1>1. /\ q \o r \in Seq(S) /\ Len(q) \in Nat /\ Len(r) \in Nat
      /\ DOMAIN q = 1 .. Len(q) /\ DOMAIN r = 1 .. Len(r) /\ DOMAIN (q \o r) = 1 .. Len(q) + Len(r)
      /\ \A i \in 1 .. Len(q) : (q \o r)[i] = q[i]
      /\ \A i \in 1 .. Len(q) + Len(r) : i > Len(q) => (q \o r)[i] = r[i - Len(q)]
  OBVIOUS
<1>2. \A i \in 1 .. Len(q) + Len(r) : i \in 1 .. Len(q) \/ (i > Len(q) /\ i - Len(q) \in 1 .. Len(r))
  BY <1>1
<1>3. 1 .. Len(q) \subseteq 1 .. Len(q) + Len(r)
  BY <1>1
<1>. QED
  BY <1>1, <1>2, <1>3 DEF Ours

\* The sum in DeliveredOnce, of a queue with at most one packet.
LEMMA OursOfOne ==
  ASSUME NEW q, One(q)
  PROVE  Cardinality(Ours(q)) = IF q = <<"ours">> THEN 1 ELSE 0
<1>1. CASE q = <<>>
  <2>1. Ours(q) = {}
    BY <1>1 DEF Ours
  <2>. QED
    BY <1>1, <2>1, FS_EmptySet, Singles
<1>2. ASSUME NEW kind \in Kinds, q = <<kind>>
      PROVE  Cardinality(Ours(q)) = IF q = <<"ours">> THEN 1 ELSE 0
  <2>1. DOMAIN q = {1} /\ q[1] = kind
    BY <1>2
  <2>2. Ours(q) = IF kind = "ours" THEN {1} ELSE {}
    BY <2>1 DEF Ours
  <2>. QED
    BY <1>2, <2>2, FS_EmptySet, FS_Singleton, Singles
<1>. QED
  BY <1>1, <1>2 DEF One

\* The sum in DeliveredOnce.
LEMMA CountedNow ==
  pc # "init" /\ pc # "clear" => OnTheWay = Cardinality(Ours(queue)) + (IF valid THEN 1 ELSE 0)
BY DEF OnTheWay, Unread, Ours, Held

LEMMA CountedNext ==
  pc' # "init" /\ pc' # "clear" =>
    OnTheWay' = Cardinality(Ours(queue')) + (IF valid' THEN 1 ELSE 0)
BY DEF OnTheWay, Unread, Ours, Held

\* A message that comes, one that is taken into the buffer, and one handed over keep the sum.
LEMMA SumKept ==
  ASSUME Totals, OnTheWay \in Nat, OnTheWay' \in Nat,
         \/ heard' = heard /\ taken' = taken /\ OnTheWay' = OnTheWay
         \/ heard' = heard + 1 /\ taken' = taken /\ OnTheWay' = OnTheWay + 1
         \/ heard' = heard /\ taken' = taken + 1 /\ OnTheWay' = OnTheWay - 1,
         "faulty" \in seen => "faulty" \in seen',
         valid' => buf' = <<"ours">>, out' \in {<<>>, <<"ours">>}
  PROVE  Totals'
<1>1. heard \in Nat /\ taken \in Nat
  BY DEF Totals
<1>2. /\ heard' \in Nat /\ taken' \in Nat
      /\ heard >= taken + OnTheWay => heard' >= taken' + OnTheWay'
      /\ heard = taken + OnTheWay => heard' = taken' + OnTheWay'
  <2>1. CASE heard' = heard /\ taken' = taken /\ OnTheWay' = OnTheWay
    BY <1>1, <2>1
  <2>2. CASE heard' = heard + 1 /\ taken' = taken /\ OnTheWay' = OnTheWay + 1
    BY <1>1, <2>2
  <2>3. CASE heard' = heard /\ taken' = taken + 1 /\ OnTheWay' = OnTheWay - 1
    BY <1>1, <2>3
  <2>. QED
    BY <2>1, <2>2, <2>3
<1>. QED
  BY <1>2 DEF Totals

LEMMA TotalsKept ==
  ASSUME Totals, pc # "init", pc # "clear", pc' # "init", pc' # "clear",
         Cardinality(Ours(queue)) \in Nat, Cardinality(Ours(queue')) \in Nat,
         \/ /\ heard' = heard /\ taken' = taken /\ valid' = valid
            /\ Cardinality(Ours(queue')) = Cardinality(Ours(queue))
         \/ /\ heard' = heard /\ taken' = taken /\ ~valid /\ valid'
            /\ Cardinality(Ours(queue')) = Cardinality(Ours(queue)) - 1
         \/ /\ heard' = heard + 1 /\ taken' = taken /\ valid' = valid
            /\ Cardinality(Ours(queue')) = Cardinality(Ours(queue)) + 1
         \/ /\ heard' = heard /\ taken' = taken + 1 /\ valid /\ ~valid'
            /\ Cardinality(Ours(queue')) = Cardinality(Ours(queue)),
         "faulty" \in seen => "faulty" \in seen',
         valid' => buf' = <<"ours">>, out' \in {<<>>, <<"ours">>}
  PROVE  Totals'
<1> DEFINE n == Cardinality(Ours(queue))
           m == Cardinality(Ours(queue'))
<1>1. OnTheWay = n + (IF valid THEN 1 ELSE 0) /\ OnTheWay' = m + (IF valid' THEN 1 ELSE 0)
  BY CountedNow, CountedNext
<1>2. n \in Nat /\ m \in Nat
  OBVIOUS
<1> HIDE DEF n, m
<1>3. OnTheWay \in Nat /\ OnTheWay' \in Nat
  BY <1>1, <1>2
<1>4. \/ heard' = heard /\ taken' = taken /\ OnTheWay' = OnTheWay
      \/ heard' = heard + 1 /\ taken' = taken /\ OnTheWay' = OnTheWay + 1
      \/ heard' = heard /\ taken' = taken + 1 /\ OnTheWay' = OnTheWay - 1
  <2>1. CASE heard' = heard /\ taken' = taken /\ valid' = valid /\ m = n
    BY <1>1, <2>1
  <2>2. CASE heard' = heard /\ taken' = taken /\ ~valid /\ valid' /\ m = n - 1
    BY <1>1, <1>2, <2>2
  <2>3. CASE heard' = heard + 1 /\ taken' = taken /\ valid' = valid /\ m = n + 1
    BY <1>1, <1>2, <2>3
  <2>4. CASE heard' = heard /\ taken' = taken + 1 /\ valid /\ ~valid' /\ m = n
    BY <1>1, <1>2, <2>4
  <2>. QED
    BY <2>1, <2>2, <2>3, <2>4 DEF n, m
<1>. QED
  BY <1>3, <1>4, SumKept

-----------------------------------------------------------------------------
\* RH_RF69.cpp.
LEMMA RF69Keeps ==
  ASSUME Running, driver = "RF69", driver' = driver, A!Next
  PROVE  Running'
<1>. USE DEF Running, ModeIsChips, Program, OneAtATime, Accounted, Waits, Held, Kinds, Dozing, Modes,
             A!Kinds, A!radio, A!thread, A!driven, A!heardOf, A!handed, A!flags, A!history, A!At, A!Goto,
             A!Return, A!Answer, A!Step, A!NoInterrupt, A!SetMode, A!SetChip
<1>1. CASE A!Calls \/ A!CallSleep
  BY <1>1 DEF A!Calls, A!CallSleep, A!CallAvailable, A!CallRecv, A!CallSend, A!CallWaitSent,
              A!Call
<1>2. CASE A!Test(mode = "Tx", FALSE)
  BY <1>2 DEF A!Test
<1>3. CASE A!SetModeRx
  BY <1>3 DEF A!SetModeRx
<1>4. CASE A!Result(valid)
  BY <1>4 DEF A!Result
<1>5. CASE A!Copy
  BY <1>5 DEF A!Copy, A!HandOver
<1>6. CASE A!Clear(buf)
  BY <1>6 DEF A!Clear
<1>7. CASE A!Check
  BY <1>7 DEF A!Check
<1>8. CASE mode # "Tx" /\ A!Sent(A!SetMode("Tx", "tx") /\ UNCHANGED <<valid, buf>>) /\ UNCHANGED done
  BY <1>8 DEF A!Sent
<1>9. CASE A!sleep
  <2>1. CASE pc = "sleep"
    <3>1. /\ UNCHANGED <<queue, done, mode, valid, buf, heard, taken, out>> /\ due' = "any"
          /\ \/ mode = "Sleep" /\ pc' = "app" /\ UNCHANGED <<chip, air, late>>
             \/ /\ mode # "Sleep" /\ pc' = "sleepMode" /\ chip' = "sleep" /\ air' = "none"
                /\ late' \in BOOLEAN /\ (queue # <<>> => late')
      BY <1>9, <2>1 DEF A!sleep, A!Sleep
    <3>. QED
      BY <2>1, <3>1
  <2>2. CASE pc = "sleepMode"
    <3>1. /\ queue = <<>> /\ mode' = "Sleep" /\ pc' = "app" /\ due' = "any"
          /\ UNCHANGED <<chip, air, queue, done, valid, buf, heard, taken, out, late>>
      BY <1>9, <2>2 DEF A!sleep, A!Sleep
    <3>. QED
      BY <2>2, <3>1
  <2>. QED
    BY <1>9, <2>1, <2>2 DEF A!sleep, A!Sleep
<1>10. CASE A!handleInterrupt
  <2>1. CASE done /\ mode = "Tx"
    <3>1. /\ queue = <<>> /\ queue' = <<>> /\ done' = FALSE /\ mode' = "Idle" /\ chip' = "idle"
          /\ UNCHANGED <<valid, buf, pc, op, due, late, heard, taken, out>>
      BY <1>10, <2>1 DEF A!handleInterrupt
    <3>. QED
      BY <2>1, <3>1, Singles
  <2>2. CASE queue # <<>> /\ mode = "Rx"
    <3>1. PICK kind \in Kinds : queue = <<kind>>
      BY <2>2
    <3>2. /\ ~valid /\ ~done /\ A!readFifo
          /\ mode' = "Idle" /\ chip' = "idle" /\ air' = "none" /\ queue' = <<>> /\ done' = FALSE
          /\ UNCHANGED <<pc, op, due, late, heard, taken, out>>
      BY <1>10, <2>2 DEF A!handleInterrupt
    <3>3. IF kind = "ours" THEN valid' = TRUE /\ buf' = queue ELSE UNCHANGED <<valid, buf>>
      BY <3>1, <3>2, Singles DEF A!readFifo
    <3>4. CASE kind = "ours"
      <4>1. queue = <<"ours">> /\ buf' = <<"ours">> /\ valid' = TRUE /\ queue' # <<"ours">>
        BY <3>1, <3>2, <3>3, <3>4, Singles
      <4>2. heard' = taken' + 1 /\ pc # "clear"
        BY <3>2, <4>1
      <4>3. ModeIsChips'
        BY <3>2, <4>1
      <4>4. Program'
        BY <3>2, <4>1
      <4>5. OneAtATime'
        BY <3>2, <4>1
      <4>6. Accounted'
        BY <3>2, <4>1, <4>2
      <4>. QED
        BY <4>3, <4>4, <4>5, <4>6
    <3>5. CASE kind # "ours"
      BY <3>1, <3>2, <3>3, <3>5, Singles
    <3>. QED
      BY <3>4, <3>5
  <2>. QED
    BY <1>10, <2>1, <2>2 DEF A!handleInterrupt
<1>11. CASE A!PacketStarts(1)
  BY <1>11 DEF A!PacketStarts
<1>12. CASE A!TimePasses
  BY <1>12 DEF A!TimePasses, A!Waiting
<1>13. CASE A!RxEnds(A!Kinds, "rx")
  <2>1. PICK kind \in Kinds : /\ queue' = Append(queue, kind)
                               /\ heard' = heard + (IF kind = "ours" THEN 1 ELSE 0)
    BY <1>13 DEF A!RxEnds, A!Receives
  <2>2. /\ chip = "rx" /\ air = "old" /\ air' = "none" /\ chip' = "rx"
        /\ UNCHANGED <<done, mode, valid, buf, pc, op, due, late, taken, out>>
    BY <1>13 DEF A!RxEnds, A!Receives
  <2>3. mode = "Rx" /\ ~valid /\ queue = <<>> /\ queue' = <<kind>>
    BY <2>1, <2>2, Singles
  <2>. QED
    BY <2>1, <2>2, <2>3, Singles
<1>14. CASE A!TxEnds
  BY <1>14 DEF A!TxEnds
<1>. QED
  BY <1>1, <1>2, <1>3, <1>4, <1>5, <1>6, <1>7, <1>8, <1>9, <1>10, <1>11, <1>12, <1>13, <1>14
  DEF A!Next, A!Thread, A!available, A!recv, A!send, A!chipActs

\* RH_MRF89.cpp.
LEMMA MRF89Keeps ==
  ASSUME Running, driver = "MRF89", driver' = driver, C!Next
  PROVE  Running'
<1>. USE DEF Running, ModeIsChips, Program, OneAtATime, Accounted, Waits, Held, Kinds, Dozing, Modes,
             C!Kinds, C!radio, C!thread, C!driven, C!heardOf, C!handed, C!flags, C!history, C!At, C!Goto,
             C!Return, C!Answer, C!Step, C!NoInterrupt, C!SetMode, C!SetChip
<1>1. CASE C!Calls \/ C!CallSleep
  BY <1>1 DEF C!Calls, C!CallSleep, C!CallAvailable, C!CallRecv, C!CallSend, C!CallWaitSent,
              C!Call
<1>2. CASE C!Test(mode = "Tx", FALSE)
  BY <1>2 DEF C!Test
<1>3. CASE C!SetModeRx
  BY <1>3 DEF C!SetModeRx
<1>4. CASE C!Result(valid)
  BY <1>4 DEF C!Result
<1>5. CASE C!Copy
  BY <1>5 DEF C!Copy, C!HandOver
<1>6. CASE C!Clear(<<>>)
  BY <1>6 DEF C!Clear
<1>7. CASE C!Check
  BY <1>7 DEF C!Check
<1>8. CASE mode # "Tx" /\ C!Sent(C!SetMode("Tx", "tx") /\ UNCHANGED <<valid, buf>>) /\ UNCHANGED done
  BY <1>8 DEF C!Sent
<1>9. CASE C!sleep
  <2>1. CASE pc = "sleep"
    <3>1. /\ UNCHANGED <<queue, done, mode, valid, buf, heard, taken, out>> /\ due' = "any"
          /\ \/ mode = "Sleep" /\ pc' = "app" /\ UNCHANGED <<chip, air, late>>
             \/ /\ mode # "Sleep" /\ pc' = "sleepMode" /\ chip' = "sleep" /\ air' = "none"
                /\ late' \in BOOLEAN /\ (queue # <<>> => late')
      BY <1>9, <2>1 DEF C!sleep, C!Sleep
    <3>. QED
      BY <2>1, <3>1
  <2>2. CASE pc = "sleepMode"
    <3>1. /\ queue = <<>> /\ mode' = "Sleep" /\ pc' = "app" /\ due' = "any"
          /\ UNCHANGED <<chip, air, queue, done, valid, buf, heard, taken, out, late>>
      BY <1>9, <2>2 DEF C!sleep, C!Sleep
    <3>. QED
      BY <2>2, <3>1
  <2>. QED
    BY <1>9, <2>1, <2>2 DEF C!sleep, C!Sleep
<1>10. CASE C!handleInterrupt
  <2>1. CASE done
    <3>1. /\ queue = <<>> /\ queue' = <<>> /\ done' = FALSE /\ mode' = "Idle" /\ chip' = "idle"
          /\ UNCHANGED <<valid, buf, pc, op, due, late, heard, taken, out>>
      BY <1>10, <2>1 DEF C!handleInterrupt
    <3>. QED
      BY <2>1, <3>1, Singles
  <2>2. CASE ~done
    <3>1. PICK kind \in Kinds : queue = <<kind>>
      BY <1>10, <2>2 DEF C!handleInterrupt
    <3>2. /\ ~valid /\ mode = "Rx" /\ queue' = <<>> /\ done' = FALSE
          /\ UNCHANGED <<pc, op, due, late, heard, taken, out>>
      BY <1>10, <3>1, Singles DEF C!handleInterrupt
    <3>3. CASE kind = "ours"
      <4>1. /\ queue = <<"ours">> /\ buf' = <<"ours">> /\ valid' = TRUE /\ queue' # <<"ours">>
            /\ mode' = "Idle" /\ chip' = "idle" /\ air' = "none"
        BY <1>10, <3>1, <3>2, <3>3, Singles DEF C!handleInterrupt
      <4>2. heard' = taken' + 1 /\ pc # "clear"
        BY <3>2, <4>1
      <4>3. ModeIsChips'
        BY <3>2, <4>1
      <4>4. Program'
        BY <3>2, <4>1
      <4>5. OneAtATime'
        BY <3>2, <4>1
      <4>6. Accounted'
        BY <3>2, <4>1, <4>2
      <4>. QED
        BY <4>3, <4>4, <4>5, <4>6
    <3>4. CASE kind # "ours"
      <4>1. /\ queue # <<"ours">> /\ valid' = FALSE /\ UNCHANGED <<mode, chip, air>>
        BY <1>10, <3>1, <3>2, <3>4, Singles DEF C!handleInterrupt
      <4>. QED
        BY <3>2, <4>1, Singles
    <3>. QED
      BY <3>3, <3>4
  <2>. QED
    BY <2>1, <2>2
<1>11. CASE C!PacketStarts(1)
  BY <1>11 DEF C!PacketStarts
<1>12. CASE C!TimePasses
  BY <1>12 DEF C!TimePasses, C!Waiting
<1>13. CASE C!RxEnds(C!Kinds, "rx")
  <2>1. PICK kind \in Kinds : /\ queue' = Append(queue, kind)
                               /\ heard' = heard + (IF kind = "ours" THEN 1 ELSE 0)
    BY <1>13 DEF C!RxEnds, C!Receives
  <2>2. /\ chip = "rx" /\ air = "old" /\ air' = "none" /\ chip' = "rx"
        /\ UNCHANGED <<done, mode, valid, buf, pc, op, due, late, taken, out>>
    BY <1>13 DEF C!RxEnds, C!Receives
  <2>3. mode = "Rx" /\ ~valid /\ queue = <<>> /\ queue' = <<kind>>
    BY <2>1, <2>2, Singles
  <2>. QED
    BY <2>1, <2>2, <2>3, Singles
<1>14. CASE C!TxEnds
  BY <1>14 DEF C!TxEnds
<1>. QED
  BY <1>1, <1>2, <1>3, <1>4, <1>5, <1>6, <1>7, <1>8, <1>9, <1>10, <1>11, <1>12, <1>13, <1>14
  DEF C!Next, C!Thread, C!available, C!recv, C!send, C!chipActs

\* RH_ASK.cpp.
LEMMA ASKKeeps ==
  ASSUME Running, driver = "ASK", driver' = driver, H!Next
  PROVE  Running'
<1>. USE DEF Running, ModeIsChips, Program, OneAtATime, Accounted, Waits, Held, Kinds, Dozing, Modes,
             H!Kinds, H!radio, H!thread, H!driven, H!heardOf, H!handed, H!flags, H!history, H!At, H!Goto,
             H!Return, H!Answer, H!Step, H!NoInterrupt, H!SetMode, H!SetChip
<1>1. CASE H!Calls
  BY <1>1 DEF H!Calls, H!CallAvailable, H!CallRecv, H!CallSend, H!CallWaitSent,
              H!Call
<1>2. CASE H!Test(mode = "Tx", FALSE)
  BY <1>2 DEF H!Test
<1>3. CASE H!SetModeRx
  BY <1>3 DEF H!SetModeRx
<1>4. CASE H!validateRxBuf
  <2>1. CASE queue = <<>>
    BY <1>4, <2>1, Singles DEF H!validateRxBuf
  <2>2. CASE queue # <<>>
    <3>1. PICK kind \in Kinds : queue = <<kind>>
      BY <2>2
    <3>2. /\ ~valid /\ queue' = <<>> /\ buf' = <<kind>> /\ valid' = (kind = "ours")
          /\ pc = "result" /\ UNCHANGED <<chip, air, done, mode, late, heard, taken, out>>
          /\ \/ op = "recv" /\ valid' /\ pc' = "copy" /\ due' = due
             \/ pc' = "app" /\ due' = IF valid' THEN "recv" ELSE "any"
      BY <1>4, <2>2, <3>1, Singles DEF H!validateRxBuf
    <3>3. CASE kind = "ours"
      <4>1. queue = <<"ours">> /\ queue' # <<"ours">> /\ valid' = TRUE /\ buf' = <<"ours">>
        BY <3>1, <3>2, <3>3, Singles
      <4>2. air # "old" \/ mode # "Rx"
        BY <3>1, <3>2, Singles
      <4>3. heard' = taken' + 1
        BY <3>2, <4>1
      <4>4. ModeIsChips'
        BY <3>2, <4>1
      <4>5. Program'
        BY <3>2, <4>1
      <4>6. OneAtATime'
        BY <3>2, <4>1, <4>2
      <4>7. Accounted'
        BY <3>2, <4>1, <4>3
      <4>. QED
        BY <4>4, <4>5, <4>6, <4>7
    <3>4. CASE kind # "ours"
      <4>1. queue # <<"ours">> /\ valid' = FALSE
        BY <3>1, <3>2, <3>4, Singles
      <4>. QED
        BY <3>2, <4>1, Singles
    <3>. QED
      BY <3>3, <3>4
  <2>. QED
    BY <2>1, <2>2
<1>5. CASE H!Copy
  BY <1>5 DEF H!Copy, H!HandOver
<1>6. CASE H!Clear(buf)
  BY <1>6 DEF H!Clear
<1>7. CASE H!Check
  BY <1>7 DEF H!Check
<1>8. CASE mode # "Tx" /\ H!Sent(H!SetMode("Tx", "tx") /\ UNCHANGED <<valid, buf>>) /\ UNCHANGED done
  BY <1>8 DEF H!Sent
<1>9. CASE H!transmitTimer
  <2>1. /\ queue' = queue /\ done' = FALSE /\ mode' = "Idle" /\ chip' = "idle" /\ mode = "Tx"
        /\ UNCHANGED <<valid, buf, pc, op, due, late, heard, taken, out>>
    BY <1>9 DEF H!transmitTimer
  <2>. QED
    BY <2>1, Singles
<1>11. CASE H!PacketStarts(1)
  BY <1>11 DEF H!PacketStarts
<1>12. CASE H!TimePasses
  BY <1>12 DEF H!TimePasses, H!Waiting
<1>13. CASE H!receiveTimer
  <2>1. PICK kind \in Kinds : /\ queue' = Append(queue, kind)
                               /\ heard' = heard + (IF kind = "ours" THEN 1 ELSE 0)
    BY <1>13 DEF H!receiveTimer, H!Receives
  <2>2. /\ chip = "rx" /\ air = "old" /\ air' = "none" /\ chip' = "idle" /\ mode' = "Idle"
        /\ UNCHANGED <<done, valid, buf, pc, op, due, late, taken, out>>
    BY <1>13 DEF H!receiveTimer, H!Receives
  <2>3. mode = "Rx" /\ ~valid /\ queue = <<>> /\ queue' = <<kind>>
    BY <2>1, <2>2, Singles
  <2>. QED
    BY <2>1, <2>2, <2>3, Singles
<1>14. CASE H!TxEnds
  BY <1>14 DEF H!TxEnds
<1>. QED
  BY <1>1, <1>2, <1>3, <1>4, <1>5, <1>6, <1>7, <1>8, <1>9, <1>11, <1>12, <1>13, <1>14
  DEF H!Next, H!Thread, H!available, H!recv, H!send, H!chipActs

\* RH_CC110.cpp.
LEMMA CC110Keeps ==
  ASSUME CC110Runs, driver = "CC110", driver' = driver, B!Next
  PROVE  CC110Runs'
<1>. USE DEF CC110Runs, ModeIsChips, Program, OneWaits, One, Accounted, Waits, Held, Kinds, Dozing,
       Modes,
             B!Kinds, B!radio, B!thread, B!driven, B!heardOf, B!handed, B!flags, B!history, B!At, B!Goto,
             B!Return, B!Answer, B!Step, B!NoInterrupt, B!SetMode, B!SetChip
<1>1. CASE B!Calls \/ B!CallSleep
  BY <1>1 DEF B!Calls, B!CallSleep, B!CallAvailable, B!CallRecv, B!CallSend, B!CallWaitSent,
              B!Call
<1>2. CASE B!Test(mode = "Tx" \/ valid, mode # "Tx")
  BY <1>2 DEF B!Test
<1>3. CASE B!SetModeRx
  BY <1>3 DEF B!SetModeRx
<1>4. CASE B!Result(FALSE)
  BY <1>4 DEF B!Result
<1>5. CASE B!Copy
  BY <1>5 DEF B!Copy, B!HandOver
<1>6. CASE B!Clear(<<>>)
  BY <1>6 DEF B!Clear
<1>7. CASE B!Check
  BY <1>7 DEF B!Check
<1>8. CASE B!waitPacketSent /\ op = "send" /\ B!Sent(mode' = "Tx" /\ B!SetChip("tx") /\ UNCHANGED <<valid, buf>>)
  BY <1>8 DEF B!Sent, B!waitPacketSent
<1>15. CASE /\ B!waitPacketSent /\ B!Step("waitSent") /\ B!Return("any")
            /\ mode' = IF mode = "Tx" THEN "Idle" ELSE mode
            /\ UNCHANGED <<chip, air, queue, valid, buf, B!history>>
  BY <1>15 DEF B!waitPacketSent
<1>9. CASE B!sleep
  <2>1. CASE pc = "sleep"
    <3>1. /\ UNCHANGED <<queue, done, mode, valid, buf, heard, taken, out, relistened>> /\ due' = "any"
          /\ \/ mode = "Sleep" /\ pc' = "app" /\ UNCHANGED <<chip, air, late>>
             \/ /\ mode # "Sleep" /\ pc' = "sleepMode" /\ chip' = "sleep" /\ air' = "none"
                /\ late' \in BOOLEAN /\ (queue # <<>> => late')
      BY <1>9, <2>1 DEF B!sleep, B!Sleep
    <3>. QED
      BY <2>1, <3>1
  <2>2. CASE pc = "sleepMode"
    <3>1. /\ queue = <<>> /\ mode' = "Sleep" /\ pc' = "app" /\ due' = "any"
          /\ UNCHANGED <<chip, air, queue, done, valid, buf, heard, taken, out, late, relistened>>
      BY <1>9, <2>2 DEF B!sleep, B!Sleep
    <3>. QED
      BY <2>2, <3>1
  <2>. QED
    BY <1>9, <2>1, <2>2 DEF B!sleep, B!Sleep
<1>10. CASE B!handleInterrupt
  <2>1. PICK kind \in Kinds : queue = <<kind>>
    BY <1>10 DEF B!handleInterrupt
  <2>2. /\ mode = "Rx" /\ air = "none" /\ ~done /\ queue' = <<>>
        /\ UNCHANGED <<done, pc, op, due, late, heard, taken, out, relistened>>
        /\ \/ mode' = "Idle" /\ chip' = "idle" /\ air' = "none"
           \/ UNCHANGED <<mode, chip, air>>
    BY <1>10, <2>1, Singles DEF B!handleInterrupt
  <2>3. valid' \in BOOLEAN
    BY <1>10, <2>1, Singles DEF B!handleInterrupt
  <2>4. ASSUME ~relistened
        PROVE  Accounted' /\ ~valid /\ (valid' => mode' # "Rx")
    <3>1. ~valid /\ Accounted
      BY <2>2, <2>4
    <3>2. CASE kind = "ours"
      <4>1. /\ queue = <<"ours">> /\ queue' # <<"ours">> /\ buf' = <<"ours">> /\ valid' = TRUE
            /\ mode' = "Idle"
        BY <1>10, <2>1, <3>2, Singles DEF B!handleInterrupt
      <4>2. heard' = taken' + 1 /\ pc # "clear"
        BY <2>2, <2>4, <3>1, <4>1
      <4>. QED
        BY <2>2, <3>1, <4>1, <4>2
    <3>3. CASE kind # "ours"
      <4>1. queue # <<"ours">> /\ queue' # <<"ours">> /\ valid' = FALSE
        BY <1>10, <2>1, <2>2, <3>1, <3>3, Singles DEF B!handleInterrupt
      <4>. QED
        BY <2>2, <3>1, <4>1
    <3>. QED
      BY <3>2, <3>3
  <2>5. queue # <<>>
    BY <2>1, Singles
  <2>6. ModeIsChips'
    BY <2>2, <2>5
  <2>7. Program' /\ OneWaits'
    BY <2>2, <2>3
  <2>. QED
    BY <2>2, <2>4, <2>6, <2>7
<1>11. CASE B!PacketStarts(1)
  BY <1>11 DEF B!PacketStarts
<1>12. CASE B!TimePasses
  BY <1>12 DEF B!TimePasses, B!Waiting
<1>13. CASE B!RxEnds(B!Kinds, "rx")
  <2>1. PICK kind \in Kinds : /\ queue' = Append(queue, kind) /\ seen' = seen \cup {kind}
                               /\ heard' = heard + (IF kind = "ours" THEN 1 ELSE 0)
    BY <1>13 DEF B!RxEnds, B!Receives
  <2>2. /\ chip = "rx" /\ air = "old" /\ air' = "none" /\ chip' = "rx"
        /\ UNCHANGED <<done, mode, valid, buf, pc, op, due, late, taken, out, relistened, sentOver>>
    BY <1>13 DEF B!RxEnds, B!Receives
  <2>3. mode = "Rx" /\ queue = <<>> /\ queue' = <<kind>> /\ queue' # <<>>
    BY <2>1, <2>2, Singles
  <2>4. queue' = <<"ours">> <=> kind = "ours"
    BY <2>3, Singles
  <2>. QED
    BY <2>1, <2>2, <2>3, <2>4, Singles
<1>14. CASE B!TxEnds
  BY <1>14 DEF B!TxEnds
<1>. QED
  BY <1>1, <1>2, <1>3, <1>4, <1>5, <1>6, <1>7, <1>8, <1>9, <1>10, <1>11, <1>12, <1>13, <1>14, <1>15
  DEF B!Next, B!Thread, B!available, B!recv, B!send, B!chipActs

\* RH_RF22.cpp.
LEMMA RF22Keeps ==
  ASSUME RF22Runs, driver = "RF22", driver' = driver, D!Next
  PROVE  RF22Runs'
<1>. USE DEF RF22Runs, RF22Modes, RF22Waits, Modes, Program, One, Accounted, Waits, Held, Kinds,
             D!Kinds, D!radio, D!thread, D!driven, D!heardOf, D!handed, D!flags, D!history, D!At, D!Goto,
             D!Return, D!Answer, D!Step, D!NoInterrupt, D!SetMode, D!SetChip
<1>1. CASE D!Calls \/ D!CallSleep
  BY <1>1 DEF D!Calls, D!CallSleep, D!CallAvailable, D!CallRecv, D!CallSend, D!CallWaitSent,
              D!Call
<1>2. CASE D!Test(valid \/ mode = "Tx", valid)
  <2>1. /\ pc = "available" /\ ~done /\ queue = <<>>
        /\ UNCHANGED <<chip, air, queue, done, mode, valid, buf, heard, taken, out, sentOver, late>>
        /\ \/ valid /\ pc' = "copy" /\ due' = due
           \/ valid /\ pc' = "app" /\ due' = "recv"
           \/ ~valid /\ mode = "Tx" /\ pc' = "app" /\ due' = "any"
           \/ ~valid /\ mode # "Tx" /\ pc' = "setModeRx" /\ due' = due
    BY <1>2 DEF D!Test
  <2>. QED
    BY <2>1
<1>3. CASE D!SetModeRx
  BY <1>3 DEF D!SetModeRx
<1>4. CASE D!Result(valid)
  BY <1>4 DEF D!Result
<1>5. CASE D!Copy
  BY <1>5 DEF D!Copy, D!HandOver
<1>6. CASE D!Clear(<<>>)
  BY <1>6 DEF D!Clear
<1>7. CASE D!Check
  BY <1>7 DEF D!Check
<1>8. CASE mode # "Tx" /\ D!Waited
  BY <1>8 DEF D!Waited
<1>17. CASE D!fillTxBuf
  BY <1>17 DEF D!fillTxBuf
<1>18. CASE D!startTransmit
  BY <1>18 DEF D!startTransmit
<1>9. CASE D!sleep
  <2>1. CASE pc = "sleep"
    <3>1. /\ UNCHANGED <<queue, done, mode, valid, buf, heard, taken, out, sentOver>> /\ due' = "any"
          /\ \/ mode = "Sleep" /\ pc' = "app" /\ UNCHANGED <<chip, air, late>>
             \/ /\ mode # "Sleep" /\ pc' = "sleepMode" /\ chip' = "sleep" /\ air' = "none"
                /\ late' \in BOOLEAN /\ (queue # <<>> => late')
      BY <1>9, <2>1 DEF D!sleep, D!Sleep
    <3>. QED
      BY <2>1, <3>1
  <2>2. CASE pc = "sleepMode"
    <3>1. /\ queue = <<>> /\ ~done /\ mode' = "Sleep" /\ pc' = "app" /\ due' = "any"
          /\ UNCHANGED <<chip, air, queue, done, valid, buf, heard, taken, out, late, sentOver>>
      BY <1>9, <2>2 DEF D!sleep, D!Sleep
    <3>. QED
      BY <2>2, <3>1
  <2>. QED
    BY <1>9, <2>1, <2>2 DEF D!sleep, D!Sleep
<1>10. CASE D!handleInterrupt
  <2>1. /\ pc # "transmit" /\ queue' = <<>> /\ done' = FALSE
        /\ UNCHANGED <<pc, op, due, late, heard, taken, out, sentOver>>
    BY <1>10 DEF D!handleInterrupt
  <2>2. CASE D!PacketSent
    <3>1. done /\ queue = <<>> /\ mode' = "Idle" /\ UNCHANGED <<chip, air, valid, buf>>
      BY <1>10, <2>2 DEF D!handleInterrupt, D!PacketSent
    <3>. QED
      BY <2>1, <3>1
  <2>3. CASE D!PacketValid
    <3>1. /\ queue = <<"ours">> /\ mode' = "Idle" /\ valid' = TRUE /\ UNCHANGED <<chip, air>>
          /\ buf' = (IF buf = <<>> THEN queue ELSE buf)
      BY <2>3 DEF D!PacketValid
    <3>2. queue # <<>> /\ queue' # <<"ours">>
      BY <2>1, <3>1, Singles
    <3>3. chip # "rx" /\ (pc = "sleepMode" \/ mode = "Tx" \/ chip = "idle" \/ mode = "Sleep")
      BY <2>1, <3>1, <3>2
    <3>4. RF22Modes'
      BY <2>1, <3>1, <3>2, <3>3
    <3>5. Program'
      BY <2>1, <3>1
    <3>6. RF22Waits' /\ (mode' = "Tx" => ~valid')
      BY <2>1, <3>1, <3>2
    <3>7. ASSUME ~sentOver
          PROVE  /\ Accounted' /\ (pc' \in {"copy", "clear"} => valid') /\ pc' # "transmit"
                 /\ chip' # "rx"
      <4>1. ~valid /\ buf = <<>> /\ Accounted /\ pc \notin {"copy", "clear"}
        BY <2>1, <3>1, <3>2, <3>7
      <4>2. buf' = <<"ours">>
        BY <3>1, <4>1
      <4>. QED
        BY <2>1, <3>1, <3>2, <3>3, <4>1, <4>2
    <3>. QED
      BY <2>1, <3>4, <3>5, <3>6, <3>7
  <2>4. CASE D!BadLength
    <3>1. /\ queue # <<>> /\ (queue = <<"ours">> => buf # <<>>) /\ queue' # <<"ours">>
          /\ mode' = "Idle" /\ valid' = FALSE /\ buf' = <<>> /\ UNCHANGED <<chip, air>>
      BY <2>1, <2>4, Singles DEF D!BadLength
    <3>2. ~sentOver => queue # <<"ours">> /\ ~valid /\ mode # "Tx"
      BY <2>1, <3>1
    <3>3. RF22Modes'
      <4>1. chip # "rx" /\ mode \in {"Rx", "Sleep", "Tx"}
        BY <3>1
      <4>2. pc = "sleepMode" => late
        BY <3>1
      <4>3. chip \in {"sleep", "idle"} \/ (chip = "tx" /\ late)
        BY <3>1, <4>1
      <4>4. chip = "sleep" => pc = "sleepMode" \/ mode = "Sleep"
        BY <4>1
      <4>. QED
        BY <2>1, <3>1, <4>1, <4>2, <4>3, <4>4
    <3>4. Program'
      BY <2>1, <3>1
    <3>5. RF22Waits' /\ (mode' = "Tx" => ~valid')
      BY <2>1, <3>1
    <3>6. ~sentOver => Accounted'
      BY <2>1, <3>1, <3>2
    <3>. QED
      BY <2>1, <3>1, <3>2, <3>3, <3>4, <3>5, <3>6
  <2>5. CASE D!CrcError
    <3>1. /\ queue # <<>> /\ queue # <<"ours">> /\ queue' # <<"ours">>
          /\ mode' = "Rx" /\ chip' = "rx" /\ air' = "none" /\ valid' = FALSE /\ buf' = <<>>
      BY <2>1, <2>5, Singles DEF D!CrcError
    <3>2. ~sentOver => ~valid
      BY <3>1
    <3>3. RF22Modes'
      BY <2>1, <3>1
    <3>4. Program'
      BY <2>1, <3>1
    <3>5. RF22Waits' /\ (mode' = "Tx" => ~valid')
      BY <2>1, <3>1
    <3>6. ~sentOver => Accounted'
      BY <2>1, <3>1, <3>2
    <3>. QED
      BY <2>1, <3>1, <3>2, <3>3, <3>4, <3>5, <3>6
  <2>. QED
    BY <1>10, <2>2, <2>3, <2>4, <2>5 DEF D!handleInterrupt
<1>11. CASE D!PacketStarts(1)
  BY <1>11 DEF D!PacketStarts
<1>12. CASE chip = "tx" /\ D!TimePasses
  BY <1>12 DEF D!TimePasses, D!Waiting
<1>13. CASE D!RxEnds({"ours", "faulty"}, "idle")
  <2>1. PICK kind \in Kinds : /\ queue' = Append(queue, kind) /\ seen' = seen \cup {kind}
                               /\ heard' = heard + (IF kind = "ours" THEN 1 ELSE 0)
    BY <1>13 DEF D!RxEnds, D!Receives
  <2>2. /\ chip = "rx" /\ air = "old" /\ air' = "none" /\ chip' = "idle"
        /\ UNCHANGED <<done, mode, valid, buf, pc, op, due, late, taken, out, relistened, sentOver>>
    BY <1>13 DEF D!RxEnds, D!Receives
  <2>3. mode \in {"Rx", "Sleep"} /\ queue = <<>> /\ queue' = <<kind>> /\ queue' # <<>>
    BY <2>1, <2>2, Singles
  <2>4. queue' = <<"ours">> <=> kind = "ours"
    BY <2>3, Singles
  <2>. QED
    BY <2>1, <2>2, <2>3, <2>4, Singles
<1>14. CASE D!TxEnds
  BY <1>14 DEF D!TxEnds
<1>15. CASE D!Preamble
  <2>1. /\ chip = "rx" /\ queue = <<>> /\ ~(pc \in {"result", "copy", "clear"} \/ due = "recv")
        /\ air' = "old" /\ valid' = FALSE /\ buf' = <<>> /\ pc \in {"app", "waitSent"}
        /\ UNCHANGED <<chip, queue, done, mode, pc, op, due, late, heard, taken, out, sentOver>>
    BY <1>15 DEF D!Preamble, D!Waiting
  <2>2. ~sentOver => ~valid
    BY <2>1
  <2>. QED
    BY <2>1, <2>2
<1>16. CASE D!FifoError
  BY <1>16 DEF D!FifoError, D!Waiting
<1>. QED
  BY <1>1, <1>2, <1>3, <1>4, <1>5, <1>6, <1>7, <1>8, <1>9, <1>10, <1>11, <1>12, <1>13, <1>14, <1>15,
     <1>16, <1>17, <1>18
  DEF D!Next, D!Thread, D!available, D!recv, D!send, D!chipActs

\* RH_RF24.cpp.
LEMMA RF24Keeps ==
  ASSUME RF24Runs, driver = "RF24", driver' = driver, E!Next
  PROVE  RF24Runs'
<1>. USE DEF RF24Runs, RF24Modes, RF24Waits, RF24Undisturbed, Program, One, OneAtATime, Accounted,
       Waits, Held, Kinds, Modes,
             E!Kinds, E!radio, E!thread, E!driven, E!heardOf, E!handed, E!flags, E!history, E!At, E!Goto,
             E!Return, E!Answer, E!Step, E!NoInterrupt, E!SetMode, E!SetChip
<1>1. CASE E!Calls \/ E!CallSleep
  BY <1>1 DEF E!Calls, E!CallSleep, E!CallAvailable, E!CallRecv, E!CallSend, E!CallWaitSent,
              E!Call
<1>2. CASE E!Test(mode = "Tx" \/ valid, mode # "Tx")
  BY <1>2 DEF E!Test
<1>3. CASE E!SetModeRx
  BY <1>3 DEF E!SetModeRx
<1>4. CASE E!Result(valid)
  BY <1>4 DEF E!Result
<1>5. CASE E!Copy
  BY <1>5 DEF E!Copy, E!HandOver
<1>6. CASE E!Clear(<<>>)
  BY <1>6 DEF E!Clear
<1>7. CASE E!Check
  BY <1>7 DEF E!Check
<1>8. CASE mode # "Tx" /\ E!Waited
  BY <1>8 DEF E!Waited
<1>15. CASE E!fillBuf
  BY <1>15 DEF E!fillBuf
<1>16. CASE E!startTransmit
  BY <1>16 DEF E!startTransmit
<1>9. CASE E!sleep
  <2>1. CASE pc = "sleep"
    <3>1. /\ UNCHANGED <<queue, done, mode, valid, buf, heard, taken, out, sentOver,
           seen>> /\ due' = "any"
          /\ \/ mode = "Sleep" /\ pc' = "app" /\ UNCHANGED <<chip, air, late>>
             \/ /\ mode # "Sleep" /\ pc' = "sleepMode" /\ chip' = "sleep" /\ air' = "none"
                /\ late' \in BOOLEAN /\ (queue # <<>> => late')
      BY <1>9, <2>1 DEF E!sleep, E!Sleep
    <3>. QED
      BY <2>1, <3>1
  <2>2. CASE pc = "sleepMode"
    <3>1. /\ queue = <<>> /\ mode' = "Sleep" /\ pc' = "app" /\ due' = "any"
          /\ UNCHANGED <<chip, air, queue, done, valid, buf, heard, taken, out, late, sentOver, seen>>
      BY <1>9, <2>2 DEF E!sleep, E!Sleep
    <3>. QED
      BY <2>2, <3>1
  <2>. QED
    BY <1>9, <2>1, <2>2 DEF E!sleep, E!Sleep
<1>10. CASE E!handleInterrupt
  <2>1. CASE queue = <<>>
    <3>1. /\ done /\ mode = "Tx" /\ chip = "idle" /\ mode' = "Idle" /\ queue' = <<>> /\ done' = FALSE
          /\ valid' = FALSE /\ buf' = <<>>
          /\ UNCHANGED <<chip, air, pc, op, due, late, heard, taken, out, sentOver, seen>>
      BY <1>10, <2>1 DEF E!handleInterrupt, E!clearBuffer
    <3>. QED
      BY <2>1, <3>1, Singles
  <2>2. CASE queue # <<>>
    <3>1. PICK kind \in Kinds : queue = <<kind>>
      BY <2>2
    <3>2. kind \in seen
      <4>1. 1 \in DOMAIN queue /\ queue[1] = kind
        BY <3>1
      <4>. QED
        BY <4>1
    <3>3. /\ mode \notin {"Tx", "Sleep"} /\ chip # "rx" /\ air = "none" /\ ~done
          /\ queue' = <<>> /\ done' = FALSE /\ mode' = "Idle"
          /\ UNCHANGED <<chip, air, pc, op, due, late, heard, taken, out, sentOver, seen>>
      BY <1>10, <2>2, <3>1, Singles DEF E!handleInterrupt
    <3>4. valid' \in BOOLEAN
      BY <1>10, <3>1, Singles DEF E!handleInterrupt, E!Receive, E!clearBuffer
    <3>5. ASSUME RF24Undisturbed
          PROVE  /\ OneAtATime' /\ Accounted' /\ (mode' = "Tx" \/ pc' = "transmit" => ~valid')
                 /\ (~valid' /\ mode' # "Tx" /\ pc' # "transmit" => buf' = <<>>)
      <4>5. mode = "Rx" /\ "nosync" \notin seen /\ "other" \notin seen /\ OneAtATime /\ Accounted
        BY <2>2, <3>5
      <4>1. ~valid /\ buf = <<>> /\ pc # "transmit"
        BY <2>2, <4>5, <3>5
      <4>2. Len(buf) = 0 /\ Room # 0
        BY <4>1, SizesAssumption
      <4>3. CASE kind = "ours"
        <5>1. /\ queue = <<"ours">> /\ queue' # <<"ours">> /\ buf' = <<"ours">> /\ valid' = TRUE
              /\ pc # "clear"
          BY <1>10, <3>1, <3>3, <4>1, <4>5, <4>2, <4>3, Singles DEF E!handleInterrupt, E!Receive
        <5>2. heard' = taken' + 1
          BY <3>3, <4>1, <4>5, <5>1
        <5>. QED
          BY <3>3, <4>1, <4>5, <5>1, <5>2
      <4>4. CASE kind # "ours"
        <5>1. kind = "faulty"
          BY <3>1, <3>2, <3>5, <4>4
        <5>2. valid' = FALSE /\ buf' = <<>> /\ queue # <<"ours">>
          BY <1>10, <3>1, <4>4, <5>1, Singles DEF E!handleInterrupt, E!clearBuffer
        <5>. QED
          BY <3>3, <4>1, <4>5, <5>2, Singles
      <4>. QED
        BY <4>3, <4>4
    <3>6. RF24Modes'
      BY <2>2, <3>3
    <3>7. Program'
      BY <3>3, <3>4
    <3>8. DOMAIN queue' = {}
      BY <3>3
    <3>9. RF24Waits' /\ (RF24Undisturbed' <=> RF24Undisturbed)
      BY <3>3, <3>8
    <3>. QED
      BY <3>5, <3>6, <3>7, <3>9
  <2>. QED
    BY <2>1, <2>2
<1>11. CASE E!PacketStarts(1)
  BY <1>11 DEF E!PacketStarts
<1>12. CASE E!TimePasses
  BY <1>12 DEF E!TimePasses, E!Waiting
<1>13. CASE E!RxEnds(E!Kinds, "idle")
  <2>1. PICK kind \in Kinds : /\ queue' = Append(queue, kind) /\ seen' = seen \cup {kind}
                               /\ heard' = heard + (IF kind = "ours" THEN 1 ELSE 0)
    BY <1>13 DEF E!RxEnds, E!Receives
  <2>2. /\ chip = "rx" /\ air = "old" /\ air' = "none" /\ chip' = "idle"
        /\ UNCHANGED <<done, mode, valid, buf, pc, op, due, late, taken, out, relistened, sentOver>>
    BY <1>13 DEF E!RxEnds, E!Receives
  <2>3. /\ mode = "Rx" \/ (mode \in {"Initialising", "Idle"} /\ "nosync" \in seen)
        /\ pc # "sleepMode" /\ queue = <<>> /\ queue' = <<kind>> /\ queue' # <<>>
    BY <2>1, <2>2, Singles
  <2>4. queue' = <<"ours">> <=> kind = "ours"
    BY <2>3, Singles
  <2>5. DOMAIN queue' = {1} /\ queue'[1] \in seen'
    BY <2>1, <2>3
  <2>6. RF24Undisturbed' =>
          /\ OneAtATime' /\ Accounted' /\ (mode = "Tx" \/ pc = "transmit" => ~valid)'
          /\ (~valid /\ mode # "Tx" /\ pc # "transmit" => buf = <<>>)'
    BY <2>1, <2>2, <2>3, <2>4
  <2>7. seen \subseteq seen' /\ late' = late
    BY <1>13, <2>1 DEF E!RxEnds, E!Receives
  <2>. QED
    BY <2>1, <2>2, <2>3, <2>5, <2>6, <2>7
<1>14. CASE E!TxEnds
  BY <1>14 DEF E!TxEnds
<1>17. CASE E!invalidSync
  BY <1>17 DEF E!invalidSync, E!clearBuffer
<1>. QED
  BY <1>1, <1>2, <1>3, <1>4, <1>5, <1>6, <1>7, <1>8, <1>9, <1>10, <1>11, <1>12, <1>13, <1>14, <1>15,
     <1>16, <1>17
  DEF E!Next, E!Thread, E!available, E!recv, E!send, E!chipActs

\* RH_NRF51.cpp.
LEMMA NRF51Keeps ==
  ASSUME NRF51Runs, driver = "NRF51", driver' = driver, G!Next
  PROVE  NRF51Runs'
<1>. USE DEF NRF51Runs, ModeIsChips, Polling, OneWaits, One, Accounted, Waits, Held, Kinds, Dozing,
       Modes,
             G!Kinds, G!radio, G!thread, G!driven, G!heardOf, G!handed, G!flags, G!history, G!At,
             G!Goto, G!Return, G!Answer, G!SetMode, G!SetChip
<1>1. CASE G!Calls
  BY <1>1 DEF G!Calls, G!CallAvailable, G!CallRecv, G!CallSend, G!CallWaitSent, G!Call
<1>2. CASE G!available
  <2>1. /\ pc = "available" /\ UNCHANGED <<done, heard, taken, out, sentOver>>
        /\ \/ op = "recv" /\ valid' /\ pc' = "copy" /\ due' = due
           \/ ~(op = "recv" /\ valid') /\ pc' = "app" /\ due' = IF valid' THEN "recv" ELSE "any"
    BY <1>2 DEF G!available, G!Look
  <2>2. CASE valid \/ mode = "Tx"
    BY <1>2, <2>1, <2>2 DEF G!available
  <2>3. CASE ~valid /\ mode # "Tx" /\ mode # "Rx"
    BY <1>2, <2>3, Singles DEF G!available, G!Look
  <2>4. CASE ~valid /\ mode = "Rx" /\ queue = <<>>
    BY <1>2, <2>1, <2>4, Singles DEF G!available, G!Look
  <2>5. ASSUME NEW kind \in Kinds, ~valid, mode = "Rx", queue = <<kind>>
        PROVE  NRF51Runs'
    <3>1. CASE kind = "ours"
      <4>1. /\ mode' = "Idle" /\ chip' = "idle" /\ air' = "none" /\ queue' = <<>> /\ valid' = TRUE
            /\ buf' = <<"ours">> /\ queue = <<"ours">> /\ queue' # <<"ours">>
        BY <1>2, <2>5, <3>1, Singles DEF G!available, G!Look
      <4>2. ~sentOver => heard' = taken' + 1
        BY <2>1, <2>5, <4>1
      <4>. QED
        BY <2>1, <2>5, <4>1, <4>2
    <3>2. CASE kind # "ours"
      <4>1. UNCHANGED <<queue, mode, valid, buf, chip, air>> /\ queue # <<"ours">>
        BY <1>2, <2>5, <3>2, Singles DEF G!available, G!Look
      <4>. QED
        BY <2>1, <2>5, <4>1
    <3>. QED
      BY <3>1, <3>2
  <2>. QED
    BY <2>2, <2>3, <2>4, <2>5
<1>3. CASE G!recv
  <2>1. /\ pc = "copy" /\ valid /\ mode # "Tx" /\ taken' = taken + 1 /\ out' = buf /\ valid' = FALSE
        /\ pc' = "app" /\ due' = "any"
        /\ UNCHANGED <<chip, air, queue, done, mode, heard, sentOver>>
    BY <1>3 DEF G!recv, G!HandOver
  <2>2. ~sentOver => Accounted'
    BY <2>1
  <2>. QED
    BY <2>1, <2>2
<1>4. CASE G!send
  <2>1. pc = "send" /\ pc' = "app" /\ ~valid /\ UNCHANGED <<heard, taken, out>>
    BY <1>4 DEF G!send
  <2>2. CASE /\ mode' = "Tx" /\ chip' = "tx" /\ done' = FALSE /\ queue' = <<>> /\ valid' = FALSE
             /\ due' = "waitSent" /\ sentOver' = (sentOver \/ valid \/ queue # <<>>)
    BY <2>1, <2>2, Singles
  <2>3. CASE due' = "any" /\ UNCHANGED <<chip, air, queue, done, mode, valid, buf, sentOver>>
    BY <2>1, <2>3
  <2>. QED
    BY <1>4, <2>2, <2>3 DEF G!send
<1>5. CASE G!waitPacketSent
  BY <1>5 DEF G!waitPacketSent
<1>6. CASE G!PacketStarts(1)
  BY <1>6 DEF G!PacketStarts
<1>7. CASE G!TimePasses
  BY <1>7 DEF G!TimePasses
<1>8. CASE G!RxEnds(G!Kinds, "idle")
  <2>1. PICK kind \in Kinds : /\ queue' = Append(queue, kind)
                               /\ heard' = heard + (IF kind = "ours" THEN 1 ELSE 0)
    BY <1>8 DEF G!RxEnds, G!Receives
  <2>2. /\ chip = "rx" /\ air = "old" /\ air' = "none" /\ chip' = "idle"
        /\ UNCHANGED <<done, mode, valid, buf, pc, op, due, late, taken, out, sentOver>>
    BY <1>8 DEF G!RxEnds, G!Receives
  <2>3. mode = "Rx" /\ queue = <<>> /\ queue' = <<kind>> /\ queue' # <<>>
    BY <2>1, <2>2, Singles
  <2>4. queue' = <<"ours">> <=> kind = "ours"
    BY <2>3, Singles
  <2>. QED
    BY <2>1, <2>2, <2>3, <2>4, Singles
<1>9. CASE G!TxEnds
  BY <1>9 DEF G!TxEnds
<1>. QED
  BY <1>1, <1>2, <1>3, <1>4, <1>5, <1>6, <1>7, <1>8, <1>9 DEF G!Next, G!Thread, G!chipActs

\* RH_NRF24.cpp.
LEMMA NRF24Keeps ==
  ASSUME NRF24Runs, driver = "NRF24", driver' = driver, F!Next
  PROVE  NRF24Runs'
<1>. USE DEF NRF24Runs, ModeIsChips, Modes, Dozing, Polling, Kinds,
             F!Kinds, F!radio, F!thread, F!driven, F!heardOf, F!handed, F!flags, F!history, F!At,
             F!Goto, F!Return, F!Answer, F!SetMode, F!SetChip
<1>1. /\ Cardinality(Ours(queue)) \in Nat /\ {heard, taken} \subseteq Nat /\ FifoSize \in Nat
      /\ valid => buf = <<"ours">>
      /\ out \in {<<>>, <<"ours">>} /\ Totals /\ pc # "init" /\ pc # "clear"
  BY OursFinite, SizesAssumption DEF Totals
<1>2. CASE F!Calls \/ F!CallSleep
  <2>1. /\ UNCHANGED <<queue, valid, buf, heard, taken, out, seen, chip, air, done, mode>>
        /\ pc' # "init" /\ pc' # "clear"
    BY <1>2 DEF F!Calls, F!CallSleep, F!CallAvailable, F!CallRecv, F!CallSend, F!CallWaitSent, F!Call
  <2>2. Totals'
    BY <1>1, <2>1, TotalsKept
  <2>. QED
    BY <1>2, <2>1, <2>2
    DEF F!Calls, F!CallSleep, F!CallAvailable, F!CallRecv, F!CallSend, F!CallWaitSent, F!Call
<1>3. CASE F!available
  <2>1. /\ pc = "available" /\ UNCHANGED <<done, heard, taken, out, seen>>
        /\ \/ valid' /\ pc' = "copy" /\ due' = due
           \/ pc' = "app" /\ due' = IF valid' THEN "recv" ELSE "any"
    BY <1>3 DEF F!available, F!ReadFifo
  <2>2. CASE valid \/ mode = "Tx"
    <3>1. UNCHANGED <<chip, air, queue, valid, buf, mode>>
      BY <1>3, <2>2 DEF F!available
    <3>2. due' # "waitSent" /\ mode # "Tx"
      BY <2>1, <3>1
    <3>3. Totals'
      BY <1>1, <2>1, <3>1, TotalsKept
    <3>. QED
      BY <2>1, <3>1, <3>2, <3>3
  <2>3. CASE ~valid /\ mode # "Tx" /\ queue = <<>>
    <3>1. /\ UNCHANGED <<queue, valid, buf>> /\ mode' = "Rx" /\ chip' = "rx"
          /\ air' = IF mode # "Rx" THEN "none" ELSE air
      BY <1>3, <2>3 DEF F!available, F!ReadFifo
    <3>2. Totals'
      BY <1>1, <2>1, <3>1, TotalsKept
    <3>. QED
      BY <2>1, <2>3, <3>1, <3>2
  <2>4. CASE ~valid /\ mode # "Tx" /\ queue # <<>>
    <3>1. /\ Head(queue) \in Kinds /\ Tail(queue) \in Seq(Kinds) /\ Len(Tail(queue)) = Len(queue) - 1
          /\ Len(queue) \in Nat
          /\ \A i \in DOMAIN Tail(queue) : i + 1 \in DOMAIN queue /\ Tail(queue)[i] = queue[i + 1]
          /\ 1 \in DOMAIN queue /\ Head(queue) = queue[1]
      BY <2>4
    <3>2. Cardinality(Ours(queue)) = Cardinality(Ours(Tail(queue))) +
                                       (IF Head(queue) = "ours" THEN 1 ELSE 0)
      BY <2>4, OursTail
    <3>3. Cardinality(Ours(Tail(queue))) \in Nat
      BY <3>1, OursFinite
    <3>4. CASE Head(queue) = "faulty"
      <4>1. /\ mode' = "Idle" /\ chip' = "idle" /\ air' = "none" /\ queue' = <<>> /\ valid' = FALSE
            /\ pc' = "app" /\ due' = "any"
        BY <1>3, <2>1, <2>4, <3>4 DEF F!available, F!ReadFifo
      <4>2. "faulty" \in seen'
        BY <2>1, <3>1, <3>4
      <4>3. Ours(queue') = {} /\ Cardinality(Ours(queue')) = 0
        BY <4>1, FS_EmptySet DEF Ours
      <4>4. OnTheWay = Cardinality(Ours(queue)) /\ OnTheWay' = 0
        BY <1>1, <2>1, <2>4, <4>1, <4>3, CountedNow, CountedNext
      <4>5. Totals'
        BY <1>1, <2>1, <4>1, <4>2, <4>4 DEF Totals
      <4>6. ModeIsChips' /\ Polling'
        BY <1>1, <2>1, <4>1
      <4>. QED
        BY <1>1, <2>1, <4>1, <4>5, <4>6
    <3>5. CASE Head(queue) = "other"
      <4>1. /\ mode' = "Rx" /\ chip' = "rx" /\ air' = IF mode # "Rx" THEN "none" ELSE air
            /\ queue' = Tail(queue) /\ valid = FALSE /\ valid' = FALSE /\ pc' = "app" /\ due' = "any"
        BY <1>3, <2>1, <2>4, <3>5 DEF F!available, F!ReadFifo
      <4>2. /\ heard' = heard /\ taken' = taken /\ valid' = valid
            /\ Cardinality(Ours(queue')) = Cardinality(Ours(queue))
            /\ Cardinality(Ours(queue')) \in Nat
        <5>1. Cardinality(Ours(queue)) = Cardinality(Ours(Tail(queue)))
          BY <3>2, <3>3, <3>5
        <5>. QED
          BY <2>1, <3>3, <4>1, <5>1
      <4>3. Totals'
        BY <1>1, <2>1, <4>1, <4>2, TotalsKept
      <4>4. ModeIsChips' /\ Polling'
        BY <1>1, <2>1, <2>4, <4>1
      <4>. QED
        BY <1>1, <2>1, <2>4, <3>1, <4>1, <4>3, <4>4
    <3>6. CASE Head(queue) = "ours"
      <4>1. /\ mode' = "Idle" /\ chip' = "idle" /\ air' = "none" /\ queue' = Tail(queue)
            /\ valid' = TRUE /\ buf' = <<"ours">>
            /\ pc' = "copy" \/ (pc' = "app" /\ due' = "recv")
        BY <1>3, <2>1, <2>4, <3>6 DEF F!available, F!ReadFifo
      <4>2. /\ heard' = heard /\ taken' = taken /\ ~valid /\ valid'
            /\ Cardinality(Ours(queue')) = Cardinality(Ours(queue)) - 1
            /\ Cardinality(Ours(queue')) \in Nat
        BY <1>1, <2>1, <2>4, <3>2, <3>3, <3>6, <4>1
      <4>3. Totals'
        BY <1>1, <2>1, <4>1, <4>2, TotalsKept
      <4>4. ModeIsChips' /\ Polling'
        BY <1>1, <2>1, <2>4, <4>1
      <4>. QED
        BY <1>1, <2>1, <2>4, <3>1, <4>1, <4>3, <4>4
    <3>. QED
      BY <3>1, <3>4, <3>5, <3>6
  <2>. QED
    BY <2>2, <2>3, <2>4
<1>4. CASE F!recv
  <2>1. /\ pc = "copy" /\ valid /\ mode # "Tx" /\ taken' = taken + 1 /\ out' = buf /\ valid' = FALSE
        /\ pc' = "app" /\ due' = "any"
        /\ UNCHANGED <<chip, air, queue, done, mode, heard, seen>>
    BY <1>4 DEF F!recv, F!HandOver
  <2>2. Totals'
    BY <1>1, <2>1, TotalsKept
  <2>. QED
    BY <1>1, <2>1, <2>2
<1>5. CASE F!send
  <2>1. /\ pc = "send" /\ pc' = "app" /\ ~valid /\ due = "any"
        /\ UNCHANGED <<queue, valid, heard, taken, out, seen>>
        /\ \/ mode' = "Tx" /\ chip' = "tx" /\ done' = FALSE /\ due' = "waitSent"
           \/ due' = "any" /\ UNCHANGED <<chip, air, done, mode>>
    BY <1>5 DEF F!send
  <2>2. Totals'
    BY <1>1, <2>1, TotalsKept
  <2>3. ModeIsChips'
    BY <1>1, <2>1
  <2>4. Polling'
    BY <1>1, <2>1
  <2>. QED
    BY <1>1, <2>1, <2>2, <2>3, <2>4
<1>6. CASE F!waitPacketSent
  <2>1. /\ pc = "waitSent" /\ pc' = "app" /\ due' = "any" /\ ~valid
        /\ UNCHANGED <<queue, valid, heard, taken, out, seen>>
        /\ \/ mode = "Tx" /\ mode' = "Idle" /\ chip' = "idle" /\ done' = FALSE
           \/ mode # "Tx" /\ UNCHANGED <<chip, air, done, mode>>
    BY <1>6 DEF F!waitPacketSent
  <2>2. Totals'
    BY <1>1, <2>1, TotalsKept
  <2>3. ModeIsChips'
    BY <1>1, <2>1
  <2>4. Polling'
    BY <1>1, <2>1
  <2>. QED
    BY <1>1, <2>1, <2>2, <2>3, <2>4
<1>7. CASE F!sleep
  <2>1. /\ pc = "sleep" /\ pc' = "app" /\ due' = "any" /\ ~valid /\ mode # "Tx"
        /\ mode' = "Sleep" /\ chip' = "sleep"
        /\ UNCHANGED <<queue, done, valid, heard, taken, out, seen>>
    BY <1>7 DEF F!sleep
  <2>2. Totals'
    BY <1>1, <2>1, TotalsKept
  <2>3. ModeIsChips' /\ Polling'
    BY <1>1, <2>1
  <2>. QED
    BY <1>1, <2>1, <2>2, <2>3
<1>8. CASE F!PacketStarts(FifoSize) \/ F!TimePasses \/ F!TxEnds
  <2>1. UNCHANGED <<queue, mode, valid, buf, pc, due, heard, taken, out, seen>>
    BY <1>8 DEF F!PacketStarts, F!TimePasses, F!TxEnds
  <2>2. Totals'
    BY <1>1, <2>1, TotalsKept
  <2>3. ModeIsChips' /\ Polling'
    <3>1. CASE F!PacketStarts(FifoSize) \/ F!TimePasses
      BY <2>1, <3>1 DEF F!PacketStarts, F!TimePasses
    <3>2. CASE F!TxEnds
      BY <2>1, <3>2 DEF F!TxEnds
    <3>. QED
      BY <1>8, <3>1, <3>2
  <2>4. chip' = "rx" /\ air' # "none" => Len(queue) < FifoSize
    BY <1>1, <1>8, <2>1 DEF F!PacketStarts, F!TimePasses, F!TxEnds
  <2>. QED
    BY <1>1, <2>1, <2>2, <2>3, <2>4
<1>9. CASE F!RxEnds(F!Kinds, "rx")
  <2>1. PICK kind \in Kinds : /\ queue' = Append(queue, kind) /\ seen' = seen \cup {kind}
                               /\ heard' = heard + (IF kind = "ours" THEN 1 ELSE 0)
    BY <1>9 DEF F!RxEnds, F!Receives
  <2>2. /\ chip = "rx" /\ air = "old" /\ air' = "none" /\ chip' = "rx"
        /\ UNCHANGED <<done, mode, valid, buf, pc, op, due, late, taken, out>>
    BY <1>9 DEF F!RxEnds, F!Receives
  <2>3. /\ queue' \in Seq(Kinds) /\ Len(queue') = Len(queue) + 1 /\ Len(queue) \in Nat
        /\ \A i \in DOMAIN queue' : queue'[i] = kind \/ (i \in DOMAIN queue /\ queue'[i] = queue[i])
    BY <2>1
  <2>4. /\ Cardinality(Ours(queue')) = Cardinality(Ours(queue)) + (IF kind = "ours" THEN 1 ELSE 0)
        /\ Cardinality(Ours(queue')) \in Nat
    BY <2>1, <2>3, OursAppend, OursFinite
  <2>5. Totals'
    BY <1>1, <2>1, <2>2, <2>4, TotalsKept
  <2>. QED
    BY <1>1, <2>1, <2>2, <2>3, <2>5
<1>. QED
  BY <1>2, <1>3, <1>4, <1>5, <1>6, <1>7, <1>8, <1>9 DEF F!Next, F!Thread, F!chipActs

-----------------------------------------------------------------------------
\* What two texts lead through, the one and then the other.
LEMMA LeadsConcat ==
  ASSUME NEW S, NEW q \in Seq(S), NEW r \in Seq(S), NEW a, NEW b, NEW c,
         Leads(q, a, b), Leads(r, b, c)
  PROVE  Leads(q \o r, a, c)
<1>1. PICK p \in [1 .. Len(q) + 1 -> Places] :
        /\ p[1] = a /\ p[Len(q) + 1] = b
        /\ \A i \in 1 .. Len(q) : <<p[i], q[i], p[i + 1]>> \in Moves
  BY DEF Leads
<1>2. PICK t \in [1 .. Len(r) + 1 -> Places] :
        /\ t[1] = b /\ t[Len(r) + 1] = c
        /\ \A i \in 1 .. Len(r) : <<t[i], r[i], t[i + 1]>> \in Moves
  BY DEF Leads
<1> DEFINE n == Len(q)
           m == Len(r)
           u == [i \in 1 .. n + m + 1 |-> IF i <= n THEN p[i] ELSE t[i - n]]
<1>3. /\ n \in Nat /\ m \in Nat /\ Len(q \o r) = n + m
      /\ \A i \in 1 .. n : (q \o r)[i] = q[i]
      /\ \A i \in 1 .. n + m : i > n => (q \o r)[i] = r[i - n]
  OBVIOUS
<1>4. u \in [1 .. n + m + 1 -> Places]
  BY <1>1, <1>2, <1>3
<1>5. u[1] = a /\ u[n + m + 1] = c
  BY <1>1, <1>2, <1>3
<1>6. ASSUME NEW i \in 1 .. n + m
      PROVE  <<u[i], (q \o r)[i], u[i + 1]>> \in Moves
  <2>1. CASE i < n
    <3>1. u[i] = p[i] /\ u[i + 1] = p[i + 1] /\ (q \o r)[i] = q[i] /\ i \in 1 .. n
      BY <1>3, <2>1
    <3>. QED
      BY <1>1, <3>1
  <2>2. CASE i = n
    <3>1. u[i] = p[i] /\ u[i + 1] = t[1] /\ (q \o r)[i] = q[i] /\ i \in 1 .. n
      BY <1>3, <2>2
    <3>. QED
      BY <1>1, <1>2, <2>2, <3>1
  <2>3. CASE i > n
    <3>1. /\ u[i] = t[i - n] /\ u[i + 1] = t[(i - n) + 1] /\ (q \o r)[i] = r[i - n]
          /\ i - n \in 1 .. m
      BY <1>3, <2>3
    <3>. QED
      BY <1>2, <3>1
  <2>. QED
    <3>1. i < n \/ i = n \/ i > n
      BY <1>3
    <3>. QED
      BY ONLY <3>1, <2>1, <2>2, <2>3
<1> HIDE DEF u
<1>. QED
  BY <1>3, <1>4, <1>5, <1>6 DEF Leads

LEMMA LeadsOne ==
  ASSUME NEW a \in Places, NEW ch, NEW b \in Places, <<a, ch, b>> \in Moves
  PROVE  Leads(<<ch>>, a, b)
<1>1. <<a, b>> \in [1 .. 2 -> Places] /\ Len(<<ch>>) = 1 /\ <<ch>>[1] = ch
  OBVIOUS
<1>. QED
  BY <1>1 DEF Leads

LEMMA LeadsTail ==
  ASSUME NEW S, NEW q \in Seq(S), q # <<>>, NEW a, NEW b, Leads(q, a, b)
  PROVE  \E c \in Places : <<a, Head(q), c>> \in Moves /\ Leads(Tail(q), c, b)
<1>1. PICK p \in [1 .. Len(q) + 1 -> Places] :
        /\ p[1] = a /\ p[Len(q) + 1] = b
        /\ \A i \in 1 .. Len(q) : <<p[i], q[i], p[i + 1]>> \in Moves
  BY DEF Leads
<1> DEFINE n == Len(Tail(q))
           u == [i \in 1 .. n + 1 |-> p[i + 1]]
<1>2. /\ n \in Nat /\ Len(q) = n + 1 /\ Head(q) = q[1]
      /\ \A i \in 1 .. n : Tail(q)[i] = q[i + 1]
  OBVIOUS
<1> HIDE DEF n
<1>3. u \in [1 .. n + 1 -> Places] /\ u[1] = p[2] /\ u[n + 1] = b
  BY <1>1, <1>2
<1>4. \A i \in 1 .. n : <<u[i], Tail(q)[i], u[i + 1]>> \in Moves
  BY <1>1, <1>2
<1>5. <<a, Head(q), p[2]>> \in Moves /\ p[2] \in Places
  BY <1>1, <1>2
<1> HIDE DEF u
<1>6. Leads(Tail(q), p[2], b)
  BY <1>3, <1>4 DEF Leads, n
<1>. QED
  BY <1>5, <1>6

LEMMA LeadsTwo ==
  ASSUME NEW a \in Places, NEW x, NEW b \in Places, NEW y, NEW c \in Places,
         <<a, x, b>> \in Moves, <<b, y, c>> \in Moves
  PROVE  Leads(<<x, y>>, a, c)
<1> DEFINE p == <<a, b, c>>
           q == <<x, y>>
<1>1. /\ p \in [1 .. 3 -> Places] /\ p[1] = a /\ p[2] = b /\ p[3] = c
      /\ q[1] = x /\ q[2] = y /\ Len(q) = 2 /\ Len(q) + 1 = 3
  OBVIOUS
<1> HIDE DEF p, q
<1>2. \A i \in 1 .. 2 : <<p[i], q[i], p[i + 1]>> \in Moves
  <2>1. <<p[1], q[1], p[1 + 1]>> \in Moves /\ <<p[2], q[2], p[2 + 1]>> \in Moves
    BY <1>1
  <2>. QED
    BY <2>1
<1>. QED
  <2>1. Leads(q, a, c)
    BY <1>1, <1>2 DEF Leads
  <2>. QED
    BY <2>1 DEF q

\* A frame leads from its start to where its checksum is due.
LEMMA LeadsFrame ==
  ASSUME NEW body \in I!Bodies
  PROVE  Leads(I!Frame(body), "idle", "fcs")
<1> DEFINE S == {"DLE", "STX", "ETX", "octet"}
<1>1. Leads(<<"DLE", "STX">>, "idle", "data0")
  BY LeadsTwo DEF Moves, Places
<1>2. PICK b \in {"data1", "data2"} : Leads(I!Stuffed(body), "data0", b)
  <2>1. CASE body = <<"octet">>
    BY <2>1, LeadsOne DEF I!Stuffed, Moves, Places
  <2>2. CASE body # <<"octet">>
    <3>1. Leads(<<"octet">>, "data0", "data1") /\ Leads(<<"DLE", "DLE">>, "data1", "data2")
      BY LeadsOne, LeadsTwo DEF Moves, Places
    <3>2. <<"octet", "DLE", "DLE">> = <<"octet">> \o <<"DLE", "DLE">>
      OBVIOUS
    <3>3. <<"octet">> \in Seq(S) /\ <<"DLE", "DLE">> \in Seq(S)
      OBVIOUS
    <3>. QED
      BY <2>2, <3>1, <3>2, <3>3, LeadsConcat DEF I!Stuffed
  <2>. QED
    BY <2>1, <2>2
<1>3. Leads(<<"DLE", "ETX">>, b, "fcs")
  <2>1. CASE b = "data1"
    BY <2>1, LeadsTwo DEF Moves, Places
  <2>2. CASE b = "data2"
    BY <2>2, LeadsTwo DEF Moves, Places
  <2>. QED
    BY <2>1, <2>2
<1>4. /\ <<"DLE", "STX">> \in Seq(S) /\ <<"DLE", "ETX">> \in Seq(S)
      /\ I!Stuffed(body) \in Seq(S)
  <2>1. <<"octet">> \in Seq(S) /\ <<"octet", "DLE", "DLE">> \in Seq(S)
    OBVIOUS
  <2>2. <<"DLE", "STX">> \in Seq(S) /\ <<"DLE", "ETX">> \in Seq(S)
    OBVIOUS
  <2>3. I!Stuffed(body) = <<"octet">> \/ I!Stuffed(body) = <<"octet", "DLE", "DLE">>
    BY DEF I!Stuffed
  <2> HIDE DEF S
  <2>. QED
    BY <2>1, <2>2, <2>3
<1>5. <<"DLE", "STX">> \o I!Stuffed(body) \in Seq(S)
  BY <1>4
<1>6. Leads(<<"DLE", "STX">> \o I!Stuffed(body), "idle", b)
  BY <1>1, <1>2, <1>4, LeadsConcat
<1>. QED
  BY <1>3, <1>4, <1>5, <1>6, LeadsConcat DEF I!Frame

\* A message that is lost leaves the sum short, which only what is faulty excuses.
LEMMA TotalsLost ==
  ASSUME Totals, OnTheWay \in Nat, heard' = heard, taken' = taken, OnTheWay' = OnTheWay - 1,
         "faulty" \in seen', valid' => buf' = <<"ours">>, out' \in {<<>>, <<"ours">>}
  PROVE  Totals'
<1>1. heard \in Nat /\ taken \in Nat
  BY DEF Totals
<1>2. heard' \in Nat /\ taken' \in Nat /\ heard' >= taken' + OnTheWay'
  <2>1. heard >= taken + OnTheWay
    BY DEF Totals
  <2>. QED
    BY <1>1, <2>1
<1>. QED
  BY <1>2 DEF Totals

\* The characters of frames, whole and garbled.
LEMMA FrameTexts ==
  ASSUME NEW body \in I!Bodies
  PROVE  I!Frame(body) \in Seq(I!Characters)
<1>1. /\ <<"octet">> \in Seq(I!Characters) /\ <<"octet", "DLE", "DLE">> \in Seq(I!Characters)
      /\ <<"DLE", "STX">> \in Seq(I!Characters) /\ <<"DLE", "ETX">> \in Seq(I!Characters)
  BY DEF I!Characters
<1>2. I!Stuffed(body) = <<"octet">> \/ I!Stuffed(body) = <<"octet", "DLE", "DLE">>
  BY DEF I!Stuffed
<1>3. I!Stuffed(body) \in Seq(I!Characters)
  BY <1>1, <1>2
<1>4. <<"DLE", "STX">> \o I!Stuffed(body) \in Seq(I!Characters)
  BY <1>1, <1>3
<1>. QED
  BY <1>1, <1>4 DEF I!Frame

LEMMA GarbledTexts ==
  ASSUME NEW S, NEW s \in Seq(S), "DLE" \in S, NEW frame \in I!Garbled(s)
  PROVE  frame \in Seq(S)
<1>1. CASE frame = <<"DLE">> \o s
  <2>1. <<"DLE">> \in Seq(S)
    OBVIOUS
  <2>. QED
    BY <1>1, <2>1
<1>2. ASSUME NEW i \in DOMAIN s, frame = I!Without(s, i)
      PROVE  frame \in Seq(S)
  <2>1. i \in 1 .. Len(s) /\ Len(s) \in Nat
    OBVIOUS
  <2>2. SubSeq(s, 1, i - 1) \in Seq(S)
    BY <2>1
  <2>3. SubSeq(s, i + 1, Len(s)) \in Seq(S)
    BY <2>1
  <2>. QED
    BY <1>2, <2>2, <2>3 DEF I!Without
<1>. QED
  BY <1>1, <1>2 DEF I!Garbled

\* In whole frames every character takes the receiver to the next place, and the message
\* is kept at its end.
LEMMA RxMoves ==
  ASSUME NEW a \in Places, NEW c \in Places, IsAt(a), <<a, Head(queue), c>> \in Moves,
         I!handleRx, valid' \in BOOLEAN
  PROVE  IsAt(c)' /\ (Head(queue) = "ours" => valid')
<1> DEFINE ch == Head(queue)
<1>0. PayloadSize \in Nat /\ PayloadSize >= 1
  BY SizesAssumption
<1>1. /\ <<"octet">> \in I!Bodies /\ <<"octet", "DLE">> \in I!Bodies
      /\ Len(<<>>) = 0 /\ Len(<<"octet">>) = 1
      /\ Append(<<>>, "octet") = <<"octet">> /\ Append(<<"octet">>, "DLE") = <<"octet", "DLE">>
  <2>1. <<"octet">> \in I!Bodies /\ <<"octet", "DLE">> \in I!Bodies
    BY DEF I!Bodies
  <2>2. Len(<<>>) = 0 /\ Len(<<"octet">>) = 1
    OBVIOUS
  <2>3. Append(<<>>, "octet") = <<"octet">>
    OBVIOUS
  <2>4. Append(<<"octet">>, "DLE") = <<"octet", "DLE">>
    <3>1. <<"octet">> \in Seq({"octet", "DLE"}) /\ Len(<<"octet">>) = 1
      OBVIOUS
    <3>2. Append(<<"octet">>, "DLE") = [i \in 1 .. 2 |-> IF i = 2 THEN "DLE" ELSE <<"octet">>[i]]
      BY <3>1
    <3>3. <<"octet", "DLE">> = [i \in 1 .. 2 |-> IF i = 2 THEN "DLE" ELSE <<"octet">>[i]]
      BY <3>1
    <3>. QED
      BY <3>2, <3>3
  <2>. QED
    BY <2>1, <2>2, <2>3, <2>4
<1>2. /\ ~valid /\ queue # <<>>
      /\ \/ chip = "idle" /\ ch = "DLE" /\ chip' = "dle"
         \/ chip = "idle" /\ ch # "DLE"
         \/ chip = "dle" /\ ch # "STX"
         \/ chip = "dle" /\ ch = "STX" /\ chip' = "data" /\ buf' = <<>>
         \/ chip = "data" /\ ch = "DLE" /\ chip' = "escape" /\ UNCHANGED buf
         \/ /\ chip = "data" /\ ch # "DLE" /\ chip' = "data"
            /\ buf' = IF Len(buf) < PayloadSize THEN Append(buf, ch) ELSE buf
         \/ /\ chip = "escape" /\ ch = "DLE" /\ chip' = "data"
            /\ buf' = IF Len(buf) < PayloadSize THEN Append(buf, ch) ELSE buf
         \/ chip = "escape" /\ ch = "ETX" /\ chip' = "fcs" /\ UNCHANGED buf
         \/ chip = "escape" /\ ch \notin {"DLE", "ETX"}
         \/ chip = "fcs" /\ chip' = "idle" /\ (ch = "ours" /\ buf \in I!Bodies => valid' = TRUE)
  BY DEF I!handleRx, I!validateRxBuf
<1> HIDE DEF ch
<1>3. <<a, ch, c>> \in Moves
  BY DEF ch
<1>4. CASE a \in {"idle", "dle"}
  BY <1>2, <1>3, <1>4 DEF Moves, IsAt
<1>5. CASE a = "data0"
  <2>1. ch = "octet" /\ c = "data1"
    BY <1>3, <1>5 DEF Moves
  <2>2. chip = "data" /\ buf = <<>>
    BY <1>5 DEF IsAt
  <2>3. chip' = "data" /\ buf' = <<"octet">>
    BY <1>0, <1>1, <1>2, <2>1, <2>2
  <2>. QED
    BY <2>1, <2>3 DEF IsAt, ch
<1>6. CASE a \in {"data1", "data2"}
  BY <1>2, <1>3, <1>6 DEF Moves, IsAt, ch
<1>7. CASE a = "escape1"
  <2>1. chip = "escape" /\ buf = <<"octet">>
    BY <1>7 DEF IsAt
  <2>2. CASE ch = "DLE"
    <3>1. c = "data2"
      BY <1>3, <1>7, <2>2 DEF Moves
    <3>2. chip' = "data" /\ buf' \in I!Bodies
      BY <1>0, <1>1, <1>2, <2>1, <2>2
    <3>. QED
      BY <2>2, <3>1, <3>2 DEF IsAt, ch
  <2>3. CASE ch = "ETX"
    <3>1. c = "fcs"
      BY <1>3, <1>7, <2>3 DEF Moves
    <3>2. chip' = "fcs" /\ buf' \in I!Bodies
      BY <1>1, <1>2, <2>1, <2>3
    <3>. QED
      BY <2>3, <3>1, <3>2 DEF IsAt, ch
  <2>. QED
    BY <1>3, <1>7, <2>2, <2>3 DEF Moves
<1>8. CASE a = "escape2"
  BY <1>2, <1>3, <1>8 DEF Moves, IsAt, ch
<1>9. CASE a = "fcs"
  <2>1. chip = "fcs" /\ buf \in I!Bodies
    BY <1>9 DEF IsAt
  <2>2. c = "idle" /\ ch \in {"ours", "other"}
    BY <1>3, <1>9 DEF Moves
  <2>3. chip' = "idle" /\ (ch = "ours" => valid')
    BY <1>2, <2>1, <2>2
  <2>. QED
    BY <2>2, <2>3 DEF IsAt, ch
<1>. QED
  BY <1>4, <1>5, <1>6, <1>7, <1>8, <1>9 DEF Places

\* RH_Serial.cpp.
LEMMA SerialKeeps ==
  ASSUME SerialRuns, driver = "Serial", driver' = driver, I!Next
  PROVE  SerialRuns'
<1>. USE DEF I!radio, I!thread, I!driven, I!heardOf, I!handed, I!flags, I!history, I!At,
             I!Goto, I!Return, I!Answer
<1> DEFINE S == Kinds \cup I!Characters
           Sum(q) == Cardinality(Ours(q))
           Last == IF air = "none" THEN "idle" ELSE "fcs"
<1>1. /\ Sum(queue) \in Nat /\ Totals /\ pc # "init" /\ pc # "clear"
      /\ out \in {<<>>, <<"ours">>} /\ (valid => buf = <<"ours">>)
      /\ PortSize \in Nat /\ PayloadSize \in Nat /\ PayloadSize >= 1
      /\ queue \in Seq(S) /\ buf \in Seq(S) /\ Len(queue) \in Nat
  BY OursFinite, SizesAssumption DEF SerialRuns, Totals
<1>2. CASE I!Calls \/ I!send
  <2>1. /\ UNCHANGED <<queue, valid, buf, heard, taken, out, seen, chip, air, done, mode>>
        /\ pc' \in {"app", "available", "send", "waitSent"} /\ due' \in {"any", "recv"}
    BY <1>2 DEF I!Calls, I!CallAvailable, I!CallRecv, I!CallSend, I!CallWaitSent, I!Call, I!send,
                SerialRuns
  <2>2. Totals'
    BY <1>1, <2>1, TotalsKept
  <2>3. Parsed => Parsed'
    BY <2>1 DEF Parsed, IsAt
  <2>. QED
    BY <2>1, <2>2, <2>3 DEF SerialRuns
<1>3. CASE I!available
  <2>1. /\ UNCHANGED <<queue, valid, buf, heard, taken, out, seen, chip, air, done, mode>>
        /\ pc' \in {"app", "copy"} /\ due' \in {"any", "recv"} /\ (pc' = "copy" => valid)
    BY <1>3 DEF I!available, SerialRuns
  <2>2. Totals'
    BY <1>1, <2>1, TotalsKept
  <2>3. Parsed => Parsed'
    BY <2>1 DEF Parsed, IsAt
  <2>. QED
    BY <2>1, <2>2, <2>3 DEF SerialRuns
<1>4. CASE I!recv
  <2>1. /\ pc = "copy" /\ taken' = taken + 1 /\ out' = buf /\ valid' = FALSE /\ buf' = <<>>
        /\ pc' = "app" /\ due' = "any"
        /\ UNCHANGED <<queue, chip, air, done, mode, heard, seen>>
    BY <1>4 DEF I!recv, I!HandOver
  <2>2. valid /\ chip = "idle"
    BY <2>1 DEF SerialRuns
  <2>3. Totals'
    BY <1>1, <2>1, <2>2, TotalsKept
  <2>4. Parsed => Parsed'
    BY <2>1, <2>2 DEF Parsed, IsAt
  <2>5. buf' \in Seq(S) /\ Len(buf') = 0
    BY <2>1
  <2>6. Len(buf') <= PayloadSize
    BY <1>1, <2>5
  <2>7. valid' \in BOOLEAN
    BY <2>1
  <2>. QED
    BY <1>1, <2>1, <2>3, <2>4, <2>5, <2>6, <2>7 DEF SerialRuns
<1>5. CASE I!handleRx
  <2> DEFINE ch == Head(queue)
  <2>1. /\ pc = "available" /\ ~valid /\ queue # <<>> /\ queue' = Tail(queue)
        /\ UNCHANGED <<air, done, mode, pc, op, due, late, heard, taken, out, seen>>
    BY <1>5 DEF I!handleRx
  <2>2. /\ ch \in S /\ queue' \in Seq(S) /\ Len(queue') = Len(queue) - 1
    BY <1>1, <2>1
  <2>3. /\ Sum(queue) = Sum(queue') + (IF ch = "ours" THEN 1 ELSE 0)
        /\ Sum(queue') \in Nat
    BY <1>1, <2>1, <2>2, OursTail, OursFinite
  <2>4. /\ chip' \in I!States /\ valid' \in BOOLEAN /\ (valid' => chip' = "idle" /\ buf' = <<"ours">>)
        /\ valid' => ch = "ours"
    BY <1>5, <2>1 DEF I!handleRx, I!validateRxBuf, I!States, SerialRuns
  <2>5. buf' \in Seq(S) /\ Len(buf') <= PayloadSize
    <3>1. \/ UNCHANGED buf
          \/ buf' = <<>>
          \/ buf' = Append(buf, ch) /\ Len(buf) < PayloadSize
          \/ buf' = <<"ours">>
      BY <1>5 DEF I!handleRx, I!validateRxBuf
    <3>2. <<>> \in Seq(S) /\ Len(<<>>) = 0 /\ <<"ours">> \in Seq(S) /\ Len(<<"ours">>) = 1
      BY DEF Kinds
    <3>3. Append(buf, ch) \in Seq(S) /\ Len(Append(buf, ch)) = Len(buf) + 1 /\ Len(buf) \in Nat
      BY <1>1, <2>2
    <3>4. Len(buf) <= PayloadSize /\ buf \in Seq(S) /\ PayloadSize \in Nat /\ PayloadSize >= 1
      BY <1>1 DEF SerialRuns
    <3> HIDE DEF S, ch
    <3>5. CASE UNCHANGED buf
      BY <3>4, <3>5
    <3>6. CASE buf' = <<>>
      BY <3>2, <3>4, <3>6
    <3>7. CASE buf' = Append(buf, ch) /\ Len(buf) < PayloadSize
      BY <3>3, <3>4, <3>7
    <3>8. CASE buf' = <<"ours">>
      BY <3>2, <3>4, <3>8
    <3>. QED
      BY <3>1, <3>5, <3>6, <3>7, <3>8
  <2>6. ASSUME "faulty" \notin seen
        PROVE  Parsed' /\ (ch = "ours" => valid')
    <3>1. PICK a \in Places : IsAt(a) /\ Leads(queue, a, Last)
      BY <2>6 DEF SerialRuns, Parsed
    <3>2. PICK c \in Places : <<a, ch, c>> \in Moves /\ Leads(queue', c, Last)
      BY <1>1, <2>1, <3>1, LeadsTail
    <3>3. IsAt(c)' /\ (ch = "ours" => valid')
      BY <1>5, <2>4, <3>1, <3>2, RxMoves
    <3>. QED
      BY <2>1, <3>2, <3>3 DEF Parsed
  <2>7. Totals'
    <3>1. CASE valid'
      <4>1. Sum(queue') = Sum(queue) - 1
        BY <1>1, <2>3, <2>4, <3>1
      <4>. QED
        BY <1>1, <2>1, <2>3, <2>4, <3>1, <4>1, TotalsKept
    <3>2. CASE ~valid' /\ ch # "ours"
      <4>1. Sum(queue') = Sum(queue) /\ valid' = valid
        BY <2>1, <2>3, <2>4, <3>2 DEF SerialRuns
      <4>. QED
        BY <1>1, <2>1, <2>3, <2>4, <3>2, <4>1, TotalsKept
    <3>3. CASE ~valid' /\ ch = "ours"
      <4>1. Sum(queue') = Sum(queue) - 1 /\ "faulty" \in seen'
        BY <1>1, <2>1, <2>3, <2>6, <3>3
      <4>2. OnTheWay = Sum(queue) /\ OnTheWay' = Sum(queue')
        BY <1>1, <2>1, <2>3, <3>3, CountedNow, CountedNext
      <4>3. OnTheWay \in Nat /\ OnTheWay' = OnTheWay - 1
        BY <1>1, <4>1, <4>2
      <4>. QED
        BY <1>1, <2>1, <3>3, <4>1, <4>3, TotalsLost
    <3>. QED
      BY <3>1, <3>2, <3>3
  <2>. QED
    BY <1>1, <2>1, <2>2, <2>4, <2>5, <2>6, <2>7 DEF SerialRuns
<1>6. CASE I!FrameStarts
  <2>1. PICK body \in I!Bodies : /\ Len(queue) + Len(I!Frame(body)) < PortSize
                                  /\ queue' = queue \o I!Frame(body)
    BY <1>6 DEF I!FrameStarts
  <2>2. /\ air = "none" /\ air' = "young"
        /\ UNCHANGED <<chip, done, mode, valid, buf, pc, op, due, late, heard, taken, out, seen>>
    BY <1>6 DEF I!FrameStarts
  <2>3. I!Frame(body) \in Seq(I!Characters) /\ I!Frame(body) \in Seq(S)
    BY FrameTexts
  <2>4. /\ queue' \in Seq(S) /\ Len(queue') < PortSize /\ Len(queue') \in Nat
    BY <1>1, <2>1, <2>3
  <2>5. \A i \in DOMAIN I!Frame(body) : I!Frame(body)[i] # "ours"
    BY <2>3 DEF I!Characters
  <2>6. Sum(queue') = Sum(queue)
    BY <1>1, <2>1, <2>3, <2>5, OursConcat
  <2>7. Totals'
    BY <1>1, <2>2, <2>6, TotalsKept DEF SerialRuns
  <2>8. ASSUME Parsed PROVE Parsed'
    <3>1. PICK a \in Places : IsAt(a) /\ Leads(queue, a, "idle")
      BY <2>2, <2>8 DEF Parsed
    <3>2. Leads(queue', a, "fcs")
      BY <1>1, <2>1, <2>3, <3>1, LeadsFrame, LeadsConcat
    <3>3. IsAt(a)'
      BY <2>2, <3>1 DEF IsAt
    <3>. QED
      BY <2>2, <3>2, <3>3 DEF Parsed
  <2>. QED
    BY <1>1, <2>2, <2>4, <2>7, <2>8 DEF SerialRuns
<1>7. CASE I!FrameEnds
  <2>1. PICK kind \in {"ours", "other"} :
           /\ queue' = Append(queue, kind) /\ seen' = seen \cup {kind}
           /\ heard' = heard + (IF kind = "ours" THEN 1 ELSE 0)
    BY <1>7 DEF I!FrameEnds
  <2>2. /\ air = "old" /\ air' = "none"
        /\ UNCHANGED <<chip, done, mode, valid, buf, pc, op, due, late, taken, out>>
    BY <1>7 DEF I!FrameEnds
  <2>3. kind \in S /\ queue' \in Seq(S) /\ Len(queue') = Len(queue) + 1
    BY <1>1, <2>1 DEF Kinds
  <2>4. /\ Sum(queue') = Sum(queue) + (IF kind = "ours" THEN 1 ELSE 0)
        /\ Sum(queue') \in Nat
    BY <1>1, <2>1, <2>3, OursAppend, OursFinite
  <2>5. /\ heard \in Nat /\ valid' = valid
        /\ \/ heard' = heard /\ Sum(queue') = Sum(queue)
           \/ heard' = heard + 1 /\ Sum(queue') = Sum(queue) + 1
    BY <1>1, <2>1, <2>2, <2>4 DEF Totals
  <2>6. Totals'
    BY <1>1, <2>1, <2>2, <2>4, <2>5, TotalsKept
  <2>7. ASSUME Parsed PROVE Parsed'
    <3>1. PICK a \in Places : IsAt(a) /\ Leads(queue, a, "fcs")
      BY <2>2, <2>7 DEF Parsed
    <3>2. Leads(<<kind>>, "fcs", "idle")
      BY LeadsOne DEF Moves, Places
    <3>3. queue' = queue \o <<kind>> /\ <<kind>> \in Seq(S)
      BY <1>1, <2>1, <2>3
    <3>4. Leads(queue', a, "idle")
      BY <1>1, <3>1, <3>2, <3>3, LeadsConcat
    <3>5. IsAt(a)'
      BY <2>2, <3>1 DEF IsAt
    <3>. QED
      BY <2>2, <3>4, <3>5 DEF Parsed
  <2>8. "faulty" \in seen' <=> "faulty" \in seen
    BY <2>1
  <2>9. Len(queue') <= PortSize
    BY <1>1, <2>2, <2>3 DEF SerialRuns
  <2>. QED
    BY <1>1, <2>2, <2>3, <2>6, <2>7, <2>8, <2>9 DEF SerialRuns
<1>8. CASE I!FrameGarbled
  <2>1. PICK body \in I!Bodies : \E frame \in I!Garbled(Append(I!Frame(body), "faulty")) :
           Len(queue) + Len(frame) <= PortSize /\ queue' = queue \o frame
    BY <1>8 DEF I!FrameGarbled
  <2>2. PICK frame \in I!Garbled(Append(I!Frame(body), "faulty")) :
           Len(queue) + Len(frame) <= PortSize /\ queue' = queue \o frame
    BY <2>1
  <2>3. /\ air = "none" /\ seen' = seen \cup {"faulty"}
        /\ UNCHANGED <<chip, air, done, mode, valid, buf, pc, op, due, late, heard, taken, out>>
    BY <1>8 DEF I!FrameGarbled
  <2> DEFINE T == I!Characters \cup {"faulty"}
  <2>4. I!Frame(body) \in Seq(T)
    BY FrameTexts
  <2>5. Append(I!Frame(body), "faulty") \in Seq(T)
    BY <2>4
  <2>6. frame \in Seq(T)
    BY <2>2, <2>5, GarbledTexts DEF I!Characters
  <2>7. frame \in Seq(S) /\ \A i \in DOMAIN frame : frame[i] # "ours"
    BY <2>6 DEF I!Characters, Kinds
  <2>8. queue' \in Seq(S) /\ Len(queue') <= PortSize
    BY <1>1, <2>2, <2>7
  <2>9. Sum(queue') = Sum(queue)
    BY <1>1, <2>2, <2>7, OursConcat
  <2>10. Totals'
    BY <1>1, <2>3, <2>9, TotalsKept
  <2>. QED
    BY <1>1, <2>3, <2>8, <2>10 DEF SerialRuns
<1>9. CASE I!TimePasses
  <2>1. /\ UNCHANGED <<queue, valid, buf, heard, taken, out, seen, chip, done, mode, pc, op, due>>
        /\ air = "young" /\ air' = "old"
    BY <1>9 DEF I!TimePasses
  <2>2. Totals'
    BY <1>1, <2>1, TotalsKept
  <2>3. Parsed => Parsed'
    BY <2>1 DEF Parsed, IsAt
  <2>. QED
    BY <2>1, <2>2, <2>3 DEF SerialRuns
<1>. QED
  BY <1>2, <1>3, <1>4, <1>5, <1>6, <1>7, <1>8, <1>9 DEF I!Next, I!Thread, I!line

\* The least of some numbers.
LEMMA LeastExists ==
  ASSUME NEW T, T \subseteq Nat, T # {}
  PROVE  \E x \in T : \A y \in T : x <= y
<1>1. IsWellFoundedOn(OpToRel(<, Nat), Nat)
  BY NatLessThanWellFounded
<1>2. PICK x \in T : \A y \in T : ~(<<y, x>> \in OpToRel(<, Nat))
  BY <1>1, WFMin
<1>3. ASSUME NEW y \in T PROVE x <= y
  <2>1. ~(<<y, x>> \in {ss \in Nat \X Nat : ss[1] < ss[2]})
    BY <1>2 DEF OpToRel
  <2>2. x \in Nat /\ y \in Nat
    OBVIOUS
  <2>3. ~(y < x)
    BY <2>1, <2>2
  <2> QED
    BY <2>2, <2>3
<1> QED
  BY <1>3

\* The last of the packets read at once is one of them.
LEMMA LastRead ==
  ASSUME queue \in Seq(Kinds), J!Packets # {}
  PROVE  J!Max(J!Packets) \in J!Packets
<1> DEFINE n == Len(queue)
           gaps == {d \in Nat : \E i \in J!Packets : d = n - i}
<1>1. n \in Nat /\ \A i \in J!Packets : i \in 1 .. n
  BY DEF J!Packets
<1>2. gaps \in SUBSET Nat /\ gaps # {}
  <2>1. PICK i \in J!Packets : TRUE
    OBVIOUS
  <2>2. n - i \in gaps
    BY <1>1, <2>1
  <2>. QED
    BY <2>2
<1>3. PICK d \in gaps : \A e \in gaps : d <= e
  BY <1>2, LeastExists
<1>4. PICK i \in J!Packets : d = n - i
  BY <1>3
<1>5. \A k \in J!Packets : i >= k
  <2> SUFFICES ASSUME NEW k \in J!Packets
               PROVE  i >= k
    OBVIOUS
  <2>1. i \in 1 .. n /\ k \in 1 .. n
    BY <1>1, <1>4
  <2>2. n - k \in gaps
    BY <1>1, <2>1
  <2>3. n - i <= n - k
    BY <1>3, <1>4, <2>2
  <2>. QED
    BY <1>1, <2>1, <2>3
<1>. QED
  BY <1>4, <1>5 DEF J!Max

\* RH_TCP.cpp.
LEMMA TCPKeeps ==
  ASSUME TCPRuns, driver = "TCP", driver' = driver, J!Next
  PROVE  TCPRuns'
<1>. USE DEF J!radio, J!thread, J!driven, J!heardOf, J!handed, J!flags, J!history, J!At,
             J!Goto, J!Return, J!Answer
<1> DEFINE Sum(q) == Cardinality(Ours(q))
<1>1. /\ Sum(queue) \in Nat /\ pc # "init" /\ pc # "clear" /\ queue \in Seq(Kinds)
      /\ OnTheWay = Sum(queue) + (IF valid THEN 1 ELSE 0)
  BY OursFinite, CountedNow DEF TCPRuns
<1>2. CASE J!Calls \/ J!send \/ J!partRead
  <2>1. /\ UNCHANGED <<queue, valid, buf, heard, taken, out, relistened, chip, done, mode>>
        /\ pc' \in {"app", "available", "send", "waitSent", "stuck"} /\ due' \in {"any", "recv"}
    BY <1>2 DEF J!Calls, J!CallAvailable, J!CallRecv, J!CallSend, J!CallWaitSent, J!Call, J!send,
                J!partRead, TCPRuns
  <2>2. OnTheWay' = OnTheWay
    BY <1>1, <2>1, CountedNext
  <2>. QED
    BY <2>1, <2>2 DEF TCPRuns, One
<1>3. CASE J!available
  <2>1. /\ pc = "available" /\ UNCHANGED <<chip, done, mode, heard, taken, out>>
        /\ pc' \in {"app", "copy"} /\ (pc' = "copy" => valid') /\ due' \in {"any", "recv"}
        /\ queue' = <<>> /\ J!checkForEvents
    BY <1>3 DEF J!available, J!checkForEvents, TCPRuns
  <2>2. queue' \in Seq(Kinds) /\ Sum(queue') = 0
    <3>1. Ours(queue') = {} /\ queue' \in Seq(Kinds)
      BY <2>1 DEF Ours
    <3>. QED
      BY <3>1, FS_EmptySet
  <2>3. OnTheWay' = IF valid' THEN 1 ELSE 0
    BY <2>1, <2>2, CountedNext
  <2>4. CASE J!Packets = {}
    <3>1. UNCHANGED <<valid, buf, relistened>>
      BY <2>1, <2>4 DEF J!checkForEvents
    <3>2. Ours(queue) = {}
      BY <2>4 DEF Ours, J!Packets
    <3>3. Sum(queue) = 0
      BY <3>2, FS_EmptySet
    <3>4. OnTheWay' = OnTheWay
      BY <1>1, <2>3, <3>1, <3>3
    <3>. QED
      BY <2>1, <2>2, <3>1, <3>4 DEF TCPRuns, One
  <2>5. CASE J!Packets # {}
    <3> DEFINE last == J!Max(J!Packets)
    <3>1. /\ buf' = <<queue[last]>> /\ valid' = (valid \/ queue[last] = "ours")
          /\ relistened' = (relistened \/ valid \/ J!Packets # {last})
      BY <2>1, <2>5 DEF J!checkForEvents
    <3>2. last \in DOMAIN queue /\ queue[last] \in Kinds
      BY <1>1, <2>5, LastRead DEF J!Packets
    <3>3. One(buf') /\ valid' \in BOOLEAN
      BY <3>1, <3>2 DEF One, TCPRuns
    <3>4. ASSUME ~relistened'
          PROVE  /\ ~relistened /\ valid' = (queue[last] = "ours") /\ (valid' => buf' = <<"ours">>)
                 /\ OnTheWay' = OnTheWay
      <4>1. ~relistened /\ ~valid /\ J!Packets = {last}
        BY <3>1, <3>4
      <4>2. valid' = (queue[last] = "ours")
        BY <3>1, <4>1
      <4>3. Ours(queue) = IF queue[last] = "ours" THEN {last} ELSE {}
        BY <3>2, <4>1 DEF Ours, J!Packets
      <4>4. Sum(queue) = IF queue[last] = "ours" THEN 1 ELSE 0
        BY <4>3, FS_EmptySet, FS_Singleton
      <4>5. OnTheWay' = OnTheWay
        <5>1. OnTheWay = Sum(queue)
          BY <1>1, <4>1
        <5>. QED
          BY <2>3, <4>2, <4>4, <5>1
      <4>. QED
        BY <3>1, <4>1, <4>2, <4>5
    <3>. QED
      BY <2>1, <2>2, <3>3, <3>4 DEF TCPRuns
  <2>. QED
    BY <2>4, <2>5
<1>4. CASE J!recv
  <2>1. /\ pc = "copy" /\ taken' = taken + 1 /\ out' = buf /\ valid' = FALSE /\ buf' = <<>>
        /\ pc' = "app" /\ due' = "any"
        /\ UNCHANGED <<queue, chip, done, mode, heard, relistened>>
    BY <1>4 DEF J!recv, J!HandOver
  <2>2. valid
    BY <2>1 DEF TCPRuns
  <2>3. OnTheWay = Sum(queue) + 1 /\ OnTheWay' = Sum(queue)
    BY <1>1, <2>1, <2>2, CountedNext
  <2>4. Sum(queue) \in Nat /\ One(buf') /\ queue' \in Seq(Kinds) /\ valid' \in BOOLEAN
    BY <1>1, <2>1 DEF One
  <2>5. ASSUME ~relistened
        PROVE  /\ heard' \in Nat /\ taken' \in Nat /\ heard' = taken' + OnTheWay'
               /\ out' = <<"ours">>
    BY <2>1, <2>2, <2>3, <2>4, <2>5 DEF TCPRuns
  <2>. QED
    BY <2>1, <2>4, <2>5 DEF TCPRuns
<1>5. CASE J!MessageEnds
  <2>1. PICK kind \in Kinds :
           /\ queue' = Append(queue, kind)
           /\ heard' = heard + (IF kind = "ours" THEN 1 ELSE 0)
    BY <1>5 DEF J!MessageEnds, J!Kinds, Kinds
  <2>2. UNCHANGED <<chip, done, mode, valid, buf, pc, op, due, late, taken, out, relistened>>
    BY <1>5 DEF J!MessageEnds
  <2>3. queue' \in Seq(Kinds)
    BY <1>1, <2>1
  <2>4. Sum(queue') = Sum(queue) + (IF kind = "ours" THEN 1 ELSE 0)
    BY <1>1, <2>1, OursAppend
  <2>5. \/ heard' = heard /\ OnTheWay' = OnTheWay
        \/ heard \in Nat => heard' = heard + 1 /\ OnTheWay' = OnTheWay + 1
    BY <1>1, <2>1, <2>2, <2>4, CountedNext
  <2>6. OnTheWay \in Nat
    BY <1>1
  <2>. QED
    BY <2>2, <2>3, <2>5, <2>6 DEF TCPRuns, One
<1>6. CASE J!MessageStarts \/ J!TimePasses \/ J!stuck
  <2>1. /\ UNCHANGED <<queue, valid, buf, heard, taken, out, relistened, chip, done, mode, pc, due>>
    BY <1>6 DEF J!MessageStarts, J!TimePasses, J!stuck, J!vars
  <2>2. OnTheWay' = OnTheWay
    BY <1>1, <2>1, CountedNext
  <2>. QED
    BY <2>1, <2>2 DEF TCPRuns, One
<1>. QED
  BY <1>2, <1>3, <1>4, <1>5, <1>6 DEF J!Next, J!Thread, J!socket

-----------------------------------------------------------------------------
\* Whatever changes the buffer puts at most one packet there; only RF24 appends to it.
LEMMA SinglesFit ==
  ASSUME NEW seq
  PROVE  /\ Single(seq) => seq \in Seq(Contents) /\ Len(seq) <= Room
         /\ One(seq) => Single(seq) /\ seq \in Seq(Kinds) /\ Len(seq) <= FifoSize
<1>1. Room \in Nat /\ Room >= 1 /\ FifoSize \in Nat /\ FifoSize >= 1
  BY SizesAssumption
<1>2. Kinds \subseteq Contents
  BY DEF Contents
<1>3. ASSUME NEW S, NEW x \in S, seq = <<x>>
      PROVE  seq \in Seq(S) /\ Len(seq) = 1
  BY <1>3
<1>4. ASSUME NEW S, seq = <<>>
      PROVE  seq \in Seq(S) /\ Len(seq) = 0
  BY <1>4
<1>5. Single(seq) => seq \in Seq(Contents) /\ Len(seq) <= Room
  <2>1. CASE seq = <<>>
    BY <1>1, <1>4, <2>1
  <2>2. ASSUME NEW x \in Contents, seq = <<x>>
        PROVE  seq \in Seq(Contents) /\ Len(seq) <= Room
    BY <1>1, <1>3, <2>2
  <2>. QED
    BY <2>1, <2>2 DEF Single
<1>6. One(seq) => seq \in Seq(Kinds) /\ Len(seq) <= FifoSize
  <2>1. CASE seq = <<>>
    BY <1>1, <1>4, <2>1
  <2>2. ASSUME NEW x \in Kinds, seq = <<x>>
        PROVE  seq \in Seq(Kinds) /\ Len(seq) <= FifoSize
    BY <1>1, <1>3, <2>2
  <2>. QED
    BY <2>1, <2>2 DEF One
<1>. QED
  BY <1>2, <1>5, <1>6 DEF Single, One

LEMMA RF69Fits ==
  ASSUME driver = "RF69", OnAir, Single(queue), A!Next
  PROVE  OnAir' /\ (UNCHANGED buf \/ Single(buf'))
<1>. USE DEF OnAir, Airs, Single, Contents
<1>1. CASE A!Calls \/ A!CallSleep
  BY <1>1 DEF A!Calls, A!CallSleep, A!CallAvailable, A!CallRecv, A!CallSend, A!CallWaitSent,
              A!Call, A!radio, A!driven
<1>2. CASE A!Thread
  BY <1>2 DEF A!Thread, A!available, A!recv, A!send, A!Test, A!SetModeRx, A!Result, A!Copy,
              A!Clear, A!Check, A!Sent, A!sleep, A!Sleep,
              A!SetMode, A!SetChip, A!radio, A!driven
<1>3. CASE A!handleInterrupt
  BY <1>3 DEF A!handleInterrupt, A!readFifo, A!SetMode, A!SetChip
<1>4. CASE A!chipActs
  BY <1>4 DEF A!chipActs, A!PacketStarts, A!TimePasses, A!RxEnds, A!Receives, A!TxEnds, A!driven
<1>. QED
  BY <1>1, <1>2, <1>3, <1>4 DEF A!Next

LEMMA CC110Fits ==
  ASSUME driver = "CC110", OnAir, Single(queue), B!Next
  PROVE  OnAir' /\ (UNCHANGED buf \/ Single(buf'))
<1>. USE DEF OnAir, Airs, Single, Contents
<1>1. CASE B!Calls \/ B!CallSleep
  BY <1>1 DEF B!Calls, B!CallSleep, B!CallAvailable, B!CallRecv, B!CallSend, B!CallWaitSent,
              B!Call, B!radio, B!driven
<1>2. CASE B!Thread
  BY <1>2 DEF B!Thread, B!available, B!recv, B!send, B!waitPacketSent, B!Test, B!SetModeRx, B!Result,
              B!Copy, B!Clear, B!Check, B!Sent, B!sleep, B!Sleep,
              B!SetMode, B!SetChip, B!radio, B!driven
<1>3. CASE B!handleInterrupt
  BY <1>3 DEF B!handleInterrupt, B!SetMode, B!SetChip
<1>4. CASE B!chipActs
  BY <1>4 DEF B!chipActs, B!PacketStarts, B!TimePasses, B!RxEnds, B!Receives, B!TxEnds, B!driven
<1>. QED
  BY <1>1, <1>2, <1>3, <1>4 DEF B!Next

LEMMA MRF89Fits ==
  ASSUME driver = "MRF89", OnAir, Single(queue), C!Next
  PROVE  OnAir' /\ (UNCHANGED buf \/ Single(buf'))
<1>. USE DEF OnAir, Airs, Single, Contents
<1>1. CASE C!Calls \/ C!CallSleep
  BY <1>1 DEF C!Calls, C!CallSleep, C!CallAvailable, C!CallRecv, C!CallSend, C!CallWaitSent,
              C!Call, C!radio, C!driven
<1>2. CASE C!Thread
  BY <1>2 DEF C!Thread, C!available, C!recv, C!send, C!Test, C!SetModeRx, C!Result, C!Copy,
              C!Clear, C!Check, C!Sent, C!sleep, C!Sleep,
              C!SetMode, C!SetChip, C!radio, C!driven
<1>3. CASE C!handleInterrupt
  BY <1>3 DEF C!handleInterrupt, C!SetMode, C!SetChip
<1>4. CASE C!chipActs
  BY <1>4 DEF C!chipActs, C!PacketStarts, C!TimePasses, C!RxEnds, C!Receives, C!TxEnds, C!driven
<1>. QED
  BY <1>1, <1>2, <1>3, <1>4 DEF C!Next

LEMMA RF22Fits ==
  ASSUME driver = "RF22", OnAir, Single(queue), D!Next
  PROVE  OnAir' /\ (UNCHANGED buf \/ Single(buf'))
<1>. USE DEF OnAir, Airs, Single, Contents
<1>1. CASE D!Calls \/ D!CallSleep
  BY <1>1 DEF D!Calls, D!CallSleep, D!CallAvailable, D!CallRecv, D!CallSend, D!CallWaitSent,
              D!Call, D!radio, D!driven
<1>2. CASE D!Thread
  BY <1>2 DEF D!Thread, D!available, D!recv, D!send, D!fillTxBuf, D!startTransmit, D!Waited,
         D!Test, D!SetModeRx, D!Result, D!Copy,
              D!Clear, D!Check, D!Sent, D!sleep, D!Sleep,
              D!SetMode, D!SetChip, D!radio, D!driven, Own, D!Own
<1>3. CASE D!handleInterrupt
  BY <1>3 DEF D!handleInterrupt, D!PacketSent, D!PacketValid, D!BadLength, D!CrcError, D!SetChip
<1>4. CASE D!chipActs
  BY <1>4 DEF D!chipActs, D!PacketStarts, D!Preamble, D!FifoError, D!TimePasses, D!RxEnds, D!Receives,
              D!TxEnds, D!driven
<1>. QED
  BY <1>1, <1>2, <1>3, <1>4 DEF D!Next

LEMMA NRF24Fits ==
  ASSUME driver = "NRF24", OnAir, queue \in Seq(Kinds), F!Next
  PROVE  OnAir' /\ (UNCHANGED buf \/ Single(buf'))
<1>. USE DEF OnAir, Airs, Single, Contents
<1>1. CASE F!Calls \/ F!CallSleep
  BY <1>1 DEF F!Calls, F!CallSleep, F!CallAvailable, F!CallRecv, F!CallSend, F!CallWaitSent,
              F!Call, F!radio, F!driven
<1>2. CASE F!Thread
  BY <1>2 DEF F!Thread, F!available, F!ReadFifo, F!recv, F!send, F!waitPacketSent, F!sleep,
              F!SetMode, F!SetChip, F!radio, F!driven, Own, F!Own, Kinds
<1>3. CASE F!chipActs
  BY <1>3 DEF F!chipActs, F!PacketStarts, F!TimePasses, F!RxEnds, F!Receives, F!TxEnds, F!driven
<1>. QED
  BY <1>1, <1>2, <1>3 DEF F!Next

LEMMA NRF51Fits ==
  ASSUME driver = "NRF51", OnAir, Single(queue), G!Next
  PROVE  OnAir' /\ (UNCHANGED buf \/ Single(buf'))
<1>. USE DEF OnAir, Airs, Single, Contents
<1>1. CASE G!Calls
  BY <1>1 DEF G!Calls, G!CallAvailable, G!CallRecv, G!CallSend, G!CallWaitSent,
              G!Call, G!radio, G!driven
<1>2. CASE G!Thread
  BY <1>2 DEF G!Thread, G!available, G!Look, G!recv, G!send, G!waitPacketSent,
              G!SetMode, G!SetChip, G!radio, G!driven, Own, G!Own
<1>3. CASE G!chipActs
  BY <1>3 DEF G!chipActs, G!PacketStarts, G!TimePasses, G!RxEnds, G!Receives, G!TxEnds, G!driven
<1>. QED
  BY <1>1, <1>2, <1>3 DEF G!Next

LEMMA ASKFits ==
  ASSUME driver = "ASK", OnAir, Single(queue), H!Next
  PROVE  OnAir' /\ (UNCHANGED buf \/ Single(buf'))
<1>. USE DEF OnAir, Airs, Single, Contents
<1>1. CASE H!Calls
  BY <1>1 DEF H!Calls, H!CallAvailable, H!CallRecv, H!CallSend, H!CallWaitSent,
              H!Call, H!radio, H!driven
<1>2. CASE H!Thread
  BY <1>2 DEF H!Thread, H!available, H!recv, H!send, H!Test, H!SetModeRx, H!validateRxBuf, H!Copy,
              H!Clear, H!Check, H!Sent,
              H!SetMode, H!SetChip, H!radio, H!driven
<1>3. CASE H!receiveTimer \/ H!transmitTimer
  BY <1>3 DEF H!receiveTimer, H!Receives, H!transmitTimer, H!SetMode, H!SetChip
<1>4. CASE H!chipActs
  BY <1>4 DEF H!chipActs, H!PacketStarts, H!TimePasses, H!TxEnds, H!driven
<1>. QED
  BY <1>1, <1>2, <1>3, <1>4 DEF H!Next

LEMMA RF24Fits ==
  ASSUME driver = "RF24", OnAir, One(queue), buf \in Seq(Contents), Len(buf) <= Room, E!Next
  PROVE  OnAir' /\ buf' \in Seq(Contents) /\ Len(buf') <= Room
<1>. USE DEF OnAir, Airs
<1>1. /\ OnAir'
      /\ \/ UNCHANGED buf
         \/ Single(buf')
         \/ Len(buf) # Room /\ queue # <<>> /\ buf' = Append(buf, Head(queue))
  <2>. USE DEF Single, Contents
  <2>1. CASE E!Calls \/ E!CallSleep
    BY <2>1 DEF E!Calls, E!CallSleep, E!CallAvailable, E!CallRecv, E!CallSend, E!CallWaitSent,
                E!Call, E!radio, E!driven
  <2>2. CASE E!Thread
    BY <2>2 DEF E!Thread, E!available, E!recv, E!send, E!fillBuf, E!startTransmit, E!Waited,
           E!Test, E!SetModeRx, E!Result, E!Copy,
                E!Clear, E!Check, E!Sent, E!sleep, E!Sleep, E!SetMode, E!SetChip, E!radio, E!driven,
                Own, E!Own
  <2>3. CASE E!handleInterrupt
    BY <2>3 DEF E!handleInterrupt, E!clearBuffer, E!Receive
  <2>4. CASE E!chipActs
    BY <2>4 DEF E!chipActs, E!PacketStarts, E!TimePasses, E!RxEnds, E!Receives, E!TxEnds, E!driven,
                E!invalidSync, E!clearBuffer, E!radio
  <2>. QED
    BY <2>1, <2>2, <2>3, <2>4 DEF E!Next
<1>2. Room \in Nat /\ Len(buf) \in Nat
  BY SizesAssumption
<1>3. ASSUME Len(buf) # Room, queue # <<>>
      PROVE  /\ Append(buf, Head(queue)) \in Seq(Contents)
             /\ Len(Append(buf, Head(queue))) <= Room
  <2>1. Head(queue) \in Contents
    BY <1>3, Singles DEF One, Contents
  <2>. QED
    BY <1>2, <1>3, <2>1
<1>. QED
  BY <1>1, <1>2, <1>3, SinglesFit

-----------------------------------------------------------------------------
\* A transmission under way goes on, in the mode for it, until the chip ends it.
GoesOn == \/ chip' = "tx" /\ (UNCHANGED thread \/ UNCHANGED air)
          \/ done'

Sending == /\ mode = "Tx" /\ ~done
           /\ pc \notin {"setModeRx", "result", "copy", "clear", "transmit", "sleep", "sleepMode"}

LEMMA RF69Transmits ==
  ASSUME chip = "tx", Sending, queue = <<>>, A!Next
  PROVE  GoesOn
<1>. USE DEF GoesOn, Sending
<1>1. CASE A!Calls \/ A!CallSleep
  BY <1>1 DEF A!Calls, A!CallSleep, A!CallAvailable, A!CallRecv, A!CallSend, A!CallWaitSent,
              A!Call, A!radio
<1>2. CASE A!Thread
  BY <1>2 DEF A!Thread, A!available, A!recv, A!send, A!Test, A!SetModeRx, A!Result, A!Copy,
              A!Clear, A!Check, A!Sent, A!sleep, A!Sleep,
              A!At, A!radio, A!Step, A!Answer
<1>3. CASE A!handleInterrupt
  BY <1>3 DEF A!handleInterrupt, A!readFifo
<1>4. CASE A!chipActs
  BY <1>4 DEF A!chipActs, A!PacketStarts, A!TimePasses, A!RxEnds, A!Receives, A!TxEnds,
              A!thread, thread
<1>. QED
  BY <1>1, <1>2, <1>3, <1>4 DEF A!Next

LEMMA CC110Transmits ==
  ASSUME chip = "tx", Sending, queue = <<>>, B!Next
  PROVE  GoesOn
<1>. USE DEF GoesOn, Sending
<1>1. CASE B!Calls \/ B!CallSleep
  BY <1>1 DEF B!Calls, B!CallSleep, B!CallAvailable, B!CallRecv, B!CallSend, B!CallWaitSent,
              B!Call, B!radio
<1>2. CASE B!Thread
  BY <1>2 DEF B!Thread, B!available, B!recv, B!send, B!waitPacketSent, B!Test, B!SetModeRx, B!Result,
              B!Copy, B!Clear, B!Check, B!Sent, B!sleep, B!Sleep,
              B!At, B!radio, B!Step, B!Answer
<1>3. CASE B!handleInterrupt
  BY <1>3 DEF B!handleInterrupt
<1>4. CASE B!chipActs
  BY <1>4 DEF B!chipActs, B!PacketStarts, B!TimePasses, B!RxEnds, B!Receives, B!TxEnds,
              B!thread, thread
<1>. QED
  BY <1>1, <1>2, <1>3, <1>4 DEF B!Next

LEMMA MRF89Transmits ==
  ASSUME chip = "tx", Sending, queue = <<>>, C!Next
  PROVE  GoesOn
<1>. USE DEF GoesOn, Sending
<1>1. CASE C!Calls \/ C!CallSleep
  BY <1>1 DEF C!Calls, C!CallSleep, C!CallAvailable, C!CallRecv, C!CallSend, C!CallWaitSent,
              C!Call, C!radio
<1>2. CASE C!Thread
  BY <1>2 DEF C!Thread, C!available, C!recv, C!send, C!Test, C!SetModeRx, C!Result, C!Copy,
              C!Clear, C!Check, C!Sent, C!sleep, C!Sleep,
              C!At, C!radio, C!Step, C!Answer
<1>3. CASE C!handleInterrupt
  BY <1>3 DEF C!handleInterrupt
<1>4. CASE C!chipActs
  BY <1>4 DEF C!chipActs, C!PacketStarts, C!TimePasses, C!RxEnds, C!Receives, C!TxEnds,
              C!thread, thread
<1>. QED
  BY <1>1, <1>2, <1>3, <1>4 DEF C!Next

LEMMA RF22Transmits ==
  ASSUME chip = "tx", Sending, queue = <<>>, D!Next
  PROVE  GoesOn
<1>. USE DEF GoesOn, Sending
<1>1. CASE D!Calls \/ D!CallSleep
  BY <1>1 DEF D!Calls, D!CallSleep, D!CallAvailable, D!CallRecv, D!CallSend, D!CallWaitSent,
              D!Call, D!radio
<1>2. CASE D!Thread
  BY <1>2 DEF D!Thread, D!available, D!recv, D!send, D!fillTxBuf, D!startTransmit, D!Waited,
         D!Test, D!SetModeRx, D!Result, D!Copy,
              D!Clear, D!Check, D!Sent, D!sleep, D!Sleep,
              D!At, D!radio, D!Step, D!Answer
<1>3. CASE D!handleInterrupt
  BY <1>3 DEF D!handleInterrupt
<1>4. CASE D!chipActs
  BY <1>4 DEF D!chipActs, D!PacketStarts, D!Preamble, D!FifoError, D!TimePasses, D!RxEnds, D!Receives,
              D!TxEnds,
              D!thread, thread
<1>. QED
  BY <1>1, <1>2, <1>3, <1>4 DEF D!Next

LEMMA RF24Transmits ==
  ASSUME chip = "tx", Sending, queue = <<>>, E!Next
  PROVE  GoesOn
<1>. USE DEF GoesOn, Sending
<1>1. CASE E!Calls \/ E!CallSleep
  BY <1>1 DEF E!Calls, E!CallSleep, E!CallAvailable, E!CallRecv, E!CallSend, E!CallWaitSent,
              E!Call, E!radio
<1>2. CASE E!Thread
  BY <1>2 DEF E!Thread, E!available, E!recv, E!send, E!fillBuf, E!startTransmit, E!Waited, E!Test,
         E!SetModeRx, E!Result, E!Copy,
              E!Clear, E!Check, E!Sent, E!sleep, E!Sleep,
              E!At, E!radio, E!Step, E!Answer
<1>3. CASE E!handleInterrupt
  BY <1>3 DEF E!handleInterrupt, E!clearBuffer, E!Receive
<1>4. CASE E!chipActs
  BY <1>4 DEF E!chipActs, E!PacketStarts, E!TimePasses, E!RxEnds, E!Receives, E!TxEnds,
              E!invalidSync, E!thread, thread
<1>. QED
  BY <1>1, <1>2, <1>3, <1>4 DEF E!Next

LEMMA NRF24Transmits ==
  ASSUME chip = "tx", mode = "Tx", ~done, pc \in {"app", "waitSent"}, F!Next
  PROVE  GoesOn
<1>. USE DEF GoesOn, Sending
<1>1. CASE F!Calls \/ F!CallSleep
  BY <1>1 DEF F!Calls, F!CallSleep, F!CallAvailable, F!CallRecv, F!CallSend, F!CallWaitSent,
              F!Call, F!radio
<1>2. CASE F!Thread
  BY <1>2 DEF F!Thread, F!available, F!ReadFifo, F!recv, F!send, F!waitPacketSent, F!sleep,
              F!At, F!radio
<1>3. CASE F!chipActs
  BY <1>3 DEF F!chipActs, F!PacketStarts, F!TimePasses, F!RxEnds, F!Receives, F!TxEnds,
              F!thread, thread
<1>. QED
  BY <1>1, <1>2, <1>3 DEF F!Next

LEMMA NRF51Transmits ==
  ASSUME chip = "tx", mode = "Tx", ~done, pc \in {"app", "waitSent"}, G!Next
  PROVE  GoesOn
<1>. USE DEF GoesOn, Sending
<1>1. CASE G!Calls
  BY <1>1 DEF G!Calls, G!CallAvailable, G!CallRecv, G!CallSend, G!CallWaitSent,
              G!Call, G!radio
<1>2. CASE G!Thread
  BY <1>2 DEF G!Thread, G!available, G!Look, G!recv, G!send, G!waitPacketSent,
              G!At, G!radio
<1>3. CASE G!chipActs
  BY <1>3 DEF G!chipActs, G!PacketStarts, G!TimePasses, G!RxEnds, G!Receives, G!TxEnds,
              G!thread, thread
<1>. QED
  BY <1>1, <1>2, <1>3 DEF G!Next

LEMMA ASKTransmits ==
  ASSUME chip = "tx", Sending, H!Next
  PROVE  GoesOn
<1>. USE DEF GoesOn, Sending
<1>1. CASE H!Calls
  BY <1>1 DEF H!Calls, H!CallAvailable, H!CallRecv, H!CallSend, H!CallWaitSent,
              H!Call, H!radio
<1>2. CASE H!Thread
  BY <1>2 DEF H!Thread, H!available, H!recv, H!send, H!Test, H!SetModeRx, H!validateRxBuf, H!Copy,
              H!Clear, H!Check, H!Sent,
              H!At, H!radio, H!Step, H!Answer
<1>3. CASE H!receiveTimer \/ H!transmitTimer
  BY <1>3 DEF H!receiveTimer, H!Receives, H!transmitTimer
<1>4. CASE H!chipActs
  BY <1>4 DEF H!chipActs, H!PacketStarts, H!TimePasses, H!TxEnds,
              H!thread, thread
<1>. QED
  BY <1>1, <1>2, <1>3, <1>4 DEF H!Next

-----------------------------------------------------------------------------
LEMMA InitInv == DriversInit => Inv
<1> SUFFICES ASSUME DriversInit
             PROVE  Inv
  OBVIOUS
<1>1. /\ driver \in Names /\ OnAir /\ pc = "init" /\ buf = <<>> /\ One(queue)
      /\ chip \in {"idle", "rx", "tx", "sleep"} /\ done \in BOOLEAN
  BY DEF DriversInit, Init, OnAir, Airs, One
<1>2. Starting
  BY <1>1 DEF Starting, DriversInit, Init
<1>3. Fits
  BY <1>1, SinglesFit DEF Fits, OnAir, Single
<1>. QED
  BY <1>1, <1>2, <1>3 DEF Inv

\* init() leaves a chip at rest, whatever it was at, and nothing in its queue.
LEMMA InitialiseRests ==
  ASSUME Initialise
  PROVE  /\ pc = "init" /\ pc' = "app" /\ chip' = "idle" /\ air' = "none" /\ queue' = <<>>
         /\ done' = FALSE /\ mode' \in {"Initialising", "Idle"}
         /\ driver \in {"Serial", "TCP"} => mode' = "Initialising"
         /\ UNCHANGED <<op, due, valid, buf, history>>
<1>. USE DEF history, heardOf, handed, flags
<1>1. CASE driver = "RF69" /\ A!init
  BY <1>1 DEF A!init, A!Started, A!At, A!history, A!heardOf, A!handed, A!flags
<1>2. CASE driver = "CC110" /\ B!init
  BY <1>2 DEF B!init, B!Started, B!At, B!history, B!heardOf, B!handed, B!flags
<1>3. CASE driver = "MRF89" /\ C!init
  BY <1>3 DEF C!init, C!Started, C!At, C!history, C!heardOf, C!handed, C!flags
<1>4. CASE driver = "RF22" /\ D!init
  BY <1>4 DEF D!init, D!Started, D!At, D!history, D!heardOf, D!handed, D!flags
<1>5. CASE driver = "RF24" /\ E!init
  BY <1>5 DEF E!init, E!Started, E!At, E!history, E!heardOf, E!handed, E!flags
<1>6. CASE driver = "NRF24" /\ F!init
  BY <1>6 DEF F!init, F!Started, F!At, F!history, F!heardOf, F!handed, F!flags
<1>7. CASE driver = "NRF51" /\ G!init
  BY <1>7 DEF G!init, G!Started, G!At, G!history, G!heardOf, G!handed, G!flags
<1>8. CASE driver = "ASK" /\ H!init
  BY <1>8 DEF H!init, H!Started, H!At, H!history, H!heardOf, H!handed, H!flags
<1>9. CASE driver = "Serial" /\ I!init
  BY <1>9 DEF I!init, I!Started, I!At, I!history, I!heardOf, I!handed, I!flags
<1>10. CASE driver = "TCP" /\ J!init
  BY <1>10 DEF J!init, J!Started, J!At, J!history, J!heardOf, J!handed, J!flags
<1>. QED
  BY <1>1, <1>2, <1>3, <1>4, <1>5, <1>6, <1>7, <1>8, <1>9, <1>10 DEF Initialise

LEMMA InitialiseKeeps ==
  ASSUME Inv, driver' = driver, Initialise
  PROVE  Inv'
<1>1. /\ pc = "init" /\ pc' = "app" /\ chip' = "idle" /\ air' = "none" /\ queue' = <<>>
      /\ done' = FALSE /\ mode' \in {"Initialising", "Idle"}
      /\ driver \in {"Serial", "TCP"} => mode' = "Initialising"
      /\ UNCHANGED <<due, valid, buf, heard, taken, out, late>>
  BY InitialiseRests DEF history, heardOf, handed, flags
<1>2. /\ valid' = FALSE /\ buf' = <<>> /\ due' = "any" /\ heard' = 0 /\ taken' = 0 /\ out' = <<>>
      /\ driver \in Names /\ late' \in BOOLEAN
  BY <1>1 DEF Inv, Starting
<1>3. /\ ModeIsChips' /\ RF22Modes' /\ RF24Modes' /\ Program' /\ OneAtATime' /\ Polling' /\ OneWaits'
      /\ RF22Waits' /\ RF24Waits'
  <2>1. DOMAIN queue' = {}
    BY <1>1
  <2>. QED
    BY <1>1, <1>2, <2>1 DEF ModeIsChips, RF22Modes, RF24Modes, Modes, Program, OneAtATime, Polling,
       OneWaits, RF22Waits, RF24Waits, One
<1>4. Accounted'
  BY <1>1, <1>2, Singles DEF Accounted, Waits, Held
<1>5. Ours(queue') = {} /\ Cardinality(Ours(queue')) = 0
  BY <1>1, FS_EmptySet DEF Ours
<1>6. OnTheWay' = 0
  BY <1>1, <1>2, <1>5, CountedNext
<1>7. Totals'
  BY <1>2, <1>6 DEF Totals
<1>8. \A S : queue' \in Seq(S) /\ buf' \in Seq(S) /\ Len(queue') = 0 /\ Len(buf') = 0
  BY <1>1, <1>2
<1>9. {Room, FifoSize, PortSize, PayloadSize} \subseteq Nat \ {0}
  BY SizesAssumption
<1>10. Running'
  BY <1>3, <1>4 DEF Running
<1>11. CC110Runs'
  BY <1>1, <1>2, <1>3, <1>4 DEF CC110Runs
<1>12. RF22Runs' /\ RF24Runs'
  BY <1>1, <1>2, <1>3, <1>4 DEF RF22Runs, RF24Runs
<1>13. NRF24Runs'
  BY <1>1, <1>3, <1>7, <1>8, <1>9 DEF NRF24Runs
<1>14. NRF51Runs'
  BY <1>1, <1>2, <1>3, <1>4 DEF NRF51Runs
<1>15. driver = "Serial" => SerialRuns'
  <2>1. Leads(queue', "idle", "idle")
    <3>1. <<"idle">> \in [1 .. 1 -> Places] /\ <<"idle">>[1] = "idle"
      BY DEF Places
    <3>2. Len(queue') = 0 /\ 0 + 1 = 1
      BY <1>8
    <3>. QED
      BY <3>1, <3>2 DEF Leads
  <2>2. Parsed'
    BY <1>1, <2>1 DEF Parsed, IsAt, Places
  <2>3. /\ queue' \in Seq(Kinds \cup I!Characters) /\ Len(queue') = 0
        /\ buf' \in Seq(Kinds \cup I!Characters) /\ Len(buf') = 0
    BY <1>8
  <2>4. PortSize \in Nat /\ PayloadSize \in Nat
    BY <1>9
  <2>5. /\ valid' \in BOOLEAN /\ ~valid' /\ chip' \in I!States /\ done' = FALSE
        /\ pc' = "app" /\ due' = "any" /\ air' = "none"
        /\ driver = "Serial" => mode' = "Initialising"
    BY <1>1, <1>2 DEF I!States
  <2>6. Len(queue') <= PortSize /\ Len(buf') <= PayloadSize
    BY <2>3, <2>4
  <2>7. /\ queue' \in Seq(Kinds \cup I!Characters) /\ Len(queue') <= PortSize
        /\ air' # "none" => Len(queue') < PortSize
        /\ buf' \in Seq(Kinds \cup I!Characters) /\ Len(buf') <= PayloadSize
    BY <2>3, <2>5, <2>6
  <2>8. /\ pc' \in {"app", "available", "copy", "send", "waitSent"} /\ due' \in {"any", "recv"}
        /\ (pc' = "copy" => valid') /\ (valid' => chip' = "idle")
    BY <2>5
  <2>. QED
    BY ONLY <1>7, <2>2, <2>5, <2>7, <2>8 DEF SerialRuns
<1>16. driver = "TCP" => TCPRuns'
  <2>1. queue' \in Seq(Kinds) /\ valid' \in BOOLEAN /\ ~valid'
    BY <1>2, <1>8
  <2>. QED
    BY <1>1, <1>2, <1>6, <2>1 DEF TCPRuns, One
<1>17. Fits'
  BY <1>1, <1>2, SinglesFit DEF Fits, OnAir, Airs, Single
<1>. QED
  BY <1>1, <1>2, <1>10, <1>11, <1>12, <1>13, <1>14, <1>15, <1>16, <1>17 DEF Inv, Working

LEMMA WorkKeeps ==
  ASSUME Inv, driver' = driver, Work
  PROVE  Inv'
<1>1. pc # "init" /\ Working /\ driver \in Names /\ Fits
  BY DEF Work, Inv
<1>2. \A seq : Single(seq) => seq \in Seq(Contents) /\ Len(seq) <= Room
  BY SinglesFit
<1>3. ASSUME OnAir', UNCHANGED buf \/ Single(buf')
      PROVE  Fits'
  BY <1>1, <1>2, <1>3 DEF Fits
<1>4. driver \in Sure => Single(queue)
  BY <1>1, SinglesFit DEF Working, Running, OneAtATime, One
<1>5. CASE driver = "RF69" /\ A!Next
  <2>1. Running'
    BY <1>1, <1>5, RF69Keeps DEF Working, Sure
  <2>2. Fits'
    BY <1>1, <1>3, <1>4, <1>5, RF69Fits DEF Fits, Sure
  <2>. QED
    BY <1>1, <1>5, <2>1, <2>2 DEF Inv, Working, Running, Program
<1>6. CASE driver = "CC110" /\ B!Next
  <2>1. CC110Runs'
    BY <1>1, <1>6, CC110Keeps DEF Working
  <2>2. Single(queue)
    BY <1>1, <1>6, SinglesFit DEF Working, CC110Runs, OneWaits
  <2>3. Fits'
    BY <1>1, <1>3, <1>6, <2>2, CC110Fits DEF Fits
  <2>. QED
    BY <1>1, <1>6, <2>1, <2>3 DEF Inv, Working, CC110Runs, Program, Sure
<1>7. CASE driver = "MRF89" /\ C!Next
  <2>1. Running'
    BY <1>1, <1>7, MRF89Keeps DEF Working, Sure
  <2>2. Fits'
    BY <1>1, <1>3, <1>4, <1>7, MRF89Fits DEF Fits, Sure
  <2>. QED
    BY <1>1, <1>7, <2>1, <2>2 DEF Inv, Working, Running, Program
<1>8. CASE driver = "RF22" /\ D!Next
  <2>1. RF22Runs'
    BY <1>1, <1>8, RF22Keeps DEF Working
  <2>2. Single(queue)
    BY <1>1, <1>8, SinglesFit DEF Working, RF22Runs, RF22Waits
  <2>3. Fits'
    BY <1>1, <1>3, <1>8, <2>2, RF22Fits DEF Fits
  <2>. QED
    BY <1>1, <1>8, <2>1, <2>3 DEF Inv, Working, RF22Runs, Program, Sure
<1>9. CASE driver = "RF24" /\ E!Next
  <2>1. RF24Runs'
    BY <1>1, <1>9, RF24Keeps DEF Working
  <2>2. One(queue)
    BY <1>1, <1>9 DEF Working, RF24Runs, RF24Waits
  <2>3. Fits'
    BY <1>1, <1>9, <2>2, RF24Fits DEF Fits
  <2>. QED
    BY <1>1, <1>9, <2>1, <2>3 DEF Inv, Working, RF24Runs, Program, Sure
<1>10. CASE driver = "NRF24" /\ F!Next
  <2>1. NRF24Runs'
    BY <1>1, <1>10, NRF24Keeps DEF Working
  <2>2. Fits'
    BY <1>1, <1>3, <1>10, NRF24Fits DEF Fits, Working, NRF24Runs
  <2>. QED
    BY <1>1, <1>10, <2>1, <2>2 DEF Inv, Working, NRF24Runs, Polling, Sure
<1>11. CASE driver = "NRF51" /\ G!Next
  <2>1. NRF51Runs'
    BY <1>1, <1>11, NRF51Keeps DEF Working
  <2>2. Single(queue)
    BY <1>1, <1>11, SinglesFit DEF Working, NRF51Runs, OneWaits
  <2>3. Fits'
    BY <1>1, <1>3, <1>11, <2>2, NRF51Fits DEF Fits
  <2>. QED
    BY <1>1, <1>11, <2>1, <2>3 DEF Inv, Working, NRF51Runs, Polling, Sure
<1>12. CASE driver = "ASK" /\ H!Next
  <2>1. Running'
    BY <1>1, <1>12, ASKKeeps DEF Working, Sure
  <2>2. Fits'
    BY <1>1, <1>3, <1>4, <1>12, ASKFits DEF Fits, Sure
  <2>. QED
    BY <1>1, <1>12, <2>1, <2>2 DEF Inv, Working, Running, Program
<1>13. CASE driver = "Serial" /\ I!Next
  <2>1. SerialRuns'
    BY <1>1, <1>13, SerialKeeps DEF Working
  <2>2. air' \in Airs
    BY <1>1, <1>13 DEF Fits, OnAir, Airs, I!Next, I!Calls, I!CallAvailable, I!CallRecv, I!CallSend,
       I!CallWaitSent, I!Call, I!Thread, I!handleRx, I!available, I!recv, I!send, I!line,
       I!FrameStarts, I!TimePasses, I!FrameEnds, I!FrameGarbled, I!radio
  <2>3. OnAir'
    BY <2>1, <2>2 DEF OnAir, SerialRuns, I!States
  <2>. QED
    BY <1>1, <1>13, <2>1, <2>3 DEF Inv, Working, Fits, SerialRuns, Sure
<1>14. CASE driver = "TCP" /\ J!Next
  <2>1. TCPRuns'
    BY <1>1, <1>14, TCPKeeps DEF Working
  <2>2. OnAir'
    BY <1>1, <1>14 DEF Fits, OnAir, Airs, Working, TCPRuns,
       J!Next, J!Calls, J!CallAvailable, J!CallRecv, J!CallSend,
       J!CallWaitSent, J!Call, J!Thread, J!available, J!partRead, J!stuck, J!recv, J!send, J!socket,
       J!MessageStarts, J!TimePasses, J!MessageEnds, J!radio, J!vars
  <2>3. Fits'
    BY <1>3, <2>1, <2>2, SinglesFit DEF TCPRuns
  <2>. QED
    BY <1>1, <1>14, <2>1, <2>3 DEF Inv, Working, TCPRuns, Sure
<1>. QED
  BY <1>5, <1>6, <1>7, <1>8, <1>9, <1>10, <1>11, <1>12, <1>13, <1>14 DEF Work

LEMMA StepInv == Inv /\ [DriversNext]_allVars => Inv'
<1>1. ASSUME Inv, UNCHANGED allVars
      PROVE  Inv'
  <2>1. /\ UNCHANGED <<driver, chip, air, queue, done, mode, valid, buf, pc, op, due>>
        /\ UNCHANGED <<arrived, heard, seen, taken, out, relistened, sentOver, late, sends>>
    BY <1>1 DEF allVars, vars, radio, thread, driven, history, heardOf, handed, flags
  <2>2. /\ ModeIsChips' = ModeIsChips /\ Program' = Program /\ OneAtATime' = OneAtATime
        /\ Accounted' = Accounted /\ OneWaits' = OneWaits /\ Polling' = Polling
        /\ RF22Modes' = RF22Modes /\ RF22Waits' = RF22Waits
        /\ RF24Modes' = RF24Modes /\ RF24Waits' = RF24Waits /\ RF24Undisturbed' = RF24Undisturbed
    BY <2>1 DEF RF22Modes, RF22Waits, RF24Modes, RF24Waits, RF24Undisturbed, ModeIsChips, Program,
           OneAtATime, Accounted, Waits, Held, OneWaits, One, Polling
  <2>3. OnTheWay' = OnTheWay /\ Parsed' = Parsed
    BY <2>1 DEF OnTheWay, Unread, Held, Parsed, IsAt
  <2>4. Totals' = Totals
    BY <2>1, <2>3 DEF Totals
  <2>. QED
    BY <1>1, <2>1, <2>2, <2>3, <2>4
    DEF Inv, Fits, OnAir, Starting, Working, Running, CC110Runs, RF22Runs, RF24Runs, NRF24Runs,
        NRF51Runs, SerialRuns, TCPRuns, One
<1>. QED
  BY <1>1, InitialiseKeeps, WorkKeeps DEF DriversNext

\* What the other theorems need of a behaviour.
THEOREM Always == Spec => []Inv
<1>. QED
  BY InitInv, StepInv, PTL DEF Spec
-----------------------------------------------------------------------------
\* The sum in DeliveredOnce, of a queue with at most one packet.
LEMMA WayOfOne ==
  ASSUME pc # "init", One(queue)
  PROVE  OnTheWay = (IF Waits THEN 1 ELSE 0) + (IF Held THEN 1 ELSE 0)
BY OursOfOne DEF OnTheWay, Unread, Ours, Waits

LEMMA AccountedDelivers ==
  ASSUME pc # "init", One(queue), Accounted
  PROVE  /\ heard = taken + OnTheWay /\ heard >= taken + OnTheWay
         /\ out \in {<<>>, <<"ours">>}
BY WayOfOne DEF Accounted

\* Each driver hands over every packet for this node once and unmixed, or still has it,
\* however handler, timer and program interleave, but for the ways that Excused names.
THEOREM NeverLost == Spec => []DeliveredOnce
<1>1. Inv => DeliveredOnce
  <2>1. ASSUME Inv, pc = "init"
        PROVE  DeliveredOnce
    BY <2>1 DEF Inv, Starting, DeliveredOnce, OnTheWay, Unread, Held
  <2>2. ASSUME Inv, pc # "init"
        PROVE  DeliveredOnce
    <3>1. Working /\ driver \in Names
      BY <2>2 DEF Inv
    <3>2. CASE driver \in Sure
      <4>1. One(queue) /\ Accounted
        BY <3>1, <3>2 DEF Working, Running, OneAtATime, One
      <4>. QED
        BY <2>2, <4>1, AccountedDelivers DEF DeliveredOnce
    <3>3. CASE driver \in {"CC110", "RF22", "RF24", "NRF51"}
      <4>1. One(queue) /\ (~Excused => Accounted)
        BY <3>1, <3>3 DEF Working, CC110Runs, RF22Runs, RF24Runs, NRF51Runs, OneWaits, RF22Waits,
           RF24Waits, RF24Undisturbed, Excused
      <4>. QED
        BY <2>2, <3>3, <4>1, AccountedDelivers DEF DeliveredOnce
    <3>4. CASE driver \in {"NRF24", "Serial"}
      <4>1. Totals
        BY <3>1, <3>4 DEF Working, NRF24Runs, SerialRuns
      <4>. QED
        BY <3>4, <4>1 DEF Totals, DeliveredOnce, Excused
    <3>5. CASE driver = "TCP"
      <4>1. ~relistened => /\ {heard, taken} \subseteq Nat /\ heard = taken + OnTheWay
                           /\ out \in {<<>>, <<"ours">>}
        BY <3>1, <3>5 DEF Working, TCPRuns
      <4>. QED
        BY <3>5, <4>1 DEF DeliveredOnce, Excused
    <3>. QED
      BY <3>1, <3>2, <3>3, <3>4, <3>5 DEF Names, Sure
  <2>. QED
    BY <2>1, <2>2
<1>. QED
  BY <1>1, Always, PTL

\* Between calls a driver's mode is the chip's, after a restart too, but in the four ways
\* that ModeMatchesChip names.
THEOREM ModeIsTrue == Spec => []ModeMatchesChip
<1>1. Inv => ModeMatchesChip
  <2> SUFFICES ASSUME Inv, pc = "app"
               PROVE  ModeMatchesChip
    BY DEF ModeMatchesChip
  <2>1. Working /\ driver \in Names
    BY DEF Inv
  <2>2. CASE driver \in {"Serial", "TCP"}
    BY <2>1, <2>2 DEF Working, SerialRuns, TCPRuns, ModeMatchesChip
  <2>3. CASE driver = "RF22"
    BY <2>1, <2>3 DEF Working, RF22Runs, RF22Modes, ModeMatchesChip
  <2>4. CASE driver = "RF24"
    BY <2>1, <2>4 DEF Working, RF24Runs, RF24Modes, ModeMatchesChip
  <2>5. CASE driver \notin {"Serial", "TCP", "RF22", "RF24"}
    <3>1. ModeIsChips
      BY <2>1, <2>5 DEF Working, Names, Sure, Running, CC110Runs, NRF24Runs, NRF51Runs
    <3>. QED
      BY <2>5, <3>1 DEF ModeIsChips, ModeMatchesChip, Dozing
  <2>. QED
    BY <2>2, <2>3, <2>4, <2>5
<1>. QED
  BY <1>1, Always, PTL

\* No call and no packet cuts what a driver sends, but in RF22 for what its handler does of
\* an event that was late; only init() may, after a restart.
THEOREM NotCut == Spec => TxNotCut
<1>1. ASSUME Inv, pc # "init", chip = "tx", ~(driver = "RF22" /\ late), Work
      PROVE  GoesOn
  <2>1. Working /\ driver \in Names
    BY <1>1 DEF Inv
  <2>2. driver \notin {"Serial", "TCP"}
    BY <1>1, <2>1 DEF Working, SerialRuns, TCPRuns, I!States
  <2>3. ASSUME ModeIsChips
        PROVE  mode = "Tx" /\ ~done
    BY <1>1, <2>3 DEF ModeIsChips, Modes
  <2>4. CASE driver \in Sure
    <3>1. Running
      BY <2>1, <2>4 DEF Working
    <3>2. Sending /\ (driver # "ASK" => queue = <<>>)
      BY <2>3, <3>1 DEF Running, Program, OneAtATime, Sending
    <3>. QED
      BY <1>1, <2>4, <3>2, RF69Transmits, MRF89Transmits, ASKTransmits DEF Work, Sure
  <2>5. CASE driver = "CC110"
    <3>1. ModeIsChips /\ Program /\ OneWaits
      BY <2>1, <2>5 DEF Working, CC110Runs
    <3>2. Sending /\ queue = <<>>
      BY <2>3, <3>1 DEF Program, OneWaits, Sending
    <3>. QED
      BY <1>1, <2>5, <3>2, CC110Transmits DEF Work
  <2>7. CASE driver = "RF22"
    <3>1. RF22Modes /\ Program
      BY <2>1, <2>7 DEF Working, RF22Runs
    <3>2. mode = "Tx" /\ ~done /\ queue = <<>>
      BY <1>1, <2>7, <3>1 DEF RF22Modes
    <3>3. Sending
      BY <3>1, <3>2 DEF Program, Sending
    <3>. QED
      BY <1>1, <2>7, <3>2, <3>3, RF22Transmits DEF Work
  <2>8. CASE driver = "RF24"
    <3>1. RF24Modes /\ RF24Waits /\ Program
      BY <2>1, <2>8 DEF Working, RF24Runs
    <3>2. mode = "Tx" /\ ~done
      BY <1>1, <3>1 DEF RF24Modes, Modes
    <3>3. Sending /\ queue = <<>>
      BY <3>1, <3>2 DEF Program, RF24Waits, Sending
    <3>. QED
      BY <1>1, <2>8, <3>3, RF24Transmits DEF Work
  <2>6. CASE driver \in {"NRF24", "NRF51"}
    <3>1. ModeIsChips /\ Polling
      BY <2>1, <2>6 DEF Working, NRF24Runs, NRF51Runs
    <3>2. mode = "Tx" /\ ~done /\ pc \in {"app", "waitSent"}
      BY <2>3, <3>1 DEF Polling
    <3>. QED
      BY <1>1, <2>6, <3>2, NRF24Transmits, NRF51Transmits DEF Work
  <2>. QED
    BY <2>1, <2>2, <2>4, <2>5, <2>6, <2>7, <2>8 DEF Names, Sure
<1>2. ASSUME Inv, [DriversNext]_allVars
      PROVE  [pc # "init" /\ chip = "tx" /\ (chip' # "tx" \/ (thread' # thread /\ air' # air))
                => done' \/ (driver = "RF22" /\ late)]_allVars
  <2>1. ASSUME pc # "init"
        PROVE  ~Initialise
    BY <2>1, InitialiseRests
  <2>. QED
    BY <1>1, <1>2, <2>1 DEF DriversNext, GoesOn
<1>. QED
  BY <1>2, Always, PTL DEF Spec, TxNotCut

\* Every variable has its type, and no buffer of a driver, a chip or a port overflows.
THEOREM Types == Spec => []TypeOK
<1>1. Inv => TypeOK
  <2> SUFFICES ASSUME Inv
               PROVE  TypeOK
    OBVIOUS
  <2>1. One(queue) => queue \in Seq(Kinds) /\ Len(queue) <= FifoSize
    BY SinglesFit
  <2>2. CASE pc = "init"
    <3>1. Starting
      BY <2>2 DEF Inv
    <3>2. driver = "Serial" => /\ queue \in Seq(Kinds \cup I!Characters) /\ Len(queue) <= PortSize
                               /\ buf \in Seq(Kinds \cup I!Characters) /\ Len(buf) <= PayloadSize
                               /\ chip \in I!States
      <4> SUFFICES ASSUME driver = "Serial"
                   PROVE  /\ queue \in Seq(Kinds \cup I!Characters) /\ Len(queue) <= PortSize
                          /\ buf \in Seq(Kinds \cup I!Characters) /\ Len(buf) <= PayloadSize
                          /\ chip \in I!States
        OBVIOUS
      <4>1. queue = <<>> /\ buf = <<>> /\ chip = "idle"
        BY <3>1 DEF Starting, Together
      <4>2. PortSize \in Nat /\ PayloadSize \in Nat
        BY SizesAssumption
      <4>. QED
        BY <4>1, <4>2 DEF I!States
    <3>. QED
      BY <2>1, <2>2, <3>1, <3>2 DEF TypeOK, Starting, Inv, Fits, OnAir, Airs
  <2>3. CASE pc # "init"
    <3>1. Working /\ driver \in Names /\ Fits
      BY <2>3 DEF Inv
    <3>2. CASE driver = "Serial"
      BY <3>1, <3>2 DEF Working, SerialRuns, Fits, OnAir, Airs, TypeOK
    <3>3. CASE driver = "TCP"
      BY <3>1, <3>3 DEF Working, TCPRuns, Fits, OnAir, Airs, TypeOK
    <3>4. CASE driver \notin {"Serial", "TCP"}
      <4>1. (ModeIsChips \/ RF22Modes \/ RF24Modes) /\ (Program \/ Polling)
        BY <3>1, <3>4 DEF Working, Names, Sure, Running, CC110Runs, RF22Runs, RF24Runs, NRF24Runs,
             NRF51Runs
      <4>2. queue \in Seq(Kinds) /\ Len(queue) <= FifoSize
        BY <2>1, <3>1, <3>4
        DEF Working, Names, Sure, Running, OneAtATime, CC110Runs, RF22Runs, RF24Runs, NRF24Runs,
            NRF51Runs, OneWaits, RF22Waits, RF24Waits, One
      <4>3. /\ chip \in {"idle", "rx", "tx", "sleep"}
            /\ mode \in {"Initialising", "Idle", "Rx", "Tx", "Sleep"}
            /\ {done, valid} \subseteq BOOLEAN
            /\ pc \in {"init", "app", "available", "setModeRx", "result", "copy", "clear", "send",
                       "waitSent", "transmit", "sleep", "sleepMode", "stuck"}
        BY <4>1 DEF ModeIsChips, RF22Modes, RF24Modes, Modes, Program, Polling
      <4>. QED
        BY <3>1, <3>4, <4>2, <4>3 DEF TypeOK, Fits, OnAir, Airs
    <3>. QED
      BY <3>2, <3>3, <3>4
  <2>. QED
    BY <2>2, <2>3
<1>. QED
  BY <1>1, Always, PTL
-----------------------------------------------------------------------------
\* A driver that believes itself sending is: the end of the packet is still to come, or waits
\* to be seen.
EndIsToCome == pc # "init" /\ mode = "Tx" => done \/ (chip = "tx" /\ air \in {"young", "old"})

\* The safety half of TxEndSeen: no driver waits for the end of a transmission in vain.
THEOREM NoWaitIsInVain == Spec => []EndIsToCome
<1>1. Inv => EndIsToCome
  <2> SUFFICES ASSUME Inv, pc # "init", mode = "Tx"
               PROVE  EndIsToCome
    BY DEF EndIsToCome
  <2>1. Working /\ driver \in Names /\ OnAir
    BY DEF Inv, Fits
  <2>2. ModeIsChips \/ RF22Modes \/ RF24Modes
    BY <2>1 DEF Working, Names, Sure, Running, CC110Runs, RF22Runs, RF24Runs, NRF24Runs, NRF51Runs,
                SerialRuns, TCPRuns
  <2>. QED
    BY <2>1, <2>2 DEF ModeIsChips, RF22Modes, RF24Modes, OnAir, Airs, EndIsToCome
<1>. QED
  BY <1>1, Always, PTL
-----------------------------------------------------------------------------
(* The mailbox of Radio: what a driver holds, or a chip keeps for it; a driver that has *)
(* a message waiting does not listen, whatever it believes.                           *)
Phase == IF mode = "Tx" THEN "sending"
         ELSE IF mode = "Sleep" /\ chip = "sleep" THEN "asleep"
         ELSE IF (mode = "Rx" \/ (mode = "Sleep" /\ chip = "rx")) /\ ~Waits THEN "listening" ELSE "idle"

Slot == IF pc # "init" /\ (Waits \/ Held) THEN "ours" ELSE "none"

Box == INSTANCE Radio WITH Message <- {"ours"}, NoMessage <- "none",
                           phase <- Phase, slot <- Slot,
                           taken <- (IF out = <<"ours">> THEN "ours" ELSE "none")

\* Drivers or chips that queue several messages.
Several == {"NRF24", "Serial", "TCP"}

BoxStep == Box!Next \/ UNCHANGED Box!vars

\* Steps of a driver, by what they do to the mailbox.
LEMMA Switches ==
  ASSUME pc # "init", pc' # "init", UNCHANGED out, Waits \/ Held <=> Waits' \/ Held',
         mode' \in {"Initialising", "Rx", "Idle", "Tx", "Sleep"},
         mode = "Tx" => mode' \in {"Idle", "Tx"}
  PROVE  BoxStep
BY DEF BoxStep, Box!Next, Box!Listen, Box!Stop, Box!StartSend, Box!Sleep, Box!vars, Phase, Slot

LEMMA Arrives ==
  ASSUME UNCHANGED out, mode = "Rx" \/ (mode = "Sleep" /\ chip = "rx"),
         mode' \in {"Rx", "Idle", "Sleep"}, chip' # "sleep", ~Waits, Waits', ~Held,
         pc # "init", pc' # "init"
  PROVE  BoxStep
BY DEF BoxStep, Box!Next, Box!Arrive, Box!Hear, Phase, Slot

LEMMA Takes ==
  ASSUME out' = <<"ours">>, UNCHANGED <<mode, chip>>, ~Waits, ~Waits', Held, ~Held', pc # "init",
         pc' # "init"
  PROVE  BoxStep
BY DEF BoxStep, Box!Next, Box!Take, Phase, Slot

\* RH_RF69.cpp.
LEMMA RF69Boxes ==
  ASSUME Running, driver = "RF69", pc' # "init", A!Next
  PROVE  BoxStep
<1>. USE DEF Running, ModeIsChips, Program, OneAtATime, Accounted, Waits, Held, Kinds, Dozing, Modes,
             A!Kinds, A!radio, A!thread, A!driven, A!heardOf, A!handed, A!flags, A!history, A!At,
             A!Goto,
             A!Return, A!Answer, A!Step, A!NoInterrupt, A!SetMode, A!SetChip
<1>1. CASE A!Calls \/ A!CallSleep \/ A!Test(mode = "Tx", FALSE) \/ A!Result(valid) \/ A!Clear(buf)
           \/ A!Check
           \/ A!PacketStarts(1) \/ A!TimePasses \/ A!TxEnds
  <2>1. UNCHANGED <<mode, out, queue>> /\ Held' = Held
    BY <1>1 DEF A!Calls, A!CallSleep, A!CallAvailable, A!CallRecv, A!CallSend, A!CallWaitSent,
       A!Call, A!Test, A!Result, A!Clear, A!Check, A!PacketStarts, A!TimePasses, A!TxEnds
  <2>. QED
    BY <2>1, Switches
<1>2. CASE A!SetModeRx \/ A!sleep
           \/ (mode # "Tx" /\ A!Sent(A!SetMode("Tx", "tx") /\ UNCHANGED <<valid, buf>>))
  <2>1. /\ UNCHANGED <<out, queue, valid>> /\ pc # "clear" /\ pc' # "clear"
    BY <1>2 DEF A!SetModeRx, A!sleep, A!Sleep, A!Sent
  <2>2. mode' \in {mode, "Rx", "Tx", "Sleep"} /\ (mode = "Tx" => mode' \in {"Idle", "Tx"})
    BY <1>2 DEF A!SetModeRx, A!sleep, A!Sleep, A!Sent
  <2>. QED
    BY <2>1, <2>2, Switches, Singles
<1>3. CASE A!Copy
  BY <1>3, Takes, Singles DEF A!Copy, A!HandOver
<1>4. CASE A!handleInterrupt
  <2>1. mode' = "Idle" /\ queue' = <<>> /\ UNCHANGED <<out, pc>>
    BY <1>4 DEF A!handleInterrupt
  <2>2. CASE Waits
    <3>1. mode = "Rx" /\ valid' /\ pc # "clear"
      BY <1>4, <2>2, Singles DEF A!handleInterrupt, A!readFifo
    <3>. QED
      BY <2>1, <2>2, <3>1, Switches, Singles
  <2>3. CASE ~Waits
    <3>1. UNCHANGED valid
      BY <1>4, <2>3, Singles DEF A!handleInterrupt, A!readFifo
    <3>. QED
      BY <2>1, <2>3, <3>1, Switches, Singles
  <2>. QED
    BY <2>2, <2>3
<1>5. CASE A!RxEnds(A!Kinds, "rx")
  <2>1. /\ chip = "rx" /\ air = "old"
        /\ UNCHANGED <<done, mode, valid, buf, pc, op, due, taken, out>>
        /\ \E kind \in Kinds : queue' = Append(queue, kind)
        /\ chip' = "rx"
    BY <1>5 DEF A!RxEnds, A!Receives
  <2>2. mode = "Rx" /\ ~valid /\ queue = <<>>
    BY <2>1
  <2>. QED
    BY <2>1, <2>2, Arrives, Switches, Singles
<1>. QED
  BY <1>1, <1>2, <1>3, <1>4, <1>5 DEF A!Next, A!Thread, A!available, A!recv, A!send, A!chipActs

\* RH_MRF89.cpp.
LEMMA MRF89Boxes ==
  ASSUME Running, driver = "MRF89", pc' # "init", C!Next
  PROVE  BoxStep
<1>. USE DEF Running, ModeIsChips, Program, Waits, Held, Kinds, Dozing, Modes, Accounted, OneAtATime,
             C!Kinds, C!radio, C!thread, C!driven, C!heardOf, C!handed, C!flags, C!history, C!At,
             C!Goto,
             C!Return, C!Answer, C!Step, C!NoInterrupt, C!SetMode, C!SetChip
<1>1. CASE C!Calls \/ C!CallSleep \/ C!Check \/ C!PacketStarts(1) \/ C!TimePasses \/ C!TxEnds
           \/ C!Test(mode = "Tx", FALSE) \/ C!Result(valid) \/ C!Clear(<<>>)
  <2>1. UNCHANGED <<mode, out, queue>> /\ Held' = Held
    BY <1>1 DEF C!Calls, C!CallSleep, C!CallAvailable, C!CallRecv, C!CallSend, C!CallWaitSent,
       C!Call,
       C!Check, C!PacketStarts, C!TimePasses, C!TxEnds, C!Test, C!Result, C!Clear
  <2>. QED
    BY <2>1, Switches
<1>2. CASE C!SetModeRx \/ C!sleep
           \/ (mode # "Tx" /\ C!Sent(C!SetMode("Tx", "tx") /\ UNCHANGED <<valid, buf>>))
  <2>1. /\ UNCHANGED <<out, queue, valid>> /\ pc # "clear" /\ pc' # "clear"
    BY <1>2 DEF C!SetModeRx, C!sleep, C!Sleep, C!Sent
  <2>2. mode' \in {mode, "Rx", "Idle", "Tx", "Sleep"} /\ (mode = "Tx" => mode' \in {"Idle", "Tx"})
    BY <1>2 DEF C!SetModeRx, C!sleep, C!Sleep, C!Sent
  <2>. QED
    BY <2>1, <2>2, Switches, Singles
<1>3. CASE C!Copy
  BY <1>3, Takes, Singles DEF C!Copy, C!HandOver
<1>4. CASE C!handleInterrupt
  <2>1. queue' = <<>> /\ UNCHANGED <<out, pc>>
    BY <1>4 DEF C!handleInterrupt
  <2>2. CASE Waits
    <3>1. mode = "Rx" /\ mode' = "Idle" /\ valid' /\ pc # "clear"
      BY <1>4, <2>2, Singles DEF C!handleInterrupt
    <3>. QED
      BY <2>1, <2>2, <3>1, Switches, Singles
  <2>3. CASE ~Waits
    <3>1. (valid' <=> valid) /\ mode' \in {mode, "Idle"}
      <4>1. CASE mode = "Tx"
        BY <1>4, <4>1 DEF C!handleInterrupt
      <4>2. CASE mode # "Tx"
        <5>1. queue # <<>> /\ ~valid /\ Head(queue) # "ours"
          BY <1>4, <2>3, <4>2, Singles DEF C!handleInterrupt
        <5>. QED
          BY <1>4, <4>2, <5>1 DEF C!handleInterrupt
      <4>. QED
        BY <4>1, <4>2
    <3>2. mode = "Tx" => mode' = "Idle"
      BY <1>4 DEF C!handleInterrupt
    <3>. QED
      BY <2>1, <2>3, <3>1, <3>2, Switches, Singles
  <2>. QED
    BY <2>2, <2>3
<1>5. CASE C!RxEnds(C!Kinds, "rx")
  <2>1. /\ chip = "rx" /\ air = "old"
        /\ UNCHANGED <<done, mode, valid, buf, pc, op, due, taken, out>>
        /\ \E kind \in Kinds : queue' = Append(queue, kind)
        /\ chip' = "rx"
    BY <1>5 DEF C!RxEnds, C!Receives
  <2>2. mode = "Rx" /\ ~valid /\ queue = <<>>
    BY <2>1
  <2>. QED
    BY <2>1, <2>2, Arrives, Switches, Singles
<1>. QED
  BY <1>1, <1>2, <1>3, <1>4, <1>5 DEF C!Next, C!Thread, C!available, C!recv, C!send, C!chipActs

\* RH_ASK.cpp.
LEMMA ASKBoxes ==
  ASSUME Running, driver = "ASK", pc' # "init", H!Next
  PROVE  BoxStep
<1>. USE DEF Running, ModeIsChips, Program, OneAtATime, Accounted, Waits, Held, Kinds, Dozing, Modes,
             H!Kinds, H!radio, H!thread, H!driven, H!heardOf, H!handed, H!flags, H!history, H!At,
             H!Goto,
             H!Return, H!Answer, H!Step, H!NoInterrupt, H!SetMode, H!SetChip
<1>1. CASE H!Calls \/ H!Check \/ H!PacketStarts(1) \/ H!TimePasses \/ H!TxEnds
           \/ H!Test(mode = "Tx", FALSE) \/ H!Clear(buf)
  <2>1. UNCHANGED <<mode, out, queue>> /\ Held' = Held
    BY <1>1 DEF H!Calls, H!CallAvailable, H!CallRecv, H!CallSend, H!CallWaitSent, H!Call,
       H!Check, H!PacketStarts, H!TimePasses, H!TxEnds, H!Test, H!Clear
  <2>. QED
    BY <2>1, Switches
<1>2. CASE H!SetModeRx
  <2>1. /\ UNCHANGED <<out, queue, valid>> /\ mode' = "Rx" /\ mode # "Tx"
        /\ pc # "clear" /\ pc' # "clear"
    BY <1>2 DEF H!SetModeRx
  <2>. QED
    BY <2>1, Switches
<1>3. CASE H!validateRxBuf
  <2>1. queue' = <<>> /\ UNCHANGED <<mode, out>> /\ pc # "clear" /\ pc' # "clear"
    BY <1>3 DEF H!validateRxBuf
  <2>2. valid' <=> valid \/ Waits
    BY <1>3, Singles DEF H!validateRxBuf
  <2>. QED
    BY <2>1, <2>2, Switches, Singles
<1>4. CASE H!Copy
  BY <1>4, Takes, Singles DEF H!Copy, H!HandOver
<1>5. CASE mode # "Tx" /\ H!Sent(H!SetMode("Tx", "tx") /\ UNCHANGED <<valid, buf>>)
  <2>1. UNCHANGED <<out, queue, valid>> /\ mode' \in {mode, "Tx"} /\ pc # "clear" /\ pc' # "clear"
    BY <1>5 DEF H!Sent
  <2>. QED
    BY <1>5, <2>1, Switches
<1>6. CASE H!transmitTimer
  <2>1. UNCHANGED <<out, queue, valid, pc>> /\ mode' = "Idle"
    BY <1>6 DEF H!transmitTimer
  <2>. QED
    BY <2>1, Switches
<1>7. CASE H!receiveTimer
  <2>1. /\ chip = "rx" /\ air = "old" /\ mode' = "Idle"
        /\ UNCHANGED <<done, valid, buf, pc, op, due, taken, out>>
        /\ \E kind \in Kinds : queue' = Append(queue, kind)
        /\ chip' # "sleep"
    BY <1>7 DEF H!receiveTimer, H!Receives
  <2>2. mode = "Rx" /\ ~valid /\ queue = <<>>
    BY <2>1
  <2>. QED
    BY <2>1, <2>2, Arrives, Switches, Singles
<1>. QED
  BY <1>1, <1>2, <1>3, <1>4, <1>5, <1>6, <1>7
  DEF H!Next, H!Thread, H!available, H!recv, H!send, H!chipActs

\* RH_CC110.cpp.
LEMMA CC110Boxes ==
  ASSUME CC110Runs, driver = "CC110", ~relistened', pc' # "init", B!Next
  PROVE  BoxStep
<1>. USE DEF CC110Runs, OneWaits, One, ModeIsChips, Program, Waits, Held, Kinds, Dozing, Modes,
       Accounted,
             OneAtATime,
             B!Kinds, B!radio, B!thread, B!driven, B!heardOf, B!handed, B!flags, B!history, B!At,
             B!Goto,
             B!Return, B!Answer, B!Step, B!NoInterrupt, B!SetMode, B!SetChip
<1>1. ~relistened
  BY DEF B!Next, B!Calls, B!CallSleep, B!CallAvailable, B!CallRecv, B!CallSend, B!CallWaitSent,
     B!Call, B!Thread,
     B!available, B!Test, B!SetModeRx, B!Result, B!recv, B!Copy, B!HandOver, B!Clear, B!send,
     B!Check, B!Sent, B!sleep,
     B!Sleep, B!handleInterrupt, B!chipActs, B!PacketStarts, B!TimePasses, B!RxEnds, B!Receives,
     B!TxEnds
<1>2. CASE B!Calls \/ B!CallSleep \/ B!Check \/ B!PacketStarts(1) \/ B!TimePasses \/ B!TxEnds
           \/ B!Test(mode = "Tx" \/ valid, mode # "Tx") \/ B!Result(FALSE) \/ B!Clear(<<>>)
  <2>1. UNCHANGED <<mode, out, queue>> /\ Held' = Held
    BY <1>2 DEF B!Calls, B!CallSleep, B!CallAvailable, B!CallRecv, B!CallSend, B!CallWaitSent,
       B!Call,
       B!Check, B!PacketStarts, B!TimePasses, B!TxEnds, B!Test, B!Result, B!Clear
  <2>. QED
    BY <2>1, Switches
<1>3. CASE B!SetModeRx \/ B!sleep
           \/ (B!send /\ ~B!Check)
  <2>1. /\ UNCHANGED <<out, queue, valid>> /\ pc # "clear" /\ pc' # "clear"
    BY <1>3 DEF B!SetModeRx, B!sleep, B!Sleep, B!send, B!waitPacketSent, B!Sent
  <2>2. mode' \in {mode, "Rx", "Idle", "Tx", "Sleep"} /\ (mode = "Tx" => mode' \in {"Idle", "Tx"})
    BY <1>3 DEF B!SetModeRx, B!sleep, B!Sleep, B!send, B!waitPacketSent, B!Sent
  <2>. QED
    BY <2>1, <2>2, Switches, Singles
<1>4. CASE B!Copy
  BY <1>1, <1>4, Takes, Singles DEF B!Copy, B!HandOver
<1>5. CASE B!handleInterrupt
  <2>1. queue' = <<>> /\ UNCHANGED <<out, pc>> /\ mode = "Rx" /\ ~valid
    BY <1>1, <1>5 DEF B!handleInterrupt
  <2>2. CASE Waits
    <3>1. mode' = "Idle" /\ valid' /\ pc # "clear"
      BY <1>5, <2>1, <2>2, Singles DEF B!handleInterrupt
    <3>. QED
      BY <2>1, <2>2, <3>1, Switches, Singles
  <2>3. CASE ~Waits
    <3>1. ~valid' /\ mode' = mode
      <4>1. queue # <<>> /\ Head(queue) # "ours"
        BY <1>5, <2>3, Singles DEF B!handleInterrupt
      <4>. QED
        BY <1>5, <2>1, <4>1 DEF B!handleInterrupt
    <3>. QED
      BY <2>1, <2>3, <3>1, Switches, Singles
  <2>. QED
    BY <2>2, <2>3
<1>6. CASE B!RxEnds(B!Kinds, "rx")
  <2>1. /\ chip = "rx" /\ air = "old"
        /\ UNCHANGED <<done, mode, valid, buf, pc, op, due, taken, out>>
        /\ \E kind \in Kinds : queue' = Append(queue, kind)
        /\ chip' = "rx"
    BY <1>6 DEF B!RxEnds, B!Receives
  <2>2. mode = "Rx" /\ ~valid /\ queue = <<>>
    BY <1>1, <2>1
  <2>. QED
    BY <2>1, <2>2, Arrives, Switches, Singles
<1>. QED
  BY <1>2, <1>3, <1>4, <1>5, <1>6 DEF B!Next, B!Thread, B!available, B!recv, B!send, B!chipActs

\* RH_RF22.cpp.
LEMMA RF22Boxes ==
  ASSUME RF22Runs, driver = "RF22", ~sentOver', pc' # "init", D!Next
  PROVE  BoxStep
<1>1. ~sentOver
  BY DEF D!Next, D!Calls, D!CallSleep, D!CallAvailable, D!CallRecv, D!CallSend, D!CallWaitSent,
     D!Call, D!Thread,
     D!available, D!Test, D!SetModeRx, D!Result, D!recv, D!Copy, D!HandOver, D!Clear, D!send,
     D!Check, D!Waited, D!fillTxBuf, D!startTransmit, D!sleep,
     D!Sleep, D!handleInterrupt, D!chipActs, D!PacketStarts, D!TimePasses, D!RxEnds, D!Receives,
     D!TxEnds, D!Preamble, D!FifoError,
     D!history, D!flags, D!heardOf
<1>. USE DEF RF22Runs, RF22Modes, RF22Waits, One, Program, Waits, Held, Kinds, Modes, Accounted,
             D!Kinds, D!radio, D!thread, D!driven, D!heardOf, D!handed, D!flags, D!history, D!At,
             D!Goto,
             D!Return, D!Answer, D!Step, D!NoInterrupt, D!SetMode, D!SetChip
<1>2. CASE D!Calls \/ D!CallSleep \/ D!Check \/ D!Waited \/ D!PacketStarts(1) \/ D!TimePasses \/ D!TxEnds
           \/ D!Test(valid \/ mode = "Tx", valid) \/ D!Result(valid) \/ D!Clear(<<>>)
  <2>1. UNCHANGED <<mode, out, queue>> /\ Held' = Held
    BY <1>2 DEF D!Calls, D!CallSleep, D!CallAvailable, D!CallRecv, D!CallSend, D!CallWaitSent,
       D!Call,
       D!Check, D!Waited, D!PacketStarts, D!TimePasses, D!TxEnds, D!Test, D!Result, D!Clear
  <2>. QED
    BY <2>1, Switches
<1>3. CASE D!SetModeRx \/ D!sleep \/ D!fillTxBuf
  <2>1. UNCHANGED <<out, queue, valid>> /\ pc # "clear" /\ pc' # "clear"
    BY <1>3 DEF D!SetModeRx, D!sleep, D!Sleep, D!fillTxBuf
  <2>2. mode' \in {mode, "Rx", "Sleep"} /\ (mode = "Tx" => mode' = "Tx")
    BY <1>3 DEF D!SetModeRx, D!sleep, D!Sleep, D!fillTxBuf
  <2>. QED
    BY <2>1, <2>2, Switches
<1>4. CASE D!startTransmit
  <2>1. /\ ~valid /\ ~valid' /\ UNCHANGED <<out, queue>> /\ mode' = "Tx"
        /\ pc # "clear" /\ pc' # "clear"
    BY <1>1, <1>4 DEF D!startTransmit
  <2>. QED
    BY <2>1, Switches
<1>5. CASE D!Copy
  BY <1>1, <1>5, Takes, Singles DEF D!Copy, D!HandOver
<1>6. CASE D!handleInterrupt
  <2>1. queue' = <<>> /\ queue' # <<"ours">> /\ pc # "transmit" /\ UNCHANGED <<out, pc>>
    BY <1>6, Singles DEF D!handleInterrupt
  <2>2. CASE D!PacketSent
    <3>1. queue = <<>> /\ mode' = "Idle" /\ UNCHANGED valid
      BY <2>2 DEF D!PacketSent
    <3>. QED
      BY <2>1, <3>1, Switches
  <2>3. queue # <<>> => ~valid /\ buf = <<>> /\ pc \notin {"copy", "clear"} /\ mode # "Tx"
    BY <1>1, <2>1
  <2>4. CASE D!PacketValid
    <3>1. Waits /\ queue # <<>> /\ mode' = "Idle" /\ valid'
      BY <2>4, Singles DEF D!PacketValid
    <3>. QED
      BY <2>1, <2>3, <3>1, Switches
  <2>5. CASE D!BadLength \/ D!CrcError
    <3>1. queue # <<>> /\ mode' \in {"Idle", "Rx"} /\ ~valid'
      BY <2>5, Singles DEF D!BadLength, D!CrcError
    <3>2. ~Waits
      BY <2>3, <2>5, <3>1, Singles DEF D!BadLength, D!CrcError
    <3>. QED
      BY <2>1, <2>3, <3>1, <3>2, Switches
  <2>. QED
    BY <1>6, <2>2, <2>4, <2>5 DEF D!handleInterrupt
<1>7. CASE D!RxEnds({"ours", "faulty"}, "idle")
  <2>1. /\ chip = "rx" /\ air = "old" /\ chip' = "idle"
        /\ UNCHANGED <<done, mode, valid, buf, pc, op, due, taken, out>>
        /\ \E kind \in Kinds : queue' = Append(queue, kind)
    BY <1>7 DEF D!RxEnds, D!Receives
  <2>2. mode \in {"Rx", "Sleep"} /\ ~valid /\ queue = <<>>
    BY <1>1, <2>1
  <2>. QED
    BY <2>1, <2>2, Arrives, Switches, Singles
<1>8. CASE D!Preamble \/ D!FifoError
  <2>1. UNCHANGED <<mode, out, queue, pc>> /\ (valid' => valid)
    BY <1>8 DEF D!Preamble, D!FifoError, D!Waiting
  <2>2. ~valid
    BY <1>1, <1>8 DEF D!Preamble, D!FifoError, D!Waiting
  <2>. QED
    BY <2>1, <2>2, Switches
<1>. QED
  BY <1>2, <1>3, <1>4, <1>5, <1>6, <1>7, <1>8 DEF D!Next, D!Thread, D!available, D!recv, D!send,
     D!chipActs

\* RH_RF24.cpp.
LEMMA RF24Boxes ==
  ASSUME RF24Runs, driver = "RF24", RF24Undisturbed', pc' # "init", E!Next
  PROVE  BoxStep
<1>1. RF24Undisturbed /\ ~E!invalidSync
  <2>1. sentOver => sentOver'
    BY DEF E!Next, E!Calls, E!CallSleep, E!CallAvailable, E!CallRecv, E!CallSend, E!CallWaitSent,
       E!Call, E!Thread,
       E!available, E!Test, E!SetModeRx, E!Result, E!recv, E!Copy, E!HandOver, E!Clear, E!send,
       E!Check, E!Waited, E!fillBuf, E!startTransmit, E!sleep,
       E!Sleep, E!handleInterrupt, E!chipActs, E!PacketStarts, E!TimePasses, E!RxEnds, E!Receives,
       E!TxEnds, E!invalidSync,
       E!history, E!flags, E!heardOf
  <2>2. seen \subseteq seen'
    BY DEF E!Next, E!Calls, E!CallSleep, E!CallAvailable, E!CallRecv, E!CallSend, E!CallWaitSent,
       E!Call, E!Thread,
       E!available, E!Test, E!SetModeRx, E!Result, E!recv, E!Copy, E!HandOver, E!Clear, E!send,
       E!Check, E!Waited, E!fillBuf, E!startTransmit, E!sleep,
       E!Sleep, E!handleInterrupt, E!chipActs, E!PacketStarts, E!TimePasses, E!RxEnds, E!Receives,
       E!TxEnds, E!invalidSync,
       E!history, E!flags, E!heardOf
  <2>3. ~E!invalidSync
    BY DEF E!invalidSync, RF24Undisturbed
  <2>. QED
    BY <2>1, <2>2, <2>3 DEF RF24Undisturbed
<1>2. /\ OneAtATime /\ Accounted /\ (mode = "Tx" \/ pc = "transmit" => ~valid)
      /\ (~valid /\ mode # "Tx" /\ pc # "transmit" => buf = <<>>)
  BY <1>1 DEF RF24Runs
<1>. USE DEF RF24Runs, RF24Modes, RF24Waits, RF24Undisturbed, Program, One, OneAtATime, Accounted, Waits,
             Held, Kinds, Modes,
             E!Kinds, E!radio, E!thread, E!driven, E!heardOf, E!handed, E!flags, E!history, E!At,
             E!Goto,
             E!Return, E!Answer, E!Step, E!NoInterrupt, E!SetMode, E!SetChip
<1>3. CASE E!Calls \/ E!CallSleep \/ E!Check \/ E!Waited \/ E!PacketStarts(1) \/ E!TimePasses \/ E!TxEnds
           \/ E!Test(mode = "Tx" \/ valid, mode # "Tx") \/ E!Result(valid) \/ E!Clear(<<>>)
  <2>1. UNCHANGED <<mode, out, queue>> /\ Held' = Held
    BY <1>3 DEF E!Calls, E!CallSleep, E!CallAvailable, E!CallRecv, E!CallSend, E!CallWaitSent,
       E!Call,
       E!Check, E!Waited, E!PacketStarts, E!TimePasses, E!TxEnds, E!Test, E!Result, E!Clear
  <2>. QED
    BY <2>1, Switches
<1>4. CASE E!SetModeRx \/ E!sleep \/ E!fillBuf \/ E!startTransmit
  <2>1. UNCHANGED <<out, queue, valid>> /\ pc # "clear" /\ pc' # "clear"
    BY <1>4 DEF E!SetModeRx, E!sleep, E!Sleep, E!fillBuf, E!startTransmit
  <2>2. mode' \in {mode, "Rx", "Idle", "Tx", "Sleep"} /\ (mode = "Tx" => mode' \in {"Idle", "Tx"})
    BY <1>4 DEF E!SetModeRx, E!sleep, E!Sleep, E!fillBuf, E!startTransmit
  <2>. QED
    BY <2>1, <2>2, Switches
<1>5. CASE E!Copy
  BY <1>2, <1>5, Takes, Singles DEF E!Copy, E!HandOver
<1>6. CASE E!handleInterrupt
  <2>1. queue' = <<>> /\ queue' # <<"ours">> /\ mode' = "Idle" /\ UNCHANGED <<out, pc>>
    BY <1>6, Singles DEF E!handleInterrupt
  <2>2. CASE Waits
    <3>1. /\ mode = "Rx" /\ ~valid /\ pc \notin {"copy", "clear", "transmit"}
          /\ queue # <<>> /\ Head(queue) = "ours"
      BY <1>1, <1>2, <2>2, Singles
    <3>2. buf = <<>>
      BY <1>2, <3>1
    <3>3. Len(buf) # Room /\ Head(Append(buf, Head(queue))) = "ours"
      BY <3>1, <3>2, SizesAssumption, Singles
    <3>4. valid'
      BY <1>6, <3>1, <3>3 DEF E!handleInterrupt, E!Receive
    <3>. QED
      BY <2>1, <2>2, <3>1, <3>4, Switches
  <2>3. CASE ~Waits
    <3>1. ~valid
      BY <1>1, <1>2, <1>6 DEF E!handleInterrupt
    <3>2. queue # <<>> => Head(queue) = "faulty"
      <4>1. SUFFICES ASSUME NEW kind \in Kinds, queue = <<kind>>
                     PROVE  Head(queue) = "faulty"
        OBVIOUS
      <4>2. 1 \in DOMAIN queue /\ queue[1] = kind /\ Head(queue) = kind
        BY <4>1
      <4>. QED
        BY <1>1, <2>3, <4>1, <4>2
    <3>3. ~valid'
      BY <1>6, <3>2 DEF E!handleInterrupt, E!clearBuffer
    <3>. QED
      BY <2>1, <2>3, <3>1, <3>3, Switches
  <2>. QED
    BY <2>2, <2>3
<1>7. CASE E!RxEnds(E!Kinds, "idle")
  <2>1. /\ chip = "rx" /\ air = "old" /\ chip' = "idle"
        /\ UNCHANGED <<done, mode, valid, buf, pc, op, due, taken, out>>
        /\ \E kind \in Kinds : queue' = Append(queue, kind)
    BY <1>7 DEF E!RxEnds, E!Receives
  <2>2. mode = "Rx" /\ ~valid /\ queue = <<>>
    BY <1>1, <1>2, <2>1
  <2>. QED
    BY <2>1, <2>2, Arrives, Switches, Singles
<1>. QED
  BY <1>1, <1>3, <1>4, <1>5, <1>6, <1>7
  DEF E!Next, E!Thread, E!available, E!recv, E!send, E!chipActs

\* RH_NRF51.cpp.
LEMMA NRF51Boxes ==
  ASSUME NRF51Runs, driver = "NRF51", ~sentOver', pc' # "init", G!Next
  PROVE  BoxStep
<1>1. ~sentOver
  BY DEF G!Next, G!Calls, G!CallAvailable, G!CallRecv, G!CallSend, G!CallWaitSent, G!Call,
     G!Thread, G!available,
     G!recv, G!send, G!waitPacketSent, G!chipActs, G!PacketStarts, G!TimePasses, G!RxEnds,
     G!Receives, G!TxEnds,
     G!history, G!flags
<1>. USE DEF NRF51Runs, ModeIsChips, Polling, OneWaits, One, Accounted, Waits, Held, Kinds, Dozing,
       Modes,
             G!Kinds, G!radio, G!thread, G!driven, G!heardOf, G!handed, G!flags, G!history, G!At,
             G!Goto, G!Return, G!Answer, G!SetMode, G!SetChip
<1>2. CASE G!Calls \/ G!PacketStarts(1) \/ G!TimePasses \/ G!TxEnds
  <2>1. UNCHANGED <<mode, out, queue>> /\ Held' = Held
    BY <1>2 DEF G!Calls, G!CallAvailable, G!CallRecv, G!CallSend, G!CallWaitSent, G!Call,
       G!PacketStarts, G!TimePasses, G!TxEnds
  <2>. QED
    BY <2>1, Switches
<1>3. CASE G!available
  <2>1. pc # "clear" /\ pc' # "clear" /\ UNCHANGED out
    BY <1>3 DEF G!available, G!Look
  <2>2. CASE valid \/ mode = "Tx"
    <3>1. UNCHANGED <<mode, queue, valid>>
      BY <1>3, <2>2 DEF G!available
    <3>. QED
      BY <2>1, <3>1, Switches
  <2>3. CASE ~valid /\ mode \notin {"Tx", "Rx"}
    <3>1. mode' = "Rx" /\ queue = <<>> /\ queue' = <<>> /\ UNCHANGED valid
      BY <1>3, <2>3 DEF G!available, G!Look
    <3>. QED
      BY <2>1, <2>3, <3>1, Switches
  <2>4. CASE ~valid /\ mode = "Rx" /\ Waits
    <3>1. mode' = "Idle" /\ queue' = <<>> /\ valid'
      BY <1>3, <2>4, Singles DEF G!available, G!Look
    <3>. QED
      BY <2>1, <2>4, <3>1, Switches
  <2>5. CASE ~valid /\ mode = "Rx" /\ ~Waits
    <3>1. ~(queue # <<>> /\ Head(queue) = "ours")
      BY <2>5, Singles
    <3>2. UNCHANGED <<mode, queue, valid>>
      BY <1>3, <2>5, <3>1 DEF G!available, G!Look
    <3>. QED
      BY <2>1, <3>2, Switches
  <2>. QED
    BY <2>2, <2>3, <2>4, <2>5
<1>4. CASE G!recv
  <2>1. ~Waits
    BY <1>1, <1>4, Singles DEF G!recv
  <2>2. /\ valid /\ ~valid' /\ pc # "clear" /\ pc' # "clear" /\ out' = <<"ours">>
        /\ UNCHANGED <<mode, chip, queue>>
    BY <1>1, <1>4 DEF G!recv, G!HandOver
  <2>. QED
    BY <2>1, <2>2, Takes
<1>5. CASE G!send
  <2>1. UNCHANGED out /\ mode # "Tx" /\ ~valid /\ pc' # "clear"
    BY <1>5 DEF G!send
  <2>2. CASE /\ mode' = "Tx" /\ queue' = <<>> /\ valid' = FALSE
            /\ sentOver' = (sentOver \/ valid \/ queue # <<>>)
    <3>1. queue = <<>>
      BY <2>2
    <3>. QED
      BY <2>1, <2>2, <3>1, Switches
  <2>3. CASE UNCHANGED <<mode, queue, valid>>
    BY <2>1, <2>3, Switches
  <2>. QED
    BY <1>5, <2>2, <2>3 DEF G!send
<1>6. CASE G!waitPacketSent
  <2>1. UNCHANGED <<out, queue, valid>> /\ pc # "clear" /\ pc' # "clear"
    BY <1>6 DEF G!waitPacketSent
  <2>2. mode' = IF mode = "Tx" THEN "Idle" ELSE mode
    BY <1>6 DEF G!waitPacketSent
  <2>. QED
    BY <2>1, <2>2, Switches
<1>7. CASE G!RxEnds(G!Kinds, "idle")
  <2>1. /\ chip = "rx" /\ air = "old"
        /\ UNCHANGED <<done, mode, valid, buf, pc, op, due, taken, out>>
        /\ \E kind \in Kinds : queue' = Append(queue, kind)
        /\ chip' = "idle"
    BY <1>7 DEF G!RxEnds, G!Receives
  <2>2. mode = "Rx" /\ queue = <<>>
    BY <2>1
  <2>3. ~Held
    BY <1>1, <1>7, <2>1
  <2>. QED
    BY <2>1, <2>2, <2>3, Arrives, Switches, Singles
<1>. QED
  BY <1>2, <1>3, <1>4, <1>5, <1>6, <1>7 DEF G!Next, G!Thread, G!chipActs

LEMMA WorkBoxes ==
  ASSUME Inv, driver' = driver, Work, ~Excused', driver \notin Several
  PROVE  BoxStep
<1>1. pc # "init" /\ Working /\ driver \in Names
  BY DEF Work, Inv
<1>2. CASE driver \in Sure
  <2>1. Running /\ Running'
    BY <1>1, <1>2, RF69Keeps, MRF89Keeps, ASKKeeps DEF Work, Working, Sure
  <2>2. pc' # "init"
    BY <2>1 DEF Running, Program
  <2>. QED
    BY <1>1, <1>2, <2>1, <2>2, RF69Boxes, MRF89Boxes, ASKBoxes DEF Work, Sure
<1>3. CASE driver = "CC110"
  <2>1. pc' # "init"
    BY <1>1, <1>3, CC110Keeps DEF Work, Working, CC110Runs, Program
  <2>. QED
    BY <1>1, <1>3, <2>1, CC110Boxes DEF Work, Working, Excused
<1>4. CASE driver = "RF22"
  <2>1. pc' # "init"
    BY <1>1, <1>4, RF22Keeps DEF Work, Working, RF22Runs, Program
  <2>. QED
    BY <1>1, <1>4, <2>1, RF22Boxes DEF Work, Working, Excused
<1>5. CASE driver = "RF24"
  <2>1. pc' # "init"
    BY <1>1, <1>5, RF24Keeps DEF Work, Working, RF24Runs, Program
  <2>. QED
    BY <1>1, <1>5, <2>1, RF24Boxes DEF Work, Working, Excused, RF24Undisturbed
<1>6. CASE driver = "NRF51"
  <2>1. pc' # "init"
    BY <1>1, <1>6, NRF51Keeps DEF Work, Working, NRF51Runs, Polling
  <2>. QED
    BY <1>1, <1>6, <2>1, NRF51Boxes DEF Work, Working, Excused
<1>. QED
  BY <1>1, <1>2, <1>3, <1>4, <1>5, <1>6 DEF Names, Sure, Several

\* Until init() has succeeded the mailbox is empty and the radio idle.
LEMMA StartBoxes ==
  /\ DriversInit => Box!Init
  /\ Inv /\ Initialise => BoxStep
<1>1. ASSUME Inv, Initialise
      PROVE  BoxStep
  <2>1. pc = "init" /\ mode = "Initialising" /\ valid = FALSE
    BY <1>1, InitialiseRests DEF Inv, Starting
  <2>2. /\ queue' = <<>> /\ mode' \in {"Initialising", "Idle"} /\ valid' = FALSE
        /\ UNCHANGED out
    BY <1>1, <2>1, InitialiseRests DEF history, handed
  <2>. QED
    BY <2>1, <2>2, Singles DEF BoxStep, Box!vars, Phase, Slot, Waits, Held
<1>. QED
  BY <1>1, Singles DEF DriversInit, Init, Box!Init, Phase, Slot

\* Seven of the ten drivers are mailboxes for one message, as Radio has it, until one of
\* the things happens that Excused names.
THEOREM Mailboxes == Spec => Box!Init /\ [][Excused' \/ driver \in Several \/ Box!Next]_Box!vars
<1>1. ASSUME Inv, [DriversNext]_allVars
      PROVE  [Excused' \/ driver \in Several \/ Box!Next]_Box!vars
  <2>1. CASE UNCHANGED allVars
    BY <2>1 DEF allVars, vars, radio, thread, driven, history, handed, Box!vars, Phase, Slot,
       Waits, Held
  <2>2. CASE DriversNext
    BY <1>1, <2>2, WorkBoxes, StartBoxes DEF DriversNext, BoxStep
  <2>. QED
    BY <1>1, <2>1, <2>2
<1>. QED
  BY <1>1, Always, StartBoxes, PTL DEF Spec

\* RH_RF69, RH_MRF89 and RH_ASK are mailboxes whatever happens.
THEOREM SureMailboxes == Spec /\ driver \in Sure => Box!Spec
<1>1. ASSUME [Excused' \/ driver \in Several \/ Box!Next]_Box!vars, driver \in Sure,
             [DriversNext]_allVars
      PROVE  [Box!Next]_Box!vars /\ (driver \in Sure)'
  BY <1>1 DEF DriversNext, allVars, Excused, Several, Sure
<1>. QED
  BY <1>1, Mailboxes, PTL DEF Spec, Box!Spec
=============================================================================
