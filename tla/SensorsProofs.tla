---------------------------- MODULE SensorsProofs ----------------------------
(***************************************************************************)
(* What holds of the reporting nodes for any clock and intervals that      *)
(* IntervalsAssumption admits.  The arithmetic of the clock is made linear *)
(* by two lemmas, Wrapped and Since; then each node has its own invariant, *)
(* which says how the times it keeps are related.                          *)
(***************************************************************************)
EXTENDS Sensors, Sequences, SequenceTheorems, TLAPS

Since(t) == IF now >= t THEN now - t ELSE now - t + Wrap

GpsInv ==
  /\ lastTrans \in Times /\ at \in {"loop", "readGPS"}
  /\ since <= GpsEvery + LoopDelay \/ NeverPast(lastTrans, GpsEvery, LoopDelay)
  /\ at = "loop" => /\ since <= Since(lastTrans) \/ NeverPast(lastTrans, GpsEvery, LoopDelay)
                    /\ Since(lastTrans) <= since \/ since = Long \/ lastTrans = 0
                    /\ \/ Since(lastTrans) <= GpsEvery + LoopDelay
                       \/ NeverPast(lastTrans, GpsEvery, LoopDelay)
                       \/ lastTrans = 0
  /\ at = "readGPS" => since > GpsEvery \/ lastTrans + GpsEvery >= Wrap \/ lastTrans = 0

\* Measurements are no younger than KeepFor or the last report, and not so old that
\* the clock has gone round.
ThermometerInv ==
  /\ at = "loop"
  /\ lastTrans \in Times /\ dht \in T!Dht /\ report \in T!Report
  /\ Since(lastTrans) <= since \/ since = Long
  /\ \/ NeverPast(lastTrans, ThermometerEvery, 1)
     \/ /\ since = Since(lastTrans) /\ since <= ThermometerEvery + 1
        /\ Since(dht.at) <= since + KeepFor + KeepFor + Slowest - 1
        /\ Since(dht.at) >= KeepFor \/ Since(dht.at) >= since

MagnetInv ==
  /\ lastTrans \in Times /\ lastReading \in Times /\ at \in {"loop", "sendMessage"}
  /\ {magnetStatus, input} \subseteq BOOLEAN /\ steady \in 0 .. Long
  /\ at = "loop" =>
       \/ NeverPast(lastReading, ContactEvery, 1)
       \/ /\ since = Since(lastTrans) /\ Since(lastReading) <= ContactEvery + 1
          /\ since <= BeatEvery + Since(lastReading)
          /\ magnetStatus # input => steady <= Since(lastReading) + Slowest
  /\ at = "sendMessage" =>
       /\ ~NeverPast(lastReading, ContactEvery, 1)
       /\ since <= BeatEvery + ContactEvery + 1
       /\ magnetStatus # input => steady = 0

\* What one reading may take, but for its wait for a fix.
Round == FlowEvery + LoopDelay + Slowest + LoopDelay

\* What has been counted but not read is not in the total; of the readings not reported
\* only the one at hand may have had flow.
FlowInv ==
  /\ lastReading \in Times /\ flowing \in BOOLEAN /\ at \in {"loop", "readGPS"}
  /\ pulses \in Nat /\ pulseCount = pulses % ByteSize
  /\ passed \in Nat /\ totalMilliLitres \in Nat /\ pulses <= passed
  /\ totalMilliLitres * FlowEvery <= (passed - pulseCount) * PulseVolume * Second
  /\ lastTrans \in 0 .. 2 /\ unreported \in Seq(Nat)
  /\ \A i \in 1 .. lastTrans : unreported[i] % ByteSize = 0
  /\ since <= lastTrans * Round + Round
  /\ at = "loop" => /\ Len(unreported) = lastTrans
                    /\ lastTrans # 0 => ~flowing
                    /\ since <= lastTrans * Round + Slowest + LoopDelay + Since(lastReading)
  /\ at = "readGPS" => /\ Len(unreported) = lastTrans + 1
                       /\ ~flowing => unreported[lastTrans + 1] % ByteSize = 0

Inv == /\ now \in Times /\ since \in 0 .. Long
       /\ node \in {"gps", "thermometer", "magnet", "water_flow"}
       /\ node = "gps" => GpsInv
       /\ node = "thermometer" => ThermometerInv
       /\ node = "magnet" => MagnetInv
       /\ node = "water_flow" => FlowInv
-----------------------------------------------------------------------------
\* The parameters, as the arithmetic needs them.
LEMMA Parameters ==
  /\ Wrap \in Nat \ {0} /\ Long \in 1 .. (Wrap - 1) /\ Slowest \in 1 .. Long
  /\ GpsEvery \in Nat /\ GpsEvery >= Slowest /\ GpsEvery + LoopDelay <= Long
  /\ ThermometerEvery \in Nat /\ ThermometerEvery >= Slowest
  /\ KeepFor \in 1 .. (ThermometerEvery - 1)
  /\ ThermometerEvery + KeepFor + KeepFor + Slowest <= Long
  /\ ContactEvery \in Nat /\ ContactEvery >= Slowest
  /\ BeatEvery \in Nat /\ BeatEvery > ContactEvery /\ BeatEvery + ContactEvery + 1 <= Long
  /\ FlowEvery \in Nat /\ FlowEvery >= Slowest /\ FlowEvery + LoopDelay + Slowest <= Long
  /\ LoopDelay \in 1 .. Long /\ Second \in 1 .. FlowEvery
BY WrapAssumption, SlowestAssumption, IntervalsAssumption

\* What is added to a time goes round once at most.
LEMMA Wrapped ==
  ASSUME NEW x \in 0 .. (2 * Wrap - 1)
  PROVE  x % Wrap = IF x < Wrap THEN x ELSE x - Wrap
BY WrapAssumption

LEMMA Difference ==
  ASSUME NEW a \in Times, NEW b \in Times
  PROVE  (a - b) % Wrap = IF a >= b THEN a - b ELSE a - b + Wrap
<1>1. CASE a >= b
  BY <1>1, WrapAssumption DEF Times
<1>2. CASE a < b
  BY <1>2, WrapAssumption DEF Times
<1> QED
  BY <1>1, <1>2 DEF Times

\* The clock moves on by d.
LEMMA Moved ==
  ASSUME now \in Times, NEW d \in 0 .. Long, NEW t \in Times, now' = (now + d) % Wrap
  PROVE  /\ now' \in Times /\ now' = IF now + d < Wrap THEN now + d ELSE now + d - Wrap
         /\ Since(t) \in Times
         /\ Since(t)' = IF Since(t) + d < Wrap THEN Since(t) + d ELSE Since(t) + d - Wrap
<1>1. now + d \in 0 .. (2 * Wrap - 1)
  BY Parameters DEF Times
<1>2. (now + d) % Wrap = IF now + d < Wrap THEN now + d ELSE now + d - Wrap
  BY <1>1, Wrapped, Parameters DEF Times
<1> QED
  BY <1>2, Parameters DEF Times, Since

\* The sum of a time and an interval.
LEMMA Sum ==
  ASSUME NEW t \in Times, NEW d \in 0 .. Long
  PROVE  (t + d) % Wrap = IF t + d < Wrap THEN t + d ELSE t + d - Wrap
BY Wrapped, Parameters DEF Times
LEMMA SinceNow ==
  ASSUME NEW t \in Times
  PROVE  (IF t >= t THEN t - t ELSE t - t + Wrap) = 0
BY Parameters DEF Times
-----------------------------------------------------------------------------
(* Remainders. *)

LEMMA AtLeast ==
  ASSUME NEW b \in Nat \ {0}, NEW k \in Nat \ {0}
  PROVE  b * k >= b
OBVIOUS

LEMMA Divided ==
  ASSUME NEW b \in Nat \ {0}, NEW x \in Nat
  PROVE  /\ x \div b \in Nat /\ x % b \in 0 .. (b - 1) /\ x % b <= x
         /\ x = b * (x \div b) + (x % b)
OBVIOUS

LEMMA Cancelled ==
  ASSUME NEW x \in Nat, NEW y \in Nat, NEW b \in Nat \ {0}, x * b <= y * b
  PROVE  x <= y
<1>1. SUFFICES ASSUME x > y PROVE FALSE
  OBVIOUS
<1>2. b * (x - y) >= b
  BY <1>1, AtLeast
<1>3. b * (x - y) = x * b - y * b /\ x * b \in Int /\ y * b \in Int
  OBVIOUS
<1> QED
  BY <1>2, <1>3

LEMMA OneRemainder ==
  ASSUME NEW b \in Nat \ {0}, NEW q \in Nat, NEW r \in 0 .. (b - 1),
         NEW p \in Nat, NEW s \in 0 .. (b - 1), b * q + r = b * p + s
  PROVE  r = s
<1>1. b * p \in Int /\ b * q \in Int
  OBVIOUS
<1>2. CASE q < p
  <2>1. b * (p - q) >= b
    BY <1>2, AtLeast
  <2>2. b * (p - q) = b * p - b * q
    OBVIOUS
  <2> QED
    BY <1>1, <2>1, <2>2
<1>3. CASE q > p
  <2>1. b * (q - p) >= b
    BY <1>3, AtLeast
  <2>2. b * (q - p) = b * q - b * p
    OBVIOUS
  <2> QED
    BY <1>1, <2>1, <2>2
<1>4. CASE q = p
  BY <1>1, <1>4
<1> QED
  BY <1>2, <1>3, <1>4

LEMMA Remainder ==
  ASSUME NEW b \in Nat \ {0}, NEW q \in Nat, NEW r \in 0 .. (b - 1)
  PROVE  (b * q + r) % b = r
<1> DEFINE x == b * q + r
<1>1. x \in Nat
  OBVIOUS
<1>2. x \div b \in Nat /\ x % b \in 0 .. (b - 1) /\ x = b * (x \div b) + (x % b)
  <2> HIDE DEF x
  <2> QED
    BY <1>1, Divided
<1> QED
  BY <1>2, OneRemainder

\* A counter that wraps counts what has come modulo its size.
LEMMA Successor ==
  ASSUME NEW b \in Nat \ {0}, NEW x \in Nat
  PROVE  ((x % b) + 1) % b = (x + 1) % b
<1> DEFINE r == x % b
           q == x \div b
<1>1. q \in Nat /\ r \in 0 .. (b - 1) /\ x = b * q + r
  BY Divided
<1>2. b * q \in Nat
  BY <1>1
<1>3. CASE r + 1 < b
  <2>1. x + 1 = b * q + (r + 1) /\ r + 1 \in 0 .. (b - 1)
    <3> HIDE DEF r, q
    <3> QED
      BY <1>1, <1>2, <1>3
  <2>2. (x + 1) % b = r + 1
    <3> HIDE DEF r, q
    <3> QED
      BY <1>1, <2>1, Remainder
  <2>3. (r + 1) % b = r + 1
    BY <2>1
  <2> QED
    BY <2>2, <2>3
<1>4. CASE r + 1 = b
  <2>1. x + 1 = b * (q + 1) + 0
    <3>1. b * (q + 1) = b * q + b
      BY <1>1
    <3> HIDE DEF r, q
    <3> QED
      BY <1>1, <1>2, <1>4, <3>1
  <2>2. (b * (q + 1) + 0) % b = 0
    BY <1>1, Remainder
  <2>3. (r + 1) % b = 0
    BY <1>4
  <2> QED
    BY <2>1, <2>2, <2>3
<1> QED
  BY <1>1, <1>3, <1>4
-----------------------------------------------------------------------------
(* gps *)

\* A report that is not due, and one that is, in the clock's own terms.
LEMMA GpsDue ==
  ASSUME now \in Times, GpsInv, at = "loop"
  PROVE  /\ ~G!Due => \/ Since(lastTrans) <= GpsEvery
                      \/ NeverPast(lastTrans, GpsEvery, LoopDelay)
         /\ G!Due => Since(lastTrans) > GpsEvery \/ lastTrans + GpsEvery >= Wrap
<1>1. (lastTrans + GpsEvery) % Wrap = IF lastTrans + GpsEvery < Wrap THEN lastTrans + GpsEvery
                                      ELSE lastTrans + GpsEvery - Wrap
  BY Sum, Parameters DEF GpsInv
<1>2. G!Due <=> now > (lastTrans + GpsEvery) % Wrap
  BY DEF G!Due, G!Past, G!After
<1>3. CASE lastTrans + GpsEvery >= Wrap
  BY <1>1, <1>2, <1>3, Parameters DEF GpsInv, Times, Since
<1>4. CASE lastTrans + GpsEvery < Wrap
  <2>1. G!Due <=> now > lastTrans + GpsEvery
    BY <1>1, <1>2, <1>4
  <2>2. NeverPast(lastTrans, GpsEvery, LoopDelay) \/ lastTrans + GpsEvery < Wrap - LoopDelay
    BY <1>4, Parameters DEF GpsInv, NeverPast, Times
  <2> QED
    BY <1>4, <2>1, <2>2, Parameters DEF GpsInv, Times, Since
<1> QED
  BY <1>3, <1>4, Parameters DEF GpsInv, Times

LEMMA GpsWait ==
  ASSUME now \in Times, since \in 0 .. Long, GpsInv, G!Wait
  PROVE  now' \in Times /\ since' \in 0 .. Long /\ GpsInv'
<1> USE DEF GpsInv
<1>1. /\ now' = (now + LoopDelay) % Wrap /\ lastTrans' = lastTrans /\ at = "loop" /\ at' = at
      /\ since' = IF since + LoopDelay < Long THEN since + LoopDelay ELSE Long
      /\ ~G!Due
  BY DEF G!Wait, G!After, G!Capped
<1>2. LoopDelay \in 0 .. Long
  BY Parameters
<1>3. /\ now' \in Times /\ Since(lastTrans) \in Times
      /\ Since(lastTrans)' = IF Since(lastTrans) + LoopDelay < Wrap THEN Since(lastTrans) + LoopDelay
                             ELSE Since(lastTrans) + LoopDelay - Wrap
  BY <1>1, <1>2, Moved, Zenon
<1>4. since' \in 0 .. Long
  BY <1>1, Parameters
<1>5. Since(lastTrans)' <= since' \/ since' = Long \/ lastTrans' = 0
  BY <1>1, <1>3, Parameters DEF Times
<1>6. ASSUME ~NeverPast(lastTrans, GpsEvery, LoopDelay)
      PROVE  /\ since' <= Since(lastTrans)' /\ since' <= GpsEvery + LoopDelay
             /\ Since(lastTrans)' <= GpsEvery + LoopDelay
  <2>1. Since(lastTrans) <= GpsEvery
    BY <1>1, <1>6, GpsDue
  <2> QED
    BY <1>1, <1>3, <1>6, <2>1, Parameters DEF Times
<1>7. NeverPast(lastTrans, GpsEvery, LoopDelay)' = NeverPast(lastTrans, GpsEvery, LoopDelay)
  BY <1>1 DEF NeverPast
<1> QED
  BY <1>1, <1>3, <1>4, <1>5, <1>6, <1>7

LEMMA GpsReadGPS ==
  ASSUME now \in Times, since \in 0 .. Long, GpsInv, G!ReadGPS
  PROVE  now' \in Times /\ since' \in 0 .. Long /\ GpsInv'
<1>1. /\ at = "loop" /\ G!Due /\ at' = "readGPS" /\ now' = now /\ lastTrans' = lastTrans
      /\ since' = since
  BY DEF G!ReadGPS
<1>2. since > GpsEvery \/ lastTrans + GpsEvery >= Wrap \/ lastTrans = 0
  BY <1>1, GpsDue, Parameters DEF GpsInv, Since, Times
<1> QED
  BY <1>1, <1>2 DEF GpsInv, NeverPast

\* However long a fix takes, and however often the clock goes round meanwhile.
LEMMA GpsNoFix ==
  ASSUME now \in Times, since \in 0 .. Long, GpsInv, G!NoFix
  PROVE  now' \in Times /\ since' \in 0 .. Long /\ GpsInv'
<1>1. /\ at = "readGPS" /\ at' = at /\ now' = (now + 1) % Wrap /\ lastTrans' = lastTrans
      /\ since' = since
  BY DEF G!NoFix, G!After
<1>2. now' \in Times
  BY <1>1, Moved, Parameters
<1> QED
  BY <1>1, <1>2 DEF GpsInv, NeverPast

LEMMA GpsReport ==
  ASSUME now \in Times, since \in 0 .. Long, GpsInv, G!Report
  PROVE  now' \in Times /\ since' \in 0 .. Long /\ GpsInv'
<1>1. PICK d \in 1 .. Slowest : /\ lastTrans' = (now + d) % Wrap
                                /\ now' = (now + (d + LoopDelay)) % Wrap
                                /\ since' = LoopDelay /\ at' = "loop"
  BY DEF G!Report, G!After, G!SendTimes
<1>2. d \in 0 .. Long /\ d + LoopDelay \in 0 .. Long
  BY Parameters
<1>3. /\ lastTrans' = IF now + d < Wrap THEN now + d ELSE now + d - Wrap
      /\ now' = IF now + (d + LoopDelay) < Wrap THEN now + (d + LoopDelay)
                ELSE now + (d + LoopDelay) - Wrap
  BY <1>1, <1>2, Sum
<1>4. now' \in Times /\ lastTrans' \in Times /\ Since(lastTrans)' = LoopDelay
  BY <1>2, <1>3, Parameters DEF Times, Since
<1> QED
  BY <1>1, <1>4, Parameters DEF GpsInv

\* A report that is due without a sum that has wrapped comes after the interval.
LEMMA GpsApart ==
  ASSUME GpsInv
  PROVE  G!ReportsApart
BY DEF GpsInv, G!Report, G!ReportsApart, G!SumWraps

-----------------------------------------------------------------------------
(* thermometer *)

LEMMA ThermometerWait ==
  ASSUME now \in Times, since \in 0 .. Long, ThermometerInv, T!Wait
  PROVE  now' \in Times /\ since' \in 0 .. Long /\ ThermometerInv'
<1> USE DEF ThermometerInv
<1>1. /\ now' = (now + 1) % Wrap /\ lastTrans' = lastTrans /\ dht' = dht /\ report' = report
      /\ at' = at
      /\ since' = IF since + 1 < Long THEN since + 1 ELSE Long
      /\ ~(now > (lastTrans + ThermometerEvery) % Wrap)
  BY DEF T!Wait, T!After, T!Capped, T!Due, T!Past
<1>2. 1 \in 0 .. Long /\ ThermometerEvery \in 0 .. Long /\ dht.at \in Times
  BY Parameters DEF T!Dht, T!Times, Times
<1>3. /\ now' \in Times /\ Since(lastTrans) \in Times /\ Since(dht.at) \in Times
      /\ Since(lastTrans)' = IF Since(lastTrans) + 1 < Wrap THEN Since(lastTrans) + 1
                             ELSE Since(lastTrans) + 1 - Wrap
      /\ Since(dht.at)' = IF Since(dht.at) + 1 < Wrap THEN Since(dht.at) + 1
                          ELSE Since(dht.at) + 1 - Wrap
  <2>1. \A t \in Times : /\ now' \in Times /\ Since(t) \in Times
                         /\ (IF now' >= t THEN now' - t ELSE now' - t + Wrap) =
                              IF Since(t) + 1 < Wrap THEN Since(t) + 1 ELSE Since(t) + 1 - Wrap
    BY <1>1, <1>2, Moved DEF Since
  <2> QED
    BY <1>1, <1>2, <2>1 DEF Since
<1>4. since' \in 0 .. Long
  BY <1>1, Parameters
<1>5. Since(lastTrans)' <= since' \/ since' = Long
  BY <1>1, <1>3, Parameters DEF Times
<1>6. ASSUME ~NeverPast(lastTrans, ThermometerEvery, 1)
      PROVE  /\ since' = Since(lastTrans)' /\ since' <= ThermometerEvery + 1
             /\ Since(dht.at)' <= since' + KeepFor + KeepFor + Slowest - 1
             /\ Since(dht.at)' >= KeepFor \/ Since(dht.at)' >= since'
  <2>1. Since(lastTrans) <= ThermometerEvery
    <3>1. (lastTrans + ThermometerEvery) % Wrap =
            IF lastTrans + ThermometerEvery < Wrap THEN lastTrans + ThermometerEvery
            ELSE lastTrans + ThermometerEvery - Wrap
      BY <1>2, Sum
    <3>2. CASE lastTrans + ThermometerEvery >= Wrap
      BY <1>1, <3>1, <3>2, Parameters DEF Times, Since
    <3>3. CASE lastTrans + ThermometerEvery < Wrap
      <4>1. lastTrans + ThermometerEvery < Wrap - 1
        BY <1>6, <3>3, Parameters DEF NeverPast, Times
      <4> QED
        BY <1>1, <1>6, <3>1, <3>3, <4>1, Parameters DEF Times, Since
    <3> QED
      BY <3>2, <3>3, Parameters DEF Times
  <2>2. since' = since + 1 /\ Since(lastTrans)' = Since(lastTrans) + 1
    BY <1>1, <1>3, <1>6, <2>1, Parameters DEF Times
  <2>3. Since(dht.at)' = Since(dht.at) + 1
    BY <1>3, <1>6, <2>1, Parameters DEF Times
  <2> QED
    BY <1>3, <1>6, <2>1, <2>2, <2>3, Parameters DEF Times
<1>7. NeverPast(lastTrans, ThermometerEvery, 1)' = NeverPast(lastTrans, ThermometerEvery, 1)
  BY <1>1 DEF NeverPast
<1> QED
  BY <1>1, <1>3, <1>4, <1>5, <1>6, <1>7

\* What read() leaves: the measurement there was, or a new one.
LEMMA ReadIs ==
  ASSUME NEW s \in T!Dht, NEW t \in Times, NEW u \in T!Read(s, t)
  PROVE  /\ u \in T!Dht
         /\ \/ u = s /\ (t - s.at) % Wrap < KeepFor
            \/ u.at = t /\ ~((t - s.at) % Wrap < KeepFor)
<1>1. (s.data + 1) % 3 \in 0 .. 2
  BY DEF T!Dht, T!Data
<1>2. CASE (t - s.at) % Wrap < KeepFor
  BY <1>2 DEF T!Read
<1>3. CASE ~((t - s.at) % Wrap < KeepFor)
  BY <1>1, <1>3 DEF T!Read, T!Dht, T!Data, T!Times, Times
<1> QED
  BY <1>2, <1>3

LEMMA ThermometerSend ==
  ASSUME now \in Times, since \in 0 .. Long, ThermometerInv, T!Send
  PROVE  now' \in Times /\ since' \in 0 .. Long /\ ThermometerInv'
<1> USE DEF ThermometerInv
<1>1. PICK e \in 0 .. (KeepFor - 1), d \in 1 .. Slowest :
        \E a \in T!Read(dht, now) : \E b \in T!Read(a, (now + e) % Wrap) :
          /\ dht' = b
          /\ report' = [temperature |-> T!Value(a), humidity |-> T!Value(b)]
          /\ now' = (now + (e + d)) % Wrap
          /\ lastTrans' = now' /\ since' = 0 /\ at' = at
  BY DEF T!Send, T!After, T!SendTimes, T!ReadTimes
<1>2. /\ e \in 0 .. Long /\ d \in 0 .. Long /\ e + d \in 0 .. Long
      /\ e + d <= KeepFor + Slowest - 1
  BY Parameters
<1>3. now' = IF now + (e + d) < Wrap THEN now + (e + d) ELSE now + (e + d) - Wrap
  BY <1>1, <1>2, Sum
<1>4. (now + e) % Wrap = IF now + e < Wrap THEN now + e ELSE now + e - Wrap
  BY <1>2, Sum
<1>5. now' \in Times /\ (now + e) % Wrap \in Times
  BY <1>2, <1>3, <1>4, Parameters DEF Times
<1>6. PICK a \in T!Read(dht, now) : \E b \in T!Read(a, (now + e) % Wrap) :
          /\ dht' = b
          /\ report' = [temperature |-> T!Value(a), humidity |-> T!Value(b)]
  BY <1>1
<1>7. /\ dht' \in T!Read(a, (now + e) % Wrap)
      /\ report' = [temperature |-> T!Value(a), humidity |-> T!Value(dht')]
  BY <1>6
<1>8. /\ a \in T!Dht
      /\ \/ a = dht /\ (now - dht.at) % Wrap < KeepFor
         \/ a.at = now
  BY <1>6, ReadIs
<1>9. /\ dht' \in T!Dht
      /\ dht' = a \/ dht'.at = (now + e) % Wrap
  BY <1>5, <1>7, <1>8, ReadIs
<1>10. report' \in T!Report
  BY <1>7, <1>8, <1>9 DEF T!Report, T!Value, T!Dht
<1>11. Since(dht.at)' <= KeepFor + KeepFor + Slowest - 1 /\ Since(dht.at)' >= 0
  <2>1. CASE dht'.at = (now + e) % Wrap
    BY <1>2, <1>3, <1>4, <2>1, Parameters DEF Times, Since
  <2>2. CASE dht' = a /\ a.at = now
    BY <1>2, <1>3, <2>2, Parameters DEF Times, Since
  <2>3. CASE dht' = dht /\ (now - dht.at) % Wrap < KeepFor
    <3>1. dht.at \in Times
      BY DEF T!Dht, T!Times, Times
    <3>2. (now - dht.at) % Wrap = IF now >= dht.at THEN now - dht.at ELSE now - dht.at + Wrap
      BY <3>1, Difference
    <3> QED
      BY <1>2, <1>3, <2>3, <3>1, <3>2, Parameters DEF Times, Since
  <2> QED
    BY <1>8, <1>9, <2>1, <2>2, <2>3
<1>12. lastTrans' \in Times /\ Since(lastTrans)' = 0 /\ since' = 0 /\ at' = at
  BY <1>1, <1>5, Parameters DEF Times, Since
<1> QED
  BY <1>5, <1>9, <1>10, <1>11, <1>12, Parameters

LEMMA ThermometerApart ==
  ASSUME now \in Times, since \in 0 .. Long, ThermometerInv, T!Send,
         ~(lastTrans + ThermometerEvery >= Wrap)
  PROVE  since > ThermometerEvery /\ since <= ThermometerEvery + 1 /\ since = Since(lastTrans)
         /\ ~NeverPast(lastTrans, ThermometerEvery, 1)
<1>1. now > (lastTrans + ThermometerEvery) % Wrap
  BY DEF T!Send, T!Due, T!Past, T!After
<1>2. lastTrans \in Times /\ ThermometerEvery \in 0 .. Long
  BY Parameters DEF ThermometerInv
<1>3. (lastTrans + ThermometerEvery) % Wrap =
        IF lastTrans + ThermometerEvery < Wrap THEN lastTrans + ThermometerEvery
        ELSE lastTrans + ThermometerEvery - Wrap
  BY <1>2, Sum
<1>4. now > lastTrans + ThermometerEvery
  BY <1>1, <1>2, <1>3, Parameters DEF Times
<1>5. ~NeverPast(lastTrans, ThermometerEvery, 1)
  BY <1>2, <1>4, Parameters DEF NeverPast, Times
<1> QED
  BY <1>2, <1>4, <1>5, Parameters DEF ThermometerInv, Since, Times

\* When no sum wraps, the last measurement is too old to be used again.
LEMMA OneMeasurement ==
  ASSUME now \in Times, since \in 0 .. Long, ThermometerInv, T!Send,
         ~(lastTrans + ThermometerEvery >= Wrap)
  PROVE  report'.temperature = report'.humidity
<1>1. PICK e \in 0 .. (KeepFor - 1), d \in 1 .. Slowest :
        \E a \in T!Read(dht, now) : \E b \in T!Read(a, (now + e) % Wrap) :
          /\ dht' = b
          /\ report' = [temperature |-> T!Value(a), humidity |-> T!Value(b)]
  BY DEF T!Send, T!After, T!SendTimes, T!ReadTimes
<1>2. PICK a \in T!Read(dht, now) : \E b \in T!Read(a, (now + e) % Wrap) :
          report' = [temperature |-> T!Value(a), humidity |-> T!Value(b)]
  BY <1>1
<1>3. PICK b \in T!Read(a, (now + e) % Wrap) :
          report' = [temperature |-> T!Value(a), humidity |-> T!Value(b)]
  BY <1>2
<1>4. dht \in T!Dht /\ dht.at \in Times
  BY DEF ThermometerInv, T!Dht, T!Times, Times
<1>5. ~((now - dht.at) % Wrap < KeepFor)
  <2>1. (now - dht.at) % Wrap = Since(dht.at)
    BY <1>4, Difference DEF Since
  <2>2. Since(dht.at) >= KeepFor
    BY <1>4, ThermometerApart, Parameters DEF ThermometerInv, Since, Times
  <2> QED
    BY <1>4, <2>1, <2>2, Parameters DEF Since, Times
<1>6. a \in T!Dht /\ a.at = now
  BY <1>2, <1>4, <1>5, ReadIs
<1>7. (now + e) % Wrap \in Times /\ (((now + e) % Wrap) - a.at) % Wrap < KeepFor
  <2>1. (now + e) % Wrap = IF now + e < Wrap THEN now + e ELSE now + e - Wrap
    BY Sum, Parameters
  <2>2. (now + e) % Wrap \in Times
    BY <2>1, Parameters DEF Times
  <2>3. (((now + e) % Wrap) - now) % Wrap =
          IF (now + e) % Wrap >= now THEN ((now + e) % Wrap) - now
          ELSE ((now + e) % Wrap) - now + Wrap
    BY <2>2, Difference
  <2> QED
    BY <1>6, <2>1, <2>2, <2>3, Parameters DEF Times
<1>8. b = a
  BY <1>3, <1>7 DEF T!Read
<1> QED
  BY <1>3, <1>8

-----------------------------------------------------------------------------
(* magnet *)

\* A reading that is due has a sum that the clock has passed.
LEMMA MagnetDue ==
  ASSUME now \in Times, MagnetInv, M!Due
  PROVE  ~NeverPast(lastReading, ContactEvery, 1)
<1>1. lastReading \in Times /\ ContactEvery \in 0 .. Long
  BY Parameters DEF MagnetInv
<1>2. (lastReading + ContactEvery) % Wrap =
        IF lastReading + ContactEvery < Wrap THEN lastReading + ContactEvery
        ELSE lastReading + ContactEvery - Wrap
  BY <1>1, Sum
<1>3. now > (lastReading + ContactEvery) % Wrap
  BY DEF M!Due, M!Past, M!After
<1> QED
  BY <1>1, <1>2, <1>3, Parameters DEF NeverPast, Times

\* The time since the last report, as readSensor() works it out.
LEMMA MagnetElapsed ==
  ASSUME now \in Times, MagnetInv
  PROVE  M!Elapsed(lastTrans) = Since(lastTrans)
BY Difference DEF M!Elapsed, Since, MagnetInv

LEMMA MagnetInputChanges ==
  ASSUME now \in Times, since \in 0 .. Long, MagnetInv, M!InputChanges
  PROVE  now' \in Times /\ since' \in 0 .. Long /\ MagnetInv'
<1>1. /\ now' = now /\ lastTrans' = lastTrans /\ since' = since /\ lastReading' = lastReading
      /\ at' = at /\ magnetStatus' = magnetStatus /\ input' = ~input /\ steady' = 0
  BY DEF M!InputChanges
<1>2. Since(lastReading) + Slowest >= 0 /\ 0 \in 0 .. Long /\ input' \in BOOLEAN
  BY <1>1, Parameters DEF Since, MagnetInv, Times
<1>3. Since(lastReading)' = Since(lastReading) /\ Since(lastTrans)' = Since(lastTrans)
  BY <1>1 DEF Since
<1> QED
  BY <1>1, <1>2, <1>3 DEF MagnetInv, NeverPast

\* The clock moves on without a report; since the last reading or from this one.
LEMMA MagnetTick ==
  ASSUME now \in Times, since \in 0 .. Long, MagnetInv,
         now' = (now + 1) % Wrap, lastTrans' = lastTrans, input' = input,
         since' = (IF since + 1 < Long THEN since + 1 ELSE Long),
         steady' = (IF steady + 1 < Long THEN steady + 1 ELSE Long),
         magnetStatus' = magnetStatus
  PROVE  /\ now' \in Times /\ since' \in 0 .. Long /\ steady' \in 0 .. Long
         /\ \A t \in Times : /\ Since(t) \in Times
                             /\ (IF now' >= t THEN now' - t ELSE now' - t + Wrap) =
                                  IF Since(t) + 1 < Wrap THEN Since(t) + 1
                                  ELSE Since(t) + 1 - Wrap
<1>1. 1 \in 0 .. Long
  BY Parameters
<1>2. now' \in Times
  BY <1>1, Moved
<1> QED
  BY <1>1, <1>2, Moved, Parameters DEF Since, MagnetInv

LEMMA MagnetWait ==
  ASSUME now \in Times, since \in 0 .. Long, MagnetInv, M!Wait
  PROVE  now' \in Times /\ since' \in 0 .. Long /\ MagnetInv'
<1> USE DEF MagnetInv
<1>1. /\ now' = (now + 1) % Wrap /\ lastTrans' = lastTrans /\ lastReading' = lastReading
      /\ at = "loop" /\ at' = at
      /\ since' = (IF since + 1 < Long THEN since + 1 ELSE Long)
      /\ steady' = (IF steady + 1 < Long THEN steady + 1 ELSE Long)
      /\ magnetStatus' = magnetStatus /\ input' = input
      /\ ~(now > (lastReading + ContactEvery) % Wrap)
  BY DEF M!Wait, M!After, M!Capped, M!Due, M!Past
<1>2. /\ now' \in Times /\ since' \in 0 .. Long /\ steady' \in 0 .. Long
      /\ \A t \in Times : /\ Since(t) \in Times
                          /\ (IF now' >= t THEN now' - t ELSE now' - t + Wrap) =
                               IF Since(t) + 1 < Wrap THEN Since(t) + 1 ELSE Since(t) + 1 - Wrap
  BY <1>1, MagnetTick
<1>3. /\ Since(lastReading) \in Times /\ Since(lastTrans) \in Times
      /\ Since(lastReading)' = IF Since(lastReading) + 1 < Wrap THEN Since(lastReading) + 1
                               ELSE Since(lastReading) + 1 - Wrap
      /\ Since(lastTrans)' = IF Since(lastTrans) + 1 < Wrap THEN Since(lastTrans) + 1
                             ELSE Since(lastTrans) + 1 - Wrap
  BY <1>1, <1>2 DEF Since
<1>4. ASSUME ~NeverPast(lastReading, ContactEvery, 1)
      PROVE  /\ since' = Since(lastTrans)' /\ Since(lastReading)' <= ContactEvery + 1
             /\ since' <= BeatEvery + Since(lastReading)'
             /\ magnetStatus' # input' => steady' <= Since(lastReading)' + Slowest
  <2>1. Since(lastReading) <= ContactEvery
    <3>1. (lastReading + ContactEvery) % Wrap =
            IF lastReading + ContactEvery < Wrap THEN lastReading + ContactEvery
            ELSE lastReading + ContactEvery - Wrap
      BY Sum, Parameters
    <3>2. CASE lastReading + ContactEvery >= Wrap
      BY <1>1, <3>1, <3>2, Parameters DEF Times, Since
    <3>3. CASE lastReading + ContactEvery < Wrap
      <4>1. lastReading + ContactEvery < Wrap - 1
        BY <1>4, <3>3, Parameters DEF NeverPast, Times
      <4> QED
        BY <1>1, <1>4, <3>1, <3>3, <4>1, Parameters DEF Times, Since
    <3> QED
      BY <3>2, <3>3, Parameters DEF Times
  <2>2. Since(lastReading)' = Since(lastReading) + 1
    BY <1>3, <2>1, Parameters DEF Times
  <2>3. since' = since + 1 /\ Since(lastTrans)' = Since(lastTrans) + 1
    BY <1>1, <1>3, <1>4, <2>1, Parameters DEF Times
  <2>4. steady' <= steady + 1
    BY <1>1, Parameters
  <2> QED
    BY <1>1, <1>3, <1>4, <2>1, <2>2, <2>3, <2>4, Parameters DEF Times
<1>5. NeverPast(lastReading, ContactEvery, 1)' = NeverPast(lastReading, ContactEvery, 1)
  BY <1>1 DEF NeverPast
<1> QED
  BY <1>1, <1>2, <1>4, <1>5

LEMMA MagnetReadOnly ==
  ASSUME now \in Times, since \in 0 .. Long, MagnetInv, M!ReadOnly
  PROVE  now' \in Times /\ since' \in 0 .. Long /\ MagnetInv'
<1> USE DEF MagnetInv
<1>1. /\ now' = (now + 1) % Wrap /\ lastTrans' = lastTrans /\ lastReading' = now
      /\ at = "loop" /\ at' = at
      /\ since' = (IF since + 1 < Long THEN since + 1 ELSE Long)
      /\ steady' = (IF steady + 1 < Long THEN steady + 1 ELSE Long)
      /\ magnetStatus' = magnetStatus /\ input' = input /\ M!Due
      /\ ~(magnetStatus # input \/ M!Elapsed(lastTrans) > BeatEvery)
  BY DEF M!ReadOnly, M!After, M!Capped, M!ToReport
<1>2. /\ now' \in Times /\ since' \in 0 .. Long /\ steady' \in 0 .. Long
      /\ \A t \in Times : /\ Since(t) \in Times
                          /\ (IF now' >= t THEN now' - t ELSE now' - t + Wrap) =
                               IF Since(t) + 1 < Wrap THEN Since(t) + 1 ELSE Since(t) + 1 - Wrap
  BY <1>1, MagnetTick
<1>3. /\ Since(lastTrans) \in Times
      /\ Since(lastTrans)' = IF Since(lastTrans) + 1 < Wrap THEN Since(lastTrans) + 1
                             ELSE Since(lastTrans) + 1 - Wrap
  BY <1>1, <1>2 DEF Since
<1>4. Since(lastReading)' = 1
  <2>1. Since(now) = 0
    BY DEF Since, Times
  <2>2. 1 < Wrap
    BY Parameters
  <2> QED
    BY <1>1, <1>2, <2>1, <2>2 DEF Since
<1>5. ~NeverPast(lastReading, ContactEvery, 1)
  BY <1>1, MagnetDue
<1>6. since = Since(lastTrans) /\ Since(lastTrans) <= BeatEvery
  BY <1>1, <1>3, <1>5, MagnetElapsed, Parameters DEF Times
<1>7. since' = since + 1 /\ Since(lastTrans)' = since + 1
  BY <1>1, <1>3, <1>6, Parameters DEF Times
<1> QED
  BY <1>1, <1>2, <1>4, <1>6, <1>7, Parameters

LEMMA MagnetReport ==
  ASSUME now \in Times, since \in 0 .. Long, MagnetInv, M!Report
  PROVE  now' \in Times /\ since' \in 0 .. Long /\ MagnetInv'
<1>1. /\ at = "loop" /\ M!Due /\ at' = "sendMessage" /\ magnetStatus' = input /\ input' = input
      /\ now' = now /\ lastTrans' = lastTrans /\ since' = since /\ lastReading' = lastReading
      /\ steady' = steady
  BY DEF M!Report
<1>2. ~NeverPast(lastReading, ContactEvery, 1)
  BY <1>1, MagnetDue
<1>3. since <= BeatEvery + ContactEvery + 1
  BY <1>1, <1>2, Parameters DEF MagnetInv, Since, Times
<1>4. NeverPast(lastReading, ContactEvery, 1)' = NeverPast(lastReading, ContactEvery, 1)
  BY <1>1 DEF NeverPast
<1> QED
  BY <1>1, <1>2, <1>3, <1>4 DEF MagnetInv

\* An input that has changed since it was read has been as it is for no longer than
\* the report took.
LEMMA MagnetSent ==
  ASSUME now \in Times, since \in 0 .. Long, MagnetInv, M!Sent
  PROVE  now' \in Times /\ since' \in 0 .. Long /\ MagnetInv'
<1>1. PICK d \in 1 .. Slowest : /\ now' = (now + d) % Wrap
                                /\ steady' = IF steady + d < Long THEN steady + d ELSE Long
  BY DEF M!Sent, M!After, M!Capped, M!SendTimes
<1>2. /\ lastTrans' = now' /\ lastReading' = now' /\ since' = 0
      /\ magnetStatus' = magnetStatus /\ input' = input
      /\ at = "sendMessage" /\ at' = "loop"
  BY DEF M!Sent
<1>3. (now + d) % Wrap = IF now + d < Wrap THEN now + d ELSE now + d - Wrap
  BY Sum, Parameters
<1>4. /\ now' \in Times /\ steady' \in 0 .. Long
      /\ magnetStatus # input => steady' <= Slowest
  BY <1>1, <1>2, <1>3, Parameters DEF MagnetInv, Times
<1>5. Since(lastTrans)' = 0 /\ Since(lastReading)' = 0
  BY <1>2, <1>4, SinceNow DEF Since
<1> QED
  BY <1>2, <1>4, <1>5, Parameters DEF MagnetInv

LEMMA MagnetApart ==
  ASSUME now \in Times, since \in 0 .. Long, MagnetInv
  PROVE  M!ReportsApart
<1>1. SUFFICES ASSUME M!Report, ~(magnetStatus' # magnetStatus) PROVE since > BeatEvery
  BY DEF M!ReportsApart
<1>2. at = "loop" /\ M!Due /\ M!Elapsed(lastTrans) > BeatEvery
  BY <1>1 DEF M!Report, M!ToReport
<1> QED
  BY <1>2, MagnetDue, MagnetElapsed DEF MagnetInv

-----------------------------------------------------------------------------
(* water_flow *)

LEMMA MeterParameters ==
  /\ PulseVolume \in Nat /\ ByteSize \in Nat \ {0} /\ FullTotal \in Nat /\ MaxPassed \in Nat
  /\ PulseVolume * Second \in Nat
BY MeterAssumption, Parameters

\* What the pulses of a second would be worth, and that it grows with them.
LEMMA Worth ==
  ASSUME NEW x \in Nat, NEW y \in Nat, x <= y
  PROVE  /\ x * PulseVolume * Second \in Nat /\ y * PulseVolume * Second \in Nat
         /\ x * PulseVolume * Second <= y * PulseVolume * Second
<1>1. PulseVolume \in Nat /\ Second \in Nat
  BY MeterParameters, Parameters
<1>2. x * PulseVolume \in Nat /\ y * PulseVolume \in Nat /\ x * PulseVolume <= y * PulseVolume
  BY <1>1
<1> QED
  BY <1>1, <1>2

LEMMA WorthAdds ==
  ASSUME NEW x \in Nat, NEW y \in Nat
  PROVE  x * PulseVolume * Second + y * PulseVolume * Second = (x + y) * PulseVolume * Second
<1>1. PulseVolume \in Nat /\ Second \in Nat
  BY MeterParameters, Parameters
<1>2. x * PulseVolume + y * PulseVolume = (x + y) * PulseVolume
  BY <1>1
<1> QED
  BY <1>1, <1>2

\* A quotient times what is no more than the divisor.
LEMMA Quotient ==
  ASSUME NEW a \in Nat, NEW e \in Nat \ {0}, NEW r \in Nat, r <= e
  PROVE  a \div e \in Nat /\ (a \div e) * r <= a
OBVIOUS

\* The volume that readFlow() adds to the total is no more than its share.
LEMMA FlowedShare ==
  ASSUME now \in Times, FlowInv, F!ReadDue
  PROVE  /\ F!Flowed \in Nat
         /\ F!Flowed * FlowEvery <= pulseCount * PulseVolume * Second
<1>1. F!Elapsed(lastReading) = Since(lastReading)
  BY Difference DEF FlowInv, F!Elapsed, Since
<1>2. Since(lastReading) \in Nat \ {0} /\ FlowEvery <= Since(lastReading) /\ FlowEvery \in Nat
  BY <1>1, Parameters DEF FlowInv, F!ReadDue, Since, Times
<1>3. pulseCount * PulseVolume * Second \in Nat
  BY Worth, MeterParameters DEF FlowInv
<1> QED
  BY <1>1, <1>2, <1>3, Quotient DEF F!Flowed

\* The byte is what the pulses leave of it.
LEMMA Count ==
  ASSUME FlowInv
  PROVE  /\ pulseCount \in 0 .. (ByteSize - 1) /\ pulseCount <= pulses
         /\ passed - pulseCount \in Nat
<1>1. ByteSize \in Nat \ {0} /\ pulses \in Nat /\ passed \in Nat /\ pulses <= passed
  BY MeterParameters DEF FlowInv
<1>2. pulseCount = pulses % ByteSize
  BY DEF FlowInv
<1>3. pulseCount \in 0 .. (ByteSize - 1) /\ pulseCount <= pulses
  BY <1>1, <1>2, Divided
<1> QED
  BY <1>1, <1>3

LEMMA FlowPulse ==
  ASSUME now \in Times, since \in 0 .. Long, FlowInv, F!pulseCounter
  PROVE  now' \in Times /\ since' \in 0 .. Long /\ FlowInv'
<1>1. /\ pulseCount' = (pulseCount + 1) % ByteSize /\ passed' = passed + 1
      /\ pulses' = pulses + 1
      /\ now' = now /\ lastTrans' = lastTrans /\ since' = since /\ lastReading' = lastReading
      /\ flowing' = flowing /\ totalMilliLitres' = totalMilliLitres /\ unreported' = unreported
      /\ at' = at
  BY DEF F!pulseCounter
<1>2. pulseCount' = pulses' % ByteSize /\ pulses' \in Nat /\ pulses' <= passed'
  <2>1. ByteSize \in Nat \ {0} /\ pulses \in Nat /\ passed \in Nat /\ pulses <= passed
    BY MeterParameters DEF FlowInv
  <2>2. pulseCount = pulses % ByteSize
    BY DEF FlowInv
  <2>3. ((pulses % ByteSize) + 1) % ByteSize = (pulses + 1) % ByteSize
    BY <2>1, Successor
  <2> QED
    BY <1>1, <2>1, <2>2, <2>3
<1>3. pulseCount' \in Nat /\ pulseCount' <= pulseCount + 1
  <2>1. pulseCount \in 0 .. (ByteSize - 1)
    BY Count
  <2>2. CASE pulseCount + 1 < ByteSize
    BY <1>1, <2>1, <2>2, MeterParameters
  <2>3. CASE pulseCount + 1 = ByteSize
    BY <1>1, <2>1, <2>3, MeterParameters
  <2> QED
    BY <2>1, <2>2, <2>3, MeterParameters
<1>4. /\ passed' \in Nat /\ passed - pulseCount \in Nat /\ passed' - pulseCount' \in Nat
      /\ passed - pulseCount <= passed' - pulseCount'
  <2>1. passed \in Nat /\ pulses \in Nat /\ pulses <= passed
    BY DEF FlowInv
  <2>2. pulseCount \in Nat /\ pulseCount <= pulses
    BY Count, MeterParameters
  <2> QED
    BY <1>1, <1>3, <2>1, <2>2
<1>5. totalMilliLitres' * FlowEvery <= (passed' - pulseCount') * PulseVolume * Second
  <2>1. totalMilliLitres * FlowEvery \in Nat
    BY Parameters DEF FlowInv
  <2>2. (passed - pulseCount) * PulseVolume * Second
          <= (passed' - pulseCount') * PulseVolume * Second
    BY <1>4, Worth
  <2>3. /\ (passed - pulseCount) * PulseVolume * Second \in Nat
        /\ (passed' - pulseCount') * PulseVolume * Second \in Nat
    BY <1>4, Worth
  <2>4. totalMilliLitres * FlowEvery <= (passed - pulseCount) * PulseVolume * Second
    BY DEF FlowInv
  <2> QED
    BY <1>1, <2>1, <2>2, <2>3, <2>4
<1>6. Since(lastReading)' = Since(lastReading)
  BY <1>1 DEF Since
<1> QED
  BY <1>1, <1>2, <1>4, <1>5, <1>6 DEF FlowInv, Round

LEMMA FlowRead ==
  ASSUME now \in Times, FlowInv, F!ReadDue, NEW missed \in {0, 1}, F!readFlow(missed)
  PROVE  /\ pulseCount' = 0 /\ lastReading' = now /\ passed' \in Nat /\ totalMilliLitres' \in Nat
         /\ flowing' = (pulseCount > 0)
         /\ totalMilliLitres' * FlowEvery <= (passed' - pulseCount') * PulseVolume * Second
<1> DEFINE added == F!Flowed
           base == IF totalMilliLitres > FullTotal THEN 0 ELSE totalMilliLitres
           before == IF totalMilliLitres > FullTotal THEN pulses ELSE passed
<1>1. /\ pulseCount' = 0 /\ lastReading' = now /\ flowing' = (pulseCount > 0)
      /\ totalMilliLitres' = base + added /\ passed' = before + missed
  BY DEF F!readFlow
<1>2. added \in Nat /\ added * FlowEvery <= pulseCount * PulseVolume * Second
  BY FlowedShare
<1>3. /\ base \in Nat /\ before \in Nat /\ passed' \in Nat /\ before <= passed'
      /\ pulseCount \in Nat /\ before - pulseCount \in Nat
  <2>1. pulses \in Nat /\ passed \in Nat /\ totalMilliLitres \in Nat /\ pulses <= passed
    BY DEF FlowInv
  <2>2. pulseCount \in Nat /\ pulseCount <= pulses
    BY Count, MeterParameters
  <2> QED
    BY <1>1, <2>1, <2>2
<1>4. base * FlowEvery <= (before - pulseCount) * PulseVolume * Second
  <2>1. CASE totalMilliLitres > FullTotal
    BY <1>3, <2>1, Worth, Parameters
  <2>2. CASE ~(totalMilliLitres > FullTotal)
    BY <2>2 DEF FlowInv
  <2> QED
    BY <2>1, <2>2
<1>5. (before - pulseCount) * PulseVolume * Second + pulseCount * PulseVolume * Second
        = before * PulseVolume * Second
  <2> HIDE DEF before
  <2>1. (before - pulseCount) + pulseCount = before
    BY <1>3
  <2> QED
    BY <1>3, <2>1, WorthAdds
<1>6. before * PulseVolume * Second <= passed' * PulseVolume * Second
  BY <1>3, Worth
<1>7. /\ (before - pulseCount) * PulseVolume * Second \in Nat
      /\ pulseCount * PulseVolume * Second \in Nat
      /\ before * PulseVolume * Second \in Nat /\ passed' * PulseVolume * Second \in Nat
  BY <1>3, Worth
<1>8. (base + added) * FlowEvery = base * FlowEvery + added * FlowEvery
      /\ base * FlowEvery \in Nat /\ added * FlowEvery \in Nat
  <2> HIDE DEF base, added
  <2> QED
    BY <1>2, <1>3, Parameters
<1>9. (base + added) * FlowEvery <= passed' * PulseVolume * Second
  <2> HIDE DEF base, added, before
  <2> QED
    BY <1>2, <1>4, <1>5, <1>6, <1>7, <1>8
<1>10. passed' - pulseCount' = passed'
  BY <1>1, <1>3
<1> QED
  BY <1>1, <1>2, <1>3, <1>9, <1>10

LEMMA RoundIsNat == Round \in Nat
BY Parameters DEF Round

LEMMA FlowReading ==
  ASSUME now \in Times, since \in 0 .. Long, FlowInv, F!Reading
  PROVE  now' \in Times /\ since' \in 0 .. Long /\ FlowInv'
<1>1. PICK missed \in {0, 1} : F!ReadDue /\ F!readFlow(missed)
  BY DEF F!Reading
<1>2. /\ at = "loop" /\ at' = "readGPS" /\ pulses' = 0 /\ unreported' = Append(unreported, pulses)
      /\ now' = now /\ lastTrans' = lastTrans /\ since' = since
  BY DEF F!Reading
<1>3. /\ pulseCount' = 0 /\ lastReading' = now /\ passed' \in Nat /\ totalMilliLitres' \in Nat
      /\ flowing' = (pulseCount > 0)
      /\ totalMilliLitres' * FlowEvery <= (passed' - pulseCount') * PulseVolume * Second
  BY <1>1, FlowRead
<1>4. flowing' \in BOOLEAN
  <2>1. (pulseCount > 0) \in BOOLEAN
    OBVIOUS
  <2> QED
    BY <1>3, <2>1, Zenon
<1>5. pulseCount' = pulses' % ByteSize
  BY <1>2, <1>3, MeterParameters
<1>6. /\ unreported' \in Seq(Nat) /\ Len(unreported') = lastTrans' + 1
      /\ unreported'[lastTrans' + 1] = pulses
      /\ \A i \in 1 .. lastTrans' : unreported'[i] = unreported[i]
  <2>1. unreported \in Seq(Nat) /\ pulses \in Nat /\ Len(unreported) = lastTrans
    BY <1>2 DEF FlowInv
  <2> QED
    BY <1>2, <2>1, AppendProperties
<1>7. \A i \in 1 .. lastTrans' : unreported'[i] % ByteSize = 0
  BY <1>2, <1>6 DEF FlowInv
<1>8. ~flowing' => unreported'[lastTrans' + 1] % ByteSize = 0
  <2>1. SUFFICES ASSUME ~flowing' PROVE pulseCount = 0
    BY <1>6 DEF FlowInv
  <2>2. ~(pulseCount > 0)
    BY <1>3, <2>1, Zenon
  <2> QED
    BY <2>2, Count, MeterParameters
<1> QED
  BY <1>2, <1>3, <1>4, <1>5, <1>6, <1>7, <1>8 DEF FlowInv, Round

LEMMA FlowAwaitFix ==
  ASSUME now \in Times, since \in 0 .. Long, FlowInv, F!AwaitFix
  PROVE  now' \in Times /\ since' \in 0 .. Long /\ FlowInv'
<1>1. /\ at = "readGPS" /\ at' = at /\ now' = (now + 1) % Wrap /\ lastTrans' = lastTrans
      /\ since' = since /\ lastReading' = lastReading /\ pulseCount' = pulseCount
      /\ flowing' = flowing /\ totalMilliLitres' = totalMilliLitres /\ passed' = passed
      /\ pulses' = pulses /\ unreported' = unreported
  BY DEF F!AwaitFix, F!NoFix, F!After
<1>2. now' \in Times
  BY <1>1, Moved, Parameters
<1> QED
  BY <1>1, <1>2 DEF FlowInv, Round

LEMMA FlowSent ==
  ASSUME now \in Times, since \in 0 .. Long, FlowInv, F!readAndSend
  PROVE  now' \in Times /\ since' \in 0 .. Long /\ FlowInv'
<1>1. PICK d \in 1 .. Slowest : /\ IF F!ToReport THEN F!Report ELSE F!Withhold(d)
                                /\ now' = (now + (d + LoopDelay)) % Wrap
  BY DEF F!readAndSend, F!SendTimes, F!After
<1>2. /\ at = "readGPS" /\ at' = "loop" /\ lastReading' = lastReading /\ pulseCount' = pulseCount
      /\ flowing' = flowing /\ totalMilliLitres' = totalMilliLitres /\ passed' = passed
      /\ pulses' = pulses
  BY DEF F!readAndSend
<1>3. d + LoopDelay \in 0 .. Long /\ lastReading \in Times
  BY Parameters DEF FlowInv
<1>4. now' \in Times
  BY <1>1, <1>3, Moved
<1>5. Since(lastReading)' \in Nat
  <2>1. ASSUME NEW n \in Times PROVE (IF n >= lastReading THEN n - lastReading
                                     ELSE n - lastReading + Wrap) \in Nat
    BY <1>3, Parameters DEF Times
  <2> QED
    BY <1>2, <1>4, <2>1 DEF Since
<1>6. CASE F!ToReport
  <2>1. lastTrans' = 0 /\ unreported' = <<>> /\ since' = LoopDelay
    BY <1>1, <1>6 DEF F!Report
  <2>2. unreported' \in Seq(Nat) /\ Len(unreported') = 0
    BY <2>1
  <2>3. lastTrans' * Round' = 0 /\ since' \in 0 .. Long /\ LoopDelay <= Round'
    BY <2>1, Parameters DEF Round
  <2> QED
    BY <1>2, <1>4, <1>5, <2>1, <2>2, <2>3, RoundIsNat, Parameters DEF FlowInv, Round
<1>7. CASE ~F!ToReport
  <2>1. /\ lastTrans' = lastTrans + 1 /\ unreported' = unreported
        /\ since' = IF since + d + LoopDelay < Long THEN since + d + LoopDelay ELSE Long
    BY <1>1, <1>7 DEF F!Withhold, F!Capped
  <2>2. ~flowing /\ lastTrans \in {0, 1}
    BY <1>7 DEF F!ToReport, FlowInv
  <2>3. lastTrans' \in 0 .. 2 /\ \A i \in 1 .. lastTrans' : unreported'[i] % ByteSize = 0
    BY <1>2, <2>1, <2>2 DEF FlowInv
  <2>4. since' <= lastTrans' * Round + Slowest + LoopDelay /\ since' \in 0 .. Long
    <3>1. since <= lastTrans * Round + Round
      BY DEF FlowInv
    <3>2. lastTrans' * Round = lastTrans * Round + Round /\ lastTrans * Round \in Nat
      BY <2>1, <2>2, RoundIsNat
    <3> QED
      BY <2>1, <3>1, <3>2, RoundIsNat, Parameters
  <2>5. since' <= lastTrans' * Round + Round
    <3>1. Slowest + LoopDelay <= Round
      BY Parameters DEF Round
    <3>2. lastTrans' * Round \in Nat
      <4>1. \A n \in Nat : n * Round \in Nat
        BY RoundIsNat
      <4>2. lastTrans' \in Nat
        BY <2>3
      <4> QED
        BY <4>1, <4>2, Zenon
    <3> QED
      BY <2>4, <3>1, <3>2, RoundIsNat, Parameters
  <2>6. since' <= lastTrans' * Round + Slowest + LoopDelay + Since(lastReading)'
    <3>1. lastTrans' * Round \in Nat
      <4>1. \A n \in Nat : n * Round \in Nat
        BY RoundIsNat
      <4>2. lastTrans' \in Nat
        BY <2>3
      <4> QED
        BY <4>1, <4>2, Zenon
    <3> QED
      BY <1>5, <2>4, <3>1, Parameters
  <2>7. Round' = Round
    BY DEF Round
  <2> QED
    BY <1>2, <1>4, <2>1, <2>2, <2>3, <2>4, <2>5, <2>6, <2>7 DEF FlowInv
<1> QED
  BY <1>6, <1>7

LEMMA FlowNoReading ==
  ASSUME now \in Times, since \in 0 .. Long, FlowInv, F!NoReading
  PROVE  now' \in Times /\ since' \in 0 .. Long /\ FlowInv'
<1>1. /\ now' = (now + LoopDelay) % Wrap /\ lastReading' = lastReading
      /\ since' = IF since + LoopDelay < Long THEN since + LoopDelay ELSE Long
      /\ lastTrans' = (IF flowing \/ lastTrans > 2 THEN 0 ELSE lastTrans)
      /\ ~(F!Elapsed(lastReading) > FlowEvery) /\ at = "loop" /\ at' = at
  BY DEF F!NoReading, F!After, F!Capped, F!ReadDue
<1>2. /\ pulseCount' = pulseCount /\ flowing' = flowing /\ passed' = passed
      /\ pulses' = pulses
      /\ totalMilliLitres' = totalMilliLitres /\ unreported' = unreported
  BY DEF F!NoReading
<1>3. lastTrans' = lastTrans /\ lastTrans \in 0 .. 2
  BY <1>1 DEF FlowInv
<1>4. lastReading \in Times /\ Since(lastReading) <= FlowEvery
  <2>1. lastReading \in Times
    BY DEF FlowInv
  <2>2. F!Elapsed(lastReading) = Since(lastReading)
    BY <2>1, Difference DEF F!Elapsed, Since
  <2> QED
    BY <1>1, <2>1, <2>2, Parameters DEF Since, Times
<1>5. /\ now' \in Times /\ Since(lastReading) \in Times
      /\ Since(lastReading)' = IF Since(lastReading) + LoopDelay < Wrap
                               THEN Since(lastReading) + LoopDelay
                               ELSE Since(lastReading) + LoopDelay - Wrap
  <2>1. LoopDelay \in 0 .. Long
    BY Parameters
  <2>2. /\ now' \in Times /\ Since(lastReading) \in Times
        /\ (IF now' >= lastReading THEN now' - lastReading ELSE now' - lastReading + Wrap) =
             IF Since(lastReading) + LoopDelay < Wrap THEN Since(lastReading) + LoopDelay
             ELSE Since(lastReading) + LoopDelay - Wrap
    BY <1>1, <1>4, <2>1, Moved DEF Since
  <2> QED
    BY <1>1, <2>2 DEF Since
<1>6. Since(lastReading)' = Since(lastReading) + LoopDelay
  BY <1>4, <1>5, Parameters DEF Times
<1>7. since' \in 0 .. Long /\ since' <= since + LoopDelay
  BY <1>1, Parameters
<1>8. /\ since' <= lastTrans' * Round + Slowest + LoopDelay + Since(lastReading)'
      /\ since' <= lastTrans' * Round + Round
  <2>1. since <= lastTrans * Round + Slowest + LoopDelay + Since(lastReading)
    BY <1>1 DEF FlowInv
  <2>2. lastTrans' * Round = lastTrans * Round /\ lastTrans * Round \in Nat
    BY <1>3, RoundIsNat
  <2>3. since' <= lastTrans * Round + Slowest + LoopDelay + Since(lastReading)'
    BY <1>5, <1>6, <1>7, <2>1, <2>2, Parameters DEF Times
  <2>4. Slowest + LoopDelay + Since(lastReading)' <= Round
    BY <1>4, <1>5, <1>6, Parameters DEF Round, Times
  <2> QED
    BY <1>5, <1>6, <1>7, <2>2, <2>3, <2>4, RoundIsNat, Parameters DEF Times
<1>9. Round' = Round
  BY DEF Round
<1> QED
  BY <1>1, <1>2, <1>3, <1>5, <1>7, <1>8, <1>9 DEF FlowInv

-----------------------------------------------------------------------------
(* Every node *)

LEMMA InitInv == Init => Inv
<1> SUFFICES ASSUME Init PROVE Inv
  OBVIOUS
<1>1. lastTrans = 0 /\ at = "loop" /\ node \in {"gps", "thermometer", "magnet", "water_flow"}
  BY DEF Init, G!Init, T!Init, M!Init, F!Init
<1>2. now \in Times /\ 0 \in Times /\ since \in 0 .. Long
  BY Parameters DEF Init, G!Init, T!Init, M!Init, F!Init, T!SendTimes, M!SendTimes,
                    G!Times, F!Times, Times
<1>3. Since(0) = now
  BY <1>2 DEF Since, Times
<1>4. CASE node = "gps"
  <2>1. since = 0
    BY <1>4 DEF Init, G!Init
  <2> QED
    BY <1>1, <1>2, <1>3, <1>4, <2>1, Parameters DEF Inv, GpsInv, Times
<1>5. CASE node = "thermometer"
  <2>1. /\ dht = [at |-> (now - KeepFor) % Wrap, good |-> FALSE, data |-> 0]
        /\ report = [temperature |-> NaN, humidity |-> NaN]
        /\ now \in 1 .. Slowest /\ since = now
    BY <1>5 DEF Init, T!Init, T!SendTimes
  <2>2. (now - KeepFor) % Wrap = IF now >= KeepFor THEN now - KeepFor ELSE now - KeepFor + Wrap
    BY <1>2, Difference, Parameters DEF Times
  <2>3. dht.at \in Times /\ Since(dht.at) = KeepFor
    BY <1>2, <2>1, <2>2, Parameters DEF Times, Since
  <2>4. dht \in T!Dht /\ report \in T!Report
    BY <2>1, <2>3 DEF T!Dht, T!Report, T!Data, T!Times, Times
  <2> QED
    BY <1>1, <1>2, <1>3, <1>5, <2>1, <2>3, <2>4, Parameters DEF Inv, ThermometerInv
<1>6. CASE node = "magnet"
  <2>1. /\ lastReading = 0 /\ magnetStatus = FALSE /\ input \in BOOLEAN /\ steady = now
        /\ now \in 1 .. Slowest /\ since = now
    BY <1>6 DEF Init, M!Init, M!SendTimes
  <2>2. {magnetStatus, input} \subseteq BOOLEAN
    BY <2>1
  <2>3. /\ steady \in 0 .. Long /\ steady <= Since(0) + Slowest /\ since = Since(0)
        /\ Since(0) <= ContactEvery + 1 /\ since <= BeatEvery + Since(0)
    BY <1>1, <1>2, <1>3, <2>1, Parameters
  <2>4. MagnetInv
    <3> HIDE DEF Since, NeverPast
    <3> QED
      BY <1>1, <1>2, <2>1, <2>2, <2>3 DEF MagnetInv
  <2> QED
    BY <1>1, <1>2, <1>6, <2>4 DEF Inv
<1>7. CASE node = "water_flow"
  <2>1. /\ lastReading = 0 /\ pulseCount = 0 /\ flowing = FALSE /\ totalMilliLitres = 0
        /\ passed = 0 /\ pulses = 0 /\ unreported = <<>> /\ since = 0
    BY <1>7 DEF Init, F!Init
  <2>2. totalMilliLitres * FlowEvery <= (passed - pulseCount) * PulseVolume * Second
    BY <2>1, Worth, MeterParameters, Parameters
  <2>3. pulseCount = pulses % ByteSize /\ unreported \in Seq(Nat) /\ Len(unreported) = 0
    BY <2>1, MeterParameters
  <2>4. flowing \in BOOLEAN /\ ~flowing
    BY <2>1, Zenon
  <2>5. /\ passed \in Nat /\ totalMilliLitres \in Nat /\ pulses \in Nat /\ pulses <= passed
        /\ lastReading \in Times
    BY <1>2, <2>1
  <2>6. /\ since <= lastTrans * Round + Round
        /\ since <= lastTrans * Round + Slowest + LoopDelay + Since(lastReading)
    BY <1>1, <1>2, <1>3, <2>1, RoundIsNat, Parameters DEF Times
  <2>7. FlowInv
    <3> HIDE DEF Since
    <3> QED
      BY <1>1, <2>2, <2>3, <2>4, <2>5, <2>6 DEF FlowInv
  <2> QED
    BY <1>1, <1>2, <1>7, <2>7 DEF Inv
<1> QED
  BY <1>1, <1>4, <1>5, <1>6, <1>7

LEMMA StepInv == Inv /\ [Next]_vars => Inv'
<1> SUFFICES ASSUME Inv, [Next]_vars PROVE Inv'
  OBVIOUS
<1>1. now \in Times /\ since \in 0 .. Long
  BY DEF Inv
<1>2. CASE UNCHANGED vars
  BY <1>2 DEF vars, thermometer, magnet, meter, Inv, GpsInv, ThermometerInv, MagnetInv,
              FlowInv, Round, Since, NeverPast
<1>3. CASE Next /\ node = "gps"
  <2>1. GpsInv /\ G!Next /\ node' = "gps"
    BY <1>3 DEF Inv, Next
  <2>2. now' \in Times /\ since' \in 0 .. Long /\ GpsInv'
    BY <1>1, <2>1, GpsReadGPS, GpsNoFix, GpsWait, GpsReport DEF G!Next
  <2> QED
    BY <2>1, <2>2 DEF Inv
<1>4. CASE Next /\ node = "thermometer"
  <2>1. ThermometerInv /\ T!Next /\ node' = "thermometer"
    BY <1>4 DEF Inv, Next
  <2>2. now' \in Times /\ since' \in 0 .. Long /\ ThermometerInv'
    BY <1>1, <2>1, ThermometerWait, ThermometerSend DEF T!Next
  <2> QED
    BY <2>1, <2>2 DEF Inv
<1>5. CASE Next /\ node = "magnet"
  <2>1. MagnetInv /\ M!Next /\ node' = "magnet"
    BY <1>5 DEF Inv, Next
  <2>2. now' \in Times /\ since' \in 0 .. Long /\ MagnetInv'
    BY <1>1, <2>1, MagnetInputChanges, MagnetReport, MagnetSent, MagnetReadOnly, MagnetWait DEF M!Next
  <2> QED
    BY <2>1, <2>2 DEF Inv
<1>6. CASE Next /\ node = "water_flow"
  <2>1. FlowInv /\ F!Next /\ node' = "water_flow"
    BY <1>6 DEF Inv, Next
  <2>2. now' \in Times /\ since' \in 0 .. Long /\ FlowInv'
    BY <1>1, <2>1, FlowPulse, FlowReading, FlowAwaitFix, FlowSent, FlowNoReading DEF F!Next
  <2> QED
    BY <2>1, <2>2 DEF Inv
<1> QED
  BY <1>2, <1>3, <1>4, <1>5, <1>6 DEF Inv

LEMMA AlwaysInv == Spec => []Inv
BY InitInv, StepInv, PTL DEF Spec

-----------------------------------------------------------------------------
\* The variables of the node at hand have their types, whatever the clock's width.
THEOREM TypeCorrect == Spec => []TypeOK
<1>1. Inv => TypeOK
  <2> SUFFICES ASSUME Inv PROVE TypeOK
    OBVIOUS
  <2>1. CASE node = "water_flow"
    BY <2>1, Count DEF Inv, TypeOK, FlowInv
  <2>2. CASE node # "water_flow"
    BY <2>2, Parameters DEF Inv, TypeOK, GpsInv, ThermometerInv, MagnetInv
  <2> QED
    BY <2>1, <2>2
<1> QED
  BY <1>1, AlwaysInv, PTL

\* Every node reports at its interval, or its sum is one of the clock's last values:
\* the flow meter, which subtracts, within three readings and their reports.  No
\* bound is put on the waits for a fix, which are not counted: a report is late by as
\* much as they take.
THEOREM InTime == Spec => []ReportsInTime
<1>1. Inv => ReportsInTime
  <2> SUFFICES ASSUME Inv PROVE ReportsInTime
    OBVIOUS
  <2>1. node = "gps" => G!ReportsInTime
    BY DEF Inv, GpsInv, G!ReportsInTime, NeverPast, G!NeverPast
  <2>2. node = "thermometer" => T!ReportsInTime
    BY DEF Inv, ThermometerInv, T!ReportsInTime, NeverPast, T!NeverPast
  <2>3. node = "magnet" => M!ReportsInTime
    <3> SUFFICES ASSUME node = "magnet", ~NeverPast(lastReading, ContactEvery, 1)
                 PROVE  since <= BeatEvery + ContactEvery + 1
      BY DEF M!ReportsInTime, M!Stuck, NeverPast, M!NeverPast
    <3> QED
      BY Parameters DEF Inv, MagnetInv, Since, Times
  <2>4. node = "water_flow" => F!ReportsInTime
    <3> SUFFICES ASSUME node = "water_flow" PROVE F!ReportsInTime
      OBVIOUS
    <3>1. lastTrans \in 0 .. 2 /\ since \in Int /\ since <= lastTrans * Round + Round
      BY DEF Inv, FlowInv
    <3>2. since <= 3 * Round
      BY <3>1, RoundIsNat
    <3> QED
      BY <3>2 DEF F!ReportsInTime, Round
  <2> QED
    BY <2>1, <2>2, <2>3, <2>4 DEF ReportsInTime
<1> QED
  BY <1>1, AlwaysInv, PTL

\* Reports are an interval apart, unless a sum has wrapped and the clock has not, or
\* the report is the first.
THEOREM Apart == Spec => ReportsApart
<1> DEFINE A == /\ node = "gps" => G!ReportsApart
                /\ node = "thermometer" => T!ReportsApart
                /\ node = "magnet" => M!ReportsApart
<1>1. Inv /\ [Next]_vars => [A]_vars
  <2> SUFFICES ASSUME Inv PROVE A
    OBVIOUS
  <2>1. node = "gps" => G!ReportsApart
    BY GpsApart DEF Inv
  <2>2. node = "thermometer" => T!ReportsApart
    BY ThermometerApart DEF Inv, T!ReportsApart, T!SumWraps
  <2>3. node = "magnet" => M!ReportsApart
    BY MagnetApart DEF Inv
  <2> QED
    BY <2>1, <2>2, <2>3
<1> QED
  BY <1>1, AlwaysInv, PTL DEF Spec, ReportsApart

\* A contact that stays as it is for longer than a transmission and the interval
\* between readings is reported as it is, even if it changed during a transmission;
\* unless nothing is read any more (Stuck).
THEOREM Changes == Spec => []ChangesReported
<1>1. Inv => ChangesReported
  <2> SUFFICES ASSUME Inv, node = "magnet", steady > ContactEvery + Slowest + 1,
                      magnetStatus # input, ~NeverPast(lastReading, ContactEvery, 1)
               PROVE  FALSE
    BY DEF ChangesReported, M!ChangesReported, M!Stuck, M!NeverPast, NeverPast
  <2>1. CASE at = "loop"
    <3>1. steady <= Since(lastReading) + Slowest /\ Since(lastReading) <= ContactEvery + 1
      BY <2>1 DEF Inv, MagnetInv
    <3> QED
      BY <3>1, Parameters DEF Inv, MagnetInv, Since, Times
  <2>2. CASE at = "sendMessage"
    BY <2>2, Parameters DEF Inv, MagnetInv
  <2> QED
    BY <2>1, <2>2 DEF Inv, MagnetInv
<1> QED
  BY <1>1, AlwaysInv, PTL

\* The values of a report come from one measurement, unless a sum has wrapped.
THEOREM MeasuredOnce == Spec => SameMeasurement
<1> DEFINE A == node = "thermometer" => T!SameMeasurement
<1>1. Inv /\ [Next]_vars => [A]_vars
  <2> SUFFICES ASSUME Inv, node = "thermometer" PROVE T!SameMeasurement
    OBVIOUS
  <2> QED
    BY OneMeasurement DEF Inv, T!SameMeasurement, T!SumWraps
<1> QED
  BY <1>1, AlwaysInv, PTL DEF Spec, SameMeasurement

\* No more than two readings are withheld, and none in which water flowed but those
\* whose pulses fill their byte a whole number of times.
THEOREM Flow == Spec => []FlowReported
<1>1. Inv => FlowReported
  <2> SUFFICES ASSUME Inv, node = "water_flow", at = "loop"
               PROVE  /\ Len(unreported) <= 2
                      /\ \A i \in DOMAIN unreported : unreported[i] % ByteSize = 0
    BY DEF FlowReported, F!FlowReported
  <2>1. /\ unreported \in Seq(Nat) /\ Len(unreported) = lastTrans /\ lastTrans \in 0 .. 2
        /\ \A i \in 1 .. lastTrans : unreported[i] % ByteSize = 0
    BY DEF Inv, FlowInv
  <2> QED
    BY <2>1
<1> QED
  BY <1>1, AlwaysInv, PTL

\* No pulse adds to the total twice: it is no more than what has passed.
THEOREM NotOverstated == Spec => []TotalNotOverstated
<1>1. Inv => TotalNotOverstated
  <2> SUFFICES ASSUME Inv, node = "water_flow"
               PROVE  totalMilliLitres <= passed * PulseVolume
    BY DEF TotalNotOverstated, F!TotalNotOverstated
  <2>1. /\ passed \in Nat /\ passed - pulseCount \in Nat /\ passed - pulseCount <= passed
        /\ totalMilliLitres \in Nat
        /\ totalMilliLitres * FlowEvery <= (passed - pulseCount) * PulseVolume * Second
    BY Count, MeterParameters DEF Inv, FlowInv
  <2>2. /\ (passed - pulseCount) * PulseVolume * Second <= passed * PulseVolume * Second
        /\ (passed - pulseCount) * PulseVolume * Second \in Nat
        /\ passed * PulseVolume * Second \in Nat /\ passed * PulseVolume \in Nat
    BY <2>1, Worth, MeterParameters
  <2>3. totalMilliLitres * FlowEvery \in Nat /\ totalMilliLitres * Second \in Nat
        /\ totalMilliLitres * Second <= totalMilliLitres * FlowEvery
    BY <2>1, Parameters
  <2>4. totalMilliLitres * Second <= (passed * PulseVolume) * Second
    BY <2>1, <2>2, <2>3
  <2> QED
    BY <2>1, <2>2, <2>4, Cancelled, Parameters
<1> QED
  BY <1>1, AlwaysInv, PTL
=============================================================================
