----------------------------- MODULE Thermometer -----------------------------
(***************************************************************************)
(* thermometer.ino, and of the DHT library the measurement that is kept    *)
(* for two seconds, from which both values of a report come.               *)
(***************************************************************************)
EXTENDS Millis

CONSTANTS ReportEvery,   \* 30000
          KeepFor,       \* MIN_INTERVAL of DHT.cpp
          NaN

\* Measurements are told apart from those before and after.
Data == 0 .. 2

\* From one reading of the sensor to the next in a report: less than is kept.
ReadTimes == 0 .. (KeepFor - 1)

VARIABLES dht,           \* _lastreadtime, _lastresult and data
          report         \* the temperature and humidity last reported

vars == <<now, lastTrans, at, since, dht, report>>

Dht == [at : Times, good : BOOLEAN, data : Data]
Report == [temperature : Data \cup {NaN}, humidity : Data \cup {NaN}]

\* begin() dates the first measurement back, so that it is not used.
Init ==
  /\ lastTrans = 0 /\ now \in SendTimes /\ since = now /\ at = "loop"
  /\ dht = [at |-> (now - KeepFor) % Wrap, good |-> FALSE, data |-> 0]
  /\ report = [temperature |-> NaN, humidity |-> NaN]

\* Mutant: every reading measures anew.
ReadAlways(s, t) == {[at |-> t, good |-> g, data |-> (s.data + 1) % 3] : g \in BOOLEAN}

\* read(): the outcomes at time t.  A measurement that failed is kept too.
Read(s, t) ==
  IF (t - s.at) % Wrap < KeepFor THEN {s}
  ELSE {[at |-> t, good |-> g, data |-> (s.data + 1) % 3] : g \in BOOLEAN}

Value(s) == IF s.good THEN s.data ELSE NaN

Due == Past(lastTrans, ReportEvery)

\* readTemperature(), readHumidity() and sendMessage().
Send ==
  /\ Due
  /\ \E e \in ReadTimes, d \in SendTimes :
       \E a \in Read(dht, now) : \E b \in Read(a, After(now, e)) :
          /\ dht' = b
          /\ report' = [temperature |-> Value(a), humidity |-> Value(b)]
          /\ now' = After(now, e + d)
  /\ lastTrans' = now' /\ since' = 0 /\ UNCHANGED at

\* loop() returns at once and is called again.
Wait ==
  /\ ~Due
  /\ now' = After(now, 1)
  /\ since' = Capped(since + 1)
  /\ UNCHANGED <<lastTrans, at, dht, report>>

Next == Send \/ Wait

ReportsInTime == since <= ReportEvery + 1 \/ NeverPast(lastTrans, ReportEvery, 1)

ReportsApart == Send => since > ReportEvery \/ SumWraps(lastTrans, ReportEvery)

SameMeasurement ==
  Send => report'.temperature = report'.humidity \/ SumWraps(lastTrans, ReportEvery)
=============================================================================
