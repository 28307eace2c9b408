------------------------------- MODULE Sensors -------------------------------
(***************************************************************************)
(* The four nodes that only report: gps, thermometer, magnet, water_flow.  *)
(* They share nothing but the clock's arithmetic; a behaviour is one       *)
(* node's.                                                                 *)
(***************************************************************************)
EXTENDS Millis

CONSTANTS GpsEvery, ThermometerEvery, KeepFor, NaN, ContactEvery, BeatEvery,
          FlowEvery, LoopDelay, Second, PulseVolume, FullTotal, ByteSize, MaxPassed,
          Unused         \* the value of another node's variables

VARIABLES node,
          dht, report, lastReading, magnetStatus, input, steady,
          pulseCount, flowing, totalMilliLitres, passed, pulses, unreported

G == INSTANCE Gps WITH ReportEvery <- GpsEvery
T == INSTANCE Thermometer WITH ReportEvery <- ThermometerEvery
M == INSTANCE Magnet WITH ReadEvery <- ContactEvery
F == INSTANCE WaterFlow WITH ReadEvery <- FlowEvery

\* A measurement is kept for less than the interval, no report takes longer than
\* the interval to be sent (the wait for a fix apart), and the clock's round is
\* longer than all of them.
ASSUME IntervalsAssumption ==
  /\ {GpsEvery, ThermometerEvery, ContactEvery, FlowEvery} \subseteq Slowest .. Long
  /\ LoopDelay \in 1 .. Long /\ Second \in 1 .. FlowEvery
  /\ BeatEvery \in (ContactEvery + 1) .. Long /\ KeepFor \in 1 .. (ThermometerEvery - 1)
  /\ {GpsEvery + LoopDelay, ThermometerEvery + KeepFor + KeepFor + Slowest,
      BeatEvery + ContactEvery + 1, FlowEvery + LoopDelay + Slowest} \subseteq 1 .. Long
ASSUME MeterAssumption ==
  {PulseVolume, ByteSize} \subseteq Nat \ {0} /\ {FullTotal, MaxPassed} \subseteq Nat
ASSUME NaNAssumption == NaN \notin T!Data

thermometer == <<dht, report>>
magnet == <<magnetStatus, input, steady>>
meter == <<pulseCount, flowing, totalMilliLitres, passed, pulses, unreported>>
vars == <<now, lastTrans, at, since, node, lastReading, thermometer, magnet, meter>>

NoThermometer == dht = Unused /\ report = Unused
NoMagnet == magnetStatus = Unused /\ input = Unused /\ steady = Unused
NoMeter == /\ pulseCount = Unused /\ flowing = Unused /\ totalMilliLitres = Unused
           /\ passed = Unused /\ pulses = Unused /\ unreported = Unused

Init ==
  \/ node = "gps" /\ G!Init /\ lastReading = Unused /\ NoThermometer /\ NoMagnet /\ NoMeter
  \/ node = "thermometer" /\ T!Init /\ lastReading = Unused /\ NoMagnet /\ NoMeter
  \/ node = "magnet" /\ M!Init /\ NoThermometer /\ NoMeter
  \/ node = "water_flow" /\ F!Init /\ NoThermometer /\ NoMagnet

Next ==
  /\ UNCHANGED node
  /\ \/ node = "gps" /\ G!Next /\ UNCHANGED <<lastReading, thermometer, magnet, meter>>
     \/ node = "thermometer" /\ T!Next /\ UNCHANGED <<lastReading, magnet, meter>>
     \/ node = "magnet" /\ M!Next /\ UNCHANGED <<thermometer, meter>>
     \/ node = "water_flow" /\ F!Next /\ UNCHANGED <<thermometer, magnet>>

Spec == Init /\ [][Next]_vars
-----------------------------------------------------------------------------
\* Every variable of the node at hand has its type: counters stay in their bytes
\* and ranges, and no variable of another node is used.
TypeOK ==
  /\ now \in Times /\ since \in 0 .. Long /\ at \in {"loop", "readGPS", "sendMessage"}
  /\ node \in {"gps", "thermometer"} => lastTrans \in Times
  /\ node = "thermometer" => dht \in T!Dht /\ report \in T!Report
  /\ node = "magnet" => /\ lastTrans \in Times /\ lastReading \in Times
                        /\ {magnetStatus, input} \subseteq BOOLEAN /\ steady \in 0 .. Long
  /\ node = "water_flow" => /\ lastTrans \in 0 .. 2 /\ lastReading \in Times
                            /\ pulseCount \in 0 .. (ByteSize - 1) /\ passed \in Nat

\* A node reports at its interval and one loop, and no later, except when what it
\* adds to an earlier time is one of the clock's last values: gps.ino may then
\* miss the moment and be silent until the clock has gone round, thermometer.ino
\* and magnet.ino wait for a value that the clock does not have.  The flow meter
\* subtracts, and reports by its third reading.  The waits for a fix in readGPS(),
\* which have no limit, are not counted: one lies before every report of gps.ino and
\* one in every reading of water_flow.ino, and while one lasts nothing is reported.
ReportsInTime ==
  /\ node = "gps" => G!ReportsInTime
  /\ node = "thermometer" => T!ReportsInTime
  /\ node = "magnet" => M!ReportsInTime
  /\ node = "water_flow" => F!ReportsInTime

\* Reports are no closer than the interval, except that a sum that has wrapped
\* when the clock has not makes gps.ino and thermometer.ino report in every loop, and
\* the first position may be sent at once;
\* the contact reports early only what has changed.
ReportsApart ==
  [][/\ node = "gps" => G!ReportsApart
     /\ node = "thermometer" => T!ReportsApart
     /\ node = "magnet" => M!ReportsApart]_vars

\* A contact that stays as it is for longer than a transmission and the interval
\* between readings is, or has been, reported as it is; it may have changed
\* while the last report was sent.  Except that magnet.ino reads and reports nothing
\* at all (Stuck) once its sum is a value that the clock never passes.
ChangesReported == node = "magnet" => M!ChangesReported

\* The two values of a report come from one measurement, or both are missing; two
\* may be mixed only in the burst of reports before the clock wraps.
SameMeasurement == [][node = "thermometer" => T!SameMeasurement]_vars

\* Whatever is reset between the readings, at most two are withheld, and none of
\* water that flows, except when the pulses since the reading before are a multiple
\* of the 256 that their byte counts: such a reading, too, passes for one without
\* flow.
FlowReported == node = "water_flow" => F!FlowReported

\* However pulses come, before, during or after a reading and its wait for a fix,
\* are missed or overflow their byte, none adds to the total twice: it is at no time
\* more than what has passed the sensor since it was last reset.
TotalNotOverstated == node = "water_flow" => F!TotalNotOverstated
=============================================================================
