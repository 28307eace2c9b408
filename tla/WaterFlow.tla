------------------------------ MODULE WaterFlow ------------------------------
(***************************************************************************)
(* water_flow.ino: the flow meter.  pulseCounter() counts pulses in an     *)
(* interrupt; loop() turns them into a rate and a total every ReadEvery,   *)
(* and reports every reading with flow and every third without.            *)
(* valveStatus stays "open": loop() no longer calls receiveMessage().      *)
(***************************************************************************)
EXTENDS Millis, Sequences

CONSTANTS ReadEvery,     \* 10000
          LoopDelay,     \* delay(1000)
          Second,        \* 1000
          PulseVolume,   \* millilitres that pass for one pulse: 1000 / (60 * 4.5)
          FullTotal,     \* 100000
          ByteSize,      \* 2^8
          MaxPassed      \* bound on the water a run of the model lets pass

VARIABLES lastReading, pulseCount, flowing, totalMilliLitres,
          passed,        \* pulses since the total was last reset
          pulses,        \* pulses since the last reading, not wrapped
          unreported     \* those of each reading since the last report; no code
                         \* reads these three

vars == <<now, lastTrans, at, since, lastReading, pulseCount, flowing, totalMilliLitres,
          passed, pulses, unreported>>

\* setup() has waited for the first fix, however long that took.
Init == /\ lastTrans = 0 /\ lastReading = 0 /\ now \in Times /\ since = 0 /\ at = "loop"
        /\ pulseCount = 0 /\ flowing = FALSE /\ totalMilliLitres = 0
        /\ passed = 0 /\ pulses = 0 /\ unreported = <<>>

pulseCounter ==
  /\ passed < MaxPassed
  /\ pulseCount' = (pulseCount + 1) % ByteSize
  /\ passed' = passed + 1 /\ pulses' = pulses + 1
  /\ UNCHANGED <<now, lastTrans, at, since, lastReading, flowing, totalMilliLitres, unreported>>

ReadDue == Elapsed(lastReading) > ReadEvery

Flowed == (pulseCount * PulseVolume * Second) \div Elapsed(lastReading)

\* Mutants: the count is not reset; the rate is a whole number of litres.
readFlowAgain(missed) ==
  LET reset == totalMilliLitres > FullTotal
  IN /\ flowing' = (pulseCount > 0)
     /\ lastReading' = now
     /\ totalMilliLitres' = (IF reset THEN 0 ELSE totalMilliLitres) + Flowed
     /\ passed' = (IF reset THEN pulses ELSE passed) + missed /\ passed' <= MaxPassed
     /\ UNCHANGED pulseCount
readFlowWhole(missed) ==
  LET reset == totalMilliLitres > FullTotal
  IN /\ flowing' = (Flowed > 0)
     /\ lastReading' = now
     /\ totalMilliLitres' = (IF reset THEN 0 ELSE totalMilliLitres) + Flowed
     /\ passed' = (IF reset THEN pulses ELSE passed) + missed /\ passed' <= MaxPassed
     /\ pulseCount' = 0

\* The volume is worked out as if a second had passed.  A pulse that comes while
\* the interrupt is detached is missed.
readFlow(missed) ==
  LET reset == totalMilliLitres > FullTotal
  IN /\ flowing' = (pulseCount > 0)
     /\ lastReading' = now
     /\ totalMilliLitres' = (IF reset THEN 0 ELSE totalMilliLitres) + Flowed
     /\ passed' = (IF reset THEN pulses ELSE passed) + missed /\ passed' <= MaxPassed
     /\ pulseCount' = 0

\* readFlow(), and readGPS() is called.
Reading ==
  /\ at = "loop" /\ ReadDue /\ at' = "readGPS"
  /\ \E missed \in {0, 1} : readFlow(missed)
  /\ pulses' = 0 /\ unreported' = Append(unreported, pulses)
  /\ UNCHANGED <<now, lastTrans, since>>

\* readGPS() has no fix yet.
AwaitFix ==
  /\ NoFix
  /\ UNCHANGED <<lastReading, pulseCount, flowing, totalMilliLitres, passed, pulses, unreported>>

\* Mutant: every fourth reading.
ToReportFourth == flowing \/ lastTrans + 1 > 3

ToReport == flowing \/ lastTrans + 1 > 2

\* A fix has come: the reading is sent or withheld, in d.
Report == lastTrans' = 0 /\ unreported' = <<>> /\ since' = LoopDelay
Withhold(d) == /\ lastTrans' = lastTrans + 1 /\ UNCHANGED unreported
               /\ since' = Capped(since + d + LoopDelay)

readAndSend ==
  /\ at = "readGPS" /\ at' = "loop"
  /\ \E d \in SendTimes : /\ IF ToReport THEN Report ELSE Withhold(d)
                          /\ now' = After(now, d + LoopDelay)
  /\ UNCHANGED <<lastReading, pulseCount, flowing, totalMilliLitres, passed, pulses>>

\* No reading is due, and nothing is sent; the count of readings is reset all the
\* same if water flowed at the last one.
NoReading ==
  /\ at = "loop" /\ ~ReadDue
  /\ lastTrans' = IF flowing \/ lastTrans > 2 THEN 0 ELSE lastTrans
  /\ now' = After(now, LoopDelay) /\ since' = Capped(since + LoopDelay)
  /\ UNCHANGED <<at, lastReading, pulseCount, flowing, totalMilliLitres, passed, pulses, unreported>>

Next == pulseCounter \/ Reading \/ AwaitFix \/ readAndSend \/ NoReading

ReportsInTime == since <= 3 * (ReadEvery + LoopDelay + Slowest + LoopDelay)

FlowReported ==
  at = "loop" => /\ Len(unreported) <= 2
                 /\ \A i \in DOMAIN unreported : unreported[i] % ByteSize = 0

TotalNotOverstated == totalMilliLitres <= passed * PulseVolume
=============================================================================
