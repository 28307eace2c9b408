------------------------------- MODULE Magnet -------------------------------
(* magnet.ino: a contact read every ReadEvery and reported when it has      *)
(* changed or BeatEvery has passed.                                         *)
EXTENDS Millis

CONSTANTS ReadEvery,     \* 2000
          BeatEvery      \* 60000

VARIABLES lastReading, magnetStatus,
          input,         \* the level of INPUT_PIN
          steady         \* how long it has had that level; no code reads it

vars == <<now, lastTrans, at, since, lastReading, magnetStatus, input, steady>>

Init == /\ lastTrans = 0 /\ lastReading = 0 /\ now \in SendTimes /\ since = now /\ at = "loop"
        /\ magnetStatus = FALSE /\ input \in BOOLEAN /\ steady = now

InputChanges == /\ input' = ~input /\ steady' = 0
                /\ UNCHANGED <<now, lastTrans, at, since, lastReading, magnetStatus>>

Due == Past(lastReading, ReadEvery)

\* Mutants: the contact is not compared, and a sum that wraps.
ToReportBeat == Elapsed(lastTrans) > BeatEvery
ToReportBySum == magnetStatus # input \/ Past(lastTrans, BeatEvery)

ToReport == magnetStatus # input \/ Elapsed(lastTrans) > BeatEvery

\* readSensor() finds something to report.
Report ==
  /\ at = "loop" /\ Due /\ ToReport
  /\ magnetStatus' = input
  /\ at' = "sendMessage"
  /\ UNCHANGED <<now, lastTrans, since, lastReading, input, steady>>

\* The report has been sent, in d; the input may have changed meanwhile.
Sent ==
  /\ at = "sendMessage" /\ at' = "loop"
  /\ \E d \in SendTimes : now' = After(now, d) /\ steady' = Capped(steady + d)
  /\ lastTrans' = now' /\ lastReading' = now' /\ since' = 0
  /\ UNCHANGED <<magnetStatus, input>>

\* Nothing to report; the clock has moved on when loop() is called again.
ReadOnly ==
  /\ at = "loop" /\ Due /\ ~ToReport
  /\ lastReading' = now
  /\ now' = After(now, 1) /\ since' = Capped(since + 1) /\ steady' = Capped(steady + 1)
  /\ UNCHANGED <<lastTrans, at, magnetStatus, input>>

Wait ==
  /\ at = "loop" /\ ~Due
  /\ now' = After(now, 1) /\ since' = Capped(since + 1) /\ steady' = Capped(steady + 1)
  /\ UNCHANGED <<lastTrans, at, lastReading, magnetStatus, input>>

Next == InputChanges \/ Report \/ Sent \/ ReadOnly \/ Wait

Stuck == NeverPast(lastReading, ReadEvery, 1)

ReportsInTime == since <= BeatEvery + ReadEvery + 1 \/ Stuck

ReportsApart == Report => since > BeatEvery \/ magnetStatus' # magnetStatus

ChangesReported == steady > ReadEvery + Slowest + 1 => magnetStatus = input \/ Stuck
=============================================================================
