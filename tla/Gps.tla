--------------------------------- MODULE Gps ---------------------------------
(* gps.ino: a position every ReportEvery, looked for every LoopDelay. *)
EXTENDS Millis

CONSTANTS ReportEvery,   \* 10000
          LoopDelay      \* delay(1000)

vars == <<now, lastTrans, at, since>>

\* setup() has waited for the first fix, however long that took.
Init == lastTrans = 0 /\ now \in Times /\ since = 0 /\ at = "loop"

Due == Past(lastTrans, ReportEvery)

\* A report is due: readGPS() is called.
ReadGPS == at = "loop" /\ Due /\ at' = "readGPS" /\ UNCHANGED <<now, lastTrans, since>>

\* A fix has come; the report is sent, in d.
Report ==
  /\ at = "readGPS" /\ at' = "loop"
  /\ \E d \in SendTimes : /\ lastTrans' = After(now, d)
                          /\ now' = After(now, d + LoopDelay)
  /\ since' = LoopDelay

\* Mutant: lastTrans is set in every loop.
WaitAnew ==
  /\ at = "loop" /\ ~Due
  /\ now' = After(now, LoopDelay) /\ lastTrans' = now
  /\ since' = Capped(since + LoopDelay)
  /\ UNCHANGED at

Wait ==
  /\ at = "loop" /\ ~Due
  /\ now' = After(now, LoopDelay)
  /\ since' = Capped(since + LoopDelay)
  /\ UNCHANGED <<lastTrans, at>>

Next == ReadGPS \/ NoFix \/ Report \/ Wait

ReportsInTime ==
  since <= ReportEvery + LoopDelay \/ NeverPast(lastTrans, ReportEvery, LoopDelay)

\* The first report may come as soon as loop() begins.
ReportsApart ==
  Report => since > ReportEvery \/ SumWraps(lastTrans, ReportEvery) \/ lastTrans = 0
=============================================================================
