------------------------------- MODULE Millis -------------------------------
(***************************************************************************)
(* The clock of the reporting nodes: millis() counts modulo Wrap, 2^32 in  *)
(* the code, and every sketch compares it with the time of something it    *)
(* did before.                                                             *)
(***************************************************************************)
EXTENDS Integers

CONSTANTS Wrap,          \* 2^32, scaled down with the intervals
          Slowest,       \* how long a report may take to be composed and sent
          Long           \* bound on the times that only the properties look at

ASSUME WrapAssumption == Wrap \in Nat \ {0} /\ Long \in 1 .. (Wrap - 1)
ASSUME SlowestAssumption == Slowest \in 1 .. Long

VARIABLES now,           \* millis()
          lastTrans,     \* when the last report was sent; a count in water_flow.ino
          at,            \* where loop() is: "loop", "readGPS" or "sendMessage"
          since          \* time since the last report or the start of loop(), not
                         \* wrapped and without waits for a fix; no code reads it

Times == 0 .. (Wrap - 1)
SendTimes == 1 .. Slowest
After(t, d) == (t + d) % Wrap
Elapsed(t) == (now - t) % Wrap

\* millis() > t + d: the sum wraps, and not with the clock.
Past(t, d) == now > After(t, d)

\* readGPS() has no fix yet: it waits without a limit, while the clock goes round.
NoFix ==
  /\ at = "readGPS"
  /\ now' = After(now, 1)
  /\ UNCHANGED <<lastTrans, since, at>>

Capped(t) == IF t < Long THEN t ELSE Long

\* The sum is the last of the clock's values, or so near to it that a loop of the
\* given period may never see a later one.
NeverPast(t, d, period) == t + d \in (Wrap - period) .. (Wrap - 1)
SumWraps(t, d) == t + d >= Wrap
=============================================================================
