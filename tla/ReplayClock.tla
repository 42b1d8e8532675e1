---------------------------- MODULE ReplayClock ----------------------------
(***************************************************************************)
(* app/services/replay_clock.py: the pure map from instants to the sample  *)
(* that is due.  Instants are integers in microseconds.                    *)
(***************************************************************************)
EXTENDS Integers

UsPerMs == 1000

\* Elapsed time, clamped at zero when the replay starts in the future.
ElapsedUs(started, now) == IF now >= started THEN now - started ELSE 0

SampleIndex(elapsed, intervalUs, n) ==
  LET raw == elapsed \div intervalUs
  IN  IF raw < n - 1 THEN raw ELSE n - 1

ReplayCompleteEarly(elapsed, intervalUs, n) ==
  elapsed + intervalUs >= intervalUs * (n - 1)

ReplayComplete(elapsed, intervalUs, n) == elapsed >= intervalUs * (n - 1)

\* Ceiling of the remaining microseconds in milliseconds.
DelayMs(elapsed, intervalUs, n) ==
  IF ReplayComplete(elapsed, intervalUs, n) THEN 0
  ELSE LET due       == intervalUs * (SampleIndex(elapsed, intervalUs, n) + 1)
           remaining == IF due > elapsed THEN due - elapsed ELSE 0
       IN  (remaining + (UsPerMs - 1)) \div UsPerMs

\* ReplayClock.position_at.
PositionAt(started, now, intervalMs, n) ==
  LET elapsed  == ElapsedUs(started, now)
      interval == intervalMs * UsPerMs
  IN  [index    |-> SampleIndex(elapsed, interval, n),
       complete |-> ReplayComplete(elapsed, interval, n),
       delayMs  |-> DelayMs(elapsed, interval, n)]
=============================================================================
