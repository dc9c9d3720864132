--------------------------- MODULE MCAlarmContract ---------------------------
\* Alarms on a clock that steps by two, up or down; a step of three is longer than
\* those of the one and against those of the other.  Times lie around 0, far from
\* the Time never set.
EXTENDS AlarmContract, TLC

MCOrigin      == -100
MCMinElapsed  == -2
MCStopTime    == {7, -8}
MCTimeStep    == {2, -2}

Asked(time, interval, duration, count, isSticky, stop) ==
  [ringTime |-> time, ringInterval |-> interval, ringDuration |-> duration,
   ringStepCount |-> count, sticky |-> isSticky, stopTime |-> stop,
   enabled |-> TRUE]

MCRequest == {
  Asked(0, 4, 0, 1, FALSE, Origin),        \* rings one step, due when the clock starts
  Asked(1, 6, 3, 1, FALSE, Origin),        \* rings for two steps, off the steps
  Asked(Origin, 6, 4, 1, FALSE, Origin),   \* rings for two steps
  Asked(2, 4, 0, 1, FALSE, 8),             \* has a stop time
  Asked(1, 1, 0, 1, TRUE, Origin),         \* sticky
  Asked(3, 0, 0, 1, TRUE, Origin),         \* one-shot
  Asked(-2, -4, 0, 1, FALSE, Origin),      \* for clocks that step down
  Asked(-1, -4, 0, 1, TRUE, Origin) }

Symmetry == Permutations(Alarm)
=============================================================================
