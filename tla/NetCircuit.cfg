SPECIFICATION FairSpec
CONSTANTS
  t1 = t1
  t2 = t2
  t3 = t3
  Callers = {t1, t2, t3}
  Streaming = {t3}
  Delays = 3
INVARIANTS HalfOpenHasProbe NoStrandedWaiter
PROPERTIES BackoffIsTheProbes DeadlineEndsCall Recovers
