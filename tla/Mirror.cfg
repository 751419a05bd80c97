SPECIFICATION FairSpec
CONSTANTS
  Turn = {t1, t2, t3}
  InFlight = 2
  Max = 1
  Keep = 1
INVARIANTS
  OvershootBounded
PROPERTIES
  RunningWindowKept
  TranscriptKept
  NeverPoisoned
CHECK_DEADLOCK FALSE
