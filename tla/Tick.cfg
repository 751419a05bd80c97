SPECIFICATION Spec
CONSTANTS
  Recorder = {r1, r2}
  Turn = {t1}
  Place = {a, b}
  Commit = {c}
  File = {f}
  Link = {u}
  Real = {}
  None = none
  Window = 2
  StaleMargin = 2
  MinStale = 1
  MaxTime = 3
  MaxTicks = 3
CONSTRAINT OneQuestion
SYMMETRY Alike
CHECK_DEADLOCK FALSE
INVARIANTS
  NoTurnDropped
  TwiceOnlyWithinSecond
  CommitCountsOnce
  MovingIsEarned
  AcknowledgedAfterStall
