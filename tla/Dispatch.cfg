SPECIFICATION Spec
CONSTANTS
  Task = {t1, t2}
  Author = {t1, t2}
  Console = {}
  MaxInFlight = 1
  MaxWorktrees = 2
  MaxSweep = 1
  Lingers = TRUE
  MaxBoots = 2
  NoRecord = NoRecord
  NoTask = NoTask
SYMMETRY Interchangeable
INVARIANTS
  LiveTurnHoldsSlot
  LiveTurnKeepsTree
  OvershootIsOverlap
CHECK_DEADLOCK FALSE
PROPERTIES
  UnsavedWorkKept
