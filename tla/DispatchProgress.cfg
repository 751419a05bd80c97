SPECIFICATION EitherSpec
CONSTANTS
  Task = {t1, t2}
  Author = {t1, t2}
  Console = {c}
  MaxInFlight = 2
  MaxWorktrees = 3
  MaxSweep = 1
  Lingers = FALSE
  MaxBoots = 2
  NoRecord = NoRecord
  NoTask = NoTask
PROPERTIES
  DispatchResolves
  DeadTurnFreesSlot
  CorpseSwept
CHECK_DEADLOCK FALSE
