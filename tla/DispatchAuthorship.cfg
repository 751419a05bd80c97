SPECIFICATION Spec
CONSTANTS
  Task = {t1}
  Author = {t1}
  Console = {}
  MaxInFlight = 1
  MaxWorktrees = 2
  MaxSweep = 1
  Lingers = FALSE
  MaxBoots = 2
  NoRecord = NoRecord
  NoTask = NoTask
PROPERTIES
  AuthorshipKept
CHECK_DEADLOCK FALSE
