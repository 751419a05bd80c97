SPECIFICATION MCSpec
CONSTANTS
  p1 = p1
  p2 = p2
  s1 = s1
  Source = {s1}
  Torn = torn
  Process = {p1, p2}
  Keeper = {p1}
  MaxContent = 2
  MaxKills = 1
INVARIANTS
  ActiveWasReviewed
  SafeAlone
PROPERTIES
  DriftReachesNotes
CHECK_DEADLOCK FALSE
