SPECIFICATION MCSpec
CONSTANTS
  h1 = h1
  h2 = h2
  a = a
  b = b
  Commit = {h1, h2}
  Name = {test}
  Lane = {a, b}
  None = none
  Author = a
  Comment <- Comments
  MaxRuns = 2
  MaxComments = 2
  MaxTime = 2
INVARIANTS
  MergedWasReady
PROPERTIES
  ReadyMerges
CHECK_DEADLOCK FALSE
