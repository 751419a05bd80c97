SPECIFICATION MCSpec
CONSTANTS
  c1 = c1
  c2 = c2
  Candidate = {c1, c2}
  Nobody = nobody
  Foreign = {1}
  MaxTime = 4
  MaxRevision = 2
  MaxInterrupts = 2
INVARIANTS
  ReviewIsTrue
  NeverBoth
PROPERTIES
  NeverResurfaces
  RetryRepairs
CHECK_DEADLOCK FALSE
