SPECIFICATION FairSpec
CONSTANTS
  Remover = {dispatcher, sweep}
  Owner = dispatcher
  Strays = FALSE
  Reaps = TRUE
  MaxCommits = 2
PROPERTIES
  CommitsKept
  ContentKept
  CollectedTreeRemoved
CHECK_DEADLOCK FALSE
