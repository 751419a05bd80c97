SPECIFICATION Spec
CONSTANTS
  Root = root
  Fix = {f1}
  Reviewer = {r1}
  Outsider = outsider
  None = none
  Short = short
  MaxCommits = 3
CONSTRAINTS NotClosed CommentLast NotFailed NotRejected NotFailedTurn Signed OnePull
ACTION_CONSTRAINTS ChecksNext ReviewEndsNext
CHECK_DEADLOCK FALSE
INVARIANTS
  EveryCommitAccounted
  ReviewedOncePushed
  LegitimateAllowed
