-------------------------------- MODULE MCGate --------------------------------
(* Gate on one pull request.                                               *)
EXTENDS Gate

(* States one of these rules out are checked, not explored.                *)

\* A closed pull request is refused and stays closed.
NotClosed == open \/ head = None

\* A comment enables and disables no other step, so every state with one comes
\* of the same state without it.
CommentLast == \A r \in Reviewer : comment[r] = None

\* Failed checks can only run again, as checks that passed can.
NotFailed == \A c \in Commit : checks[c] # "red"

\* A turn that did not approve is never counted.
NotRejected == \A r \in Reviewer : result[r] # "rejected"

\* What follows a failed turn also follows the turn while it runs: neither has a
\* record.
NotFailedTurn ==
  \A a \in Author : stage[a] = "over" => \E i \in DOMAIN records : records[i].id = a

\* The root's lane is in every chain: what is permitted without a trailer that names
\* it is permitted with one.
Signed == claimed # None \/ head = None

\* The bound on what worktrees take over from the branch.
OnePull == Cardinality(pulled) <= 1

(* Of the orders of steps that lead to the same states, one is explored.   *)

\* Checks start when their commit is pushed, and end at once: nothing but their
\* end depends on running checks, and starting later is what running again is.
ChecksNext ==
  (\E c \in heads : checks[c] # "green") => \E c \in heads : checks'[c] # checks[c]

\* A review's start only lets it complete.
ReviewEndsNext ==
  \A r \in Reviewer : stage[r] = "running" => stage'[r] # "running"
===============================================================================
