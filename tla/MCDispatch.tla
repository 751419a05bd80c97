------------------------------ MODULE MCDispatch ------------------------------
(* Dispatch on small instances.                                              *)
EXTENDS Dispatch, TLC

\* Turns of one role are interchangeable.
Interchangeable == Permutations(Task)

\* Every dispatch is over: its outcome is recorded, or its dispatcher was
\* killed; its worktree was not torn down, and holds saved or unsaved work.
InitOver ==
  /\ \E s \in [Task -> State], w \in [Task -> {"unsaved", "saved"}] :
       /\ ledger = [t \in Task |->
            [state |-> s[t], pid |-> TRUE, tree |-> TRUE, head |-> FALSE, at |-> 1]]
       /\ pc = [t \in Task |-> IF s[t] = "dispatched" THEN "exited" ELSE "done"]
       /\ turn = [t \in Task |-> CASE s[t] = "failed"  -> "failed"
                                   [] s[t] = "unknown" -> "killed"
                                   [] OTHER            -> "exited"]
       /\ work = w
  /\ pipe = [t \in Task |-> FALSE]
  /\ tree = Task
  /\ out = Nothing
  /\ sweep = [p \in Sweeper |-> NoSweep]
  /\ reclaim = NoReclaim
  /\ boot = 1
  /\ misjudged = {}
  /\ beside = [t \in Task |-> {}]

\* One dispatch is to come; the other was refused and left nothing.
InitOneLeft ==
  /\ \E t \in Task : pc = [u \in Task |-> IF u = t THEN "idle" ELSE "done"]
  /\ ledger = Nothing
  /\ turn = [t \in Task |-> "none"]
  /\ pipe = [t \in Task |-> FALSE]
  /\ tree = {}
  /\ work = [t \in Task |-> "clean"]
  /\ out = Nothing
  /\ sweep = [p \in Sweeper |-> NoSweep]
  /\ reclaim = NoReclaim
  /\ boot = 1
  /\ misjudged = {}
  /\ beside = [t \in Task |-> {}]

\* At most one dispatcher was killed: with two, a reclaim may fail at its second
\* record every time.
OneInFlight == Cardinality(InFlight) <= 1

EitherSpec == (InitOneLeft \/ (InitOver /\ OneInFlight)) /\ [][Next]_vars /\ Fairness
===============================================================================
