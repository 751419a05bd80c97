------------------------------- MODULE MergePR --------------------------------
(***************************************************************************)
(* tui/internal/mergepr and tui/internal/prverdict: the one way to merge a *)
(* pull request of the terminal's repository.  A merge asks GitHub four    *)
(* questions one after the other -- the head, its check runs, its commit   *)
(* statuses, the conversation -- and then merges whatever the head is by   *)
(* then.  Pushes, checks and reviews go on between any two of them.        *)
(***************************************************************************)
EXTENDS Integers, Sequences, FiniteSets

CONSTANTS
  Commit,      \* commits the pull request's branch may point at
  Name,        \* check names
  Lane,        \* lanes that write
  None,        \* a trailer that is not there, and no commit
  Author,      \* the Author-Lane trailer of the pull request's body
  Comment,     \* what a comment with a Verdict line may say
  MaxRuns,     \* how many check runs there are (a bound for TLC)
  MaxComments, \* and how many comments
  MaxTime      \* the last second

ASSUME MergeAssumption ==
  /\ None \notin Commit \cup Lane /\ Author \in Lane \cup {None}
  /\ Comment \subseteq [says : {"approved", "rejected", "unclear"},
                        lane : Lane \cup {None}, sha : Commit \cup {None}]
  /\ {MaxRuns, MaxComments} \subseteq Nat /\ MaxTime \in Nat \ {0}

VARIABLES
  now,      \* GitHub's clock, in the whole seconds its timestamps keep
  head,     \* the pull request's head
  merged,   \* the commit that was merged, or None
  checks,   \* check runs, in the order they began
  status,   \* the commit status of each head
  comments, \* the comments that carry a Verdict line
  merger,   \* the merge in progress, and what it has read
  moved     \* whether the head has moved since a merge was allowed

forge == <<now, head, merged, checks, status, comments>>
vars  == <<forge, merger, moved>>

Running == 0                       \* a check run that has not ended
Run     == [head : Commit, name : Name, began : Nat, ended : Nat, green : BOOLEAN]

\* runs and comments: how many of them there were at the reading; green and some: how
\* the check runs were judged, and whether there were any.
Idle == [pc |-> "idle", sha |-> None, runs |-> 0, comments |-> 0, green |-> FALSE, some |-> FALSE]

Merger == [pc : {"idle", "head", "checks", "green", "allowed", "merged"},
           sha : Commit \cup {None}, runs : Nat, comments : Nat, green : BOOLEAN, some : BOOLEAN]

ForgeTypeOK ==
  /\ now \in 1 .. MaxTime /\ head \in Commit /\ merged \in Commit \cup {None}
  /\ checks \in Seq(Run)
  /\ status \in [Commit -> {"none", "pending", "success", "failure"}]
  /\ comments \in Seq(Comment)

MergerTypeOK ==
  /\ merger \in Merger
  /\ merger.pc # "idle" => merger.sha \in Commit
  /\ merger.runs <= Len(checks) /\ merger.comments <= Len(comments)

TypeOK == ForgeTypeOK /\ MergerTypeOK /\ moved \in BOOLEAN

Init ==
  /\ now = 1 /\ head \in Commit /\ merged = None
  /\ checks = <<>> /\ status = [c \in Commit |-> "none"] /\ comments = <<>>
  /\ merger = Idle /\ moved = FALSE

At(pc) == merger.pc = pc

-----------------------------------------------------------------------------
(* What goes on at GitHub while the pull request is open.                    *)

Tock == now < MaxTime /\ now' = now + 1
        /\ UNCHANGED <<head, merged, checks, status, comments, merger, moved>>

\* Also a forced push back to an earlier head.
Push(c) ==
  /\ merged = None /\ c # head
  /\ head' = c /\ moved' = At("allowed")
  /\ UNCHANGED <<now, merged, checks, status, comments, merger>>

\* A run or a re-run; several of one name may be under way.
CheckBegins(c, n) ==
  /\ Len(checks) < MaxRuns
  /\ checks' = Append(checks, [head |-> c, name |-> n, began |-> now, ended |-> Running, green |-> FALSE])
  /\ UNCHANGED <<now, head, merged, status, comments, merger, moved>>

CheckEnds(i, green) ==
  /\ checks[i].ended = Running
  /\ checks' = [checks EXCEPT ![i] = [@ EXCEPT !.ended = now, !.green = green]]
  /\ UNCHANGED <<now, head, merged, status, comments, merger, moved>>

StatusChanges(c, state) ==
  /\ status' = [status EXCEPT ![c] = state]
  /\ UNCHANGED <<now, head, merged, checks, comments, merger, moved>>

Speaks(comment) ==
  /\ Len(comments) < MaxComments
  /\ comments' = Append(comments, comment)
  /\ UNCHANGED <<now, head, merged, checks, status, merger, moved>>

-----------------------------------------------------------------------------
(* The CI gate.                                                              *)

RunsOf(c, n) == {r \in {checks[i] : i \in DOMAIN checks} : r.head = c /\ r.name = n}
Reported(c)  == {n \in Name : RunsOf(c, n) # {}}

\* sortKey.
Key(r) == IF r.ended # Running THEN r.ended ELSE r.began

\* Mutant: a run that was superseded counts as well.
EveryRun(c, n) == RunsOf(c, n)

\* latestPerName: the greatest key, whichever the answer lists last if there are two.
Newest(c, n) == {r \in RunsOf(c, n) : \A q \in RunsOf(c, n) : Key(q) <= Key(r)}

Passes(r) == r.ended # Running /\ r.green

Judged(c, green) ==
  IF green THEN \A n \in Reported(c) : \E r \in Newest(c, n) : Passes(r)
           ELSE \E n \in Reported(c) : \E r \in Newest(c, n) : ~Passes(r)

\* The commit statuses, with what was read of the check runs.
StatusPasses(c) == status[c] \in {"none", "success"} /\ (status[c] # "none" \/ merger.some)

-----------------------------------------------------------------------------
(* The verdict gate.                                                         *)

Approves(comment, c) ==
  /\ comment.says = "approved" /\ comment.sha = c
  /\ Author # None /\ comment.lane \notin {Author, None}

\* Mutant: a verdict that cannot be classified leaves the one before it standing.
ApprovedByReadable(c) ==
  LET readable == SelectSeq(comments, LAMBDA comment : comment.says # "unclear")
  IN  readable # <<>> /\ Approves(readable[Len(readable)], c)

\* Resolve: the last verdict alone decides.
Approved(c) == comments # <<>> /\ Approves(comments[Len(comments)], c)

-----------------------------------------------------------------------------
(* Merge.                                                                    *)

Learns(m) == merger' = m /\ UNCHANGED <<forge, moved>>

ReadsHead ==
  /\ At("idle") /\ merged = None
  /\ Learns([Idle EXCEPT !.pc = "head", !.sha = head])

ReadsChecks ==
  /\ At("head")
  /\ \E green \in BOOLEAN :
       /\ Judged(merger.sha, green)
       /\ Learns([merger EXCEPT !.pc = "checks", !.green = green,
                                !.some = Reported(merger.sha) # {}, !.runs = Len(checks)])

ReadsStatuses ==
  /\ At("checks")
  /\ IF merger.green /\ StatusPasses(merger.sha) THEN Learns([merger EXCEPT !.pc = "green"])
                                                 ELSE Learns(Idle)

\* Mutant: the two gates need not speak of one head.
ReadsVerdictOfHead ==
  /\ At("green") /\ UNCHANGED <<forge, moved>>
  /\ merger' = IF Approved(head)
               THEN [merger EXCEPT !.pc = "allowed", !.comments = Len(comments)] ELSE Idle

\* Fetch reads the head once more, with the body and the comments.
ReadsVerdict ==
  /\ At("green") /\ UNCHANGED <<forge, moved>>
  /\ merger' = IF head = merger.sha /\ Approved(head)
               THEN [merger EXCEPT !.pc = "allowed", !.comments = Len(comments)] ELSE Idle

\* gh pr merge does not say which commit was meant.
Merges ==
  /\ At("allowed") /\ merged = None
  /\ merged' = head /\ merger' = [merger EXCEPT !.pc = "merged"]
  /\ UNCHANGED <<now, head, checks, status, comments, moved>>

\* A question that fails or times out, GitHub refusing the merge, the program killed.
Fails ==
  /\ ~At("idle") /\ ~At("merged") /\ merger' = Idle /\ moved' = FALSE /\ UNCHANGED forge

-----------------------------------------------------------------------------
MergerStep == ReadsHead \/ ReadsChecks \/ ReadsStatuses \/ ReadsVerdict \/ Merges \/ Fails

Next ==
  \/ Tock
  \/ \E c \in Commit : Push(c)
  \/ \E c \in Commit, n \in Name : CheckBegins(c, n)
  \/ \E i \in DOMAIN checks, green \in BOOLEAN : CheckEnds(i, green)
  \/ \E c \in Commit, state \in {"pending", "success", "failure"} : StatusChanges(c, state)
  \/ \E comment \in Comment : Speaks(comment)
  \/ MergerStep

Spec == Init /\ [][Next]_vars

\* Whoever wants the pull request merged runs the command again, and GitHub does not
\* leave the same question unanswered every time.
Fairness == /\ WF_vars(ReadsHead) /\ SF_vars(ReadsChecks) /\ SF_vars(ReadsStatuses)
            /\ SF_vars(ReadsVerdict) /\ SF_vars(Merges)
FairSpec == Spec /\ Fairness

-----------------------------------------------------------------------------
(* Properties.                                                               *)

\* The runs of a name at a commit, among the first n, in the order they began.
RunsAmong(c, name, n) == {i \in 1 .. n : checks[i].head = c /\ checks[i].name = name}

\* Each had ended in a second before the next began in: their times tell their order.
Apart(c, name, n) ==
  \A i, j \in RunsAmong(c, name, n) :
    i < j => checks[i].ended # Running /\ checks[i].ended < checks[j].began

\* The one that began last ended green.
LastIsGreen(c, name, n) ==
  \A i \in RunsAmong(c, name, n) :
    (\A j \in RunsAmong(c, name, n) : j <= i) => Passes(checks[i])

\* What is merged, unless the head moved after the merge was allowed, is a
\* commit that was checked, whose check runs were green -- of each name the one that began
\* last, where the runs' times tell which that is -- and that the last verdict before that
\* reading approves by name, from another lane (Evaluate, latestPerName, Resolve).
MergedWasReady ==
  At("merged") /\ ~moved =>
    /\ \A name \in Name : Apart(merged, name, merger.runs) => LastIsGreen(merged, name, merger.runs)
    /\ Reported(merged) # {} \/ status[merged] # "none"
    /\ merger.comments > 0 /\ Approves(comments[merger.comments], merged)

Ready ==
  /\ \A name \in Name : Apart(head, name, Len(checks)) /\ LastIsGreen(head, name, Len(checks))
  /\ status[head] \in {"none", "success"} /\ (status[head] # "none" \/ Reported(head) # {})
  /\ Approved(head)

\* A pull request that from some moment on stays green and approved is merged, failed
\* and superseded runs and earlier rejections notwithstanding.
ReadyMerges == <>[]Ready => <>(merged # None)
===============================================================================
