--------------------------------- MODULE Gate ---------------------------------
(***************************************************************************)
(* internal/gate: may this pull request be merged?                         *)
(*                                                                         *)
(* One pull request, opened from the branch of the turn Root.  Fix passes  *)
(* check its head out, commit, and push; so may somebody outside.  A turn  *)
(* that completes leaves a ledger record with the commit it started from   *)
(* and the one the estate observed in its worktree afterwards.  Reviewers  *)
(* run and complete; comments under their names come from anyone.  The     *)
(* head moves by pushes, forced or not, and back to commits it was at.     *)
(* The gate reads the pull request and the ledger at any time.             *)
(***************************************************************************)
EXTENDS Integers, Sequences, FiniteSets

CONSTANTS
  Root,        \* the dispatch the head ref names
  Fix,         \* fix-pass dispatches scoped to this pull request
  Reviewer,    \* review dispatches scoped to this pull request
  Outsider,    \* whoever else pushes to the branch
  None,        \* "no commit", "no comment", "no trailer"
  Short,       \* a Reviewed-SHA trailer too short to name a commit
  MaxCommits   \* bound on commits

Author == Fix \cup {Root}
Verdict == {"approved", "rejected"}  \* rejected: whatever does not approve

ASSUME LaneAssumption ==
  /\ Root \notin Fix /\ Author \cap Reviewer = {}
  /\ Outsider \notin Author \cup Reviewer
ASSUME MaxCommitsAssumption == MaxCommits \in Nat
ASSUME NoneAssumption ==
  {None, Short} \cap (Nat \cup Author \cup Verdict) = {} /\ None # Short

Commit == 0..MaxCommits  \* 0 is the tip of main the root turn started from

VARIABLES
  by,        \* who made each commit after 0, oldest first
  parent,    \* and on top of which
  head,      \* the pull request's head commit, or None before it is opened
  claimed,   \* the lane its body's Author-Lane trailer names, or None
  open,      \* its state is OPEN
  checks,    \* at each commit: "none", "running", "green" or "red"
  stage,     \* each turn: "idle", "running" or "over"
  base,      \* the commit each author's worktree started from
  mine,      \* the commit each author's worktree is at
  records,   \* completed author turns in the ledger's order
  pulled,    \* history: commits a worktree took over from the branch
  comment,   \* the last comment with a verdict that names each reviewer's lane
  result,    \* the verdict of its completed turn's result, or None
  fresh,     \* commits whose checks started no later than its turn completed
  heads,     \* history: every commit that has been the head
  closedAt   \* history: those that had been when its turn completed

vars == <<by, parent, head, claimed, open, checks, stage, base, mine, records,
          pulled, comment, result, fresh, heads, closedAt>>
commitVars == <<by, parent>>
prVars == <<head, claimed, open, heads>>
authorVars == <<base, mine, records, pulled>>
reviewVars == <<comment, result, closedAt>>

MaybeCommit == Commit \cup {None}
ChainRecord == [id : Author, base : Commit, head : MaybeCommit]
Comment == [verdict : Verdict, sha : MaybeCommit \cup {Short}]

TypeOK ==
  /\ by \in Seq(Author \cup {Outsider}) /\ Len(by) <= MaxCommits
  /\ parent \in Seq(Commit) /\ Len(parent) = Len(by)
  /\ head \in MaybeCommit
  /\ claimed \in {None, Root}
  /\ open \in BOOLEAN
  /\ checks \in [Commit -> {"none", "running", "green", "red"}]
  /\ stage \in [Author \cup Reviewer -> {"idle", "running", "over"}]
  /\ base \in [Author -> MaybeCommit]
  /\ mine \in [Author -> MaybeCommit]
  /\ records \in Seq(ChainRecord)
  /\ pulled \subseteq Commit
  /\ heads \subseteq Commit
  /\ comment \in [Reviewer -> Comment \cup {None}]
  /\ result \in [Reviewer -> Verdict \cup {None}]
  /\ fresh \in [Reviewer -> SUBSET Commit] /\ closedAt \in [Reviewer -> SUBSET Commit]

Init ==
  /\ by = <<>> /\ parent = <<>>
  /\ head = None /\ claimed = None /\ open = FALSE /\ heads = {}
  /\ checks = [c \in Commit |-> "none"]
  /\ stage = [t \in Author \cup Reviewer |-> "idle"]
  /\ base = [a \in Author |-> None] /\ mine = [a \in Author |-> None]
  /\ records = <<>>
  /\ pulled = {}
  /\ comment = [r \in Reviewer |-> None]
  /\ result = [r \in Reviewer |-> None]
  /\ fresh = [r \in Reviewer |-> {}] /\ closedAt = [r \in Reviewer |-> {}]

-------------------------------------------------------------------------------
(* Author turns. *)

StartsAt(a, start) ==
  /\ stage[a] = "idle"
  /\ a \in Fix => head # None
  /\ base' = [base EXCEPT ![a] = start] /\ mine' = [mine EXCEPT ![a] = start]
  /\ stage' = [stage EXCEPT ![a] = "running"]
  /\ UNCHANGED <<commitVars, prVars, checks, records, pulled, reviewVars, fresh>>

\* isolate.Create for the root, CreateOnBranch for a fix pass.
AuthorStarts(a) == StartsAt(a, IF a = Root THEN 0 ELSE head)

NewCommit(who, on) ==
  /\ Len(by) < MaxCommits
  /\ by' = Append(by, who) /\ parent' = Append(parent, on)

AuthorCommits(a) ==
  /\ stage[a] = "running"
  /\ NewCommit(a, mine[a])
  /\ mine' = [mine EXCEPT ![a] = Len(by')]
  /\ UNCHANGED <<prVars, checks, stage, base, records, pulled, reviewVars, fresh>>

\* The commits of a line of work, newest first, back to main.
Line[c \in Commit] == IF c \notin DOMAIN parent THEN {} ELSE {c} \cup Line[parent[c]]

\* The turn brings its checkout to where the branch is: what others pushed
\* there is now part of its own HEAD.
AuthorPulls(a) ==
  /\ stage[a] = "running" /\ head \notin {None, mine[a]}
  /\ mine' = [mine EXCEPT ![a] = head]
  /\ pulled' = pulled \cup {c \in Commit : c \in Line[head] \ Line[mine[a]]}
  /\ UNCHANGED <<commitVars, prVars, checks, stage, base, records, reviewVars, fresh>>

\* A push, forced or not.  A commit the head was at before still has its
\* checks.
Pushed(c) == head' = c /\ heads' = heads \cup {c}

\* The root's first push is followed by opening the pull request.
AuthorPushes(a) ==
  /\ stage[a] = "running" /\ mine[a] \notin {0, head}
  /\ open \/ (a = Root /\ head = None)
  /\ Pushed(mine[a]) /\ open' = TRUE
  /\ IF open THEN UNCHANGED claimed ELSE claimed' \in {None, Root}
  /\ UNCHANGED <<commitVars, checks, stage, authorVars, reviewVars, fresh>>

\* The dispatcher records a complete turn and the HEAD it reads, if it can.
AuthorCompletes(a) ==
  /\ stage[a] = "running"
  /\ stage' = [stage EXCEPT ![a] = "over"]
  /\ \E observed \in {mine[a], None} :
       records' = Append(records, [id |-> a, base |-> base[a], head |-> observed])
  /\ UNCHANGED <<commitVars, prVars, checks, base, mine, pulled, reviewVars, fresh>>

\* Failed, timed out, or killed with its dispatcher.
AuthorFails(a) ==
  /\ stage[a] = "running"
  /\ stage' = [stage EXCEPT ![a] = "over"]
  /\ UNCHANGED <<commitVars, prVars, checks, authorVars, reviewVars, fresh>>

\* A commit of its own, or the branch forced back to where it was.
OutsiderPushes ==
  /\ open
  /\ \/ NewCommit(Outsider, head) /\ Pushed(Len(by'))
     \/ (\E c \in heads \ {head} : Pushed(c)) /\ UNCHANGED commitVars
  /\ UNCHANGED <<claimed, open, checks, stage, authorVars, reviewVars, fresh>>

-------------------------------------------------------------------------------
(* The forge. *)

\* The first run for a pushed commit, or another one.
ChecksStart(c) ==
  /\ open /\ c \in heads /\ checks[c] # "running"
  /\ checks' = [checks EXCEPT ![c] = "running"]
  /\ fresh' = [r \in Reviewer |-> fresh[r] \ {c}]
  /\ UNCHANGED <<commitVars, prVars, stage, authorVars, reviewVars>>

ChecksEnd(c, conclusion) ==
  /\ checks[c] = "running"
  /\ checks' = [checks EXCEPT ![c] = conclusion]
  /\ UNCHANGED <<commitVars, prVars, stage, authorVars, reviewVars, fresh>>

Close ==
  /\ open
  /\ open' = FALSE
  /\ UNCHANGED <<commitVars, head, heads, claimed, checks, stage, authorVars,
                 reviewVars, fresh>>

-------------------------------------------------------------------------------
(* Reviewers. *)

ReviewerStarts(r) ==
  /\ stage[r] = "idle" /\ open
  /\ stage' = [stage EXCEPT ![r] = "running"]
  /\ UNCHANGED <<commitVars, prVars, checks, authorVars, reviewVars, fresh>>

\* A comment whose trailer names r's lane, posted by r or by anyone else with
\* the shared login, whenever there is a pull request: an approval signed with
\* some commit, with too short a prefix of one, or not at all; or a rejection,
\* whose signature no one reads.
Comments(r) ==
  /\ head # None
  /\ \E c \in [verdict : {"approved"}, sha : 0..Len(by) \cup {Short, None}]
             \cup [verdict : {"rejected"}, sha : {None}] :
       comment' = [comment EXCEPT ![r] = c]
  /\ UNCHANGED <<commitVars, prVars, checks, stage, authorVars, result, fresh, closedAt>>

\* Checks that started by now did not start after the turn completed, whichever
\* commit they are for.
ReviewerCompletes(r) ==
  /\ stage[r] = "running"
  /\ stage' = [stage EXCEPT ![r] = "over"]
  /\ \E v \in Verdict : result' = [result EXCEPT ![r] = v]
  /\ fresh' = [fresh EXCEPT ![r] = {c \in Commit : checks[c] # "none"}]
  /\ closedAt' = [closedAt EXCEPT ![r] = heads]
  /\ UNCHANGED <<commitVars, prVars, checks, authorVars, comment>>

-------------------------------------------------------------------------------
(* The decision. *)

Min(S) == CHOOSE i \in S : \A j \in S : i <= j

\* authorRecordForDispatchID
RootRecords == {i \in DOMAIN records : records[i].id = Root}
RootHead == IF RootRecords = {} THEN None ELSE records[Min(RootRecords)].head

\* Mutant: a fix pass whose base is not the last commit accounted for.
HopsAnyBase(from) ==
  {i \in DOMAIN records : records[i].id \in Fix /\ records[i].head \notin {None, records[i].base}}

\* Completed fix passes for this pull request that continue from a commit.
Hops(from) ==
  {i \in DOMAIN records :
     /\ records[i].id \in Fix /\ records[i].base = from
     /\ records[i].head \notin {None, records[i].base}}

\* authorRecordForFixPassChain: at each commit the first such record in ledger
\* order is taken, and no other is tried.
Follow(w) ==
  LET hop == records[Min(Hops(w.at))]
  IN  IF w.end # "on" THEN w
      ELSE IF Hops(w.at) = {} THEN [w EXCEPT !.end = "lost"]
      ELSE [at    |-> hop.head,
            seen  |-> w.seen \cup {hop.head},
            lanes |-> w.lanes \cup {hop.id},
            end   |-> IF hop.head = head THEN "found"
                      ELSE IF hop.head \in w.seen THEN "lost" ELSE "on"]

WalkBegins == [at |-> RootHead, seen |-> {RootHead}, lanes |-> {Root},
               end |-> IF RootHead = head THEN "found" ELSE "on"]

Walk[k \in 0..MaxCommits + 1] == IF k = 0 THEN WalkBegins ELSE Follow(Walk[k - 1])

Chain == Walk[MaxCommits + 1]

\* classifyReviewedSHA: a trailer, if there is one, must name the head.
ShaMatches(sha) == sha \in {None, head}

\* Mutant: only the lane that made the head may be named as the author.
TrailerNamesTip == claimed = None \/ records[Len(records)].id = claimed

\* The body's Author-Lane trailer, if there is one, names a lane of the chain.
TrailerAgrees == claimed = None \/ claimed \in Chain.lanes

\* Its last comment and its own result both approve.
VerdictApproves(r) ==
  /\ comment[r] # None
  /\ comment[r].verdict = "approved" /\ result[r] = "approved"
  /\ ShaMatches(comment[r].sha)

\* Mutant: a turn that completed before this head's checks started counts.
AllowStale(r) ==
  /\ open /\ checks[head] = "green"
  /\ stage[r] = "over" /\ result[r] # None
  /\ VerdictApproves(r)
  /\ RootHead # None /\ Chain.end = "found"
  /\ TrailerAgrees

\* evaluate(p, r, ledger)
Allow(r) ==
  /\ open /\ checks[head] = "green"
  /\ stage[r] = "over" /\ result[r] # None
  /\ VerdictApproves(r)
  /\ RootHead # None /\ Chain.end = "found"
  /\ TrailerAgrees
  /\ head \in fresh[r]

\* MainStatusReason: main's last run, and whether the operator overrides it.
MainRun == {"success", "failure", "queued", "none", "unreadable"}
MainPermits(run, override) == run \in {"success", "unreadable"} \/ override

\* Evaluate
MayMerge(r, run, override) == Allow(r) /\ MainPermits(run, override)
Permitted(r) == Allow(r) /\ \E run \in MainRun, override \in BOOLEAN : MayMerge(r, run, override)

Next ==
  \/ \E a \in Author :
       \/ AuthorStarts(a) \/ AuthorCommits(a) \/ AuthorPulls(a) \/ AuthorPushes(a)
       \/ AuthorCompletes(a) \/ AuthorFails(a)
  \/ OutsiderPushes \/ Close
  \/ \E c \in Commit :
       ChecksStart(c) \/ (\E conclusion \in {"green", "red"} : ChecksEnd(c, conclusion))
  \/ \E r \in Reviewer : ReviewerStarts(r) \/ Comments(r) \/ ReviewerCompletes(r)

Spec == Init /\ [][Next]_vars

-------------------------------------------------------------------------------
(* Properties. *)

\* gate.go's condition 2c: every commit of a pull request the gate permits was
\* made by a turn the ledger records as complete, or taken over from the branch
\* by one that was running.  Neither a commit pushed from outside nor the work
\* of a turn that never completed gets in on the branch's name alone.
EveryCommitAccounted ==
  \A r \in Reviewer : Permitted(r) =>
    \A c \in Line[head] :
      by[c] \in {records[i].id : i \in DOMAIN records} \/ c \in pulled

\* The comparison with the checks' start: a review that was over before a
\* commit was first pushed never counts for it, signed or not, however the head
\* moved in between.  (One that was over while the head was elsewhere may: see
\* the README.)
ReviewedOncePushed ==
  \A r \in Reviewer : Permitted(r) => head \in closedAt[r]

\* An unbroken sequence of records, each one's base the head of the one before,
\* from the root's head to the pull request's.
Unbroken ==
  /\ RootHead # None
  /\ \A S \in SUBSET Commit :
       RootHead \in S /\ (\A c \in S : \A i \in Hops(c) : records[i].head \in S)
         => head \in S

Legitimate(r) ==
  /\ open /\ checks[head] = "green"
  /\ stage[r] = "over" /\ head \in fresh[r] /\ result[r] = "approved"
  /\ comment[r] # None /\ comment[r].verdict = "approved"
  /\ comment[r].sha \in {None, head}
  /\ Unbroken

\* gate.go's conditions are also enough: where no two fix passes continue from
\* one commit, a pull request that meets them is permitted, whichever of its
\* authors its trailer names, and unreadable CI on main does not hold it up.
LegitimateAllowed ==
  \A r \in Reviewer :
    Legitimate(r) /\ (\A c \in Commit : Cardinality(Hops(c)) <= 1)
      => MayMerge(r, "unreadable", FALSE)
===============================================================================
