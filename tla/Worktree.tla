------------------------------- MODULE Worktree -------------------------------
(***************************************************************************)
(* internal/isolate: the git worktree one dispatched turn works in, and    *)
(* the teardown that must never destroy work nobody has collected.         *)
(*                                                                         *)
(* The turn's own commits are numbered 1..tip along one line from the      *)
(* commit the worktree was created at, 0.  A fresh dispatch has them on    *)
(* its own branch dispatch/<id>; a fix pass works on a detached            *)
(* HEAD.  origin's copy of the branch and the pull requests merged from it *)
(* belong to the forge.                                                    *)
(***************************************************************************)
EXTENDS Integers

CONSTANTS
  Remover,     \* processes that may call Remove: the dispatcher, sweeps
  Owner,       \* the one of them that created the worktree
  Strays,      \* TRUE: the turn may check out something else while commits
               \* of its own are on its branch alone
  Reaps,       \* TRUE: the OS may clean the temporary directory
  MaxCommits   \* bound on the turn's commits

ASSUME RemoverAssumption == Owner \in Remover
ASSUME FlagAssumption == Strays \in BOOLEAN /\ Reaps \in BOOLEAN
ASSUME MaxCommitsAssumption == MaxCommits \in Nat

Commit == 0..MaxCommits
Main == -1      \* HEAD at a commit of main that a merged pull request holds
NoBranch == -1  \* origin has no copy of the branch

VARIABLES
  dir,       \* the directory: "whole", "broken" (.git gone, files left),
             \* "hollow" (no file left) or "gone"
  entry,     \* the repository still has the worktree's entry, and its HEAD
  branch,    \* the local branch dispatch/<id> exists
  tip,       \* the turn's last commit
  head,      \* where the worktree's HEAD is
  attached,  \* HEAD is the branch, not a commit
  dirt,      \* uncommitted content: "clean", "superseded" or "unique"
  remote,    \* origin's tip of the branch, or NoBranch
  merged,    \* the last of the turn's commits in a merged pull request
  live,      \* the turn's process is running
  pc,        \* what each remover is about to do
  detached,  \* what each remover believes of HEAD
  forced,    \* whether its `git worktree remove` carries --force
  (* For the properties only. *)
  overtaken  \* something was written since the remover's last look

vars == <<dir, entry, branch, tip, head, attached, dirt, remote, merged, live,
          pc, detached, forced, overtaken>>
treeVars == <<dir, entry, branch, head, attached, dirt>>
forgeVars == <<remote, merged>>
removerVars == <<pc, detached, forced>>

TypeOK ==
  /\ dir \in {"whole", "broken", "hollow", "gone"}
  /\ entry \in BOOLEAN /\ branch \in BOOLEAN /\ attached \in BOOLEAN
  /\ live \in BOOLEAN
  /\ tip \in Commit /\ merged \in Commit
  /\ head \in Commit \cup {Main}
  /\ remote \in Commit \cup {NoBranch}
  /\ dirt \in {"clean", "superseded", "unique"}
  /\ pc \in [Remover -> {"idle", "checking", "hollow", "emptying", "removing", "unbranching"}]
  /\ detached \in [Remover -> BOOLEAN]
  /\ forced \in [Remover -> BOOLEAN]
  /\ overtaken \in [Remover -> BOOLEAN]

Init ==
  /\ dir = "whole" /\ entry = TRUE
  /\ tip = 0 /\ head = 0 /\ dirt = "clean"
  /\ merged = 0 /\ live = TRUE
  /\ \E fixPass \in BOOLEAN :  \* CreateOnBranch, or Create
       /\ branch = ~fixPass /\ attached = ~fixPass
       /\ remote = (IF fixPass THEN 0 ELSE NoBranch)
       /\ detached = [r \in Remover |-> fixPass]
  /\ pc = [r \in Remover |-> "idle"]
  /\ forced = [r \in Remover |-> FALSE]
  /\ overtaken = [r \in Remover |-> FALSE]

\* Something is written after a remover's last look and before it removes.
Overtake(stages) ==
  overtaken' = [r \in Remover |-> overtaken[r] \/ pc[r] \in stages]

-------------------------------------------------------------------------------
(* The turn. *)

Working == live /\ dir = "whole"

TurnCommits ==
  /\ Working /\ head = tip /\ tip < MaxCommits
  /\ attached = ~detached[Owner]  \* where Create or CreateOnBranch put it
  /\ tip' = tip + 1 /\ head' = tip + 1 /\ dirt' = "clean"
  /\ Overtake({"removing", "unbranching"})
  /\ UNCHANGED <<dir, entry, branch, attached, forgeVars, live, removerVars>>

TurnEdits(d) ==
  /\ Working
  /\ dirt' = d
  /\ Overtake(IF d = "unique" THEN {"removing", "unbranching"} ELSE {})
  /\ UNCHANGED <<dir, entry, branch, tip, head, attached, forgeVars, live, removerVars>>

\* git push origin HEAD:<branch>, refused unless it is a fast-forward.
TurnPushes ==
  /\ Working /\ head > remote
  /\ remote' = head
  /\ UNCHANGED <<treeVars, tip, merged, live, removerVars, overtaken>>

Saved(c) == c <= merged \/ (remote # NoBranch /\ c <= remote)

\* git checkout --detach, to the base or to main.  A fix pass that left
\* unsaved commits would lose them by itself: they are on HEAD alone.
TurnSwitches(c) ==
  /\ Working
  /\ (Strays /\ ~detached[Owner]) \/ tip = 0 \/ Saved(tip)
  /\ head' = c /\ attached' = FALSE
  /\ UNCHANGED <<dir, entry, branch, tip, dirt, forgeVars, live, removerVars, overtaken>>

TurnEnds ==
  /\ live
  /\ live' = FALSE
  /\ UNCHANGED <<treeVars, tip, forgeVars, removerVars, overtaken>>

-------------------------------------------------------------------------------
(* The forge and the operating system. *)

\* A pull request from the branch is merged, and the branch deleted or not.
Merge(delete) ==
  /\ remote > merged
  /\ merged' = remote
  /\ remote' = (IF delete THEN NoBranch ELSE remote)
  /\ UNCHANGED <<treeVars, tip, live, removerVars, overtaken>>

\* The per-user temporary directory loses files nothing used for days.
Reap(d) ==
  /\ Reaps /\ ~live
  /\ <<dir, d>> \in {<<"whole", "broken">>, <<"whole", "hollow">>, <<"broken", "hollow">>}
  /\ dir' = d
  /\ UNCHANGED <<entry, branch, tip, head, attached, dirt, forgeVars, live, removerVars,
                 overtaken>>

\* Some other process writes into the emptied directory.
Refill ==
  /\ Reaps /\ dir = "hollow"
  /\ dir' = "broken"
  /\ Overtake({"emptying"})
  /\ UNCHANGED <<entry, branch, tip, head, attached, dirt, forgeVars, live, removerVars>>

-------------------------------------------------------------------------------
(* Removal. *)

\* Committed looks at HEAD alone.
Committed == head # 0

\* A live fetch of the branch, then merge-base --is-ancestor.
RemoteHasCommit == remote # NoBranch /\ head # Main /\ head <= remote

\* Mutant: nothing but origin's branch can vouch for a commit.
LandedNever == FALSE

\* A merged pull request holds HEAD: one of this branch, or one on main.
Landed == head = Main \/ head <= merged

\* Mutant: a clean status is enough, whatever was committed.
RemovableIfTidy == dirt # "unique"

\* CheckRemovable, given answers from git, origin and the forge.
Removable ==
  /\ Committed => RemoteHasCommit \/ Landed
  /\ dirt # "unique"

\* The dispatcher calls Remove after Wait, with the Worktree it created.  A
\* sweep has a terminal record's word, or a probe's, that the turn is over, and
\* either may be wrong (see Dispatch).  It reattaches, which reads HEAD and
\* hands a hollow directory to ReconcileHollowCorpse.
Reattach(r) ==
  /\ pc[r] = "idle"
  /\ \/ /\ r = Owner /\ ~live
        /\ pc' = [pc EXCEPT ![r] = "checking"]
        /\ UNCHANGED detached
     \/ /\ r # Owner /\ dir = "whole"
        /\ pc' = [pc EXCEPT ![r] = "checking"]
        /\ detached' = [detached EXCEPT ![r] = ~attached]
     \/ /\ r # Owner /\ dir = "hollow"
        /\ pc' = [pc EXCEPT ![r] = "hollow"]
        /\ UNCHANGED detached
  /\ UNCHANGED <<treeVars, tip, forgeVars, live, forced, overtaken>>

Advance(r, stage) == pc' = [pc EXCEPT ![r] = stage]

Stop(r) == Advance(r, "idle") /\ overtaken' = [overtaken EXCEPT ![r] = FALSE]

\* Mutant: the shell goes on ReattachAt's word, without the second look.
ReconfirmUnchecked(r) ==
  /\ pc[r] = "hollow"
  /\ Advance(r, "emptying")
  /\ UNCHANGED <<treeVars, tip, forgeVars, live, detached, forced, overtaken>>

\* ReconcileHollowCorpse looks again, and goes on only if it is hollow still.
Reconfirm(r) ==
  /\ pc[r] = "hollow"
  /\ Advance(r, IF dir = "hollow" THEN "emptying" ELSE "idle")
  /\ UNCHANGED <<treeVars, tip, forgeVars, live, detached, forced, overtaken>>

\* os.RemoveAll takes the directory and whatever is in it by now; the entry stays.
RemoveShell(r) ==
  /\ pc[r] = "emptying"
  /\ dir' = "gone"
  /\ Stop(r)
  /\ UNCHANGED <<entry, branch, tip, head, attached, dirt, forgeVars, live, detached, forced>>

\* CheckRemovable finds nothing that refuses.
Approve(r) ==
  /\ pc[r] = "checking" /\ dir = "whole" /\ Removable
  /\ forced' = [forced EXCEPT ![r] = dirt = "superseded"]
  /\ Advance(r, "removing")
  /\ UNCHANGED <<treeVars, tip, forgeVars, live, detached, overtaken>>

\* It refuses, or git, origin or the forge could not be asked.
Refuse(r) ==
  /\ pc[r] = "checking"
  /\ Stop(r)
  /\ UNCHANGED <<treeVars, tip, forgeVars, live, detached, forced>>

\* git worktree remove [--force]; without --force git itself refuses dirt.
RemoveTree(r) ==
  /\ pc[r] = "removing" /\ dir = "whole" /\ (forced[r] \/ dirt = "clean")
  /\ dir' = "gone" /\ entry' = FALSE
  /\ IF detached[r] THEN Stop(r) ELSE Advance(r, "unbranching") /\ UNCHANGED overtaken
  /\ UNCHANGED <<branch, tip, head, attached, dirt, forgeVars, live, detached, forced>>

RemoveTreeFails(r) ==
  /\ pc[r] = "removing"
  /\ Stop(r)
  /\ UNCHANGED <<treeVars, tip, forgeVars, live, detached, forced>>

\* git branch -D
DeleteBranch(r) ==
  /\ pc[r] = "unbranching"
  /\ branch' = FALSE
  /\ Stop(r)
  /\ UNCHANGED <<dir, entry, tip, head, attached, dirt, forgeVars, live, detached, forced>>

\* The remover is killed between two of its steps.
Crash(r) ==
  /\ pc[r] # "idle"
  /\ Stop(r)
  /\ UNCHANGED <<treeVars, tip, forgeVars, live, detached, forced>>

-------------------------------------------------------------------------------
Next ==
  \/ TurnCommits \/ TurnPushes \/ TurnEnds \/ Refill
  \/ \E d \in {"clean", "superseded", "unique"} : TurnEdits(d)
  \/ \E c \in {0, Main} : TurnSwitches(c)
  \/ \E delete \in BOOLEAN : Merge(delete)
  \/ \E d \in {"broken", "hollow"} : Reap(d)
  \/ \E r \in Remover :
       \/ Reattach(r) \/ Reconfirm(r) \/ RemoveShell(r) \/ Approve(r) \/ Refuse(r)
       \/ RemoveTree(r) \/ RemoveTreeFails(r) \/ DeleteBranch(r) \/ Crash(r)

Spec == Init /\ [][Next]_vars

\* Every dispatch begins with a sweep, so sweeps recur; git, origin and the
\* forge are not unreachable for ever, not every sweep is killed, and a
\* `git worktree remove` that cannot succeed fails.
Fairness ==
  \A r \in Remover \ {Owner} :
    /\ WF_vars(Reattach(r)) /\ WF_vars(RemoveTreeFails(r))
    /\ SF_vars(Approve(r)) /\ SF_vars(RemoveTree(r))

FairSpec == Spec /\ Fairness

-------------------------------------------------------------------------------
(* Properties. *)

Held == branch \/ (entry /\ head = tip)

\* Tearing a worktree down, through any interleaving of removers, merges and
\* kills, a turn still at work under a sweep included, never takes the last
\* reference to commits origin does not have, unless the turn overtook the remover:
\* it committed after CheckRemovable had looked (isolate.go, Remove).
CommitsKept ==
  [][Held /\ ~Held' =>
       Saved(tip) \/ tip = 0 \/ \E r \in Remover : overtaken[r]]_vars

\* A directory is deleted only when its uncommitted content is on origin's
\* main already, or when no file was left in it.  What is written after the last
\* look is lost only to a removal that nothing guards: a forced one, and that of a
\* hollow shell (isolate.go, DirtyStatus, Remove and ReconcileHollowCorpse).
ContentKept ==
  [][dir # "gone" /\ dir' = "gone" =>
       \/ dir = "hollow"
       \/ dir = "whole" /\ dirt # "unique"
       \/ \E r \in Remover :
            overtaken[r] /\ (pc[r] = "emptying" \/ (pc[r] = "removing" /\ forced[r]))]_vars

\* Finished work that a merge collected does not hold its worktree for ever,
\* though the merge deleted origin's branch (isolate.go, the Landed seam).
CollectedTreeRemoved ==
  (~live /\ dir = "whole" /\ dirt # "unique" /\ (tip = 0 \/ merged = tip))
    ~> dir # "whole"

\* What a dispatch expects of its worktree, as long as the turn does not leave its
\* commits and nothing but a remover deletes files.
OnlyHere == ~(tip = 0 \/ Saved(tip)) \/ dirt = "unique"

Site ==
  INSTANCE Worksite WITH there <- dir # "gone", unsaved <- OnlyHere,
                         approved <- \E r \in Remover : pc[r] = "removing"
===============================================================================
