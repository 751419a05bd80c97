------------------------------- MODULE Dispatch -------------------------------
(***************************************************************************)
(* `estate dispatch` (main.go) and the two housekeepers that race it:      *)
(* the sweep of dead turns' worktrees (internal/sweep), run by every       *)
(* dispatch before its pressure gate and by `estate sweep-worktrees`, and  *)
(* `estate reclaim --apply` (internal/reclaim), which frees slots.         *)
(*                                                                         *)
(* Each task is one dispatch invocation: a dispatcher process, the turn it *)
(* launches, and the worktree the turn works in.  They share the ledger    *)
(* (Ledger.tla, here the table it implements) and the disk.  Any process   *)
(* may be killed between two steps, and the host may reboot.               *)
(***************************************************************************)
EXTENDS Integers, FiniteSets, TaskState, Reclaim

CONSTANTS
  Task,          \* dispatch invocations, by id
  Author,        \* those dispatched with role=author
  Console,       \* shells in which `sweep-worktrees --apply` is run
  MaxInFlight,   \* pressure.Limits.MaxInFlight
  MaxWorktrees,  \* pressure.Limits.MaxWorktrees
  MaxSweep,      \* main.go, maxSweepPerRun
  Lingers,       \* TRUE: a turn's descendants may hold its output open
  MaxBoots,      \* bound on the boot epoch
  NoRecord, NoTask

ASSUME RoleAssumption == Author \subseteq Task
ASSUME DistinctAssumption == Console \cap Task = {} /\ NoTask \notin Task
ASSUME LimitAssumption ==
  /\ MaxInFlight \in Nat /\ MaxWorktrees \in Nat /\ MaxSweep \in Nat
  /\ MaxBoots \in Nat \ {0}
ASSUME LingersAssumption == Lingers \in BOOLEAN

\* What later readers use of a record: its state, whether it names a pid and a
\* worktree, whether it carries the HEAD the estate observed, and when it was
\* stamped.
Record == [state : State, pid : BOOLEAN, tree : BOOLEAN, head : BOOLEAN, at : 1..MaxBoots]
ASSUME NoRecordAssumption == NoRecord \notin Record

Sweeper == Task \cup Console

VARIABLES
  ledger,    \* the current record of each task
  pc,        \* where each dispatcher is
  turn,      \* each turn: "none", "running", "exited", "failed" or "killed"
  pipe,      \* a descendant of the ended turn still holds its output open
  tree,      \* the worktrees on disk
  work,      \* what each worktree holds: nothing, unsaved or saved work
  out,       \* the outcome record each dispatcher is building
  sweep,     \* the sweep each sweeper is running
  reclaim,   \* the reclaim in progress
  boot,      \* the host's boot epoch
  (* For the properties only. *)
  misjudged, \* the turns a probe found dead that were running
  beside     \* those recorded while a dispatch was between its check and its record

vars == <<ledger, pc, turn, pipe, tree, work, out, sweep, reclaim, boot, misjudged, beside>>
worldVars == <<turn, pipe, tree, work, boot>>
history == <<misjudged, beside>>

Nothing == [u \in Task |-> NoRecord]

\* The records a sweep has yet to judge, how many worktrees it has removed, the
\* one it is at, and whether it has found nothing unsaved in it.
NoSweep == [on |-> FALSE, left |-> Nothing, removed |-> 0, victim |-> NoTask,
            approved |-> FALSE]

\* The records a reclaim has yet to assess, and those it will append as failed.
NoReclaim == [on |-> FALSE, left |-> Nothing, doomed |-> Nothing]

Stage == {"idle", "sweeping", "checking", "creating", "starting", "recording",
          "waiting", "observing", "removing", "reporting", "done", "exited"}

Table == [Task -> Record \cup {NoRecord}]

TypeOK ==
  /\ ledger \in Table
  /\ pc \in [Task -> Stage]
  /\ turn \in [Task -> {"none", "running", "exited", "failed", "killed"}]
  /\ pipe \in [Task -> BOOLEAN]
  /\ tree \in SUBSET Task
  /\ work \in [Task -> {"clean", "unsaved", "saved"}]
  /\ out \in Table
  /\ sweep \in [Sweeper -> [on : BOOLEAN, left : Table,
                            removed : 0..MaxSweep, victim : Task \cup {NoTask},
                            approved : BOOLEAN]]
  /\ reclaim \in [on : BOOLEAN, left : Table, doomed : Table]
  /\ boot \in 1..MaxBoots
  /\ misjudged \in SUBSET Task
  /\ beside \in [Task -> SUBSET Task]

Init ==
  /\ ledger = Nothing
  /\ pc = [t \in Task |-> "idle"]
  /\ turn = [t \in Task |-> "none"]
  /\ pipe = [t \in Task |-> FALSE]
  /\ tree = {}
  /\ work = [t \in Task |-> "clean"]
  /\ out = Nothing
  /\ sweep = [p \in Sweeper |-> NoSweep]
  /\ reclaim = NoReclaim
  /\ boot = 1
  /\ misjudged = {}
  /\ beside = [t \in Task |-> {}]

-------------------------------------------------------------------------------
(* Reading the world. *)

InFlight == {t \in Task : ledger[t] # NoRecord /\ ~Terminal(ledger[t].state)}

Ended(t) == turn[t] \in {"exited", "failed", "killed"}

\* One look at a record's pid, on a host whose boot time may be unreadable.
Condemns(u, r) ==
  \E seen \in Observation, b \in {0, boot} :
    /\ Assess(r.pid, r.at, b, seen)
    /\ misjudged' = misjudged \cup (IF Misleads(turn[u] = "running", seen) THEN {u} ELSE {})
    /\ UNCHANGED beside

Spares(r) ==
  /\ \E seen \in Observation, b \in {0, boot} : ~Assess(r.pid, r.at, b, seen)
  /\ UNCHANGED history

\* Mutant: the worktree is removed whatever it holds.
RemovableAlways(u) == u \in tree

\* isolate.CheckRemovable: nothing here is only here (see Worktree).
Removable(u) == u \in tree /\ work[u] # "unsaved"

Goto(d, stage) == pc' = [pc EXCEPT ![d] = stage]
Put(t, r) == ledger' = [ledger EXCEPT ![t] = r]

-------------------------------------------------------------------------------
(* The sweep: sweepWorktrees and sweep.Run, over one reading of the ledger. *)

SweepBegin(p) ==
  sweep' = [sweep EXCEPT ![p] = [NoSweep EXCEPT !.on = TRUE, !.left = ledger]]

\* A dispatch sweeps before it asks whether there is room for it.
DispatchSweeps(d) ==
  /\ pc[d] = "idle"
  /\ SweepBegin(d) /\ Goto(d, "sweeping")
  /\ UNCHANGED <<ledger, out, reclaim, worldVars, history>>

ConsoleSweeps(c) ==
  /\ ~sweep[c].on
  /\ SweepBegin(c)
  /\ UNCHANGED <<ledger, pc, out, reclaim, worldVars, history>>

\* Mutant: a record in flight is swept without looking at its process.
CorpseUnprobed(u, r) ==
  r.tree /\ u \in tree /\ r.state # "unknown" /\ UNCHANGED history

\* judge offers the worktree of a terminal record, or of one in flight whose
\* process is gone; never that of an unknown one.
Corpse(u, r) ==
  /\ r.tree /\ u \in tree
  /\ \/ Terminal(r.state) /\ UNCHANGED history
     \/ r.state = "dispatched" /\ Condemns(u, r)

NotCorpse(u, r) ==
  \/ (~r.tree \/ u \notin tree \/ r.state = "unknown") /\ UNCHANGED history
  \/ r.state = "dispatched" /\ Spares(r)

Judging(p) == sweep[p].on /\ sweep[p].victim = NoTask

Judges(p, u) == Judging(p) /\ sweep[p].left[u] # NoRecord

SweepPasses(p, u) ==
  /\ Judges(p, u)
  /\ \/ NotCorpse(u, sweep[p].left[u])
     \/ sweep[p].removed = MaxSweep /\ UNCHANGED history
  /\ sweep' = [sweep EXCEPT ![p].left[u] = NoRecord]
  /\ UNCHANGED <<ledger, pc, out, reclaim, worldVars>>

SweepOffers(p, u) ==
  /\ Judges(p, u)
  /\ Corpse(u, sweep[p].left[u]) /\ sweep[p].removed < MaxSweep
  /\ sweep' = [sweep EXCEPT ![p] = [@ EXCEPT !.left[u] = NoRecord, !.victim = u]]
  /\ UNCHANGED <<ledger, pc, out, reclaim, worldVars>>

\* Reattach, and CheckRemovable finds nothing that refuses.
SweepApproves(p) ==
  /\ sweep[p].victim # NoTask /\ ~sweep[p].approved /\ Removable(sweep[p].victim)
  /\ sweep' = [sweep EXCEPT ![p].approved = TRUE]
  /\ UNCHANGED <<ledger, pc, out, reclaim, worldVars, history>>

\* git worktree remove and branch -D, whatever a turn that runs has done since.
SweepRemoves(p) ==
  /\ sweep[p].approved /\ sweep[p].victim \in tree
  /\ tree' = tree \ {sweep[p].victim}
  /\ sweep' = [sweep EXCEPT ![p] =
       [@ EXCEPT !.victim = NoTask, !.approved = FALSE, !.removed = sweep[p].removed + 1]]
  /\ UNCHANGED <<ledger, pc, out, reclaim, turn, pipe, work, boot, history>>

\* Mutant: an attempt that removes nothing is charged to the bound.
SweepRefusedCharged(p) ==
  /\ sweep[p].victim # NoTask
  /\ sweep' = [sweep EXCEPT ![p] =
       [@ EXCEPT !.victim = NoTask, !.approved = FALSE, !.removed = sweep[p].removed + 1]]
  /\ UNCHANGED <<ledger, pc, out, reclaim, worldVars, history>>

\* Reattach or Remove refuses or fails: nothing toward the bound.
SweepRefused(p) ==
  /\ sweep[p].victim # NoTask
  /\ sweep' = [sweep EXCEPT ![p] = [@ EXCEPT !.victim = NoTask, !.approved = FALSE]]
  /\ UNCHANGED <<ledger, pc, out, reclaim, worldVars, history>>

SweepEnds(p) ==
  /\ Judging(p) /\ sweep[p].left = Nothing
  /\ sweep' = [sweep EXCEPT ![p] = NoSweep]
  /\ pc' = (IF p \in Task THEN [pc EXCEPT ![p] = "checking"] ELSE pc)
  /\ UNCHANGED <<ledger, out, reclaim, worldVars, history>>

-------------------------------------------------------------------------------
(* The dispatcher. *)

\* Mutant: off by one at the cap.
AdmitOneMore(d) ==
  /\ pc[d] = "checking"
  /\ Cardinality(tree) + 1 <= MaxWorktrees
  /\ Cardinality(InFlight) <= MaxInFlight
  /\ Goto(d, "creating")
  /\ UNCHANGED <<ledger, out, sweep, reclaim, worldVars, history>>

\* pressure.Check passes: the worktrees, the main checkout among them, are
\* within the ceiling and the lanes in flight below the cap.
Admit(d) ==
  /\ pc[d] = "checking"
  /\ Cardinality(tree) + 1 <= MaxWorktrees
  /\ Cardinality(InFlight) < MaxInFlight
  /\ Goto(d, "creating")
  /\ UNCHANGED <<ledger, out, sweep, reclaim, worldVars, history>>

\* Any of its readings refuses, or cannot be taken.
Refuse(d) ==
  /\ pc[d] = "checking"
  /\ Goto(d, "exited")
  /\ UNCHANGED <<ledger, out, sweep, reclaim, worldVars, history>>

\* isolate.Create or CreateOnBranch; it can fail having made the worktree.
Create(d) ==
  /\ pc[d] = "creating"
  /\ tree' = tree \cup {d}
  /\ \E stage \in {"starting", "exited"} : Goto(d, stage)
  /\ UNCHANGED <<ledger, out, sweep, reclaim, turn, pipe, work, boot, history>>

\* Creating the worktree, or building the turn in it, fails.
GiveUp(d) ==
  /\ pc[d] \in {"creating", "starting"}
  /\ Goto(d, "exited")
  /\ UNCHANGED <<ledger, out, sweep, reclaim, worldVars, history>>

\* cmd.Start fails: recorded failed, with neither pid nor worktree.
StartFails(d) ==
  /\ pc[d] = "starting"
  /\ Put(d, [state |-> "failed", pid |-> FALSE, tree |-> FALSE, head |-> FALSE, at |-> boot])
  /\ Goto(d, "exited")
  /\ UNCHANGED <<out, sweep, reclaim, worldVars, history>>

Start(d) ==
  /\ pc[d] = "starting"
  /\ turn' = [turn EXCEPT ![d] = "running"]
  /\ Goto(d, "recording")
  /\ UNCHANGED <<ledger, out, sweep, reclaim, pipe, tree, work, boot, history>>

\* Admitted, and not recorded yet.
OnItsWay(d) == pc[d] \in {"creating", "starting", "recording"}

RecordDispatch(d) ==
  /\ pc[d] = "recording"
  /\ Put(d, [state |-> "dispatched", pid |-> TRUE, tree |-> TRUE, head |-> FALSE, at |-> boot])
  /\ Goto(d, "waiting")
  /\ beside' = [e \in Task |-> CASE e = d     -> {}
                               [] OnItsWay(e) -> beside[e] \cup {d}
                               [] OTHER       -> beside[e]]
  /\ UNCHANGED <<out, sweep, reclaim, worldVars, misjudged>>

\* The ledger cannot be written: the dispatcher exits and the turn runs on.
RecordFails(d) ==
  /\ pc[d] \in {"recording", "reporting"}
  /\ Goto(d, "exited")
  /\ out' = [out EXCEPT ![d] = NoRecord]
  /\ UNCHANGED <<ledger, sweep, reclaim, worldVars, history>>

\* What the recorded state says: killed at the bound, or the bound passed
\* since, is unknown; so is an exit 0 whose result cannot be read.
Outcomes(end) ==
  CASE end = "killed" -> {"unknown"}
    [] end = "failed" -> {"failed", "unknown"}
    [] end = "exited" -> {"complete", "unknown"}

\* Mutant: the outcome record does not repeat the worktree.
WaitForgettingTree(d) ==
  /\ pc[d] = "waiting" /\ Ended(d) /\ ~pipe[d]
  /\ \E s \in Outcomes(turn[d]) :
       out' = [out EXCEPT ![d] =
         [state |-> s, pid |-> TRUE, tree |-> FALSE, head |-> FALSE, at |-> boot]]
  /\ Goto(d, "observing")
  /\ UNCHANGED <<ledger, sweep, reclaim, worldVars, history>>

\* cmd.Wait returns once the process has ended and its output is closed.
Wait(d) ==
  /\ pc[d] = "waiting" /\ Ended(d) /\ ~pipe[d]
  /\ \E s \in Outcomes(turn[d]) :
       out' = [out EXCEPT ![d] =
         [state |-> s, pid |-> TRUE, tree |-> TRUE, head |-> FALSE, at |-> boot]]
  /\ Goto(d, "observing")
  /\ UNCHANGED <<ledger, sweep, reclaim, worldVars, history>>

\* An author's HEAD is read from its worktree; a failure leaves it empty.
ObserveHead(d) ==
  /\ pc[d] = "observing"
  /\ \E read \in BOOLEAN :
       /\ read => d \in Author /\ d \in tree
       /\ out' = [out EXCEPT ![d].head = read]
  /\ Goto(d, IF Terminal(out[d].state) THEN "removing" ELSE "reporting")
  /\ UNCHANGED <<ledger, sweep, reclaim, worldVars, history>>

TearDown(d) ==
  /\ pc[d] = "removing"
  /\ \/ Removable(d) /\ tree' = tree \ {d}
     \/ UNCHANGED tree
  /\ Goto(d, "reporting")
  /\ UNCHANGED <<ledger, out, sweep, reclaim, turn, pipe, work, boot, history>>

Report(d) ==
  /\ pc[d] = "reporting"
  /\ Put(d, [out[d] EXCEPT !.at = boot])
  /\ Goto(d, "done")
  /\ out' = [out EXCEPT ![d] = NoRecord]
  /\ UNCHANGED <<sweep, reclaim, worldVars, history>>

-------------------------------------------------------------------------------
(* The turn. *)

\* It edits, commits, or pushes.
Work(t, w) ==
  /\ turn[t] = "running" /\ t \in tree /\ w # work[t]
  /\ work' = [work EXCEPT ![t] = w]
  /\ UNCHANGED <<ledger, pc, out, sweep, reclaim, turn, pipe, tree, boot, history>>

TurnEnds(t, end, held) ==
  /\ turn[t] = "running" /\ (held => Lingers)
  /\ turn' = [turn EXCEPT ![t] = end]
  /\ pipe' = [pipe EXCEPT ![t] = held]
  /\ UNCHANGED <<ledger, pc, out, sweep, reclaim, tree, work, boot, history>>

\* The turn exits by itself, or is killed by somebody else.
TurnExits(t) ==
  \E end \in {"exited", "failed"}, held \in BOOLEAN : TurnEnds(t, end, held)

\* Mutant: the bound ends with the launch of the turn.
TimeoutWhileLaunching(t) ==
  /\ pc[t] = "recording"
  /\ \E held \in BOOLEAN : TurnEnds(t, "killed", held)

\* exec kills the process, and only it, when the 45 minutes are over.
Timeout(t) ==
  /\ pc[t] \in {"recording", "waiting"}
  /\ \E held \in BOOLEAN : TurnEnds(t, "killed", held)

PipeCloses(t) ==
  /\ pipe[t]
  /\ pipe' = [pipe EXCEPT ![t] = FALSE]
  /\ UNCHANGED <<ledger, pc, out, sweep, reclaim, turn, tree, work, boot, history>>

-------------------------------------------------------------------------------
(* `estate reclaim --apply`: read, assess every record, then append. *)

ReclaimBegins ==
  /\ ~reclaim.on
  /\ reclaim' = [NoReclaim EXCEPT !.on = TRUE,
                !.left = [u \in Task |-> IF u \in InFlight THEN ledger[u] ELSE NoRecord]]
  /\ UNCHANGED <<ledger, pc, out, sweep, worldVars, history>>

ReclaimDooms(u) ==
  /\ reclaim.left[u] # NoRecord /\ Condemns(u, reclaim.left[u])
  /\ reclaim' = [reclaim EXCEPT !.left[u] = NoRecord, !.doomed[u] = reclaim.left[u]]
  /\ UNCHANGED <<ledger, pc, out, sweep, worldVars>>

ReclaimKeeps(u) ==
  /\ reclaim.left[u] # NoRecord /\ Spares(reclaim.left[u])
  /\ reclaim' = [reclaim EXCEPT !.left[u] = NoRecord]
  /\ UNCHANGED <<ledger, pc, out, sweep, worldVars>>

\* The record appended is the one read before the assessment, as failed.
ReclaimApplies(u) ==
  /\ reclaim.left = Nothing /\ reclaim.doomed[u] # NoRecord
  /\ Put(u, [reclaim.doomed[u] EXCEPT !.state = "failed"])
  /\ reclaim' = [reclaim EXCEPT !.doomed[u] = NoRecord]
  /\ UNCHANGED <<pc, out, sweep, worldVars, history>>

\* It is done, its append fails, or it is killed.
ReclaimEnds ==
  /\ reclaim.on
  /\ reclaim' = NoReclaim
  /\ UNCHANGED <<ledger, pc, out, sweep, worldVars, history>>

-------------------------------------------------------------------------------
(* Failures of processes and of the host. *)

\* SIGKILL: no teardown runs, and the turn outlives its dispatcher.
Crash(d) ==
  /\ pc[d] \notin {"idle", "done", "exited"}
  /\ Goto(d, "exited")
  /\ sweep' = [sweep EXCEPT ![d] = NoSweep]
  /\ out' = [out EXCEPT ![d] = NoRecord]
  /\ UNCHANGED <<ledger, reclaim, worldVars, history>>

Reboot ==
  /\ boot < MaxBoots
  /\ boot' = boot + 1
  /\ pc' = [d \in Task |-> IF pc[d] \in {"idle", "done"} THEN pc[d] ELSE "exited"]
  /\ turn' = [t \in Task |-> IF turn[t] = "running" THEN "failed" ELSE turn[t]]
  /\ pipe' = [t \in Task |-> FALSE]
  /\ sweep' = [p \in Sweeper |-> NoSweep]
  /\ reclaim' = NoReclaim
  /\ out' = Nothing
  /\ UNCHANGED <<ledger, tree, work, history>>

-------------------------------------------------------------------------------
DispatcherStep(d) ==
  \/ DispatchSweeps(d) \/ Admit(d) \/ Refuse(d) \/ Create(d) \/ GiveUp(d)
  \/ StartFails(d) \/ Start(d) \/ RecordDispatch(d) \/ RecordFails(d)
  \/ Wait(d) \/ ObserveHead(d) \/ TearDown(d) \/ Report(d)

SweepStep(p) ==
  \/ SweepApproves(p) \/ SweepRemoves(p) \/ SweepRefused(p) \/ SweepEnds(p)
  \/ \E u \in Task : SweepPasses(p, u) \/ SweepOffers(p, u)

ReclaimStep ==
  \/ ReclaimBegins \/ ReclaimEnds
  \/ \E u \in Task : ReclaimDooms(u) \/ ReclaimKeeps(u) \/ ReclaimApplies(u)

TurnStep(t) ==
  \/ TurnExits(t) \/ Timeout(t) \/ PipeCloses(t)
  \/ \E w \in {"unsaved", "saved"} : Work(t, w)

Next ==
  \/ \E d \in Task : DispatcherStep(d) \/ TurnStep(d) \/ Crash(d)
  \/ \E c \in Console : ConsoleSweeps(c)
  \/ \E p \in Sweeper : SweepStep(p)
  \/ ReclaimStep
  \/ Reboot

Spec == Init /\ [][Next]_vars

\* Dispatchers run until they are killed, and exec kills a turn at its bound.
\* Every dispatch sweeps and operators reclaim, so both recur; neither is
\* always killed, refused by an unreachable origin, or shown a reused pid.
Fairness ==
  /\ \A d \in Task :
       /\ WF_vars(DispatcherStep(d)) /\ WF_vars(Timeout(d))
  /\ \A c \in Console :
       /\ WF_vars(ConsoleSweeps(c)) /\ WF_vars(SweepStep(c))
       /\ SF_vars(SweepApproves(c)) /\ SF_vars(SweepRemoves(c))
  /\ WF_vars(ReclaimStep)
  /\ \A u \in Task : SF_vars(ReclaimDooms(u)) /\ SF_vars(ReclaimApplies(u))

FairSpec == Spec /\ Fairness

-------------------------------------------------------------------------------
(* Properties. *)

\* A running turn's record never says its slot is free, whatever sweeps,
\* reclaims, timeouts and restarts happen around it, unless a probe did not show the
\* process that was there (reclaim.go, Assess).
LiveTurnHoldsSlot ==
  \A t \in Task :
    turn[t] = "running" /\ ledger[t] # NoRecord /\ t \notin misjudged =>
      ~Terminal(ledger[t].state)

\* No housekeeper removes the worktree under a running turn, with the same
\* exception (sweep.go, judge).
LiveTurnKeepsTree ==
  \A t \in Task : turn[t] = "running" /\ t \notin misjudged => t \in tree

\* Work nobody has collected stays on disk, though its dispatcher, the host or its
\* ledger record may be long gone, and even if the turn was taken for dead: all that
\* a sweep can lose is what such a turn writes between the sweep's check and its
\* removal (sweep.go, isolate.go).
UnsavedWorkKept ==
  [][\A t \in Task :
       work[t] = "unsaved" /\ t \in tree /\ t \notin tree' =>
         t \in misjudged /\ \E p \in Sweeper : sweep[p].victim = t /\ sweep[p].approved]_vars

\* The turns whose records must be holding slots.
Counted ==
  {t \in Task : turn[t] = "running" /\ ledger[t] # NoRecord /\ t \notin misjudged}

\* The cap is checked long before the slot is taken.  Even so a dispatch on its way
\* finds fewer turns running than the cap, but for those recorded while it was on its
\* way: dispatches that do not overlap never pass the cap, and n that do pass it by
\* less than n (pressure.go, Check; main.go).
OvershootIsOverlap ==
  \A d \in Task :
    OnItsWay(d) => Cardinality(Counted) < MaxInFlight + Cardinality(beside[d])

\* What the estate observed of an author's HEAD stays in its current record,
\* for the merge gate to join a pull request to ("authorship can never be
\* destroyed by a cancel", ledger.go).
AuthorshipKept ==
  [][\A t \in Task : ledger[t] # NoRecord /\ ledger[t].head => ledger'[t].head]_vars

\* A turn is over within its bound, and its dispatcher records how
\* (main.go, the 45-minute context and the outcome append).
DispatchResolves == \A d \in Task : pc[d] = "waiting" ~> pc[d] \in {"done", "exited"}

\* The slot of a turn that ended without a terminal record is not occupied for
\* ever (reclaim.go).
DeadTurnFreesSlot ==
  \A t \in Task : Ended(t) /\ t \in InFlight ~> t \notin InFlight

\* A terminal turn's worktree that holds nothing uncollected is removed in the
\* end, however many others refuse removal before it (sweep.go, Run).
CorpseSwept ==
  \A t \in Task :
    (/\ ledger[t] # NoRecord /\ Terminal(ledger[t].state) /\ ledger[t].tree
     /\ Removable(t) /\ turn[t] # "running") ~> t \notin tree

\* One dispatch's worktree, as Worktree too implements it.
Site(t) ==
  INSTANCE Worksite WITH there <- t \in tree, unsaved <- work[t] = "unsaved",
    approved <- \E p \in Sweeper : sweep[p].victim = t /\ sweep[p].approved
===============================================================================
