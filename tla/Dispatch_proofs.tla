--------------------------- MODULE Dispatch_proofs ---------------------------
(* No housekeeper takes the slot or the worktree of a turn that runs, unless *)
(* a probe has shown that turn as dead; no work is lost even then but what    *)
(* is written after the last check; and the cap is passed by overlap alone,   *)
(* for any number of tasks, sweepers, slots, worktrees and reboots.           *)
EXTENDS Dispatch, FiniteSetTheorems, TLAPS

\* A turn that runs and that no probe has shown as dead.
Alive(u) == turn[u] = "running" /\ u \notin misjudged

\* Before its turn starts a task has no record, and its dispatcher's worktree
\* is there by the time it starts.
NotStarted ==
  \A d \in Task :
    /\ pc[d] \in {"idle", "sweeping", "checking", "creating", "starting"} =>
         turn[d] = "none" /\ ledger[d] = NoRecord
    /\ pc[d] = "starting" => d \in tree

\* A dispatcher that sweeps is at the stage for it.
OwnSweep == \A d \in Task : sweep[d].on => pc[d] = "sweeping"

\* A dispatcher past Wait has an outcome of an ended turn in hand.
TurnOver ==
  \A d \in Task :
    pc[d] \in {"observing", "removing", "reporting"} => Ended(d) /\ out[d] # NoRecord

\* What a table of records, read now or earlier, says of the turns that are alive
\* now: dispatched in this boot.  A task it lists is past its start.
Sound(table) ==
  \A u \in Task : table[u] # NoRecord =>
    /\ ledger[u] # NoRecord
    /\ Alive(u) => table[u].state = "dispatched" /\ table[u].at = boot

Snapshots ==
  /\ Sound(ledger) /\ Sound(reclaim.left)
  /\ \A p \in Sweeper : Sound(sweep[p].left)

\* What a housekeeper has found dead had started, and is no longer alive.
Condemned ==
  /\ \A u \in Task : reclaim.doomed[u] # NoRecord =>
       ledger[u] # NoRecord /\ ~Alive(u)
  /\ \A p \in Sweeper : sweep[p].victim # NoTask =>
       /\ ledger[sweep[p].victim] # NoRecord /\ ~Alive(sweep[p].victim)
       /\ sweep[p].removed < MaxSweep

\* What a sweep is about to remove held nothing unsaved, and holds nothing now but
\* what a misjudged turn has written since.
Approved ==
  \A p \in Sweeper : sweep[p].approved =>
    /\ sweep[p].victim # NoTask
    /\ work[sweep[p].victim] = "unsaved" => sweep[p].victim \in misjudged

LivingKeepTree == \A t \in Task : Alive(t) => t \in tree

IInv ==
  /\ TypeOK /\ NotStarted /\ OwnSweep /\ TurnOver /\ Snapshots /\ Condemned
  /\ LivingKeepTree /\ Approved

-------------------------------------------------------------------------------
\* A probe that condemns the record of a turn that runs, in the boot it was recorded
\* in, did not show the process that was there (reclaim.go, Assess).
LEMMA LivingNotDead ==
  ASSUME TypeOK, NEW u \in Task, NEW r \in Record,
         Alive(u) => r.at = boot, Condemns(u, r)
  PROVE  /\ turn[u] = "running" => u \in misjudged'
         /\ misjudged \subseteq misjudged' /\ misjudged' \in SUBSET Task
         /\ beside' = beside
<1>1. PICK seen \in Observation, b \in {0, boot} :
        /\ Assess(r.pid, r.at, b, seen)
        /\ misjudged' = misjudged \cup (IF Misleads(turn[u] = "running", seen) THEN {u} ELSE {})
  BY DEF Condemns
<1>2. misjudged \subseteq misjudged' /\ misjudged' \in SUBSET Task  BY <1>1 DEF TypeOK
<1>3. ASSUME Alive(u) PROVE u \in misjudged'
  <2>1. r.at = boot /\ boot \in Nat /\ boot > 0  BY <1>3 DEF TypeOK
  <2>2. seen \in {"absent", "foreign", "later"}  BY <1>1, <2>1 DEF Assess
  <2> QED  BY <1>1, <1>3, <2>2 DEF Misleads, Alive
<1> QED  BY <1>2, <1>3 DEF Alive, Condemns

SweepState == [on : BOOLEAN, left : Table, removed : 0..MaxSweep,
               victim : Task \cup {NoTask}, approved : BOOLEAN]

\* One sweep moves on.
LEMMA SweepMoves ==
  ASSUME TypeOK, NEW p \in Sweeper, NEW s \in SweepState,
         sweep' = [sweep EXCEPT ![p] = s]
  PROVE  sweep' \in [Sweeper -> SweepState]
BY DEF TypeOK, SweepState

LEMMA NoSweepType == NoSweep \in SweepState
BY LimitAssumption DEF NoSweep, SweepState, Table, Nothing

LEMMA NewSweepType ==
  ASSUME TypeOK PROVE [NoSweep EXCEPT !.on = TRUE, !.left = ledger] \in SweepState
BY NoSweepType DEF TypeOK, SweepState

\* A record that may be put over any other: that of a turn which does not run,
\* or one that says it does.
LEMMA PutKeepsSound ==
  ASSUME IInv, NEW d \in Task, NEW r \in Record, Put(d, r),
         Alive(d) => r.state = "dispatched" /\ r.at = boot,
         UNCHANGED <<turn, boot, sweep, misjudged, reclaim.left>>,
         \A u \in Task : reclaim'.doomed[u] \in {reclaim.doomed[u], NoRecord}
  PROVE  /\ ledger' \in Table
         /\ Snapshots' /\ Condemned'
<1>1. ledger' \in Table /\ ledger'[d] = r /\ \A u \in Task \ {d} : ledger'[u] = ledger[u]
  BY DEF IInv, TypeOK, Put, Table
<1>2. \A u \in Task : ledger[u] # NoRecord => ledger'[u] # NoRecord
  BY <1>1, NoRecordAssumption
<1>3. Sound(ledger)'
  BY <1>1, NoRecordAssumption DEF IInv, Snapshots, Sound, Alive
<1>4. Sound(reclaim.left)' /\ \A p \in Sweeper : Sound(sweep[p].left)'
  BY <1>2 DEF IInv, Snapshots, Sound, Alive
<1>5. \A p \in Sweeper : sweep[p].victim # NoTask => sweep[p].victim \in Task
  BY DEF IInv, TypeOK
<1>6. Condemned'
  BY <1>2, <1>5 DEF IInv, Condemned, Alive
<1> QED  BY <1>1, <1>3, <1>4, <1>6 DEF Snapshots

\* A sweep may move to any state whose records are sound, and whose victim, if it
\* has one, is not alive and holds nothing unsaved if it is approved.
LEMMA SweepKeepsSound ==
  ASSUME IInv, NEW p \in Sweeper, NEW s \in SweepState,
         sweep' = [sweep EXCEPT ![p] = s], UNCHANGED <<ledger, turn, work, boot, reclaim>>,
         misjudged \subseteq misjudged',
         Sound(s.left),
         s.victim # NoTask =>
           /\ ledger[s.victim] # NoRecord /\ s.removed < MaxSweep
           /\ turn[s.victim] = "running" => s.victim \in misjudged',
         s.approved =>
           /\ s.victim # NoTask
           /\ work[s.victim] = "unsaved" => s.victim \in misjudged',
         \A d \in Task : pc'[d] = IF d = p THEN pc'[d] ELSE pc[d],
         p \in Task /\ s.on => pc'[p] = "sweeping"
  PROVE  /\ sweep' \in [Sweeper -> SweepState]
         /\ OwnSweep' /\ Snapshots' /\ Condemned' /\ Approved'
<1>1. sweep' \in [Sweeper -> SweepState]  BY SweepMoves DEF IInv
<1>2. sweep'[p] = s /\ \A q \in Sweeper \ {p} : sweep'[q] = sweep[q]
  BY DEF IInv, TypeOK
<1>3. OwnSweep'  BY <1>2 DEF IInv, OwnSweep, Sweeper
<1>4. Snapshots'
  <2>1. \A q \in Sweeper : Sound(sweep[q].left)'
    BY <1>2 DEF IInv, Snapshots, Sound, Alive
  <2> QED  BY <2>1 DEF IInv, Snapshots, Sound, Alive
<1>5. Condemned'  BY <1>2 DEF IInv, Condemned, Alive
<1>6. Approved'  BY <1>2 DEF IInv, Approved
<1> QED  BY <1>1, <1>3, <1>4, <1>5, <1>6

-------------------------------------------------------------------------------
(* The invariant holds after each action.                                    *)

LEMMA DispatchSweepsKeepsIInv ==
  ASSUME IInv, NEW d \in Task, DispatchSweeps(d)
  PROVE  IInv'
<1> DEFINE s == [NoSweep EXCEPT !.on = TRUE, !.left = ledger]
<1>1. s \in SweepState /\ s.left = ledger /\ s.victim = NoTask /\ ~s.approved
  BY NewSweepType DEF IInv, NoSweep
<1>2. Sound(s.left)  BY <1>1 DEF IInv, Snapshots
<1>3. pc' \in [Task -> Stage] /\ pc' = [pc EXCEPT ![d] = "sweeping"]
  BY DEF IInv, TypeOK, DispatchSweeps, Goto, Stage
<1>4. sweep' \in [Sweeper -> SweepState] /\ OwnSweep' /\ Snapshots' /\ Condemned' /\ Approved'
  <2> HIDE DEF s
  <2>1. sweep' = [sweep EXCEPT ![d] = s]  BY DEF DispatchSweeps, SweepBegin, s
  <2>2. d \in Sweeper /\ pc'[d] = "sweeping" /\ \A e \in Task \ {d} : pc'[e] = pc[e]
    BY <1>3 DEF IInv, TypeOK, Sweeper
  <2> QED
    BY <1>1, <1>2, <2>1, <2>2, SweepKeepsSound DEF DispatchSweeps, worldVars, history
<1>5. TypeOK'  BY <1>3, <1>4 DEF IInv, TypeOK, DispatchSweeps, worldVars, history, SweepState
<1>6. NotStarted' /\ TurnOver'
  BY <1>3 DEF IInv, TypeOK, NotStarted, TurnOver, Ended, DispatchSweeps, worldVars, history
<1> QED
  BY <1>4, <1>5, <1>6 DEF IInv, Alive, LivingKeepTree, Approved, DispatchSweeps, worldVars, history

LEMMA AdmitKeepsIInv ==
  ASSUME IInv, NEW d \in Task, Admit(d)
  PROVE  IInv'
<1>1. TypeOK'  BY DEF IInv, TypeOK, Admit, Goto, InFlight, worldVars, history, Stage
<1>2. NotStarted'  BY DEF IInv, TypeOK, NotStarted, Admit, Goto, InFlight, worldVars, history
<1>3. OwnSweep'  BY DEF IInv, TypeOK, OwnSweep, Sweeper, Admit, Goto, InFlight, worldVars, history
<1>4. TurnOver'  BY DEF IInv, TypeOK, TurnOver, Ended, Admit, Goto, InFlight, worldVars, history
<1> QED
  BY <1>1, <1>2, <1>3, <1>4 DEF IInv, Snapshots, Sound, Alive, Condemned,
     Alive, LivingKeepTree, Approved, Admit, Goto, InFlight, worldVars, history

LEMMA RefuseKeepsIInv ==
  ASSUME IInv, NEW d \in Task, Refuse(d)
  PROVE  IInv'
<1>1. TypeOK'  BY DEF IInv, TypeOK, Refuse, Goto, worldVars, history, Stage
<1>2. NotStarted'  BY DEF IInv, TypeOK, NotStarted, Refuse, Goto, worldVars, history
<1>3. OwnSweep'  BY DEF IInv, TypeOK, OwnSweep, Sweeper, Refuse, Goto, worldVars, history
<1>4. TurnOver'  BY DEF IInv, TypeOK, TurnOver, Ended, Refuse, Goto, worldVars, history
<1> QED
  BY <1>1, <1>2, <1>3, <1>4 DEF IInv, Snapshots, Sound, Alive, Condemned,
     Alive, LivingKeepTree, Approved, Refuse, Goto, worldVars, history

LEMMA CreateKeepsIInv ==
  ASSUME IInv, NEW d \in Task, Create(d)
  PROVE  IInv'
<1>1. TypeOK'  BY DEF IInv, TypeOK, Create, history, Goto, Stage
<1>2. NotStarted'  BY DEF IInv, TypeOK, NotStarted, Create, history, Goto
<1>3. OwnSweep'  BY DEF IInv, TypeOK, OwnSweep, Sweeper, Create, history, Goto
<1>4. TurnOver'  BY DEF IInv, TypeOK, TurnOver, Ended, Create, history, Goto
<1>5. LivingKeepTree'  BY DEF IInv, TypeOK, Alive, LivingKeepTree, Create, history, Goto
<1>6. Approved'  BY DEF IInv, TypeOK, Approved, Create, history, Goto
<1> QED
  BY <1>1, <1>2, <1>3, <1>4, <1>5, <1>6 DEF IInv, Snapshots, Sound, Alive, Condemned,
     Create, history, Goto

LEMMA GiveUpKeepsIInv ==
  ASSUME IInv, NEW d \in Task, GiveUp(d)
  PROVE  IInv'
<1>1. TypeOK'  BY DEF IInv, TypeOK, GiveUp, Goto, worldVars, history, Stage
<1>2. NotStarted'  BY DEF IInv, TypeOK, NotStarted, GiveUp, Goto, worldVars, history
<1>3. OwnSweep'  BY DEF IInv, TypeOK, OwnSweep, Sweeper, GiveUp, Goto, worldVars, history
<1>4. TurnOver'  BY DEF IInv, TypeOK, TurnOver, Ended, GiveUp, Goto, worldVars, history
<1> QED
  BY <1>1, <1>2, <1>3, <1>4 DEF IInv, Snapshots, Sound, Alive, Condemned,
     Alive, LivingKeepTree, Approved, GiveUp, Goto, worldVars, history

LEMMA StartFailsKeepsIInv ==
  ASSUME IInv, NEW d \in Task, StartFails(d)
  PROVE  IInv'
<1> DEFINE r == [state |-> "failed", pid |-> FALSE, tree |-> FALSE, head |-> FALSE, at |-> boot]
<1>1. r \in Record  BY DEF IInv, TypeOK, Record, State
<1>2. turn[d] = "none"  BY DEF IInv, NotStarted, StartFails
<1>3. pc' \in [Task -> Stage] /\ pc' = [pc EXCEPT ![d] = "exited"]
  BY DEF IInv, TypeOK, StartFails, Goto, Stage
<1>4. ledger' \in Table /\ Snapshots' /\ Condemned'
  <2>1. Put(d, r)  BY DEF StartFails
  <2> HIDE DEF r
  <2> QED  BY <1>1, <1>2, <2>1, PutKeepsSound DEF StartFails, Alive, worldVars, history
<1>5. TypeOK'  BY <1>3, <1>4 DEF IInv, TypeOK, StartFails, worldVars, history
<1>6. NotStarted' /\ TurnOver'
  BY <1>3 DEF IInv, TypeOK, NotStarted, TurnOver, Ended, StartFails, Put, worldVars, history
<1>7. OwnSweep'  BY <1>3 DEF IInv, TypeOK, OwnSweep, StartFails
<1> QED
  BY <1>4, <1>5, <1>6, <1>7 DEF IInv, Alive, LivingKeepTree, Approved, StartFails, worldVars, history

LEMMA StartKeepsIInv ==
  ASSUME IInv, NEW d \in Task, Start(d)
  PROVE  IInv'
<1>1. TypeOK'  BY DEF IInv, TypeOK, Start, history, Goto, Stage
<1>2. NotStarted'  BY DEF IInv, TypeOK, NotStarted, Start, history, Goto
<1>3. OwnSweep'  BY DEF IInv, TypeOK, OwnSweep, Sweeper, Start, history, Goto
<1>4. TurnOver'  BY DEF IInv, TypeOK, TurnOver, Ended, Start, history, Goto
<1>5. Snapshots'  BY DEF IInv, TypeOK, Snapshots, Sound, Alive, Start, history, Goto, Sweeper, NotStarted
<1>6. Condemned'  BY DEF IInv, TypeOK, Alive, Condemned, Start, history, Goto, Sweeper, NotStarted
<1>7. LivingKeepTree'  BY DEF IInv, TypeOK, Alive, LivingKeepTree, Start, history, Goto, NotStarted
<1> QED
  BY <1>1, <1>2, <1>3, <1>4, <1>5, <1>6, <1>7 DEF IInv, Approved, Start, history, Goto

LEMMA RecordDispatchKeepsIInv ==
  ASSUME IInv, NEW d \in Task, RecordDispatch(d)
  PROVE  IInv'
<1> DEFINE r == [state |-> "dispatched", pid |-> TRUE, tree |-> TRUE, head |-> FALSE, at |-> boot]
<1>1. r \in Record  BY DEF IInv, TypeOK, Record, State
<1>2. r.state = "dispatched" /\ r.at = boot  OBVIOUS
<1>3. pc' \in [Task -> Stage] /\ pc' = [pc EXCEPT ![d] = "waiting"]
  BY DEF IInv, TypeOK, RecordDispatch, Goto, Stage
<1>4. ledger' \in Table /\ Snapshots' /\ Condemned'
  <2>1. Put(d, r)  BY DEF RecordDispatch
  <2> HIDE DEF r
  <2> QED  BY <1>1, <1>2, <2>1, PutKeepsSound DEF RecordDispatch, worldVars, history
<1>5. TypeOK'  BY <1>3, <1>4 DEF IInv, TypeOK, RecordDispatch, worldVars, history
<1>6. NotStarted' /\ TurnOver'
  BY <1>3 DEF IInv, TypeOK, NotStarted, TurnOver, Ended, RecordDispatch, Put, worldVars, history
<1>7. OwnSweep'  BY <1>3 DEF IInv, TypeOK, OwnSweep, RecordDispatch
<1> QED
  BY <1>4, <1>5, <1>6, <1>7 DEF IInv, Alive, LivingKeepTree, Approved, RecordDispatch, worldVars, history

LEMMA RecordFailsKeepsIInv ==
  ASSUME IInv, NEW d \in Task, RecordFails(d)
  PROVE  IInv'
<1>1. TypeOK'
  BY DEF IInv, TypeOK, RecordFails, Goto, worldVars, history, Table, Record, State, Stage
<1>2. NotStarted'  BY DEF IInv, TypeOK, NotStarted, RecordFails, Goto, worldVars, history
<1>3. OwnSweep'  BY DEF IInv, TypeOK, OwnSweep, Sweeper, RecordFails, Goto, worldVars, history
<1>4. TurnOver'
  BY NoRecordAssumption DEF IInv, TypeOK, TurnOver, Ended, RecordFails, Goto,
     worldVars, history, Record, State, Table
<1> QED
  BY <1>1, <1>2, <1>3, <1>4 DEF IInv, Snapshots, Sound, Alive, Condemned,
     Alive, LivingKeepTree, Approved, RecordFails, Goto, worldVars, history

LEMMA WaitKeepsIInv ==
  ASSUME IInv, NEW d \in Task, Wait(d)
  PROVE  IInv'
<1>1. PICK s \in Outcomes(turn[d]) :
        out' = [out EXCEPT ![d] =
          [state |-> s, pid |-> TRUE, tree |-> TRUE, head |-> FALSE, at |-> boot]]
  BY DEF Wait
<1>2. s \in State  BY DEF Wait, Outcomes, Ended, State
<1> DEFINE r == [state |-> s, pid |-> TRUE, tree |-> TRUE, head |-> FALSE, at |-> boot]
<1>3. r \in Record  BY <1>2 DEF IInv, TypeOK, Record
<1>4. r # NoRecord /\ out' = [out EXCEPT ![d] = r]  BY <1>1, <1>3, NoRecordAssumption
<1> HIDE DEF r
<1>5. pc' \in [Task -> Stage] /\ pc' = [pc EXCEPT ![d] = "observing"]
  BY DEF IInv, TypeOK, Wait, Goto, Stage
<1>6. TypeOK'  BY <1>3, <1>4, <1>5 DEF IInv, TypeOK, Table, Wait, worldVars, history
<1>7. TurnOver'  BY <1>4, <1>5 DEF IInv, TypeOK, Table, TurnOver, Ended, Wait, worldVars, history
<1>8. NotStarted' /\ OwnSweep'
  BY <1>5 DEF IInv, TypeOK, NotStarted, OwnSweep, Wait, worldVars, history
<1> QED
  BY <1>6, <1>7, <1>8 DEF IInv, Snapshots, Sound, Alive, Condemned, Alive, LivingKeepTree,
     Approved, Wait, worldVars, history

LEMMA ObserveHeadKeepsIInv ==
  ASSUME IInv, NEW d \in Task, ObserveHead(d)
  PROVE  IInv'
<1>1. PICK read \in BOOLEAN : out' = [out EXCEPT ![d].head = read]
  BY DEF ObserveHead
<1>2. out[d] \in Record /\ Ended(d)  BY DEF IInv, TypeOK, Table, TurnOver, ObserveHead
<1> DEFINE r == [out[d] EXCEPT !.head = read]
           s == IF Terminal(out[d].state) THEN "removing" ELSE "reporting"
<1>3. r \in Record  BY <1>2 DEF Record
<1>4. r # NoRecord /\ out' = [out EXCEPT ![d] = r]  BY <1>1, <1>3, NoRecordAssumption
<1>5. s \in {"removing", "reporting"} /\ pc' = [pc EXCEPT ![d] = s]
  BY DEF ObserveHead, Goto
<1> HIDE DEF r, s
<1>6. pc' \in [Task -> Stage]  BY <1>5 DEF IInv, TypeOK, Stage
<1>7. TypeOK'  BY <1>3, <1>4, <1>6 DEF IInv, TypeOK, Table, ObserveHead, worldVars, history
<1>8. TurnOver'
  BY <1>2, <1>4, <1>5 DEF IInv, TypeOK, Table, TurnOver, Ended, ObserveHead, worldVars, history
<1>9. NotStarted' /\ OwnSweep'
  BY <1>5 DEF IInv, TypeOK, NotStarted, OwnSweep, ObserveHead, worldVars, history
<1> QED
  BY <1>7, <1>8, <1>9 DEF IInv, Snapshots, Sound, Alive, Condemned, Alive, LivingKeepTree,
     Approved, ObserveHead, worldVars, history

LEMMA TearDownKeepsIInv ==
  ASSUME IInv, NEW d \in Task, TearDown(d)
  PROVE  IInv'
<1>1. TypeOK'  BY DEF IInv, TypeOK, TearDown, history, Goto, Removable, Stage
<1>2. NotStarted'  BY DEF IInv, TypeOK, NotStarted, TearDown, history, Goto, Removable
<1>3. OwnSweep'  BY DEF IInv, TypeOK, OwnSweep, Sweeper, TearDown, history, Goto, Removable
<1>4. TurnOver'  BY DEF IInv, TypeOK, TurnOver, Ended, TearDown, history, Goto, Removable
<1>5. LivingKeepTree'
  BY DEF IInv, TypeOK, Alive, LivingKeepTree, TearDown, history, Goto, Removable, TurnOver, Ended
<1>6. Approved'  BY DEF IInv, TypeOK, Approved, TearDown, history, Goto, Removable
<1> QED
  BY <1>1, <1>2, <1>3, <1>4, <1>5, <1>6 DEF IInv, Snapshots, Sound, Alive, Condemned,
     TearDown, history, Goto, Removable

LEMMA ReportKeepsIInv ==
  ASSUME IInv, NEW d \in Task, Report(d)
  PROVE  IInv'
<1> DEFINE r == [out[d] EXCEPT !.at = boot]
<1>1. out[d] \in Record /\ turn[d] # "running"
  BY DEF IInv, TypeOK, Table, TurnOver, Ended, Report
<1>2. r \in Record  BY <1>1 DEF IInv, TypeOK, Record
<1>3. pc' \in [Task -> Stage] /\ pc' = [pc EXCEPT ![d] = "done"]
  BY DEF IInv, TypeOK, Report, Goto, Stage
<1>4. ledger' \in Table /\ Snapshots' /\ Condemned'
  <2>1. Put(d, r)  BY DEF Report
  <2> HIDE DEF r
  <2> QED  BY <1>1, <1>2, <2>1, PutKeepsSound DEF Report, Alive, worldVars, history
<1>5. TypeOK'  BY <1>3, <1>4 DEF IInv, TypeOK, Table, Report, worldVars, history
<1>6. NotStarted' /\ TurnOver'
  BY <1>3 DEF IInv, TypeOK, Table, NotStarted, TurnOver, Ended, Report, Put, worldVars, history
<1>7. OwnSweep'  BY <1>3 DEF IInv, TypeOK, OwnSweep, Report
<1> QED
  BY <1>4, <1>5, <1>6, <1>7 DEF IInv, Alive, LivingKeepTree, Approved, Report, worldVars, history

LEMMA TurnEndsKeepsIInv ==
  ASSUME IInv, NEW t \in Task, NEW end \in {"exited", "failed", "killed"}, NEW held \in BOOLEAN, TurnEnds(t, end, held)
  PROVE  IInv'
<1>1. TypeOK'  BY DEF IInv, TypeOK, TurnEnds, history
<1>2. NotStarted'  BY DEF IInv, TypeOK, NotStarted, TurnEnds, history
<1>3. TurnOver'  BY DEF IInv, TypeOK, TurnOver, Ended, TurnEnds, history
<1>4. Snapshots'  BY DEF IInv, TypeOK, Snapshots, Sound, Alive, TurnEnds, history, Sweeper
<1>5. Condemned'  BY DEF IInv, TypeOK, Alive, Condemned, TurnEnds, history, Sweeper
<1>6. LivingKeepTree'  BY DEF IInv, TypeOK, Alive, LivingKeepTree, TurnEnds, history
<1> QED
  BY <1>1, <1>2, <1>3, <1>4, <1>5, <1>6 DEF IInv, OwnSweep, Sweeper,
     Approved, TurnEnds, history

LEMMA PipeClosesKeepsIInv ==
  ASSUME IInv, NEW t \in Task, PipeCloses(t)
  PROVE  IInv'
<1>1. TypeOK'  BY DEF IInv, TypeOK, PipeCloses, history
<1> QED
  BY <1>1 DEF IInv, NotStarted, OwnSweep, Sweeper, TurnOver, Ended, Snapshots,
     Sound, Alive, Condemned, Alive, LivingKeepTree, Approved, PipeCloses, history

LEMMA WorkKeepsIInv ==
  ASSUME IInv, NEW t \in Task, NEW w \in {"unsaved", "saved"}, Work(t, w)
  PROVE  IInv'
<1>1. TypeOK'  BY DEF IInv, TypeOK, Work, history
<1>2. Approved'  BY DEF IInv, TypeOK, Approved, Condemned, Alive, Work, history
<1> QED
  BY <1>1, <1>2 DEF IInv, NotStarted, OwnSweep, Sweeper, TurnOver, Ended, Snapshots,
     Sound, Alive, Condemned, Alive, LivingKeepTree, Work, history

LEMMA CrashKeepsIInv ==
  ASSUME IInv, NEW d \in Task, Crash(d)
  PROVE  IInv'
<1>1. Sound(NoSweep.left) /\ ~NoSweep.on /\ NoSweep.victim = NoTask /\ ~NoSweep.approved
  BY DEF NoSweep, Sound, Alive, Nothing
<1>2. pc' \in [Task -> Stage] /\ pc' = [pc EXCEPT ![d] = "exited"]
  BY DEF IInv, TypeOK, Crash, Goto, Stage
<1>3. sweep' \in [Sweeper -> SweepState] /\ OwnSweep' /\ Snapshots' /\ Condemned' /\ Approved'
  <2>1. d \in Sweeper /\ \A e \in Task \ {d} : pc'[e] = pc[e]
    BY <1>2 DEF IInv, TypeOK, Sweeper
  <2> QED
    BY <1>1, <2>1, NoSweepType, SweepKeepsSound DEF Crash, worldVars, history
<1>4. TypeOK'  BY <1>2, <1>3 DEF IInv, TypeOK, Crash, worldVars, history, Table, SweepState
<1>5. NotStarted' /\ TurnOver'
  BY <1>2 DEF IInv, TypeOK, Table, NotStarted, TurnOver, Ended, Crash, worldVars, history
<1> QED
  BY <1>3, <1>4, <1>5 DEF IInv, Alive, LivingKeepTree, Approved, Crash, worldVars, history

LEMMA ConsoleSweepsKeepsIInv ==
  ASSUME IInv, NEW c \in Console, ConsoleSweeps(c)
  PROVE  IInv'
<1> DEFINE s == [NoSweep EXCEPT !.on = TRUE, !.left = ledger]
<1>1. s \in SweepState /\ s.left = ledger /\ s.victim = NoTask /\ ~s.approved
  BY NewSweepType DEF IInv, NoSweep
<1>2. Sound(s.left)  BY <1>1 DEF IInv, Snapshots
<1>3. sweep' \in [Sweeper -> SweepState] /\ OwnSweep' /\ Snapshots' /\ Condemned' /\ Approved'
  <2> HIDE DEF s
  <2>1. sweep' = [sweep EXCEPT ![c] = s]  BY DEF ConsoleSweeps, SweepBegin, s
  <2>2. c \in Sweeper /\ c \notin Task  BY DistinctAssumption DEF Sweeper
  <2> QED
    BY <1>1, <1>2, <2>1, <2>2, SweepKeepsSound DEF ConsoleSweeps, worldVars, history
<1>4. TypeOK'  BY <1>3 DEF IInv, TypeOK, ConsoleSweeps, worldVars, history, SweepState
<1> QED
  BY <1>3, <1>4 DEF IInv, NotStarted, TurnOver, Ended, Alive, LivingKeepTree,
     Approved, ConsoleSweeps, worldVars, history

LEMMA SweepApprovesKeepsIInv ==
  ASSUME IInv, NEW p \in Sweeper, SweepApproves(p)
  PROVE  IInv'
<1> DEFINE v == sweep[p].victim
           s == [sweep[p] EXCEPT !.approved = TRUE]
<1>1. /\ v # NoTask /\ ledger[v] # NoRecord /\ sweep[p].removed < MaxSweep
      /\ turn[v] = "running" => v \in misjudged
      /\ work[v] # "unsaved"
  BY DEF IInv, SweepApproves, Condemned, Alive, Removable
<1>2. s \in SweepState /\ s.victim = v /\ s.left = sweep[p].left /\ s.on = sweep[p].on
      /\ s.removed = sweep[p].removed
  BY DEF IInv, TypeOK, SweepState
<1>3. sweep' \in [Sweeper -> SweepState] /\ OwnSweep' /\ Snapshots' /\ Condemned' /\ Approved'
  <2>1. sweep' = [sweep EXCEPT ![p] = s]
    BY DEF SweepApproves, IInv, TypeOK
  <2> HIDE DEF s, v
  <2>2. Sound(s.left)  BY <1>2 DEF IInv, Snapshots
  <2>3. p \in Task /\ s.on => pc[p] = "sweeping"  BY <1>2 DEF IInv, OwnSweep
  <2>4. UNCHANGED <<ledger, turn, work, boot, reclaim, pc, misjudged>>
    BY DEF SweepApproves, worldVars, history
  <2> QED
    BY <1>1, <1>2, <2>1, <2>2, <2>3, <2>4, SweepKeepsSound
<1>4. TypeOK'  BY <1>3 DEF IInv, TypeOK, SweepApproves, worldVars, history, SweepState
<1> QED
  BY <1>3, <1>4 DEF IInv, NotStarted, TurnOver, Ended, Alive, LivingKeepTree,
     SweepApproves, worldVars, history

LEMMA SweepRemovesKeepsIInv ==
  ASSUME IInv, NEW p \in Sweeper, SweepRemoves(p)
  PROVE  IInv'
<1> DEFINE v == sweep[p].victim
           s == [sweep[p] EXCEPT !.victim = NoTask, !.approved = FALSE,
                                 !.removed = sweep[p].removed + 1]
<1>1. /\ v \in Task /\ ~Alive(v) /\ ledger[v] # NoRecord
      /\ sweep[p].removed < MaxSweep
  BY DistinctAssumption DEF IInv, TypeOK, SweepRemoves, Condemned
<1>2. /\ s \in SweepState /\ s.victim = NoTask /\ ~s.approved
      /\ s.left = sweep[p].left /\ s.on = sweep[p].on
  <2>1. sweep[p] \in SweepState  BY DEF IInv, TypeOK, SweepState
  <2>2. sweep[p].removed + 1 \in 0..MaxSweep
    BY <1>1, <2>1, LimitAssumption DEF SweepState
  <2> QED  BY <2>1, <2>2 DEF SweepState
<1>3. sweep' \in [Sweeper -> SweepState] /\ OwnSweep' /\ Snapshots' /\ Condemned' /\ Approved'
  <2>1. sweep' = [sweep EXCEPT ![p] = s]  BY DEF SweepRemoves
  <2> HIDE DEF s
  <2>2. Sound(s.left)  BY <1>2 DEF IInv, Snapshots
  <2>3. p \in Task /\ s.on => pc[p] = "sweeping"  BY <1>2 DEF IInv, OwnSweep
  <2> QED
    BY <1>2, <2>1, <2>2, <2>3, SweepKeepsSound DEF SweepRemoves, history
<1>4. TypeOK'  BY <1>3 DEF IInv, TypeOK, SweepRemoves, history, SweepState
<1>5. NotStarted'  BY <1>1 DEF IInv, NotStarted, SweepRemoves
<1>6. LivingKeepTree'  BY <1>1 DEF IInv, Alive, LivingKeepTree, SweepRemoves, history
<1> QED  BY <1>3, <1>4, <1>5, <1>6 DEF IInv, TurnOver, Ended, SweepRemoves

LEMMA SweepRefusedKeepsIInv ==
  ASSUME IInv, NEW p \in Sweeper, SweepRefused(p)
  PROVE  IInv'
<1> DEFINE s == [sweep[p] EXCEPT !.victim = NoTask, !.approved = FALSE]
<1>1. /\ s \in SweepState /\ s.victim = NoTask /\ ~s.approved
      /\ s.left = sweep[p].left /\ s.on = sweep[p].on
  BY DEF IInv, TypeOK, SweepState
<1>2. sweep' \in [Sweeper -> SweepState] /\ OwnSweep' /\ Snapshots' /\ Condemned' /\ Approved'
  <2>1. sweep' = [sweep EXCEPT ![p] = s]  BY DEF SweepRefused
  <2> HIDE DEF s
  <2>2. Sound(s.left)  BY <1>1 DEF IInv, Snapshots
  <2>3. p \in Task /\ s.on => pc[p] = "sweeping"  BY <1>1 DEF IInv, OwnSweep
  <2> QED
    BY <1>1, <2>1, <2>2, <2>3, SweepKeepsSound DEF SweepRefused, worldVars, history
<1>3. TypeOK'  BY <1>2 DEF IInv, TypeOK, SweepRefused, worldVars, history, SweepState
<1> QED
  BY <1>2, <1>3 DEF IInv, NotStarted, TurnOver, Ended, Alive, LivingKeepTree,
     SweepRefused, worldVars, history

LEMMA SweepEndsKeepsIInv ==
  ASSUME IInv, NEW p \in Sweeper, SweepEnds(p)
  PROVE  IInv'
<1>1. Sound(NoSweep.left) /\ ~NoSweep.on /\ NoSweep.victim = NoTask /\ ~NoSweep.approved
  BY DEF NoSweep, Sound, Alive, Nothing
<1>2. pc' \in [Task -> Stage] /\ \A d \in Task : pc'[d] = IF d = p THEN "checking" ELSE pc[d]
  BY DEF IInv, TypeOK, SweepEnds, Stage
<1>3. sweep' \in [Sweeper -> SweepState] /\ OwnSweep' /\ Snapshots' /\ Condemned' /\ Approved'
  BY <1>1, <1>2, NoSweepType, SweepKeepsSound DEF SweepEnds, worldVars, history
<1>4. TypeOK'  BY <1>2, <1>3 DEF IInv, TypeOK, SweepEnds, worldVars, history, SweepState
<1>5. NotStarted' /\ TurnOver'
  <2>1. p \in Task => pc[p] = "sweeping"  BY DEF IInv, OwnSweep, SweepEnds, Judging
  <2> QED
    BY <1>2, <2>1 DEF IInv, NotStarted, TurnOver, Ended, SweepEnds, worldVars, history
<1> QED
  BY <1>3, <1>4, <1>5 DEF IInv, Alive, LivingKeepTree, Approved, SweepEnds, worldVars, history

LEMMA SweepPassesKeepsIInv ==
  ASSUME IInv, NEW p \in Sweeper, NEW u \in Task, SweepPasses(p, u)
  PROVE  IInv'
<1> DEFINE s == [sweep[p] EXCEPT !.left = [sweep[p].left EXCEPT ![u] = NoRecord]]
<1>1. s \in SweepState /\ s.victim = NoTask /\ ~s.approved
  <2>1. sweep[p] \in SweepState  BY DEF IInv, TypeOK, SweepState
  <2>4. ~sweep[p].approved  BY DEF IInv, Approved, SweepPasses, Judges, Judging
  <2>2. sweep[p].victim = NoTask  BY DEF SweepPasses, Judges, Judging
  <2>3. [sweep[p].left EXCEPT ![u] = NoRecord] \in Table  BY <2>1 DEF SweepState, Table
  <2> QED  BY <2>1, <2>2, <2>3, <2>4 DEF SweepState
<1>0. UNCHANGED history  BY DEF SweepPasses, NotCorpse, Spares
<1>2. Sound(s.left) /\ s.on = sweep[p].on
  <2>1. sweep[p] \in SweepState  BY DEF IInv, TypeOK, SweepState
  <2>2. Sound(sweep[p].left)  BY DEF IInv, Snapshots
  <2> QED  BY <2>1, <2>2 DEF SweepState, Table, Sound, Alive
<1>3. sweep' \in [Sweeper -> SweepState] /\ OwnSweep' /\ Snapshots' /\ Condemned' /\ Approved'
  <2>1. sweep' = [sweep EXCEPT ![p] = s]  BY DEF SweepPasses
  <2> HIDE DEF s
  <2>2. p \in Task /\ s.on => pc[p] = "sweeping"  BY <1>2 DEF IInv, OwnSweep
  <2> QED
    BY <1>0, <1>1, <1>2, <2>1, <2>2, SweepKeepsSound DEF SweepPasses, worldVars, history
<1>4. TypeOK'  BY <1>0, <1>3 DEF IInv, TypeOK, SweepPasses, worldVars, history, SweepState
<1> QED
  BY <1>0, <1>3, <1>4 DEF IInv, NotStarted, TurnOver, Ended, Alive, LivingKeepTree,
     Approved, SweepPasses, worldVars, history

LEMMA SweepOffersKeepsIInv ==
  ASSUME IInv, NEW p \in Sweeper, NEW u \in Task, SweepOffers(p, u)
  PROVE  IInv'
<1> DEFINE r == sweep[p].left[u]
           s == [sweep[p] EXCEPT !.left = [sweep[p].left EXCEPT ![u] = NoRecord], !.victim = u]
<1>1. sweep[p] \in SweepState /\ Sound(sweep[p].left) /\ r \in Record /\ ~sweep[p].approved
  BY DEF IInv, TypeOK, SweepState, Table, SweepOffers, Judges, Judging, Snapshots, Approved
<1>2. /\ s \in SweepState /\ s.victim = u /\ s.removed < MaxSweep /\ s.on = sweep[p].on
      /\ ~s.approved
  BY <1>1 DEF SweepState, Table, SweepOffers
<1>3. Sound(s.left)  BY <1>1 DEF SweepState, Table, Sound, Alive
<1>4. ledger[u] # NoRecord /\ (Alive(u) => r.state = "dispatched" /\ r.at = boot)
  BY <1>1 DEF SweepOffers, Judges, Sound, Alive
<1>5. /\ turn[u] = "running" => u \in misjudged'
      /\ misjudged \subseteq misjudged' /\ misjudged' \in SUBSET Task
      /\ beside' = beside
  <2>1. CASE Terminal(r.state) /\ UNCHANGED history
    BY <1>4, <2>1 DEF Terminal, Alive, history, IInv, TypeOK
  <2>2. CASE Condemns(u, r)  BY <1>1, <1>4, <2>2, LivingNotDead DEF IInv
  <2> QED  BY <2>1, <2>2 DEF SweepOffers, Corpse
<1>6. sweep' \in [Sweeper -> SweepState] /\ OwnSweep' /\ Snapshots' /\ Condemned' /\ Approved'
  <2>1. sweep' = [sweep EXCEPT ![p] = s]  BY DEF SweepOffers
  <2> HIDE DEF s
  <2>2. p \in Task /\ s.on => pc[p] = "sweeping"  BY <1>2 DEF IInv, OwnSweep
  <2> QED
    BY <1>2, <1>3, <1>4, <1>5, <2>1, <2>2, SweepKeepsSound DEF SweepOffers, worldVars
<1>7. TypeOK'  BY <1>5, <1>6 DEF IInv, TypeOK, SweepOffers, worldVars, SweepState
<1> QED
  BY <1>5, <1>6, <1>7 DEF IInv, NotStarted, TurnOver, Ended, Alive, LivingKeepTree,
     SweepOffers, worldVars

LEMMA ReclaimBeginsKeepsIInv ==
  ASSUME IInv, ReclaimBegins
  PROVE  IInv'
<1>1. TypeOK'
  BY DEF IInv, TypeOK, ReclaimBegins, NoReclaim, InFlight, worldVars, history, Nothing, Table
<1>2. Snapshots'
  BY DEF IInv, TypeOK, Snapshots, Sound, Alive, ReclaimBegins, NoReclaim, InFlight,
     worldVars, history, Nothing, Sweeper
<1>3. Condemned'
  BY DEF IInv, TypeOK, Alive, Condemned, ReclaimBegins, NoReclaim, InFlight, worldVars, history,
     Nothing, Sweeper
<1> QED
  BY <1>1, <1>2, <1>3 DEF IInv, NotStarted, OwnSweep, Sweeper, TurnOver, Ended,
     Alive, LivingKeepTree, Approved, ReclaimBegins, NoReclaim, InFlight,
     worldVars, history, Nothing

LEMMA ReclaimEndsKeepsIInv ==
  ASSUME IInv, ReclaimEnds
  PROVE  IInv'
<1>1. TypeOK'  BY DEF IInv, TypeOK, ReclaimEnds, NoReclaim, worldVars, history, Nothing, Table
<1>2. Snapshots'
  BY DEF IInv, TypeOK, Snapshots, Sound, Alive, ReclaimEnds, NoReclaim, worldVars, history, Nothing,
     Sweeper
<1>3. Condemned'
  BY DEF IInv, TypeOK, Alive, Condemned, ReclaimEnds, NoReclaim, worldVars, history, Nothing,
     Sweeper
<1> QED
  BY <1>1, <1>2, <1>3 DEF IInv, NotStarted, OwnSweep, Sweeper, TurnOver, Ended,
     Alive, LivingKeepTree, Approved, ReclaimEnds, NoReclaim, worldVars, history, Nothing

LEMMA ReclaimDoomsKeepsIInv ==
  ASSUME IInv, NEW u \in Task, ReclaimDooms(u)
  PROVE  IInv'
<1> DEFINE r == reclaim.left[u]
<1>1. r \in Record /\ Sound(reclaim.left)
  BY DEF IInv, TypeOK, Table, ReclaimDooms, Snapshots
<1>2. ledger[u] # NoRecord /\ (Alive(u) => r.at = boot)
  BY <1>1 DEF ReclaimDooms, Sound, Alive
<1>3. /\ turn[u] = "running" => u \in misjudged'
      /\ misjudged \subseteq misjudged' /\ misjudged' \in SUBSET Task
      /\ beside' = beside
  BY <1>1, <1>2, LivingNotDead DEF IInv, ReclaimDooms
<1>4. TypeOK'  BY <1>3 DEF IInv, TypeOK, ReclaimDooms, worldVars, Table
<1>5. Snapshots'
  BY <1>3 DEF IInv, TypeOK, Table, Snapshots, Sound, Alive, ReclaimDooms, worldVars
<1>6. Condemned'
  BY <1>2, <1>3 DEF IInv, TypeOK, Table, Alive, Condemned, ReclaimDooms, worldVars
<1>7. Approved'  BY <1>3 DEF IInv, Approved, ReclaimDooms, worldVars
<1> QED
  BY <1>3, <1>4, <1>5, <1>6, <1>7 DEF IInv, NotStarted, OwnSweep, TurnOver, Ended,
     Alive, LivingKeepTree, ReclaimDooms, worldVars

LEMMA ReclaimKeepsKeepsIInv ==
  ASSUME IInv, NEW u \in Task, ReclaimKeeps(u)
  PROVE  IInv'
<1>0. UNCHANGED history  BY DEF ReclaimKeeps, Spares
<1>1. TypeOK'  BY <1>0 DEF IInv, TypeOK, ReclaimKeeps, worldVars, history, Table
<1>2. Snapshots'  BY <1>0 DEF IInv, TypeOK, Snapshots, Sound, Alive, ReclaimKeeps, worldVars, history, Sweeper
<1>3. Condemned'  BY <1>0 DEF IInv, TypeOK, Alive, Condemned, ReclaimKeeps, worldVars, history, Sweeper
<1> QED
  BY <1>0, <1>1, <1>2, <1>3 DEF IInv, NotStarted, OwnSweep, Sweeper, TurnOver, Ended,
     Alive, LivingKeepTree, Approved, ReclaimKeeps, worldVars, history

LEMMA ReclaimAppliesKeepsIInv ==
  ASSUME IInv, NEW u \in Task, ReclaimApplies(u)
  PROVE  IInv'
<1> DEFINE r == [reclaim.doomed[u] EXCEPT !.state = "failed"]
<1>1. reclaim.doomed[u] \in Record  BY DEF IInv, TypeOK, Table, ReclaimApplies
<1>2. r \in Record  BY <1>1 DEF Record, State
<1>3. ~Alive(u) /\ ledger[u] # NoRecord  BY DEF IInv, Alive, Condemned, ReclaimApplies
<1>4. /\ reclaim' \in [on : BOOLEAN, left : Table, doomed : Table]
      /\ reclaim'.left = reclaim.left
      /\ \A v \in Task : reclaim'.doomed[v] \in {reclaim.doomed[v], NoRecord}
  BY DEF IInv, TypeOK, Table, ReclaimApplies
<1>5. ledger' \in Table /\ Snapshots' /\ Condemned'
  <2>1. Put(u, r)  BY DEF ReclaimApplies
  <2> HIDE DEF r
  <2> QED  BY <1>2, <1>3, <1>4, <2>1, PutKeepsSound DEF ReclaimApplies, worldVars, history
<1>6. TypeOK'  BY <1>4, <1>5 DEF IInv, TypeOK, ReclaimApplies, worldVars, history
<1>7. NotStarted'
  BY <1>3 DEF IInv, TypeOK, Table, NotStarted, ReclaimApplies, Put, worldVars, history
<1> QED
  BY <1>5, <1>6, <1>7 DEF IInv, OwnSweep, TurnOver, Ended, Alive, LivingKeepTree,
     Approved, ReclaimApplies, worldVars, history

LEMMA RebootKeepsIInv ==
  ASSUME IInv, Reboot
  PROVE  IInv'
<1>1. TypeOK'
  <2>1. sweep' \in [Sweeper -> SweepState]  BY NoSweepType DEF Reboot
  <2>2. Nothing \in Table /\ boot' \in 1..MaxBoots
    BY LimitAssumption DEF IInv, TypeOK, Reboot, Nothing, Table
  <2>3. pc' \in [Task -> Stage]  BY DEF IInv, TypeOK, Reboot, Stage
  <2> QED
    BY <2>1, <2>2, <2>3 DEF IInv, TypeOK, Reboot, history, NoReclaim, SweepState
<1>2. NotStarted'  BY DEF IInv, TypeOK, NotStarted, Reboot, history, NoSweep, NoReclaim, Nothing
<1>3. OwnSweep'
  BY DistinctAssumption DEF IInv, TypeOK, OwnSweep, Sweeper, Reboot, history, NoSweep,
     NoReclaim, Nothing
<1>4. TurnOver'
  BY NoRecordAssumption DEF IInv, TypeOK, TurnOver, Ended, Reboot, history, NoSweep,
     NoReclaim, Nothing, Record, State, Table
<1>5. Snapshots'
  BY DistinctAssumption DEF IInv, TypeOK, Snapshots, Sound, Alive, Reboot, history, NoSweep,
     NoReclaim, Nothing, Sweeper
<1>6. Condemned'
  BY DistinctAssumption DEF IInv, TypeOK, Alive, Condemned, Reboot, history, NoSweep, NoReclaim,
     Nothing, Sweeper
<1>7. LivingKeepTree'
  BY DEF IInv, TypeOK, Alive, LivingKeepTree, Reboot, history, NoSweep, NoReclaim, Nothing
<1> QED
  BY <1>1, <1>2, <1>3, <1>4, <1>5, <1>6, <1>7 DEF IInv, Approved, Reboot, history,
     NoSweep, NoReclaim, Nothing

LEMMA InitIInv == Init => IInv
<1> SUFFICES ASSUME Init PROVE IInv  OBVIOUS
<1>1. TypeOK
  <2>1. sweep \in [Sweeper -> SweepState]  BY NoSweepType DEF Init
  <2>2. boot \in 1..MaxBoots  BY LimitAssumption DEF Init
  <2> QED  BY <2>1, <2>2 DEF Init, TypeOK, SweepState, Table, Nothing, NoReclaim, Stage
<1>2. NotStarted /\ OwnSweep /\ TurnOver
  BY DEF Init, NotStarted, OwnSweep, TurnOver, Nothing, NoSweep, Sweeper
<1>3. Snapshots /\ Condemned
  BY DEF Init, Snapshots, Alive, Condemned, Sound, Alive, Nothing, NoSweep, NoReclaim
<1> QED  BY <1>1, <1>2, <1>3 DEF Init, IInv, Alive, LivingKeepTree, Approved, NoSweep

LEMMA NextIInv == IInv /\ [Next]_vars => IInv'
<1> SUFFICES ASSUME IInv, [Next]_vars PROVE IInv'  OBVIOUS
<1>1. ASSUME NEW d \in Task, DispatcherStep(d) PROVE IInv'
  BY <1>1, DispatchSweepsKeepsIInv, AdmitKeepsIInv, RefuseKeepsIInv, CreateKeepsIInv,
     GiveUpKeepsIInv, StartFailsKeepsIInv, StartKeepsIInv, RecordDispatchKeepsIInv,
     RecordFailsKeepsIInv, WaitKeepsIInv, ObserveHeadKeepsIInv, TearDownKeepsIInv,
     ReportKeepsIInv DEF DispatcherStep
<1>2. ASSUME NEW t \in Task, TurnStep(t) PROVE IInv'
  BY <1>2, TurnEndsKeepsIInv, PipeClosesKeepsIInv, WorkKeepsIInv
     DEF TurnStep, TurnExits, Timeout
<1>3. ASSUME NEW p \in Sweeper, SweepStep(p) PROVE IInv'
  BY <1>3, SweepApprovesKeepsIInv, SweepRemovesKeepsIInv, SweepRefusedKeepsIInv, SweepEndsKeepsIInv,
     SweepPassesKeepsIInv, SweepOffersKeepsIInv DEF SweepStep
<1>4. ASSUME ReclaimStep PROVE IInv'
  BY <1>4, ReclaimBeginsKeepsIInv, ReclaimEndsKeepsIInv, ReclaimDoomsKeepsIInv,
     ReclaimKeepsKeepsIInv, ReclaimAppliesKeepsIInv DEF ReclaimStep
<1>5. CASE UNCHANGED vars
  BY <1>5 DEF vars, worldVars, history, IInv, TypeOK, NotStarted, OwnSweep, TurnOver, Ended,
     Snapshots, Sound, Alive, Condemned, LivingKeepTree, Approved
<1> QED
  BY <1>1, <1>2, <1>3, <1>4, <1>5, CrashKeepsIInv, ConsoleSweepsKeepsIInv,
     RebootKeepsIInv DEF Next

-------------------------------------------------------------------------------
(* The theorems, for any number of tasks, consoles, slots and reboots.       *)

LEMMA Invariant == Spec => []IInv
BY InitIInv, NextIInv, PTL DEF Spec

\* Every reachable state has the type the model declares.
THEOREM TypeCorrect == Spec => []TypeOK
<1>1. IInv => TypeOK  BY DEF IInv
<1> QED  BY <1>1, Invariant, PTL

\* Neither reclaim, sweep, timeout, kill nor reboot leaves a running turn with a
\* record that frees its slot, unless a probe has shown it as dead (reclaim.go, Assess).
THEOREM SlotHeld == Spec => []LiveTurnHoldsSlot
<1>1. IInv => LiveTurnHoldsSlot
  BY DEF IInv, Snapshots, Sound, Alive, LiveTurnHoldsSlot, Terminal
<1> QED  BY <1>1, Invariant, PTL

\* No dispatcher and no sweep, however stale the records it judges by, removes the
\* worktree a turn is running in, unless a probe has shown it as dead (sweep.go, judge).
THEOREM TreeKept == Spec => []LiveTurnKeepsTree
<1>1. IInv => LiveTurnKeepsTree  BY DEF IInv, LivingKeepTree, Alive, LiveTurnKeepsTree
<1> QED  BY <1>1, Invariant, PTL

-------------------------------------------------------------------------------
(* What is lost of the work in the worktrees.                                *)

\* Four kinds of step reach the worktrees.
LEMMA TreeSteps ==
  ASSUME [Next]_vars
  PROVE  \/ UNCHANGED <<tree, work>>
         \/ \E d \in Task : Create(d) \/ TearDown(d)
         \/ \E p \in Sweeper : SweepRemoves(p)
         \/ \E u \in Task, w \in {"unsaved", "saved"} : Work(u, w)
<1> DEFINE Still == UNCHANGED <<tree, work>>
<1>1. ASSUME NEW d \in Task, DispatcherStep(d), ~Create(d), ~TearDown(d) PROVE Still
  BY <1>1, SMTT(30) DEF DispatcherStep, DispatchSweeps, Admit, Refuse, GiveUp, StartFails,
     Start, RecordDispatch, RecordFails, Wait, ObserveHead, Report, worldVars
<1>2. ASSUME NEW u \in Task, TurnStep(u), ~ \E w \in {"unsaved", "saved"} : Work(u, w)
      PROVE  Still
  BY <1>2 DEF TurnStep, TurnExits, Timeout, TurnEnds, PipeCloses
<1>3. ASSUME NEW p \in Sweeper, SweepStep(p), ~SweepRemoves(p) PROVE Still
  BY <1>3 DEF SweepStep, SweepApproves, SweepRefused, SweepEnds, SweepPasses, SweepOffers,
     worldVars
<1>4. ASSUME ReclaimStep PROVE Still
  BY <1>4 DEF ReclaimStep, ReclaimBegins, ReclaimEnds, ReclaimDooms, ReclaimKeeps,
     ReclaimApplies, worldVars
<1>5. \A d \in Task : Crash(d) => Still  BY DEF Crash, worldVars
<1>6. \A c \in Console : ConsoleSweeps(c) => Still  BY DEF ConsoleSweeps, worldVars
<1>7. Reboot \/ UNCHANGED vars => Still  BY DEF Reboot, vars
<1> HIDE DEF Still
<1> QED  BY <1>1, <1>2, <1>3, <1>4, <1>5, <1>6, <1>7 DEF Next, Still

\* Work that is nowhere else stays on disk, except for what a turn that a probe has
\* shown as dead writes between a sweep's check and its removal (isolate.go,
\* CheckRemovable; sweep.go, Run).
THEOREM WorkKept == Spec => UnsavedWorkKept
<1> DEFINE Kept == \A t \in Task :
      work[t] = "unsaved" /\ t \in tree /\ t \notin tree' =>
        t \in misjudged /\ \E p \in Sweeper : sweep[p].victim = t /\ sweep[p].approved
<1>1. IInv /\ [Next]_vars => [Kept]_vars
  <2> SUFFICES ASSUME IInv, [Next]_vars,
                      NEW t \in Task, work[t] = "unsaved", t \in tree, t \notin tree'
               PROVE  t \in misjudged /\ \E p \in Sweeper : sweep[p].victim = t /\ sweep[p].approved
    OBVIOUS
  <2>1. ASSUME NEW d \in Task, Create(d) PROVE FALSE  BY <2>1 DEF Create
  <2>2. ASSUME NEW d \in Task, TearDown(d) PROVE FALSE  BY <2>2 DEF TearDown, Removable
  <2>3. PICK p \in Sweeper : SweepRemoves(p)
    BY <2>1, <2>2, TreeSteps DEF Work
  <2>4. sweep[p].victim = t /\ sweep[p].approved  BY <2>3 DEF SweepRemoves
  <2> QED  BY <2>4 DEF IInv, Approved
<1>2. [][Kept]_vars => UnsavedWorkKept  BY DEF UnsavedWorkKept
<1> HIDE DEF Kept
<1> QED  BY <1>1, <1>2, Invariant, PTL DEF Spec

-------------------------------------------------------------------------------
(* How far the cap is passed.                                                *)

Past == {"waiting", "observing", "removing", "reporting", "done", "exited"}

\* Whoever was recorded beside a dispatch is past that.
Behind == \A d, e \in Task : e \in beside[d] => pc[e] \in Past

\* Where no dispatch is admitted and none recorded.
Quiet ==
  /\ \A d \in Task : OnItsWay(d)' => OnItsWay(d)
  /\ \A d \in Task : pc[d] \in Past => pc'[d] \in Past
  /\ UNCHANGED beside
  /\ Counted' \subseteq Counted

LEMMA QuietSteps ==
  ASSUME IInv, [Next]_vars
  PROVE  Quiet \/ \E d \in Task : Admit(d) \/ RecordDispatch(d)
<1> USE DEF IInv, TypeOK, Quiet, OnItsWay, Past, Counted, worldVars, history
<1>1. ASSUME NEW d \in Task, DispatchSweeps(d) PROVE Quiet  BY <1>1 DEF DispatchSweeps, Goto
<1>2. ASSUME NEW d \in Task, Refuse(d) PROVE Quiet  BY <1>2 DEF Refuse, Goto
<1>3. ASSUME NEW d \in Task, Create(d) PROVE Quiet  BY <1>3 DEF Create, Goto
<1>4. ASSUME NEW d \in Task, GiveUp(d) PROVE Quiet  BY <1>4 DEF GiveUp, Goto
<1>5. ASSUME NEW d \in Task, StartFails(d) PROVE Quiet
  BY <1>5 DEF StartFails, Goto, Put, NotStarted, Table
<1>6. ASSUME NEW d \in Task, Start(d) PROVE Quiet  BY <1>6 DEF Start, Goto, NotStarted
<1>7. ASSUME NEW d \in Task, RecordFails(d) PROVE Quiet  BY <1>7 DEF RecordFails, Goto
<1>8. ASSUME NEW d \in Task, Wait(d) PROVE Quiet  BY <1>8 DEF Wait, Goto
<1>9. ASSUME NEW d \in Task, ObserveHead(d) PROVE Quiet  BY <1>9 DEF ObserveHead, Goto
<1>10. ASSUME NEW d \in Task, TearDown(d) PROVE Quiet  BY <1>10 DEF TearDown, Goto
<1>11. ASSUME NEW d \in Task, Report(d) PROVE Quiet
  BY <1>11 DEF Report, Goto, Put, Table, TurnOver, Ended
<1>12. ASSUME NEW u \in Task, TurnStep(u) PROVE Quiet
  BY <1>12 DEF TurnStep, TurnExits, Timeout, TurnEnds, PipeCloses, Work
<1>13. ASSUME NEW d \in Task, Crash(d) PROVE Quiet  BY <1>13 DEF Crash, Goto
<1>14. ASSUME NEW c \in Console, ConsoleSweeps(c) PROVE Quiet  BY <1>14 DEF ConsoleSweeps
<1>15. ASSUME NEW p \in Sweeper, SweepStep(p) PROVE Quiet
  <2>1. CASE SweepEnds(p)
    <3>1. p \in Task => pc[p] = "sweeping"  BY <2>1 DEF SweepEnds, Judging, OwnSweep
    <3> QED  BY <2>1, <3>1 DEF SweepEnds
  <2>2. ASSUME NEW u \in Task, SweepPasses(p, u) PROVE Quiet
    BY <2>2 DEF SweepPasses, NotCorpse, Spares
  <2>3. ASSUME NEW u \in Task, SweepOffers(p, u) PROVE Quiet
    BY <2>3 DEF SweepOffers, Corpse, Condemns
  <2> QED
    BY <1>15, <2>1, <2>2, <2>3 DEF SweepStep, SweepApproves, SweepRemoves, SweepRefused
<1>16. ASSUME ReclaimStep PROVE Quiet
  <2>1. ASSUME NEW u \in Task, ReclaimDooms(u) PROVE Quiet
    BY <2>1 DEF ReclaimDooms, Condemns
  <2>2. ASSUME NEW u \in Task, ReclaimApplies(u) PROVE Quiet
    BY <2>2 DEF ReclaimApplies, Put, Table, Condemned
  <2> QED
    BY <1>16, <2>1, <2>2 DEF ReclaimStep, ReclaimBegins, ReclaimEnds, ReclaimKeeps, Spares
<1>17. CASE Reboot  BY <1>17 DEF Reboot
<1>18. CASE UNCHANGED vars  BY <1>18 DEF vars
<1> QED
  BY <1>1, <1>2, <1>3, <1>4, <1>5, <1>6, <1>7, <1>8, <1>9, <1>10, <1>11, <1>12, <1>13,
     <1>14, <1>15, <1>16, <1>17, <1>18, Zenon DEF Next, DispatcherStep

OInv == IInv /\ Behind /\ OvershootIsOverlap

LEMMA NextOInv ==
  ASSUME IsFiniteSet(Task), OInv, [Next]_vars
  PROVE  OInv'
<1> USE DEF OInv
<1>1. IInv'  BY NextIInv
<1>2. \A set \in SUBSET Task : IsFiniteSet(set) /\ Cardinality(set) \in Nat
  BY FS_Subset, FS_CardinalityType
<1>3. Counted \in SUBSET Task /\ Counted' \in SUBSET Task  BY DEF Counted
<1>4. /\ \A d \in Task : beside[d] \in SUBSET Task
      /\ pc \in [Task -> Stage]
      /\ MaxInFlight \in Nat
  BY LimitAssumption DEF IInv, TypeOK
<1>5. CASE Quiet
  <2>1. Behind'  BY <1>5, <1>4 DEF Behind, Quiet
  <2>2. Cardinality(Counted') <= Cardinality(Counted)
    BY <1>2, <1>3, <1>5, FS_Subset DEF Quiet
  <2>3. ASSUME NEW d \in Task, OnItsWay(d)'
        PROVE  Cardinality(Counted') < MaxInFlight + Cardinality(beside'[d])
    <3>1. Cardinality(Counted) < MaxInFlight + Cardinality(beside[d]) /\ beside' = beside
      BY <1>5, <2>3 DEF Quiet, OvershootIsOverlap
    <3>2. Cardinality(Counted) \in Nat /\ Cardinality(Counted') \in Nat /\ Cardinality(beside[d]) \in Nat
      BY <1>2, <1>3, <1>4
    <3> QED  BY <1>4, <2>2, <3>1, <3>2
  <2> QED  BY <1>1, <2>1, <2>3 DEF OvershootIsOverlap
<1>6. ASSUME NEW d \in Task, Admit(d) PROVE OInv'
  <2>1. UNCHANGED <<ledger, turn, misjudged, beside>> /\ pc' = [pc EXCEPT ![d] = "creating"]
        /\ pc[d] = "checking" /\ Cardinality(InFlight) < MaxInFlight
    BY <1>6 DEF Admit, Goto, worldVars, history
  <2>2. Behind'  BY <1>4, <2>1 DEF Behind, Past
  <2>3. Counted \subseteq InFlight /\ InFlight \in SUBSET Task
    BY DEF IInv, Snapshots, Sound, Alive, Counted, InFlight, Terminal
  <2>4. Cardinality(Counted) <= Cardinality(InFlight)  BY <1>2, <2>3, FS_Subset
  <2>5. Counted' = Counted  BY <2>1 DEF Counted
  <2>6. ASSUME NEW e \in Task
        PROVE  Cardinality(Counted') < MaxInFlight + Cardinality(beside'[e])
    <3>1. Cardinality(Counted) \in Nat /\ Cardinality(InFlight) \in Nat /\ Cardinality(beside[e]) \in Nat
      BY <1>2, <1>3, <1>4, <2>3
    <3> QED  BY <1>4, <2>1, <2>4, <2>5, <3>1
  <2> QED  BY <1>1, <2>2, <2>6 DEF OvershootIsOverlap
<1>7. ASSUME NEW d \in Task, RecordDispatch(d) PROVE OInv'
  <2>1. /\ pc[d] = "recording" /\ pc' = [pc EXCEPT ![d] = "waiting"]
        /\ UNCHANGED <<turn, misjudged>>
        /\ \A e \in Task \ {d} : ledger'[e] = ledger[e]
    BY <1>7 DEF RecordDispatch, Goto, Put, worldVars, IInv, TypeOK, Table
  <2>2. \A e \in Task : beside'[e] = CASE e = d -> {}
                                       [] OnItsWay(e) -> beside[e] \cup {d}
                                       [] OTHER -> beside[e]
    BY <1>7 DEF RecordDispatch
  <2>3. Behind'
    <3> SUFFICES ASSUME NEW e \in Task, NEW f \in Task, f \in beside'[e] PROVE pc'[f] \in Past
      BY DEF Behind
    <3>1. f \in beside[e] \/ f = d  BY <2>2
    <3> QED  BY <1>4, <2>1, <3>1 DEF Behind, Past
  <2>4. Counted' \subseteq Counted \cup {d}  BY <2>1 DEF Counted
  <2>5. Cardinality(Counted') <= Cardinality(Counted) + 1
    <3>1. Cardinality(Counted \cup {d}) <= Cardinality(Counted) + 1
      BY <1>2, <1>3, FS_AddElement
    <3>2. Cardinality(Counted') <= Cardinality(Counted \cup {d})
      BY <1>2, <1>3, <2>4, FS_Subset
    <3>3. Cardinality(Counted) \in Nat /\ Cardinality(Counted') \in Nat /\ Cardinality(Counted \cup {d}) \in Nat
      BY <1>2, <1>3
    <3> QED  BY <3>1, <3>2, <3>3
  <2>6. ASSUME NEW e \in Task, OnItsWay(e)'
        PROVE  Cardinality(Counted') < MaxInFlight + Cardinality(beside'[e])
    <3>1. e # d /\ OnItsWay(e)  BY <1>4, <2>1, <2>6 DEF OnItsWay
    <3>2. d \notin beside[e]  BY <2>1 DEF Behind, Past
    <3>3. beside'[e] = beside[e] \cup {d}  BY <2>2, <3>1
    <3>4. Cardinality(beside'[e]) = Cardinality(beside[e]) + 1
      BY <1>2, <1>4, <3>2, <3>3, FS_AddElement
    <3>5. Cardinality(Counted) < MaxInFlight + Cardinality(beside[e])
      BY <3>1 DEF OvershootIsOverlap
    <3>6. Cardinality(Counted) \in Nat /\ Cardinality(Counted') \in Nat /\ Cardinality(beside[e]) \in Nat
      BY <1>2, <1>3, <1>4
    <3> QED  BY <1>4, <2>5, <3>4, <3>5, <3>6
  <2> QED  BY <1>1, <2>3, <2>6 DEF OvershootIsOverlap
<1> QED  BY <1>5, <1>6, <1>7, QuietSteps

\* Dispatches pass the cap only by overlapping: one that has been admitted and is not
\* yet recorded finds fewer turns running than the cap, but for those recorded since
\* it was admitted (pressure.go, Check; main.go).
THEOREM CapPassedByOverlap ==
  ASSUME IsFiniteSet(Task) PROVE Spec => []OvershootIsOverlap
<1>1. Init => OInv
  <2> SUFFICES ASSUME Init PROVE OInv  OBVIOUS
  <2>1. Behind /\ OvershootIsOverlap  BY DEF Init, Behind, OvershootIsOverlap, OnItsWay
  <2> QED  BY <2>1, InitIInv DEF OInv
<1>2. OInv /\ [Next]_vars => OInv'  BY NextOInv
<1>3. OInv => OvershootIsOverlap  BY DEF OInv
<1> QED  BY <1>1, <1>2, <1>3, PTL DEF Spec

-------------------------------------------------------------------------------
(* One dispatch's worktree, as Worktree has it.                                *)

\* Some sweep has found nothing unsaved in the worktree, and will remove it.
Doomed(t) == \E p \in Sweeper : sweep[p].victim = t /\ sweep[p].approved

\* A sweep that has its victim approved has just looked, or had it approved before.
LEMMA ApprovalSteps ==
  ASSUME IInv, [Next]_vars, NEW p \in Sweeper, sweep'[p].approved
  PROVE  /\ sweep'[p].victim = sweep[p].victim
         /\ sweep[p].approved \/ SweepApproves(p)
<1> DEFINE Same == sweep'[p] = sweep[p]
           Goal == /\ sweep'[p].victim = sweep[p].victim
                   /\ sweep[p].approved \/ SweepApproves(p)
<1>0. sweep \in [Sweeper -> SweepState] /\ Task \subseteq Sweeper /\ Console \subseteq Sweeper
  BY DEF IInv, TypeOK, SweepState, Sweeper
<1>1. Same => Goal  OBVIOUS
<1>2. ASSUME NEW d \in Task, DispatcherStep(d) PROVE Same
  <2>1. CASE DispatchSweeps(d)
    <3>1. ~NoSweep.approved /\ sweep' = [sweep EXCEPT ![d] = [NoSweep EXCEPT !.on = TRUE, !.left = ledger]]
      BY <2>1 DEF DispatchSweeps, SweepBegin, NoSweep
    <3>2. CASE p = d  BY <1>0, <3>1, <3>2 DEF NoSweep
    <3>3. CASE p # d  BY <1>0, <3>1, <3>3
    <3> QED  BY <3>2, <3>3
  <2>2. ASSUME ~DispatchSweeps(d) PROVE sweep' = sweep
    BY <1>2, <2>2, SMTT(30) DEF DispatcherStep, Admit, Refuse, Create, GiveUp, StartFails,
       Start, RecordDispatch, RecordFails, Wait, ObserveHead, TearDown, Report
  <2> QED  BY <2>1, <2>2
<1>3. ASSUME NEW u \in Task, TurnStep(u) PROVE Same
  BY <1>3 DEF TurnStep, TurnExits, Timeout, TurnEnds, PipeCloses, Work
<1>4. ASSUME NEW q \in Sweeper, SweepStep(q) PROVE Goal
  <2>1. q # p => Same
    BY <1>0, <1>4 DEF SweepStep, SweepApproves, SweepRemoves, SweepRefused, SweepEnds,
       SweepPasses, SweepOffers
  <2>2. ASSUME q = p, SweepApproves(p) PROVE Goal  BY <1>0, <2>2 DEF SweepApproves
  <2>3. ASSUME q = p, SweepRemoves(p) \/ SweepRefused(p) \/ SweepEnds(p) PROVE FALSE
    <3>1. CASE SweepRemoves(p)  BY <1>0, <3>1 DEF SweepRemoves, SweepState
    <3>2. CASE SweepRefused(p)  BY <1>0, <3>2 DEF SweepRefused, SweepState
    <3>3. CASE SweepEnds(p)  BY <1>0, <3>3 DEF SweepEnds, NoSweep
    <3> QED  BY <2>3, <3>1, <3>2, <3>3
  <2>4. ASSUME q = p, NEW u \in Task, SweepPasses(p, u) \/ SweepOffers(p, u) PROVE FALSE
    <3>1. ~sweep[p].approved
      BY <2>4 DEF IInv, Approved, SweepPasses, SweepOffers, Judges, Judging
    <3>2. sweep'[p].approved = sweep[p].approved
      BY <1>0, <2>4 DEF SweepPasses, SweepOffers, SweepState
    <3> QED  BY <3>1, <3>2
  <2> QED  BY <1>1, <1>4, <2>1, <2>2, <2>3, <2>4 DEF SweepStep
<1>5. ASSUME ReclaimStep PROVE Same
  BY <1>5 DEF ReclaimStep, ReclaimBegins, ReclaimEnds, ReclaimDooms, ReclaimKeeps,
     ReclaimApplies
<1>6. ASSUME NEW d \in Task, Crash(d) PROVE Same  BY <1>0, <1>6 DEF Crash, NoSweep
<1>7. ASSUME NEW c \in Console, ConsoleSweeps(c) PROVE Same
  <2>1. ~NoSweep.approved /\ sweep' = [sweep EXCEPT ![c] = [NoSweep EXCEPT !.on = TRUE, !.left = ledger]]
    BY <1>7 DEF ConsoleSweeps, SweepBegin, NoSweep
  <2>2. CASE p = c  BY <1>0, <2>1, <2>2 DEF NoSweep
  <2>3. CASE p # c  BY <1>0, <2>1, <2>3
  <2> QED  BY <2>2, <2>3
<1>8. ASSUME Reboot PROVE FALSE  BY <1>8 DEF Reboot, NoSweep
<1>9. UNCHANGED vars => Same  BY DEF vars
<1> HIDE DEF Same, Goal
<1> QED  BY <1>1, <1>2, <1>3, <1>4, <1>5, <1>6, <1>7, <1>8, <1>9 DEF Next, Goal

\* Its worktree and what is in it as they were, a site sees at most a sweep that looks
\* or gives up.
LEMMA SiteLooked ==
  ASSUME IInv, [Next]_vars, NEW t \in Task, (t \in tree') = (t \in tree), work'[t] = work[t]
  PROVE  [Site(t)!Next]_(Site(t)!siteVars)
<1>1. CASE Doomed(t)' = Doomed(t)  BY <1>1 DEF Doomed, Site!siteVars
<1>2. CASE Doomed(t)' /\ ~Doomed(t)
  <2>1. PICK p \in Sweeper : sweep'[p].victim = t /\ sweep'[p].approved  BY <1>2 DEF Doomed
  <2>2. sweep[p].victim = t /\ SweepApproves(p)  BY <1>2, <2>1, ApprovalSteps DEF Doomed
  <2>3. t \in tree /\ work[t] # "unsaved"  BY <2>2 DEF SweepApproves, Removable
  <2> QED  BY <1>2, <2>3 DEF Doomed, Site!Next, Site!Approve
<1>3. CASE ~Doomed(t)'  BY <1>3 DEF Doomed, Site!Next, Site!GiveUp
<1> QED  BY <1>1, <1>2, <1>3 DEF Doomed

LEMMA NextSites ==
  ASSUME IInv, [Next]_vars, NEW t \in Task
  PROVE  [Site(t)!Next]_(Site(t)!siteVars)
<1> DEFINE Goal == [Site(t)!Next]_(Site(t)!siteVars)
<1>1. ASSUME (t \in tree') = (t \in tree), work'[t] = work[t] PROVE Goal
  BY <1>1, SiteLooked
<1>2. ASSUME NEW d \in Task, Create(d) PROVE Goal
  <2>1. tree' = tree \cup {d} /\ UNCHANGED <<work, sweep>>  BY <1>2 DEF Create
  <2>2. CASE t = d /\ t \notin tree
    <3>1. ledger[t] = NoRecord  BY <1>2, <2>2 DEF IInv, NotStarted, Create
    <3>2. ~Doomed(t)
      BY <3>1, DistinctAssumption DEF IInv, Condemned, Doomed
    <3> QED  BY <2>1, <2>2, <3>2 DEF Doomed, Site!Next, Site!Make
  <2>3. CASE t # d \/ t \in tree  BY <1>1, <2>1, <2>3
  <2> QED  BY <2>2, <2>3
<1>3. ASSUME NEW d \in Task, TearDown(d) PROVE Goal
  <2>1. UNCHANGED <<work, sweep>>  BY <1>3 DEF TearDown
  <2>2. CASE UNCHANGED tree \/ d # t  BY <1>1, <1>3, <2>1, <2>2 DEF TearDown
  <2>3. CASE Removable(t) /\ tree' = tree \ {t}
    BY <2>1, <2>3 DEF Removable, Site!Next, Site!Remove
  <2> QED  BY <1>3, <2>2, <2>3 DEF TearDown
<1>4. ASSUME NEW p \in Sweeper, SweepRemoves(p) PROVE Goal
  <2>1. sweep[p].approved /\ tree' = tree \ {sweep[p].victim} /\ UNCHANGED work
        /\ sweep[p].victim \in tree
    BY <1>4 DEF SweepRemoves
  <2>2. CASE sweep[p].victim = t
    <3>1. Doomed(t)  BY <2>1, <2>2 DEF Doomed
    <3> QED  BY <2>1, <2>2, <3>1 DEF Doomed, Site!Next, Site!Remove
  <2>3. CASE sweep[p].victim # t  BY <1>1, <2>1, <2>3
  <2> QED  BY <2>2, <2>3
<1>5. ASSUME NEW u \in Task, NEW w \in {"unsaved", "saved"}, Work(u, w) PROVE Goal
  <2>1. u \in tree /\ work' = [work EXCEPT ![u] = w] /\ UNCHANGED <<tree, sweep>>
    BY <1>5 DEF Work
  <2>2. CASE t = u  BY <2>1, <2>2 DEF Site!Next, Site!Work
  <2>3. CASE t # u  BY <1>1, <2>1, <2>3 DEF IInv, TypeOK
  <2> QED  BY <2>2, <2>3
<1> HIDE DEF Goal
<1> QED  BY <1>1, <1>2, <1>3, <1>4, <1>5, TreeSteps DEF Goal

\* The worktree of each dispatch is made, worked in and removed as Worksite says, as
\* is the one that Worktree describes step by step (isolate.go, Create and Remove, as
\* main.go and sweep.go call them), whatever turns are taken for dead.
THEOREM ImplementsSites == ASSUME NEW t \in Task PROVE Spec => Site(t)!Spec
<1>1. Init => Site(t)!Init
  BY DEF Init, Site!Init, NoSweep
<1>2. IInv /\ [Next]_vars => [Site(t)!Next]_(Site(t)!siteVars)
  BY NextSites
<1> QED  BY <1>1, <1>2, Invariant, PTL DEF Spec, Site!Spec
===============================================================================
