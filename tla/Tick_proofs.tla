----------------------------- MODULE Tick_proofs ------------------------------
(***************************************************************************)
(* What the tick log keeps, for any recorders, turns and artifacts and     *)
(* however long it gets: no outcome that a tick has seen is dropped, even  *)
(* by ticks that overlap; and as long as ticks do not, nothing counts      *)
(* twice beyond the precision of the log's clock.  Last, a check that says *)
(* the loop moves has a reason to: what the appended lines show for        *)
(* themselves, and the silence the check began in, make it so.             *)
(***************************************************************************)
EXTENDS Tick, WellFoundedInduction, TLAPS

\* What a recorder holds: its own time, the ledger's as it read it, a bound the log has.
Hand(r) == rec[r].pc # "idle" =>
  /\ rec[r].at \in Time /\ rec[r].at <= now /\ rec[r].place \in Place /\ rec[r].from <= Len(log)
  /\ rec[r].seen \subseteq Terminal
  /\ rec[r].pc \in {"begun", "bounded"} => rec[r].window = {} /\ rec[r].seen = {}
  /\ \A t \in rec[r].window : t \in Terminal /\ turn[t].at <= rec[r].at /\ turn[t].at > rec[r].since
  /\ rec[r].since = Zero \/ \E k \in DOMAIN log : rec[r].since = log[k].at
  /\ \A t \in rec[r].seen : turn[t].stage = "over" /\ turn[t].at <= rec[r].at =>
       t \in rec[r].window \/ rec[r].since = Zero \/ turn[t].at <= rec[r].since
  /\ rec[r].artifact \in Commit => made[rec[r].artifact] <= rec[r].at
  /\ rec[r].pc = "valid" /\ rec[r].artifact \in Commit => made[rec[r].artifact] # Zero

\* No tick was appended since it began: the last is still the last it read.
Alone(r) == rec[r].pc # "idle" /\ rec[r].from = Len(log) /\ log # <<>> =>
  /\ log[Len(log)].until <= rec[r].at
  /\ rec[r].pc # "begun" => rec[r].since = LastAt
  /\ rec[r].pc = "valid" /\ rec[r].artifact \in Commit => Second(made[rec[r].artifact]) > LastAt

Hands == \A r \in Recorder : Hand(r) /\ Alone(r) /\ (rec[r].pc = "idle" => rec[r] = NoTick)

Lines == \A k \in DOMAIN log :
  /\ log[k].at = Second(log[k].until) /\ log[k].until <= now
  /\ log[k].seen \subseteq Terminal
  /\ \A t \in log[k].window : t \in Terminal /\ turn[t].at <= log[k].until
  /\ log[k].artifact \in Commit => /\ made[log[k].artifact] # Zero
                                  /\ made[log[k].artifact] <= log[k].until

\* Ticks that do not overlap are in the order of their times.
InOrder == OneAtATime => \A i, j \in DOMAIN log : i < j => log[i].until <= log[j].until

Told ==
  /\ \A e \in escalations : e.at <= e.made
  /\ check.n <= Len(log) /\ (check.pc = "stalled" => check.n > 0)
  /\ check.said = "escalated" => check.n > 0

\* What was produced was produced by now.
Past == \A p \in Piece : made[p] <= now

Log == Past /\ Hands /\ Lines /\ InOrder /\ NoTurnDropped /\ TwiceOnlyWithinSecond /\ CommitCountsOnce

Inv == TypeOK /\ Log /\ Told /\ AcknowledgedAfterStall

-----------------------------------------------------------------------------
(* Times.                                                                    *)

LEMMA Constants ==
  /\ MaxTime \in Nat /\ Window \in Nat /\ Window > 0 /\ Commit \cap File = {}
  /\ None \notin Commit /\ Zero = -1 /\ Time \subseteq Nat /\ Zero \notin Time
  /\ \A t \in Time : t >= 0 /\ t <= MaxTime
  /\ \A t \in Time \cup {Zero} : t \in Int
  BY TickAssumption, SMT DEF Time, Zero

\* The second of a time is no later, and keeps their order; between a second and a time
\* of it is nothing of another.
LEMMA SecondFacts ==
  /\ \A t \in Time : Second(t) \in Time /\ Second(t) <= t
  /\ \A t, u \in Time : t <= u => Second(t) <= Second(u)
  /\ \A t, u \in Time : Second(u) < t /\ t <= u => Second(t) = Second(u)
  BY Constants, SMT DEF Second, Time

LEMMA Gap == \A d \in Int : Seconds(d) \in Int
  BY SMT DEF Seconds

LEMMA LogFacts ==
  ASSUME TypeOK
  PROVE  /\ log \in Seq(Entry) /\ Len(log) \in Nat /\ DOMAIN log = 1 .. Len(log)
         /\ \A k \in DOMAIN log : log[k] \in Entry /\ k \in Nat /\ k <= Len(log) /\ k > 0
         /\ log # <<>> <=> Len(log) \in DOMAIN log
         /\ log # <<>> <=> Len(log) > 0
<1>1. log \in Seq(Entry)
  BY DEF TypeOK
<1> QED  BY <1>1, SMT

LEMMA LastTime ==
  ASSUME TypeOK
  PROVE  LastAt \in Time \cup {Zero} /\ (log # <<>> => LastAt \in Time /\ LastAt # Zero /\ LastAt = log[Len(log)].at)
<1>1. CASE log # <<>>
  <2>1. log[Len(log)].at \in Time
    BY <1>1, LogFacts DEF Entry
  <2> QED  BY <1>1, <2>1, Constants DEF LastAt
<1> QED  BY <1>1 DEF LastAt

-----------------------------------------------------------------------------
(* The state stays well formed.                                              *)

Hand_ == [pc : {"idle", "begun", "bounded", "counted", "valid"},
          at : Time \cup {Zero}, place : Place \cup {None}, artifact : Artifact,
          since : Time \cup {Zero}, gap : Int, window : SUBSET Turn,
          seen : SUBSET Turn, from : Nat]

LEMMA InitTypes == Init => TypeOK
<1>1. 0 \in Time /\ None \in Artifact
  BY TickAssumption, SMT DEF Time, Artifact
<1> QED
  BY <1>1 DEF Init, TypeOK, NoTick, NoCheck

LEMMA HoldTypes ==
  ASSUME TypeOK, NEW r \in Recorder, NEW tick \in Hand_, NEW pc \in {"idle", "begun", "bounded", "counted", "valid"},
         Hold(r, pc, tick)
  PROVE  TypeOK'
<1>1. [tick EXCEPT !.pc = pc] \in Hand_
  BY DEF Hand_
<1>2. rec \in [Recorder -> Hand_]
  BY DEF TypeOK, Hand_
<1>3. rec' \in [Recorder -> Hand_]
  BY <1>1, <1>2 DEF Hold
<1>4. UNCHANGED <<now, made, turn, log, escalations, check>>
  BY DEF Hold
<1> QED
  BY <1>3, <1>4 DEF TypeOK, Hand_

LEMMA RecordTypes == ASSUME TypeOK, Hands, NEW r \in Recorder, RecordStep(r) PROVE TypeOK'
<1>1. rec[r] \in Hand_ /\ NoTick \in Hand_
  BY TickAssumption DEF TypeOK, Hand_, NoTick, Artifact
<1>2. now \in Time /\ LastAt \in Time \cup {Zero} /\ Len(log) \in Nat /\ Terminal \in SUBSET Turn
  BY LastTime DEF TypeOK, Terminal
<1>3. ASSUME NEW place \in Place, NEW artifact \in Artifact, RecordBegins(r, place, artifact) PROVE TypeOK'
  <2>1. [NoTick EXCEPT !.at = now, !.place = place, !.artifact = artifact, !.from = Len(log)] \in Hand_
    BY <1>1, <1>2 DEF Hand_
  <2> QED  BY <1>3, <2>1, HoldTypes DEF RecordBegins
<1>4. CASE RecordReadsLast(r)
  <2>1. CASE LastAt = Zero
    <3>1. [rec[r] EXCEPT !.seen = Terminal] \in Hand_
      BY <1>1, <1>2 DEF Hand_
    <3> QED  BY <1>4, <2>1, <3>1, HoldTypes DEF RecordReadsLast
  <2>2. CASE LastAt # Zero
    <3>1. rec[r].at \in Int /\ LastAt \in Int
      BY <1>1, <1>2, Constants DEF Hand_
    <3>2. Seconds(rec[r].at - LastAt) \in Int
      BY <3>1, Gap
    <3>3. [rec[r] EXCEPT !.since = LastAt, !.gap = Seconds(rec[r].at - LastAt)] \in Hand_
      BY <1>1, <1>2, <3>2 DEF Hand_
    <3> QED  BY <1>4, <2>2, <3>3, HoldTypes DEF RecordReadsLast
  <2> QED  BY <2>1, <2>2
<1>5. CASE RecordReadsLedger(r)
  <2>1. Observed(rec[r].since, rec[r].at) \in SUBSET Turn
    BY DEF Observed, Terminal
  <2>2. [rec[r] EXCEPT !.window = Observed(rec[r].since, rec[r].at), !.seen = Terminal] \in Hand_
    BY <1>1, <1>2, <2>1 DEF Hand_
  <2> QED  BY <1>5, <2>2, HoldTypes DEF RecordReadsLedger
<1>6. CASE RecordMissesLedger(r)
  BY <1>1, <1>6, HoldTypes DEF RecordMissesLedger
<1>7. CASE RecordValidates(r)
  BY <1>1, <1>7, HoldTypes DEF RecordValidates
<1>8. CASE RecordAppends(r)
  <2>1. rec[r].at \in Time /\ rec[r].place \in Place
    BY <1>8 DEF RecordAppends, Hands, Hand
  <2>2. LineOf(rec[r]) \in Entry
    BY <1>1, <2>1, SecondFacts DEF LineOf, Entry, Hand_
  <2>3. log' \in Seq(Entry) /\ rec' \in [Recorder -> Hand_]
    BY <1>1, <1>8, <2>2 DEF RecordAppends, TypeOK, Hand_
  <2>4. UNCHANGED <<now, made, turn, escalations, check>>
    BY <1>8 DEF RecordAppends
  <2> QED  BY <2>3, <2>4 DEF TypeOK, Hand_
<1> QED
  BY <1>3, <1>4, <1>5, <1>6, <1>7, <1>8 DEF RecordStep

LEMMA TypesHold == ASSUME TypeOK, Hands, [Next]_vars PROVE TypeOK'
<1>0. now \in Time
  BY DEF TypeOK
<1>1. CASE Tock
  <2>1. now' \in Time
    BY <1>0, <1>1, TickAssumption, SMT DEF Tock, Time
  <2> QED  BY <1>1, <2>1 DEF Tock, TypeOK
<1>2. ASSUME NEW p \in Piece, Produce(p) PROVE TypeOK'
  BY <1>0, <1>2 DEF Produce, TypeOK
<1>3. ASSUME NEW t \in Turn, TurnStep(t) PROVE TypeOK'
  <2>1. /\ turn' \in [Turn -> [stage : {"none", "running", "stamped", "over", "reclaimed"},
                             at : Time \cup {Zero}]]
        /\ UNCHANGED <<now, made, log, escalations, rec, check>>
    BY <1>0, <1>3 DEF TurnStep, DispatchTurn, StampOutcome, AppendOutcome, ReclaimTurn, MoveTurn, TypeOK
  <2> QED  BY <2>1 DEF TypeOK
<1>4. ASSUME NEW place \in Place, Escalate(place) PROVE TypeOK'
  <2>1. [at |-> Second(now), place |-> place, made |-> now] \in [at : Time, place : Place, made : Time]
    BY <1>0, SecondFacts
  <2> QED  BY <1>4, <2>1 DEF Escalate, TypeOK
<1>5. CASE CheckStep
  <2>1. Len(log) \in Nat
    BY DEF TypeOK
  <2>2. /\ check' \in [pc : {"idle", "fresh", "stalled", "told"}, began : Time \cup {Zero},
                      from : Nat, n : Nat, said : {"nothing", "stale", "moving", "stalled", "escalated"}]
        /\ UNCHANGED <<now, made, turn, log, escalations, rec>>
    <3> DEFINE C == [pc : {"idle", "fresh", "stalled", "told"}, began : Time \cup {Zero},
                      from : Nat, n : Nat, said : {"nothing", "stale", "moving", "stalled", "escalated"}]
    <3>1. check \in C /\ NoCheck \in C
      BY DEF TypeOK, NoCheck
    <3>2. CASE CheckBegins
      BY <1>0, <2>1, <3>1, <3>2 DEF CheckBegins
    <3>3. ASSUME NEW pc \in {"idle", "fresh", "stalled", "told"}, NEW n \in Nat,
                 NEW said \in {"nothing", "stale", "moving", "stalled", "escalated"}, Hears(pc, n, said)
          PROVE  check' \in C /\ UNCHANGED <<now, made, turn, log, escalations, rec>>
      BY <3>1, <3>3 DEF Hears
    <3>4. CASE CheckReadsWindow
      BY <2>1, <3>3, <3>4 DEF CheckReadsWindow
    <3>5. CASE CheckReadsEscalations
      BY <3>1, <3>3, <3>5 DEF CheckReadsEscalations
    <3>6. CASE CheckEnds
      BY <3>1, <3>6 DEF CheckEnds
    <3> QED  BY <1>5, <3>2, <3>4, <3>5, <3>6 DEF CheckStep
  <2> QED  BY <2>2 DEF TypeOK
<1>6. CASE UNCHANGED vars
  BY <1>6 DEF vars, TypeOK
<1> QED
  BY <1>1, <1>2, <1>3, <1>4, <1>5, <1>6, RecordTypes DEF Next

-----------------------------------------------------------------------------
(* What appends no tick and moves no recorder.                               *)

LEMMA QuietLog ==
  ASSUME TypeOK, Log, TypeOK', UNCHANGED <<log, rec>>, now <= now', Terminal \subseteq Terminal',
         \A t \in Terminal : turn'[t] = turn[t],
         \A p \in Piece : made'[p] = made[p] \/ made'[p] = now,
         \A c \in Commit : made[c] # Zero \/ (\E r \in Recorder : rec[r].artifact = c) => made'[c] = made[c]
  PROVE  Log'
<1>1. now \in Int /\ now' \in Int /\ \A r \in Recorder : rec[r].at \in Int
  BY Constants DEF TypeOK
<1>2. \A k \in DOMAIN log : log[k].until \in Int
  BY LogFacts, Constants DEF Entry
<1>3. Hands'
  <2> SUFFICES ASSUME NEW r \in Recorder PROVE (Hand(r) /\ Alone(r) /\ (rec[r].pc = "idle" => rec[r] = NoTick))'
    BY DEF Hands
  <2>1. Hand(r) /\ Alone(r) /\ (rec[r].pc = "idle" => rec[r] = NoTick)
    BY DEF Log, Hands
  <2>2. rec[r].at <= now => rec[r].at <= now'
    BY <1>1, SMT
  <2>3. rec[r].artifact \in Commit => made'[rec[r].artifact] = made[rec[r].artifact]
    OBVIOUS
  <2> QED  BY <2>1, <2>2, <2>3 DEF Hand, Alone, LastAt
<1>4. Lines'
  <2> SUFFICES ASSUME NEW k \in DOMAIN log
      PROVE  /\ log[k].at = Second(log[k].until) /\ log[k].until <= now'
             /\ log[k].seen \subseteq Terminal'
             /\ \A t \in log[k].window : t \in Terminal' /\ turn'[t].at <= log[k].until
             /\ log[k].artifact \in Commit => /\ made'[log[k].artifact] # Zero
                                             /\ made'[log[k].artifact] <= log[k].until
    BY DEF Lines
  <2>1. log[k].until <= now => log[k].until <= now'
    BY <1>1, <1>2, SMT
  <2> QED  BY <2>1 DEF Log, Lines
<1>5. InOrder'
  BY DEF Log, InOrder, OneAtATime
<1>6. NoTurnDropped'
  BY DEF Log, NoTurnDropped, Lines
<1>7. TwiceOnlyWithinSecond'
  BY DEF Log, TwiceOnlyWithinSecond, OneAtATime, Lines
<1>8. CommitCountsOnce'
  BY DEF Log, CommitCountsOnce, OneAtATime
<1>9. Past'
  <2>1. \A p \in Piece : made[p] \in Int /\ made[p] <= now
    BY Constants DEF TypeOK, Log, Past
  <2>2. \A p \in Piece : made'[p] <= now'
    BY <1>1, <2>1, SMT
  <2> QED  BY <2>2 DEF Past
<1> QED
  BY <1>3, <1>4, <1>5, <1>6, <1>7, <1>8, <1>9 DEF Log

LEMMA CheckTold ==
  ASSUME Inv, TypeOK', CheckStep
  PROVE  Told' /\ AcknowledgedAfterStall'
<1> USE DEF Inv
<1>1. Len(log) \in Nat /\ check.n \in Nat
  BY LogFacts DEF TypeOK
<1>2. UNCHANGED <<log, escalations>>
  BY DEF CheckStep, CheckBegins, CheckReadsWindow, CheckReadsEscalations, CheckEnds, Hears
<1>3. CASE CheckBegins \/ CheckEnds
  <2>1. check'.n = 0 /\ check'.said # "escalated" /\ check'.pc # "stalled"
    <3>1. CASE CheckBegins
      BY <3>1 DEF CheckBegins, NoCheck
    <3>2. CASE CheckEnds
      BY <3>2 DEF CheckEnds, NoCheck
    <3> QED  BY <1>3, <3>1, <3>2
  <2> QED  BY <1>1, <1>2, <2>1 DEF Told, AcknowledgedAfterStall
<1>4. CASE CheckReadsWindow
  <2>1. /\ check'.n = Len(log) /\ check'.said # "escalated"
        /\ check'.pc = "stalled" => Len(log) > 0
    <3>1. /\ check'.n = Len(log) /\ check'.said # "escalated"
          /\ check'.pc = "stalled" => ~(Len(log) < Window)
      BY <1>4 DEF CheckReadsWindow, Hears, TypeOK
    <3> QED  BY <1>1, <3>1, Constants
  <2> QED  BY <1>1, <1>2, <2>1 DEF Told, AcknowledgedAfterStall
<1>5. CASE CheckReadsEscalations
  <2>1. /\ check'.pc = "told" /\ check'.n = check.n /\ check.n > 0 /\ check.n <= Len(log)
        /\ check'.said = "escalated" => \E e \in escalations : Acknowledges(e, log[Len(log)])
    BY <1>5 DEF CheckReadsEscalations, Hears, Told, TypeOK
  <2>2. check.n \in DOMAIN log /\ Len(log) \in DOMAIN log /\ Len(log) \in check.n .. Len(log)
    BY <1>1, <2>1, LogFacts, SMT
  <2>3. OneAtATime => log[check.n].at <= log[Len(log)].at
    <3> SUFFICES ASSUME OneAtATime PROVE log[check.n].at <= log[Len(log)].at  OBVIOUS
    <3>1. log[check.n] \in Entry /\ log[Len(log)] \in Entry
      BY <2>2, LogFacts
    <3>2. log[check.n].until <= log[Len(log)].until
      <4>1. CASE check.n = Len(log)
        <5>1. log[Len(log)].until \in Int
          BY <3>1, Constants DEF Entry
        <5>2. log[Len(log)].until <= log[Len(log)].until
          BY <5>1, SMT
        <5> QED  BY <4>1, <5>2
      <4>2. CASE check.n < Len(log)
        BY <2>2, <4>2 DEF Log, InOrder
      <4> QED  BY <1>1, <2>1, <4>1, <4>2
    <3>3. log[check.n].at = Second(log[check.n].until) /\ log[Len(log)].at = Second(log[Len(log)].until)
      BY <2>2 DEF Log, Lines
    <3> QED  BY <3>1, <3>2, <3>3, SecondFacts DEF Entry
  <2>4. ASSUME NEW e \in escalations, Acknowledges(e, log[Len(log)]), OneAtATime
        PROVE  e.made >= log[check.n].at /\ log[Len(log)].place = e.place
    <3>1. e.at >= log[Len(log)].at /\ e.at <= e.made /\ log[Len(log)].place = e.place
      BY <2>4 DEF Acknowledges, Told
    <3>2. e.at \in Int /\ e.made \in Int /\ log[Len(log)].at \in Int /\ log[check.n].at \in Int
      BY <2>2, LogFacts, Constants DEF TypeOK, Entry
    <3> QED  BY <2>3, <2>4, <3>1, <3>2
  <2>5. OneAtATime' <=> OneAtATime
    BY <1>2 DEF OneAtATime
  <2>6. AcknowledgedAfterStall'
    BY <1>2, <2>1, <2>2, <2>4, <2>5 DEF AcknowledgedAfterStall
  <2>7. Told'
    BY <1>2, <2>1 DEF Told
  <2> QED  BY <2>6, <2>7
<1> QED
  BY <1>3, <1>4, <1>5 DEF CheckStep

\* A clock, a piece of work, a turn or an escalation: the log only gets older.
LEMMA QuietInv ==
  ASSUME Inv, TypeOK',
         \/ Tock \/ (\E p \in Piece : Produce(p)) \/ (\E t \in Turn : TurnStep(t))
         \/ (\E place \in Place : Escalate(place)) \/ CheckStep
  PROVE  Inv'
<1> USE DEF Inv
<1>1. now \in Int /\ now <= now /\ now <= now + 1
  BY Constants DEF TypeOK
<1>2. CASE CheckStep
  <2>1. UNCHANGED <<now, made, turn, log, rec>>
    BY <1>2 DEF CheckStep, CheckBegins, CheckReadsWindow, CheckReadsEscalations, CheckEnds, Hears
  <2>2. Terminal' = Terminal
    BY <2>1 DEF Terminal
  <2> QED  BY <1>1, <1>2, <2>1, <2>2, QuietLog, CheckTold
<1>3. ASSUME UNCHANGED <<log, check>>, escalations \subseteq escalations',
             \A e \in escalations' : e \in escalations \/ e.at <= e.made
      PROVE  Told' /\ AcknowledgedAfterStall'
  BY <1>3 DEF Told, AcknowledgedAfterStall, OneAtATime
<1>4. CASE Tock
  <2>1. Terminal' = Terminal
    BY <1>4 DEF Tock, Terminal
  <2> QED  BY <1>1, <1>3, <1>4, <2>1, QuietLog DEF Tock
<1>5. CASE \E p \in Piece : Produce(p)
  <2>1. PICK p \in Piece : Produce(p)
    BY <1>5
  <2>2. Terminal' = Terminal /\ UNCHANGED <<now, turn, log, escalations, rec, check>>
    BY <2>1 DEF Produce, Terminal
  <2>3. /\ \A q \in Piece : made'[q] = made[q] \/ made'[q] = now
        /\ \A c \in Commit : made[c] # Zero \/ (\E r \in Recorder : rec[r].artifact = c) => made'[c] = made[c]
    BY <2>1 DEF Produce, TypeOK, Piece
  <2> QED  BY <1>1, <1>3, <2>2, <2>3, QuietLog
<1>6. CASE \E t \in Turn : TurnStep(t)
  <2>1. Terminal \subseteq Terminal' /\ \A t \in Terminal : turn'[t] = turn[t]
    BY <1>6 DEF TurnStep, DispatchTurn, StampOutcome, AppendOutcome, ReclaimTurn, MoveTurn, Terminal, TypeOK
  <2>2. UNCHANGED <<now, made, log, escalations, rec, check>>
    BY <1>6 DEF TurnStep, DispatchTurn, StampOutcome, AppendOutcome, ReclaimTurn, MoveTurn
  <2> QED  BY <1>1, <1>3, <2>1, <2>2, QuietLog
<1>7. CASE \E place \in Place : Escalate(place)
  <2>1. PICK place \in Place : Escalate(place)
    BY <1>7
  <2>2. Terminal' = Terminal /\ UNCHANGED <<now, made, turn, log, rec, check>>
    BY <2>1 DEF Escalate, Terminal
  <2>3. Second(now) <= now
    BY SecondFacts DEF TypeOK
  <2>4. escalations \subseteq escalations' /\ \A e \in escalations' : e \in escalations \/ e.at <= e.made
    BY <2>1, <2>3 DEF Escalate
  <2> QED  BY <1>1, <1>3, <2>2, <2>4, QuietLog
<1> QED
  BY <1>2, <1>4, <1>5, <1>6, <1>7

-----------------------------------------------------------------------------
(* A recorder's steps.                                                       *)

LEMMA HoldInv ==
  ASSUME Inv, TypeOK', NEW r \in Recorder, NEW pc, NEW tick, Hold(r, pc, tick),
         Hand(r)', Alone(r)', pc = "idle" => rec'[r] = NoTick, rec'[r].pc = pc
  PROVE  Inv'
<1>1. /\ UNCHANGED <<now, made, turn, log, escalations, check>>
      /\ \A q \in Recorder : q # r => rec'[q] = rec[q]
  BY DEF Hold, Inv, TypeOK
<1>2. Terminal' = Terminal
  BY <1>1 DEF Terminal
<1>3. Hands'
  <2> SUFFICES ASSUME NEW q \in Recorder PROVE (Hand(q) /\ Alone(q) /\ (rec[q].pc = "idle" => rec[q] = NoTick))'
    BY DEF Hands
  <2>1. CASE q = r
    BY <2>1
  <2>2. CASE q # r
    <3>1. Hand(q) /\ Alone(q) /\ (rec[q].pc = "idle" => rec[q] = NoTick)
      BY DEF Inv, Log, Hands
    <3> QED  BY <1>1, <1>2, <2>2, <3>1 DEF Hand, Alone, LastAt
  <2> QED  BY <2>1, <2>2
<1>4. Lines' /\ InOrder' /\ Told' /\ Past'
  BY <1>1, <1>2 DEF Inv, Log, Past, Lines, InOrder, OneAtATime, Told
<1>5. NoTurnDropped' /\ TwiceOnlyWithinSecond' /\ CommitCountsOnce' /\ AcknowledgedAfterStall'
  BY <1>1 DEF Inv, Log, NoTurnDropped, TwiceOnlyWithinSecond, CommitCountsOnce, AcknowledgedAfterStall, OneAtATime
<1> QED
  BY <1>3, <1>4, <1>5 DEF Inv, Log

LEMMA BeginsInv ==
  ASSUME Inv, TypeOK', NEW r \in Recorder, NEW place \in Place, NEW artifact \in Artifact,
         RecordBegins(r, place, artifact)
  PROVE  Inv'
<1> DEFINE tick == [NoTick EXCEPT !.at = now, !.place = place, !.artifact = artifact, !.from = Len(log)]
<1>1. Hold(r, "begun", tick)
  BY DEF RecordBegins
<1>2. /\ UNCHANGED <<now, made, turn, log>> /\ rec'[r].pc = "begun" /\ rec'[r].at = now
      /\ rec'[r].place = place /\ rec'[r].artifact = artifact /\ rec'[r].from = Len(log)
      /\ rec'[r].since = Zero /\ rec'[r].window = {} /\ rec'[r].seen = {}
  BY <1>1 DEF Hold, NoTick, Inv, TypeOK
<1>3. now \in Time /\ now <= now /\ Len(log) <= Len(log)
  BY LogFacts, Constants DEF Inv, TypeOK
<1>4. artifact \in Commit => made[artifact] <= now
  BY DEF Inv, Log, Past, Piece
<1>5. Hand(r)'
  BY <1>2, <1>3, <1>4 DEF Hand
<1>6. log # <<>> => log[Len(log)].until <= now
  BY LogFacts DEF Inv, Log, Lines
<1>7. Alone(r)'
  BY <1>2, <1>6 DEF Alone
<1> QED
  BY <1>1, <1>2, <1>5, <1>7, HoldInv

\* What a recorder reads and decides of what it has in hand: the rest it keeps.
LEMMA ReadsInv ==
  ASSUME Inv, TypeOK', NEW r \in Recorder,
         \/ RecordReadsLast(r) \/ RecordReadsLedger(r) \/ RecordMissesLedger(r) \/ RecordValidates(r)
  PROVE  Inv'
<1>1. Hand(r) /\ Alone(r)
  BY DEF Inv, Log, Hands
<1>2. /\ rec[r].at \in Int /\ rec[r].since \in Int /\ LastAt \in Int
      /\ \A t \in Turn : turn[t].at \in Int
  BY LastTime, Constants DEF Inv, TypeOK
<1>3. rec \in [Recorder -> Hand_]
  BY DEF Inv, TypeOK, Hand_
<1>4. CASE RecordReadsLast(r) /\ LastAt = Zero
  <2> DEFINE tick == [rec[r] EXCEPT !.seen = Terminal]
  <2>1. rec[r].pc = "begun" /\ Hold(r, "counted", tick)
    BY <1>4 DEF RecordReadsLast
  <2>2. /\ UNCHANGED <<now, made, turn, log>> /\ rec'[r].pc = "counted" /\ rec'[r].seen = Terminal
        /\ rec'[r].at = rec[r].at /\ rec'[r].place = rec[r].place /\ rec'[r].from = rec[r].from
        /\ rec'[r].window = rec[r].window /\ rec'[r].since = rec[r].since
        /\ rec'[r].artifact = rec[r].artifact
    BY <1>3, <2>1 DEF Hold, Hand_
  <2>3. log = <<>> /\ rec[r].since = Zero
    <3>1. log = <<>>
      BY <1>4, LastTime DEF Inv
    <3> QED  BY <1>1, <2>1, <3>1, LogFacts DEF Hand, Inv
  <2>4. Terminal' = Terminal
    BY <2>2 DEF Terminal
  <2>5. Hand(r)' /\ Alone(r)'
    BY <1>1, <2>1, <2>2, <2>3, <2>4 DEF Hand, Alone
  <2> QED  BY <2>1, <2>2, <2>5, HoldInv
<1>5. CASE RecordReadsLast(r) /\ LastAt # Zero
  <2> DEFINE tick == [rec[r] EXCEPT !.since = LastAt, !.gap = Seconds(rec[r].at - LastAt)]
  <2>1. rec[r].pc = "begun" /\ Hold(r, "bounded", tick)
    BY <1>5 DEF RecordReadsLast
  <2>2. /\ UNCHANGED <<now, made, turn, log>> /\ rec'[r].pc = "bounded" /\ rec'[r].since = LastAt
        /\ rec'[r].at = rec[r].at /\ rec'[r].place = rec[r].place /\ rec'[r].from = rec[r].from
        /\ rec'[r].window = rec[r].window /\ rec'[r].seen = rec[r].seen
        /\ rec'[r].artifact = rec[r].artifact
    BY <1>3, <2>1 DEF Hold, Hand_
  <2>3. LastAt = log[Len(log)].at /\ Len(log) \in DOMAIN log
    BY <1>5, LastTime, LogFacts DEF Inv, LastAt
  <2>4. Terminal' = Terminal /\ LastAt' = LastAt
    BY <2>2 DEF Terminal, LastAt
  <2>5. rec[r].window = {} /\ rec[r].seen = {}
    BY <1>1, <2>1 DEF Hand
  <2>6. Hand(r)' /\ Alone(r)'
    BY <1>1, <2>1, <2>2, <2>3, <2>4, <2>5 DEF Hand, Alone
  <2> QED  BY <2>1, <2>2, <2>6, HoldInv
<1>6. CASE RecordReadsLedger(r)
  <2> DEFINE W == Observed(rec[r].since, rec[r].at)
             tick == [rec[r] EXCEPT !.window = W, !.seen = Terminal]
  <2>1. rec[r].pc = "bounded" /\ Hold(r, "counted", tick)
    BY <1>6 DEF RecordReadsLedger
  <2>2. /\ UNCHANGED <<now, made, turn, log>> /\ rec'[r].pc = "counted" /\ rec'[r].since = rec[r].since
        /\ rec'[r].at = rec[r].at /\ rec'[r].place = rec[r].place /\ rec'[r].from = rec[r].from
        /\ rec'[r].window = W /\ rec'[r].seen = Terminal
        /\ rec'[r].artifact = rec[r].artifact
    BY <1>3, <2>1 DEF Hold, Hand_
  <2>3. Terminal' = Terminal /\ LastAt' = LastAt
    BY <2>2 DEF Terminal, LastAt
  <2>4. /\ \A t \in W : t \in Terminal /\ turn[t].at <= rec[r].at /\ turn[t].at > rec[r].since
        /\ \A t \in Terminal : turn[t].at <= rec[r].at => t \in W \/ turn[t].at <= rec[r].since
    <3>1. \A t \in Terminal : turn[t].at > rec[r].since \/ turn[t].at <= rec[r].since
      BY <1>2 DEF Terminal
    <3> QED  BY <3>1 DEF Observed
  <2>5. Hand(r)' /\ Alone(r)'
    BY <1>1, <2>1, <2>2, <2>3, <2>4 DEF Hand, Alone
  <2> QED  BY <2>1, <2>2, <2>5, HoldInv
<1>7. ASSUME NEW pc \in {"counted", "valid"}, Hold(r, pc, rec[r]), rec[r].pc # "idle", rec[r].pc # "begun",
             pc = "valid" => Valid(rec[r].artifact, LastAt)
      PROVE  Inv'
  <2>1. /\ UNCHANGED <<now, made, turn, log>> /\ rec'[r].pc = pc /\ rec'[r].since = rec[r].since
        /\ rec'[r].at = rec[r].at /\ rec'[r].place = rec[r].place /\ rec'[r].from = rec[r].from
        /\ rec'[r].window = rec[r].window /\ rec'[r].seen = rec[r].seen
        /\ rec'[r].artifact = rec[r].artifact
    BY <1>3, <1>7 DEF Hold, Hand_
  <2>2. Terminal' = Terminal /\ LastAt' = LastAt
    BY <2>1 DEF Terminal, LastAt
  <2>3. pc = "valid" /\ rec[r].artifact \in Commit =>
          made[rec[r].artifact] # Zero /\ Second(made[rec[r].artifact]) > LastAt
    BY <1>7 DEF Valid, MadeAt, Piece
  <2>4. Hand(r)' /\ Alone(r)'
    BY <1>1, <1>7, <2>1, <2>2, <2>3 DEF Hand, Alone
  <2> QED  BY <1>7, <2>1, <2>4, HoldInv
<1>8. CASE RecordMissesLedger(r)
  BY <1>7, <1>8 DEF RecordMissesLedger
<1>9. CASE RecordValidates(r)
  <2>1. CASE Hold(r, "idle", NoTick)
    <3>1. rec'[r] = NoTick /\ rec'[r].pc = "idle"
      BY <1>3, <2>1 DEF Hold, NoTick
    <3>2. Hand(r)' /\ Alone(r)'
      BY <3>1 DEF Hand, Alone
    <3> QED  BY <2>1, <3>1, <3>2, HoldInv
  <2> QED  BY <1>7, <1>9, <2>1 DEF RecordValidates
<1> QED
  BY <1>4, <1>5, <1>6, <1>8, <1>9

\* The line a recorder appends, and what its hand says of it.
LEMMA NewLine ==
  ASSUME Inv, TypeOK', NEW r \in Recorder, RecordAppends(r)
  PROVE  LET n == Len(log) + 1
         IN  /\ Len(log') = n /\ DOMAIN log' = DOMAIN log \cup {n}
             /\ \A k \in DOMAIN log : log'[k] = log[k] /\ k < n
             /\ log'[n].at = Second(rec[r].at) /\ log'[n].until = rec[r].at
             /\ log'[n].artifact = rec[r].artifact /\ log'[n].window = rec[r].window
             /\ log'[n].seen = rec[r].seen /\ log'[n].first = (rec[r].since = Zero)
             /\ log'[n].alone = (rec[r].from = Len(log))
             /\ UNCHANGED <<now, made, turn, escalations, check>> /\ Terminal' = Terminal
             /\ \A q \in Recorder : q # r => rec'[q] = rec[q]
             /\ rec'[r] = NoTick
<1>1. log \in Seq(Entry) /\ Len(log) \in Nat /\ log' = Append(log, LineOf(rec[r]))
  BY LogFacts DEF Inv, RecordAppends
<1>2. /\ UNCHANGED <<now, made, turn, escalations, check>> /\ Terminal' = Terminal
      /\ \A q \in Recorder : q # r => rec'[q] = rec[q]
      /\ rec'[r] = NoTick
  BY DEF Inv, TypeOK, RecordAppends, Terminal
<1>3. /\ Len(log') = Len(log) + 1 /\ DOMAIN log' = DOMAIN log \cup {Len(log) + 1}
      /\ \A k \in DOMAIN log : log'[k] = log[k] /\ k < Len(log) + 1
      /\ log'[Len(log) + 1] = LineOf(rec[r])
  <2>1. log' \in Seq(Entry)
    BY DEF TypeOK
  <2>2. Len(log') = Len(log) + 1 /\ log'[Len(log) + 1] = LineOf(rec[r])
    BY <1>1
  <2>3. DOMAIN log' = 1 .. Len(log) + 1 /\ DOMAIN log = 1 .. Len(log)
    BY <1>1, <2>1, <2>2
  <2>4. \A k \in 1 .. Len(log) : log'[k] = log[k]
    BY <1>1
  <2> QED  BY <1>1, <2>2, <2>3, <2>4
<1> QED
  BY <1>2, <1>3 DEF LineOf

LEMMA AppendsInv ==
  ASSUME Inv, TypeOK', NEW r \in Recorder, RecordAppends(r)
  PROVE  Inv'
<1> DEFINE n == Len(log) + 1
<1>1. /\ Len(log') = n /\ DOMAIN log' = DOMAIN log \cup {n}
      /\ \A k \in DOMAIN log : log'[k] = log[k] /\ k < n
      /\ log'[n].at = Second(rec[r].at) /\ log'[n].until = rec[r].at
      /\ log'[n].artifact = rec[r].artifact /\ log'[n].window = rec[r].window
      /\ log'[n].seen = rec[r].seen /\ log'[n].first = (rec[r].since = Zero)
      /\ log'[n].alone = (rec[r].from = Len(log))
      /\ UNCHANGED <<now, made, turn, escalations, check>> /\ Terminal' = Terminal
      /\ \A q \in Recorder : q # r => rec'[q] = rec[q]
      /\ rec'[r] = NoTick
  BY NewLine
<1>2. /\ Len(log) \in Nat /\ n \in Nat /\ DOMAIN log = 1 .. Len(log) /\ n \notin DOMAIN log
      /\ \A k \in DOMAIN log : k \in Nat /\ k <= Len(log) /\ log[k] \in Entry
      /\ \A k \in DOMAIN log : Len(log) \in DOMAIN log /\ log # <<>>
  BY LogFacts DEF Inv
<1>3. /\ Hand(r) /\ Alone(r) /\ rec[r].pc = "valid"
  BY DEF Inv, Log, Hands, RecordAppends
<1>4. /\ \A t \in Turn : turn[t].at \in Time \cup {Zero} /\ turn[t].at \in Int
      /\ rec[r].at \in Time /\ rec[r].at \in Int /\ rec[r].since \in Int
      /\ \A k \in DOMAIN log : log[k].until \in Time /\ log[k].until \in Int /\ log[k].at \in Int
      /\ \A p \in Piece : made[p] \in Time \cup {Zero} /\ made[p] \in Int
      /\ now \in Int
  <2>1. \A k \in DOMAIN log : log[k].until \in Time /\ log[k].at \in Time
    BY <1>2 DEF Entry
  <2> QED  BY <1>3, <2>1, Constants DEF Inv, TypeOK, Hand
<1>5. OneAtATime' => OneAtATime /\ rec[r].from = Len(log)
  BY <1>1 DEF OneAtATime
<1>6. ASSUME NEW k \in DOMAIN log, OneAtATime
      PROVE  log[k].until <= log[Len(log)].until /\ log[k].at <= LastAt
  <2>1. Len(log) \in DOMAIN log /\ log[Len(log)].at = LastAt
    BY <1>2 DEF LastAt
  <2>2. log[k].until <= log[Len(log)].until
    <3>1. CASE k = Len(log)
      <4>1. log[Len(log)].until \in Int
        BY <1>4, <2>1
      <4>2. log[Len(log)].until <= log[Len(log)].until
        BY <4>1, SMT
      <4> QED  BY <3>1, <4>2
    <3>2. CASE k < Len(log)
      BY <1>6, <2>1, <3>2 DEF Inv, Log, InOrder
    <3> QED  BY <1>2, <3>1, <3>2
  <2>3. log[k].at = Second(log[k].until) /\ log[Len(log)].at = Second(log[Len(log)].until)
    BY <2>1 DEF Inv, Log, Lines
  <2> QED  BY <1>4, <2>1, <2>2, <2>3, SecondFacts
<1>7. Hands'
  <2> SUFFICES ASSUME NEW q \in Recorder PROVE (Hand(q) /\ Alone(q) /\ (rec[q].pc = "idle" => rec[q] = NoTick))'
    BY DEF Hands
  <2>1. CASE q = r
    BY <1>1, <2>1 DEF Hand, Alone, NoTick
  <2>2. CASE q # r
    <3>1. Hand(q) /\ (rec[q].pc = "idle" => rec[q] = NoTick) /\ rec'[q] = rec[q]
      BY <1>1, <2>2 DEF Inv, Log, Hands
    <3>2. rec[q].pc # "idle" => rec[q].from <= n /\ rec[q].from # n
      <4>1. rec[q].from \in Nat
        BY DEF Inv, TypeOK
      <4>2. rec[q].pc # "idle" => rec[q].from <= Len(log)
        BY <3>1 DEF Hand
      <4> QED  BY <1>2, <4>1, <4>2
    <3>3. \A k \in DOMAIN log : k \in DOMAIN log' /\ log'[k].at = log[k].at
      BY <1>1
    <3>4. (rec[q].since = Zero \/ \E k \in DOMAIN log : rec[q].since = log[k].at)
            => (rec[q].since = Zero \/ \E k \in DOMAIN log' : rec[q].since = log'[k].at)
      BY <3>3
    <3>5. Hand(q)'
      BY <1>1, <3>1, <3>2, <3>4 DEF Hand
    <3>6. Alone(q)'
      BY <1>1, <3>1, <3>2 DEF Alone
    <3> QED  BY <3>1, <3>5, <3>6
  <2> QED  BY <2>1, <2>2
<1>8. Lines'
  <2>1. rec[r].artifact \in Commit => made[rec[r].artifact] # Zero /\ made[rec[r].artifact] <= rec[r].at
    BY <1>3 DEF Hand
  <2> SUFFICES ASSUME NEW k \in DOMAIN log'
      PROVE  /\ log'[k].at = Second(log'[k].until) /\ log'[k].until <= now
             /\ log'[k].seen \subseteq Terminal
             /\ \A t \in log'[k].window : t \in Terminal /\ turn[t].at <= log'[k].until
             /\ log'[k].artifact \in Commit => /\ made[log'[k].artifact] # Zero
                                              /\ made[log'[k].artifact] <= log'[k].until
    BY <1>1 DEF Lines
  <2>2. CASE k = n
    BY <1>1, <1>3, <2>1, <2>2 DEF Hand
  <2>3. CASE k \in DOMAIN log
    BY <1>1, <2>3 DEF Inv, Log, Lines
  <2> QED  BY <1>1, <2>2, <2>3
<1>9. InOrder'
  <2> SUFFICES ASSUME OneAtATime', NEW i \in DOMAIN log', NEW j \in DOMAIN log', i < j
      PROVE  log'[i].until <= log'[j].until
    BY DEF InOrder
  <2>1. CASE i \in DOMAIN log /\ j \in DOMAIN log
    BY <1>1, <1>5, <2>1 DEF Inv, Log, InOrder
  <2>2. CASE i \in DOMAIN log /\ j = n
    <3>1. log[Len(log)].until <= rec[r].at /\ Len(log) \in DOMAIN log
      BY <1>2, <1>3, <1>5, <2>2 DEF Alone
    <3>2. log[i].until <= log[Len(log)].until
      BY <1>5, <1>6, <2>2
    <3>3. log[i].until <= rec[r].at
      BY <1>4, <2>2, <3>1, <3>2
    <3> QED  BY <1>1, <2>2, <3>3
  <2>3. i = n => FALSE
    BY <1>1, <1>2
  <2> QED  BY <1>1, <2>1, <2>2, <2>3
<1>10. NoTurnDropped'
  <2> SUFFICES ASSUME NEW t \in Turn, NEW i \in DOMAIN log',
                      turn[t].stage = "over", t \in log'[i].seen, turn[t].at <= log'[i].until
      PROVE  \/ \E j \in DOMAIN log' : t \in log'[j].window
             \/ \E j \in DOMAIN log' : log'[j].first /\ t \in log'[j].seen
             \/ \E j \in DOMAIN log' : turn[t].at <= log'[j].at /\ t \notin log'[j].seen
    BY <1>1 DEF NoTurnDropped
  <2>1. ASSUME NEW k \in DOMAIN log, t \in log[k].seen, turn[t].at <= log[k].until
        PROVE  \/ \E j \in DOMAIN log : t \in log[j].window
               \/ \E j \in DOMAIN log : log[j].first /\ t \in log[j].seen
               \/ \E j \in DOMAIN log : turn[t].at <= log[j].at /\ t \notin log[j].seen
    BY <2>1 DEF Inv, Log, NoTurnDropped
  <2>2. CASE \/ \E j \in DOMAIN log : t \in log[j].window
             \/ \E j \in DOMAIN log : log[j].first /\ t \in log[j].seen
             \/ \E j \in DOMAIN log : turn[t].at <= log[j].at /\ t \notin log[j].seen
    BY <1>1, <2>2
  <2>3. CASE i \in DOMAIN log
    BY <1>1, <2>1, <2>2, <2>3
  <2>4. CASE i = n
    <3>1. t \in rec[r].window \/ rec[r].since = Zero \/ turn[t].at <= rec[r].since
      BY <1>1, <1>3, <2>4 DEF Hand
    <3>2. CASE t \in rec[r].window
      BY <1>1, <3>2
    <3>3. CASE rec[r].since = Zero
      BY <1>1, <2>4, <3>3
    <3>4. CASE turn[t].at <= rec[r].since /\ rec[r].since # Zero
      <4>1. PICK k \in DOMAIN log : rec[r].since = log[k].at
        BY <1>3, <3>4 DEF Hand
      <4>2. log[k].at <= log[k].until
        BY <1>4, SecondFacts DEF Inv, Log, Lines
      <4>3. turn[t].at <= log[k].until /\ turn[t].at <= log[k].at
        BY <1>4, <3>4, <4>1, <4>2
      <4> QED  BY <2>1, <2>2, <4>3
    <3> QED  BY <3>1, <3>2, <3>3, <3>4
  <2> QED  BY <1>1, <2>3, <2>4
<1>11. TwiceOnlyWithinSecond'
  <2> SUFFICES ASSUME OneAtATime', NEW t \in Turn, NEW i \in DOMAIN log', NEW j \in DOMAIN log', i < j,
                      t \in log'[i].window, t \in log'[j].window
      PROVE  Second(turn[t].at) = log'[i].at /\ turn[t].at # log'[i].at
    BY <1>1 DEF TwiceOnlyWithinSecond
  <2>1. CASE i \in DOMAIN log /\ j \in DOMAIN log
    BY <1>1, <1>5, <2>1 DEF Inv, Log, TwiceOnlyWithinSecond
  <2>2. CASE i \in DOMAIN log /\ j = n
    <3>1. turn[t].at <= log[i].until /\ log[i].at = Second(log[i].until)
      BY <1>1, <2>2 DEF Inv, Log, Lines
    <3>2. turn[t].at > LastAt
      BY <1>1, <1>2, <1>3, <1>5, <2>2 DEF Hand, Alone
    <3>3. log[i].at <= LastAt /\ LastAt \in Int
      BY <1>5, <1>6, <2>2, LastTime, Constants DEF Inv
    <3>4. log[i].at < turn[t].at
      BY <1>4, <2>2, <3>2, <3>3
    <3>5. turn[t].at \in Time
      <4>1. log[i].at \in Time
        BY <1>2, <2>2 DEF Entry
      <4>2. log[i].at >= 0 /\ log[i].at \in Int /\ turn[t].at \in Int
        BY <1>4, <2>2, <4>1, Constants
      <4>3. turn[t].at # -1
        BY <3>4, <4>2
      <4> QED  BY <1>4, <4>3, Constants
    <3>6. Second(turn[t].at) = log[i].at
      BY <1>4, <2>2, <3>1, <3>4, <3>5, SecondFacts
    <3>7. turn[t].at # log[i].at
      BY <1>4, <2>2, <3>4
    <3> QED  BY <1>1, <2>2, <3>6, <3>7
  <2>3. i = n => FALSE
    BY <1>1, <1>2
  <2> QED  BY <1>1, <2>1, <2>2, <2>3
<1>12. CommitCountsOnce'
  <2>1. ASSUME OneAtATime', NEW i \in DOMAIN log, log[i].artifact \in Commit,
               log[i].artifact = rec[r].artifact
        PROVE  FALSE
    <3> DEFINE c == log[i].artifact
    <3>1. c \in Piece /\ made[c] # Zero /\ made[c] <= log[i].until /\ log[i].at = Second(log[i].until)
      BY <2>1 DEF Inv, Log, Lines, Piece
    <3>2. Second(made[c]) > LastAt
      BY <1>2, <1>3, <1>5, <2>1 DEF Alone
    <3>3. log[i].at <= LastAt /\ LastAt \in Int
      BY <1>5, <1>6, <2>1, LastTime, Constants DEF Inv
    <3>4. Second(made[c]) <= log[i].at /\ Second(made[c]) \in Int
      <4>1. made[c] \in Time /\ log[i].until \in Time
        BY <1>4, <3>1
      <4> HIDE DEF c
      <4>2. Second(made[c]) <= Second(log[i].until) /\ Second(made[c]) \in Time
        BY <3>1, <4>1, SecondFacts
      <4> QED  BY <3>1, <4>2, Constants
    <3> HIDE DEF c
    <3> QED  BY <1>4, <3>2, <3>3, <3>4
  <2> QED  BY <1>1, <1>2, <1>5, <2>1 DEF CommitCountsOnce, Inv, Log
<1>13. Told' /\ AcknowledgedAfterStall'
  <2>1. check.n \in Nat /\ check.n <= n /\ (check.said = "escalated" => check.n \in DOMAIN log)
    BY <1>2 DEF Inv, Told, TypeOK
  <2>2. Told'
    BY <1>1, <2>1 DEF Inv, Told
  <2>3. check.n .. Len(log) \subseteq check.n .. Len(log')
    BY <1>1, <1>2, <2>1
  <2>4. check.said = "escalated" => \A i \in check.n .. Len(log) : i \in DOMAIN log
    BY <1>2, <2>1
  <2>5. AcknowledgedAfterStall'
    BY <1>1, <1>5, <2>1, <2>3, <2>4 DEF Inv, AcknowledgedAfterStall
  <2> QED  BY <2>2, <2>5
<1> QED
  BY <1>1, <1>7, <1>8, <1>9, <1>10, <1>11, <1>12, <1>13 DEF Inv, Log, Past

-----------------------------------------------------------------------------
(* The invariant holds.                                                      *)

LEMMA InitInv == Init => Inv
<1> SUFFICES ASSUME Init PROVE Inv  OBVIOUS
<1>1. TypeOK
  BY InitTypes
<1>2. DOMAIN log = {} /\ Len(log) = 0
  BY DEF Init
<1>3. \A p \in Piece : made[p] <= now
  BY DEF Init, Zero
<1>4. Hands
  BY DEF Init, Hands, Hand, Alone, NoTick
<1>5. Lines /\ InOrder /\ NoTurnDropped /\ TwiceOnlyWithinSecond /\ CommitCountsOnce
  BY <1>2 DEF Lines, InOrder, NoTurnDropped, TwiceOnlyWithinSecond, CommitCountsOnce
<1>6. Told /\ AcknowledgedAfterStall
  BY <1>2 DEF Init, Told, AcknowledgedAfterStall, NoCheck
<1> QED
  BY <1>1, <1>3, <1>4, <1>5, <1>6 DEF Inv, Log, Past

LEMMA NextInv == Inv /\ [Next]_vars => Inv'
<1> SUFFICES ASSUME Inv, [Next]_vars PROVE Inv'  OBVIOUS
<1>1. TypeOK'
  BY TypesHold DEF Inv, Log
<1>2. CASE UNCHANGED vars
  <2>1. UNCHANGED <<now, made, turn, log, escalations, rec, check>> /\ Terminal' = Terminal /\ LastAt' = LastAt
    BY <1>2 DEF vars, Terminal, LastAt
  <2>2. Hands' /\ Lines' /\ InOrder' /\ Told' /\ Past'
    BY <2>1 DEF Inv, Log, Hands, Hand, Alone, Lines, InOrder, OneAtATime, Told, Past
  <2>3. NoTurnDropped' /\ TwiceOnlyWithinSecond' /\ CommitCountsOnce' /\ AcknowledgedAfterStall'
    BY <2>1 DEF Inv, Log, NoTurnDropped, TwiceOnlyWithinSecond, CommitCountsOnce, AcknowledgedAfterStall, OneAtATime
  <2> QED  BY <1>1, <2>2, <2>3 DEF Inv, Log
<1>3. CASE \E r \in Recorder : RecordStep(r)
  BY <1>1, <1>3, BeginsInv, ReadsInv, AppendsInv DEF RecordStep
<1> QED
  BY <1>1, <1>2, <1>3, QuietInv DEF Next

LEMMA InvHolds == Spec => []Inv
  BY InitInv, NextInv, PTL DEF Spec

\* The log, the recorders and the check stay well formed: a gap is a number, a bound a
\* time the log keeps, and a check never reads a tick that is not there.
THEOREM TypeCorrect == Spec => []TypeOK
<1>1. Inv => TypeOK
  BY DEF Inv
<1> QED
  BY <1>1, InvHolds, PTL

\* No finished turn that a tick has seen is dropped between windows, however many
\* recorders overlap: what one's bound hides, the tick that set the bound accounts for.
THEOREM NothingDropped == Spec => []NoTurnDropped
<1>1. Inv => NoTurnDropped
  BY DEF Inv, Log
<1> QED
  BY <1>1, InvHolds, PTL

\* Recorders that do not overlap count a turn twice only by the fraction of a second
\* that the log does not keep.
THEOREM TwiceWithinSecond == Spec => []TwiceOnlyWithinSecond
<1>1. Inv => TwiceOnlyWithinSecond
  BY DEF Inv, Log
<1> QED
  BY <1>1, InvHolds, PTL

\* No commit is the artifact of two ticks, however many commits and ticks there are.
THEOREM CommitsCountOnce == Spec => []CommitCountsOnce
<1>1. Inv => CommitCountsOnce
  BY DEF Inv, Log
<1> QED
  BY <1>1, InvHolds, PTL

\* No stall is acknowledged by an escalation made before the tick it is a stall of.
THEOREM StallAcknowledged == Spec => []AcknowledgedAfterStall
<1>1. Inv => AcknowledgedAfterStall
  BY DEF Inv
<1> QED
  BY <1>1, InvHolds, PTL

-----------------------------------------------------------------------------
(* What a verdict rests on.                                                  *)

\* Which of the last ticks is a first one, and what each shows for itself, if no other
\* was appended meanwhile.
Shown == \A k \in DOMAIN log : log[k].alone /\ k > 1 =>
  /\ ~log[k].first
  /\ log[k].artifact \in Piece => made[log[k].artifact] > log[k - 1].at

\* A piece that was found new is new until it is appended.
HeldNew == \A r \in Recorder :
  rec[r].pc = "valid" /\ rec[r].from = Len(log) /\ log # <<>> /\ rec[r].artifact \in Piece =>
    made[rec[r].artifact] > LastAt

\* The silence a check began in is one that some gap of the first n ticks excuses.
Excused(n) == LET quiet == check.began - log[n].at
              IN  \/ quiet <= MinStale
                  \/ \E i \in 1 .. n : quiet <= log[i].gap * 2 * StaleMargin

Begun == check.pc = "fresh" =>
  /\ check.from <= Len(log)
  /\ (\E i \in 1 .. check.from : ~log[i].first) => Excused(check.from)

EarnedInv == Shown /\ HeldNew /\ Begun /\ MovingIsEarned

\* A set of numbers that is not empty has a least one.
LEMMA NatOrder == IsWellFoundedOn({ss \in Nat \X Nat : ss[1] < ss[2]}, Nat)
  BY NatLessThanWellFounded DEF OpToRel

LEMMA Least ==
  ASSUME NEW S, S \subseteq Nat, S # {}
  PROVE  \E m \in S : \A k \in S : m <= k
<1> DEFINE R == {ss \in Nat \X Nat : ss[1] < ss[2]}
<1>1. IsWellFoundedOn(R, Nat)  BY NatOrder
<1>2. PICK x \in S : \A y \in S : ~ (<<y, x>> \in R)
  <2> HIDE DEF R
  <2> QED  BY <1>1, WFMin
<1>3. ASSUME NEW k \in S, k < x PROVE FALSE
  <2>1. <<k, x>> \in Nat \X Nat  OBVIOUS
  <2> QED  BY <1>2, <1>3, <2>1
<1>4. x \in Nat /\ \A k \in S : k \in Nat  OBVIOUS
<1> QED  BY <1>3, <1>4

LEMMA UpTo == \A k, i \in Nat : (i <= k <=> i <= k - 1 \/ i = k)
  OBVIOUS

\* The largest gap is the gap of some tick, and no other's is larger: the gaps of a
\* beginning of the log that had no largest would make a shortest such beginning.
LEMMA LargestIs ==
  ASSUME TypeOK, NEW g \in DOMAIN log, ~log[g].first
  PROVE  \E m \in DOMAIN log : LargestGap = log[m].gap
<1> DEFINE Later(k) == {i \in DOMAIN log : i <= k /\ ~log[i].first}
           Has(k) == \E m \in Later(k) : \A i \in Later(k) : log[i].gap <= log[m].gap
           Bad == {k \in 0 .. Len(log) : Later(k) # {} /\ ~Has(k)}
<1>1. /\ Len(log) \in Nat /\ DOMAIN log = 1 .. Len(log)
      /\ \A k \in DOMAIN log : log[k].gap \in Int /\ k \in Nat /\ k <= Len(log) /\ k > 0
  BY LogFacts DEF Entry
<1>2. Bad = {}
  <2> SUFFICES ASSUME Bad # {} PROVE FALSE  OBVIOUS
  <2>1. PICK k \in Bad : \A j \in Bad : k <= j
    <3>1. Bad \subseteq Nat  BY <1>1
    <3> HIDE DEF Bad
    <3> QED  BY <3>1, Least
  <2>2. k \in 0 .. Len(log) /\ Later(k) # {} /\ ~Has(k) /\ k \in Nat
    BY <1>1
  <2>3. k # 0
    BY <1>1, <2>2
  <2>4. k - 1 \in 0 .. Len(log) /\ k \in DOMAIN log /\ ~(k <= k - 1)
    BY <1>1, <2>2, <2>3
  <2>5. Later(k - 1) = {} \/ Has(k - 1)
    BY <2>1, <2>4
  <2>6. Later(k) = Later(k - 1) \cup (IF log[k].first THEN {} ELSE {k})
    <3>1. \A i \in Nat : (i <= k <=> i <= k - 1 \/ i = k)
      <4>1. k \in Nat  BY <2>2
      <4> HIDE DEF Later, Has, Bad
      <4> QED  BY <4>1, UpTo
    <3>2. \A i \in DOMAIN log : i \in Nat
      BY <1>1
    <3> QED  BY <2>4, <3>1, <3>2
  <2>7. CASE log[k].first
    BY <2>2, <2>5, <2>6, <2>7
  <2>8. CASE ~log[k].first /\ Later(k - 1) = {}
    <3>1. Later(k) = {k} /\ log[k].gap <= log[k].gap
      BY <1>1, <2>4, <2>6, <2>8
    <3> QED  BY <2>2, <3>1
  <2>9. CASE ~log[k].first /\ Has(k - 1)
    <3>1. PICK m \in Later(k - 1) : \A i \in Later(k - 1) : log[i].gap <= log[m].gap
      BY <2>9
    <3>2. log[m].gap \in Int /\ log[k].gap \in Int /\ \A i \in Later(k - 1) : log[i].gap \in Int
      BY <1>1, <2>4, <3>1
    <3>3. Later(k) = Later(k - 1) \cup {k} /\ m \in Later(k) /\ k \in Later(k)
      BY <2>6, <2>9
    <3> HIDE DEF Later
    <3>4. CASE log[k].gap <= log[m].gap
      <4>1. \A i \in Later(k) : log[i].gap <= log[m].gap
        BY <3>1, <3>3, <3>4
      <4> QED  BY <2>2, <3>3, <4>1
    <3>5. CASE log[m].gap <= log[k].gap
      <4>1. \A i \in Later(k) : log[i].gap <= log[k].gap
        BY <3>1, <3>2, <3>3, <3>5
      <4> QED  BY <2>2, <3>3, <4>1
    <3> QED  BY <3>2, <3>4, <3>5
  <2> QED  BY <2>5, <2>7, <2>8, <2>9
<1>3. Has(Len(log))
  <2>1. Len(log) \in 0 .. Len(log) /\ g \in Later(Len(log))
    BY <1>1
  <2> QED  BY <1>2, <2>1
<1>4. PICK m \in DOMAIN log : ~log[m].first /\ \A i \in DOMAIN log : ~log[i].first => log[i].gap <= log[m].gap
  BY <1>1, <1>3
<1> DEFINE Gaps == {log[i].gap : i \in {j \in DOMAIN log : ~log[j].first}}
<1>5. log[m].gap \in Gaps
  BY <1>4
<1>6. LargestGap \in Gaps
  BY <1>4, <1>5 DEF LargestGap
<1> QED  BY <1>6

\* Work only gets newer.
LEMMA MadeGrows ==
  ASSUME Inv, TypeOK', \A p \in Piece : made'[p] = made[p] \/ made'[p] = now
  PROVE  \A p \in Piece, t \in Time : made[p] > t => made'[p] > t
<1>1. \A p \in Piece : made[p] \in Int /\ made'[p] \in Int /\ made[p] <= now
  BY Constants DEF Inv, Log, Past, TypeOK
<1>2. now \in Int /\ \A t \in Time : t \in Int
  BY Constants DEF Inv, TypeOK
<1> QED  BY <1>1, <1>2

\* Where the log stays as it is, the verdict on it does.
LEMMA WorkEarned ==
  ASSUME Inv, EarnedInv, TypeOK', UNCHANGED log,
         \A p \in Piece : made'[p] = made[p] \/ made'[p] = now,
         \A r \in Recorder : rec'[r].pc = "valid" =>
           rec'[r] = rec[r] \/ (Valid(rec'[r].artifact, LastAt) /\ UNCHANGED made)
  PROVE  /\ Shown' /\ HeldNew'
         /\ UNCHANGED check => Begun' /\ MovingIsEarned'
<1>1. \A p \in Piece, t \in Time : made[p] > t => made'[p] > t
  BY MadeGrows
<1>2. /\ \A k \in DOMAIN log : log[k].at \in Time /\ (k > 1 => k - 1 \in DOMAIN log)
      /\ LastAt' = LastAt /\ (log # <<>> => LastAt \in Time)
  BY LogFacts, LastTime DEF Inv, Entry, LastAt
<1>3. Shown'
  BY <1>1, <1>2 DEF EarnedInv, Shown
<1>4. HeldNew'
  <2> SUFFICES ASSUME NEW r \in Recorder, rec'[r].pc = "valid", rec'[r].from = Len(log), log # <<>>,
                      rec'[r].artifact \in Piece
               PROVE  made'[rec'[r].artifact] > LastAt
    BY <1>2 DEF HeldNew
  <2>1. CASE rec'[r] = rec[r]
    BY <1>1, <1>2, <2>1 DEF EarnedInv, HeldNew
  <2>2. CASE Valid(rec'[r].artifact, LastAt) /\ UNCHANGED made
    <3> DEFINE p == rec'[r].artifact
    <3>1. made[p] # Zero /\ MadeAt(p) > LastAt
      BY <2>2 DEF Valid, MadeAt
    <3>2. made[p] \in Time /\ LastAt \in Int
      BY <1>2, <3>1, Constants DEF Inv, TypeOK
    <3>3. MadeAt(p) <= made[p] /\ MadeAt(p) \in Int /\ made[p] \in Int
      <4>1. made[p] \in Int /\ Second(made[p]) <= made[p] /\ Second(made[p]) \in Int
        BY <3>2, SecondFacts, Constants
      <4>2. made[p] <= made[p]
        BY <4>1
      <4> QED  BY <4>1, <4>2 DEF MadeAt
    <3> HIDE DEF p
    <3> QED  BY <2>2, <3>1, <3>2, <3>3 DEF p
  <2> QED  BY <2>1, <2>2
<1>5. ASSUME UNCHANGED check PROVE Begun' /\ MovingIsEarned'
  <2>1. Begun'
    BY <1>5 DEF EarnedInv, Begun, Excused
  <2>2. MovingIsEarned'
    <3> SUFFICES ASSUME check.pc = "told", check.said = "moving", check.n >= Window, OneAtATime
                 PROVE  MovingIsEarned'
      BY <1>5 DEF MovingIsEarned, OneAtATime
    <3>1. PICK i \in check.n - Window + 1 .. check.n :
             \/ log[i].artifact \in Real
             \/ /\ log[i].artifact \in Piece
                /\ check.n > Window => made[log[i].artifact] > log[check.n - Window].at
      BY DEF EarnedInv, MovingIsEarned
    <3>2. check.n > Window => check.n - Window \in DOMAIN log
      <4>1. check.n \in Nat /\ check.n <= Len(log)
        BY DEF Inv, Told, TypeOK
      <4> QED  BY <4>1, LogFacts, Constants DEF Inv
    <3>3. \/ log[i].artifact \in Real
          \/ /\ log[i].artifact \in Piece
             /\ check.n > Window => made'[log[i].artifact] > log[check.n - Window].at
      BY <1>1, <1>2, <3>1, <3>2
    <3>4. LET quiet == check.began - log[check.n].at
          IN  \/ check.from < check.n
              \/ quiet <= MinStale
              \/ \E j \in 1 .. check.n : quiet <= log[j].gap * 2 * StaleMargin
      BY DEF EarnedInv, MovingIsEarned
    <3> QED  BY <1>5, <3>3, <3>4 DEF MovingIsEarned
  <2> QED  BY <2>1, <2>2
<1> QED  BY <1>3, <1>4, <1>5

\* The line that is appended shows what its recorder found new.
LEMMA AppendEarned ==
  ASSUME Inv, EarnedInv, TypeOK', NEW r \in Recorder, RecordAppends(r)
  PROVE  EarnedInv'
<1> DEFINE n == Len(log) + 1
<1>1. /\ Len(log') = n /\ DOMAIN log' = DOMAIN log \cup {n}
      /\ \A k \in DOMAIN log : log'[k] = log[k] /\ k < n
      /\ log'[n].artifact = rec[r].artifact /\ log'[n].first = (rec[r].since = Zero)
      /\ log'[n].alone = (rec[r].from = Len(log))
      /\ UNCHANGED <<made, check>>
      /\ \A q \in Recorder : q # r => rec'[q] = rec[q]
      /\ rec'[r] = NoTick
  BY NewLine
<1>2. /\ Len(log) \in Nat /\ DOMAIN log = 1 .. Len(log) /\ n \notin DOMAIN log
      /\ \A k \in DOMAIN log : k \in Nat /\ (k > 1 => k - 1 \in DOMAIN log)
  BY LogFacts DEF Inv
<1>3. Shown'
  <2> SUFFICES ASSUME NEW k \in DOMAIN log', log'[k].alone, k > 1
               PROVE  /\ ~log'[k].first
                      /\ log'[k].artifact \in Piece => made[log'[k].artifact] > log'[k - 1].at
    BY <1>1 DEF Shown
  <2>1. CASE k \in DOMAIN log
    BY <1>1, <1>2, <2>1 DEF EarnedInv, Shown
  <2>2. CASE k = n
    <3>1. log # <<>> /\ n - 1 = Len(log) /\ Len(log) \in DOMAIN log
      BY <1>2, <2>2, LogFacts DEF Inv
    <3>2. LastAt = log'[n - 1].at /\ LastAt # Zero
      BY <1>1, <3>1, LastTime DEF Inv
    <3>3. rec[r].from = Len(log) /\ rec[r].pc = "valid"
      BY <1>1, <2>2 DEF RecordAppends
    <3>4. rec[r].since = LastAt
      BY <3>1, <3>3 DEF Inv, Log, Hands, Alone
    <3> QED  BY <1>1, <2>2, <3>1, <3>2, <3>3, <3>4 DEF EarnedInv, HeldNew
  <2> QED  BY <1>1, <2>1, <2>2
<1>4. HeldNew'
  <2> SUFFICES ASSUME NEW q \in Recorder, rec'[q].pc = "valid", rec'[q].from = n PROVE FALSE
    BY <1>1 DEF HeldNew
  <2>1. q # r
    BY <1>1 DEF NoTick
  <2>2. rec[q].from <= Len(log) /\ rec[q].from = n
    BY <1>1, <2>1 DEF Inv, Log, Hands, Hand
  <2> QED  BY <1>2, <2>2
<1>5. Begun'
  <2> SUFFICES ASSUME check.pc = "fresh"
               PROVE  /\ check.from <= n
                      /\ (\E i \in 1 .. check.from : ~log'[i].first) => Excused(check.from)'
    BY <1>1 DEF Begun
  <2>1. check.from \in Nat /\ check.from <= Len(log)
    BY DEF Inv, TypeOK, EarnedInv, Begun
  <2>2. \A i \in 1 .. check.from : i \in DOMAIN log /\ check.from \in DOMAIN log
    BY <1>2, <2>1
  <2>3. ASSUME NEW i \in 1 .. check.from, ~log'[i].first PROVE Excused(check.from)'
    <3>1. Excused(check.from)
      BY <1>1, <2>2, <2>3 DEF EarnedInv, Begun
    <3> QED  BY <1>1, <2>2, <3>1 DEF Excused
  <2> QED  BY <1>2, <2>1, <2>3
<1>6. MovingIsEarned'
  <2> SUFFICES ASSUME check.pc = "told", check.said = "moving", check.n >= Window, OneAtATime'
               PROVE  MovingIsEarned'
    BY <1>1 DEF MovingIsEarned
  <2>1. OneAtATime
    BY <1>1 DEF OneAtATime
  <2>2. check.n \in Nat /\ check.n <= Len(log) /\ Window \in Nat /\ Window > 0
    BY Constants DEF Inv, TypeOK, Told
  <2>3. /\ \A i \in 1 .. check.n : i \in DOMAIN log
        /\ \A i \in check.n - Window + 1 .. check.n : i \in 1 .. check.n
        /\ check.n \in DOMAIN log
        /\ check.n > Window => check.n - Window \in DOMAIN log
    BY <1>2, <2>2
  <2>4. /\ \E i \in check.n - Window + 1 .. check.n :
             \/ log[i].artifact \in Real
             \/ /\ log[i].artifact \in Piece
                /\ check.n > Window => made[log[i].artifact] > log[check.n - Window].at
        /\ \/ check.from < check.n
           \/ check.began - log[check.n].at <= MinStale
           \/ \E i \in 1 .. check.n : check.began - log[check.n].at <= log[i].gap * 2 * StaleMargin
    BY <2>1 DEF EarnedInv, MovingIsEarned
  <2> QED  BY <1>1, <2>3, <2>4 DEF MovingIsEarned
<1> QED  BY <1>3, <1>4, <1>5, <1>6 DEF EarnedInv

\* Who judges a long enough log by itself finds what MovingIsEarned asks for.
LEMMA JudgedEarned ==
  ASSUME Inv, EarnedInv, Window > 1, OneAtATime, check.pc = "fresh", Len(log) >= Window,
         NEW answer, \A i \in Recent : answer[i] \in Resolutions(log[i].artifact), ~Stalls(answer)
  PROVE  LET n == Len(log)
         IN  /\ \E i \in n - Window + 1 .. n :
                  \/ log[i].artifact \in Real
                  \/ /\ log[i].artifact \in Piece
                     /\ n > Window => made[log[i].artifact] > log[n - Window].at
             /\ \/ check.from < n
                \/ Excused(n)
<1>1. /\ Len(log) \in Nat /\ Window \in Nat /\ DOMAIN log = 1 .. Len(log)
      /\ \A k \in DOMAIN log : log[k] \in Entry
  BY LogFacts, Constants DEF Inv
<1>2. PICK i \in Recent : answer[i] = "valid"
  BY DEF Stalls
<1>3. i \in 1 .. Len(log) /\ i \in Len(log) - Window + 1 .. Len(log)
  BY <1>1, <1>2 DEF Recent
<1>4. log[i].artifact \in Real \/ log[i].artifact \in Piece
  <2>1. "valid" \in Resolutions(log[i].artifact)
    BY <1>2
  <2>2. log[i].artifact \in Piece \cup Link \cup {None}
    BY <1>1, <1>3 DEF Entry, Artifact
  <2> QED  BY <2>1, <2>2, TickAssumption DEF Resolutions
<1>5. ASSUME log[i].artifact \in Piece, Len(log) > Window
      PROVE  made[log[i].artifact] > log[Len(log) - Window].at
  <2> DEFINE j == Len(log) - Window
  <2>1. i > 1 /\ i - 1 \in DOMAIN log /\ j \in DOMAIN log /\ j <= i - 1 /\ i \in DOMAIN log
    BY <1>1, <1>3, <1>5
  <2>2. made[log[i].artifact] > log[i - 1].at
    BY <1>5, <2>1 DEF EarnedInv, Shown, OneAtATime
  <2>3. log[j].at <= log[i - 1].at
    <3>1. log[j].until \in Time /\ log[i - 1].until \in Time
      BY <1>1, <2>1 DEF Entry
    <3>2. log[j].until <= log[i - 1].until
      <4>1. CASE j = i - 1
        BY <3>1, <4>1, Constants
      <4>2. CASE j < i - 1
        BY <2>1, <4>2 DEF Inv, Log, InOrder
      <4>3. j \in Int /\ i - 1 \in Int
        BY <1>1, <2>1
      <4> QED  BY <2>1, <4>1, <4>2, <4>3
    <3> QED  BY <2>1, <3>1, <3>2, SecondFacts DEF Inv, Log, Lines
  <2>4. log[j].at \in Int /\ log[i - 1].at \in Int /\ made[log[i].artifact] \in Int
    BY <1>1, <1>5, <2>1, Constants DEF Entry, Inv, TypeOK
  <2> QED  BY <2>2, <2>3, <2>4
<1>6. check.from < Len(log) \/ Excused(Len(log))
  <2>1. check.from \in Nat /\ check.from <= Len(log)
    BY DEF Inv, TypeOK, EarnedInv, Begun
  <2>2. CASE check.from = Len(log)
    <3>1. 2 \in DOMAIN log /\ 2 > 1
      BY <1>1
    <3>2. ~log[2].first /\ 2 \in 1 .. check.from
      BY <1>1, <2>2, <3>1 DEF EarnedInv, Shown, OneAtATime
    <3> QED  BY <2>2, <3>2 DEF EarnedInv, Begun
  <2> QED  BY <1>1, <2>1, <2>2
<1> QED  BY <1>3, <1>4, <1>5, <1>6

LEMMA CheckEarned ==
  ASSUME Inv, EarnedInv, TypeOK', Window > 1, CheckStep
  PROVE  Begun' /\ MovingIsEarned'
<1>1. UNCHANGED <<now, made, turn, log, escalations, rec>>
  BY DEF CheckStep, CheckBegins, CheckReadsWindow, CheckReadsEscalations, CheckEnds, Hears
<1>2. /\ log \in Seq(Entry) /\ Len(log) \in Nat /\ DOMAIN log = 1 .. Len(log) /\ Window \in Nat
      /\ check \in [pc : {"idle", "fresh", "stalled", "told"}, began : Time \cup {Zero},
                    from : Nat, n : Nat, said : {"nothing", "stale", "moving", "stalled", "escalated"}]
  BY LogFacts, Constants DEF Inv, TypeOK
<1>3. CASE CheckBegins
  <2>1. /\ check'.said # "moving" /\ check'.from = Len(log) /\ check'.began = now
        /\ check'.pc = "fresh" => ~Stale
    BY <1>3 DEF CheckBegins, NoCheck
  <2>2. MovingIsEarned'
    BY <2>1 DEF MovingIsEarned
  <2>3. ASSUME ~Stale, NEW g \in DOMAIN log, ~log[g].first PROVE Excused(Len(log))'
    <3>1. PICK m \in DOMAIN log : LargestGap = log[m].gap
      BY <2>3, LargestIs DEF Inv
    <3>2. LastAt = log[Len(log)].at
      BY <1>2, <2>3 DEF LastAt
    <3>3. LET threshold == log[m].gap * 2 * StaleMargin
          IN  ~(now - LastAt > IF threshold < MinStale THEN MinStale ELSE threshold)
      BY <2>3, <3>1 DEF Stale
    <3>4. now \in Int /\ LastAt \in Int
      BY LastTime, Constants DEF Inv, TypeOK
    <3>5. MinStale \in Int /\ log[m].gap * 2 * StaleMargin \in Int
      <4>1. log[m].gap \in Int /\ StaleMargin \in Int /\ MinStale \in Int
        <5>1. log[m] \in Entry
          BY <1>2
        <5>2. log[m].gap \in Int
          BY <5>1 DEF Entry
        <5>3. StaleMargin \in Nat /\ MinStale \in Nat
          BY TickAssumption
        <5> QED  BY <5>2, <5>3
      <4>2. log[m].gap * 2 \in Int
        BY <4>1
      <4> HIDE DEF Entry
      <4> QED  BY <4>1, <4>2
    <3>6. now - LastAt <= MinStale \/ now - LastAt <= log[m].gap * 2 * StaleMargin
      <4> DEFINE q == now - LastAt
                 threshold == log[m].gap * 2 * StaleMargin
      <4>1. q \in Int /\ threshold \in Int /\ MinStale \in Int
        BY <3>4, <3>5
      <4>2. ~(q > IF threshold < MinStale THEN MinStale ELSE threshold)
        BY <3>3
      <4> HIDE DEF q, threshold
      <4>3. q <= MinStale \/ q <= threshold
        BY <4>1, <4>2
      <4> QED  BY <4>3 DEF q, threshold
    <3> QED  BY <1>1, <1>2, <2>1, <3>1, <3>2, <3>6 DEF Excused
  <2>4. Begun'
    <3>1. Len(log) <= Len(log)
      BY <1>2
    <3> QED  BY <1>1, <1>2, <2>1, <2>3, <3>1 DEF Begun
  <2> QED  BY <2>2, <2>4
<1>4. CASE CheckReadsWindow
  <2>1. check.pc = "fresh" /\ check'.pc # "fresh" /\ check'.began = check.began /\ check'.from = check.from
        /\ check'.n = Len(log)
    BY <1>2, <1>4 DEF CheckReadsWindow, Hears
  <2>2. Begun'
    BY <2>1 DEF Begun
  <2>3. ASSUME check'.said = "moving", Len(log) >= Window, OneAtATime PROVE MovingIsEarned'
    <3>1. PICK answer : /\ \A i \in Recent : answer[i] \in Resolutions(log[i].artifact)
                        /\ ~Stalls(answer)
      <4>1. ~(Len(log) < Window)
        BY <1>2, <2>3
      <4> QED  BY <1>2, <1>4, <2>3, <4>1 DEF CheckReadsWindow, Hears
    <3>2. /\ \E i \in Len(log) - Window + 1 .. Len(log) :
               \/ log[i].artifact \in Real
               \/ /\ log[i].artifact \in Piece
                  /\ Len(log) > Window => made[log[i].artifact] > log[Len(log) - Window].at
          /\ check.from < Len(log) \/ Excused(Len(log))
      BY <2>1, <2>3, <3>1, JudgedEarned
    <3> QED  BY <1>1, <2>1, <3>2 DEF MovingIsEarned, Excused
  <2>4. MovingIsEarned'
    BY <1>1, <2>1, <2>3 DEF MovingIsEarned, OneAtATime
  <2> QED  BY <2>2, <2>4
<1>5. CASE CheckReadsEscalations \/ CheckEnds
  <2>1. check'.said # "moving" /\ check'.pc # "fresh"
    <3>1. CASE CheckEnds
      BY <3>1 DEF CheckEnds, NoCheck
    <3>2. CASE CheckReadsEscalations
      <4>1. PICK said \in {"escalated", "stalled"} : Hears("told", check.n, said)
        BY <3>2 DEF CheckReadsEscalations
      <4> QED  BY <1>2, <4>1 DEF Hears
    <3> QED  BY <1>5, <3>1, <3>2
  <2> QED  BY <2>1 DEF Begun, MovingIsEarned
<1> QED  BY <1>3, <1>4, <1>5 DEF CheckStep

LEMMA NextEarned == Window > 1 /\ Inv /\ EarnedInv /\ [Next]_vars => EarnedInv'
<1> SUFFICES ASSUME Window > 1, Inv, EarnedInv, [Next]_vars PROVE EarnedInv'  OBVIOUS
<1>1. TypeOK'
  BY TypesHold DEF Inv, Log
<1>2. CASE UNCHANGED vars \/ Tock \/ (\E t \in Turn : TurnStep(t)) \/ (\E place \in Place : Escalate(place))
  <2>1. UNCHANGED <<made, log, rec, check>>
    BY <1>2 DEF vars, Tock, TurnStep, DispatchTurn, StampOutcome, AppendOutcome, ReclaimTurn, MoveTurn, Escalate
  <2> QED  BY <1>1, <2>1, WorkEarned DEF EarnedInv
<1>3. ASSUME NEW p \in Piece, Produce(p) PROVE EarnedInv'
  <2>1. UNCHANGED <<log, rec, check>> /\ \A q \in Piece : made'[q] = made[q] \/ made'[q] = now
    BY <1>3 DEF Produce, Inv, TypeOK
  <2> QED  BY <1>1, <2>1, WorkEarned DEF EarnedInv
<1>4. CASE CheckStep
  <2>1. UNCHANGED <<made, log, rec>>
    BY <1>4 DEF CheckStep, CheckBegins, CheckReadsWindow, CheckReadsEscalations, CheckEnds, Hears
  <2> QED  BY <1>1, <1>4, <2>1, WorkEarned, CheckEarned DEF EarnedInv
<1>5. ASSUME NEW r \in Recorder, RecordStep(r), ~RecordAppends(r) PROVE EarnedInv'
  <2>1. PICK pc, tick : /\ Hold(r, pc, tick)
                        /\ \/ pc # "valid"
                           \/ Valid(rec[r].artifact, LastAt) /\ tick = rec[r]
    <3> DEFINE Holds == \E pc, tick : /\ Hold(r, pc, tick)
                                      /\ pc # "valid" \/ (Valid(rec[r].artifact, LastAt) /\ tick = rec[r])
    <3>1. ASSUME NEW pc \in {"idle", "begun", "bounded", "counted"}, NEW tick, Hold(r, pc, tick) PROVE Holds
      BY <3>1
    <3>2. CASE \E place \in Place, artifact \in Artifact : RecordBegins(r, place, artifact)
      BY <3>1, <3>2 DEF RecordBegins
    <3>3. CASE RecordReadsLast(r)
      BY <3>1, <3>3 DEF RecordReadsLast
    <3>4. CASE RecordReadsLedger(r) \/ RecordMissesLedger(r)
      BY <3>1, <3>4 DEF RecordReadsLedger, RecordMissesLedger
    <3>5. CASE RecordValidates(r)
      BY <3>1, <3>5 DEF RecordValidates
    <3>6. Holds
      BY <1>5, <3>2, <3>3, <3>4, <3>5 DEF RecordStep
    <3> QED  BY <3>6
  <2>2. UNCHANGED <<made, log, check>> /\ \A q \in Recorder : q # r => rec'[q] = rec[q]
    BY <2>1 DEF Hold, Inv, TypeOK
  <2>3. rec'[r].pc = "valid" => Valid(rec'[r].artifact, LastAt)
    <3>1. rec'[r] = [tick EXCEPT !.pc = pc]
      BY <2>1 DEF Hold, Inv, TypeOK
    <3>2. CASE pc # "valid"
      <4>1. rec'[r].pc # "valid"
        <5>1. rec'[r].pc \in {"idle", "begun", "bounded", "counted", "valid"}
          BY <1>1 DEF TypeOK
        <5> QED  BY <2>1, <3>1, <3>2, <5>1
      <4> QED  BY <4>1
    <3>3. CASE Valid(rec[r].artifact, LastAt) /\ tick = rec[r]
      <4>1. rec[r] \in Hand_
        BY DEF Inv, TypeOK, Hand_
      <4>2. rec'[r].artifact = rec[r].artifact
        BY <3>1, <3>3, <4>1 DEF Hand_
      <4> QED  BY <3>3, <4>2
    <3> QED  BY <2>1, <3>2, <3>3
  <2> QED  BY <1>1, <2>2, <2>3, WorkEarned DEF EarnedInv
<1> QED
  BY <1>1, <1>2, <1>3, <1>4, <1>5, AppendEarned DEF Next

LEMMA InitEarned == Init => EarnedInv
<1> SUFFICES ASSUME Init PROVE EarnedInv  OBVIOUS
<1>1. DOMAIN log = {} /\ rec = [r \in Recorder |-> NoTick] /\ check = NoCheck
  BY DEF Init
<1> QED
  BY <1>1 DEF EarnedInv, Shown, HeldNew, Begun, MovingIsEarned, NoTick, NoCheck

\* Whoever is told that the loop moves, in a log of any length and among any artifacts,
\* is told so of work that is new since before the ticks it looked at, in a silence the
\* loop has recovered from.  A window of one tick would not do, and is not the code's:
\* the first tick shows no gap to judge a silence by.
THEOREM MovingEarned == ASSUME Window > 1 PROVE Spec => []MovingIsEarned
<1>1. Init => Inv /\ EarnedInv
  BY InitInv, InitEarned
<1>2. Inv /\ EarnedInv /\ [Next]_vars => (Inv /\ EarnedInv)'
  BY NextInv, NextEarned
<1>3. Inv /\ EarnedInv => MovingIsEarned
  BY DEF EarnedInv
<1> QED
  BY <1>1, <1>2, <1>3, PTL DEF Spec
===============================================================================
