--------------------------------- MODULE Tick ---------------------------------
(***************************************************************************)
(* internal/tick and spend.WindowedByObservation: every few minutes the    *)
(* director records a tick -- where it works, and an artifact the work     *)
(* produced -- with the turns whose outcome became known since the tick    *)
(* before.  A check of the last Window ticks says whether the loop moves,  *)
(* is stalled, has told somebody so, or has stopped ticking.               *)
(*                                                                         *)
(* The clock counts half seconds, because the log and the forge keep whole *)
(* seconds while the ledger, the file system and the program's own clock   *)
(* keep more: two half seconds are enough to tell apart.                   *)
(***************************************************************************)
EXTENDS Integers, Sequences, FiniteSets

CONSTANTS
  Recorder,    \* processes that run `tick record`
  Turn,        \* dispatched turns, as the ledger knows them
  Place,       \* a phase item with a head of src/
  Commit,      \* artifacts whose time is kept in whole seconds: commits, PRs
  File,        \* artifacts whose time is the file system's
  Link,        \* artifacts taken on their shape: URLs
  Real,        \* the links that lead somewhere
  None,        \* no artifact
  Window,      \* how many ticks a verdict looks at
  StaleMargin, \* how many times the largest gap is too long a silence
  MinStale,    \* a silence, in half seconds, that is never too long
  MaxTime,     \* the last half second (a bound for TLC)
  MaxTicks     \* the longest log (a bound for TLC)

ASSUME TickAssumption ==
  /\ Real \subseteq Link /\ Commit \cap File = {}
  /\ None \notin Commit \cup File \cup Link
  /\ Window \in Nat \ {0} /\ {StaleMargin, MinStale} \subseteq Nat
  /\ {MaxTime, MaxTicks} \subseteq Nat

Piece    == Commit \cup File
Artifact == Piece \cup Link \cup {None}
Zero     == -1                     \* Go's zero time, before every other
Time     == 0 .. MaxTime
Second(t) == t - (t % 2)           \* what RFC 3339 keeps of a time
\* Duration.Seconds() as an integer: cut towards zero.
Seconds(d) == IF d >= 0 THEN d \div 2 ELSE -((-d) \div 2)

VARIABLES
  now,         \* the clock
  made,        \* when each commit or file was last produced, or Zero
  turn,        \* each turn: its stage, and the At of its last record
  log,         \* the tick log
  escalations, \* the escalation log
  rec,         \* what each recorder has in hand
  check        \* the check in progress

vars == <<now, made, turn, log, escalations, rec, check>>

NoTick  == [pc |-> "idle", at |-> Zero, place |-> None, artifact |-> None,
            since |-> Zero, gap |-> 0, window |-> {}, seen |-> {}, from |-> 0]
NoCheck == [pc |-> "idle", began |-> Zero, from |-> 0, n |-> 0, said |-> "nothing"]

\* A line of the log.  `until', `seen' and `alone' are not written: the full
\* time of the tick, the turns that were over when it read the ledger, and
\* whether no other tick was appended while this one was being recorded.
Entry == [at : Time, place : Place, artifact : Artifact, gap : Int, first : BOOLEAN,
          window : SUBSET Turn, until : Time, seen : SUBSET Turn, alone : BOOLEAN]

TypeOK ==
  /\ now \in Time
  /\ made \in [Piece -> Time \cup {Zero}]
  /\ turn \in [Turn -> [stage : {"none", "running", "stamped", "over", "reclaimed"},
                        at : Time \cup {Zero}]]
  /\ log \in Seq(Entry)
  /\ escalations \subseteq [at : Time, place : Place, made : Time]
  /\ rec \in [Recorder -> [pc : {"idle", "begun", "bounded", "counted", "valid"},
                at : Time \cup {Zero}, place : Place \cup {None}, artifact : Artifact,
                since : Time \cup {Zero}, gap : Int, window : SUBSET Turn,
                seen : SUBSET Turn, from : Nat]]
  /\ check \in [pc : {"idle", "fresh", "stalled", "told"}, began : Time \cup {Zero},
                from : Nat, n : Nat, said : {"nothing", "stale", "moving", "stalled", "escalated"}]

Init ==
  /\ now = 0
  /\ made = [p \in Piece |-> Zero]
  /\ turn = [t \in Turn |-> [stage |-> "none", at |-> Zero]]
  /\ log = <<>> /\ escalations = {}
  /\ rec = [r \in Recorder |-> NoTick]
  /\ check = NoCheck

Tock == now < MaxTime /\ now' = now + 1
        /\ UNCHANGED <<made, turn, log, escalations, rec, check>>

-----------------------------------------------------------------------------
(* The work that ticks are about.                                            *)

\* A file may be written again.  A commit is made once, and nobody names it before.
Produce(p) ==
  /\ p \in Commit => made[p] = Zero /\ \A r \in Recorder : rec[r].artifact # p
  /\ made' = [made EXCEPT ![p] = now]
  /\ UNCHANGED <<now, turn, log, escalations, rec, check>>

MoveTurn(t, from, stage, at) ==
  /\ turn[t].stage = from
  /\ turn' = [turn EXCEPT ![t] = [stage |-> stage, at |-> at]]
  /\ UNCHANGED <<now, made, log, escalations, rec, check>>

DispatchTurn(t) == MoveTurn(t, "none", "running", now)

\* Append stamps the outcome's record, and then writes it.
StampOutcome(t)  == MoveTurn(t, "running", "stamped", now)
AppendOutcome(t) == MoveTurn(t, "stamped", "over", turn[t].at)

\* reclaim.Apply appends the dispatched record as failed, its At and all.
ReclaimTurn(t)   == MoveTurn(t, "running", "reclaimed", turn[t].at)

Terminal == {t \in Turn : turn[t].stage \in {"over", "reclaimed"}}

-----------------------------------------------------------------------------
(* tick record.                                                              *)

LastAt == IF log = <<>> THEN Zero ELSE log[Len(log)].at

\* Mutants: a turn that finished with this tick, or with the last, is left out or
\* counted again.
ObservedBefore(since, until) == {t \in Terminal : turn[t].at > since /\ turn[t].at < until}
ObservedFrom(since, until) == {t \in Terminal : turn[t].at >= since /\ turn[t].at <= until}

\* spend.WindowedByObservation over the ledger as it is now.
Observed(since, until) == {t \in Terminal : turn[t].at > since /\ turn[t].at <= until}

\* Validate: absent or a URL will do; a commit or a file must have been produced
\* after the last tick, both as precise as they are kept.
MadeAt(p) == IF p \in Commit THEN Second(made[p]) ELSE made[p]

\* Mutant: in the second of the last tick will do.
ValidInSecond(artifact, since) ==
  artifact \in Piece => made[artifact] # Zero /\ MadeAt(artifact) >= since

Valid(artifact, since) ==
  artifact \in Piece => made[artifact] # Zero /\ MadeAt(artifact) > since

Hold(r, pc, tick) == /\ rec' = [rec EXCEPT ![r] = [tick EXCEPT !.pc = pc]]
                     /\ UNCHANGED <<now, made, turn, log, escalations, check>>

RecordBegins(r, place, artifact) ==
  /\ rec[r].pc = "idle" /\ Len(log) < MaxTicks
  /\ Hold(r, "begun", [NoTick EXCEPT !.at = now, !.place = place, !.artifact = artifact,
                                     !.from = Len(log)])

RecordReadsLast(r) ==
  /\ rec[r].pc = "begun"
  /\ IF LastAt = Zero THEN Hold(r, "counted", [rec[r] EXCEPT !.seen = Terminal])
     ELSE Hold(r, "bounded", [rec[r] EXCEPT !.since = LastAt, !.gap = Seconds(rec[r].at - LastAt)])

RecordReadsLedger(r) ==
  /\ rec[r].pc = "bounded"
  /\ Hold(r, "counted", [rec[r] EXCEPT !.window = Observed(rec[r].since, rec[r].at),
                                       !.seen = Terminal])

\* The ledger cannot be read: the tick is recorded without a window.
RecordMissesLedger(r) ==
  /\ rec[r].pc = "bounded"
  /\ Hold(r, "counted", rec[r])

\* Record reads the last tick once more to judge the artifact by.
RecordValidates(r) ==
  /\ rec[r].pc = "counted"
  /\ IF Valid(rec[r].artifact, LastAt) THEN Hold(r, "valid", rec[r]) ELSE Hold(r, "idle", NoTick)

LineOf(tick) ==
  [at |-> Second(tick.at), place |-> tick.place, artifact |-> tick.artifact,
   gap |-> tick.gap, first |-> tick.since = Zero, window |-> tick.window,
   until |-> tick.at, seen |-> tick.seen, alone |-> tick.from = Len(log)]

RecordAppends(r) ==
  /\ rec[r].pc = "valid" /\ Len(log) < MaxTicks
  /\ log' = Append(log, LineOf(rec[r]))
  /\ rec' = [rec EXCEPT ![r] = NoTick]
  /\ UNCHANGED <<now, made, turn, escalations, check>>

\* tick escalate: `made' is not written, the full time it was told at.
Escalate(place) ==
  /\ escalations' = escalations \cup {[at |-> Second(now), place |-> place, made |-> now]}
  /\ UNCHANGED <<now, made, turn, log, rec, check>>

-----------------------------------------------------------------------------
(* tick check, one reading of a file at a time.                              *)

LargestGap == CHOOSE g \in {log[i].gap : i \in {j \in DOMAIN log : ~log[j].first}} :
                \A i \in DOMAIN log : ~log[i].first => log[i].gap <= g

\* CheckWithStaleness: no gap recorded yet, no threshold.
Stale ==
  /\ \E i \in DOMAIN log : ~log[i].first
  /\ LET threshold == LargestGap * 2 * StaleMargin
     IN  now - LastAt > IF threshold < MinStale THEN MinStale ELSE threshold

Hears(pc, n, said) == /\ check' = [check EXCEPT !.pc = pc, !.n = n, !.said = said]
                      /\ UNCHANGED <<now, made, turn, log, escalations, rec>>

CheckBegins ==
  /\ check.pc = "idle"
  /\ check' = [NoCheck EXCEPT !.pc = IF Stale THEN "told" ELSE "fresh", !.began = now,
                              !.from = Len(log), !.said = IF Stale THEN "stale" ELSE "nothing"]
  /\ UNCHANGED <<now, made, turn, log, escalations, rec>>

\* What asking after an artifact may answer, the network being what it is.
Resolutions(a) == CASE a = None -> {"none"}
                    [] a \in Link -> {"unknown", IF a \in Real THEN "valid" ELSE "invalid"}
                    [] OTHER -> {"unknown", "valid"}

Recent == Len(log) - Window + 1 .. Len(log)

\* Mutant: what could not be asked after is taken for real.
StallsIfFabricated(answer) ==
  LET counted == {i \in Recent : answer[i] \in {"valid", "unknown"}}
  IN  \/ counted = {}
      \/ counted = Recent /\ Cardinality({log[i].artifact : i \in Recent}) = 1 /\ Window > 1

\* checkImpl: fewer than Window ticks establish nothing; one artifact named every
\* time is one piece of output; otherwise one that is confirmed is enough.
Stalls(answer) ==
  LET counted == {i \in Recent : answer[i] = "valid"}
  IN  \/ counted = {}
      \/ counted = Recent /\ Cardinality({log[i].artifact : i \in Recent}) = 1 /\ Window > 1

CheckReadsWindow ==
  /\ check.pc = "fresh"
  /\ IF Len(log) < Window THEN Hears("told", Len(log), "moving")
     ELSE \E answer \in [Recent -> {"none", "unknown", "valid", "invalid"}] :
            /\ \A i \in Recent : answer[i] \in Resolutions(log[i].artifact)
            /\ IF Stalls(answer) THEN Hears("stalled", Len(log), "stalled")
                                 ELSE Hears("told", Len(log), "moving")

\* Mutant: an escalation of the same place, whenever.
AcknowledgesEver(e, last) == e.place = last.place

\* CheckWithEscalation: told of the place of the last tick, no earlier than it.
Acknowledges(e, last) == e.place = last.place /\ e.at >= last.at

\* The last tick is read again here, and may be one the window did not show.
CheckReadsEscalations ==
  /\ check.pc = "stalled"
  /\ Hears("told", check.n, IF \E e \in escalations : Acknowledges(e, log[Len(log)])
                            THEN "escalated" ELSE "stalled")

CheckEnds == check.pc = "told" /\ check' = NoCheck
             /\ UNCHANGED <<now, made, turn, log, escalations, rec>>

-----------------------------------------------------------------------------
RecordStep(r) ==
  \/ \E place \in Place, artifact \in Artifact : RecordBegins(r, place, artifact)
  \/ RecordReadsLast(r) \/ RecordReadsLedger(r) \/ RecordMissesLedger(r)
  \/ RecordValidates(r) \/ RecordAppends(r)
TurnStep(t) == DispatchTurn(t) \/ StampOutcome(t) \/ AppendOutcome(t) \/ ReclaimTurn(t)
CheckStep == CheckBegins \/ CheckReadsWindow \/ CheckReadsEscalations \/ CheckEnds

Next ==
  \/ Tock
  \/ \E p \in Piece : Produce(p)
  \/ \E t \in Turn : TurnStep(t)
  \/ \E r \in Recorder : RecordStep(r)
  \/ \E place \in Place : Escalate(place)
  \/ CheckStep

Spec == Init /\ [][Next]_vars
-----------------------------------------------------------------------------
(* Properties.                                                               *)

\* No tick was being recorded while another was appended.
OneAtATime == \A i \in DOMAIN log : log[i].alone

\* A finished turn that a tick finds in the ledger, no later than the tick, is in
\* the window of that tick or of another -- or was there before the first tick, or a
\* tick rounded to its time or later came before its record, or could not read
\* the ledger.  It holds however ticks overlap (WindowedByObservation, LastAt).
NoTurnDropped ==
  \A t \in Turn, i \in DOMAIN log :
    turn[t].stage = "over" /\ t \in log[i].seen /\ turn[t].at <= log[i].until =>
      \/ \E j \in DOMAIN log : t \in log[j].window
      \/ \E j \in DOMAIN log : log[j].first /\ t \in log[j].seen
      \/ \E j \in DOMAIN log : turn[t].at <= log[j].at /\ t \notin log[j].seen

\* As long as ticks do not overlap, a turn in two windows finished in the very
\* second the first of the two ticks was stamped in, and after the instant the
\* log rounds that tick to.
TwiceOnlyWithinSecond ==
  OneAtATime => \A t \in Turn, i, j \in DOMAIN log :
    i < j /\ t \in log[i].window \cap log[j].window =>
      /\ Second(turn[t].at) = log[i].at
      /\ turn[t].at # log[i].at

\* As long as ticks do not overlap, a commit or a pull request is what one tick
\* shows for itself, never two (Validate).
CommitCountsOnce ==
  OneAtATime => \A i, j \in DOMAIN log :
    log[i].artifact \in Commit /\ log[i].artifact = log[j].artifact => i = j

\* A loop said to be moving, on Window ticks or more, named among the last Window a
\* link that is real or a piece produced since the tick before them, and had
\* ticked within the silence it has shown it recovers from (Record and Check
\* together: the one takes a link unseen, the other never asks when).
MovingIsEarned ==
  check.pc = "told" /\ check.said = "moving" /\ check.n >= Window /\ OneAtATime =>
    LET quiet == check.began - log[check.n].at
    IN  /\ \E i \in check.n - Window + 1 .. check.n :
             \/ log[i].artifact \in Real
             \/ /\ log[i].artifact \in Piece
                /\ check.n > Window => made[log[i].artifact] > log[check.n - Window].at
        /\ \/ check.from < check.n      \* it ticked meanwhile
           \/ quiet <= MinStale
           \/ \E i \in 1 .. check.n : quiet <= log[i].gap * 2 * StaleMargin

\* An escalation acknowledges a stall only if it was made no earlier than the
\* second of the stall's last tick: one from before it never does, though the
\* check reads the log and the escalations at different moments.
AcknowledgedAfterStall ==
  check.pc = "told" /\ check.said = "escalated" /\ OneAtATime =>
    \E e \in escalations : /\ e.made >= log[check.n].at
                           /\ \E i \in check.n .. Len(log) : log[i].place = e.place
===============================================================================
