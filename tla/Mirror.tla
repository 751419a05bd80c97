-------------------------------- MODULE Mirror --------------------------------
(***************************************************************************)
(* internal/mirror: every dispatch may keep a transcript of its turn and a *)
(* tmux window that follows it.  Windows are bounded by Max, transcripts   *)
(* on disk by Keep; both are housekept by the next dispatch that opens a   *)
(* mirror, which must tell the mirrors of turns that are over from those   *)
(* of turns that run -- and dispatches die without a word.                 *)
(*                                                                         *)
(* An element of Turn stands for one dispatch after another: it is used    *)
(* again once no trace of the last one is left.  Which of the ended windows*)
(* or transcripts are the oldest is left open, and the supervisor's own    *)
(* window, which reap passes over, is not one of these.                    *)
(***************************************************************************)
EXTENDS Integers, FiniteSets

CONSTANTS
  Turn,      \* dispatches
  InFlight,  \* how many of them run at once (the pressure gate's business)
  Max,       \* Config.Max
  Keep       \* Config.Keep

ASSUME BoundsAssumption == {InFlight, Max, Keep} \subseteq Nat \ {0}

VARIABLES
  flaky, \* whether a tmux command may fail: it is so for good or never
  pc,    \* where each dispatch is
  file,  \* its transcript: none, without an owner line, with one, or with the
         \* marker of a footer in it
  mute,  \* the dispatches whose transcript broke: nothing more is written
  old,   \* those without that marker that were not written to for MaxAge
  win,   \* the dispatches that have a window
  list   \* what each dispatch has picked out: windows to kill, then
         \* transcripts to remove

vars == <<flaky, pc, file, mute, old, win, list>>

Stage == {"idle", "counting", "killing", "refusing", "creating", "heading", "opening",
          "pruning", "removing", "mirrored", "unwatched", "over", "gone"}

TypeOK ==
  /\ flaky \in BOOLEAN
  /\ pc \in [Turn -> Stage]
  /\ file \in [Turn -> {"none", "bare", "headed", "footed"}]
  /\ mute \in SUBSET Turn /\ old \in SUBSET Turn /\ win \in SUBSET Turn
  /\ list \in [Turn -> SUBSET Turn]
  /\ \A t \in Turn : list[t] # {} => pc[t] \in {"killing", "refusing", "removing"}

Init ==
  /\ flaky \in BOOLEAN
  /\ pc = [t \in Turn |-> "idle"]
  /\ file = [t \in Turn |-> "none"]
  /\ mute = {} /\ old = {} /\ win = {}
  /\ list = [t \in Turn |-> {}]

Goto(t, stage) == pc' = [pc EXCEPT ![t] = stage]

\* Its dispatcher is no longer there.
Gone(t) == pc[t] \in {"idle", "over", "gone"}

\* Its dispatcher is there, and every heartbeat reaches the transcript.
Writing(t) == ~Gone(t) /\ t \notin mute

-------------------------------------------------------------------------------
(* ended: is this turn over? *)

\* Mutant: only the footer tells.
FooterTold(t) == file[t] \in {"none", "footed"}

\* The transcript cannot be read, has the marker of a footer anywhere in it, or has
\* grown old.
Told(t) == file[t] \in {"none", "footed"} \/ t \in old

\* Mutant: a dispatch that has not written a footer yet is taken for dead.
ProbedDeadUnasked(t) == file[t] = "headed"

\* Nothing says that the turn is over but, perhaps, the age of its transcript.
Unmarked(t) == file[t] \in {"bare", "headed"}

\* Its owner's pid is not running -- or somebody else's now, and then ended
\* does not see it.
ProbedDead(t) == file[t] = "headed" /\ Gone(t)

\* What one pass of ended over a set of turns may find, taken as one moment.
EndedOf(S) ==
  {D \in SUBSET S : \A t \in S : /\ Told(t) => t \in D
                                 /\ t \in D => Told(t) \/ ProbedDead(t)}

-------------------------------------------------------------------------------
(* Open. *)

Begin(t) ==
  /\ pc[t] = "idle" /\ Cardinality({u \in Turn : ~Gone(u)}) < InFlight
  /\ Goto(t, "counting")
  /\ UNCHANGED <<file, mute, old, win, list>>

\* reap: there is room, or the windows cannot be listed.
ReapSkips(t) ==
  /\ pc[t] = "counting"
  /\ Cardinality(win) < Max \/ flaky
  /\ Goto(t, "creating")
  /\ UNCHANGED <<file, mute, old, win, list>>

\* Mutant: room for none more is enough.
ExcessOnly == Cardinality(win) - Max

\* How many windows must go for one more to fit.
Excess == Cardinality(win) - Max + 1

\* reap: as many windows of ended turns as it takes are picked, or all there
\* are, and the mirror is refused.
ReapPicks(t) ==
  /\ pc[t] = "counting" /\ Cardinality(win) >= Max
  /\ LET need == Excess
     IN  \E dead \in EndedOf(win) :
           IF Cardinality(dead) < need
           THEN /\ list' = [list EXCEPT ![t] = dead]
                /\ Goto(t, "refusing")
           ELSE /\ \E picked \in {S \in SUBSET dead : Cardinality(S) = need} :
                     list' = [list EXCEPT ![t] = picked]
                /\ Goto(t, "killing")
  /\ UNCHANGED <<file, mute, old, win>>

\* kill-window; its failure goes unnoticed.
ReapKills(t, w) ==
  /\ pc[t] \in {"killing", "refusing"} /\ w \in list[t]
  /\ win' \in {win \ {w}} \cup (IF flaky THEN {win} ELSE {})
  /\ list' = [list EXCEPT ![t] = @ \ {w}]
  /\ UNCHANGED <<pc, file, mute, old>>

ReapEnds(t) ==
  /\ pc[t] \in {"killing", "refusing"} /\ list[t] = {}
  /\ Goto(t, IF pc[t] = "killing" THEN "creating" ELSE "unwatched")
  /\ UNCHANGED <<file, mute, old, win, list>>

\* The transcript is opened, or cannot be.
CreateTranscript(t) ==
  /\ pc[t] = "creating"
  /\ \/ Goto(t, "heading") /\ file' = [file EXCEPT ![t] = "bare"]
     \/ Goto(t, "unwatched") /\ UNCHANGED file
  /\ UNCHANGED <<mute, old, win, list>>

\* The header, with the owner line, is written, or breaks the transcript.
WriteHeader(t) ==
  /\ pc[t] = "heading"
  /\ \/ file' = [file EXCEPT ![t] = "headed"] /\ UNCHANGED mute
     \/ UNCHANGED file /\ mute' = mute \cup {t}
  /\ Goto(t, "opening")
  /\ UNCHANGED <<old, win, list>>

OpenWindow(t) ==
  /\ pc[t] = "opening"
  /\ win' = win \cup {t}
  /\ Goto(t, "pruning")
  /\ UNCHANGED <<file, mute, old, list>>

OpenWindowFails(t) ==
  /\ pc[t] = "opening" /\ flaky
  /\ Goto(t, "pruning")
  /\ UNCHANGED <<file, mute, old, win, list>>

\* Mutant: a window does not keep its transcript.
FollowedNone == {}

\* The windows prune takes to be following a transcript.
Followed == win

\* prune: of the transcripts of ended turns that no window follows, or whose
\* windows could not be listed, all but Keep are picked.
PrunePicks(t) ==
  /\ pc[t] = "pruning"
  /\ \E live \in {Followed} \cup (IF flaky THEN {{}} ELSE {}) :
       \E cs \in EndedOf({u \in Turn : file[u] # "none"} \ live) :
         \E picked \in SUBSET cs :
           /\ Cardinality(picked) = (IF Cardinality(cs) <= Keep THEN 0
                                     ELSE Cardinality(cs) - Keep)
           /\ list' = [list EXCEPT ![t] = picked]
  /\ Goto(t, "removing")
  /\ UNCHANGED <<file, mute, old, win>>

PruneRemoves(t, u) ==
  /\ pc[t] = "removing" /\ u \in list[t]
  /\ file' = [file EXCEPT ![u] = "none"]
  /\ old' = old \ {u}
  /\ list' = [list EXCEPT ![t] = @ \ {u}]
  /\ UNCHANGED <<pc, mute, win>>

OpenEnds(t) ==
  /\ pc[t] = "removing" /\ list[t] = {}
  /\ Goto(t, "mirrored")
  /\ UNCHANGED <<file, mute, old, win, list>>

\* The turn is over; Close stamps the footer and leaves the window.
Close(t) ==
  /\ pc[t] \in {"mirrored", "unwatched"}
  /\ IF pc[t] = "mirrored" /\ t \notin mute /\ file[t] # "none"
     THEN file' = [file EXCEPT ![t] = "footed"] ELSE UNCHANGED file
  /\ Goto(t, "over")
  /\ UNCHANGED <<mute, old, win, list>>

-------------------------------------------------------------------------------
(* What happens around it. *)

\* The turn's own output, which its transcript repeats, quotes the marker.
Quotes(t) ==
  /\ pc[t] = "mirrored" /\ t \notin mute /\ Unmarked(t)
  /\ file' = [file EXCEPT ![t] = "footed"]
  /\ UNCHANGED <<pc, mute, old, win, list>>

\* A heartbeat, or the turn's output, cannot be written: none is from now on.
Breaks(t) ==
  /\ pc[t] \in {"opening", "pruning", "removing", "mirrored"} /\ t \notin mute
  /\ mute' = mute \cup {t}
  /\ UNCHANGED <<pc, file, old, win, list>>

\* SIGKILL: no footer.
Crash(t) ==
  /\ ~Gone(t)
  /\ Goto(t, "gone")
  /\ list' = [list EXCEPT ![t] = {}]
  /\ UNCHANGED <<file, mute, old, win>>

\* MaxAge passes without a heartbeat; Open is over long before, and where the marker
\* is the age says nothing more.
Ages(t) ==
  /\ Gone(t) \/ (pc[t] = "mirrored" /\ t \in mute)
  /\ Unmarked(t) /\ t \notin old
  /\ old' = old \cup {t}
  /\ UNCHANGED <<pc, file, mute, win, list>>

\* Somebody closes the window.
WindowCloses(t) ==
  /\ t \in win
  /\ win' = win \ {t}
  /\ UNCHANGED <<pc, file, mute, old, list>>

\* Nothing is left of the dispatch: its place is another's.
Recycle(t) ==
  /\ pc[t] \in {"over", "gone"} /\ file[t] = "none" /\ t \notin win
  /\ \A u \in Turn : t \notin list[u]
  /\ Goto(t, "idle")
  /\ mute' = mute \ {t}
  /\ UNCHANGED <<file, old, win, list>>

DispatchStep(t) ==
  /\ \/ Begin(t) \/ ReapSkips(t) \/ ReapPicks(t) \/ ReapEnds(t) \/ CreateTranscript(t)
     \/ WriteHeader(t) \/ OpenWindow(t) \/ OpenWindowFails(t) \/ PrunePicks(t)
     \/ OpenEnds(t) \/ Close(t) \/ Recycle(t)
     \/ \E u \in Turn : ReapKills(t, u) \/ PruneRemoves(t, u)
  /\ UNCHANGED flaky

Surroundings(t) ==
  /\ Quotes(t) \/ Breaks(t) \/ Crash(t) \/ Ages(t) \/ WindowCloses(t)
  /\ UNCHANGED flaky

Next == \E t \in Turn : DispatchStep(t) \/ Surroundings(t)

Spec == Init /\ [][Next]_vars

\* Dispatches recur and end; transcripts nobody writes to age; a disk is not
\* full and a host does not kill for ever.
Fairness ==
  /\ \A t \in Turn :
       /\ WF_vars(DispatchStep(t))
       /\ WF_vars(Ages(t) /\ UNCHANGED flaky)
       /\ SF_vars(CreateTranscript(t) /\ file' # file /\ UNCHANGED flaky)
  /\ <>[][\A t \in Turn : ~Crash(t)]_vars

FairSpec == Spec /\ Fairness

-------------------------------------------------------------------------------
(* Properties. *)

\* No dispatch retires the window of a turn whose dispatcher is there and writing,
\* and whose output has not quoted the marker of a footer, however long ago it judged
\* it (mirror.go, reap).
RunningWindowKept ==
  [][\A t \in Turn :
       t \in win \ win' /\ Writing(t) /\ Unmarked(t) => WindowCloses(t)]_vars

\* No dispatch removes the transcript of such a turn, nor, while tmux answers,
\* any that a window follows (mirror.go, prune).
TranscriptKept ==
  [][\A t \in Turn :
       file[t] # "none" /\ file'[t] = "none" =>
         ~(Writing(t) /\ Unmarked(t)) /\ (t \in win => flaky)]_vars

\* However many dispatches died without a footer, as long as dispatches go on
\* asking for a mirror windows go on being opened: the bound never fills up
\* with dead ones for good (mirror.go, ended).
NeverPoisoned ==
  (~flaky /\ []<>(\E t \in Turn : pc[t] = "counting")) =>
    []<>(\E t \in Turn : pc[t] = "pruning" /\ t \in win)

\* Dispatches count, kill and open without a lock, so that Max may be
\* exceeded -- but, while tmux answers, by no more than the dispatches that run
\* beside the one that opens (mirror.go, reap and openWindow).
OvershootBounded == ~flaky => Cardinality(win) <= Max + InFlight - 1
===============================================================================
