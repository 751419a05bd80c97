------------------------------- MODULE MCTick ---------------------------------
(* The tick log on small instances.                                          *)
EXTENDS Tick, TLC

\* What a behaviour is about.  The windows of turns, the verdicts on artifacts and
\* the escalations share the times of the log and nothing else, and only the first
\* is said of ticks that overlap: a behaviour looks at one of the three.
AboutWindows == \/ \E t \in Turn : turn[t].stage # "none"
                \/ \E r, s \in Recorder : r # s /\ rec[r].pc # "idle" /\ rec[s].pc # "idle"
                \/ ~OneAtATime
Subjects == {p \in Piece : made[p] # Zero}
            \cup {a \in Artifact \ {None} : \/ \E r \in Recorder : rec[r].artifact = a
                                            \/ \E i \in DOMAIN log : log[i].artifact = a}
AboutEvidence == Subjects # {}
AboutEscalation == escalations # {}

\* Different places matter to what acknowledges a stall, and to nothing else.
Places == ({log[i].place : i \in DOMAIN log} \cup {rec[r].place : r \in Recorder}) \ {None}

OneQuestion ==
  /\ (AboutWindows \/ AboutEvidence) => Cardinality(Places) <= 1
  /\ AboutWindows => ~AboutEvidence /\ ~AboutEscalation /\ check = NoCheck
  /\ AboutEvidence => ~AboutEscalation
  /\ Cardinality(escalations) <= 1
  /\ Cardinality(Subjects) <= 1

\* Recorders are alike, and so are places.
Alike == Permutations(Recorder) \cup Permutations(Place)
===============================================================================
