---------------------------- MODULE MCPublication ----------------------------
(* The publication of facts on small instances.                              *)
EXTENDS Publication, TLC

CONSTANTS c1, c2

\* Both candidates have been proposed, the second staged as well.
Proposed == [NoReview EXCEPT !.state = "proposed", !.revision = 1, !.cited = 1]
MCInit ==
  \E basis \in {NoNote} \cup {Fact(Nobody, 0)} :
    /\ now = 1
    /\ vault = [NoVault EXCEPT !.note = [p \in Path |-> IF p \in Foreign THEN Fact(Nobody, 0) ELSE NoNote],
                               !.index = Foreign, !.draft[c2][1] = "draft"]
    /\ evidence \in [Candidate -> {InCatalogue, 1}] /\ evidence[c2] = 1
    /\ review = [c \in Candidate |-> IF c = c1 THEN [Proposed EXCEPT !.basis = basis, !.cited = evidence[c]]
                                    ELSE Proposed]
    /\ job = NoJob
    /\ interrupts = 0 /\ torn = [c \in Candidate |-> Whole] /\ astray = {}

\* The second candidate is there to take a name and a line of the index: it is
\* accepted, not interrupted, and its source stays as it is.
Second ==
  /\ review'[c2].revision = 1 /\ evidence'[c2] = 1
  /\ job'.of = c2 => job'.pc = "writing" /\ job'.state = "promoted"
  /\ torn'[c2] = Whole /\ \A p \in Path : vault'.note[p].of = c2 => ~vault'.note[p].marked

\* Once the candidate has a note, that is the one inspected.
OwnNote == review'[c1].revision = 2 /\ review[c1].path # NoPath =>
  review'[c1].basis \in {review[c1].basis, NoNote, vault.note[review[c1].path]}

\* Somebody names a note at most one second after the one before it.
NextSecond == now' <= now + 1

MCNext == Next /\ Second /\ OwnNote /\ NextSecond
MCSpec == MCInit /\ [][MCNext]_vars /\ Fairness
===============================================================================
