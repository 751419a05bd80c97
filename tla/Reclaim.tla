------------------------------- MODULE Reclaim -------------------------------
(***************************************************************************)
(* internal/reclaim: what one look at a recorded pid can show, and when it *)
(* proves that the process dispatched under it cannot be running any more. *)
(***************************************************************************)
EXTENDS Integers

\* PSProbe's answers, up to what Assess tells apart:
\*   error      ps could not be asked
\*   absent     no such process
\*   foreign    a process whose command is not claude
\*   later      a claude that started after the turn's record was written
\*   plausible  a claude that may be the turn
Observation == {"error", "absent", "foreign", "later", "plausible"}

\* What is seen of a running turn need not be so.  A ps that is killed, or fails, is
\* read as "no such process" like one that finds none; a codex turn's command is
\* never claude; and the wall clock may have been set between start and record.
Misleads(running, seen) == running /\ seen \in {"absent", "foreign", "later"}

\* Mutant: only a reboot proves a process gone.
AssessByBootOnly(pid, at, boot, seen) == pid /\ at < boot

\* Mutant: a probe that fails counts as a process that is gone.
AssessBlindly(pid, at, boot, seen) ==
  pid /\ (at < boot \/ seen # "plausible")

\* Assess, for a record with or without a pid, written in boot epoch at, on a
\* host whose boot epoch reads as boot (0 when it cannot be read).
Assess(pid, at, boot, seen) ==
  pid /\ (at < boot \/ seen \in {"absent", "foreign", "later"})
==============================================================================
