------------------------------ MODULE TaskState ------------------------------
(* The states of a dispatched task and what a reader makes of them           *)
(* (internal/ledger).                                                        *)

State == {"dispatched", "complete", "failed", "unknown"}

\* Whether the slot is free.  Unknown is not terminal: a turn nobody could
\* observe may still be running.
Terminal(s) == s \in {"complete", "failed"}
==============================================================================
