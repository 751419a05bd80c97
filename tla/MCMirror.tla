------------------------------- MODULE MCMirror -------------------------------
(* Mirror with a few dispatches.                                             *)
EXTENDS Mirror
===============================================================================
