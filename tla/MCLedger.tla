------------------------------- MODULE MCLedger -------------------------------
(* Ledger with two tasks and a file of a few lines.                          *)
EXTENDS Ledger
===============================================================================
