------------------------------ MODULE MCWorktree ------------------------------
(* Worktree with the dispatcher and a sweep.                                 *)
EXTENDS Worktree
===============================================================================
