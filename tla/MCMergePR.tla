------------------------------ MODULE MCMergePR ------------------------------
(* A merge on small instances.                                               *)
EXTENDS MergePR

CONSTANTS h1, h2, a, b

Said(says, lane, sha) == [says |-> says, lane |-> lane, sha |-> sha]

\* Approvals of either head, one by the author, and a verdict in words of its own.
Comments == {Said("approved", b, h1), Said("approved", b, h2), Said("approved", a, h1),
             Said("unclear", b, h1)}

\* The pull request starts at h1, only its status changes, and what happens after the
\* merge does not matter.
MCInit == Init /\ head = h1
MCNext == Next /\ merged = None /\ status'[h2] = "none" /\ status'[h1] # "pending"
MCSpec == MCInit /\ [][MCNext]_vars /\ Fairness
===============================================================================
