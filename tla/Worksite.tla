------------------------------ MODULE Worksite -------------------------------
(***************************************************************************)
(* What a dispatch expects of its worktree: it is there from when it is    *)
(* made until it is removed, the turn that works in it and those who merge *)
(* its work may leave anything saved or unsaved, and nobody removes it     *)
(* who has not looked and found nothing that is nowhere else.  What is     *)
(* written after that look goes with it.                                   *)
(***************************************************************************)
VARIABLES there,    \* the directory exists
          unsaved,  \* commits or files are here and nowhere else
          approved  \* somebody looked, found nothing unsaved, and will remove it

siteVars == <<there, unsaved, approved>>

Init == there \in BOOLEAN /\ unsaved = FALSE /\ approved = FALSE

Make == ~there /\ ~approved /\ there' = TRUE /\ UNCHANGED <<unsaved, approved>>

\* The turn commits, edits and pushes; what it pushed is merged.
Work == there /\ unsaved' \in BOOLEAN /\ UNCHANGED <<there, approved>>

Approve == there /\ ~unsaved /\ approved' = TRUE /\ UNCHANGED <<there, unsaved>>

GiveUp == approved' = FALSE /\ UNCHANGED <<there, unsaved>>

Remove ==
  /\ there /\ (approved \/ ~unsaved)
  /\ there' = FALSE /\ approved' \in BOOLEAN
  /\ UNCHANGED unsaved

Next == Make \/ Work \/ Approve \/ GiveUp \/ Remove

Spec == Init /\ [][Next]_siteVars
=============================================================================
