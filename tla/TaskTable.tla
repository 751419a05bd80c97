------------------------------ MODULE TaskTable ------------------------------
(***************************************************************************)
(* What the ledger promises to everything that reads it: one current state *)
(* per task, replaced by the next record of that task, or an error -- and  *)
(* once reading fails it fails for good, since nothing rewrites the file.  *)
(***************************************************************************)
CONSTANTS Task, State, NoRecord

VARIABLES table,  \* the state each task is reported in
          up      \* FALSE once a read of the whole table errors

tableVars == <<table, up>>

Blank == [t \in Task |-> NoRecord]

Init == table = Blank /\ up = TRUE

\* A record becomes the current state of its task and of no other.
Put(t, s) ==
  /\ up
  /\ table' = [table EXCEPT ![t] = s]
  /\ UNCHANGED up

\* Reading starts to fail; an unreadable table reports nothing at all.
Break ==
  /\ up' = FALSE
  /\ table' = Blank

Next == Break \/ \E t \in Task, s \in State : Put(t, s)

Spec == Init /\ [][Next]_tableVars
=============================================================================
