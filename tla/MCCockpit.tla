------------------------------ MODULE MCCockpit ------------------------------
(* The terminal on small instances.                                          *)
EXTENDS Cockpit, TLC

Payloads == Request \cup Reply

\* A behaviour is about the rail and its dialog, or about the chat: they share the
\* client and no state of their own.
AboutRail == \/ mode # "idle" \/ opsTarget # NoSession \/ failed \/ shown # {}
             \/ Outstanding(Op \cup {"sessions", "lanes"}) # {}
AboutChat == composing \/ delivered # {} \/ Outstanding({"people", "send"}) # {}
OneQuestion == ~(AboutRail /\ AboutChat)

\* The last id is for an add after a confirmed removal.
LastId == nextID' = MaxId => nextID = MaxId \/ (confirmed # {} /\ Outstanding({"add"}) # {})

\* A call waits for the slot to its deadline when the slot is held or the ids are used up.
Waits == \A c \in Call : At(c, "queued") /\ pc'[c] = "returned" => sem # NoCall \/ nextID >= MaxId - 1

\* Goroutines are alike: the first free ones start.
FirstFree == \A c, d \in Call :
  c < d /\ want[d] = Nothing /\ want'[d] # Nothing => want[c] # Nothing \/ want'[c] # Nothing

\* What is added is what was removed.
AddAgain == mode' = "adding" => confirmed # {}

\* Sessions are alike until one is named.
FirstSession == opsTarget = NoSession => opsTarget' \in {NoSession, CHOOSE s \in Session : TRUE}

\* Also from where the first list has arrived, its id not counted.
MCInit == InitShowing({}) \/ InitShowing(Session)
MCNext == Next /\ OneQuestion' /\ LastId /\ Waits /\ FirstFree /\ FirstSession /\ AddAgain
MCSpec == MCInit /\ [][MCNext]_vars /\ Fairness
===============================================================================
