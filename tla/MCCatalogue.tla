----------------------------- MODULE MCCatalogue -----------------------------
(* The register of sources on small instances.                               *)
EXTENDS Catalogue, TLC

CONSTANTS p1, p2, s1

\* One process registers, refreshes and acknowledges, the other acknowledges beside it.
Beside == command'[p2].does \in {"nothing", "ack"}

\* A command is killed where no other runs, or the views would be written.
KilledAlone == kills' # kills => command[p1] = Idle \/ command[p2] = Idle

MCInit == CatalogueInit /\ content = [s \in Source |-> 1]
MCSpec == MCInit /\ [][CatalogueNext /\ Beside /\ KilledAlone]_catalogueVars /\ CatalogueFairness
===============================================================================
