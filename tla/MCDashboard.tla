----------------------------- MODULE MCDashboard -----------------------------
(* The page and the narrator with two open refreshes.                       *)
EXTENDS Dashboard

CONSTANTS calm, storm

Distinct == [v \in {calm, storm} |-> IF v = calm THEN "calm" ELSE "storm"]
=============================================================================
