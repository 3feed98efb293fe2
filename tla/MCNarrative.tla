----------------------------- MODULE MCNarrative -----------------------------
(* Three verdicts: two of one storm, which differ in what the signature     *)
(* leaves out (the ETAs of the blast radius), and the calm.                 *)
EXTENDS Narrative

CONSTANTS calm, storm, stormLater

TwoOfOneStorm == [v \in {calm, storm, stormLater} |-> IF v = calm THEN "calm" ELSE "storm"]
=============================================================================
