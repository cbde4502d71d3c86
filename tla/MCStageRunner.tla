--------------------------- MODULE MCStageRunner ---------------------------
(* Instances of StageRunner for TLC: the iteration caps of the tiers. *)
EXTENDS StageRunner

CapsOfTiers == [tier \in AllTiers |-> IF tier = "L" THEN 2 ELSE 1]
=============================================================================
