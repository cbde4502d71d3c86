---------------------------- MODULE MCRoomDriver ----------------------------
(* Instances of RoomDriver for TLC: the catalogue and its floors in cents.    *)
EXTENDS RoomDriver, TLC

CONSTANTS r1, r2

Symmetric == Permutations(Rooms)

Masks == {"model_1", "model_3"}
MaskBackend == [m \in Masks |-> IF m = "model_3" THEN "anthropic" ELSE "deepseek"]
MaskFloor == [m \in Masks |-> IF m = "model_3" THEN 90 ELSE 4]
=============================================================================
