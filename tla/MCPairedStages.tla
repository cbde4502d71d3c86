--------------------------- MODULE MCPairedStages ---------------------------
(* Instances of PairedStages for TLC: the caps tell one dear stage, and both  *)
(* dear ones, from the rest.                                                  *)
EXTENDS PairedStages, TLC
=============================================================================
