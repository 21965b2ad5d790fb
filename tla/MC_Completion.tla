--------------------------- MODULE MC_Completion ---------------------------
(* Completion on small instances.                                          *)
EXTENDS Completion, TLC

CONSTANTS i1, i2, c1, c2
=============================================================================
