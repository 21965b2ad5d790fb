------------------------------ MODULE MC_Intake ------------------------------
(* Intake on small instances.                                              *)
EXTENDS Intake, TLC

CONSTANTS t1, t2

Symmetry == Permutations(Tasks)
=============================================================================
