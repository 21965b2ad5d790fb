--------------------------- MODULE MC_Participants ---------------------------
(* Participants on small instances.                                        *)
EXTENDS Participants, TLC

CONSTANTS t1, t2, o, w, r, f1

Symmetry == Permutations(Tasks)
=============================================================================
