---------------------------- MODULE MC_StaffForms ----------------------------
(* StaffForms on a small instance.  Requests, texts and handlers are       *)
(* interchangeable.                                                        *)
EXTENDS StaffForms, TLC

CONSTANTS s1, r1, r2, k1, k2, t1, t2

Alike == Permutations(Requests) \cup Permutations(Texts)
         \cup Permutations(Tasks)
=============================================================================
