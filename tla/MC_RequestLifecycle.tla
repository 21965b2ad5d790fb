------------------------ MODULE MC_RequestLifecycle ------------------------
(* RequestAudit on small instances.                                        *)
EXTENDS RequestAudit, TLC

CONSTANTS res1, w1, w2, disp, chair, t1, t2, t3

(* Ids are consecutive numbers: which one an INSERT gets depends on order. *)
OneId   == 1..1
TwoIds  == 1..2

Symmetry == Permutations(Tasks) \cup Permutations(Workers)
=============================================================================
