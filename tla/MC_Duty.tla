------------------------------ MODULE MC_Duty ------------------------------
(* Two workers of one category and two dispatchers; a day of four times,   *)
(* cleaning open from 1 to 3, on Saturdays to 2; eight dates from a        *)
(* Monday on; a shift within the day, one over midnight, one of 24 hours.  *)
EXTENDS Duty, TLC

CONSTANTS w1, w2, d1, d2

MCDaySets   == {{0}, {0, 6}}
MCIntervals == {<<1, 3>>, <<3, 1>>, <<2, 2>>}
MCSymmetry  == Permutations(Workers) \cup Permutations(Dispatchers)
=============================================================================
