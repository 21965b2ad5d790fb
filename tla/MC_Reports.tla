----------------------------- MODULE MC_Reports -----------------------------
(* Two requests, one worker, who has no name; three dates, the last of     *)
(* them the last of all, in months of two days, a week of two, "thirty"    *)
(* days of three.                                                          *)
EXTENDS Reports, TLC

CONSTANTS r1, r2, w1

MCOffered   == {"all", "normal", "none"}
MCUrgencies == {"normal", None}
MCExtreme   == {LastDay}
MCSymmetry  == Permutations({r1, r2})
=============================================================================
