-------------------------- MODULE MC_Translations --------------------------
(* Translations with two requests and a screen and a job.                         *)
EXTENDS Translations, TLC

CONSTANTS s1, j1, kk, ru

TwoIds == 1..2
(* A list that begins with the newest request, one in order of priority.   *)
TwoOrders == [s \in {s1, j1} |->
               [i \in TwoIds |-> IF s = s1 THEN 3 - i ELSE i]]
=============================================================================
