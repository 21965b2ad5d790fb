---------------------------- MODULE MC_Scheduler ----------------------------
(* Scheduler on small instances: two bot processes share the database; the *)
(* second one's dispatch job is left out of the runs.                      *)
EXTENDS Scheduler, TLC

CONSTANTS r1, r2, e1, e2, d1

Symmetry == Permutations(Ids) \cup Permutations(EscalationJobs)
=============================================================================
