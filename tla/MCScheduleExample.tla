-------------------------- MODULE MCScheduleExample --------------------------
(* Model-checking instance of ScheduleExample.                             *)
EXTENDS ScheduleExample, TLC

WorkerSymmetry == Permutations(Workers)
=============================================================================
