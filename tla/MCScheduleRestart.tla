-------------------------- MODULE MCScheduleRestart --------------------------
(* Model-checking instance of ScheduleRestart.                             *)
EXTENDS ScheduleRestart, TLC

WorkerSymmetry == Permutations(Workers)
=============================================================================
