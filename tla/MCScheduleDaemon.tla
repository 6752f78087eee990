-------------------------- MODULE MCScheduleDaemon --------------------------
(* Model-checking instance of ScheduleDaemon: workers are interchangeable. *)
EXTENDS ScheduleDaemon, TLC

WorkerSymmetry == Permutations(Workers)
=============================================================================
