---------------------------- MODULE MCDroprServer ----------------------------
(* Model-checking instance of DroprServer: ids are numbers, listed in order. *)
EXTENDS DroprServer, TLC

MCPrecedes(a, b) == a < b

HandlerSymmetry == Permutations(Handlers)
=============================================================================
