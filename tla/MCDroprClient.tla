---------------------------- MODULE MCDroprClient ----------------------------
(* Model-checking instance of DroprClient: three messages to two peers, the *)
(* first two urgent ones to the same peer.                                  *)
EXTENDS DroprClient, TLC

CONSTANTS m1, m2, m3, p1, p2

MCPeerOf   == [m \in Messages |-> IF m = m3 THEN p2 ELSE p1]
MCPrioOf   == [m \in Messages |-> IF m = m3 THEN 9 ELSE 1]
MCPeerRank == (p1 :> 1) @@ (p2 :> 2)
MCStamps   == 1 .. 2
=============================================================================
