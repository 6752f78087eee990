------------------------------- MODULE MCDropr -------------------------------
(* Model-checking instance of Dropr: messages of different priorities to    *)
(* one peer.                                                                *)
EXTENDS Dropr, TLC

MCPeerOf   == [m \in Messages |-> CHOOSE p \in Peers : TRUE]
MCPrioOf   == CHOOSE f \in [Messages -> 1 .. Cardinality(Messages)] :
                \A m, k \in Messages : f[m] = f[k] => m = k
MCPeerRank == [p \in Peers |-> 1]
MCStamps   == {1}
HandlerSymmetry == Permutations(Handlers)
=============================================================================
