-------------------------- MODULE MCChainSyncManager --------------------------
(* A chain of two local blocks g1 and g2, the two headers a1 and a2 on top *)
(* of it, and a fork b1 beside a1.                                         *)
EXTENDS ChainSyncManager, TLC

CONSTANTS g1, g2, a1, a2, b1, zero

MCHeaders == {g1, g2, a1, a2, b1}
MCPrev == g1 :> zero @@ g2 :> g1 @@ a1 :> g2 @@ a2 :> a1 @@ b1 :> g2

=============================================================================
