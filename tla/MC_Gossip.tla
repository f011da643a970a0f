------------------------------- MODULE MC_Gossip -------------------------------
(* A ring of four nodes.  The kinds do not interact, so that each has a      *)
(* workload of its own: consensus messages that fit their cache, one of them *)
(* broadcast by two nodes; two transactions that share a cache of one; a     *)
(* block that does not decode beside one that does.                          *)
EXTENDS Gossip, TLC

CONSTANTS A, B, C, D, v1, v2, t1, t2, b1, bad

MCPeers == (A :> {B, D}) @@ (B :> {A, C}) @@ (C :> {B, D}) @@ (D :> {C, A})
MCKind  == (v1 :> "consensus") @@ (v2 :> "consensus") @@ (t1 :> "tx") @@ (t2 :> "tx")
             @@ (b1 :> "block") @@ (bad :> "block")
MCCache == [consensus |-> 2, tx |-> 1, block |-> 2]
MCWorkload == {{<<A, v1>>, <<B, v1>>, <<C, v2>>}, {<<A, t1>>, <<B, t2>>},
               {<<A, b1>>, <<B, b1>>, <<A, bad>>}}
===============================================================================
