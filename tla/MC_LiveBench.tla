------------------------------ MODULE MC_LiveBench ------------------------------
(* Two workers with a sender each and three jobs, against one node. *)
EXTENDS LiveBench, TLC

CONSTANTS A, B, C, w1, w2

MCSender == (w1 :> A) @@ (w2 :> B)
MCRaw == [nonce : 0..(TxCount - 1), to : {C}, value : ValueWei..(ValueWei + TxCount - 1)]
===============================================================================
