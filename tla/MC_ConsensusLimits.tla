------------------------- MODULE MC_ConsensusLimits -------------------------
(* Consensus outside the assumptions of the agreement proof. *)
EXTENDS Consensus, TLC

CONSTANTS A, B, F, b1, b2

(* Weights 1, 2 and 1: total 4, quorum 3. *)
HeavySeq    == <<F, A, B>>
HeavyWeight == (A :> 1) @@ (B :> 2) @@ (F :> 1)
=============================================================================
