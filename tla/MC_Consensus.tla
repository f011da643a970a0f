---------------------------- MODULE MC_Consensus ----------------------------
(* Instances of Consensus for TLC. *)
EXTENDS ConsensusInvariant, TLC

CONSTANTS A, B, F, b1, b2

(* Four unit weights would need three engines; weight 2 on A keeps the     *)
(* total 4 and the quorum 3 with two engines and one faulty voter.         *)
MCSeq    == <<A, B, F>>
MCWeight == (A :> 2) @@ (B :> 1) @@ (F :> 1)

HashSymmetry == Permutations(Hash)
=============================================================================
