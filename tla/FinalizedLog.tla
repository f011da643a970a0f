---------------------------- MODULE FinalizedLog ----------------------------
(***************************************************************************)
(* What finality promises (traits.rs, BlockFinalized): every validator     *)
(* grows one log of block hashes, a block at a time and never rewriting    *)
(* it, and a block is only added where no other log has a different one.   *)
(***************************************************************************)
EXTENDS Naturals, Sequences

CONSTANTS Node, Block

VARIABLE log

LogInit == log = [n \in Node |-> <<>>]

AppendBlock(n, b) ==
    /\ \A m \in Node : Len(log[n]) < Len(log[m]) => log[m][Len(log[n]) + 1] = b
    /\ log' = [log EXCEPT ![n] = Append(log[n], b)]

LogNext == \E n \in Node, b \in Block : AppendBlock(n, b)

LogSpec == LogInit /\ [][LogNext]_log
=============================================================================
