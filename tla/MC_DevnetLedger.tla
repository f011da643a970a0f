----------------------------- MODULE MC_DevnetLedger -----------------------------
(* Two accounts, of which one is the recipient of every transaction, two    *)
(* transactions of nonce 0 and one of nonce 1.                              *)
EXTENDS DevnetLedger

CONSTANTS A, B

MCRaw == {[nonce |-> n, to |-> B, value |-> v] : n \in {0, 1}, v \in {0, 1}}
           \ {[nonce |-> 1, to |-> B, value |-> 1]}
===============================================================================
