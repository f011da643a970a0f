------------------------------ MODULE MC_Mempool ------------------------------
(* An instance of Mempool for TLC: three senders, a reused nonce, equal      *)
(* prices, a price below the minimum and a zero gas limit.                 *)
EXTENDS Mempool

CONSTANTS a, b, c

MCFrom     == <<a, a, a, a, b, b, b, b, c, c, c>>
MCNonce    == <<0, 0, 1, 2, 0, 1, 2, 3, 0, 1, 2>>
MCGasPrice == <<1, 2, 1, 3, 1, 0, 3, 2, 2, 2, 1>>
MCGasLimit == <<1, 1, 1, 1, 1, 1, 0, 1, 1, 1, 1>>
===============================================================================
