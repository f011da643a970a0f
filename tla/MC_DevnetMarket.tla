---------------------------- MODULE MC_DevnetMarket ----------------------------
(* Two accounts, one of them the merchant, one seeded token and one to mint, *)
(* and raw transactions that either account may send, with two logs each.     *)
EXTENDS ChainQueries

CONSTANTS A, B

MCRaw  == {[nonce |-> 0, to |-> B, value |-> 0]}
MCLogs == [raw \in MCRaw |-> <<[address |-> raw.to, topics |-> <<1>>], [address |-> A, topics |-> <<>>]>>]
MCHash == MCRaw \cup {MintHash(t) : t \in (Seeds + 1)..MaxToken}
===============================================================================
