--------------------------- MODULE TransactionPool ---------------------------
(***************************************************************************)
(* What Mempool promises: a set of transactions without any index.         *)
(***************************************************************************)
EXTENDS Integers, FiniteSets

CONSTANTS Tx, from, nonce, gas_price, gas_limit,
          max_size, max_per_account, min_gas_price, eviction_threshold_percent

VARIABLE pooled

Fits(t) ==
    /\ t \notin pooled
    /\ gas_limit[t] > 0 /\ gas_price[t] >= min_gas_price
    /\ \A u \in pooled : from[u] = from[t] => nonce[u] # nonce[t]
    /\ Cardinality({u \in pooled : from[u] = from[t]}) < max_per_account

(* No pooled transaction is cheaper, or as cheap with a later nonce. *)
Cheapest(v) ==
    \A u \in pooled : \/ gas_price[v] < gas_price[u]
                      \/ gas_price[v] = gas_price[u] /\ nonce[v] >= nonce[u]

Admit(t) ==
    /\ Fits(t)
    /\ Cardinality(pooled) < max_size
    /\ pooled' = pooled \cup {t}

Trade(t) ==
    /\ Fits(t)
    /\ Cardinality(pooled) = max_size /\ eviction_threshold_percent > 0
    /\ \E v \in pooled : Cheapest(v) /\ pooled' = (pooled \ {v}) \cup {t}

Withdraw == \E V \in SUBSET pooled : pooled' = pooled \ V

PoolInit == pooled = {}
PoolNext == Withdraw \/ \E t \in Tx : Admit(t) \/ Trade(t)
PoolSpec == PoolInit /\ [][PoolNext]_pooled
=============================================================================
