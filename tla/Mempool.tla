------------------------------- MODULE Mempool -------------------------------
(***************************************************************************)
(* The transaction pool and its ingress pipeline (ingress.rs).             *)
(*                                                                         *)
(* A transaction is its hash; the fields the pool reads are functions of   *)
(* it, and hashes are numbers because peek_best orders by them.  A missing *)
(* entry of account_counts reads as 0 and decrement_account_state drops an *)
(* entry that reaches 0, so the map is a total function to Nat, and        *)
(* account_nonces one to sets.                                             *)
(***************************************************************************)
EXTENDS Integers, FiniteSets

CONSTANTS
    Tx,                         \* the hashes of the transactions ever submitted
    Account,                    \* the senders
    from, nonce,                \* fields of a transaction, by hash
    gas_price, gas_limit,
    max_size, max_per_account,  \* MempoolConfig
    min_gas_price, eviction_threshold_percent

ASSUME TxAssumption ==
    /\ Tx \subseteq Nat /\ IsFiniteSet(Tx)
    /\ from \in [Tx -> Account]
    /\ nonce \in [Tx -> Nat] /\ gas_price \in [Tx -> Nat] /\ gas_limit \in [Tx -> Nat]

ASSUME ConfigAssumption ==
    /\ max_size \in Nat /\ max_per_account \in Nat
    /\ min_gas_price \in Nat /\ eviction_threshold_percent \in Nat

VARIABLES
    transactions,    \* the pooled transactions
    account_counts,  \* per sender, how many it has pooled
    account_nonces   \* per sender, the nonces it has pooled

vars == <<transactions, account_counts, account_nonces>>

-----------------------------------------------------------------------------
IsFullBeyond(txs) == Cardinality(txs) > max_size    \* mutant: one over the limit

is_full(txs) == Cardinality(txs) >= max_size

(* validate_candidate: every way a candidate is turned away. *)
validate_candidate(t) ==
    /\ t \notin transactions                             \* DuplicateTransaction
    /\ gas_limit[t] > 0 /\ gas_price[t] >= min_gas_price \* InsufficientGas
    /\ nonce[t] \notin account_nonces[from[t]]           \* InvalidNonce
    /\ account_counts[from[t]] < max_per_account         \* ValidationFailed

suggested_eviction_count ==
    LET percent == IF eviction_threshold_percent > 100 THEN 100 ELSE eviction_threshold_percent
        size    == IF max_size = 0 THEN 1 ELSE max_size
        share   == (size * percent) \div 100
    IN  IF percent = 0 THEN 0 ELSE IF share = 0 THEN 1 ELSE share

EvictedDearestFirst(t, u) ==    \* mutant: peek_best's order, the wrong way round
    gas_price[t] > gas_price[u] \/ (gas_price[t] = gas_price[u] /\ nonce[t] > nonce[u])

(* The order evict_lowest_gas sorts by; equal keys come in any order. *)
EvictedBefore(t, u) ==
    gas_price[t] < gas_price[u] \/ (gas_price[t] = gas_price[u] /\ nonce[t] > nonce[u])

(* The sets evict_lowest_gas may remove: a prefix of that order, as long   *)
(* as the pool stays full and the allowance lasts.                         *)
evict_lowest_gas(allowance) ==
    {V \in SUBSET transactions :
        /\ \A t \in V, u \in transactions \ V : ~EvictedBefore(u, t)
        /\ Cardinality(V) <= allowance
        /\ V # {} => Cardinality(transactions \ V) + 1 >= max_size
        /\ \/ Cardinality(V) = allowance
           \/ V = transactions
           \/ ~is_full(transactions \ V)}

SentBy(X, a) == {t \in X : from[t] = a}

CountsOfOthers(V) ==    \* mutant: an account's last entry is kept
    [a \in Account |->
        LET gone == Cardinality(SentBy(V, a))
        IN  IF gone >= account_counts[a] THEN account_counts[a] ELSE account_counts[a] - gone]

(* decrement_account_state, for every transaction of V. *)
CountsWithout(V) ==
    [a \in Account |->
        LET gone == Cardinality(SentBy(V, a))
        IN  IF gone > account_counts[a] THEN 0 ELSE account_counts[a] - gone]

NoncesWithout(V) ==
    [a \in Account |-> account_nonces[a] \ {nonce[t] : t \in SentBy(V, a)}]

(* remove, for every transaction of V. *)
RemoveAll(V) ==
    /\ transactions'   = transactions \ V
    /\ account_counts' = CountsWithout(V)
    /\ account_nonces' = NoncesWithout(V)

-----------------------------------------------------------------------------
Init ==
    /\ transactions   = {}
    /\ account_counts = [a \in Account |-> 0]
    /\ account_nonces = [a \in Account |-> {}]

InsertUnlessWasFull(t, V) ==    \* mutant: fullness was read before the eviction
    IF is_full(transactions)
      THEN RemoveAll(V)
      ELSE /\ transactions'   = (transactions \ V) \cup {t}
           /\ account_counts' = [CountsWithout(V) EXCEPT ![from[t]] = @ + 1]
           /\ account_nonces' = [NoncesWithout(V) EXCEPT ![from[t]] = @ \cup {nonce[t]}]

(* insert, after V was evicted to make room: the pool is checked again and *)
(* what was evicted stays evicted when it is still full.                   *)
InsertAfter(t, V) ==
    IF is_full(transactions \ V)
      THEN RemoveAll(V)    \* MempoolFull
      ELSE /\ transactions'   = (transactions \ V) \cup {t}
           /\ account_counts' = [CountsWithout(V) EXCEPT ![from[t]] = @ + 1]
           /\ account_nonces' = [NoncesWithout(V) EXCEPT ![from[t]] = @ \cup {nonce[t]}]

(* submit: validate_transaction, then insert. *)
submit(t) ==
    /\ validate_candidate(t)
    /\ IF is_full(transactions)
         THEN \E V \in evict_lowest_gas(suggested_eviction_count) : InsertAfter(t, V)
         ELSE InsertAfter(t, {})

remove(t) ==
    /\ t \in transactions
    /\ RemoveAll({t})

(* The order of peek_best: dearest first, then lowest nonce, then hash. *)
Better(t, u) ==
    \/ gas_price[t] > gas_price[u]
    \/ gas_price[t] = gas_price[u] /\ nonce[t] < nonce[u]
    \/ gas_price[t] = gas_price[u] /\ nonce[t] = nonce[u] /\ t < u

(* drain_batch: remove the transactions peek_best(max_count) lists; their  *)
(* order in the returned list is left out.                                 *)
drain_batch(max_count) ==
    \E V \in SUBSET transactions :
        /\ \/ Cardinality(V) = max_count
           \/ Cardinality(V) < max_count /\ V = transactions
        /\ \A t \in V, u \in transactions \ V : Better(t, u)
        /\ RemoveAll(V)

clear ==
    /\ transactions'   = {}
    /\ account_counts' = [a \in Account |-> 0]
    /\ account_nonces' = [a \in Account |-> {}]

Next ==
    \/ \E t \in Tx : submit(t) \/ remove(t)
    \/ \E n \in 0 .. Cardinality(Tx) : drain_batch(n)
    \/ clear

Spec == Init /\ [][Next]_vars

-----------------------------------------------------------------------------
(* Properties *)

(* The pool holds submitted transactions and its maps are well formed. *)
TypeOK ==
    /\ transactions \subseteq Tx
    /\ account_counts \in [Account -> Nat]
    /\ account_nonces \in [Account -> SUBSET Nat]

Exact(X, counts, nonces) ==
    \A a \in Account :
        /\ counts[a] = Cardinality(SentBy(X, a))
        /\ nonces[a] = {nonce[t] : t \in SentBy(X, a)}
        /\ \A t, u \in SentBy(X, a) : nonce[t] = nonce[u] => t = u

(* The two per-account maps are what recounting the pool would give, and   *)
(* no account has two pooled transactions of one nonce, after any sequence *)
(* of submissions, evictions, removals and drains (insert and              *)
(* decrement_account_state update the maps one entry at a time).           *)
IndexesExact == Exact(transactions, account_counts, account_nonces)

(* The pool never exceeds max_size, and no account exceeds                 *)
(* max_per_account, whatever was evicted to make room.                     *)
WithinLimits ==
    /\ Cardinality(transactions) <= max_size
    /\ \A a \in Account : Cardinality(SentBy(transactions, a)) <= max_per_account

(* A submission that is turned away leaves the pool as it was: nothing is  *)
(* evicted for a transaction that is then not admitted (the second is_full *)
(* of insert, after evict_lowest_gas).                                     *)
EvictionAdmits ==
    [][\A t \in Tx : submit(t) => t \in transactions' \/ UNCHANGED vars]_vars

(* The pool implements the one that is only a set of transactions: its     *)
(* indexes never make it take or refuse what the set itself would not, and *)
(* a full pool trades exactly one cheapest transaction for the new one,    *)
(* whatever eviction_threshold_percent says above 0.                       *)
Set == INSTANCE TransactionPool WITH pooled <- transactions

ImplementsTransactionPool == Set!PoolSpec
=============================================================================
