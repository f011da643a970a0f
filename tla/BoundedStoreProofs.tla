-------------------------- MODULE BoundedStoreProofs --------------------------
(***************************************************************************)
(* The two bounded stores of a node, for every size and every content.     *)
(*                                                                         *)
(* The transaction pool (Mempool): its indexes are exact and its limits    *)
(* hold for every set of transactions and every configuration, and it      *)
(* implements TransactionPool.                                             *)
(*                                                                         *)
(* The seen caches (Gossip): in any network they stay exact, and a message *)
(* of a kind that fits its cache is relayed by a node at most once.        *)
(* Exactness is proved with the stronger fact that the queue of a cache    *)
(* has no duplicates; the bound on relays rests on the fact that a cache   *)
(* whose kind fits it never forgets.                                       *)
(***************************************************************************)
EXTENDS Mempool, Gossip, FiniteSetTheorems, TLAPS

-----------------------------------------------------------------------------
(* The transaction pool *)

Typed(X, C, N) ==
    X \subseteq Tx /\ C \in [Account -> Nat] /\ N \in [Account -> SUBSET Nat]

(* The inductive invariant of the pool. *)
Inv == TypeOK /\ IndexesExact /\ WithinLimits

(* Every part of the pool is finite. *)
LEMMA PartFinite ==
  ASSUME NEW X \in SUBSET Tx, NEW x
  PROVE  /\ IsFiniteSet(X) /\ Cardinality(X) \in Nat
         /\ IsFiniteSet(SentBy(X, x))
         /\ Cardinality(SentBy(X, x)) \in Nat
<1>1. IsFiniteSet(X)
  BY Zenon, TxAssumption, FS_Subset
<1>2. SentBy(X, x) \in SUBSET X
  BY DEF SentBy
<1>3. IsFiniteSet(SentBy(X, x))
  BY <1>1, <1>2, FS_Subset
<1> QED BY <1>1, <1>3, FS_CardinalityType

(* decrement_account_state, for every removed transaction, keeps the       *)
(* indexes exact.                                                          *)
LEMMA RemoveExact ==
  ASSUME Inv, NEW V \in SUBSET transactions
  PROVE  /\ Typed(transactions \ V, CountsWithout(V), NoncesWithout(V))
         /\ Exact(transactions \ V, CountsWithout(V), NoncesWithout(V))
<1>1. transactions \subseteq Tx /\ V \subseteq Tx
  BY DEF Inv, TypeOK
<1>2. Exact(transactions, account_counts, account_nonces)
  BY DEF Inv, IndexesExact
<1>3. ASSUME NEW x \in Account
      PROVE  /\ CountsWithout(V)[x] = Cardinality(SentBy(transactions \ V, x))
             /\ CountsWithout(V)[x] \in Nat
  <2> DEFINE P == SentBy(transactions, x)
             W == SentBy(V, x)
  <2>1. /\ IsFiniteSet(P) /\ Cardinality(P) \in Nat /\ Cardinality(W) \in Nat
        /\ Cardinality(P \ W) \in Nat
    <3>1. P \ W = SentBy(transactions \ V, x)
      BY DEF SentBy
    <3> QED BY <3>1, <1>1, PartFinite
  <2>2. P \cap W = W /\ P \ W = SentBy(transactions \ V, x)
    BY DEF SentBy
  <2>4. account_counts[x] = Cardinality(P)
    BY <1>2 DEF Exact
  <2>5. CountsWithout(V)[x] = IF Cardinality(W) > account_counts[x] THEN 0
                              ELSE account_counts[x] - Cardinality(W)
    BY DEF CountsWithout
  <2> HIDE DEF P, W
  <2>3. Cardinality(P \ W) = Cardinality(P) - Cardinality(W)
    BY Zenon, <2>1, <2>2, FS_Difference
  <2>6. CountsWithout(V)[x] = Cardinality(P \ W)
    BY <2>1, <2>3, <2>4, <2>5
  <2> QED BY <2>1, <2>2, <2>6
<1>4. ASSUME NEW x \in Account
      PROVE  NoncesWithout(V)[x] = {nonce[t] : t \in SentBy(transactions \ V, x)}
  <2>1. NoncesWithout(V)[x] =
          account_nonces[x] \ {nonce[t] : t \in SentBy(V, x)}
    BY DEF NoncesWithout
  <2>2. account_nonces[x] = {nonce[t] : t \in SentBy(transactions, x)}
    BY <1>2 DEF Exact
  <2>3. \A t, u \in transactions : from[t] = x /\ from[u] = x /\ nonce[t] = nonce[u] => t = u
    BY Zenon, <1>2 DEF Exact, SentBy
  <2> QED BY <2>1, <2>2, <2>3 DEF SentBy
<1>5. CountsWithout(V) \in [Account -> Nat]
  BY <1>3 DEF CountsWithout
<1>6. NoncesWithout(V) \in [Account -> SUBSET Nat]
  BY DEF NoncesWithout, Inv, TypeOK
<1>7. \A x \in Account : \A t, u \in SentBy(transactions \ V, x) :
         nonce[t] = nonce[u] => t = u
  BY Zenon, <1>2 DEF Exact, SentBy
<1>8. Typed(transactions \ V, CountsWithout(V), NoncesWithout(V))
  BY <1>1, <1>5, <1>6 DEF Typed
<1> QED BY Zenon, <1>3, <1>4, <1>7, <1>8 DEF Exact

(* insert keeps the indexes exact, given a nonce the sender has not pooled. *)
LEMMA InsertExact ==
  ASSUME NEW X, NEW C, NEW N, NEW t \in Tx,
         Typed(X, C, N), Exact(X, C, N), t \notin X, nonce[t] \notin N[from[t]]
  PROVE  LET C2 == [C EXCEPT ![from[t]] = @ + 1]
             N2 == [N EXCEPT ![from[t]] = @ \cup {nonce[t]}]
         IN  Typed(X \cup {t}, C2, N2) /\ Exact(X \cup {t}, C2, N2)
<1> DEFINE f  == from[t]
           C2 == [C EXCEPT ![f] = @ + 1]
           N2 == [N EXCEPT ![f] = @ \cup {nonce[t]}]
<1>1. f \in Account /\ nonce[t] \in Nat
  BY TxAssumption
<1>2. X \subseteq Tx /\ C \in [Account -> Nat] /\ N \in [Account -> SUBSET Nat]
  BY DEF Typed
<1>3. Typed(X \cup {t}, C2, N2)
  BY <1>1, <1>2 DEF Typed
<1>4. ASSUME NEW x \in Account, x # f
      PROVE  /\ C2[x] = C[x] /\ N2[x] = N[x]
             /\ SentBy(X \cup {t}, x) = SentBy(X, x)
  BY <1>2, <1>4 DEF SentBy
<1>5. /\ C2[f] = C[f] + 1 /\ N2[f] = N[f] \cup {nonce[t]}
      /\ SentBy(X \cup {t}, f) = SentBy(X, f) \cup {t}
  BY <1>1, <1>2 DEF SentBy
<1>6. Cardinality(SentBy(X, f) \cup {t}) = Cardinality(SentBy(X, f)) + 1
  <2>1. IsFiniteSet(SentBy(X, f)) /\ t \notin SentBy(X, f)
    BY <1>2, PartFinite DEF SentBy
  <2> QED BY Zenon, <2>1, FS_AddElement
<1>7. \A x \in Account : C2[x] = Cardinality(SentBy(X \cup {t}, x))
  <2> SUFFICES ASSUME NEW x \in Account
               PROVE  C2[x] = Cardinality(SentBy(X \cup {t}, x))
    OBVIOUS
  <2>1. C[x] = Cardinality(SentBy(X, x))
    BY DEF Exact
  <2>2. CASE x = f
    BY <2>1, <2>2, <1>5, <1>6
  <2>3. CASE x # f
    BY <2>1, <2>3, <1>4
  <2> QED BY <2>2, <2>3
<1>8. \A x \in Account : N2[x] = {nonce[u] : u \in SentBy(X \cup {t}, x)}
  <2> SUFFICES ASSUME NEW x \in Account
               PROVE  N2[x] = {nonce[u] : u \in SentBy(X \cup {t}, x)}
    BY Zenon
  <2>1. N[x] = {nonce[u] : u \in SentBy(X, x)}
    BY DEF Exact
  <2>2. CASE x = f
    BY <2>1, <2>2, <1>5
  <2>3. CASE x # f
    BY <2>1, <2>3, <1>4
  <2> QED BY <2>2, <2>3
<1>9. \A x \in Account : \A u, w \in SentBy(X \cup {t}, x) : nonce[u] = nonce[w] => u = w
  <2>1. \A u \in SentBy(X, f) : nonce[u] # nonce[t]
    <3>1. N[f] = {nonce[u] : u \in SentBy(X, f)}
      BY <1>1 DEF Exact
    <3> QED BY <3>1
  <2>2. \A x \in Account : \A u, w \in SentBy(X, x) : nonce[u] = nonce[w] => u = w
    BY DEF Exact
  <2> QED BY <2>1, <2>2, <1>4, <1>5
<1> QED BY Zenon, <1>3, <1>7, <1>8, <1>9 DEF Exact

(* The pool after a successful insert is within its limits: it was not     *)
(* full after the eviction, and the sender was below its own limit.        *)
LEMMA InsertWithin ==
  ASSUME Inv, NEW t \in Tx, validate_candidate(t), NEW V \in SUBSET transactions,
         ~is_full(transactions \ V)
  PROVE  LET X == (transactions \ V) \cup {t} IN
         /\ Cardinality(X) <= max_size
         /\ \A x \in Account : Cardinality(SentBy(X, x)) <= max_per_account
<1> DEFINE R == transactions \ V
           X == R \cup {t}
<1>1. R \subseteq Tx /\ transactions \subseteq Tx /\ t \notin R
  BY DEF Inv, TypeOK, validate_candidate
<1>2. IsFiniteSet(R) /\ Cardinality(R) \in Nat
  BY <1>1, PartFinite
<1>3. Cardinality(R) < max_size
  BY <1>2, ConfigAssumption DEF is_full
<1>4. Cardinality(X) = Cardinality(R) + 1
  BY Zenon, <1>1, <1>2, FS_AddElement
<1>5. ASSUME NEW x \in Account
      PROVE  Cardinality(SentBy(X, x)) <= max_per_account
  <2> DEFINE P == SentBy(transactions, x)
             Q == SentBy(R, x)
  <2>1. /\ IsFiniteSet(P) /\ IsFiniteSet(Q) /\ Cardinality(P) \in Nat
        /\ Cardinality(Q) \in Nat /\ Q \in SUBSET P /\ t \notin Q
    BY <1>1, PartFinite DEF SentBy
  <2>2. Cardinality(Q) <= Cardinality(P)
    BY Zenon, <2>1, FS_Subset
  <2>3. Cardinality(P) <= max_per_account
    BY DEF Inv, WithinLimits
  <2>4. from[t] = x => Cardinality(P) < max_per_account
    BY DEF Inv, IndexesExact, Exact, validate_candidate
  <2>5. SentBy(X, x) = IF from[t] = x THEN Q \cup {t} ELSE Q
    BY DEF SentBy
  <2>6. Cardinality(Q \cup {t}) = Cardinality(Q) + 1
    BY Zenon, <2>1, FS_AddElement
  <2> HIDE DEF P, Q, X, R
  <2> QED BY <2>1, <2>2, <2>3, <2>4, <2>5, <2>6, ConfigAssumption
<1> QED BY <1>2, <1>3, <1>4, <1>5, ConfigAssumption

(* Removing transactions keeps the pool within its limits. *)
LEMMA RemoveWithin ==
  ASSUME Inv, NEW V \in SUBSET transactions
  PROVE  LET X == transactions \ V IN
         /\ Cardinality(X) <= max_size
         /\ \A x \in Account : Cardinality(SentBy(X, x)) <= max_per_account
<1> DEFINE X == transactions \ V
<1>1. X \in SUBSET transactions /\ transactions \in SUBSET Tx /\ X \in SUBSET Tx
  BY DEF Inv, TypeOK
<1>2. /\ IsFiniteSet(transactions) /\ Cardinality(transactions) \in Nat
      /\ Cardinality(X) \in Nat
  BY <1>1, PartFinite
<1>3. Cardinality(X) <= Cardinality(transactions)
  BY <1>1, <1>2, FS_Subset
<1>4. ASSUME NEW x \in Account
      PROVE  Cardinality(SentBy(X, x)) <= max_per_account
  <2>1. /\ IsFiniteSet(SentBy(transactions, x))
        /\ Cardinality(SentBy(transactions, x)) \in Nat /\ Cardinality(SentBy(X, x)) \in Nat
    BY <1>1, PartFinite
  <2>2. SentBy(X, x) \in SUBSET SentBy(transactions, x)
    BY DEF SentBy
  <2>3. Cardinality(SentBy(X, x)) <= Cardinality(SentBy(transactions, x))
    BY Zenon, <2>1, <2>2, FS_Subset
  <2>4. Cardinality(SentBy(transactions, x)) <= max_per_account
    BY DEF Inv, WithinLimits
  <2> QED BY <2>1, <2>3, <2>4, ConfigAssumption
<1>5. Cardinality(transactions) <= max_size
  BY DEF Inv, WithinLimits
<1> QED BY <1>2, <1>3, <1>4, <1>5, ConfigAssumption

(* remove and drain_batch: removing any pooled transactions. *)
LEMMA RemoveStep ==
  ASSUME Inv, NEW V \in SUBSET transactions, RemoveAll(V)
  PROVE  Inv'
<1>1. TypeOK' /\ IndexesExact'
  BY RemoveExact DEF RemoveAll, Typed, TypeOK, IndexesExact, Exact, SentBy
<1>2. WithinLimits'
  BY Zenon, RemoveWithin DEF RemoveAll, WithinLimits, SentBy
<1> QED BY <1>1, <1>2 DEF Inv

(* insert, with or without an eviction. *)
LEMMA InsertStep ==
  ASSUME Inv, NEW t \in Tx, validate_candidate(t),
         NEW V \in SUBSET transactions, InsertAfter(t, V)
  PROVE  Inv'
<1>1. CASE is_full(transactions \ V)
  BY <1>1, RemoveStep DEF InsertAfter
<1>2. CASE ~is_full(transactions \ V)
  <2> DEFINE X == transactions \ V
             C == CountsWithout(V)
             N == NoncesWithout(V)
  <2>1. Typed(X, C, N) /\ Exact(X, C, N)
    BY RemoveExact
  <2>2. t \notin X /\ nonce[t] \notin N[from[t]]
    <3>1. from[t] \in Account
      BY TxAssumption
    <3> QED BY <3>1 DEF validate_candidate, NoncesWithout
  <2>3. /\ transactions'   = X \cup {t}
        /\ account_counts' = [C EXCEPT ![from[t]] = @ + 1]
        /\ account_nonces' = [N EXCEPT ![from[t]] = @ \cup {nonce[t]}]
    BY <1>2 DEF InsertAfter
  <2> HIDE DEF C, N
  <2>4. /\ Typed(transactions', account_counts', account_nonces')
        /\ Exact(transactions', account_counts', account_nonces')
    BY Zenon, <2>1, <2>2, <2>3, InsertExact
  <2>5. TypeOK' /\ IndexesExact'
    BY Zenon, <2>4 DEF Typed, TypeOK, IndexesExact, Exact, SentBy
  <2>6. WithinLimits'
    BY Zenon, <1>2, <2>3, InsertWithin DEF WithinLimits, SentBy
  <2> QED BY <2>5, <2>6 DEF Inv
<1> QED BY <1>1, <1>2
-----------------------------------------------------------------------------
(* A submission to a full pool evicts nothing or exactly one cheapest      *)
(* transaction, however many suggested_eviction_count allows: after one    *)
(* removal the pool is no longer full and evict_lowest_gas stops.          *)
LEMMA EvictsAtMostOne ==
  ASSUME Inv, NEW V \in evict_lowest_gas(suggested_eviction_count), V # {},
         is_full(transactions)
  PROVE  /\ Cardinality(transactions) = max_size /\ eviction_threshold_percent > 0
         /\ ~is_full(transactions \ V)
         /\ \E v \in transactions : V = {v} /\ Set!Cheapest(v)
<1>1. /\ V \in SUBSET transactions /\ transactions \in SUBSET Tx /\ V \in SUBSET Tx
      /\ Cardinality(V) <= suggested_eviction_count
      /\ Cardinality(transactions \ V) + 1 >= max_size
      /\ \A t \in V, u \in transactions \ V : ~EvictedBefore(u, t)
  BY DEF evict_lowest_gas, Inv, TypeOK
<1>2. /\ IsFiniteSet(transactions) /\ IsFiniteSet(V) /\ Cardinality(transactions) \in Nat
      /\ Cardinality(V) \in Nat /\ Cardinality(V) # 0
  BY <1>1, PartFinite, FS_EmptySet
<1>3. Cardinality(transactions \ V) = Cardinality(transactions) - Cardinality(V)
  <2>1. transactions \cap V = V
    BY <1>1
  <2> QED BY Zenon, <1>2, <2>1, FS_Difference
<1>4. Cardinality(transactions) = max_size
  BY <1>2, ConfigAssumption DEF Inv, WithinLimits, is_full
<1>5. Cardinality(V) = 1
  BY <1>1, <1>2, <1>3, <1>4, ConfigAssumption
<1>6. ~is_full(transactions \ V)
  BY <1>2, <1>3, <1>4, <1>5, ConfigAssumption DEF is_full
<1>7. PICK v : V = {v}
  BY <1>2, <1>5, FS_Singleton
<1>8. Set!Cheapest(v)
  <2>1. v \in transactions /\ \A u \in transactions : u # v => ~EvictedBefore(u, v)
    BY <1>1, <1>7
  <2>2. \A u \in transactions : /\ gas_price[u] \in Nat /\ nonce[u] \in Nat
                                /\ gas_price[v] \in Nat /\ nonce[v] \in Nat
    BY <1>1, <2>1, TxAssumption
  <2> QED BY <2>1, <2>2 DEF Set!Cheapest, EvictedBefore
<1>9. eviction_threshold_percent # 0
  <2>1. suggested_eviction_count # 0
    BY <1>1, <1>5
  <2> QED BY <2>1, ConfigAssumption DEF suggested_eviction_count
<1> QED BY <1>1, <1>4, <1>6, <1>7, <1>8, <1>9, ConfigAssumption

(* TransactionPool counts as the pool does. *)
LEMMA SameCardinality == \A S : Set!Cardinality(S) = Cardinality(S)
  BY DEF Set!Cardinality, Cardinality

(* What a submission does to the set of pooled transactions. *)
LEMMA SubmitCases ==
  ASSUME Inv, NEW t \in Tx, submit(t)
  PROVE  \/ Set!Admit(t) \/ Set!Trade(t) \/ UNCHANGED vars
<1>1. validate_candidate(t) /\ transactions \in SUBSET Tx
  BY DEF submit, Inv, TypeOK
<1>2. Set!Fits(t)
  <2>1. from[t] \in Account
    BY TxAssumption
  <2>2. /\ account_counts[from[t]] = Cardinality(SentBy(transactions, from[t]))
        /\ account_nonces[from[t]] = {nonce[u] : u \in SentBy(transactions, from[t])}
    BY <2>1 DEF Inv, IndexesExact, Exact
  <2>3. SentBy(transactions, from[t]) = {u \in transactions : from[u] = from[t]}
    BY DEF SentBy
  <2>4. \A u \in transactions : from[u] = from[t] => nonce[u] # nonce[t]
    BY <1>1, <2>2, <2>3 DEF validate_candidate
  <2> QED BY Zenon, <1>1, <2>2, <2>3, <2>4, SameCardinality DEF validate_candidate, Set!Fits
<1>3. Cardinality(transactions) \in Nat
  BY <1>1, PartFinite
<1>4. CASE ~is_full(transactions)
  <2>1. InsertAfter(t, {}) /\ transactions \ {} = transactions
    BY <1>4 DEF submit
  <2>2. transactions' = transactions \cup {t}
    BY <1>4, <2>1 DEF InsertAfter
  <2>3. Cardinality(transactions) < max_size
    BY <1>3, <1>4, ConfigAssumption DEF is_full
  <2> QED BY Zenon, <1>2, <2>2, <2>3, SameCardinality DEF Set!Admit
<1>5. CASE is_full(transactions)
  <2>1. PICK V \in evict_lowest_gas(suggested_eviction_count) : InsertAfter(t, V)
    BY <1>5 DEF submit
  <2>2. CASE V = {}
    <3>1. RemoveAll({}) /\ transactions \ {} = transactions
      BY <1>5, <2>1, <2>2 DEF InsertAfter
    <3>2. \A x \in Account : SentBy({}, x) = {} /\ Cardinality({}) = 0
      BY FS_EmptySet DEF SentBy
    <3>3. account_counts \in [Account -> Nat] /\ account_nonces \in [Account -> SUBSET Nat]
      BY DEF Inv, TypeOK
    <3>4. CountsWithout({}) = account_counts
      <4>1. \A x \in Account : CountsWithout({})[x] = account_counts[x]
        <5> SUFFICES ASSUME NEW x \in Account PROVE CountsWithout({})[x] = account_counts[x]
          OBVIOUS
        <5>1. Cardinality(SentBy({}, x)) = 0 /\ account_counts[x] \in Nat
          BY Zenon, <3>2, <3>3
        <5> QED BY <5>1 DEF CountsWithout
      <4> QED BY <4>1, <3>3 DEF CountsWithout
    <3>5. NoncesWithout({}) = account_nonces
      BY <3>2, <3>3 DEF NoncesWithout
    <3> QED BY <3>1, <3>4, <3>5 DEF RemoveAll, vars
  <2>3. CASE V # {}
    <3>1. /\ Cardinality(transactions) = max_size /\ eviction_threshold_percent > 0
          /\ ~is_full(transactions \ V)
      BY Zenon, <1>5, <2>3, EvictsAtMostOne
    <3>2. PICK v \in transactions : V = {v} /\ Set!Cheapest(v)
      BY Zenon, <1>5, <2>3, EvictsAtMostOne
    <3>3. transactions' = (transactions \ {v}) \cup {t}
      BY <2>1, <3>1, <3>2 DEF InsertAfter
    <3> QED BY Zenon, <1>2, <3>1, <3>2, <3>3, SameCardinality DEF Set!Trade
  <2> QED BY <2>2, <2>3
<1> QED BY <1>4, <1>5

-----------------------------------------------------------------------------
(* The invariant holds initially. *)
LEMMA InitInv == Init => Inv
<1> SUFFICES ASSUME Init PROVE Inv
  OBVIOUS
<1>1. \A x \in Account : SentBy({}, x) = {}
  BY DEF SentBy
<1>2. Cardinality({}) = 0
  BY FS_EmptySet
<1>3. TypeOK
  BY DEF Init, TypeOK
<1>4. IndexesExact
  BY <1>1, <1>2 DEF Init, IndexesExact, Exact
<1>5. WithinLimits
  BY <1>1, <1>2, ConfigAssumption DEF Init, WithinLimits
<1> QED BY <1>3, <1>4, <1>5 DEF Inv

(* Every operation of the pool preserves the invariant. *)
LEMMA NextInv == Inv /\ [Next]_vars => Inv'
<1> SUFFICES ASSUME Inv, [Next]_vars PROVE Inv'
  OBVIOUS
<1>1. ASSUME NEW t \in Tx, submit(t) PROVE Inv'
  <2>1. validate_candidate(t) /\ {} \in SUBSET transactions
    BY <1>1 DEF submit
  <2>2. CASE is_full(transactions)
    <3>1. PICK V \in evict_lowest_gas(suggested_eviction_count) : InsertAfter(t, V)
      BY <1>1, <2>2 DEF submit
    <3>2. V \in SUBSET transactions
      BY DEF evict_lowest_gas
    <3> QED BY <2>1, <3>1, <3>2, InsertStep
  <2>3. CASE ~is_full(transactions)
    BY <1>1, <2>1, <2>3, InsertStep DEF submit
  <2> QED BY <2>2, <2>3
<1>2. ASSUME NEW t \in Tx, remove(t) PROVE Inv'
  <2>1. {t} \in SUBSET transactions /\ RemoveAll({t})
    BY <1>2 DEF remove
  <2> QED BY <2>1, RemoveStep
<1>3. ASSUME NEW n \in 0 .. Cardinality(Tx), drain_batch(n) PROVE Inv'
  BY <1>3, RemoveStep DEF drain_batch
<1>4. CASE clear
  <2>1. Init'
    BY <1>4 DEF clear, Init
  <2>2. \A x \in Account : SentBy({}, x) = {}
    BY DEF SentBy
  <2>3. Cardinality({}) = 0
    BY FS_EmptySet
  <2>4. TypeOK' /\ IndexesExact' /\ WithinLimits'
    BY <2>1, <2>2, <2>3, ConfigAssumption
    DEF Init, TypeOK, IndexesExact, Exact, WithinLimits, SentBy
  <2> QED BY <2>4 DEF Inv
<1>5. CASE UNCHANGED vars
  BY Zenon, <1>5 DEF vars, Inv, TypeOK, IndexesExact, Exact, WithinLimits, SentBy
<1> QED BY <1>1, <1>2, <1>3, <1>4, <1>5 DEF Next

(* The pool's maps are well formed and exact in every state, for every     *)
(* configuration: insert, remove, drain_batch and clear keep them so.      *)
THEOREM IndexesExactHolds == Spec => [](TypeOK /\ IndexesExact)
<1>1. Inv => TypeOK /\ IndexesExact
  BY DEF Inv
<1> QED BY <1>1, InitInv, NextInv, PTL DEF Spec

(* The pool and every account stay within max_size and max_per_account     *)
(* (insert), for every configuration.                                      *)
THEOREM WithinLimitsHolds == Spec => []WithinLimits
<1>1. Inv => WithinLimits
  BY DEF Inv
<1> QED BY <1>1, InitInv, NextInv, PTL DEF Spec

(* Nothing is evicted for a transaction that is then turned away (insert). *)
THEOREM EvictionAdmitsHolds == Spec => EvictionAdmits
<1>1. Inv /\ [Next]_vars
        => [\A t \in Tx : submit(t) => t \in transactions' \/ UNCHANGED vars]_vars
  <2> SUFFICES ASSUME Inv, NEW t \in Tx, submit(t)
               PROVE  t \in transactions' \/ UNCHANGED vars
    OBVIOUS
  <2> QED BY SubmitCases DEF Set!Admit, Set!Trade
<1> QED BY <1>1, InitInv, NextInv, PTL DEF Spec, EvictionAdmits

(* The pool with its indexes implements the plain set of transactions of   *)
(* TransactionPool.                                                        *)
THEOREM TransactionPoolImplemented == Spec => ImplementsTransactionPool
<1>1. Init => Set!PoolInit
  BY DEF Init, Set!PoolInit
<1>2. Inv /\ [Next]_vars => [Set!PoolNext]_transactions
  <2> SUFFICES ASSUME Inv, [Next]_vars PROVE [Set!PoolNext]_transactions
    OBVIOUS
  <2>1. ASSUME NEW t \in Tx, submit(t) PROVE [Set!PoolNext]_transactions
    BY <2>1, SubmitCases DEF Set!PoolNext, vars
  <2>2. ASSUME NEW V \in SUBSET transactions, RemoveAll(V) PROVE Set!PoolNext
    BY <2>2 DEF RemoveAll, Set!PoolNext, Set!Withdraw
  <2>3. ASSUME NEW t \in Tx, remove(t) PROVE Set!PoolNext
    BY <2>2, <2>3 DEF remove
  <2>4. ASSUME NEW n \in 0 .. Cardinality(Tx), drain_batch(n) PROVE Set!PoolNext
    BY <2>2, <2>4 DEF drain_batch
  <2>5. CASE clear
    <3>1. transactions' = transactions \ transactions
      BY <2>5 DEF clear
    <3> QED BY <3>1 DEF Set!PoolNext, Set!Withdraw
  <2>6. CASE UNCHANGED vars
    BY <2>6 DEF vars
  <2> QED BY <2>1, <2>3, <2>4, <2>5, <2>6 DEF Next
<1> QED BY <1>1, <1>2, InitInv, NextInv, PTL DEF Spec, ImplementsTransactionPool, Set!PoolSpec

-----------------------------------------------------------------------------
(* The seen caches *)

Cache == [seen : SUBSET Msg, order : Seq(Msg)]

(* The queue s lists the set S, each member once. *)
Lists(s, S) ==
    /\ S = {s[i] : i \in DOMAIN s}
    /\ \A i, j \in DOMAIN s : s[i] = s[j] => i = j
    /\ IsFiniteSet(S)
    /\ Len(s) = Cardinality(S)

(* A cache of a given size in order. *)
ExactCache(c, size) == Lists(c.order, c.seen) /\ Len(c.order) <= size

(* What was put on the wires is remembered, if nothing of its kind is evicted. *)
GossipInv ==
    /\ GossipTypeOK
    /\ \A n \in Node : \A k \in DOMAIN CacheSize :
          /\ ExactCache(cache[n][k], CacheSize[k])
          /\ \A m \in cache[n][k].seen : Kind[m] = k
    /\ \A n \in Node, m \in Msg : Roomy(m) =>
          /\ relays[n][m] <= 1
          /\ relays[n][m] = 1 => m \in cache[n][Kind[m]].seen

(* Appending a new member. *)
LEMMA AppendLists ==
  ASSUME NEW s \in Seq(Msg), NEW S, Lists(s, S), NEW m \in Msg, m \notin S
  PROVE  Lists(Append(s, m), S \cup {m})
<1> DEFINE L == Len(s)  t == Append(s, m)
<1>1. L \in Nat /\ DOMAIN s = 1 .. L /\ t \in Seq(Msg) /\ Len(t) = L + 1 /\ DOMAIN t = 1 .. (L + 1)
  OBVIOUS
<1>2. t[L + 1] = m /\ \A i \in 1 .. L : t[i] = s[i]
  OBVIOUS
<1>3. S = {s[i] : i \in 1 .. L} /\ \A i, j \in 1 .. L : s[i] = s[j] => i = j
  BY Zenon, <1>1 DEF Lists
<1>4. IsFiniteSet(S \cup {m}) /\ Cardinality(S \cup {m}) = Cardinality(S) + 1 /\ L = Cardinality(S)
  BY Zenon, FS_AddElement DEF Lists
<1> HIDE DEF L, t
<1>5. S \cup {m} = {t[i] : i \in DOMAIN t}
  <2>1. \A i \in DOMAIN t : i \in 1 .. L \/ i = L + 1
    BY <1>1
  <2>2. L + 1 \in DOMAIN t /\ \A i \in 1 .. L : i \in DOMAIN t
    BY <1>1
  <2> QED BY <1>2, <1>3, <2>1, <2>2
<1>6. \A i, j \in DOMAIN t : t[i] = t[j] => i = j
  <2>1. \A i \in DOMAIN t : i \in 1 .. L \/ i = L + 1
    BY <1>1
  <2>2. \A i \in 1 .. L : t[i] \in S
    BY <1>2, <1>3
  <2> QED BY <1>2, <1>3, <2>1, <2>2
<1>7. Lists(t, S \cup {m})
  BY Zenon, <1>1, <1>4, <1>5, <1>6 DEF Lists
<1> QED BY <1>7 DEF t

(* Removing the first member. *)
LEMMA TailLists ==
  ASSUME NEW s \in Seq(Msg), NEW S, Lists(s, S), s # <<>>
  PROVE  Lists(Tail(s), S \ {Head(s)}) /\ Head(s) \in S
<1> DEFINE L == Len(s)  t == Tail(s)
<1>1. /\ L \in Nat /\ L > 0 /\ DOMAIN s = 1 .. L
      /\ t \in Seq(Msg) /\ Len(t) = L - 1 /\ DOMAIN t = 1 .. (L - 1)
  OBVIOUS
<1>2. Head(s) = s[1] /\ \A i \in 1 .. (L - 1) : t[i] = s[i + 1]
  OBVIOUS
<1>3. S = {s[i] : i \in 1 .. L} /\ \A i, j \in 1 .. L : s[i] = s[j] => i = j
  BY Zenon, <1>1 DEF Lists
<1>4. s[1] \in S
  BY <1>1, <1>3
<1>5. IsFiniteSet(S \ {s[1]}) /\ Cardinality(S \ {s[1]}) = Cardinality(S) - 1 /\ L = Cardinality(S)
  BY Zenon, <1>4, FS_RemoveElement DEF Lists
<1> HIDE DEF L, t
<1>6. S \ {s[1]} = {t[i] : i \in DOMAIN t}
  <2>1. ASSUME NEW x \in S \ {s[1]} PROVE \E i \in DOMAIN t : x = t[i]
    <3>1. PICK j \in 1 .. L : x = s[j]
      BY <1>3
    <3>2. j # 1
      BY <3>1
    <3>3. j - 1 \in DOMAIN t /\ (j - 1) + 1 = j
      BY <1>1, <3>2
    <3>4. t[j - 1] = s[j]
      BY <1>1, <1>2, <3>3
    <3> QED BY <3>1, <3>3, <3>4
  <2>2. ASSUME NEW i \in DOMAIN t PROVE t[i] \in S \ {s[1]}
    <3>1. i \in 1 .. (L - 1) /\ i + 1 \in 1 .. L /\ 1 \in 1 .. L /\ i + 1 # 1
      BY <1>1
    <3>2. s[i + 1] # s[1] /\ s[i + 1] \in S
      BY <1>3, <3>1
    <3> QED BY <1>2, <3>1, <3>2
  <2> QED BY <2>1, <2>2
<1>7. \A i, j \in DOMAIN t : t[i] = t[j] => i = j
  <2> SUFFICES ASSUME NEW i \in DOMAIN t, NEW j \in DOMAIN t, t[i] = t[j]
               PROVE  i = j
    OBVIOUS
  <2>1. i \in 1 .. (L - 1) /\ j \in 1 .. (L - 1) /\ i + 1 \in 1 .. L /\ j + 1 \in 1 .. L
    BY <1>1
  <2>2. s[i + 1] = s[j + 1]
    BY <1>2, <2>1
  <2>3. i + 1 = j + 1
    BY <1>3, <2>1, <2>2
  <2> QED BY <2>1, <2>3
<1>8. Lists(t, S \ {s[1]})
  BY Zenon, <1>1, <1>5, <1>6, <1>7 DEF Lists
<1> QED BY <1>2, <1>4, <1>8 DEF t

(* should_relay keeps a cache exact and within its size, and forgets nothing *)
(* while there is room.                                                      *)
LEMMA RememberExact ==
  ASSUME NEW c \in Cache, NEW size \in Nat \ {0}, ExactCache(c, size), NEW m \in Msg
  PROVE  /\ Remember(c, m, size) \in Cache
         /\ ExactCache(Remember(c, m, size), size)
         /\ Remember(c, m, size).seen \subseteq c.seen \cup {m}
         /\ (Cardinality(c.seen \cup {m}) <= size => Remember(c, m, size).seen = c.seen \cup {m})
<1> DEFINE s == c.order  S == c.seen  d == Remember(c, m, size)
<1>1. s \in Seq(Msg) /\ S \subseteq Msg /\ Lists(s, S) /\ Len(s) <= size
  BY DEF Cache, ExactCache
<1>2. CASE m \in S
  <2>1. d = c /\ S \cup {m} = S
    BY <1>2 DEF Remember, Holds
  <2> QED BY <2>1
<1>3. CASE m \notin S
  <2> DEFINE t == Append(s, m)  T == S \cup {m}
  <2>1. t \in Seq(Msg) /\ T \subseteq Msg /\ Lists(t, T) /\ Len(t) = Len(s) + 1 /\ t # <<>>
    BY <1>1, <1>3, AppendLists
  <2>2. d = Evict([seen |-> T, order |-> t], size)
    BY <1>3 DEF Remember, Holds
  <2>3. Cardinality(T) = Len(t) /\ Len(t) \in Nat /\ Len(s) \in Nat
    BY <1>1, <2>1 DEF Lists
  <2>4. Tail(t) \in Seq(Msg) /\ Len(Tail(t)) = Len(t) - 1
    BY <2>1
  <2>5. Lists(Tail(t), T \ {Head(t)})
    BY Zenon, <2>1, TailLists
  <2> HIDE DEF t, T, s, S
  <2>6. CASE Cardinality(T) > size
    <3>1. d = [seen |-> T \ {Head(t)}, order |-> Tail(t)]
      BY <2>2, <2>6 DEF Evict
    <3>2. d.seen = T \ {Head(t)} /\ d.order = Tail(t) /\ d \in Cache
      BY <2>1, <2>4, <3>1 DEF Cache
    <3>3. ExactCache(d, size)
      BY <1>1, <2>1, <2>3, <2>4, <2>5, <3>2 DEF ExactCache
    <3>4. ~ (Cardinality(T) <= size)
      BY <2>3, <2>6
    <3> QED BY <3>2, <3>3, <3>4 DEF T, S
  <2>7. CASE ~ (Cardinality(T) > size)
    <3>1. d = [seen |-> T, order |-> t]
      BY <2>2, <2>7 DEF Evict
    <3>2. d.seen = T /\ d.order = t /\ d \in Cache
      BY <2>1, <3>1 DEF Cache
    <3>3. ExactCache(d, size)
      BY <2>1, <2>3, <2>7, <3>2 DEF ExactCache
    <3> QED BY <3>2, <3>3 DEF T, S
  <2> QED BY <2>6, <2>7
<1> QED BY <1>2, <1>3

(* Noting a message keeps every cache exact; a cache whose kind fits it     *)
(* forgets nothing and holds the message afterwards.                        *)
LEMMA NoteStep ==
  ASSUME GossipInv, NEW n \in Node, NEW m \in Msg, Note(n, m)
  PROVE  /\ cache' \in [Node -> [DOMAIN CacheSize -> Cache]]
         /\ \A q \in Node : \A k \in DOMAIN CacheSize :
               /\ ExactCache(cache'[q][k], CacheSize[k])
               /\ \A l \in cache'[q][k].seen : Kind[l] = k
         /\ \A q \in Node, l \in Msg :
               Roomy(l) /\ l \in cache[q][Kind[l]].seen => l \in cache'[q][Kind[l]].seen
         /\ Roomy(m) => m \in cache'[n][Kind[m]].seen
<1> DEFINE k == Kind[m]  c == cache[n][k]  d == Remember(c, m, CacheSize[k])
<1>1. k \in DOMAIN CacheSize /\ CacheSize[k] \in Nat \ {0}
  BY CacheAssumption
<1>2. cache \in [Node -> [DOMAIN CacheSize -> Cache]] /\ c \in Cache
  BY <1>1 DEF GossipInv, GossipTypeOK, Cache
<1>3. ExactCache(c, CacheSize[k]) /\ \A l \in c.seen : Kind[l] = k
  BY <1>1 DEF GossipInv
<1>4. /\ d \in Cache /\ ExactCache(d, CacheSize[k]) /\ d.seen \subseteq c.seen \cup {m}
      /\ (Cardinality(c.seen \cup {m}) <= CacheSize[k] => d.seen = c.seen \cup {m})
  BY Zenon, <1>1, <1>2, <1>3, RememberExact
<1>5. cache' = [cache EXCEPT ![n][k] = d]
  BY DEF Note
<1> HIDE DEF d
<1>6. /\ cache' \in [Node -> [DOMAIN CacheSize -> Cache]]
      /\ cache'[n][k] = d
      /\ \A q \in Node : \A j \in DOMAIN CacheSize :
            q # n \/ j # k => cache'[q][j] = cache[q][j]
  BY <1>1, <1>2, <1>4, <1>5
<1>7. ASSUME NEW q \in Node, NEW j \in DOMAIN CacheSize
      PROVE  ExactCache(cache'[q][j], CacheSize[j]) /\ \A l \in cache'[q][j].seen : Kind[l] = j
  <2>1. CASE q = n /\ j = k
    BY <1>3, <1>4, <1>6, <2>1
  <2>2. CASE q # n \/ j # k
    BY <1>6, <2>2 DEF GossipInv
  <2> QED BY <2>1, <2>2
<1>8. Roomy(m) => d.seen = c.seen \cup {m}
  <2> SUFFICES ASSUME Roomy(m) PROVE Cardinality(c.seen \cup {m}) <= CacheSize[k]
    BY <1>4
  <2> DEFINE K == {l \in Msg : Kind[l] = k}
  <2>1. IsFiniteSet(K) /\ Cardinality(K) <= CacheSize[k]
    BY CacheAssumption, FS_Subset DEF Roomy
  <2>2. c.seen \cup {m} \subseteq K
    BY <1>2, <1>3 DEF Cache
  <2>3. IsFiniteSet(c.seen \cup {m}) /\ Cardinality(c.seen \cup {m}) <= Cardinality(K)
    BY <2>1, <2>2, FS_Subset
  <2>4. Cardinality(K) \in Nat /\ Cardinality(c.seen \cup {m}) \in Nat
    BY <2>1, <2>3, FS_CardinalityType
  <2> QED BY <1>1, <2>1, <2>3, <2>4
<1>9. ASSUME NEW q \in Node, NEW l \in Msg, Roomy(l), l \in cache[q][Kind[l]].seen
      PROVE  l \in cache'[q][Kind[l]].seen
  <2>1. Kind[l] \in DOMAIN CacheSize
    BY CacheAssumption
  <2>2. CASE q = n /\ Kind[l] = k
    <3>1. Roomy(m)
      BY <1>9, <2>2 DEF Roomy
    <3> QED BY <1>6, <1>8, <1>9, <2>2, <3>1
  <2>3. CASE q # n \/ Kind[l] # k
    BY <1>6, <1>9, <2>1, <2>3
  <2> QED BY <2>2, <2>3
<1> QED BY <1>6, <1>7, <1>8, <1>9

(* Initially nothing is remembered and nothing was relayed. *)
LEMMA GossipInitInv == GossipInit => GossipInv
<1> SUFFICES ASSUME GossipInit PROVE GossipInv
  OBVIOUS
<1> DEFINE c == [seen |-> {}, order |-> <<>>]
<1>1. c.seen = {} /\ c.order = <<>> /\ c \in Cache
  BY DEF Cache
<1>2. \A n \in Node : \A k \in DOMAIN CacheSize : cache[n][k] = c
  BY DEF GossipInit
<1>3. GossipTypeOK
  BY <1>1, NetworkAssumption DEF GossipInit, GossipTypeOK, Cache
<1>4. Lists(<<>>, {})
  BY FS_EmptySet DEF Lists
<1>5. \A k \in DOMAIN CacheSize : ExactCache(c, CacheSize[k])
  BY <1>1, <1>4, CacheAssumption DEF ExactCache
<1> HIDE DEF c
<1>6. \A n \in Node, m \in Msg : relays[n][m] = 0
  BY DEF GossipInit
<1> QED BY <1>1, <1>2, <1>3, <1>5, <1>6 DEF GossipInv

(* Putting a message that the cache does not hold on the wires counts it the *)
(* first time, if its kind fits the cache.                                   *)
LEMMA RelayStep ==
  ASSUME GossipInv, NEW n \in Node, NEW m \in Msg, Note(n, m),
         (Fresh(n, m) /\ Count(n, m)) \/ UNCHANGED relays
  PROVE  /\ relays' \in [Node -> [Msg -> 0 .. 2]]
         /\ \A q \in Node, l \in Msg : Roomy(l) =>
               /\ relays'[q][l] <= 1
               /\ relays'[q][l] = 1 => l \in cache'[q][Kind[l]].seen
<1>1. relays \in [Node -> [Msg -> 0 .. 2]]
  BY DEF GossipInv, GossipTypeOK
<1>2. \A q \in Node, l \in Msg : Roomy(l) =>
         relays[q][l] <= 1 /\ (relays[q][l] = 1 => l \in cache[q][Kind[l]].seen)
  BY DEF GossipInv
<1>3. /\ Roomy(m) => m \in cache'[n][Kind[m]].seen
      /\ \A q \in Node, l \in Msg :
            Roomy(l) /\ l \in cache[q][Kind[l]].seen => l \in cache'[q][Kind[l]].seen
  BY NoteStep
<1>4. CASE UNCHANGED relays
  BY <1>1, <1>2, <1>3, <1>4
<1>5. CASE Fresh(n, m) /\ Count(n, m)
  <2>1. m \notin cache[n][Kind[m]].seen
    BY <1>5 DEF Fresh, Holds
  <2>2. relays' = [relays EXCEPT ![n][m] = IF relays[n][m] < 2 THEN relays[n][m] + 1 ELSE relays[n][m]]
    BY <1>5 DEF Count
  <2>3. /\ relays' \in [Node -> [Msg -> 0 .. 2]]
        /\ \A q \in Node, l \in Msg : q # n \/ l # m => relays'[q][l] = relays[q][l]
        /\ relays[n][m] = 0 => relays'[n][m] = 1
    BY <1>1, <2>2
  <2>4. Roomy(m) => relays[n][m] = 0
    BY <1>1, <1>2, <2>1
  <2> QED BY <1>2, <1>3, <2>3, <2>4
<1> QED BY <1>4, <1>5

(* Sending and taking messages off a wire keep the wires well typed. *)
LEMMA SendTyped ==
  ASSUME NEW s \in [Wires -> Seq(Msg)], NEW n \in Node, NEW m \in Msg, NEW X
  PROVE  Send(s, n, m, X) \in [Wires -> Seq(Msg)]
<1>1. \A w \in Wires : s[w] \in Seq(Msg) /\ Append(s[w], m) \in Seq(Msg)
  OBVIOUS
<1> QED BY <1>1 DEF Send

(* Every step preserves the invariant. *)
LEMMA GossipNextInv == GossipInv /\ [GossipNext]_gossipVars => GossipInv'
<1> SUFFICES ASSUME GossipInv, [GossipNext]_gossipVars PROVE GossipInv'
  OBVIOUS
<1>1. /\ wire \in [Wires -> Seq(Msg)] /\ heard \in [Node -> SUBSET Msg]
      /\ unsent \subseteq Node \X Msg
  BY DEF GossipInv, GossipTypeOK
<1>2. ASSUME NEW n \in Node, NEW m \in Msg, Note(n, m),
             (Fresh(n, m) /\ Count(n, m)) \/ UNCHANGED relays,
             wire' \in [Wires -> Seq(Msg)], heard' \in [Node -> SUBSET Msg],
             unsent' \subseteq Node \X Msg
      PROVE  GossipInv'
  BY Zenon, <1>2, NoteStep, RelayStep DEF GossipInv, GossipTypeOK, Cache
<1>3. ASSUME NEW n \in Node, NEW m \in Msg, Broadcast(n, m) PROVE GossipInv'
  <2>1. wire' \in [Wires -> Seq(Msg)]
    BY <1>1, <1>3, SendTyped DEF Broadcast
  <2>2. heard' \in [Node -> SUBSET Msg] /\ unsent' \subseteq Node \X Msg
    BY <1>1, <1>3 DEF Broadcast
  <2>3. Note(n, m) /\ ((Fresh(n, m) /\ Count(n, m)) \/ UNCHANGED relays)
    BY <1>3 DEF Broadcast
  <2> QED BY <1>2, <2>1, <2>2, <2>3
<1>4. ASSUME NEW n \in Node, NEW p \in Node, Receive(n, p) PROVE GossipInv'
  <2> DEFINE w == <<p, n>>  m == Head(wire[w])
  <2>1. w \in Wires
    BY <1>4, NetworkAssumption DEF Receive, Wires
  <2>2. wire[w] \in Seq(Msg) /\ wire[w] # <<>>
    BY Zenon, <1>1, <1>4, <2>1 DEF Receive
  <2>3. m \in Msg /\ Tail(wire[w]) \in Seq(Msg)
    BY <2>2
  <2>4. Popped(p, n) \in [Wires -> Seq(Msg)]
    BY <1>1, <2>1, <2>3 DEF Popped
  <2>5. Send(Popped(p, n), n, m, {p}) \in [Wires -> Seq(Msg)]
    BY Zenon, <2>3, <2>4, SendTyped
  <2>6. wire' = Popped(p, n) \/ wire' = Send(Popped(p, n), n, m, {p})
    BY <1>4 DEF Receive
  <2>7. heard' \in [Node -> SUBSET Msg]
    BY <1>1, <1>4, <2>3 DEF Receive
  <2>8. unsent' \subseteq Node \X Msg
    BY <1>1, <1>4 DEF Receive
  <2>9. CASE UNCHANGED <<cache, relays>>
    BY Zenon, <2>4, <2>5, <2>6, <2>7, <2>8, <2>9 DEF GossipInv, GossipTypeOK
  <2>10. CASE Note(n, m) /\ ((Fresh(n, m) /\ Count(n, m)) \/ UNCHANGED relays)
    BY Zenon, <1>2, <2>3, <2>4, <2>5, <2>6, <2>7, <2>8, <2>10
  <2>11. \/ UNCHANGED <<cache, relays>>
         \/ Note(n, m) /\ ((Fresh(n, m) /\ Count(n, m)) \/ UNCHANGED relays)
    BY <1>4 DEF Receive
  <2> QED BY <2>9, <2>10, <2>11
<1>5. CASE UNCHANGED gossipVars
  BY <1>5 DEF gossipVars, GossipInv, GossipTypeOK
<1> QED BY <1>3, <1>4, <1>5 DEF GossipNext

(* The invariant holds in every reachable state. *)
LEMMA InvAlways == GossipSpec => []GossipInv
BY GossipInitInv, GossipNextInv, PTL DEF GossipSpec

(* Caches, wires and events hold messages only, and a cache is kept for each *)
(* kind of message.                                                          *)
THEOREM TypeCorrect == GossipSpec => []GossipTypeOK
<1>1. GossipInv => GossipTypeOK
  BY DEF GossipInv
<1> QED BY <1>1, InvAlways, PTL

(* The set and the queue of every cache agree and stay within the size, for *)
(* any network, workload and cache size (should_relay and the evictions).   *)
THEOREM CacheExactHolds == GossipSpec => []CacheExact
<1>1. GossipInv => CacheExact
  BY DEF GossipInv, CacheExact, ExactCache, Lists
<1> QED BY <1>1, InvAlways, PTL

(* A node relays a message at most once, whatever paths it comes along, as  *)
(* long as its cache has room for the messages of its kind.                 *)
THEOREM RelayedOnceHolds == GossipSpec => []RelayedOnce
<1>1. GossipInv => RelayedOnce
  BY DEF GossipInv, RelayedOnce
<1> QED BY <1>1, InvAlways, PTL
===============================================================================
