------------------------------ MODULE DevnetProofs ------------------------------
(***************************************************************************)
(* The daemon eth2077-devnetd.rs, for every set of accounts, transactions  *)
(* and tokens and for every bound: an acknowledged transaction is pending  *)
(* or mined, tokens are for sale on their owners' terms, and a receipt     *)
(* leads to its block and its logs.                                        *)
(***************************************************************************)
EXTENDS ChainQueries, InductionProofs

(* A transaction listed for the next block has a last place in the list,   *)
(* the one the tick writes into its receipt.                               *)
LEMMA LastIndexFound ==
    ASSUME NEW S, NEW q \in Seq(S), NEW x, In(x, q)
    PROVE  LastIndex(q, x) \in DOMAIN q /\ q[LastIndex(q, x)] = x
<1> DEFINE T == {n \in Nat : \E i \in DOMAIN q : q[i] = x /\ n = Len(q) - i}
<1>1. DOMAIN q = 1..Len(q) /\ Len(q) \in Nat
  OBVIOUS
<1>2. T # {}
  <2>1. PICK i \in DOMAIN q : q[i] = x BY DEF In
  <2>2. Len(q) - i \in T BY <1>1, <2>1
  <2>3. QED BY <2>2
<1>3. PICK n \in T : \A m \in T : n <= m
  <2>1. T \subseteq Nat OBVIOUS
  <2> HIDE DEF T
  <2>2. QED BY Zenon, <1>2, <2>1, LeastNatural
<1>4. PICK i \in DOMAIN q : q[i] = x /\ n = Len(q) - i
  BY <1>3
<1>5. ASSUME NEW j \in DOMAIN q, q[j] = x PROVE j <= i
  <2>1. Len(q) - j \in T BY <1>1, <1>5
  <2>2. QED BY <1>1, <1>3, <1>4, <2>1
<1>6. \E k \in DOMAIN q : q[k] = x /\ \A j \in DOMAIN q : q[j] = x => j <= k
  BY <1>4, <1>5
<1>7. QED BY <1>6 DEF LastIndex

(* A queued transaction is at the end of the list and moves no other. *)
LEMMA InAppend ==
    ASSUME NEW S, NEW q \in Seq(S), NEW x \in S, NEW y
    PROVE  In(y, Append(q, x)) <=> (In(y, q) \/ y = x)
<1> DEFINE p == Append(q, x)
<1>1. /\ DOMAIN q = 1..Len(q) /\ Len(q) \in Nat /\ DOMAIN p = 1..(Len(q) + 1)
      /\ \A i \in 1..Len(q) : p[i] = q[i]
      /\ p[Len(q) + 1] = x
  OBVIOUS
<1> HIDE DEF p
<1>2. QED BY <1>1 DEF In

-----------------------------------------------------------------------------
(* Every listed transaction is known: only then does a tick find the       *)
(* record it completes.                                                    *)
PendingKnown == \A r \in Hash : In(r, pending_txs) => txs[r] # None

ChainInv == LedgerTypeOK /\ PendingKnown /\ AcknowledgedIsPendingOrMined

(* A node starts with nothing acknowledged. *)
LEMMA ChainInitially == LedgerInit => ChainInv
<1> SUFFICES ASSUME LedgerInit PROVE ChainInv
  OBVIOUS
<1>2. LedgerTypeOK
  <2>1. evm_db \in [Address -> [nonce : Nat, balance : Nat]]
    BY DEF LedgerInit, EmptyDb, NoAccount
  <2>2. /\ txs \in [Hash -> TxRecord \cup {None}] /\ pending_txs \in Seq(Hash)
        /\ block_txs \in [0..MaxHeight -> Seq(Hash)]
    BY DEF LedgerInit
  <2>3. QED BY <2>1, <2>2, LedgerAssumption DEF LedgerInit, LedgerTypeOK
<1>3. \A r \in Hash : txs[r] = None /\ ~ In(r, pending_txs)
  BY DEF LedgerInit, In
<1>4. QED BY <1>2, <1>3 DEF ChainInv, PendingKnown, AcknowledgedIsPendingOrMined

(* Queueing a transaction with a fresh record keeps the chain in order,    *)
(* also when the hash was queued or mined before (eth_sendRawTransaction   *)
(* and eth2077_marketMint).                                                *)
LEMMA Queued ==
    ASSUME ChainInv, NEW r \in Hash, NEW a \in Address,
           pending_txs' = Append(pending_txs, r),
           txs' = [txs EXCEPT ![r] = RecordOf(a)],
           UNCHANGED <<block_txs, current_height>>,
           evm_db' \in [Address -> [nonce : Nat, balance : Nat]],
           pending_nonce_address_hint' \in Address \cup {None}
    PROVE  ChainInv'
<1>1. RecordOf(a) \in TxRecord /\ RecordOf(a) # None /\ RecordOf(a).block = None
  BY LedgerAssumption DEF RecordOf, TxRecord
<1>2. /\ pending_txs \in Seq(Hash) /\ txs \in [Hash -> TxRecord \cup {None}]
      /\ block_txs \in [0..MaxHeight -> Seq(Hash)] /\ current_height \in 0..MaxHeight
  BY DEF ChainInv, LedgerTypeOK
<1>3. LedgerTypeOK'
  BY <1>1, <1>2 DEF LedgerTypeOK
<1>4. \A h \in Hash : txs'[h] = IF h = r THEN RecordOf(a) ELSE txs[h]
  BY <1>2
<1>5. \A h : In(h, pending_txs') <=> (In(h, pending_txs) \/ h = r)
  BY <1>2, InAppend
<1>6. PendingKnown'
  BY <1>1, <1>4, <1>5 DEF ChainInv, PendingKnown
<1>7. AcknowledgedIsPendingOrMined'
  <2>1. SUFFICES ASSUME NEW h \in Hash, txs'[h] # None
                 PROVE  IF txs'[h].block = None
                          THEN In(h, pending_txs')
                          ELSE /\ ~ In(h, pending_txs')
                               /\ txs'[h].block <= current_height
                               /\ txs'[h].index \in DOMAIN block_txs[txs'[h].block]
                               /\ block_txs[txs'[h].block][txs'[h].index] = h
    BY DEF AcknowledgedIsPendingOrMined
  <2>2. CASE h = r
    BY <1>1, <1>4, <1>5, <2>2
  <2>3. CASE h # r
    BY <1>4, <1>5, <2>1, <2>3 DEF ChainInv, AcknowledgedIsPendingOrMined
  <2>4. QED BY <2>2, <2>3
<1>8. QED BY <1>3, <1>6, <1>7 DEF ChainInv

(* A tick moves every pending transaction into the new block and names the *)
(* block and the place in its record; older blocks stay as they are.       *)
LEMMA TickStep == ChainInv /\ Tick => ChainInv'
<1> SUFFICES ASSUME ChainInv, Tick PROVE ChainInv'
  OBVIOUS
<1> DEFINE n == current_height + 1
<1>2. /\ pending_txs \in Seq(Hash) /\ txs \in [Hash -> TxRecord \cup {None}]
      /\ block_txs \in [0..MaxHeight -> Seq(Hash)] /\ current_height \in 0..MaxHeight
      /\ MaxHeight \in Nat
  BY LedgerAssumption DEF ChainInv, LedgerTypeOK
<1>3. n \in 1..MaxHeight /\ current_height' = n /\ pending_txs' = <<>>
  BY <1>2 DEF Tick
<1>4. ASSUME NEW r \in Hash, In(r, pending_txs)
      PROVE  /\ txs[r] \in TxRecord
             /\ txs'[r] = [txs[r] EXCEPT !.block = n, !.index = LastIndex(pending_txs, r)]
             /\ LastIndex(pending_txs, r) \in DOMAIN pending_txs
             /\ pending_txs[LastIndex(pending_txs, r)] = r
  BY Zenon, <1>2, <1>4, LastIndexFound DEF Tick, MinedIn, In, ChainInv, PendingKnown
<1>5. ASSUME NEW r \in Hash, ~ In(r, pending_txs) PROVE txs'[r] = txs[r]
  BY Zenon, <1>5 DEF Tick, MinedIn, In
<1>6. /\ block_txs' \in [0..MaxHeight -> Seq(Hash)] /\ block_txs'[n] = pending_txs
      /\ \A k \in 0..current_height : block_txs'[k] = block_txs[k]
  BY <1>2, <1>3 DEF Tick, BlockAdded
<1>7. txs' \in [Hash -> TxRecord \cup {None}]
  <2>1. txs' = [r \in Hash |-> txs'[r]] BY Zenon DEF Tick, MinedIn
  <2>2. ASSUME NEW r \in Hash PROVE txs'[r] \in TxRecord \cup {None}
    <3>1. CASE In(r, pending_txs)
      <4>1. LastIndex(pending_txs, r) \in Nat
        <5>1. DOMAIN pending_txs \subseteq Nat BY <1>2
        <5>2. QED BY Zenon, <1>4, <3>1, <5>1
      <4>2. QED BY Zenon, <1>3, <1>4, <3>1, <4>1 DEF TxRecord
    <3>2. CASE ~ In(r, pending_txs) BY <1>2, <1>5, <3>2
    <3>3. QED BY <3>1, <3>2
  <2>3. QED BY <2>1, <2>2
<1>8. LedgerTypeOK'
  BY <1>3, <1>6, <1>7 DEF Tick, ChainInv, LedgerTypeOK
<1>9. \A r : ~ In(r, pending_txs')
  BY <1>3 DEF In
<1>10. AcknowledgedIsPendingOrMined'
  <2>1. SUFFICES ASSUME NEW r \in Hash, txs'[r] # None
                 PROVE  /\ txs'[r].block # None /\ txs'[r].block <= n
                        /\ txs'[r].index \in DOMAIN block_txs'[txs'[r].block]
                        /\ block_txs'[txs'[r].block][txs'[r].index] = r
    BY <1>3, <1>9 DEF AcknowledgedIsPendingOrMined
  <2>2. CASE In(r, pending_txs)
    <3>1. txs'[r].block = n /\ txs'[r].index = LastIndex(pending_txs, r)
      BY Zenon, <1>4, <2>2 DEF TxRecord
    <3>2. n # None /\ n <= n BY <1>3, LedgerAssumption
    <3>3. QED BY Zenon, <1>4, <1>6, <2>2, <3>1, <3>2
  <2>3. CASE ~ In(r, pending_txs)
    <3>1. txs'[r] = txs[r] /\ txs[r] \in TxRecord
      BY <1>2, <1>5, <2>1, <2>3
    <3>2. /\ txs[r].block # None /\ txs[r].block <= current_height
          /\ txs[r].index \in DOMAIN block_txs[txs[r].block]
          /\ block_txs[txs[r].block][txs[r].index] = r
      BY <2>1, <2>3, <3>1 DEF ChainInv, AcknowledgedIsPendingOrMined
    <3>3. txs[r].block \in 0..current_height
      BY <1>2, <3>1, <3>2 DEF TxRecord
    <3>4. QED BY <1>2, <1>6, <3>1, <3>2, <3>3
  <2>4. QED BY <2>2, <2>3
<1>11. QED BY <1>8, <1>9, <1>10 DEF ChainInv, PendingKnown

(* A request that touches accounts or the sender hint only. *)
LEMMA AccountsOnly ==
    ASSUME ChainInv, UNCHANGED <<pending_txs, txs, block_txs, current_height>>,
           evm_db' \in [Address -> [nonce : Nat, balance : Nat]],
           pending_nonce_address_hint' \in Address \cup {None}
    PROVE  ChainInv'
BY DEF ChainInv, LedgerTypeOK, PendingKnown, AcknowledgedIsPendingOrMined, In

(* No account is overdrawn by a transfer revm accepts. *)
LEMMA ExecutedType ==
    ASSUME evm_db \in [Address -> [nonce : Nat, balance : Nat]],
           NEW a \in Address, NEW raw \in Raw, Executable(a, raw)
    PROVE  Executed(a, raw) \in [Address -> [nonce : Nat, balance : Nat]]
<1> DEFINE paid == [evm_db EXCEPT ![a].nonce = @ + 1, ![a].balance = @ - raw.value - Fee]
<1>1. raw.value \in Nat /\ raw.to \in Address /\ Fee \in Nat
  BY LedgerAssumption
<1>2. evm_db[a].balance - raw.value - Fee \in Nat /\ evm_db[a].nonce + 1 \in Nat
  BY <1>1 DEF Executable
<1>3. paid \in [Address -> [nonce : Nat, balance : Nat]]
  BY Zenon, <1>2
<1> HIDE DEF paid
<1>4. [paid EXCEPT ![raw.to].balance = @ + raw.value] \in [Address -> [nonce : Nat, balance : Nat]]
  BY <1>1, <1>3
<1>5. QED BY <1>4 DEF Executed, paid

(* Every request and every tick of the chain keeps the chain in order. *)
LEMMA LedgerStep == ChainInv /\ LedgerNext => ChainInv'
<1> SUFFICES ASSUME ChainInv, LedgerNext PROVE ChainInv'
  OBVIOUS
<1>1. /\ evm_db \in [Address -> [nonce : Nat, balance : Nat]]
      /\ pending_nonce_address_hint \in Address \cup {None}
  BY DEF ChainInv, LedgerTypeOK
<1>2. ASSUME NEW a \in Address, GetTransactionCount(a) PROVE ChainInv'
  BY <1>1, <1>2, AccountsOnly DEF GetTransactionCount
<1>3. EmptyDb \in [Address -> [nonce : Nat, balance : Nat]]
  BY DEF EmptyDb, NoAccount
<1>4. ASSUME NEW raw \in Raw, SendRejected(raw) PROVE ChainInv'
  BY <1>1, <1>3, <1>4, AccountsOnly DEF SendRejected, LoseDatabase
<1>5. ASSUME NEW raw \in Raw, SendAccepted(raw) PROVE ChainInv'
  <2> DEFINE a == pending_nonce_address_hint
  <2>1. a \in Address /\ raw \in Hash BY <1>1, <1>5, RawAreHashes DEF SendAccepted
  <2>2. evm_db' \in [Address -> [nonce : Nat, balance : Nat]]
    BY <1>1, <1>5, <2>1, ExecutedType DEF SendAccepted
  <2>3. QED BY Zenon, <1>5, <2>1, <2>2, Queued DEF SendAccepted
<1>6. ASSUME NEW a \in Address, NEW value \in CallValue, CallFails(a, value) PROVE ChainInv'
  BY <1>1, <1>3, <1>6, AccountsOnly DEF CallFails, LoseDatabase
<1>7. ASSUME NEW a \in Address, NEW wei \in Amount, SetBalance(a, wei) PROVE ChainInv'
  <2>1. evm_db' \in [Address -> [nonce : Nat, balance : Nat]]
    BY <1>1, <1>7, LedgerAssumption DEF SetBalance
  <2>2. QED BY <1>1, <1>7, <2>1, AccountsOnly DEF SetBalance
<1>8. CASE Tick BY <1>8, TickStep
<1>9. QED BY <1>2, <1>4, <1>5, <1>6, <1>7, <1>8 DEF LedgerNext

-----------------------------------------------------------------------------
(* The market *)

(* A token's record is not the absent one. *)
LEMMA RecordIsPresent ==
    ASSUME NEW a \in Address, NEW b \in BOOLEAN, NEW p \in Price
    PROVE  /\ [owner |-> a, listed |-> b, price |-> p] \in Nft
           /\ [owner |-> a, listed |-> b, price |-> p] # None
<1>1. [owner |-> a, listed |-> b, price |-> p] \in Nft
  BY DEF Nft
<1> DEFINE nft == [owner |-> a, listed |-> b, price |-> p]
<1> HIDE DEF nft
<1>2. nft \in Nft => nft # None
  BY MarketAssumption
<1>3. QED BY <1>1, <1>2 DEF nft

MarketInv == ChainInv /\ TypeOK /\ ListedOnOwnersTerms

(* The seeded tokens are listed by their merchant on the merchant's terms. *)
LEMMA MarketInitially == Init => MarketInv
<1> SUFFICES ASSUME Init PROVE MarketInv
  OBVIOUS
<1>1. ChainInv /\ LedgerTypeOK
  BY ChainInitially DEF Init, ChainInv
<1>2. SeedPrice \in Price
  BY MarketAssumption DEF SeedPrice
<1>3. /\ market_nfts \in [Token -> Nft \cup {None}]
      /\ offers \in [Token -> [by : Address, price : Price] \cup {None}]
  BY <1>2, MarketAssumption DEF Init, Nft
<1>4. \A t \in Token : market_nfts[t] # None <=> t < next_market_token_id
  <2>1. [owner |-> Merchant, listed |-> TRUE, price |-> SeedPrice] # None
    BY Zenon, <1>2, MarketAssumption, RecordIsPresent
  <2>2. \A t \in Token : t \in Nat /\ (t <= Seeds <=> t < Seeds + 1)
    BY MarketAssumption DEF Token
  <2>3. QED BY <2>1, <2>2 DEF Init
<1>5. TypeOK
  <2>1. next_market_token_id \in 1..(MaxToken + 1) /\ next_market_token_id > Seeds
    BY MarketAssumption DEF Init
  <2>2. market_receipts \in [Hash -> Token \cup {None}]
    BY DEF Init
  <2>3. QED BY <1>1, <1>3, <1>4, <2>1, <2>2 DEF TypeOK
<1>6. ListedOnOwnersTerms
  BY DEF Init, ListedOnOwnersTerms
<1>7. QED BY <1>1, <1>5, <1>6 DEF MarketInv

(* A mint writes a token that was absent, and queues its pseudo            *)
(* transaction like any other.                                             *)
LEMMA MintStep ==
    ASSUME MarketInv, NEW a \in Address, NEW p \in Price, Mint(a, p)
    PROVE  MarketInv'
<1> DEFINE t == next_market_token_id
           nft == [owner |-> a, listed |-> TRUE, price |-> p]
<1>1. /\ t \in 1..(MaxToken + 1) /\ t > Seeds
      /\ market_nfts \in [Token -> Nft \cup {None}]
      /\ \A u \in Token : market_nfts[u] # None <=> u < t
      /\ offers \in [Token -> [by : Address, price : Price] \cup {None}]
      /\ evm_db \in [Address -> [nonce : Nat, balance : Nat]]
      /\ pending_nonce_address_hint \in Address \cup {None}
  BY DEF MarketInv, TypeOK, LedgerTypeOK
<1>2. t \in Token /\ t + 1 \in 1..(MaxToken + 1) /\ t + 1 > Seeds /\ t \in (Seeds + 1)..MaxToken
  BY <1>1, MarketAssumption DEF Mint, Token
<1>3. MintHash(t) \in Hash
  BY <1>2, MarketAssumption
<1>4. ChainInv'
  BY Zenon, <1>1, <1>3, Queued DEF Mint, MarketInv
<1>5. nft \in Nft /\ nft # None
  BY Zenon, RecordIsPresent
<1>6. /\ market_nfts' \in [Token -> Nft \cup {None}]
      /\ offers' \in [Token -> [by : Address, price : Price] \cup {None}]
      /\ \A u \in Token : market_nfts'[u] = IF u = t THEN nft ELSE market_nfts[u]
      /\ \A u \in Token : offers'[u] = IF u = t THEN [by |-> a, price |-> p] ELSE offers[u]
  BY <1>1, <1>2, <1>5 DEF Mint
<1>7. \A u \in Token : market_nfts'[u] # None <=> u < t + 1
  <2>1. t \in Nat /\ \A u \in Token : u \in Nat /\ (u < t + 1 <=> u = t \/ u < t)
    BY <1>1, MarketAssumption DEF Token
  <2> HIDE DEF nft, t
  <2>2. QED BY <1>1, <1>2, <1>5, <1>6, <2>1
<1>8. TypeOK'
  BY <1>2, <1>4, <1>6, <1>7 DEF Mint, MarketInv, ChainInv, TypeOK
<1>9. ListedOnOwnersTerms'
  <2> SUFFICES ASSUME NEW u \in Token, market_nfts'[u] # None, market_nfts'[u].listed
               PROVE  offers'[u] = [by |-> market_nfts'[u].owner, price |-> market_nfts'[u].price]
    BY DEF ListedOnOwnersTerms
  <2>1. CASE u = t BY <1>6, <2>1
  <2>2. CASE u # t
    <3>1. market_nfts'[u] = market_nfts[u] /\ offers'[u] = offers[u] BY <1>6, <2>2
    <3>2. QED BY <3>1 DEF MarketInv, ListedOnOwnersTerms
  <2>3. QED BY <2>1, <2>2
<1>10. QED BY <1>4, <1>8, <1>9 DEF MarketInv

(* A request that changes one existing token, and the offer for it only if *)
(* the token is then for sale on that offer.                               *)
LEMMA TokenStep ==
    ASSUME MarketInv, UNCHANGED <<ledgerVars, next_market_token_id>>,
           NEW t \in Token, market_nfts[t] # None,
           NEW nft \in Nft, market_nfts' = [market_nfts EXCEPT ![t] = nft],
           market_receipts' \in [Hash -> Token \cup {None}],
           NEW offer \in [by : Address, price : Price] \cup {None},
           offers' = [offers EXCEPT ![t] = offer],
           nft.listed => offer = [by |-> nft.owner, price |-> nft.price]
    PROVE  MarketInv'
<1>1. nft # None
  BY MarketAssumption
<1>2. ChainInv' /\ LedgerTypeOK'
  BY DEF MarketInv, ledgerVars, ChainInv, LedgerTypeOK, PendingKnown,
         AcknowledgedIsPendingOrMined, In
<1>3. /\ market_nfts \in [Token -> Nft \cup {None}]
      /\ offers \in [Token -> [by : Address, price : Price] \cup {None}]
  BY DEF MarketInv, TypeOK
<1>4. /\ market_nfts' \in [Token -> Nft \cup {None}]
      /\ offers' \in [Token -> [by : Address, price : Price] \cup {None}]
      /\ \A u \in Token : market_nfts'[u] = IF u = t THEN nft ELSE market_nfts[u]
      /\ \A u \in Token : offers'[u] = IF u = t THEN offer ELSE offers[u]
  BY <1>3
<1>5. TypeOK'
  BY <1>1, <1>2, <1>4 DEF MarketInv, TypeOK
<1>6. ListedOnOwnersTerms'
  BY <1>4 DEF MarketInv, ListedOnOwnersTerms
<1>7. QED BY <1>2, <1>5, <1>6 DEF MarketInv

(* Every step of chain and market preserves the invariant. *)
LEMMA MarketStep == MarketInv /\ [Next]_vars => MarketInv'
<1> SUFFICES ASSUME MarketInv, [Next]_vars PROVE MarketInv'
  OBVIOUS
<1>1. /\ market_nfts \in [Token -> Nft \cup {None}]
      /\ offers \in [Token -> [by : Address, price : Price] \cup {None}]
      /\ market_receipts \in [Hash -> Token \cup {None}]
  BY DEF MarketInv, TypeOK
<1>2. CASE LedgerNext /\ UNCHANGED marketVars
  <2>1. ChainInv' BY <1>2, LedgerStep DEF MarketInv
  <2>2. TypeOK' BY <1>2, <2>1 DEF MarketInv, ChainInv, TypeOK, marketVars
  <2>3. ListedOnOwnersTerms' BY <1>2 DEF MarketInv, ListedOnOwnersTerms, marketVars
  <2>4. QED BY <2>1, <2>2, <2>3 DEF MarketInv
<1>3. ASSUME NEW a \in Address, NEW p \in Price, Mint(a, p) PROVE MarketInv'
  BY <1>3, MintStep
<1>4. ASSUME NEW t \in Token, NEW a \in Address, NEW h \in Hash \cup {None}, Buy(t, a, h)
      PROVE  MarketInv'
  <2> DEFINE nft == [market_nfts[t] EXCEPT !.owner = a, !.listed = FALSE]
  <2>1. market_nfts[t] # None /\ market_nfts[t] \in Nft BY <1>1, <1>4 DEF Buy
  <2>2. nft \in Nft /\ ~ nft.listed BY Zenon, <2>1 DEF Nft
  <2>3. market_nfts' = [market_nfts EXCEPT ![t] = nft] BY <1>1, <1>4, <2>1 DEF Buy, Nft
  <2>4. market_receipts' \in [Hash -> Token \cup {None}] BY <1>1, <1>4 DEF Buy
  <2>5. offers' = [offers EXCEPT ![t] = offers[t]] BY <1>1, <1>4 DEF Buy
  <2>6. offers[t] \in [by : Address, price : Price] \cup {None} BY <1>1
  <2>7. UNCHANGED <<ledgerVars, next_market_token_id>> BY <1>4 DEF Buy
  <2> HIDE DEF nft
  <2>8. QED BY Zenon, <2>1, <2>2, <2>3, <2>4, <2>5, <2>6, <2>7, TokenStep
<1>5. ASSUME NEW t \in Token, NEW a \in Address, NEW b \in Address, NEW h \in Hash \cup {None},
             Transfer(t, a, b, h)
      PROVE  MarketInv'
  <2> DEFINE nft == Transferred(market_nfts[t], b)
  <2>1. market_nfts[t] # None /\ market_nfts[t] \in Nft BY <1>1, <1>5 DEF Transfer
  <2>2. nft \in Nft /\ ~ nft.listed BY Zenon, <2>1 DEF Nft, Transferred
  <2>3. market_nfts' = [market_nfts EXCEPT ![t] = nft] BY <1>5 DEF Transfer
  <2>4. market_receipts' \in [Hash -> Token \cup {None}] BY <1>1, <1>5 DEF Transfer
  <2>5. offers' = [offers EXCEPT ![t] = offers[t]] BY <1>1, <1>5 DEF Transfer
  <2>6. offers[t] \in [by : Address, price : Price] \cup {None} BY <1>1
  <2>7. UNCHANGED <<ledgerVars, next_market_token_id>> BY <1>5 DEF Transfer
  <2> HIDE DEF nft
  <2>8. QED BY Zenon, <2>1, <2>2, <2>3, <2>4, <2>5, <2>6, <2>7, TokenStep
<1>6. ASSUME NEW t \in Token, NEW a \in Address, NEW p \in Price, Relist(t, a, p)
      PROVE  MarketInv'
  <2> DEFINE nft == [market_nfts[t] EXCEPT !.listed = TRUE, !.price = p]
  <2>1. market_nfts[t] # None /\ market_nfts[t] \in Nft /\ market_nfts[t].owner = a
    BY <1>1, <1>6 DEF Relist
  <2>2. nft \in Nft /\ nft.owner = a /\ nft.price = p BY Zenon, <2>1 DEF Nft
  <2>3. market_nfts' = [market_nfts EXCEPT ![t] = nft] BY Zenon, <1>1, <1>6, <2>1 DEF Relist, Nft
  <2>4. market_receipts' \in [Hash -> Token \cup {None}] BY <1>1, <1>6 DEF Relist
  <2>5. offers' = [offers EXCEPT ![t] = [by |-> a, price |-> p]] BY <1>6 DEF Relist
  <2>6. UNCHANGED <<ledgerVars, next_market_token_id>> BY <1>6 DEF Relist
  <2> HIDE DEF nft
  <2>7. QED BY Zenon, <2>1, <2>2, <2>3, <2>4, <2>5, <2>6, TokenStep
<1>7. CASE UNCHANGED vars
  BY <1>7 DEF vars, ledgerVars, marketVars, MarketInv, TypeOK, ListedOnOwnersTerms,
              ChainInv, LedgerTypeOK, PendingKnown, AcknowledgedIsPendingOrMined, In
<1>8. QED BY <1>2, <1>3, <1>4, <1>5, <1>6, <1>7 DEF Next

(* Hence the invariant holds in every reachable state. *)
LEMMA MarketAlways == Spec => []MarketInv
BY MarketInitially, MarketStep, PTL DEF Spec

(* Chain and market keep their types; token ids have no gap below the next *)
(* one.                                                                    *)
THEOREM MarketTypeCorrect == Spec => []TypeOK
<1>1. MarketInv => TypeOK BY DEF MarketInv
<1>2. QED BY <1>1, MarketAlways, PTL

(* Whatever the order of requests and ticks, and however often a           *)
(* transaction is sent again, an acknowledged transaction waits for the    *)
(* next tick or is where its receipt says.                                 *)
THEOREM AcknowledgedHolds == Spec => []AcknowledgedIsPendingOrMined
<1>1. MarketInv => AcknowledgedIsPendingOrMined BY DEF MarketInv, ChainInv
<1>2. QED BY <1>1, MarketAlways, PTL

(* No sequence of mints, sales, transfers and relistings offers a token on *)
(* terms its present owner did not set.                                    *)
THEOREM OwnersTermsHold == Spec => []ListedOnOwnersTerms
<1>1. MarketInv => ListedOnOwnersTerms BY DEF MarketInv
<1>2. QED BY <1>1, MarketAlways, PTL

-----------------------------------------------------------------------------
(* The chain calls *)

(* Every mined transaction is known too. *)
MinedKnown == \A n \in 0 .. MaxHeight : \A i \in DOMAIN block_txs[n] : txs[block_txs[n][i]] # None

(* No step forgets a transaction, and a tick lists only pending ones. *)
LEMMA MinedStep ==
    ASSUME MarketInv, MinedKnown, [Next]_vars
    PROVE  MinedKnown'
<1>1. /\ pending_txs \in Seq(Hash) /\ txs \in [Hash -> TxRecord \cup {None}]
      /\ block_txs \in [0..MaxHeight -> Seq(Hash)] /\ current_height \in 0..MaxHeight
      /\ MaxHeight \in Nat /\ None \notin TxRecord
  BY LedgerAssumption DEF MarketInv, ChainInv, LedgerTypeOK
<1>2. CASE UNCHANGED <<txs, block_txs>> BY <1>2 DEF MinedKnown
<1>3. ASSUME NEW r \in Hash, NEW a \in Address, txs' = [txs EXCEPT ![r] = RecordOf(a)],
             UNCHANGED block_txs
      PROVE  MinedKnown'
  <2>1. RecordOf(a) \in TxRecord BY DEF RecordOf, TxRecord
  <2>2. \A h \in Hash : txs[h] # None => txs'[h] # None BY <1>1, <1>3, <2>1
  <2>3. \A n \in 0 .. MaxHeight : \A i \in DOMAIN block_txs[n] : block_txs[n][i] \in Hash BY <1>1
  <2> QED BY <1>3, <2>2, <2>3 DEF MinedKnown
<1>4. CASE Tick
  <2> DEFINE n == current_height + 1
  <2>1. n \in 1..MaxHeight /\ block_txs' = [block_txs EXCEPT ![n] = pending_txs] BY <1>1, <1>4 DEF Tick, BlockAdded
  <2>2. ASSUME NEW r \in Hash, txs[r] # None PROVE txs'[r] # None
    <3>1. CASE In(r, pending_txs)
      <4>1. txs'[r] = [txs[r] EXCEPT !.block = n, !.index = LastIndex(pending_txs, r)]
        BY Zenon, <1>4, <3>1 DEF Tick, MinedIn, In
      <4>2. LastIndex(pending_txs, r) \in DOMAIN pending_txs BY <1>1, <3>1, LastIndexFound
      <4>3. LastIndex(pending_txs, r) \in Nat BY <1>1, <4>2
      <4>4. txs[r] \in TxRecord BY <1>1, <2>2
      <4>5. txs'[r] \in TxRecord BY Zenon, <2>1, <4>1, <4>3, <4>4 DEF TxRecord
      <4> QED BY <1>1, <4>5
    <3>2. CASE ~ In(r, pending_txs) BY Zenon, <1>4, <2>2, <3>2 DEF Tick, MinedIn, In
    <3> QED BY <3>1, <3>2
  <2>3. \A i \in DOMAIN pending_txs : pending_txs[i] \in Hash /\ txs[pending_txs[i]] # None
    BY <1>1 DEF MarketInv, ChainInv, PendingKnown, In
  <2>4. \A k \in 0 .. MaxHeight : \A i \in DOMAIN block_txs[k] : block_txs[k][i] \in Hash BY <1>1
  <2> HIDE DEF n
  <2>5. ASSUME NEW k \in 0 .. MaxHeight, NEW i \in DOMAIN block_txs'[k] PROVE txs'[block_txs'[k][i]] # None
    <3>1. CASE k = n BY <1>1, <2>1, <2>2, <2>3, <2>5, <3>1
    <3>2. CASE k # n BY <1>1, <2>1, <2>2, <2>4, <2>5, <3>2 DEF MinedKnown
    <3> QED BY <3>1, <3>2
  <2> QED BY <2>5 DEF MinedKnown
<1>5. CASE LedgerNext
  <2>1. ASSUME NEW raw \in Raw, SendAccepted(raw) PROVE MinedKnown'
    <3>1. pending_nonce_address_hint \in Address /\ raw \in Hash
      BY <2>1, RawAreHashes DEF SendAccepted, MarketInv, ChainInv, LedgerTypeOK
    <3> QED BY Zenon, <1>3, <2>1, <3>1 DEF SendAccepted
  <2> QED BY <1>2, <1>4, <1>5, <2>1
          DEF LedgerNext, GetTransactionCount, SendRejected, CallFails, SetBalance
<1>6. ASSUME NEW a \in Address, NEW p \in Price, Mint(a, p) PROVE MinedKnown'
  <2>1. MintHash(next_market_token_id) \in Hash
    BY <1>6, MarketAssumption DEF Mint, MarketInv, TypeOK
  <2> QED BY Zenon, <1>3, <1>6, <2>1 DEF Mint
<1> QED BY Zenon, <1>2, <1>5, <1>6 DEF Next, vars, ledgerVars, Buy, Transfer, Relist

-----------------------------------------------------------------------------
(* A transaction the EVM ran and a tick mined is in the block it names. *)
LEMMA MinedPlace ==
    ASSUME ChainInv, NEW h \in Raw, txs[h] # None, txs[h].block # None
    PROVE  LET n == txs[h].block IN
           /\ h \in Hash
           /\ n \in 1 .. MaxHeight /\ n \in 0 .. MaxHeight /\ n \in Nat /\ n <= current_height
           /\ TxsOf(n) = block_txs[n] /\ TxsOf(n) \in Seq(Hash)
           /\ txs[h].index \in DOMAIN TxsOf(n) /\ TxsOf(n)[txs[h].index] = h
           /\ tx_receipt_json(h)
                = [hash |-> h, block_number |-> n, block_hash |-> block_hash(n),
                   transaction_index |-> txs[h].index, logs |-> Logs(h)]
<1> DEFINE n == txs[h].block
<1>1. h \in Hash BY RawAreHashes
<1>2. txs[h] \in TxRecord BY <1>1 DEF ChainInv, LedgerTypeOK
<1>3. n \in 1 .. MaxHeight /\ MaxHeight \in Nat BY <1>1, <1>2, LedgerAssumption DEF TxRecord
<1>4. /\ n <= current_height /\ txs[h].index \in DOMAIN block_txs[n]
      /\ block_txs[n][txs[h].index] = h
  BY <1>1 DEF ChainInv, AcknowledgedIsPendingOrMined
<1>5. TxsOf(n) = block_txs[n] /\ n \in 0 .. MaxHeight BY <1>3 DEF TxsOf
<1>6. block_txs[n] \in Seq(Hash) BY <1>5 DEF ChainInv, LedgerTypeOK
<1>7. tx_receipt_json(h)
        = [hash |-> h, block_number |-> n, block_hash |-> block_hash(n),
           transaction_index |-> txs[h].index, logs |-> Logs(h)]
  BY <1>1 DEF tx_receipt_json, HasReceipt
<1> QED BY <1>1, <1>3, <1>4, <1>5, <1>6, <1>7

(* What the tags and hashes of a client resolve to. *)
LEMMA TagsResolve ==
    ASSUME ChainInv
    PROVE  /\ \A n \in Nat : block_by_tag(Numbered(n)) = n /\ block_number_from_hash(block_hash(n)) = n
           /\ block_by_tag(Named("earliest")) = 0 /\ block_by_tag(Named("latest")) = current_height
           /\ block_number_from_hash(None) = None
           /\ 0 # None /\ current_height # None /\ \A n \in Nat : n # None
<1>1. None \notin Nat /\ current_height \in Nat
  BY LedgerAssumption DEF ChainInv, LedgerTypeOK
<1>2. ASSUME NEW n \in Nat PROVE block_by_tag(Numbered(n)) = n
  <2>1. Numbered(n) \in BlockTag BY DEF Numbered, BlockTag
  <2>2. Numbered(n) # None BY <2>1, QueryAssumption
  <2>3. Numbered(n).tag = "number" /\ Numbered(n).number = n BY DEF Numbered
  <2> QED BY <2>2, <2>3 DEF block_by_tag
<1>3. ASSUME NEW n \in Nat PROVE block_number_from_hash(block_hash(n)) = n
  BY <1>1 DEF block_number_from_hash, block_hash
<1>4. ASSUME NEW t \in {"earliest", "latest"}
      PROVE  block_by_tag(Named(t)) = IF t = "earliest" THEN 0 ELSE current_height
  <2>1. Named(t) \in BlockTag BY DEF Named, BlockTag
  <2>2. Named(t) # None BY <2>1, QueryAssumption
  <2>3. Named(t).tag = t BY DEF Named
  <2> QED BY <2>2, <2>3 DEF block_by_tag
<1>5. block_number_from_hash(None) = None BY DEF block_number_from_hash
<1> QED BY <1>1, <1>2, <1>3, <1>4, <1>5

(* A block shown in full shows every transaction it lists, at its place. *)
LEMMA FullBlock ==
    ASSUME ChainInv, MinedKnown, NEW n \in 0 .. MaxHeight
    PROVE  /\ build_block_response(n, TRUE).number = n
           /\ DOMAIN build_block_response(n, TRUE).transactions = DOMAIN TxsOf(n)
           /\ \A i \in DOMAIN TxsOf(n) :
                build_block_response(n, TRUE).transactions[i] = tx_to_json(TxsOf(n)[i])
<1> DEFINE known == RestrictValues(TxsOf(n), LAMBDA h : txs[h] # None)
<1>1. \A i \in DOMAIN TxsOf(n) : txs[TxsOf(n)[i]] # None BY DEF MinedKnown, TxsOf
<1>2. DOMAIN known = DOMAIN TxsOf(n) /\ \A i \in DOMAIN TxsOf(n) : known[i] = TxsOf(n)[i]
  BY <1>1 DEF RestrictValues, Restrict
<1>3. /\ build_block_response(n, TRUE).number = n
      /\ build_block_response(n, TRUE).transactions = [i \in DOMAIN known |-> tx_to_json(known[i])]
  BY DEF build_block_response
<1> HIDE DEF known
<1> QED BY Zenon, <1>2, <1>3

-----------------------------------------------------------------------------
(* Every log of some blocks. *)
AllLogs(blocks) == [p \in LogPlaces(blocks) |-> LogAt(p)]

(* The least and the greatest of two heights. *)
LEMMA EndsOfRange ==
    ASSUME NEW n \in Nat
    PROVE  /\ Min({0, n}) = 0 /\ Max({0, n}) = n
           /\ Min({n, 0}) = 0 /\ Max({n, 0}) = n
<1>1. Min({0, n}) = 0
  <2>1. \E x \in {0, n} : \A y \in {0, n} : x <= y OBVIOUS
  <2>2. Min({0, n}) \in {0, n} /\ \A y \in {0, n} : Min({0, n}) <= y BY <2>1 DEF Min
  <2> QED BY <2>2
<1>2. Max({0, n}) = n
  <2>1. \E x \in {0, n} : \A y \in {0, n} : x >= y OBVIOUS
  <2>2. Max({0, n}) \in {0, n} /\ \A y \in {0, n} : Max({0, n}) >= y BY <2>1 DEF Max
  <2> QED BY <2>2
<1>3. {0, n} = {n, 0} OBVIOUS
<1> QED BY <1>1, <1>2, <1>3

(* A filter that asks for every address and every topic. *)
Unfiltered(f) == f.malformed = FALSE /\ f.any_address = TRUE /\ f.topics = <<>>

(* It gets all logs of the blocks it names. *)
LEMMA UnfilteredLogs ==
    ASSUME ChainInv, NEW f, Unfiltered(f), NEW blocks,
           \/ \E n \in Nat : f.block_hash = block_hash(n) /\ blocks = n .. n
           \/ /\ f.block_hash = None /\ blocks = 0 .. current_height
              /\ \/ f.from_block = Named("earliest") /\ f.to_block = Named("latest")
                 \/ f.from_block = Named("latest") /\ f.to_block = Named("earliest")
    PROVE  GetLogs(f) = AllLogs(blocks)
<1> DEFINE from  == IF block_by_tag(f.from_block) = None THEN 0 ELSE block_by_tag(f.from_block)
           to    == IF block_by_tag(f.to_block) = None THEN current_height ELSE block_by_tag(f.to_block)
           n     == block_number_from_hash(f.block_hash)
           range == IF n # None THEN n .. n ELSE Min({from, to}) .. Max({from, to})
<1>1. range = blocks
  <2>1. CASE \E k \in Nat : f.block_hash = block_hash(k) /\ blocks = k .. k
    BY <2>1, TagsResolve
  <2>2. CASE /\ f.block_hash = None /\ blocks = 0 .. current_height
             /\ \/ f.from_block = Named("earliest") /\ f.to_block = Named("latest")
                \/ f.from_block = Named("latest") /\ f.to_block = Named("earliest")
    <3>1. n = None BY <2>2, TagsResolve
    <3>2. {from, to} = {0, current_height} BY <2>2, TagsResolve
    <3>3. current_height \in Nat BY LedgerAssumption DEF ChainInv, LedgerTypeOK
    <3>4. Min({from, to}) = 0 /\ Max({from, to}) = current_height BY Zenon, <3>2, <3>3, EndsOfRange
    <3> HIDE DEF from, to, n
    <3> QED BY <2>2, <3>1, <3>4
  <2> QED BY <2>1, <2>2
<1>2. \A log : Matches(log, f) BY DEF Matches, Unfiltered
<1>3. GetLogs(f) = [p \in {p \in LogPlaces(range) : Matches(LogAt(p), f)} |-> LogAt(p)]
  BY DEF GetLogs, Unfiltered
<1> HIDE DEF range
<1>4. {p \in LogPlaces(range) : Matches(LogAt(p), f)} = LogPlaces(range) BY <1>2
<1> QED BY <1>1, <1>3, <1>4 DEF AllLogs


-----------------------------------------------------------------------------
(* A, B and C are parts of S, and B is A with x. *)
OneMore(S, f, A, B, C, x) ==
    /\ IsFiniteSet(S) /\ f \in [S -> Nat]
    /\ A \in SUBSET S /\ B \in SUBSET S /\ C \in SUBSET S /\ x \in B /\ B \ {x} = A

(* A sum over a set with one element more, and over a set that holds it. *)
LEMMA SumWithOneMore ==
    ASSUME NEW S, NEW f, NEW A, NEW B, NEW C, NEW x, OneMore(S, f, A, B, C, x)
    PROVE  /\ f[x] \in Nat /\ SumOf(f, A) \in Nat /\ SumOf(f, C) \in Nat
           /\ SumOf(f, B) = f[x] + SumOf(f, A)
           /\ B \subseteq C => SumOf(f, B) <= SumOf(f, C)
<1>1. /\ \A T \in SUBSET S : SumOf(f, T) \in Nat
      /\ SumOf(f, {}) = 0
      /\ \A T \in SUBSET S : \A y \in T : SumOf(f, T) = f[y] + SumOf(f, T \ {y})
  BY SumLaws DEF OneMore
<1>2. B \subseteq C => SumOf(f, B) <= SumOf(f, C) BY SumMonotone DEF OneMore
<1> QED BY <1>1, <1>2 DEF OneMore

(* The logs of a block are numbered through: those of a later transaction  *)
(* come after those of an earlier one.                                     *)
LEMMA NumberedThrough ==
    ASSUME NEW len \in Nat, NEW S, S = 1 .. len, NEW counts \in [S -> Nat], NEW i \in S, NEW j \in S
    PROVE  /\ LogsBefore(counts, i) \in Nat
           /\ i < j => LogsBefore(counts, i) + counts[i] <= LogsBefore(counts, j)
<1> DEFINE A == 1 .. i - 1
           B == 1 .. i
           C == 1 .. j - 1
<1>1. IsFiniteSet(S) BY FirstFinite
<1>2. /\ LogsBefore(counts, i) = SumOf(counts, A)
      /\ LogsBefore(counts, j) = SumOf(counts, C)
  BY DEF LogsBefore, SumOf
<1>3. A \in SUBSET S /\ B \in SUBSET S /\ C \in SUBSET S /\ i \in B /\ B \ {i} = A OBVIOUS
<1>4. i < j => B \in SUBSET C OBVIOUS
<1> HIDE DEF A, B, C
<1>5. /\ counts[i] \in Nat /\ SumOf(counts, A) \in Nat /\ SumOf(counts, C) \in Nat
      /\ SumOf(counts, B) = counts[i] + SumOf(counts, A)
      /\ B \subseteq C => SumOf(counts, B) <= SumOf(counts, C)
  <2>1. OneMore(S, counts, A, B, C, i) BY <1>1, <1>3 DEF OneMore
  <2> QED BY <2>1, SumWithOneMore
<1> QED BY <1>2, <1>4, <1>5

(* Where the logs of a mined transaction are. *)
LEMMA LogOfMined ==
    ASSUME ChainInv, NEW h \in Raw, txs[h] # None, txs[h].block # None,
           NEW k \in DOMAIN LogsOf[h]
    PROVE  LET n == txs[h].block IN
           /\ txs[h].index \in DOMAIN TxsOf(n) /\ TxsOf(n)[txs[h].index] = h
           /\ LogCounts(n) \in [1 .. Len(TxsOf(n)) -> Nat] /\ Len(TxsOf(n)) \in Nat
           /\ txs[h].index \in 1 .. Len(TxsOf(n))
           /\ LogCounts(n)[txs[h].index] = Len(LogsOf[h])
           /\ k \in 1 .. Len(LogsOf[h]) /\ Len(LogsOf[h]) \in Nat
           /\ Logs(h)[k].block_number = n
           /\ Logs(h)[k].log_index = LogsBefore(LogCounts(n), txs[h].index) + k - 1
<1> DEFINE n == txs[h].block
           t == TxsOf(n)
           i == txs[h].index
<1>1. t \in Seq(Hash) /\ i \in DOMAIN t /\ t[i] = h BY MinedPlace
<1>2. Len(t) \in Nat /\ DOMAIN t = 1 .. Len(t) BY <1>1
<1>3. Len(LogsOf[h]) \in Nat /\ DOMAIN LogsOf[h] = 1 .. Len(LogsOf[h]) BY QueryAssumption
<1>4. LogCounts(n) \in [1 .. Len(t) -> Nat] /\ LogCounts(n)[i] = Len(LogsOf[h])
  <2>1. LogCounts(n) = [j \in DOMAIN t |-> IF t[j] \in Raw THEN Len(LogsOf[t[j]]) ELSE 0] BY DEF LogCounts
  <2>2. \A raw \in Raw : Len(LogsOf[raw]) \in Nat BY QueryAssumption
  <2> HIDE DEF t, i, n
  <2> QED BY <1>1, <1>2, <2>1, <2>2
<1>5. /\ Logs(h)[k].block_number = n
      /\ Logs(h)[k].log_index = LogsBefore(LogCounts(n), i) + k - 1
  BY DEF Logs, FirstLogIndex
<1> HIDE DEF t, i, n
<1>6. i \in 1 .. Len(t) BY <1>1, <1>2
<1> QED BY <1>1, <1>2, <1>3, <1>4, <1>5, <1>6 DEF t, i, n

(* Two logs of a block with the same index are the same log. *)
LEMMA LogIndexOnce ==
    ASSUME ChainInv,
           NEW g \in Raw, txs[g] # None, txs[g].block # None, NEW k \in DOMAIN LogsOf[g],
           NEW h \in Raw, txs[h] # None, NEW l \in DOMAIN LogsOf[h],
           txs[g].block = txs[h].block,
           Logs(g)[k].log_index = Logs(h)[l].log_index
    PROVE  g = h /\ k = l
<1> DEFINE n == txs[g].block
           c == LogCounts(n)
           len == Len(TxsOf(n))
           i == txs[g].index
           j == txs[h].index
<1>1. /\ TxsOf(n)[i] = g /\ c \in [1 .. len -> Nat] /\ len \in Nat /\ i \in 1 .. len
      /\ c[i] = Len(LogsOf[g]) /\ k \in 1 .. Len(LogsOf[g]) /\ Len(LogsOf[g]) \in Nat
      /\ Logs(g)[k].log_index = LogsBefore(c, i) + k - 1
  BY LogOfMined
<1>2. /\ TxsOf(n)[j] = h /\ j \in 1 .. len
      /\ c[j] = Len(LogsOf[h]) /\ l \in 1 .. Len(LogsOf[h]) /\ Len(LogsOf[h]) \in Nat
      /\ Logs(h)[l].log_index = LogsBefore(c, j) + l - 1
  BY LogOfMined
<1> HIDE DEF n, c, len, i, j
<1>3. /\ LogsBefore(c, i) \in Nat /\ LogsBefore(c, j) \in Nat
      /\ i < j => LogsBefore(c, i) + c[i] <= LogsBefore(c, j)
      /\ j < i => LogsBefore(c, j) + c[j] <= LogsBefore(c, i)
  BY Zenon, <1>1, <1>2, NumberedThrough
<1>4. LogsBefore(c, i) + k - 1 = LogsBefore(c, j) + l - 1 BY Zenon, <1>1, <1>2
<1>5. ~ (i < j) /\ ~ (j < i)
  <2>1. k \in Nat /\ l \in Nat /\ 1 <= k /\ k <= c[i] /\ 1 <= l /\ l <= c[j] /\ c[i] \in Nat /\ c[j] \in Nat
    BY <1>1, <1>2
  <2> QED BY <1>3, <1>4, <2>1
<1>6. i = j BY <1>1, <1>2, <1>5
<1> QED BY <1>1, <1>2, <1>3, <1>4, <1>6

-----------------------------------------------------------------------------
(* The distinct entries of a list are no more than its length. *)
LEMMA RangeSmall ==
    ASSUME NEW S, NEW s \in Seq(S)
    PROVE  IsFiniteSet(Range(s)) /\ Cardinality(Range(s)) \in Nat /\ Cardinality(Range(s)) <= Len(s)
<1>1. s \in Surjection(1 .. Len(s), Range(s)) BY DEF Range, Surjection
<1>2. Len(s) \in Nat /\ 1 \in Int /\ Len(s) \in Int OBVIOUS
<1>3. IsFiniteSet(1 .. Len(s)) /\ Cardinality(1 .. Len(s)) = IF 1 > Len(s) THEN 0 ELSE Len(s) - 1 + 1
  BY <1>2, FS_Interval
<1>4. Cardinality(1 .. Len(s)) = Len(s) BY <1>2, <1>3
<1> QED BY <1>1, <1>3, <1>4, FS_Surjection, FS_CardinalityType

(* The size of a union. *)
UnionSmall(A, B) ==
    /\ IsFiniteSet(A \cup B) /\ Cardinality(A \cup B) \in Nat
    /\ Cardinality(A \cup B) <= Cardinality(A) + Cardinality(B)

(* A union has no more elements than its parts together. *)
LEMMA UnionIsSmall ==
    ASSUME NEW A, IsFiniteSet(A), NEW B, IsFiniteSet(B)
    PROVE  UnionSmall(A, B)
<1>1. IsFiniteSet(A \cap B) BY FS_Subset, A \cap B \in SUBSET A
<1>2. Cardinality(A \cap B) \in Nat /\ Cardinality(A) \in Nat /\ Cardinality(B) \in Nat
  BY <1>1, FS_CardinalityType
<1>3. /\ IsFiniteSet(A \cup B)
      /\ Cardinality(A \cup B) = Cardinality(A) + Cardinality(B) - Cardinality(A \cap B)
  BY FS_Union
<1>4. Cardinality(A \cup B) \in Nat BY <1>3, FS_CardinalityType
<1> QED BY <1>2, <1>3, <1>4 DEF UnionSmall

(* The transactions of the blocks up to number m. *)
MinedUpTo(m) == UNION {Range(TxsOf(n)) : n \in 0 .. m}

(* They are no more than the blocks list. *)
LEMMA MinedCounted ==
    ASSUME ChainInv, NEW m \in 0 .. MaxHeight
    PROVE  /\ IsFiniteSet(MinedUpTo(m)) /\ Cardinality(MinedUpTo(m)) \in Nat
           /\ SumOf(TxCounts, 0 .. m) \in Nat
           /\ Cardinality(MinedUpTo(m)) <= SumOf(TxCounts, 0 .. m)
<1> DEFINE S == 0 .. MaxHeight
           P == {k \in Nat : k <= MaxHeight =>
                    /\ IsFiniteSet(MinedUpTo(k)) /\ Cardinality(MinedUpTo(k)) \in Nat
                    /\ Cardinality(MinedUpTo(k)) <= SumOf(TxCounts, 0 .. k)}
<1>1. MaxHeight \in Nat /\ IsFiniteSet(S) BY LedgerAssumption, FS_Interval
<1>2. \A n \in S : TxsOf(n) \in Seq(Hash) BY DEF TxsOf, ChainInv, LedgerTypeOK
<1>3. TxCounts \in [S -> Nat] /\ \A n \in S : TxCounts[n] = Len(TxsOf(n)) BY <1>2 DEF TxCounts
<1>4. \A n \in S : /\ IsFiniteSet(Range(TxsOf(n))) /\ Cardinality(Range(TxsOf(n))) \in Nat
                   /\ Cardinality(Range(TxsOf(n))) <= TxCounts[n]
  BY <1>2, <1>3, RangeSmall
<1>5. \A k \in Nat : k <= MaxHeight => 0 .. k \in SUBSET S BY <1>1
<1> HIDE DEF S
<1>6. /\ \A T \in SUBSET S : SumOf(TxCounts, T) \in Nat
      /\ SumOf(TxCounts, {}) = 0
      /\ \A T \in SUBSET S : \A x \in T : SumOf(TxCounts, T) = TxCounts[x] + SumOf(TxCounts, T \ {x})
  BY <1>1, <1>3, SumLaws
<1>7. 0 \in P
  <2>1. 0 .. 0 = {0} /\ 0 \in S /\ {0} \in SUBSET S /\ {0} \ {0} = {} BY <1>1 DEF S
  <2>2. MinedUpTo(0) = Range(TxsOf(0)) BY <2>1 DEF MinedUpTo
  <2>3. TxCounts[0] \in Nat BY <1>3, <2>1
  <2>4. SumOf(TxCounts, 0 .. 0) = TxCounts[0] BY <1>6, <2>1, <2>3
  <2> QED BY <1>4, <2>1, <2>2, <2>4
<1>8. ASSUME NEW k \in Nat, k \in P PROVE k + 1 \in P
  <2>1. SUFFICES ASSUME k + 1 <= MaxHeight
                 PROVE  /\ IsFiniteSet(MinedUpTo(k + 1)) /\ Cardinality(MinedUpTo(k + 1)) \in Nat
                        /\ Cardinality(MinedUpTo(k + 1)) <= SumOf(TxCounts, 0 .. k + 1)
    OBVIOUS
  <2>2. /\ 0 .. k + 1 = (0 .. k) \cup {k + 1} /\ (0 .. k + 1) \ {k + 1} = 0 .. k
        /\ k + 1 \in 0 .. k + 1 /\ k + 1 \in S /\ k <= MaxHeight
    BY <1>1, <2>1 DEF S
  <2>3. MinedUpTo(k + 1) = MinedUpTo(k) \cup Range(TxsOf(k + 1)) BY <2>2 DEF MinedUpTo
  <2>4. SumOf(TxCounts, 0 .. k + 1) = TxCounts[k + 1] + SumOf(TxCounts, 0 .. k)
    BY <1>5, <1>6, <2>1, <2>2
  <2>5. TxCounts[k + 1] \in Nat /\ SumOf(TxCounts, 0 .. k) \in Nat BY <1>3, <1>5, <1>6, <2>2
  <2>6. /\ IsFiniteSet(MinedUpTo(k)) /\ Cardinality(MinedUpTo(k)) \in Nat
        /\ Cardinality(MinedUpTo(k)) <= SumOf(TxCounts, 0 .. k)
    BY <1>8, <2>2
  <2>7. /\ IsFiniteSet(Range(TxsOf(k + 1))) /\ Cardinality(Range(TxsOf(k + 1))) \in Nat
        /\ Cardinality(Range(TxsOf(k + 1))) <= TxCounts[k + 1]
    BY <1>4, <2>2
  <2>8. UnionSmall(MinedUpTo(k), Range(TxsOf(k + 1))) BY <2>6, <2>7, UnionIsSmall
  <2>9. /\ IsFiniteSet(MinedUpTo(k + 1)) /\ Cardinality(MinedUpTo(k + 1)) \in Nat
        /\ Cardinality(MinedUpTo(k + 1)) <= Cardinality(MinedUpTo(k)) + Cardinality(Range(TxsOf(k + 1)))
    BY Zenon, <2>3, <2>8 DEF UnionSmall
  <2> HIDE DEF P
  <2> QED BY <2>4, <2>5, <2>6, <2>7, <2>9
<1> HIDE DEF P
<1>9. Nat \subseteq P BY <1>7, <1>8, NaturalInduction
<1> QED BY <1>1, <1>5, <1>6, <1>9 DEF P

-----------------------------------------------------------------------------
(* The status figures miss no known transaction. *)
LEMMA StatusCountsKnown ==
    ASSUME ChainInv, StatusWindow.start = 0
    PROVE  StatusWindow.known <= StatusWindow.txs + StatusWindow.pending
<1> DEFINE known == {h \in Hash : txs[h] # None}
           mined == MinedUpTo(current_height)
           waiting == Range(pending_txs)
<1>1. current_height \in 0 .. MaxHeight /\ pending_txs \in Seq(Hash) BY DEF ChainInv, LedgerTypeOK
<1>2. /\ StatusWindow.known = Cardinality(known) /\ StatusWindow.pending = Len(pending_txs)
      /\ StatusWindow.txs = SumOver(TxCounts, StatusWindow.start .. current_height)
  BY DEF StatusWindow
<1>3. StatusWindow.txs = SumOf(TxCounts, 0 .. current_height) BY <1>2 DEF SumOver, SumOf
<1>4. known \subseteq mined \cup waiting
  <2>1. SUFFICES ASSUME NEW h \in Hash, txs[h] # None PROVE h \in mined \cup waiting OBVIOUS
  <2>2. CASE txs[h].block = None
    BY <2>1, <2>2 DEF ChainInv, AcknowledgedIsPendingOrMined, In, Range
  <2>3. CASE txs[h].block # None
    <3> DEFINE n == txs[h].block
    <3>1. txs[h] \in TxRecord BY <2>1 DEF ChainInv, LedgerTypeOK
    <3>2. n \in 1 .. MaxHeight /\ MaxHeight \in Nat BY <2>3, <3>1, LedgerAssumption DEF TxRecord
    <3>3. n <= current_height /\ txs[h].index \in DOMAIN block_txs[n] /\ block_txs[n][txs[h].index] = h
      BY <2>1, <2>3 DEF ChainInv, AcknowledgedIsPendingOrMined
    <3> HIDE DEF n
    <3>4. TxsOf(n) = block_txs[n] /\ n \in 0 .. current_height BY <1>1, <3>2, <3>3 DEF TxsOf
    <3>5. h \in Range(TxsOf(n)) BY <3>3, <3>4 DEF Range
    <3> QED BY <3>4, <3>5 DEF MinedUpTo
  <2> QED BY <2>2, <2>3
<1> HIDE DEF known, mined, waiting
<1>5. /\ IsFiniteSet(mined) /\ Cardinality(mined) \in Nat /\ SumOf(TxCounts, 0 .. current_height) \in Nat
      /\ Cardinality(mined) <= SumOf(TxCounts, 0 .. current_height)
  BY <1>1, MinedCounted DEF mined
<1>6. /\ IsFiniteSet(waiting) /\ Cardinality(waiting) \in Nat /\ Len(pending_txs) \in Nat
      /\ Cardinality(waiting) <= Len(pending_txs)
  BY <1>1, RangeSmall DEF waiting
<1>7. UnionSmall(mined, waiting) BY <1>5, <1>6, UnionIsSmall
<1>8. IsFiniteSet(known) /\ Cardinality(known) <= Cardinality(mined \cup waiting)
  BY <1>4, <1>7, FS_Subset DEF UnionSmall
<1>9. Cardinality(known) \in Nat BY <1>8, FS_CardinalityType
<1> QED BY <1>2, <1>3, <1>5, <1>6, <1>7, <1>8, <1>9 DEF UnionSmall

-----------------------------------------------------------------------------
(* The logs of a filter by block hash, by the chain and by the chain given *)
(* backwards.                                                              *)
LEMMA FiltersOfAReceipt ==
    ASSUME ChainInv, NEW n \in Nat
    PROVE  /\ GetLogs([Everything EXCEPT !.block_hash = block_hash(n)]) = AllLogs(n .. n)
           /\ GetLogs(Everything) = AllLogs(0 .. current_height)
           /\ GetLogs([Everything EXCEPT !.from_block = Named("latest"), !.to_block = Named("earliest")])
                = AllLogs(0 .. current_height)
<1> DEFINE f == [Everything EXCEPT !.block_hash = block_hash(n)]
           g == [Everything EXCEPT !.from_block = Named("latest"), !.to_block = Named("earliest")]
<1>1. Unfiltered(f) /\ f.block_hash = block_hash(n) BY DEF Everything, Unfiltered
<1>2. /\ Unfiltered(g) /\ g.block_hash = None
      /\ g.from_block = Named("latest") /\ g.to_block = Named("earliest")
  BY DEF Everything, Unfiltered
<1>3. /\ Unfiltered(Everything) /\ Everything.block_hash = None
      /\ Everything.from_block = Named("earliest") /\ Everything.to_block = Named("latest")
  BY DEF Everything, Unfiltered
<1> HIDE DEF f, g
<1>4. GetLogs(f) = AllLogs(n .. n) BY <1>1, UnfilteredLogs
<1>5. GetLogs(g) = AllLogs(0 .. current_height) BY <1>2, UnfilteredLogs
<1>6. GetLogs(Everything) = AllLogs(0 .. current_height) BY <1>3, UnfilteredLogs
<1> QED BY <1>4, <1>5, <1>6 DEF f, g

(* The logs of more blocks include those of fewer. *)
LEMMA MoreBlocksMoreLogs ==
    ASSUME NEW A, NEW B, A \subseteq B
    PROVE  Range(AllLogs(A)) \subseteq Range(AllLogs(B))
<1>1. LogPlaces(A) \subseteq LogPlaces(B) BY DEF LogPlaces
<1> QED BY <1>1 DEF AllLogs, Range

(* A log of one block comes from a transaction the block lists. *)
LEMMA LogOfBlock ==
    ASSUME NEW n \in Nat, NEW log \in Range(AllLogs(n .. n))
    PROVE  \E h \in Raw : \E k \in DOMAIN LogsOf[h] : txs[h] # None /\ log = Logs(h)[k]
<1>1. PICK p \in LogPlaces(n .. n) : log = LogAt(p) BY DEF AllLogs, Range
<1>2. PICK m \in n .. n : \E i \in DOMAIN TxsOf(m) :
        /\ HasReceipt(TxsOf(m)[i])
        /\ \E k \in DOMAIN LogsOf[TxsOf(m)[i]] : p = <<m, i, k>>
  BY <1>1 DEF LogPlaces
<1>3. PICK i \in DOMAIN TxsOf(m) :
        HasReceipt(TxsOf(m)[i]) /\ \E k \in DOMAIN LogsOf[TxsOf(m)[i]] : p = <<m, i, k>>
  BY <1>2
<1>4. PICK k \in DOMAIN LogsOf[TxsOf(m)[i]] : p = <<m, i, k>> BY <1>3
<1>5. log = Logs(TxsOf(m)[i])[k] BY <1>1, <1>4 DEF LogAt
<1> QED BY <1>3, <1>5 DEF HasReceipt

(* The receipt of a transaction is among the receipts of its block. *)
LEMMA ReceiptOfBlock ==
    ASSUME ChainInv, NEW h \in Raw, txs[h] # None, txs[h].block # None, tx_receipt_json(h) # None
    PROVE  tx_receipt_json(h) \in Range(GetBlockReceipts(txs[h].block))
<1> DEFINE n == txs[h].block
           i == txs[h].index
           mined == RestrictValues(TxsOf(n), LAMBDA t : tx_receipt_json(t) # None)
<1>1. n \in Nat /\ i \in DOMAIN TxsOf(n) /\ TxsOf(n)[i] = h BY MinedPlace
<1>2. n # None BY <1>1, LedgerAssumption
<1>3. GetBlockReceipts(n) = [j \in DOMAIN mined |-> tx_receipt_json(mined[j])]
  BY <1>2 DEF GetBlockReceipts
<1>4. i \in DOMAIN mined /\ mined[i] = h BY <1>1 DEF RestrictValues, Restrict
<1> HIDE DEF mined, n
<1> QED BY <1>3, <1>4 DEF Range, n

(* eth_getLogs of its block returns its logs. *)
LEMMA LogsOfReceipt ==
    ASSUME ChainInv, NEW h \in Raw, txs[h] # None, txs[h].block # None
    PROVE  Range(Logs(h)) \subseteq Range(AllLogs(txs[h].block .. txs[h].block))
<1> DEFINE n == txs[h].block
           i == txs[h].index
<1>1. n \in Nat /\ n \in n .. n /\ i \in DOMAIN TxsOf(n) /\ TxsOf(n)[i] = h /\ HasReceipt(h)
  BY MinedPlace DEF HasReceipt
<1>2. DOMAIN Logs(h) = DOMAIN LogsOf[h] BY DEF Logs
<1> HIDE DEF n, i
<1>3. ASSUME NEW k \in DOMAIN LogsOf[h] PROVE Logs(h)[k] \in Range(AllLogs(n .. n))
  <2>1. <<n, i, k>> \in LogPlaces(n .. n) BY <1>1 DEF LogPlaces
  <2>2. LogAt(<<n, i, k>>) = Logs(h)[k] BY <1>1 DEF LogAt
  <2> QED BY <2>1, <2>2 DEF AllLogs, Range
<1> QED BY <1>2, <1>3 DEF Range, n

(* No two logs of a block have the same index. *)
LEMMA LogsOfBlockDiffer ==
    ASSUME ChainInv, NEW n \in Nat, NEW a \in Range(AllLogs(n .. n)), NEW b \in Range(AllLogs(n .. n)),
           a.block_number = n, b.block_number = n, a.log_index = b.log_index
    PROVE  a = b
<1>1. PICK g \in Raw : \E k \in DOMAIN LogsOf[g] : txs[g] # None /\ a = Logs(g)[k] BY LogOfBlock
<1>2. PICK k \in DOMAIN LogsOf[g] : txs[g] # None /\ a = Logs(g)[k] BY <1>1
<1>3. PICK h \in Raw : \E l \in DOMAIN LogsOf[h] : txs[h] # None /\ b = Logs(h)[l] BY LogOfBlock
<1>4. PICK l \in DOMAIN LogsOf[h] : txs[h] # None /\ b = Logs(h)[l] BY <1>3
<1>5. a.block_number = txs[g].block /\ b.block_number = txs[h].block BY Zenon, <1>2, <1>4 DEF Logs
<1>6. txs[g].block = n /\ txs[h].block = n /\ n # None BY <1>5, LedgerAssumption
<1>7. g = h /\ k = l BY <1>2, <1>4, <1>6, LogIndexOnce
<1> QED BY <1>2, <1>4, <1>7

(* All of these together: the chain calls lead from a receipt to its block. *)
LEMMA ReceiptsLead ==
    ASSUME ChainInv, MinedKnown
    PROVE  ReceiptLeadsToItsBlock
<1>1. ASSUME NEW h \in Hash, tx_receipt_json(h) # None
      PROVE  LET r     == tx_receipt_json(h)
                 block == GetBlockByHash(r.block_hash, TRUE)
                 there == GetLogs([Everything EXCEPT !.block_hash = r.block_hash])
             IN  /\ block = GetBlockByNumber(Numbered(r.block_number), TRUE)
                 /\ block.number = r.block_number
                 /\ GetBlockTransactionCount(block.number) = Cardinality(DOMAIN block.transactions)
                 /\ r.transaction_index \in DOMAIN block.transactions
                 /\ block.transactions[r.transaction_index] = tx_to_json(h)
                 /\ r \in Range(GetBlockReceipts(block.number))
                 /\ Range(r.logs) \subseteq Range(there)
                 /\ LET own == {log \in Range(there) : log.block_number = block.number}
                    IN  \A a, b \in own : a.log_index = b.log_index => a = b
                 /\ Range(there) \subseteq Range(GetLogs(Everything))
                 /\ GetLogs([Everything EXCEPT !.from_block = Named("latest"), !.to_block = Named("earliest")])
                      = GetLogs(Everything)
  <2> DEFINE r     == tx_receipt_json(h)
             block == GetBlockByHash(r.block_hash, TRUE)
             there == GetLogs([Everything EXCEPT !.block_hash = r.block_hash])
             n     == txs[h].block
             i     == txs[h].index
  <2>1. h \in Raw /\ txs[h] # None /\ n # None BY <1>1 DEF tx_receipt_json, HasReceipt
  <2>2. /\ n \in 0 .. MaxHeight /\ n \in Nat /\ n <= current_height
        /\ TxsOf(n) \in Seq(Hash) /\ i \in DOMAIN TxsOf(n) /\ TxsOf(n)[i] = h
        /\ r = [hash |-> h, block_number |-> n, block_hash |-> block_hash(n),
                transaction_index |-> i, logs |-> Logs(h)]
    BY <2>1, MinedPlace
  <2>3. r \in Range(GetBlockReceipts(n)) BY <1>1, <2>1, ReceiptOfBlock
  <2>4. Range(Logs(h)) \subseteq Range(AllLogs(n .. n)) BY <2>1, LogsOfReceipt
  <2> HIDE DEF r, n, i
  <2>5. r.block_number = n /\ r.block_hash = block_hash(n) /\ r.transaction_index = i /\ r.logs = Logs(h)
    BY <2>2
  <2>6. /\ block = build_block_response(n, TRUE)
        /\ GetBlockByNumber(Numbered(n), TRUE) = build_block_response(n, TRUE)
    <3>1. block_number_from_hash(block_hash(n)) = n /\ block_by_tag(Numbered(n)) = n /\ n # None
      BY <2>2, TagsResolve
    <3>2. current_height \in Nat BY LedgerAssumption DEF ChainInv, LedgerTypeOK
    <3>3. ~ (n > current_height) BY <2>2, <3>2
    <3> QED BY Zenon, <2>5, <3>1, <3>3 DEF GetBlockByHash, GetBlockByNumber
  <2>7. /\ there = AllLogs(n .. n) /\ GetLogs(Everything) = AllLogs(0 .. current_height)
        /\ GetLogs([Everything EXCEPT !.from_block = Named("latest"), !.to_block = Named("earliest")])
             = AllLogs(0 .. current_height)
    BY <2>2, <2>5, FiltersOfAReceipt
  <2>8. /\ block.number = n /\ DOMAIN block.transactions = DOMAIN TxsOf(n)
        /\ block.transactions[i] = tx_to_json(h)
    BY Zenon, <2>2, <2>6, FullBlock
  <2> HIDE DEF block, there
  <2>9. GetBlockTransactionCount(n) = Cardinality(DOMAIN TxsOf(n))
    <3>1. Len(TxsOf(n)) \in Nat /\ DOMAIN TxsOf(n) = 1 .. Len(TxsOf(n)) /\ Len(TxsOf(n)) >= 1
      BY <2>2
    <3>2. 1 \in Int /\ Len(TxsOf(n)) \in Int BY <3>1
    <3>3. Cardinality(1 .. Len(TxsOf(n))) = Len(TxsOf(n)) BY <3>1, <3>2, FS_Interval
    <3>4. n # None BY <2>2, LedgerAssumption
    <3> QED BY <3>1, <3>3, <3>4 DEF GetBlockTransactionCount
  <2>10. \A a, b \in {log \in Range(there) : log.block_number = block.number} :
           a.log_index = b.log_index => a = b
    BY <2>2, <2>7, <2>8, LogsOfBlockDiffer
  <2>11. Range(there) \subseteq Range(GetLogs(Everything))
    <3>1. n .. n \subseteq 0 .. current_height BY <2>2, LedgerAssumption DEF ChainInv, LedgerTypeOK
    <3> QED BY Zenon, <2>7, <3>1, MoreBlocksMoreLogs
  <2>12. /\ block = GetBlockByNumber(Numbered(r.block_number), TRUE)
         /\ block.number = r.block_number
         /\ GetBlockTransactionCount(block.number) = Cardinality(DOMAIN block.transactions)
         /\ r.transaction_index \in DOMAIN block.transactions
         /\ block.transactions[r.transaction_index] = tx_to_json(h)
         /\ r \in Range(GetBlockReceipts(block.number))
         /\ Range(r.logs) \subseteq Range(there)
    BY Zenon, <2>2, <2>3, <2>4, <2>5, <2>6, <2>7, <2>8, <2>9
  <2> QED BY Zenon, <2>7, <2>10, <2>11, <2>12 DEF r, block, there
<1>2. StatusWindow.start = 0 => StatusWindow.known <= StatusWindow.txs + StatusWindow.pending
  BY StatusCountsKnown
<1> QED BY Zenon, <1>1, <1>2 DEF ReceiptLeadsToItsBlock

-----------------------------------------------------------------------------
(* From the receipt of any transaction a client finds the block, the       *)
(* transaction and the logs again, whatever the node did before: mining,   *)
(* repeated submissions, market calls, failed calls and balance changes.   *)
THEOREM ReceiptLeadsToItsBlockHolds == Spec => []ReceiptLeadsToItsBlock
<1>1. Init => MarketInv BY MarketInitially
<1>2. Init => MinedKnown BY DEF Init, LedgerInit, MinedKnown
<1>3. MarketInv /\ [Next]_vars => MarketInv' BY MarketStep
<1>4. MarketInv /\ MinedKnown /\ [Next]_vars => MinedKnown' BY MinedStep
<1>5. MarketInv /\ MinedKnown => ReceiptLeadsToItsBlock BY ReceiptsLead DEF MarketInv
<1> QED BY <1>1, <1>2, <1>3, <1>4, <1>5, PTL DEF Spec
=================================================================================
