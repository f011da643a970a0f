------------------------------ MODULE DevnetMarket ------------------------------
(***************************************************************************)
(* The demonstration market of eth2077-devnetd.rs beside the chain state:  *)
(* eth2077_marketMint, marketBuy, marketTransfer and marketRelist.  A mint *)
(* writes a transaction record of its own and queues it for the next       *)
(* block; a buy or a transfer may name a transaction the node knows, sent  *)
(* by the buyer or the owner.  Names, descriptions, images and times are   *)
(* left out, and a receipt is its token.                                   *)
(***************************************************************************)
EXTENDS DevnetLedger

CONSTANTS
    Merchant,       \* owner of the seeded tokens
    Price,
    Seeds,          \* number of seeded tokens
    MaxToken        \* bound on the token ids

Token == 1..MaxToken
Nft   == [owner : Address, listed : BOOLEAN, price : Price]

(* The pseudo transaction hash of a mint names its token. *)
MintHash(t) == [mint |-> t]

SeedPrice == CHOOSE p \in Price : TRUE

ASSUME MarketAssumption ==
    /\ Merchant \in Address /\ Price # {}
    /\ Seeds \in Nat /\ MaxToken \in Nat /\ Seeds <= MaxToken
    /\ \A t \in (Seeds + 1)..MaxToken : MintHash(t) \in Hash
    /\ None \notin Nft

VARIABLES
    market_nfts,            \* token -> None or [owner, listed, price]
    next_market_token_id,
    market_receipts,        \* tx hash -> None or the token it bought
    offers                  \* history: token -> the last listing [by, price]

marketVars == <<market_nfts, next_market_token_id, market_receipts, offers>>
vars == <<ledgerVars, marketVars>>

Init ==
    /\ LedgerInit
    /\ market_nfts = [t \in Token |-> IF t <= Seeds
                                        THEN [owner |-> Merchant, listed |-> TRUE, price |-> SeedPrice]
                                        ELSE None]
    /\ next_market_token_id = Seeds + 1
    /\ market_receipts = [h \in Hash |-> None]
    /\ offers = [t \in Token |-> IF t <= Seeds THEN [by |-> Merchant, price |-> SeedPrice] ELSE None]

-----------------------------------------------------------------------------
Mint(owner, price) ==
    LET t == next_market_token_id IN
    /\ t <= MaxToken
    /\ Len(pending_txs) < MaxPending
    /\ next_market_token_id' = t + 1
    /\ pending_txs' = Append(pending_txs, MintHash(t))
    /\ txs' = [txs EXCEPT ![MintHash(t)] = RecordOf(owner)]
    /\ market_nfts' = [market_nfts EXCEPT ![t] = [owner |-> owner, listed |-> TRUE, price |-> price]]
    /\ offers' = [offers EXCEPT ![t] = [by |-> owner, price |-> price]]
    /\ UNCHANGED <<evm_db, pending_nonce_address_hint, block_txs, current_height, market_receipts>>

(* An optional transaction hash must be known and sent by the caller. *)
Vouches(hash, caller) == hash # None => txs[hash] # None /\ txs[hash].from = caller

(* Without a hash the receipt gets a fresh pseudo hash and stays out of    *)
(* the model.                                                              *)
Buy(t, buyer, hash) ==
    LET nft == market_nfts[t] IN
    /\ Vouches(hash, buyer)
    /\ nft # None
    /\ nft.listed
    /\ nft.owner # buyer
    /\ market_nfts' = [market_nfts EXCEPT ![t].owner = buyer, ![t].listed = FALSE]
    /\ market_receipts' =
          IF hash = None THEN market_receipts
          ELSE [market_receipts EXCEPT ![hash] = t]
    /\ UNCHANGED <<ledgerVars, next_market_token_id, offers>>

TransferListed(nft, to) == [nft EXCEPT !.owner = to]    \* mutant: the listing survives a transfer

Transferred(nft, to) == [nft EXCEPT !.owner = to, !.listed = FALSE]

Transfer(t, from, to, hash) ==
    LET nft == market_nfts[t] IN
    /\ Vouches(hash, from)
    /\ nft # None
    /\ nft.owner = from
    /\ market_nfts' = [market_nfts EXCEPT ![t] = Transferred(nft, to)]
    /\ UNCHANGED <<ledgerVars, next_market_token_id, market_receipts, offers>>

Relist(t, owner, price) ==
    LET nft == market_nfts[t] IN
    /\ nft # None
    /\ nft.owner = owner
    /\ market_nfts' = [market_nfts EXCEPT ![t].listed = TRUE, ![t].price = price]
    /\ offers' = [offers EXCEPT ![t] = [by |-> owner, price |-> price]]
    /\ UNCHANGED <<ledgerVars, next_market_token_id, market_receipts>>

-----------------------------------------------------------------------------
Next ==
    \/ LedgerNext /\ UNCHANGED marketVars
    \/ \E a \in Address, p \in Price : Mint(a, p)
    \/ \E t \in Token, a \in Address, h \in Hash \cup {None} : Buy(t, a, h)
    \/ \E t \in Token, a, b \in Address, h \in Hash \cup {None} : Transfer(t, a, b, h)
    \/ \E t \in Token, a \in Address, p \in Price : Relist(t, a, p)

Spec == Init /\ [][Next]_vars

-----------------------------------------------------------------------------
(* Type correctness of the chain and market parts of NodeState: tokens are *)
(* numbered without a gap below the next id.                               *)
TypeOK ==
    /\ LedgerTypeOK
    /\ next_market_token_id \in 1..(MaxToken + 1)
    /\ next_market_token_id > Seeds
    /\ market_nfts \in [Token -> Nft \cup {None}]
    /\ \A t \in Token : market_nfts[t] # None <=> t < next_market_token_id
    /\ market_receipts \in [Hash -> Token \cup {None}]
    /\ offers \in [Token -> [by : Address, price : Price] \cup {None}]

(* A token is for sale only on the terms its present owner set by minting  *)
(* or relisting it, so nobody's token is sold on the terms of a former     *)
(* owner, whatever sales and transfers it went through.                    *)
ListedOnOwnersTerms ==
    \A t \in Token : market_nfts[t] # None /\ market_nfts[t].listed =>
        offers[t] = [by |-> market_nfts[t].owner, price |-> market_nfts[t].price]
===============================================================================
