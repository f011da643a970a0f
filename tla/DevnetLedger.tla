------------------------------ MODULE DevnetLedger ------------------------------
(***************************************************************************)
(* The chain side of eth2077-devnetd.rs: the EVM accounts, the sender hint *)
(* that eth_getTransactionCount leaves for eth_sendRawTransaction, the     *)
(* pending transactions and the blocks the tick thread makes of them.      *)
(* Requests and ticks hold the state mutex, so each is one step.           *)
(*                                                                         *)
(* A raw transaction is its nonce, recipient and value; it carries no      *)
(* usable signature, and its hash is itself.  The EVM (revm) is external:  *)
(* a transfer succeeds when the nonce is the account's and the balance     *)
(* covers value and fee; the fee goes to the zero address, which is left   *)
(* out.  An account that is not in the database reads as nonce and balance *)
(* zero.                                                                   *)
(***************************************************************************)
EXTENDS Integers, Sequences, FiniteSets

CONSTANTS
    Address, Raw,
    Hash,           \* the hashes of txs: Raw and those of other requests
    Fee,
    Amount,         \* the balances eth2077_setBalance sets
    CallValue,      \* the values eth_call and eth_estimateGas try to send
    MaxHeight,      \* bound on the number of blocks
    MaxPending,     \* bound on the transactions waiting for a tick
    None

ASSUME RawAreHashes == Raw \subseteq Hash

TxRecord == [from : Address, block : (1..MaxHeight) \cup {None}, index : Nat \cup {None}]

ASSUME LedgerAssumption ==
    /\ Raw \subseteq [nonce : Nat, to : Address, value : Nat]
    /\ Fee \in Nat /\ Amount \subseteq Nat /\ MaxHeight \in Nat
    /\ None \notin Address /\ None \notin Nat /\ None \notin TxRecord

VARIABLES
    evm_db,                         \* address -> [nonce, balance]
    pending_nonce_address_hint,
    pending_txs,
    txs,                            \* hash -> None or [from, block, index], also the receipt's
    block_txs,                      \* height -> the transactions of the block
    current_height

ledgerVars == <<evm_db, pending_nonce_address_hint, pending_txs, txs, block_txs,
                current_height>>

NoAccount == [nonce |-> 0, balance |-> 0]
EmptyDb   == [a \in Address |-> NoAccount]

LedgerInit ==
    /\ evm_db = EmptyDb
    /\ pending_nonce_address_hint = None
    /\ pending_txs = <<>>
    /\ txs = [h \in Hash |-> None]
    /\ block_txs = [n \in 0..MaxHeight |-> <<>>]
    /\ current_height = 0

-----------------------------------------------------------------------------
(* revm's validation and transfer. *)
Executable(a, raw) ==
    /\ raw.nonce = evm_db[a].nonce
    /\ raw.value + Fee <= evm_db[a].balance

Executed(a, raw) ==
    LET paid == [evm_db EXCEPT ![a].nonce = @ + 1, ![a].balance = @ - raw.value - Fee]
    IN  [paid EXCEPT ![raw.to].balance = @ + raw.value]

(* eth_getTransactionCount also names the sender of the next transaction. *)
GetTransactionCount(a) ==
    /\ pending_nonce_address_hint' = a
    /\ UNCHANGED <<evm_db, pending_txs, txs, block_txs, current_height>>

(* execute_evm_transaction takes the database out of the state and puts it *)
(* back only on success.                                                   *)
LoseDatabase == evm_db' = EmptyDb

RecordOf(a) == [from |-> a, block |-> None, index |-> None]

SendRejected(raw) ==
    /\ pending_nonce_address_hint # None
    /\ ~ Executable(pending_nonce_address_hint, raw)
    /\ LoseDatabase
    /\ UNCHANGED <<pending_nonce_address_hint, pending_txs, txs, block_txs, current_height>>

SendAccepted(raw) ==
    LET a == pending_nonce_address_hint IN
    /\ a # None
    /\ Len(pending_txs) < MaxPending
    /\ Executable(a, raw)
    /\ evm_db' = Executed(a, raw)
    /\ pending_nonce_address_hint' = None
    /\ pending_txs' = Append(pending_txs, raw)
    /\ txs' = [txs EXCEPT ![raw] = RecordOf(a)]
    /\ UNCHANGED <<block_txs, current_height>>

SendRawTransaction(raw) == SendRejected(raw) \/ SendAccepted(raw)

(* eth_call and eth_estimateGas run without committing, so one that        *)
(* succeeds changes nothing; one that cannot pay its value fails.          *)
CallFails(a, value) ==
    /\ value > evm_db[a].balance
    /\ LoseDatabase
    /\ UNCHANGED <<pending_nonce_address_hint, pending_txs, txs, block_txs, current_height>>

SetBalance(a, wei) ==
    /\ evm_db' = [evm_db EXCEPT ![a].balance = wei]
    /\ UNCHANGED <<pending_nonce_address_hint, pending_txs, txs, block_txs, current_height>>

-----------------------------------------------------------------------------
LastIndex(q, x) == CHOOSE i \in DOMAIN q : q[i] = x /\ \A j \in DOMAIN q : q[j] = x => j <= i

MinedAtParent(n) ==    \* mutant: the receipts name the height before the tick
    [r \in Hash |->
        IF \E i \in DOMAIN pending_txs : pending_txs[i] = r
          THEN [txs[r] EXCEPT !.block = n - 1, !.index = LastIndex(pending_txs, r)]
          ELSE txs[r]]

MinedFirst(n) ==    \* mutant: only the first pending transaction gets its block
    [r \in Hash |->
        IF pending_txs # <<>> /\ pending_txs[1] = r
          THEN [txs[r] EXCEPT !.block = n, !.index = 1]
          ELSE txs[r]]

MinedIn(n) ==
    [r \in Hash |->
        IF \E i \in DOMAIN pending_txs : pending_txs[i] = r
          THEN [txs[r] EXCEPT !.block = n, !.index = LastIndex(pending_txs, r)]
          ELSE txs[r]]

BlockAdded == [block_txs EXCEPT ![current_height + 1] = pending_txs]

(* One turn of the tick thread.  A transaction listed twice in the block   *)
(* keeps the later of its indexes (counted from 1 here).                   *)
Tick ==
    /\ current_height < MaxHeight
    /\ current_height' = current_height + 1
    /\ block_txs' = BlockAdded
    /\ txs' = MinedIn(current_height + 1)
    /\ pending_txs' = <<>>
    /\ UNCHANGED <<evm_db, pending_nonce_address_hint>>

-----------------------------------------------------------------------------
LedgerNext ==
    \/ \E a \in Address : GetTransactionCount(a)
    \/ \E raw \in Raw : SendRejected(raw)
    \/ \E raw \in Raw : SendAccepted(raw)
    \/ \E a \in Address, value \in CallValue : CallFails(a, value)
    \/ \E a \in Address, wei \in Amount : SetBalance(a, wei)
    \/ Tick

LedgerSpec == LedgerInit /\ [][LedgerNext]_ledgerVars

-----------------------------------------------------------------------------
(* Type correctness of the chain part of NodeState. *)
LedgerTypeOK ==
    /\ evm_db \in [Address -> [nonce : Nat, balance : Nat]]
    /\ pending_nonce_address_hint \in Address \cup {None}
    /\ pending_txs \in Seq(Hash)
    /\ txs \in [Hash -> TxRecord \cup {None}]
    /\ block_txs \in [0..MaxHeight -> Seq(Hash)]
    /\ current_height \in 0..MaxHeight

In(x, q) == \E i \in DOMAIN q : q[i] = x

(* A transaction the node has acknowledged is never lost: it waits in      *)
(* pending_txs until a tick, or the block its receipt names lists it at    *)
(* the index its receipt names.  It holds for repeated submissions too.    *)
AcknowledgedIsPendingOrMined ==
    \A r \in Hash : txs[r] # None =>
        IF txs[r].block = None
          THEN In(r, pending_txs)
          ELSE /\ ~ In(r, pending_txs)
               /\ txs[r].block <= current_height
               /\ txs[r].index \in DOMAIN block_txs[txs[r].block]
               /\ block_txs[txs[r].block][txs[r].index] = r

-----------------------------------------------------------------------------
(* What the repository's documents say.                                    *)

(* "real EVM execution for contract deployment/calls and transaction       *)
(* processing": a rejected transaction or a failed call changes no account. *)
RejectionKeepsAccounts ==
    [][(\E raw \in Raw : SendRejected(raw)) \/ (\E a \in Address, v \in CallValue : CallFails(a, v))
        => evm_db' = evm_db]_ledgerVars
===============================================================================
