---------------------------- MODULE BlockPipeline ----------------------------
(***************************************************************************)
(* Execution of blocks (eth2077-execution): the in-memory state, the       *)
(* executor over revm, the block builder and the block validator.          *)
(*                                                                         *)
(* A root is what it hashes: a state root the account map, a transactions  *)
(* root the sequence of hashes, a receipts root the sequence of receipts.  *)
(* revm itself is external: it checks nonce and balance, and a transaction *)
(* names what its code does ("op"); gas used is one unit and is burnt.     *)
(***************************************************************************)
EXTENDS Integers, SequencesExt

(* A state: accounts and storage are partial maps, block hashes are left out. *)
EmptyAccount == [balance |-> 0, nonce |-> 0, code |-> "none"]

get_account(st, a) == IF a \in DOMAIN st.accounts THEN st.accounts[a] ELSE EmptyAccount

Put(f, k, v) == [x \in DOMAIN f \cup {k} |-> IF x = k THEN v ELSE f[x]]
Drop(f, k)   == [x \in DOMAIN f \ {k} |-> f[x]]

insert_account(st, a, info) == [st EXCEPT !.accounts = Put(@, a, info)]

set_storage(st, a, slot, v) ==
    LET slots == IF a \in DOMAIN st.storage THEN st.storage[a] ELSE <<>>
    IN  [st EXCEPT !.storage = Put(@, a, Put(slots, slot, v))]

clear_storage(st, a) == [st EXCEPT !.storage = Drop(@, a)]

RemoveKeepsStorage(st, a) ==    \* mutant: the slots of a removed account stay
    [st EXCEPT !.accounts = Drop(@, a)]

remove_account(st, a) == [st EXCEPT !.accounts = Drop(@, a), !.storage = Drop(@, a)]

create_genesis_block(allocs) ==
    [accounts |-> [a \in DOMAIN allocs |-> [EmptyAccount EXCEPT !.balance = allocs[a]]],
     storage  |-> <<>>]

-----------------------------------------------------------------------------
(* revm: the outcome of a transaction and the accounts it touched. *)
Touched(a, info) ==
    [address |-> a, info |-> info, destroyed |-> FALSE, created |-> FALSE, slots |-> <<>>]

transact(st, tx) ==
    LET from == get_account(st, tx.from)
        to   == get_account(st, tx.to)
        moves == tx.op # "revert"
        payer == Touched(tx.from, [from EXCEPT !.nonce = @ + 1,
                     !.balance = @ - tx.price - (IF moves THEN tx.value ELSE 0)])
        payee == Touched(tx.to, [to EXCEPT !.balance = @ + tx.value])
    IN  IF from.nonce # tx.nonce \/ from.balance < tx.gas_limit * tx.max_fee + tx.value
          THEN [kind |-> "Error"]
        ELSE [kind |-> IF tx.op = "halt" THEN "Halt"
                       ELSE IF tx.op = "revert" THEN "Revert" ELSE "Success",
              gas  |-> 1,
              logs |-> IF tx.op = "store" THEN <<tx.to>> ELSE <<>>,
              state |->
                <<payer>> \o
                CASE tx.op = "store"   -> <<[payee EXCEPT !.slots = Put(<<>>, 1, tx.value)]>>
                  [] tx.op = "create"  -> <<[payee EXCEPT !.created = TRUE,
                                                          !.info.code = "code"]>>
                  [] tx.op = "destroy" -> <<[payee EXCEPT !.destroyed = TRUE]>>
                  [] tx.op = "transfer" -> <<payee>>
                  [] OTHER             -> <<>>]

-----------------------------------------------------------------------------
(* BlockExecutor *)

apply_account_change(st, c) ==
    LET kept    == insert_account(st, c.address, c.info)
        cleared == IF c.created THEN clear_storage(kept, c.address) ELSE kept
    IN  IF c.destroyed THEN remove_account(st, c.address)
        ELSE FoldLeft(LAMBDA s, slot : set_storage(s, c.address, slot, c.slots[slot]),
                      cleared, SetToSeq(DOMAIN c.slots))

apply_state_changes(st, changes) == FoldLeft(apply_account_change, st, changes)

(* The receipt's "cumulative" gas is the gas of this transaction alone. *)
Commit(st, tx, r) ==
    IF r.kind \in {"Error", "Halt"} THEN [ok |-> FALSE, err |-> "EvmError"]
    ELSE [ok |-> TRUE, st |-> apply_state_changes(st, r.state),
          receipt |-> [tx_hash |-> tx, status |-> r.kind = "Success",
                       cumulative_gas_used |-> r.gas, logs |-> r.logs]]

execute_tx(st, tx) ==
    IF tx.price > tx.max_fee \/ tx.gas_limit = 0 THEN [ok |-> FALSE, err |-> "InvalidTransaction"]
    ELSE Commit(st, tx, transact(st, tx))

(* The loop both the builder and the validator run: the first transaction  *)
(* that fails ends it, and its error and index are all that is kept.       *)
Start(st) == [ok |-> TRUE, st |-> st, receipts |-> <<>>, gas |-> 0, bloom |-> {}]

Record(run, r) ==
    IF ~ r.ok THEN [ok |-> FALSE, index |-> Len(run.receipts), err |-> r.err]
    ELSE [run EXCEPT !.st = r.st, !.receipts = Append(@, r.receipt),
                     !.gas = @ + r.receipt.cumulative_gas_used,
                     !.bloom = @ \cup ToSet(r.receipt.logs)]

Execute(run, tx) == IF run.ok THEN Record(run, execute_tx(run.st, tx)) ELSE run

ExecuteAll(st, txs) == FoldLeft(Execute, Start(st), txs)

compute_state_root(st)           == st.accounts
compute_transactions_root(txs)   == txs
compute_receipts_root(receipts)  == receipts

GasOfLast(run) ==    \* mutant: cumulative_gas_used is taken to be cumulative
    IF run.receipts = <<>> THEN 0 ELSE Last(run.receipts).cumulative_gas_used

GasUsed(run) == run.gas

Seal(parent, txs, run) ==
    IF ~ run.ok THEN run ELSE
    [ok |-> TRUE, st |-> run.st, receipts |-> run.receipts,
     block |-> [transactions |-> txs,
                header |-> [number            |-> parent.number + 1,
                            state_root        |-> compute_state_root(run.st),
                            transactions_root |-> compute_transactions_root(txs),
                            receipts_root     |-> compute_receipts_root(run.receipts),
                            gas_used          |-> GasUsed(run),
                            logs_bloom        |-> run.bloom]]]

build_block(parent, txs, st) == Seal(parent, txs, ExecuteAll(st, txs))

(* validate_block: the header's number and parent are not looked at. *)
Compare(h, txs, run) ==
    IF ~ run.ok THEN "TransactionExecutionFailed"
    ELSE IF compute_state_root(run.st) # h.state_root THEN "StateRootMismatch"
    ELSE IF compute_transactions_root(txs) # h.transactions_root THEN "TransactionsRootMismatch"
    ELSE IF compute_receipts_root(run.receipts) # h.receipts_root THEN "ReceiptsRootMismatch"
    ELSE IF run.gas # h.gas_used THEN "GasUsedMismatch"
    ELSE IF run.bloom # h.logs_bloom THEN "LogsBloomMismatch"
    ELSE "Ok"

validate_block(block, pre) ==
    Compare(block.header, block.transactions, ExecuteAll(pre, block.transactions))

-----------------------------------------------------------------------------
(* The header with one of the five checked fields wrong. *)
Wrong(h, field) ==
    CASE field = "state_root"        -> [h EXCEPT !.state_root = Put(@, 0, EmptyAccount)]
      [] field = "transactions_root" -> [h EXCEPT !.transactions_root = @ \o @ \o <<1>>]
      [] field = "receipts_root"     -> [h EXCEPT !.receipts_root = @ \o @ \o <<1>>]
      [] field = "gas_used"          -> [h EXCEPT !.gas_used = @ + 1]
      [] field = "logs_bloom"        -> [h EXCEPT !.logs_bloom = @ \cup {0}]

Fields == {"state_root", "transactions_root", "receipts_root", "gas_used", "logs_bloom"}

(* The validator accepts what the builder built from the same state, and   *)
(* nothing with another root, gas total or bloom; when the builder gives   *)
(* up, the transactions before the one it names would have made a block.   *)
BuilderAndValidatorAgree(pre, txs) ==
    LET built == build_block([number |-> 0], txs, pre)
    IN  IF built.ok
          THEN /\ validate_block(built.block, pre) = "Ok"
               /\ \A f \in Fields :
                     validate_block([built.block EXCEPT !.header = Wrong(@, f)], pre) # "Ok"
          ELSE build_block([number |-> 0], SubSeq(txs, 1, built.index), pre).ok

(* No slot outlives its account: destroyed and recreated accounts keep no  *)
(* storage from before.                                                    *)
StorageHasAnOwner(pre, txs) ==
    LET built == build_block([number |-> 0], txs, pre)
    IN  built.ok => DOMAIN built.st.storage \subseteq DOMAIN built.st.accounts
=============================================================================
