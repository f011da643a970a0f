----------------------------- MODULE ChainQueries -----------------------------
(***************************************************************************)
(* The read-only chain calls of eth2077-devnetd.rs over the state of       *)
(* DevnetMarket: blocks, transactions, receipts and logs, by number, by    *)
(* hash and by tag.                                                        *)
(*                                                                         *)
(* A block hash is the number its first eight bytes hold, the rest being   *)
(* zero.  A block tag is [tag, number]; a tag or hash that cannot be       *)
(* parsed is None.  Only transactions that the EVM ran have a receipt;     *)
(* LogsOf gives the logs revm returned for them.  A list from which a call *)
(* leaves some entries out is a function on the places that remain.        *)
(***************************************************************************)
EXTENDS DevnetMarket, FiniteSetsExt, Functions

CONSTANTS
    LogsOf,                 \* raw transaction -> its logs [address, topics]
    window_size_blocks      \* 60 in the code

BlockTag == [tag : {"latest", "pending", "finalized", "earliest", "number"}, number : Nat]

ASSUME QueryAssumption ==
    /\ \A raw \in Raw : Len(LogsOf[raw]) \in Nat /\ DOMAIN LogsOf[raw] = 1 .. Len(LogsOf[raw])
    /\ window_size_blocks \in Nat \ {0}
    /\ None \notin BlockTag

block_hash(height) == height + 1

NumberVerbatim(hash) ==    \* mutant: the + 1 of block_hash is not undone
    IF hash = None \/ hash = 0 THEN None ELSE hash

block_number_from_hash(hash) == IF hash = None \/ hash = 0 THEN None ELSE hash - 1

FinalizedHeight == IF current_height < 2 THEN 0 ELSE current_height - 2

block_by_tag(t) ==
    CASE t = None                            -> None
      [] t.tag \in {"latest", "pending"}     -> current_height
      [] t.tag = "finalized"                 -> FinalizedHeight
      [] t.tag = "earliest"                  -> 0
      [] t.tag = "number"                    -> t.number

Named(tag) == [tag |-> tag, number |-> 0]
Numbered(n) == [tag |-> "number", number |-> n]

-----------------------------------------------------------------------------
TxsOf(n) == IF n \in 0..MaxHeight THEN block_txs[n] ELSE <<>>

tx_to_json(h) ==
    [hash |-> h, from |-> txs[h].from, block_number |-> txs[h].block,
     block_hash |-> IF txs[h].block = None THEN None ELSE block_hash(txs[h].block),
     transaction_index |-> txs[h].index]

build_block_response(n, full_txs) ==
    [number |-> n, hash |-> block_hash(n), parent_hash |-> IF n = 0 THEN 0 ELSE block_hash(n - 1),
     transactions |-> IF full_txs
                        THEN LET known == RestrictValues(TxsOf(n), LAMBDA h : txs[h] # None)
                             IN  [i \in DOMAIN known |-> tx_to_json(known[i])]
                        ELSE TxsOf(n)]

GetBlockByNumber(t, full_txs) ==
    IF block_by_tag(t) = None THEN None ELSE build_block_response(block_by_tag(t), full_txs)

GetBlockByHash(hash, full_txs) ==
    LET n == block_number_from_hash(hash)
    IN  IF n = None \/ (n # None /\ n > current_height) THEN None ELSE build_block_response(n, full_txs)

GetBlockTransactionCount(n) == IF n = None THEN 0 ELSE Len(TxsOf(n))

(* The tick numbers the logs of a block through. *)
LogCounts(n) == [i \in DOMAIN TxsOf(n) |-> IF TxsOf(n)[i] \in Raw THEN Len(LogsOf[TxsOf(n)[i]]) ELSE 0]

LogsBefore(counts, i) == MapThenSumSet(LAMBDA j : counts[j], 1 .. i - 1)

FirstLogIndex(h) == LogsBefore(LogCounts(txs[h].block), txs[h].index)

Logs(h) ==
    [k \in DOMAIN LogsOf[h] |->
        [address |-> LogsOf[h][k].address, topics |-> LogsOf[h][k].topics,
         block_number |-> txs[h].block, transaction_hash |-> h,
         log_index |-> IF txs[h].block = None THEN None ELSE FirstLogIndex(h) + k - 1]]

HasReceipt(h) == h \in Raw /\ txs[h] # None

tx_receipt_json(h) ==
    IF ~ HasReceipt(h) \/ (HasReceipt(h) /\ txs[h].block = None) THEN None
    ELSE [hash |-> h, block_number |-> txs[h].block, block_hash |-> block_hash(txs[h].block),
          transaction_index |-> txs[h].index, logs |-> Logs(h)]

GetBlockReceipts(n) ==
    IF n = None THEN <<>>
    ELSE LET mined == RestrictValues(TxsOf(n), LAMBDA h : tx_receipt_json(h) # None)
         IN  [i \in DOMAIN mined |-> tx_receipt_json(mined[i])]

-----------------------------------------------------------------------------
(* A topic filter is a set of topics, empty for any. *)
Matches(log, f) ==
    /\ f.any_address \/ log.address \in f.address
    /\ \A i \in DOMAIN f.topics : f.topics[i] # {} => i \in DOMAIN log.topics /\ log.topics[i] \in f.topics[i]

(* The k-th log of the i-th transaction of block n is at <<n, i, k>>; an    *)
(* answer lists them in this order.                                        *)
LogPlaces(blocks) ==
    UNION {UNION {{<<n, i, k>> : k \in DOMAIN LogsOf[TxsOf(n)[i]]} :
                  i \in {i \in DOMAIN TxsOf(n) : HasReceipt(TxsOf(n)[i])}} : n \in blocks}

LogAt(p) == Logs(TxsOf(p[1])[p[2]])[p[3]]

(* eth_getLogs: a readable block hash beats the range, whose ends may come *)
(* in either order.                                                        *)
GetLogs(f) ==
    LET from  == IF block_by_tag(f.from_block) = None THEN 0 ELSE block_by_tag(f.from_block)
        to    == IF block_by_tag(f.to_block) = None THEN current_height ELSE block_by_tag(f.to_block)
        n     == block_number_from_hash(f.block_hash)
        range == IF n # None THEN n .. n ELSE Min({from, to}) .. Max({from, to})
    IN  IF f.malformed THEN None
        ELSE [p \in {p \in LogPlaces(range) : Matches(LogAt(p), f)} |-> LogAt(p)]

Everything == [from_block |-> Named("earliest"), to_block |-> Named("latest"), block_hash |-> None,
               any_address |-> TRUE, address |-> {}, topics |-> <<>>, malformed |-> FALSE]

(* eth2077_status_json *)
TxCounts == [n \in 0 .. MaxHeight |-> Len(TxsOf(n))]

SumOver(counts, blocks) == MapThenSumSet(LAMBDA n : counts[n], blocks)

StatusWindow ==
    LET start  == IF current_height + 1 < window_size_blocks THEN 0
                  ELSE current_height + 1 - window_size_blocks
        blocks == start .. current_height
    IN  [start |-> start, block_count |-> Cardinality(blocks), txs |-> SumOver(TxCounts, blocks),
         non_empty |-> Cardinality({n \in blocks : TxCounts[n] > 0}),
         pending |-> Len(pending_txs), known |-> Cardinality({h \in Hash : txs[h] # None}),
         finality_lag |-> current_height - FinalizedHeight]

-----------------------------------------------------------------------------
(* From the receipt of a transaction a client finds the transaction again: *)
(* the block its hash names is the block its number names and lists the    *)
(* transaction at the receipt's index, and eth_getLogs of that block, of   *)
(* the chain and of a range given backwards return the receipt's logs,     *)
(* whose indexes no other transaction of the block uses; and no known      *)
(* transaction is missing from the status figures.                         *)
ReceiptLeadsToItsBlock ==
    /\ \A h \in Hash : tx_receipt_json(h) # None =>
         LET r     == tx_receipt_json(h)
             block == GetBlockByHash(r.block_hash, TRUE)
             there == GetLogs([Everything EXCEPT !.block_hash = r.block_hash])
         IN  /\ block = GetBlockByNumber(Numbered(r.block_number), TRUE)
             /\ block.number = r.block_number
             /\ GetBlockTransactionCount(block.number) = Cardinality(DOMAIN block.transactions)
             /\ r.transaction_index \in DOMAIN block.transactions
             /\ block.transactions[r.transaction_index] = tx_to_json(h)
             /\ r \in Range(GetBlockReceipts(block.number))
             /\ Range(r.logs) \subseteq Range(there)
             /\ LET own == {log \in Range(there) : log.block_number = block.number}
                IN  \A a, b \in own : a.log_index = b.log_index => a = b
             /\ Range(there) \subseteq Range(GetLogs(Everything))
             /\ GetLogs([Everything EXCEPT !.from_block = Named("latest"), !.to_block = Named("earliest")])
                  = GetLogs(Everything)
    /\ StatusWindow.start = 0 => StatusWindow.known <= StatusWindow.txs + StatusWindow.pending
===============================================================================
