------------------------------ MODULE BenchReport ------------------------------
(***************************************************************************)
(* What the live benchmark does around its threads (LiveBench models       *)
(* them): arguments, derived senders and their endpoints, and the report.  *)
(*                                                                         *)
(* An address is a sequence of LENGTH digits of base BASE (20 bytes), of   *)
(* which the last WIDTH (8) take the digits of a u64.  A send is [hash,    *)
(* sender, endpoint, at] in the order they were answered; times are        *)
(* integers, percentiles are in hundredths and rates are left out.         *)
(***************************************************************************)
EXTENDS Integers, SequencesExt, Functions

CONSTANTS BASE, LENGTH, WIDTH

Failed  == [failed |-> TRUE]
Missing == -1

DigitOf(n, i) == (n \div BASE ^ (i - 1)) % BASE

(* Digit i from the right of an address, with what is carried into it. *)
Added(acc, i, add) ==
    LET at  == LENGTH + 1 - i
        sum == acc.addr[at] + add + acc.carry
    IN  [addr |-> [acc.addr EXCEPT ![at] = sum % BASE], carry |-> sum \div BASE]

CarryLost(base, n) ==    \* mutant: nothing is carried past the digits of the u64
    FoldLeft(LAMBDA acc, i : Added(acc, i, DigitOf(n, i)), [addr |-> base, carry |-> 0],
             [i \in 1 .. WIDTH |-> i]).addr

add_u64_to_address(base, n) ==
    FoldLeft(LAMBDA acc, i : Added(acc, i, IF i <= WIDTH THEN DigitOf(n, i) ELSE 0),
             [addr |-> base, carry |-> 0], [i \in 1 .. LENGTH |-> i]).addr

derive_senders(base, count) == [i \in 1 .. Max({count, 1}) |-> add_u64_to_address(base, i - 1)]

-----------------------------------------------------------------------------
Counts  == {"--sender-count", "--workers"}
Numbers == {"--tx-count", "--gas-limit", "--value-wei", "--poll-ms", "--deadline-seconds"}

(* An argument is a flag and its value, if it has one: a list of urls, or  *)
(* a number, Missing when it is none.  Addresses and output files are left *)
(* out.                                                                    *)
parse_csv_list(urls) == SelectSeq(urls, LAMBDA u : u # "")

default_args == [f \in Counts \cup Numbers |-> IF f \in Counts THEN 1 ELSE 0] @@ [urls |-> <<"local">>]

Parsed(args, pair) ==
    IF args = Failed \/ Len(pair) < 2 THEN Failed
    ELSE LET flag  == pair[1]
             value == pair[2]
         IN  CASE flag = "--rpc-url"  -> [args EXCEPT !.urls = value]
               [] flag = "--rpc-urls" -> IF parse_csv_list(value) = <<>> THEN Failed
                                         ELSE [args EXCEPT !.urls = parse_csv_list(value)]
               [] flag \in Counts     -> IF value = Missing THEN Failed ELSE [args EXCEPT ![flag] = Max({value, 1})]
               [] flag \in Numbers    -> IF value = Missing THEN Failed ELSE [args EXCEPT ![flag] = value]
               [] OTHER               -> Failed

parse_args(pairs) == FoldLeft(Parsed, default_args, pairs)

(* Everyone of the first senders has one worker. *)
worker_count(args, senders) == Min({Max({args["--workers"], 1}), Max({Len(senders), 1})})

SenderOf(worker, senders) == ((worker - 1) % Len(senders)) + 1
EndpointOf(sender, urls)  == ((sender - 1) % Len(urls)) + 1
FundedAt(i, urls)         == ((i - 1) % Len(urls)) + 1

-----------------------------------------------------------------------------
Ordered(values) == SortSeq(values, <)

(* The index is rounded, a half upwards. *)
percentile(values, q) ==
    IF values = <<>> THEN 0 ELSE Ordered(values)[((Len(values) - 1) * q * 2 + 100) \div 200 + 1]

avg(values) == IF values = <<>> THEN 0 ELSE FoldLeft(LAMBDA a, b : a + b, 0, values) \div Len(values)

(* rpc_call: an answer counts when the status is good, the body is JSON,   *)
(* no error is in it and a result is.                                      *)
rpc_call(reply) ==
    IF reply.success /\ reply.json /\ ~ reply.error THEN reply.result ELSE Missing

Of(sends, field, v) == Cardinality({i \in DOMAIN sends : sends[i][field] = v})

(* The last send of a hash is the one the map keeps. *)
SubmitTime(sends, h) == sends[Max({i \in DOMAIN sends : sends[i].hash = h})].at

(* confirm_at_s gives the time of the receipt for the hashes it has;       *)
(* blocks are the replies to eth_getBlockByNumber, whose results are       *)
(* numbers of transactions.                                                *)
Report(args, senders, sends, confirm_at_s, start_block, end_block, blocks) ==
    LET submitted == {sends[i].hash : i \in DOMAIN sends}
        confirmed == SetToSeq(submitted \cap DOMAIN confirm_at_s)
        latencies == [i \in DOMAIN confirmed |-> confirm_at_s[confirmed[i]] - SubmitTime(sends, confirmed[i])]
        first     == IF submitted = {} THEN 0 ELSE Min({SubmitTime(sends, h) : h \in submitted})
        last      == IF DOMAIN confirm_at_s = {} THEN first ELSE Max({confirm_at_s[h] : h \in DOMAIN confirm_at_s})
        answered  == SelectSeq(SubSeq(blocks, start_block + 1, end_block), LAMBDA b : rpc_call(b) # Missing)
        chain_txs == FoldLeft(LAMBDA sum, b : sum + rpc_call(b), 0, answered)
    IN  [tx_submitted |-> Cardinality(submitted), tx_confirmed |-> Len(latencies),
         confirm_window |-> Max({last - first, 0}), latencies |-> latencies,
         p50 |-> percentile(latencies, 50), p95 |-> percentile(latencies, 95), p99 |-> percentile(latencies, 99),
         avg |-> avg(latencies), blocks_spanned |-> Max({end_block - start_block, 0}),
         chain_txs |-> chain_txs,
         sender_counts |-> [s \in ToSet(senders) |-> Of(sends, "sender", s)],
         endpoint_counts |-> [e \in ToSet(args.urls) |-> Of(sends, "endpoint", e)],
         pending_note |-> Len(latencies) < Cardinality(submitted),
         lanes_note |-> Len(args.urls) > 1 /\ chain_txs < Len(latencies)]

-----------------------------------------------------------------------------
SumOf(f) == FoldFunction(+, 0, f)

ValueOf(addr) == FoldLeft(LAMBDA v, d : v * BASE + d, 0, addr)

(* Sender i is the base address plus i, through every carry, so no two of  *)
(* them are the same account (main.rs:122,144).                            *)
SendersAreConsecutive(base, count) ==
    \A i \in 1 .. Max({count, 1}) :
        ValueOf(derive_senders(base, count)[i]) = (ValueOf(base) + i - 1) % BASE ^ LENGTH

(* Whatever the arguments, no two workers send for one account, each has   *)
(* an endpoint, and it is where its account was funded (main.rs:431,469,   *)
(* 525).                                                                   *)
WorkersHaveFundedSenders(pairs, base) ==
    LET args    == parse_args(pairs)
        senders == derive_senders(base, args["--sender-count"])
        Worker  == 1 .. worker_count(args, senders)
    IN  args # Failed =>
          /\ args.urls # <<>> /\ Worker # {}
          /\ \A v, w \in Worker : SenderOf(v, senders) = SenderOf(w, senders) => v = w
          /\ \A w \in Worker : LET s == SenderOf(w, senders)
                              IN  s \in DOMAIN senders /\ EndpointOf(s, args.urls) = FundedAt(s, args.urls)

(* The figures of a report fit together: no more is confirmed than was     *)
(* submitted, the counts by sender and by endpoint are of the same sends,  *)
(* no latency exceeds the window, percentiles are ordered latencies, and   *)
(* what is missing is noted (main.rs:699).                                 *)
ReportAddsUp(args, senders, sends, confirm_at_s, start_block, end_block, blocks) ==
    LET r == Report(args, senders, sends, confirm_at_s, start_block, end_block, blocks)
    IN  /\ r.tx_confirmed <= r.tx_submitted
        /\ r.tx_submitted <= SumOf(r.sender_counts)
        /\ SumOf(r.sender_counts) = SumOf(r.endpoint_counts)
        /\ r.pending_note = (r.tx_confirmed # r.tx_submitted)
        /\ \A i \in DOMAIN r.latencies : r.latencies[i] <= r.confirm_window
        /\ r.latencies # <<>> =>
             /\ {r.p50, r.p95, r.p99} \subseteq ToSet(r.latencies)
             /\ r.p50 <= r.p95 /\ r.p95 <= r.p99
             /\ Min(ToSet(r.latencies)) <= r.avg /\ r.avg <= Max(ToSet(r.latencies))
===============================================================================
