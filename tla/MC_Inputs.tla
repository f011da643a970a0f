------------------------------ MODULE MC_Inputs -----------------------------
(***************************************************************************)
(* Inputs of pure functions as a state machine: `input` is what one call   *)
(* is given; it starts as the name of a family and takes on one of the     *)
(* family's inputs.                                                        *)
(***************************************************************************)
EXTENDS Integers, SequencesExt, TLC

VARIABLE input

Seqs(S, n) == UNION {[1 .. k -> S] : k \in 0 .. n}

Ready(kind) == input = [kind |-> kind, given |-> FALSE]
Is(kind)    == input.kind = kind /\ input.given
Give(in)    == input' = [given |-> TRUE] @@ in

-----------------------------------------------------------------------------
(***************************************************************************)
(* Inputs of the pure functions of eth2077-execution and of the bridge's   *)
(* payload converter.                                                      *)
(***************************************************************************)
Pipeline == INSTANCE BlockPipeline
Exec     == INSTANCE ExecutionRules

-----------------------------------------------------------------------------
(* Blocks: accounts 1 and 2, one with a slot; transactions that transfer,  *)
(* store, create, destroy, revert and halt, some with a wrong nonce, too   *)
(* little balance, no gas or a priority fee above the fee cap.             *)
Genesis  == Pipeline!create_genesis_block((1 :> 6) @@ (2 :> 2))
PreState == {Genesis, Pipeline!set_storage(Genesis, 2, 1, 7)}

Tx(from, op, nonce, price, gas) ==
    [from |-> from, to |-> 3 - from, op |-> op, nonce |-> nonce, value |-> 1,
     price |-> price, max_fee |-> 1, gas_limit |-> gas]

Ops == {"transfer", "store", "create", "destroy", "revert", "halt"}
Txs == {Tx(f, op, n, 1, 1) : f \in {1, 2}, op \in Ops, n \in {0, 1}}
         \cup {Tx(1, "transfer", 0, 2, 1), Tx(1, "transfer", 0, 1, 0)}

GiveBlock ==
    /\ Ready("block")
    /\ \E p \in PreState, t \in Seqs(Txs, 2) \cup [1 .. 3 -> {Tx(1, op, n, 1, 1)
                                   : op \in Ops \ {"halt"}, n \in {0, 1, 2}}] :
           Give([kind |-> "block", pre |-> p, txs |-> t])

(* Access lists over two accounts and two keys. *)
Accounts == {Exec!AccessedAccount(a, k, p)
               : a \in {1, 2}, k \in {<<>>, <<1>>, <<2, 1>>, <<1, 1>>}, p \in {0, 1}}
Slots    == {[address |-> a, key |-> k, pre |-> 0, post |-> p]
               : a \in {1, 2}, k \in {1, 2}, p \in {0, 1}}
Lists    == {[number |-> 1, accounts |-> acc, storage |-> s]
               : acc \in Seqs({a \in Accounts : a.keys # <<1, 1>> /\ a.post = 1}, 2),
                 s \in Seqs({s \in Slots : s.post = 1}, 2)}
SmallLists == {l \in Lists : Len(l.accounts) <= 1 /\ Len(l.storage) <= 1}
                \cup {[number |-> 2, accounts |-> <<a>>, storage |-> <<>>] : a \in Accounts}

GiveAccessLists ==
    /\ Ready("lists")
    /\ \/ \E a, b \in SmallLists, c \in {l \in SmallLists : l.number = 2} :
              Give([kind |-> "lists", lists |-> <<a, b, c>>])
       \/ \E a \in Lists : Give([kind |-> "lists", lists |-> <<a>>])

(* Two lists with the same or different contents in different orders. *)
GiveListPair ==
    /\ Ready("list_pair")
    /\ \E a \in {l \in Lists : Len(l.accounts) = 2 /\ Len(l.storage) = 2} :
           \/ Give([kind |-> "list_pair", a |-> a,
                    b |-> [a EXCEPT !.accounts = Reverse(@), !.storage = Reverse(@)]])
           \/ Give([kind |-> "list_pair", a |-> a, b |-> [a EXCEPT !.storage = Front(@)]])
           \/ Give([kind |-> "list_pair", a |-> a, b |-> [a EXCEPT !.accounts[1].keys = <<2>>]])

(* Lanes with room for two transactions and three units of gas. *)
Assignments == {Exec!LaneAssignment(tx, lane, keys, conf, gas)
                  : tx \in {1, 2}, lane \in {"Transfer", "DeFi"}, keys \in {<<>>, <<1>>, <<2, 1>>},
                    conf \in {{}, {2}}, gas \in {1, 2}}
                 \cup {Exec!LaneAssignment(0, "DeFi", <<>>, {}, 1),
                       Exec!LaneAssignment(1, "DeFi", <<0>>, {}, 1)}

GiveLanes ==
    /\ Ready("lanes")
    /\ \E as \in Seqs(Assignments, 2)
                   \cup [1 .. 3 -> {a \in Assignments : a.gas_estimate = 1 /\ a.conflict_set = {}}],
          detect \in BOOLEAN, workers \in {0, 2} :
           Give([kind |-> "lanes", as |-> as,
                 config |-> [max_txs_per_lane |-> 2, max_total_gas_per_lane |-> 3,
                             enable_conflict_detection |-> detect, parallel_lanes |-> workers]])

(* Calldata around the length of a selector and the limit of a light call. *)
GiveClassified ==
    /\ Ready("classify")
    /\ \E to \in {"system", "defi", "token", "other"}, len \in {0, 3, 4, 1024, 1025},
          selector \in {"token", "defi", "other"}, value \in {0, 1}, type \in {2, 3} :
           Give([kind |-> "classify", to |-> to, len |-> len, selector |-> selector, value |-> value,
                 tx_type |-> type])

GiveGasSchedule ==
    /\ Ready("gas")
    /\ \/ \E rules \in Seqs({Exec!Rule(o, "Call", x, y) : o \in {1, 2}, x, y \in 0 .. 2}, 2) :
              \E block \in {0, 2} :
                  Give([kind |-> "gas", schedule |-> [activation_block |-> block, rules |-> rules]])
       \/ Give([kind |-> "gas", schedule |-> Exec!glamsterdam_default_schedule])

GiveCustody ==
    /\ Ready("custody")
    /\ \E groups \in {0, 1, 3, 8, 128, 130}, hash \in {0, 5, 129} :
           Give([kind |-> "custody", groups |-> groups, hash |-> hash])

GiveBlobRequest ==
    /\ Ready("request")
    /\ \E cells \in Seqs({0, 1, 3, 127, 128}, 2), group \in 0 .. 2, groups \in 0 .. 3 :
           Give([kind |-> "request", requested_cells |-> cells,
                 custody_assignment |-> [custody_group |-> group, total_groups |-> groups]])

Blob(i, size, kzg) == [index |-> i, size |-> size, kzg |-> kzg]

GiveBundle ==
    /\ Ready("bundle")
    /\ \/ \E bs \in Seqs({Blob(i, s, 1) : i \in {0, 1}, s \in {1, Exec!BLOB_SIZE}}, 2),
             hs \in Seqs({<<v, k>> : v \in {0, 1}, k \in {1, 2}}, 2) :
              Give([kind |-> "bundle", blobs |-> bs, versioned_hashes |-> hs])
       \/ \E n \in {6, 7} :
              Give([kind |-> "bundle",
                    blobs |-> [i \in 1 .. n |-> Blob(i - 1, Exec!BLOB_SIZE, i)],
                    versioned_hashes |-> [i \in 1 .. n |-> <<1, i>>]])

(* Two-byte words in base 3, an order of 5 and a half of 2. *)
Words == [1 .. 2 -> 0 .. 2]

GiveAuthorizations ==
    /\ Ready("auth")
    /\ \/ \E as \in Seqs({[chain_id |-> c, address |-> a, y_parity |-> y, r |-> <<0, 1>>, s |-> <<0, 1>>]
                            : c \in {0, 7, 8}, a \in 0 .. 2, y \in {0, 1, 2}}, 2) :
              Give([kind |-> "auth", as |-> as])
       \/ \E r, s \in Words :
              Give([kind |-> "auth",
                    as |-> <<[chain_id |-> 0, address |-> 1, y_parity |-> 0, r |-> r, s |-> s]>>])

GiveStateAccess ==
    /\ Ready("access")
    /\ \E block \in 0 .. 4, type \in {"StorageSlot", "CodeHash"}, slot \in BOOLEAN,
          proof \in {0, 31, 32, 64}, current \in {0, 3}, lookback \in 0 .. 4, limit \in {31, 32, 64} :
           Give([kind |-> "access", current |-> current, lookback |-> lookback, limit |-> limit,
                 request |-> [block_number |-> block, access_type |-> type, slot |-> slot,
                              proof |-> proof]])

GiveExecute ==
    /\ Ready("execute")
    /\ \E txs \in 0 .. 3, root \in {0, 1}, block \in 0 .. 5, f \in 0 .. 3, gas \in {21000, 63000} :
           Give([kind |-> "execute",
                 in |-> [transactions |-> txs, pre_state_root |-> root,
                         anchor |-> [l1_block_number |-> block, l1_state_root |-> 1]],
                 config |-> [anchor_frequency |-> f, max_gas_per_execution |-> gas]])

GiveConversion ==
    /\ Ready("convert")
    /\ \E text \in Seqs({-1, 0, 1, 15}, 5), q \in {0, 15, 16, 511},
          txs \in {<<>>, <<<<>>, <<255, 16>>>>} :
           Give([kind |-> "convert", text |-> text,
                 block |-> [word |-> <<q % 256, 7>>, quantity |-> q, transactions |-> txs]])

-----------------------------------------------------------------------------
ExecutionFamilies == {"block", "lists", "list_pair", "lanes", "classify", "gas", "custody", "request", "bundle",
                      "auth", "access", "execute", "convert"}

GiveExecutionInput ==
    \/ GiveBlock \/ GiveAccessLists \/ GiveListPair \/ GiveLanes \/ GiveClassified \/ GiveGasSchedule
    \/ GiveCustody \/ GiveBlobRequest \/ GiveBundle \/ GiveAuthorizations
    \/ GiveStateAccess \/ GiveExecute \/ GiveConversion

-----------------------------------------------------------------------------
(***************************************************************************)
(* Inputs of the client side of devnetd: raw transactions, their texts,    *)
(* HTTP requests in pieces and JSON-RPC batches.                           *)
(***************************************************************************)
CONSTANT Refused    \* a model value: what a reader answers when it reads nothing

(* Digits of two values, bytes of four; u64 and u128 of one and two bytes. *)
Wire == INSTANCE WireFormats WITH
            NIBBLE <- 2, U64 <- 1, U128 <- 2, ADDRESS <- 2, WORD <- 3,
            Bound <- 13, Served <- {"newPayload"}, Read <- {"status"}
Bench == INSTANCE BenchReport WITH BASE <- 3, LENGTH <- 4, WIDTH <- 2

-----------------------------------------------------------------------------
(* A transaction of every type, the signature behind it, with two fields   *)
(* replaced by items of any other length or kind.                          *)
Bytes(n) == Wire!Data([i \in 1 .. n |-> i % 4])
Auth(address, parity) == Wire!List(<<Bytes(1), address, Bytes(0), parity, Bytes(3), Bytes(2)>>)

Items == {Bytes(n) : n \in 0 .. 3}
           \cup {Wire!Data(<<0, 2>>), Wire!List(<<>>), Wire!List(<<Bytes(3), Bytes(3)>>), Wire!List(<<Bytes(2)>>)}
           \cup {Wire!List(<<Auth(a, p)>>) : a \in {Bytes(2), Bytes(0)}, p \in {Bytes(0), Bytes(1), Wire!Data(<<2>>)}}

Plain(type) ==
    LET dynamic == <<Bytes(1), Bytes(0), Bytes(1), Bytes(2), Bytes(1), Bytes(2), Bytes(3), Bytes(1)>>
        legacy  == <<Bytes(0), Bytes(2), Bytes(1), Bytes(2), Bytes(3), Bytes(1)>>
    IN  CASE type = 0 -> legacy \o <<Bytes(1)>>
          [] type = 1 -> <<Bytes(1)>> \o legacy \o <<Wire!List(<<>>), Bytes(1)>>
          [] type = 3 -> dynamic \o <<Wire!List(<<>>), Bytes(2), Wire!List(<<Bytes(3)>>), Bytes(1)>>
          [] type = 4 -> dynamic \o <<Wire!List(<<>>), Wire!List(<<Auth(Bytes(2), Bytes(1))>>), Bytes(1)>>
          [] OTHER    -> dynamic \o <<Wire!List(<<>>), Bytes(1)>>

GiveRaw ==
    /\ Ready("raw")
    /\ \/ \E type \in 0 .. 5 : \E i, j \in DOMAIN Plain(type) : \E x, y \in Items :
              /\ i <= j
              /\ Give([kind |-> "raw",
                       raw |-> [type |-> type, rlp |-> Wire!List([Plain(type) EXCEPT ![i] = x, ![j] = y])]])
       \/ \E chain, nonce, gas \in 0 .. 3, value, tip, fee \in {0, 1, 3} :
              Give([kind |-> "build", chain_id |-> chain, nonce |-> nonce, to |-> <<1, 2>>, value |-> value,
                    gas_limit |-> gas, max_priority |-> tip, max_fee |-> fee])

(* Texts of up to six digits, padded or prefixed twice. *)
Spellings == {Wire!Text(pad, prefixes, digits, upper)
                : pad \in 0 .. 1, prefixes \in 0 .. 2, upper \in BOOLEAN,
                  digits \in Seqs({0, 1}, 3) \cup [1 .. 4 -> {0, 1}] \cup {<<-1>>, <<0, 0, 0, -1>>,
                                <<0, 0, 0, 1, 1>>, <<0, 0, 1, 1, 0, 1>>, <<1, 0, 0, 0, 0, 1>>}}

GiveText ==
    /\ Ready("text")
    /\ \E a \in Spellings, b \in {s \in Spellings : Len(s.digits) = 4 /\ s.pad = 0 /\ s.upper} :
          Give([kind |-> "text", a |-> a, b |-> b])

(* Heads with and without a length, bodies that hold line ends, more       *)
(* behind them, every way to cut them; and every batch of three.           *)
Line(s) == <<s, 0>>
Heads == {<<Line("POST")>> \o end \o lines
            : end \in {<<Wire!CR, Wire!LF>>},
              lines \in {<<>>, <<<<"length", 0>>>>, <<<<"length", 2>>>>, <<<<"length", 3>>>>,
                        <<<<"length", -1>>, Wire!CR, Wire!LF, <<"length", 2>>>>,
                        <<Line("host"), Wire!CR, Wire!LF, <<"length", 2>>>>}}

GiveHttp ==
    /\ Ready("http")
    /\ \/ \E head \in Heads, n \in 0 .. 3,
            rest \in {<<>>, <<Wire!CR, Wire!LF>>} \cup [1 .. 3 -> {Line("a"), Wire!CR}] :
              \E cuts \in UNION {kSubset(k, 1 .. Len(head) + 3 + Len(rest)) : k \in 0 .. 3} :
                  /\ Wire!ContentLength(head) = n \/ (n = 0 /\ Wire!ContentLength(head) < 0)
                  /\ Give([kind |-> "http", head |-> head, n |-> n, rest |-> rest, cuts |-> cuts])
       \/ \E batch \in Seqs({[object |-> o, id |-> i, method |-> m, params |-> 1]
                                 : o \in BOOLEAN, i \in {-1, 1}, m \in {"newPayload", "unknown"}}, 3) :
              Give([kind |-> "batch", batch |-> batch])

(* Every base address and up to five senders, arguments of two flags, and  *)
(* up to three sends of two hashes with or without their receipts.         *)
Flags == {<<"--workers", n>> : n \in {-1, 0, 1, 5}} \cup {<<"--sender-count", n>> : n \in {-1, 0, 3}}
           \cup {<<"--rpc-url", <<"u">>>>, <<"--rpc-urls", <<"", "u", "v">>>>, <<"--rpc-urls", <<"">>>>,
                 <<"--tx-count", 2>>, <<"--tx-count">>, <<"--other", 1>>}

Sends(n) == [1 .. n -> {[hash |-> h, sender |-> s, endpoint |-> e]
                          : h \in {"h1", "h2"}, s \in {"s1", "s2"}, e \in {"u", "v"}}]
Replies == {[success |-> s, json |-> TRUE, error |-> ~ s, result |-> r] : s \in BOOLEAN, r \in {-1, 2}}

GiveBench ==
    /\ Ready("bench")
    /\ \/ \E base \in [1 .. 4 -> 0 .. 2], count \in {0, 2, 4, 9} :
              Give([kind |-> "senders", base |-> base, count |-> count])
       \/ \E pairs \in Seqs(Flags, 3) : Give([kind |-> "args", pairs |-> pairs])
       \/ \E n \in 0 .. 3, seen \in SUBSET {"h1", "h2"}, from \in 0 .. 1, to \in 0 .. 2, blocks \in [1 .. 2 -> Replies] :
              \E sends \in Sends(n), at \in [seen -> {3, 5}] :
                  /\ n >= 2 => blocks[1] = blocks[2] /\ from = 0
                  /\ n = 3 => to = 2
                  /\ Give([kind |-> "report", sends |-> [i \in 1 .. n |-> [at |-> i] @@ sends[i]], at |-> at,
                           from |-> from, to |-> to, blocks |-> blocks])

-----------------------------------------------------------------------------
ClientFamilies == {"raw", "text", "http", "bench"}

GiveClientInput == GiveRaw \/ GiveText \/ GiveHttp \/ GiveBench

(* What clients send is what the node reads (eth2077-devnetd.rs:576,4130,  *)
(* 3882).                                                                  *)
ClientsUnderstood ==
    /\ Is("build") => Wire!NodeReadsBenchmark(input)
    /\ Is("raw")   => Wire!TruncationIsRefused(input.raw)
    /\ Is("text")  => /\ Wire!SpellingsAgree(input.a, input.b)
                      /\ Wire!ReadersAgree(input.a)
    /\ Is("http")  => Wire!BodyAsSent(input.head, input.n, input.rest, input.cuts)
    /\ Is("batch") => /\ Wire!BatchIsSequence(input.batch)
                      /\ \A i \in DOMAIN input.batch : Wire!TransportsAgree(input.batch[i])

(* Senders and figures of the benchmark (live-bench main.rs:144,699).      *)
BenchFigures ==
    /\ Is("senders") => Bench!SendersAreConsecutive(input.base, input.count)
    /\ Is("args")    => Bench!WorkersHaveFundedSenders(input.pairs, <<0, 0, 0, 0>>)
    /\ Is("report")  => Bench!ReportAddsUp([urls |-> <<"u", "v">>], <<"s1", "s2">>, input.sends, input.at,
                                           input.from, input.to, input.blocks)

-----------------------------------------------------------------------------
(***************************************************************************)
(* Inputs of the configuration modules of eth2077-types.                   *)
(***************************************************************************)
Gate  == INSTANCE ReleaseGates
Plan  == INSTANCE ProjectPlans
Rules == INSTANCE ProtocolRules
Setup == INSTANCE NetworkSetup

-----------------------------------------------------------------------------
(* Debts of two modules, padded ids among them, against policies of every  *)
(* mode with small budgets.                                                *)
Debts == {Gate!PlaceholderDebt(<<id, pad>>, m, tier, tier)
            : id \in {1, 2}, pad \in {0, 1}, m \in {"a", "b"}, tier \in {1, 2, 3}}

Policy(mode, t1, t2, total, strict, exempt) ==
    [mode |-> mode, max_tier1_debt |-> t1, max_tier2_debt |-> t2, max_total_debt |-> total,
     strict_on_release_branch |-> strict, exemption_list |-> exempt, metadata |-> {}]

Exemptions == {<<>>, <<<<1, 0>>>>, <<<<1, 1>>>>, <<<<2, 0>>, <<1, 0>>>>, <<<<1, 0>>, <<1, 1>>>>,
               <<<<0, 1>>>>}

GiveFormalGate ==
    /\ Ready("formal")
    /\ \/ \E debts \in Seqs(Debts, 2) :
             \E mode \in Gate!GateMode, b \in {<<0, 0, 0>>, <<0, 1, 1>>, <<1, 0, 1>>, <<1, 1, 0>>},
                strict \in BOOLEAN, ex \in {<<>>, <<<<1, 1>>>>} :
                 Give([kind |-> "formal", debts |-> debts,
                       c |-> Policy(mode, b[1], b[2], b[3], strict, ex),
                       d |-> Policy(mode, b[1], b[2], b[3], strict, ex)])
       \/ \E debts \in Seqs({d \in Debts : d.module_path = "a" /\ d.tier < 3}, 2), e, f \in Exemptions :
              Give([kind |-> "formal", debts |-> debts,
                    c |-> Policy("Blocking", 0, 1, 1, TRUE, e),
                    d |-> Policy("Blocking", 0, 1, 1, TRUE, f)])
       \/ \E n \in 0 .. 3, m \in 0 .. 7, mode \in Gate!GateMode :
              Give([kind |-> "formal", c |-> Gate!default_ci_formal_gate_config,
                    d |-> [Gate!default_ci_formal_gate_config EXCEPT !.mode = mode],
                    debts |-> [i \in 1 .. n + m |->
                                 Gate!PlaceholderDebt(<<i, 0>>, "a", IF i <= n THEN 2 ELSE 3, 1)]])

(* Checklists of up to two items in two categories, signed by two people   *)
(* or nobody, and of up to three gates; and checklists around the default  *)
(* policy, with an item of every category.                                 *)
LaunchItems == {Gate!ChecklistItem(c, s, who, r, 1)
            : c \in {"Security", "Testing"}, s \in Gate!SignoffStatus,
              who \in {<<1, 0>>, <<1, 1>>, <<2, 0>>, <<0, 1>>}, r \in {"Critical", "Low"}}
Gates == {Gate!GateDecision(v, 1, <<>>) : v \in Gate!GateVerdict}

Checklist(items, gates, final) ==
    [items |-> items, gates |-> gates, final_verdict |-> final, text |-> 1]

LaunchPolicy(go, cond, categories, signers, auto) ==
    [required_go_gates |-> go, max_conditional_gates |-> cond, required_categories |-> categories,
     min_signoff_count |-> signers, max_critical_risks_open |-> 0, review_cadence_hours |-> 24,
     auto_nogo_on_security_fail |-> auto]

LaunchPolicies == {LaunchPolicy(1, 1, <<"Security", "Testing">>, 2, TRUE),
                   LaunchPolicy(1, 0, <<"Testing">>, 1, FALSE),
                   LaunchPolicy(1, 2, <<"Testing">>, 1, FALSE),
                   LaunchPolicy(1, 1, <<"Testing">>, 1, TRUE)}

GiveLaunchGate ==
    /\ Ready("launch")
    /\ \/ \E items \in Seqs(LaunchItems, 2), p \in LaunchPolicies :
              LET l == Checklist(items, <<Gate!GateDecision("Go", 1, <<>>)>>, "none")
              IN  Give([kind |-> "launch", l |-> l, m |-> l, c |-> p])
       \/ \E gates \in Seqs(Gates, 3), p \in LaunchPolicies, f \in Gate!GateVerdict \cup {"none"} :
              LET l == Checklist(<<Gate!ChecklistItem("Security", "Approved", <<1, 0>>, "Low", 1),
                                   Gate!ChecklistItem("Testing", "Approved", <<2, 0>>, "Low", 1)>>,
                                 gates, f)
              IN  Give([kind |-> "launch", l |-> l, m |-> [l EXCEPT !.items = Reverse(@)], c |-> p])
       \/ \E go \in 4 .. 6, cond \in 0 .. 3, people \in 2 .. 4, late \in Gate!ChecklistCategory,
            s \in Gate!SignoffStatus, r \in Gate!RiskLevel :
              LET categories == Append(Gate!DefaultGateConfig.required_categories, "Governance")
                  l == Checklist([i \in DOMAIN categories |->
                                    Gate!ChecklistItem(categories[i],
                                                       IF categories[i] = late THEN s ELSE "Approved",
                                                       <<(i % people) + 1, 0>>, r, 1)],
                                 [i \in 1 .. go + cond |->
                                    Gate!GateDecision(IF i <= go THEN "Go" ELSE "ConditionalGo", 1, <<>>)], "none")
              IN  Give([kind |-> "launch", l |-> l, m |-> [l EXCEPT !.gates = Reverse(@)],
                        c |-> Gate!DefaultGateConfig])

(* Two priced dimensions and a third one without parameters; base fees    *)
(* around the eighth where a step rounds to 0.                            *)
FeeParams == {<<Rules!DimensionParams(1, f, 2, 4), Rules!DimensionParams(2, g, 1, 3)>>
                : f \in {0, 1, 7, 9, 16}, g \in {0, 3, 8}}
Uses == {<<d, n>> : d \in 1 .. 3, n \in {0, 1, 3, 4}}

GiveFees ==
    /\ Ready("fees")
    /\ \E params \in FeeParams, usage \in Seqs(Uses, 2), max \in {0, 20, 100}, tip \in {0, 1, 7} :
          Give([kind |-> "fees", params |-> params,
                tx |-> [resource_usage |-> usage, max_fee |-> max, priority_fee |-> tip]])

(* Announcements of two senders, doubled hashes and nonces among them. *)
Notices == {Rules!Announcement(h, 2, 1, s, n) : h \in 1 .. 2, s \in 1 .. 2, n \in 0 .. 2}
             \cup {Rules!Announcement(3, 4, 1, 1, 1), Rules!Announcement(3, 2, 0, 1, 3)}

GiveAnnouncements ==
    /\ Ready("announcements")
    /\ \E batch \in Seqs(Notices, 3), k \in 0 .. 1 : \E cut \in 0 .. Len(batch) :
          Give([kind |-> "announcements", batch |-> batch,
                batches |-> <<SubSeq(batch, 1, cut), SubSeq(batch, cut + 1, Len(batch))>>,
                known |-> <<k, 1>>])

(* Frames in any order of any phases, at the gas limit and past it. *)
GiveFrames ==
    /\ Ready("frames")
    /\ \E phases \in Seqs(0 .. 4, 4), gas \in {0, 1, 10000000, 15000000}, sig \in {<<>>, <<1>>} :
          LET frames == [i \in DOMAIN phases |->
                           Rules!Frame(phases[i], i, i, IF i = 1 THEN gas ELSE 10000000, 3)]
          IN  Give([kind |-> "frames", base_fee |-> 2,
                    tx |-> [frames |-> frames, signature |-> sig]])

(* Up to four proofs, of one block or another, with equal or other roots. *)
ProofRecords == {[prover_client |-> c, block_hash |-> h, state_root_after |-> r, proof_data |-> n]
                   : c \in Rules!ClientImplementation, h \in {1, 2}, r \in {1, 2}, n \in {0, 1}}

GiveProofs ==
    /\ Ready("proofs")
    /\ \E proofs \in Seqs(ProofRecords, 2)
                 \cup Seqs({p \in ProofRecords : p.proof_data = 1 /\ p.block_hash = 1}, 4) :
          Give([kind |-> "proofs", a |-> [block_hash |-> 1, proofs |-> proofs],
                c |-> Rules!default_proof_config])

(* Headers and reveals around the deadline, lists around every limit. *)
SlotHeaders   == {[slot |-> s, root |-> r] : s \in {1, 2}, r \in {1, 2}}
SlotEnvelopes == {[slot |-> s, root |-> r, data_available |-> b, revealed_at |-> t]
                    : s \in {1, 2}, r \in {1, 2}, b \in BOOLEAN, t \in 2 .. 4}
ListEntries   == {Rules!Entry(1, h, g, f, d) : h \in 1 .. 2, g \in {1, 3}, f \in {1, 2}, d \in 2 .. 3}

GiveSlotRules ==
    /\ Ready("slots")
    /\ \/ \E h \in SlotHeaders \cup {Rules!NoneGiven}, e \in SlotEnvelopes \cup {Rules!NoneGiven},
             d \in 1 .. 5 :
              Give([kind |-> "slots", h |-> h, e |-> e, deadline |-> d, list |-> <<>>])
       \/ \E list \in Seqs(ListEntries, 3), slot \in 1 .. 4 :
              Give([kind |-> "slots", h |-> Rules!NoneGiven, e |-> Rules!NoneGiven,
                    deadline |-> slot, list |-> list])

(* Payloads of up to five bytes of two bits under a hash of two bytes; and *)
(* sets of identifiers built by up to four operations.                     *)
SetOps == {[op |-> o, cid |-> c] : o \in {"insert", "remove"}, c \in SUBSET (1 .. 2) \ {{}}}

GiveWitnesses ==
    /\ Ready("witness")
    /\ \/ \E bytes \in [1 .. 5 -> SUBSET (1 .. 2)], i \in 1 .. 5, b \in SUBSET (1 .. 2) :
              Give([kind |-> "witness", i |-> i, byte |-> b, ops |-> <<>>, others |-> <<>>,
                    payload |-> [bytes |-> bytes, proof_data |-> 1, block_hash |-> 1]])
       \/ \E ops \in {s \in Seqs(SetOps, 4) : Rules!OfASet(s)},
             others \in {s \in Seqs(SetOps, 3) : Rules!OfASet(s)} :
              Give([kind |-> "witness", i |-> 1, byte |-> {}, ops |-> ops, others |-> others,
                    payload |-> [bytes |-> <<{}>>, proof_data |-> 0, block_hash |-> 1]])

-----------------------------------------------------------------------------
TypesFamilies == {"formal", "launch", "fees", "announcements", "frames", "proofs", "slots", "witness"}

GiveTypesInput ==
    \/ GiveFormalGate \/ GiveLaunchGate \/ GiveFees   \/ GiveAnnouncements
    \/ GiveFrames     \/ GiveProofs     \/ GiveSlotRules \/ GiveWitnesses

(* A gate that stops a release says what would open it and opens when that *)
(* is done; more evidence never closes it, and its commitment decides its  *)
(* verdict (ci_formal_gate.rs:477,525, go_nogo_gate.rs:130).               *)
GatesNameTheirCause ==
    /\ Is("formal") => /\ Gate!FailureNamesItsCause(input.debts, input.c)
                       /\ Gate!CommitmentDecides(input.debts, input.c, input.d)
    /\ Is("launch") => /\ Gate!ReadinessIsMonotone(input.l, input.c)
                       /\ Gate!CommitmentFixesLaunch(input.l, input.m, input.c)

(* Merged announcements and set fingerprints (eip8077.rs:192,              *)
(* spore_sync.rs:22, witness.rs:68).                                       *)
TypesCanonical ==
    /\ Is("announcements") => /\ Rules!MergeIsIdempotent(input.batches)
                              /\ Rules!ExecutableFirst(input.batch, input.known)
    /\ Is("witness") =>
         /\ Rules!BindingCatchesAChange(input.payload, input.i, input.byte, 2)
         /\ Rules!FingerprintFollowsSet(input.ops, input.others)

(* Accepted frames, proofs and lists (eip8141.rs:88, eip8025.rs:85,        *)
(* focil.rs:44).                                                           *)
TypesAccepted ==
    /\ Is("frames") => Rules!AcceptedFramesInOrder(input.tx, input.base_fee)
    /\ Is("proofs") => Rules!AcceptedProofsAgree(input.a, input.c)
    /\ Is("slots")  => /\ Rules!TimelinessIsMonotone(input.h, input.e, input.deadline)
                       /\ Rules!PartsOfRangeAccepted(1, input.deadline, 2)
                       /\ Rules!AcceptedListIsSatisfiable(input.list, input.deadline, 2, 4)

(* Fees and nonce gaps (eip7999.rs:119, eip8077.rs:92).                    *)
TypesFigures ==
    /\ Is("fees") => /\ Rules!AllocationsAddUp(input.params, input.tx)
                     /\ Rules!ValidationPredictsAllocation(input.params, input.tx)
    /\ Is("announcements") => Rules!GapsAgree(input.batch)

-----------------------------------------------------------------------------
(***************************************************************************)
(* Inputs of the planning and registry modules of eth2077-types.           *)
(***************************************************************************)

-----------------------------------------------------------------------------
(* Every graph over three modules, one of them unlisted or listed twice;   *)
(* and plans of two modules of every phase and proof status.               *)
Deps(S) == {<<>>} \cup {<<a>> : a \in S} \cup {<<a, b>> : a \in S, b \in S}

PortPlan(migrations, max, machine) ==
    [migrations |-> migrations, max_allowed_placeholders |-> max,
     require_machine_checked |-> machine, max_severity_allowed |-> 4]

GivePort ==
    /\ Ready("port")
    /\ \/ \E deps \in [1 .. 3 -> Deps(1 .. 4)], third \in {1, 3} :
              LET names == <<1, 2, third>>
              IN  Give([kind |-> "port",
                        c |-> PortPlan([i \in 1 .. 3 |-> Plan!Migration(names[i], 2, <<>>, "Sketched",
                                                                        1, deps[i])], 1, FALSE)])
       \/ \E ph \in Seqs({0, 6, 7}, 2), status \in Plan!PortProofStatus, left \in {0, 5},
            holes \in {<<>>, <<3>>, <<4, 5>>}, max \in {0, 2}, machine \in BOOLEAN, d \in {<<>>, <<1>>} :
              Give([kind |-> "port",
                    c |-> PortPlan([i \in DOMAIN ph |->
                                      Plan!Migration(i, ph[i], IF i = 1 THEN holes ELSE <<>>,
                                                     IF i = 1 THEN status ELSE "MachineChecked",
                                                     left, d)], max, machine)])

(* Every graph over three items with a dependency nobody lists, some of    *)
(* the items asked for, at a limit that cuts and one that does not.        *)
GiveRoadmap ==
    /\ Ready("roadmap")
    /\ \/ \E deps \in [1 .. 3 -> {d \in Deps(1 .. 4) : Len(d) = 2 => d[1] < d[2]}],
            asked \in SUBSET (1 .. 3), third \in {1, 3}, max \in {2, 4} :
              LET names == <<1, 2, third>>
              IN  Give([kind |-> "roadmap", c |-> [Plan!default_ef_architecture_config EXCEPT !.max_items = max],
                        items |-> [i \in 1 .. 3 |->
                                     Plan!ActionableItem(names[i], 1, 2, 4 + i, i % 2, deps[i], i \in asked)]])
       \/ \E tracks \in Seqs(Plan!RoadmapTrack, 2),
            layers \in Seqs(Plan!ArchitectureLayer, 1) \cup {<<2, 3>>, <<2, 2>>},
            min \in {-1, 5, 11}, max \in {0, 1, 3}, deps \in BOOLEAN :
              Give([kind |-> "roadmap",
                    c |-> [tracks |-> tracks, layers |-> layers, min_priority |-> min, max_items |-> max,
                           include_dependencies |-> deps],
                    items |-> <<Plan!ActionableItem(1, 1, 2, 5, 1, <<>>, TRUE),
                                Plan!ActionableItem(2, 2, 3, 5, 2, <<1, 3>>, TRUE),
                                Plan!ActionableItem(3, 5, 2, 4, 1, <<>>, FALSE)>>])

(* Dates around month, leap year, century and era ends; registries of two  *)
(* theorems and two assumptions, one of whose ids is padded.               *)
Years == {-401, -400, -1, 0, 1, 4, 1899, 1900, 1999, 2000, 2023, 2024, 2099, 2100}
Assumed == {Plan!Assumption(id, anchor, 1, cadence, date, status)
              : id \in {<<1, 0>>, <<2, 1>>}, anchor \in {Plan!NoAnchor, <<0, 1>>}, cadence \in {0, 30},
                date \in {Plan!Never, <<2024, 2, 1>>, <<2023, 2, 29>>}, status \in {"Active", "Violated"}}
Tagged == {Plan!TheoremEntry(id, deps, tags)
             : id \in {1, 2}, deps \in {<<>>, <<1>>, <<3>>},
               tags \in {<<>>, <<<<1, 1>>>>, <<<<2, 0>>, <<1, 0>>>>, <<<<0, 1>>>>}}

GiveRegistry ==
    /\ Ready("registry")
    /\ \/ \E y \in Years, m \in 1 .. 12, d \in {1, 2, 28, 29, 30, 31} :
              Give([kind |-> "registry", today |-> <<y, m, d>>, entries |-> <<>>, assumptions |-> <<>>])
       \/ \E as \in Seqs(Assumed, 1), d \in 1 .. 31, m \in {2, 3} :
              Give([kind |-> "registry", today |-> <<2024, m, d>>, entries |-> <<>>, assumptions |-> as])
       \/ \E es \in Seqs(Tagged, 2), ids \in Seqs({<<1, 0>>, <<2, 0>>, <<2, 1>>}, 2) :
              Give([kind |-> "registry", today |-> <<2024, 1, 1>>, entries |-> es,
                    assumptions |-> [i \in DOMAIN ids |->
                        Plan!Assumption(ids[i], Plan!NoAnchor, 1, 0, Plan!Never, "Active")]])

(* Milestones with up to three artifacts of two signers and two kinds, one *)
(* scheme of which is not allowed.                                         *)
Artifacts == {[kind |-> k, payload_hash |-> 1, signature_scheme |-> s, signer_id |-> who,
               timestamp |-> 0, gate_status |-> g]
                : k \in {1, 2}, s \in {"Ed25519", "Multisig"}, who \in {1, 2}, g \in {2, 5}}

Milestone(required, achieved, measured, declared) ==
    [required |-> required, achieved |-> achieved, target_tps |-> 2, measured_tps |-> measured,
     gate_status |-> declared]

GiveClaims ==
    /\ Ready("claims")
    /\ \/ \E achieved \in Seqs(Artifacts, 2), required \in SUBSET {1, 2}, tps \in {0, 2}, min \in {0, 1, 2},
            extra \in {a \in Artifacts : a.signer_id = 2} :
              Give([kind |-> "claims", extra |-> extra, now |-> 1,
                    c |-> [milestones |-> <<Milestone(required, achieved, tps, 3)>>, min_signers |-> min,
                           allowed_schemes |-> {"Ed25519"}, require_all_gates |-> TRUE]])
       \/ \E achieved \in Seqs({a \in Artifacts : a.signature_scheme = "Ed25519"}, 2),
            declared \in {2, 3}, now \in {720, 721}, min \in {1, 2}, all \in BOOLEAN, n \in 0 .. 2 :
              Give([kind |-> "claims", extra |-> (CHOOSE a \in Artifacts : TRUE), now |-> now,
                    c |-> [milestones |-> [i \in 1 .. n |->
                                             Milestone({i}, achieved, 2, declared)],
                           min_signers |-> min, allowed_schemes |-> {"Ed25519"},
                           require_all_gates |-> all]])

(* Up to three theorems of every tier or family, and policies around the   *)
(* limits.                                                                 *)
GiveTaxonomy ==
    /\ Ready("taxonomy")
    /\ \/ \E tiers \in Seqs(Plan!TheoremTier, 2), f \in Plan!TheoremFamily, s \in Plan!ProofStatus :
              Give([kind |-> "taxonomy", c |-> Plan!default_theorem_taxonomy_config,
                    theorems |-> [i \in DOMAIN tiers |->
                       [tier |-> tiers[i], family |-> IF i = 1 THEN f ELSE "ResourceBound",
                        proof_status |-> IF i = 1 THEN s ELSE "Proven", dependencies |-> i]]])
       \/ \E need \in BOOLEAN, admitted \in 0 .. 1, conj \in {0, 10000, 10001}, days \in {0, 1, 3650, 3651},
            prefix \in {<<0, 0>>, <<0, 1>>, <<1, 0>>}, chars \in BOOLEAN,
            meta \in SUBSET {<<<<1, 0>>, <<0, 1>>, TRUE>>, <<<<0, 0>>, <<1, 0>>, TRUE>>,
                            <<<<2, 0>>, <<1, 0>>, FALSE>>} :
              Give([kind |-> "taxonomy", theorems |-> <<>>,
                    c |-> [require_tier1_proven |-> need, max_admitted_tier1 |-> admitted,
                           max_conjectured_tier2 |-> conj, auto_promote_on_proof |-> TRUE,
                           review_period_days |-> days, namespace_prefix |-> prefix,
                           prefix_chars_ok |-> chars, metadata |-> meta]])

(* Ceremonies of every protocol and profile around the limits, keys of     *)
(* every status, and metadata whose keys and values share their bytes.     *)
Texts == Seqs({1, 2}, 2)
Metas == {{}} \cup {{<<k, v>>} : k \in Texts, v \in Texts}
           \cup {{<<<<1>>, v>>, <<<<2>>, w>>} : v \in Seqs({1, 2}, 1), w \in Seqs({1, 2}, 1)}
DefaultCeremony == Setup!default_validator_ceremony_config

GiveCeremony ==
    /\ Ready("ceremony")
    /\ \/ \E n \in 0 .. 2, k \in 0 .. 3, p \in Setup!SignerProtocol, s \in Setup!SecurityLevel,
            days \in {0, 1, 180, 181, 3650, 3651}, gap \in BOOLEAN :
              Give([kind |-> "ceremony", keys |-> <<>>, d |-> DefaultCeremony,
                    c |-> [DefaultCeremony EXCEPT !.validator_count = n, !.threshold = k, !.protocol = p,
                                        !.security = s, !.rotation_period_days = days,
                                        !.require_air_gap = gap]])
       \/ \E statuses \in Seqs(Setup!KeyStatus, 3) :
              Give([kind |-> "ceremony", c |-> DefaultCeremony, d |-> DefaultCeremony,
                    keys |-> [i \in DOMAIN statuses |-> Setup!ValidatorKey(statuses[i], "Hsm", i)]])
       \/ \E m, n \in Metas :
              Give([kind |-> "ceremony", keys |-> <<>>, c |-> [DefaultCeremony EXCEPT !.metadata = m],
                    d |-> [DefaultCeremony EXCEPT !.metadata = n]])

(* Genesis files of up to two allocations, addresses in two spellings, and *)
(* quorum metadata that is missing, unreadable or out of range.            *)
Allocations == {Setup!GenesisAllocation(<<a>> \o spelling, k, n, v)
                  : a \in {1, 2}, spelling \in {<<0, "lower">>, <<1, "upper">>},
                    k \in {"Faucet", "ValidatorDeposit"}, n \in {31, 32}, v \in BOOLEAN}
Keyed(total, quorum, t, q) ==
    [k \in (IF t = -3 THEN {} ELSE {total}) \cup (IF q = -3 THEN {} ELSE {quorum}) |->
       IF k = total THEN t ELSE q]

GiveGenesis ==
    /\ Ready("genesis")
    /\ \/ \E as \in Seqs(Allocations, 1), bs \in Seqs(Allocations, 2), n \in 1 .. 2 :
              /\ Len(bs) = 2 => n = 2
              /\ Give([kind |-> "genesis", as |-> as \o SubSeq(bs, 2, Len(bs)), bs |-> bs,
                    c |-> [Setup!default_genesis_builder_config EXCEPT !.validator_count = n]])
       \/ \E t, q \in -3 .. 3, scheme \in {"MultiSig", "Threshold", "Aggregate", "Ed25519"},
            format \in {"Ssz", "HexEncoded", "CompressedSsz"}, seed \in {7, 8}, n \in 0 .. 1 :
              Give([kind |-> "genesis", bs |-> <<>>,
                    as |-> <<Setup!GenesisAllocation(<<1, 0, "lower">>, "Faucet", 32, TRUE)>>,
                    c |-> [Setup!default_genesis_builder_config EXCEPT
                             !.signing_scheme = scheme, !.artifact_format = format, !.seed = seed,
                             !.validator_count = n,
                             !.metadata = IF scheme = "MultiSig"
                                            THEN Keyed("multisig.participants", "multisig.threshold", t, q)
                                          ELSE IF scheme = "Threshold"
                                            THEN Keyed("threshold.total_shares", "threshold.quorum", t, q)
                                          ELSE Keyed("aggregate.domain", "hex.case", t, q)]])

(* A proposal and up to two rehearsals by clients in several spellings.    *)
Proposals == {[id |-> <<1, 0>>, eip_numbers |-> <<2, 1, 2>>, phase |-> ph, signal_threshold_pct |-> th,
               current_signal_pct |-> s, fork_strategy |-> "EpochBoundary", activation_epoch |-> e,
               created_at |-> 1, approved_at |-> a]
                : ph \in {"Signaling", "Accepted", "PostMortem"}, th \in {-1, 60}, s \in {-1, 50, 60, 101},
                  e \in {-1, 0, 1}, a \in {-1, 0, 1}}
Runs == {[id |-> <<i, 0>>, proposal_id |-> <<p, pad>>, testnet_name |-> <<1, 0>>, node_count |-> 2,
          client_diversity |-> cs, started_at |-> 1, ended_at |-> end, outcome |-> o,
          blocks_post_fork |-> 2, finality_disruption_slots |-> 1, rollback_triggered |-> FALSE]
            : i \in 1 .. 2, p \in {1, 2}, pad \in {0, 1}, end \in {0, 1}, o \in {"Success", "Failure"},
              cs \in {<<>>, <<<<<<1, 0, "lower">>, 50>>, <<<<1, 1, "upper">>, 50>>>>,
                      <<<<<<1, 0, "lower">>, 50>>, <<<<2, 0, "lower">>, 50>>, <<<<0, 1, "lower">>, 1>>>>}}
UpgradePolicy == [signal_threshold_pct |-> 50, min_rehearsal_nodes |-> 2, required_client_count |-> 2,
                  min_blocks_post_fork |-> 2, max_finality_disruption_slots |-> 2,
                  cooldown_between_upgrades_days |-> 1, emergency_rollback_enabled |-> TRUE]

GiveUpgrade ==
    /\ Ready("upgrade")
    /\ \/ \E p \in Proposals, runs \in Seqs({r \in Runs : r.id = <<1, 0>> /\ r.ended_at = 1}, 1) :
              Give([kind |-> "upgrade", p |-> p, runs |-> runs, c |-> UpgradePolicy])
       \/ \E p \in {q \in Proposals : q.phase = "Accepted" /\ q.approved_at = 1 /\ q.activation_epoch = 1
                                       /\ q.signal_threshold_pct = 60},
            runs \in Seqs({r \in Runs : r.proposal_id # <<2, 1>>}, 2) :
              Give([kind |-> "upgrade", p |-> p, runs |-> runs, c |-> UpgradePolicy])
       \/ \E n \in 0 .. 3, k \in 0 .. 3, b \in 0 .. 2, f \in 0 .. 3, th \in {-1, 49, 50, 100, 101}, r \in Runs :
              /\ r.id = <<1, 0>> /\ r.proposal_id = <<1, 0>> /\ r.ended_at = 1
              /\ Give([kind |-> "upgrade", runs |-> <<r>>,
                       p |-> [id |-> <<1, 0>>, eip_numbers |-> <<>>, phase |-> "Accepted",
                              signal_threshold_pct |-> 0, current_signal_pct |-> 100,
                              fork_strategy |-> "BlockHeight", activation_epoch |-> -1,
                              created_at |-> 1, approved_at |-> 2],
                       c |-> [UpgradePolicy EXCEPT !.min_rehearsal_nodes = n, !.required_client_count = k,
                                !.min_blocks_post_fork = b, !.max_finality_disruption_slots = f,
                                !.signal_threshold_pct = th]])
       \/ \E ph \in Gate!UpgradePhase, o \in Gate!RehearsalOutcome, n \in {7, 8}, s \in {66, 67}, k \in 2 .. 3,
            b \in {999, 1000}, f \in {32, 33} :
              Give([kind |-> "upgrade", c |-> Gate!DefaultUpgradeConfig,
                    p |-> [id |-> <<1, 0>>, eip_numbers |-> <<1>>, phase |-> ph, signal_threshold_pct |-> 67,
                           current_signal_pct |-> s, fork_strategy |-> "EpochBoundary", activation_epoch |-> 1,
                           created_at |-> 1, approved_at |-> 2],
                    runs |-> <<[id |-> <<1, 0>>, proposal_id |-> <<1, 0>>, testnet_name |-> <<1, 0>>,
                                node_count |-> n, started_at |-> 1, ended_at |-> 2, outcome |-> o,
                                client_diversity |-> [i \in 1 .. k |-> <<<<i, 0, "lower">>, 33>>],
                                blocks_post_fork |-> b, finality_disruption_slots |-> f,
                                rollback_triggered |-> FALSE]>>])

-----------------------------------------------------------------------------
PlanFamilies == {"port", "roadmap", "registry", "claims", "taxonomy", "ceremony", "genesis", "upgrade"}

GivePlanInput ==
    \/ GivePort     \/ GiveRoadmap  \/ GiveRegistry \/ GiveClaims
    \/ GiveTaxonomy \/ GiveCeremony \/ GiveGenesis  \/ GiveUpgrade

(* Plans of the Citadel port and of the roadmap (citadel_port.rs:128,       *)
(* ef_architecture.rs:210).                                                *)
PlansOrdered ==
    /\ Is("port") => /\ Plan!CycleIsReal(input.c.migrations)
                     /\ Plan!CompleteMeansDone(input.c)
    /\ Is("roadmap") => /\ Plan!SelectionIsClosed(input.items, input.c)
                        /\ Plan!StatsFollowSelection(input.items, input.c)
                        /\ Plan!DepthIsLongestChain(input.items)

(* Gates over claims, theorems and upgrades (claim_integrity.rs:263,        *)
(* assumption_checker.rs:163, upgrade_governance.rs:215).                  *)
PlanGates ==
    /\ Is("claims") =>
         /\ \A i \in DOMAIN input.c.milestones :
              Gate!PassNeedsEvidence(input.c.milestones[i], input.c.allowed_schemes,
                                       input.c.min_signers, input.extra)
         /\ Gate!DeclaredIsEvaluated(input.c, input.now)
    /\ Is("registry") => Plan!CoverageIsExact(input.entries, input.assumptions)
    /\ Is("upgrade")  => Gate!ReadyNeedsRehearsal(input.p, input.c, input.runs)

(* Commitments of ceremonies, genesis files and upgrades                   *)
(* (validator_ceremony.rs:391, genesis_builder.rs:450,                      *)
(* upgrade_governance.rs:443).                                             *)
PlanCanonical ==
    /\ Is("ceremony") => Setup!CommitmentTellsApart(input.c, input.d)
    /\ Is("genesis")  => Setup!ArtifactFixesGenesis(input.as, input.bs, input.c)
    /\ Is("upgrade")  => Gate!CommitmentFixesReadiness(<<input.p>>, input.runs, input.c)

(* Accepted ceremonies and genesis files (validator_ceremony.rs:232,       *)
(* genesis_builder.rs:143).                                                *)
PlanAccepted ==
    /\ Is("ceremony") => /\ Setup!AcceptedCeremonyHasQuorum(input.c)
                         /\ Setup!CompletionFollowsKeys(input.keys)
    /\ Is("genesis")  => Setup!SignedGenesisIsFunded(input.as, input.c)

(* Days and figures of the registry and the taxonomy                       *)
(* (assumption_checker.rs:139, theorem_taxonomy.rs:320).                   *)
PlanFigures ==
    /\ Is("registry") => /\ Plan!DaysFollowCalendar(input.today)
                         /\ Plan!OverdueOnTheDay(input.assumptions, input.today)
    /\ Is("taxonomy") => /\ Plan!TaxonomyAddsUp(input.theorems)
                         /\ Plan!PolicyIsConsistent(input.c)

-----------------------------------------------------------------------------
(***************************************************************************)
(* Inputs of the modules of eth2077-types about joining the network:       *)
(* snapshots, bootnodes and chain specifications.                          *)
(***************************************************************************)

-----------------------------------------------------------------------------
(* Two stages of a session, reported numbers past the total among them; up *)
(* to two sessions of snapshots that share ids or are unknown.             *)
Stages(total) == {Setup!SyncSession(1, 1, Setup!SyncPhase[ph], d, v, total, end, 0)
                    : ph \in 1 .. 5, d \in 0 .. 3, v \in 0 .. 3, end \in {Setup!NotSet, 2}}
Ongoing == {Setup!SyncSession(id, of, ph, d, v, total, end, d)
              : id \in {1, 2}, of \in {1, 2}, ph \in {"Download", "Finalization"}, d \in {0, 3}, v \in {0, 1},
                total \in 0 .. 2, end \in {Setup!NotSet, 0}}
Snapshots == {[id |-> id, slot |-> 1, created_at_unix |-> 1, size_bytes |-> n] : id \in {1, 2}, n \in {0, 3}}
Checkpoints == {[slot |-> 1, source |-> s, timestamp_unix |-> 1, verified_by_count |-> n, block_root |-> 1,
                 state_root |-> r] : s \in {"Beacon", "BootstrapNode"}, n \in {0, 1}, r \in {0, 1}}

GiveSnapshots ==
    /\ Ready("snapshots")
    /\ \/ \E total \in {0, 2} : \E s, t \in Stages(total) :
              /\ total = 0 => s.chunks_downloaded = 0 /\ t.chunks_verified = 0
              /\ Give([kind |-> "session", s |-> s, t |-> t])
       \/ \E of \in Seqs(Snapshots, 2), ss \in Seqs(Ongoing, 1) :
              Give([kind |-> "snapshots", snapshots |-> of, sessions |-> ss, checkpoints |-> <<>>])
       \/ \E of \in Seqs(Snapshots, 2), s, t \in Ongoing :
              /\ s.id = 1 /\ s.chunks_total = 2 /\ s.phase = "Download" /\ t.phase = "Finalization" /\ t.chunks_verified = 1
              /\ Give([kind |-> "snapshots", snapshots |-> of, sessions |-> <<s, t>>, checkpoints |-> <<>>])
       \/ \E cs \in Seqs(Checkpoints, 2) :
              Give([kind |-> "snapshots", snapshots |-> <<>>, sessions |-> <<>>, checkpoints |-> cs])
       \/ \E peers \in 0 .. 5, slots \in 0 .. 1, threads \in {0, 1, 8, 9}, f \in {"Full", "DiffBased"},
            from \in Seqs(Setup!CheckpointSource, 2), limit \in {Setup!NaN, Setup!NotSet, 0, 1000000, 1000001} :
              Give([kind |-> "snapshot_config",
                    c |-> [Setup!DefaultSyncConfig EXCEPT !.min_chunk_peers = peers, !.max_concurrent_downloads = slots,
                              !.verification_parallelism = threads, !.preferred_format = f,
                              !.checkpoint_sources = from, !.bandwidth_limit_mbps = limit]])

(* Every graph of up to four nodes, configurations around the limits, and  *)
(* up to two bootnodes and two peers.                                      *)
Nodes == {[id |-> i, ip_address |-> 1, ports |-> p, health |-> h, connected_peers |-> n]
            : i \in {1, 2}, p \in {1, 2}, h \in {"Online", "Offline"}, n \in {0, 3}}
Peers == {[node_id |-> i, protocol |-> "Discv5", discovered_at_unix |-> 1, reachability |-> r, latency_ms |-> l,
           capabilities |-> cs]
            : i \in {1, 2}, r \in {"BehindNat", "Firewalled"}, l \in {Setup!NaN, -1, 0, 3}, cs \in {<<1>>, <<2, 1>>}}

GiveBootnodes ==
    /\ Ready("bootnodes")
    /\ \/ \E n \in 0 .. 4 : \E edges \in SUBSET kSubset(2, 1 .. n), min \in {-1, 0, 1, 33, 34, 50, 51, 67, 100, 101} :
              Give([kind |-> "topology", n |-> n, edges |-> edges, min |-> min])
       \/ \E target \in {0, 1, 2, 7, 8, 11, 12, 46, 47, 128, 129}, max \in {0, 12, 47, 256, 257}, n \in {0, 1, 48, 49},
            s \in Setup!TopologyStrategy, p \in Setup!DiscoveryProtocol, nat \in BOOLEAN,
            url \in {<<>>, <<0, 1>>, <<2, 1>>, <<4, 0>>} :
              Give([kind |-> "bootnode_config",
                    c |-> [Setup!DefaultDiscoveryConfig EXCEPT !.target_peer_count = target, !.max_peer_count = max,
                              !.bootnode_count = n, !.topology_strategy = s, !.discovery_protocol = p,
                              !.enable_nat_traversal = nat, !.dns_discovery_url = url]])
       \/ \E refresh \in {4, 5, 30, 3600, 3601}, timeout \in {29, 30, 31, 3600, 86400, 86401} :
              Give([kind |-> "bootnode_config",
                    c |-> [Setup!DefaultDiscoveryConfig EXCEPT !.refresh_interval_seconds = refresh,
                              !.eviction_timeout_seconds = timeout]])
       \/ \E bs \in Seqs(Nodes, 2), ps \in Seqs({p \in Peers : p.latency_ms # 0}, 1) :
              Give([kind |-> "bootnodes", bs |-> bs, ps |-> ps, snapshot |-> <<>>])
       \/ \E ps \in Seqs(Peers, 2), sum \in {Setup!NaN, 2} :
              Give([kind |-> "bootnodes", bs |-> <<>>, ps |-> ps,
                    snapshot |-> <<[Setup!TopologyOf({{1, 2}}, 2) EXCEPT !.peer_sum = sum]>>])

(* Schedules of up to three forks, names and EIPs in several spellings;    *)
(* metadata of every kind.                                                 *)
ForkEips == {<<>>, <<<<1, 0, "upper">>>>, <<<<1, 1, "lower">>, <<2, 0, "upper">>>>,
             <<<<1, 0, "upper">>, <<1, 1, "lower">>>>, <<<<0, 1, "lower">>>>}
Forks == {Setup!ForkEntry(name, ph, e, eips, ph = "Pending", <<>>)
            : name \in {<<0, 1, "lower">>, <<1, 0, "lower">>, <<1, 1, "upper">>, <<2, 0, "lower">>},
              ph \in {"Activated", "Pending"}, e \in {0, 1, 2}, eips \in ForkEips}
Metadata == {[k \in keys |-> <<v, 1>>] : keys \in SUBSET {"spec_version", "network_name"}, v \in {0, 7}}
              \cup {[k \in {""} |-> <<7, 0>>]}

GiveChainSpec ==
    /\ Ready("spec")
    /\ \/ \E forks \in Seqs(Forks, 1)
                    \cup [1 .. 2 -> {f \in Forks : f.eips # <<>> /\ f.name # <<0, 1, "lower">>}]
                    \cup [1 .. 3 -> {f \in Forks : f.eips = <<>> /\ f.name # <<0, 1, "lower">>}] :
              Give([kind |-> "spec", c |-> [Setup!default_chain_spec_config EXCEPT !.forks = forks]])
       \/ \E id, t, slots, s \in 0 .. 1, network \in Setup!NetworkKind, meta, note \in Metadata, n \in 0 .. 1 :
              Give([kind |-> "spec",
                    c |-> [Setup!default_chain_spec_config EXCEPT
                             !.chain_id = id, !.genesis_time = t, !.slots_per_epoch = slots,
                             !.seconds_per_slot = s, !.network = network, !.metadata = meta,
                             !.forks = SubSeq([@ EXCEPT ![1].metadata = note], 1, n)]])
       \/ \E p, q \in Setup!ForkPhase, e \in 0 .. 2, required \in BOOLEAN :
              Give([kind |-> "spec",
                    c |-> [Setup!default_chain_spec_config EXCEPT
                             !.forks = <<Setup!ForkEntry(<<1, 0, "lower">>, p, 1, <<>>, required, <<>>),
                                         Setup!ForkEntry(<<2, 0, "lower">>, q, e, <<>>, ~ required, <<>>)>>]])

-----------------------------------------------------------------------------
NetworkFamilies == {"snapshots", "bootnodes", "spec"}

GiveNetworkInput == GiveSnapshots \/ GiveBootnodes \/ GiveChainSpec

(* Commitments over snapshots and nodes (snapshot_sync.rs:409,             *)
(* bootnode_discovery.rs:507).                                             *)
NetworkCanonical ==
    /\ Is("snapshots") => Setup!CommitmentOrderFree(input.snapshots, input.checkpoints, input.sessions)
    /\ Is("bootnodes") => Setup!CommitmentOfNodes(input.bs, input.ps, input.snapshot)

(* Healthy topologies and accepted configurations (bootnode_discovery.rs   *)
(* :206,243, snapshot_sync.rs:181, chain_spec.rs:227).                      *)
NetworkAccepted ==
    /\ Is("topology") => Setup!HealthyIsConnected(input.edges, input.n, input.min)
    /\ Is("bootnode_config") => Setup!AcceptedDiscoveryCanRun(input.c)
    /\ Is("snapshot_config") => Setup!AcceptedSyncStaysAccepted(input.c)
    /\ Is("spec") => Setup!AcceptedScheduleIsUnique(input.c)

(* Progress and bytes of sessions (snapshot_sync.rs:104,552).              *)
NetworkFigures ==
    /\ Is("session")   => Setup!ProgressNeverFalls(input.s, input.t)
    /\ Is("snapshots") => Setup!SyncedWithinSize(input.snapshots, input.sessions)
=============================================================================
