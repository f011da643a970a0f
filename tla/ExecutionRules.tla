--------------------------- MODULE ExecutionRules ---------------------------
(***************************************************************************)
(* The EIP helpers of eth2077-execution: access lists, lanes, gas          *)
(* schedules, blobs and three acceptance checks.                           *)
(***************************************************************************)
EXTENDS Integers, SequencesExt

-----------------------------------------------------------------------------
(***************************************************************************)
(* Block-level access lists (eip7928.rs): validation, the canonical hash,  *)
(* statistics and merging.  Addresses, keys and values are integers; the   *)
(* three optional post-values of an account always move together and are   *)
(* one field, "post", with 0 for None.  A hash is what is hashed.          *)
(***************************************************************************)
(* A BlockAccessList: [number, accounts, storage], where an account is      *)
(* [address, keys, post] and a storage access [address, key, pre, post].    *)
AccessedAccount(a, keys, post) == [address |-> a, keys |-> keys, post |-> post]

Repeats(s) == {i \in DOMAIN s : \E j \in DOMAIN s : j < i /\ s[j] = s[i]}

Column(s, field) == [i \in DOMAIN s |-> s[i][field]]

(* validate_block_access_list: the errors pushed. *)
validate_block_access_list(list) ==
    LET addresses == Column(list.accounts, "address")
        places    == [i \in DOMAIN list.storage |->
                        <<list.storage[i].address, list.storage[i].key>>]
    IN  (IF list.accounts = <<>> THEN {<<"EmptyAccessList">>} ELSE {})
          \cup {<<"DuplicateAccount", addresses[i]>> : i \in Repeats(addresses)}
          \cup UNION {{<<"DuplicateStorageKey", acc.address, acc.keys[i]>>
                         : i \in Repeats(acc.keys)} : acc \in ToSet(list.accounts)}
          \cup {<<"StorageAccessWithoutAccount", a>>
                  : a \in ToSet(Column(list.storage, "address")) \ ToSet(addresses)}
          \cup {<<"DuplicateStorageKey", places[i][1], places[i][2]>> : i \in Repeats(places)}

ByAddress(l, r) == l.address < r.address

StorageOrder(l, r) ==
    \/ l.address < r.address
    \/ l.address = r.address /\ l.key < r.key
    \/ l.address = r.address /\ l.key = r.key /\ l.pre < r.pre
    \/ l.address = r.address /\ l.key = r.key /\ l.pre = r.pre /\ l.post < r.post

HashAsListed(list) ==    \* mutant: the storage accesses are hashed unsorted
    <<list.number, SortSeq(list.accounts, ByAddress), list.storage>>

(* compute_access_list_hash *)
compute_access_list_hash(list) ==
    LET sorted == SortSeq(list.accounts, ByAddress)
    IN  <<list.number,
          [i \in DOMAIN sorted |-> [sorted[i] EXCEPT !.keys = SortSeq(@, <)]],
          SortSeq(list.storage, StorageOrder)>>

compute_access_list_stats(list) ==
    LET total    == Len(list.storage)
        modified == Cardinality({i \in DOMAIN list.storage :
                                   list.storage[i].pre # list.storage[i].post})
    IN  [number |-> list.number,
         unique_account_count |-> Cardinality(ToSet(Column(list.accounts, "address"))),
         total_storage_accesses |-> total,
         modified_storage_count |-> modified,
         read_only_storage_count |-> total - modified]

-----------------------------------------------------------------------------
(* merge_access_lists: maps from addresses to accounts, with the keys as a *)
(* set, and from (address, key) to storage accesses.                       *)

Put(f, k, v) == [x \in DOMAIN f \cup {k} |-> IF x = k THEN v ELSE f[x]]

KeysOf(accs, a) == IF a \in DOMAIN accs THEN accs[a].keys ELSE {}
PostOf(accs, a) == IF a \in DOMAIN accs THEN accs[a].post ELSE 0

(* An account overwrites the post-values, even with None. *)
MergeAccount(accs, acc) ==
    Put(accs, acc.address,
        [keys |-> KeysOf(accs, acc.address) \cup ToSet(acc.keys), post |-> acc.post])

(* A storage access adds its key and leaves the post-values alone. *)
TouchKey(accs, s) ==
    Put(accs, s.address,
        [keys |-> KeysOf(accs, s.address) \cup {s.key}, post |-> PostOf(accs, s.address)])

MergeList(m, list) ==
    [number   |-> list.number,
     accounts |-> FoldLeft(TouchKey,
                           FoldLeft(MergeAccount, m.accounts, list.accounts), list.storage),
     storage  |-> FoldLeft(LAMBDA f, s : Put(f, <<s.address, s.key>>, s),
                           m.storage, list.storage)]

PlaceOrder(p, q) == p[1] < q[1] \/ (p[1] = q[1] /\ p[2] < q[2])

merge_access_lists(lists) ==
    LET m == FoldLeft(MergeList, [number |-> 0, accounts |-> <<>>, storage |-> <<>>], lists)
        addresses == SetToSortSeq(DOMAIN m.accounts, <)
        places    == SetToSortSeq(DOMAIN m.storage, PlaceOrder)
    IN  [number   |-> m.number,
         accounts |-> [i \in DOMAIN addresses |->
                         AccessedAccount(addresses[i],
                                         SetToSortSeq(m.accounts[addresses[i]].keys, <),
                                         m.accounts[addresses[i]].post)],
         storage  |-> [i \in DOMAIN places |-> m.storage[places[i]]]]

-----------------------------------------------------------------------------
(* What the functions promise each other. *)

Touches(list) == list.accounts # <<>> \/ list.storage # <<>>

(* A merged list is well formed whatever was merged, has one entry per     *)
(* account and place its parts name, and its statistics count each once.   *)
MergedIsAccepted(lists) ==
    LET m == merge_access_lists(lists)
    IN  (\E i \in DOMAIN lists : Touches(lists[i])) =>
          /\ validate_block_access_list(m) = {}
          /\ \A i \in DOMAIN lists :
                ToSet(Column(lists[i].storage, "key")) \subseteq
                  UNION {ToSet(acc.keys) : acc \in ToSet(m.accounts)}
          /\ compute_access_list_stats(m).unique_account_count = Len(m.accounts)
          /\ compute_access_list_stats(m).total_storage_accesses
               = Cardinality(UNION {{<<x.address, x.key>> : x \in ToSet(lists[i].storage)} : i \in DOMAIN lists})

(* Merging lists one at a time gives what merging them at once gives. *)
MergesIncrementally(lists) ==
    lists # <<>> =>
      merge_access_lists(lists) =
        merge_access_lists(<<merge_access_lists(Front(lists)), Last(lists)>>)

(* The hash of an accepted list does not depend on the order of its        *)
(* accounts, keys and accesses; it depends on everything else.             *)
SameContents(l, r) ==
    /\ l.number = r.number
    /\ {[acc EXCEPT !.keys = ToSet(@)] : acc \in ToSet(l.accounts)}
         = {[acc EXCEPT !.keys = ToSet(@)] : acc \in ToSet(r.accounts)}
    /\ ToSet(l.storage) = ToSet(r.storage)

HashIsCanonical(l, r) ==
    validate_block_access_list(l) = {} /\ validate_block_access_list(r) = {} =>
      (compute_access_list_hash(l) = compute_access_list_hash(r) <=> SameContents(l, r))

-----------------------------------------------------------------------------
(***************************************************************************)
(* Parallel execution lanes (eip8142.rs): classification of transactions,  *)
(* assignment to lanes, conflicts and statistics.  Hashes and keys are     *)
(* integers, 0 the all-zero one.  A transaction's calldata is its length   *)
(* and the family of its selector, its target the family of its address.   *)
(***************************************************************************)
LaneId == {"Transfer", "TokenOps", "DeFi", "StateHeavy", "SystemOps", "BlobCarrying",
           "Uncategorized"}

LaneAssignment(tx, lane, keys, conflicts, gas) ==
    [tx_hash |-> tx, assigned_lane |-> lane, state_keys_accessed |-> keys,
     conflict_set |-> conflicts, gas_estimate |-> gas]

default_lane_config ==
    [max_txs_per_lane |-> 128, max_total_gas_per_lane |-> 15000000,
     enable_conflict_detection |-> TRUE, parallel_lanes |-> 4]

(* classify_transaction; to \in {"system", "defi", "token", "other"}. *)
classify_transaction(to, len, selector, value, tx_type) ==
    IF tx_type = 3 THEN "BlobCarrying"
    ELSE IF to = "system" THEN "SystemOps"
    ELSE IF len = 0 /\ value > 0 THEN "Transfer"
    ELSE IF len > 1024 THEN "StateHeavy"
    ELSE IF len >= 4 /\ selector = "token" THEN "TokenOps"
    ELSE IF len >= 4 /\ selector = "defi" THEN "DeFi"
    ELSE IF to = "defi" THEN "DeFi"
    ELSE IF to = "token" THEN "TokenOps"
    ELSE "Uncategorized"

-----------------------------------------------------------------------------
InvalidKeys(a) == 0 \in ToSet(a.state_keys_accessed) \cup a.conflict_set

KeysReadOnly(a) ==    \* mutant: the declared conflicts are forgotten
    ToSet(a.state_keys_accessed)

(* normalize_keys, for an assignment whose keys are valid. *)
normalize_keys(a) == ToSet(a.state_keys_accessed) \cup a.conflict_set

(* The running state of assign_to_lanes: the entries, the gas and the      *)
(* first user of every key, by lane.                                       *)
NoLanes == [grouped |-> [l \in LaneId |-> <<>>], gas |-> [l \in LaneId |-> 0],
            users |-> [l \in LaneId |-> <<>>], errors |-> {}]

Assign(s, index, a, config) ==
    LET lane  == a.assigned_lane
        count == Len(s.grouped[lane]) + 1
        gas   == s.gas[lane] + a.gas_estimate
        users == s.users[lane]
        keys  == IF config.enable_conflict_detection THEN normalize_keys(a) ELSE {}
        full  == (IF count > config.max_txs_per_lane
                    THEN {<<"LaneCapacityExceeded", lane, count>>} ELSE {})
                   \cup (IF gas > config.max_total_gas_per_lane
                           THEN {<<"LaneCapacityExceeded", lane, gas>>} ELSE {})
        clash == {<<"ConflictDetected", users[k], a.tx_hash, k>>
                    : k \in {k \in keys \cap DOMAIN users : users[k] # a.tx_hash}}
    IN  IF a.tx_hash = 0 THEN [s EXCEPT !.errors = @ \cup {<<"EmptyTransaction">>}]
        ELSE IF InvalidKeys(a) THEN [s EXCEPT !.errors = @ \cup {<<"InvalidStateKeys">>}]
        ELSE [grouped |-> [s.grouped EXCEPT ![lane] = Append(@, index)],
              gas     |-> [s.gas EXCEPT ![lane] = gas],
              users   |-> [s.users EXCEPT ![lane] =
                             [k \in DOMAIN users \cup keys |->
                                IF k \in DOMAIN users THEN users[k] ELSE a.tx_hash]],
              errors  |-> s.errors \cup full \cup clash]

assign_to_lanes(as, config) ==
    FoldLeft(LAMBDA s, i : Assign(s, i, as[i], config), NoLanes, [i \in DOMAIN as |-> i])

(* The keys detect_cross_lane_conflicts compares: none if any is invalid. *)
ComparedKeys(a) == IF InvalidKeys(a) THEN {} ELSE normalize_keys(a)

detect_cross_lane_conflicts(as) ==
    LET shared(p) == ComparedKeys(as[p[1]]) \cap ComparedKeys(as[p[2]])
        pairs == {p \in (1 .. Len(as)) \X (1 .. Len(as)) :
                    /\ p[1] < p[2]
                    /\ as[p[1]].assigned_lane # as[p[2]].assigned_lane
                    /\ shared(p) # {}}
    IN  {<<p[1], p[2], Min(shared(p))>> : p \in pairs}

-----------------------------------------------------------------------------
(* compute_parallelism_ratio: the deepest lane goes to the least loaded    *)
(* worker, the first of them; the ratio is total over makespan.            *)
LeastLoaded(loads) ==
    Min({w \in DOMAIN loads : \A v \in DOMAIN loads : loads[w] <= loads[v]})

Makespan(depths, workers) ==
    Max(ToSet(FoldLeft(LAMBDA loads, d : [loads EXCEPT ![LeastLoaded(loads)] = @ + d],
                       [w \in 1 .. Max({1, workers}) |-> 0], SortSeq(depths, >))))

(* compute_lane_stats; the parallelism ratio total / makespan is divided   *)
(* by 1 + conflicts / total, here as a fraction.                           *)
compute_lane_stats(as, config) ==
    LET used  == {as[i].assigned_lane : i \in DOMAIN as}
        mine(l) == {i \in DOMAIN as : as[i].assigned_lane = l}
        depth == [l \in used |-> Cardinality(mine(l))]
        total == Len(as)
        conflicts == IF config.enable_conflict_detection
                       THEN Cardinality(detect_cross_lane_conflicts(as)) ELSE 0
        lanes == SetToSeq(used)
        span  == Makespan([i \in DOMAIN lanes |-> depth[lanes[i]]], config.parallel_lanes)
    IN  [total_transactions |-> total,
         lanes_used         |-> Cardinality(used),
         max_lane_depth     |-> Max({0} \cup {depth[l] : l \in used}),
         conflict_count     |-> conflicts,
         ratio_num          |-> IF total = 0 THEN 0 ELSE total * total,
         ratio_den          |-> IF total = 0 THEN 1 ELSE span * (total + conflicts),
         gas_by_lane        |-> [l \in used |->
                                   MapThenSumSet(LAMBDA i : as[i].gas_estimate, mine(l))]]

(* compute_lane_commitment; lanes are told apart by their discriminant. *)
compute_lane_commitment(lane, hashes) == <<lane, SortSeq(hashes, <)>>

-----------------------------------------------------------------------------
(* An accepted assignment is safe to run lane by lane: every transaction   *)
(* is in its lane once, the limits hold, and with detection on two         *)
(* different transactions of a lane share no key, accessed or declared.    *)
AcceptedLanesAreSafe(as, config) ==
    LET r == assign_to_lanes(as, config)
        keys(i) == ToSet(as[i].state_keys_accessed) \cup as[i].conflict_set
    IN  r.errors = {} =>
          /\ \A i \in DOMAIN as : \A l \in LaneId :
                Cardinality({n \in DOMAIN r.grouped[l] : r.grouped[l][n] = i})
                  = IF l = as[i].assigned_lane THEN 1 ELSE 0
          /\ \A l \in LaneId :
                /\ Len(r.grouped[l]) <= config.max_txs_per_lane
                /\ MapThenSumSet(LAMBDA i : as[i].gas_estimate, ToSet(r.grouped[l]))
                     <= config.max_total_gas_per_lane
          /\ config.enable_conflict_detection =>
                \A i, j \in DOMAIN as :
                    /\ as[i].assigned_lane = as[j].assigned_lane
                    /\ as[i].tx_hash # as[j].tx_hash
                    => keys(i) \cap keys(j) = {}

(* The speed-up reported is at most the number of workers, and at least 1  *)
(* when no conflicts are counted.                                          *)
RatioIsPossible(as, config) ==
    LET s == compute_lane_stats(as, config)
    IN  /\ s.ratio_num <= Max({1, config.parallel_lanes}) * s.ratio_den
        /\ as # <<>> /\ s.conflict_count = 0 => s.ratio_num >= s.ratio_den

(* A block accepted in one order is accepted in the other, and every lane  *)
(* then has the same commitment.                                           *)
LanesCommitInAnyOrder(as, config) ==
    LET r    == assign_to_lanes(as, config)
        q    == assign_to_lanes(Reverse(as), config)
        commitment(g, txs, l) ==
            compute_lane_commitment(l, [n \in DOMAIN g[l] |-> txs[g[l][n]].tx_hash])
    IN  r.errors = {} =>
          /\ q.errors = {}
          /\ \A l \in LaneId : commitment(r.grouped, as, l) = commitment(q.grouped, Reverse(as), l)

(* A transaction alone in its lane is accepted by default.  Only blob      *)
(* transactions are in the blob lane; the value matters only without       *)
(* calldata, and a selector only in calldata that can hold one.            *)
LaneFollowsContents(to, len, selector, value, tx_type) ==
    LET lane == classify_transaction(to, len, selector, value, tx_type)
    IN  /\ assign_to_lanes(<<LaneAssignment(1, lane, <<1>>, {}, 21000)>>, default_lane_config).errors = {}
        /\ lane = "BlobCarrying" <=> tx_type = 3
        /\ lane = "Transfer" => len = 0 /\ value > 0
        /\ len > 0 => lane = classify_transaction(to, len, selector, 0, tx_type)
        /\ len < 4 => lane = classify_transaction(to, len, "other", value, tx_type)

-----------------------------------------------------------------------------
(***************************************************************************)
(* Gas repricing schedules (eip8007.rs).  Percentages are kept exact: the  *)
(* change of a rule is the pair of its gas costs, compared by fractions.   *)
(***************************************************************************)
Rule(opcode, category, old, new) ==
    [opcode |-> opcode, category |-> category, old_gas |-> old, new_gas |-> new]

glamsterdam_default_schedule ==
    [activation_block |-> 0,
     rules |-> <<Rule(85, "Storage", 20000, 5000), Rule(84, "Storage", 2100, 800),
                 Rule(49, "Environment", 2600, 400), Rule(59, "Environment", 2600, 400),
                 Rule(60, "Environment", 2600, 400), Rule(63, "Environment", 2600, 400),
                 Rule(241, "Call", 2600, 700), Rule(250, "Call", 2600, 700),
                 Rule(244, "Call", 2600, 700), Rule(32, "Hash", 30, 36),
                 Rule(240, "Create", 32000, 48000), Rule(245, "Create", 32000, 48000)>>]

validate_repricing_schedule(s) ==
    (IF s.rules = <<>> THEN {<<"NoRules">>} ELSE {})
      \cup {<<"DuplicateOpcode", s.rules[i].opcode>>
              : i \in {i \in DOMAIN s.rules :
                         \E j \in 1 .. i - 1 : s.rules[j].opcode = s.rules[i].opcode}}
      \cup {<<"ZeroGasCost", r.opcode>>
              : r \in {r \in ToSet(s.rules) : r.old_gas = 0 \/ r.new_gas = 0}}

EffectiveStrictly(s, r, block) ==    \* mutant: the activation block still has the old costs
    IF block > s.activation_block THEN r.new_gas ELSE r.old_gas

Effective(s, r, block) == IF block >= s.activation_block THEN r.new_gas ELSE r.old_gas

(* lookup_gas_cost: the first rule of the opcode; 0 if there is none. *)
lookup_gas_cost(s, opcode, block) ==
    LET mine == {i \in DOMAIN s.rules : s.rules[i].opcode = opcode}
    IN  IF mine = {} THEN 0 ELSE Effective(s, s.rules[Min(mine)], block)

(* build_gas_table: the last rule of an opcode stays in the map. *)
build_gas_table(s, block) ==
    [o \in {r.opcode : r \in ToSet(s.rules)} |->
       LET last == Max({i \in DOMAIN s.rules : s.rules[i].opcode = o})
       IN  IF block >= s.activation_block THEN s.rules[last].new_gas
           ELSE s.rules[last].old_gas]

(* compute_repricing_impact: the largest rise and fall as fractions        *)
(* [num, den] of the old cost; a rule with old cost 0 counts as no change. *)
Change(r) ==
    [num |-> IF r.old_gas = 0 THEN 0 ELSE r.new_gas - r.old_gas,
     den |-> IF r.old_gas = 0 THEN 1 ELSE r.old_gas]

Larger(p, q) == IF q.num * p.den > p.num * q.den THEN q ELSE p

compute_repricing_impact(s) ==
    LET none == [num |-> 0, den |-> 1]
        changes == [i \in DOMAIN s.rules |-> Change(s.rules[i])]
        falls == [i \in DOMAIN s.rules |-> [changes[i] EXCEPT !.num = -@]]
    IN  [total_opcodes_affected |-> Len(s.rules),
         max_increase |-> FoldLeft(Larger, none, changes),
         max_decrease |-> FoldLeft(Larger, none, falls),
         categories_affected |-> {r.category : r \in ToSet(s.rules)}]

-----------------------------------------------------------------------------
(* For an accepted schedule the table and the lookup agree on every opcode *)
(* and at every block, the activation block included, and no repriced      *)
(* opcode is free.                                                         *)
TableAgreesWithLookup(s, blocks, opcodes) ==
    validate_repricing_schedule(s) = {} =>
      \A b \in blocks : \A o \in opcodes :
          LET table == build_gas_table(s, b)
          IN  IF o \in DOMAIN table
                THEN lookup_gas_cost(s, o, b) = table[o] /\ table[o] > 0
                ELSE lookup_gas_cost(s, o, b) = 0

(* No accepted schedule lowers a cost by 100% or more, and the extremes    *)
(* reported are changes of its rules or zero.                              *)
ImpactIsBounded(s) ==
    LET i == compute_repricing_impact(s)
    IN  validate_repricing_schedule(s) = {} =>
          /\ i.max_decrease.num < i.max_decrease.den
          /\ i.max_increase.num = 0 \/ \E r \in ToSet(s.rules) : Change(r) = i.max_increase

-----------------------------------------------------------------------------
(***************************************************************************)
(* Blob bundles (blob_sidecar.rs) and the sparse custody of blob cells     *)
(* (eip8070.rs).  A blob is its size, a KZG commitment a number, and a     *)
(* versioned hash a pair of a version byte and the commitment hashed.      *)
(***************************************************************************)
CELLS_PER_BLOB             == 128
MAX_BLOBS_PER_BLOCK        == 6
BLOB_SIZE                  == 131072
VERSIONED_HASH_VERSION_KZG == 1

-----------------------------------------------------------------------------
(* Cell custody.  `hash` is the first word of the node id's digest. *)

compute_custody_assignment(hash, total_groups) ==
    [custody_group |-> IF total_groups = 0 THEN 0 ELSE hash % total_groups,
     total_groups  |-> total_groups]

CellsByBlock(group, total_groups, cells) ==    \* mutant: contiguous runs of cells
    IF total_groups = 0 THEN {}
    ELSE {c \in 0 .. cells - 1 : c \div (cells \div total_groups + 1) = group}

cells_for_custody_group(group, total_groups, cells) ==
    IF total_groups = 0 THEN {} ELSE {c \in 0 .. cells - 1 : c % total_groups = group}

validate_sparse_blob_request(r) ==
    LET a     == r.custody_assignment
        valid == a.total_groups # 0 /\ a.custody_group < a.total_groups
        cells == r.requested_cells
    IN  (IF cells = <<>> THEN {<<"EmptyCellRequest">>} ELSE {})
          \cup (IF ~ valid THEN {<<"CustodyGroupOutOfRange">>} ELSE {})
          \cup {<<"DuplicateCellIndex", cells[i]>>
                  : i \in {i \in DOMAIN cells : \E j \in 1 .. i - 1 : cells[j] = cells[i]}}
          \cup {<<"InvalidCellIndex", c>> : c \in {c \in ToSet(cells) : c >= CELLS_PER_BLOB}}
          \cup {<<"CellNotInCustody", c>>
                  : c \in {c \in ToSet(cells) : valid /\ c % a.total_groups # a.custody_group}}

(* compute_sparse_blob_stats: the ratio is sampled over total. *)
compute_sparse_blob_stats(group, total_groups) ==
    [total_cells   |-> CELLS_PER_BLOB,
     sampled_cells |-> Cardinality(cells_for_custody_group(group, total_groups, CELLS_PER_BLOB)),
     custody_group |-> group]

-----------------------------------------------------------------------------
(* Bundles: [blobs, versioned_hashes] with blobs of [index, size, kzg]. *)

mock_versioned_hash(kzg) == <<VERSIONED_HASH_VERSION_KZG, kzg>>

(* The first failing index of each loop, 0 for none; the loops run in order. *)
FirstBad(bad) == IF bad = {} THEN 0 ELSE Min(bad)

validate_blob_bundle_structure(b) ==
    LET count   == Len(b.blobs)
        hashes  == b.versioned_hashes
        blobBad == FirstBad({i \in DOMAIN b.blobs :
                     b.blobs[i].index # i - 1 \/ b.blobs[i].size # BLOB_SIZE})
        hashBad == FirstBad({i \in DOMAIN hashes :
                     hashes[i][1] # VERSIONED_HASH_VERSION_KZG})
    IN  IF count = 0 THEN "EmptyBlobSidecar"
        ELSE IF count > MAX_BLOBS_PER_BLOCK THEN "TooManyBlobs"
        ELSE IF Len(hashes) # count THEN "CommitmentMismatch"
        ELSE IF blobBad # 0
          THEN IF b.blobs[blobBad].index # blobBad - 1 THEN "CommitmentMismatch"
               ELSE "BlobSizeMismatch"
        ELSE IF hashBad # 0 THEN "VersionedHashMismatch"
        ELSE "Ok"

validate_versioned_hashes(b) ==
    IF Len(b.versioned_hashes) # Len(b.blobs) THEN "CommitmentMismatch"
    ELSE IF \E i \in DOMAIN b.blobs :
              mock_versioned_hash(b.blobs[i].kzg) # b.versioned_hashes[i]
      THEN "VersionedHashMismatch"
    ELSE "Ok"

compute_bundle_stats(b) ==
    [blob_count       |-> Len(b.blobs),
     total_blob_bytes |-> FoldLeft(LAMBDA sum, s : sum + s.size, 0, b.blobs),
     versioned_hash_version |->
        IF b.versioned_hashes = <<>> THEN VERSIONED_HASH_VERSION_KZG
        ELSE b.versioned_hashes[1][1]]

-----------------------------------------------------------------------------
(* The custody groups partition the cells of a blob, and what they sample  *)
(* adds up to it; a node's own group is one of them, and a request for     *)
(* exactly a group's cells is accepted.                                    *)
CustodyPartitionsCells(total_groups, hash) ==
    LET group(g) == cells_for_custody_group(g, total_groups, CELLS_PER_BLOB)
        mine     == compute_custody_assignment(hash, total_groups)
    IN  total_groups > 0 =>
          /\ UNION {group(g) : g \in 0 .. total_groups - 1} = 0 .. CELLS_PER_BLOB - 1
          /\ \A g, h \in 0 .. total_groups - 1 : g # h => group(g) \cap group(h) = {}
          /\ MapThenSumSet(LAMBDA g : compute_sparse_blob_stats(g, total_groups).sampled_cells,
                           0 .. total_groups - 1) = CELLS_PER_BLOB
          /\ total_groups <= CELLS_PER_BLOB =>
               validate_sparse_blob_request(
                   [custody_assignment |-> mine,
                    requested_cells |->
                       [i \in 1 .. Cardinality(group(mine.custody_group)) |->
                          mine.custody_group + (i - 1) * total_groups]]) = {}

(* An accepted request is served from the group's cells and nothing else,  *)
(* each once.                                                              *)
AcceptedRequestInCustody(r) ==
    validate_sparse_blob_request(r) = {} =>
      /\ ToSet(r.requested_cells) \subseteq
           cells_for_custody_group(r.custody_assignment.custody_group,
                                   r.custody_assignment.total_groups, CELLS_PER_BLOB)
      /\ Cardinality(ToSet(r.requested_cells)) = Len(r.requested_cells)

(* A bundle that passes both checks holds as many bytes as its count says, *)
(* in order, each blob under the hash of its own commitment; hashes that   *)
(* match their commitments never fail the version check.                   *)
BundleChecksAgree(b) ==
    /\ validate_versioned_hashes(b) = "Ok"
         => validate_blob_bundle_structure(b) # "VersionedHashMismatch"
    /\ validate_blob_bundle_structure(b) = "Ok" =>
         /\ compute_bundle_stats(b).total_blob_bytes = BLOB_SIZE * Len(b.blobs)
         /\ compute_bundle_stats(b).versioned_hash_version = VERSIONED_HASH_VERSION_KZG

-----------------------------------------------------------------------------
(***************************************************************************)
(* Three acceptance checks of eth2077-execution: authorization lists       *)
(* (eip7702.rs), state access requests (eip7864.rs) and the native rollup  *)
(* precompile (eip8079.rs).  A 32-byte word is a sequence of bytes of any  *)
(* fixed length, compared as the code compares it; the curve order and its *)
(* half are parameters of that length.  0 is the zero address or root.     *)
(***************************************************************************)
LessThanAnyByte(a, b) ==    \* mutant: a smaller byte anywhere decides
    \E i \in DOMAIN a : a[i] < b[i]

(* bytes32_less_than: the first byte that differs decides. *)
bytes32_less_than(a, b) ==
    \E i \in DOMAIN a : a[i] < b[i] /\ \A j \in 1 .. i - 1 : a[j] = b[j]

bytes32_less_than_or_equal(a, b) == a = b \/ bytes32_less_than(a, b)

(* validate_authorization_list: the errors, with the index they name. *)
EntryErrors(as, i, chain, order, half) ==
    LET a == as[i]
    IN  (IF a.chain_id # 0 /\ a.chain_id # chain THEN {<<"InvalidChainId", i>>} ELSE {})
          \cup (IF a.y_parity \notin {0, 1} THEN {<<"InvalidYParity", i>>} ELSE {})
          \cup (IF a.address = 0 THEN {<<"ZeroAddress", i>>} ELSE {})
          \cup (IF \E j \in 1 .. i - 1 : as[j].address = a.address
                  THEN {<<"DuplicateAuthorization", i>>} ELSE {})
          \cup (IF ~ bytes32_less_than(a.r, order) THEN {<<"SignatureRTooLarge", i>>} ELSE {})
          \cup (IF ~ bytes32_less_than_or_equal(a.s, half)
                  THEN {<<"SignatureSInUpperHalf", i>>} ELSE {})

validate_authorization_list(as, chain, order, half) ==
    (IF as = <<>> THEN {<<"EmptyAuthorizationList">>} ELSE {})
      \cup UNION {EntryErrors(as, i, chain, order, half) : i \in DOMAIN as}

-----------------------------------------------------------------------------
(* validate_state_access_request; slot is whether one is given and proof   *)
(* the length of the proof.  Subtraction saturates at 0.                   *)
validate_state_access_request(r, current, lookback, max_proof) ==
    LET oldest == Max({0, current - lookback})
    IN  IF r.block_number > current     THEN "BlockInFuture"
        ELSE IF r.block_number < oldest THEN "BlockTooOld"
        ELSE IF r.access_type = "StorageSlot" /\ ~ r.slot THEN "StorageSlotRequiredForType"
        ELSE IF r.access_type # "StorageSlot" /\ r.slot THEN "StorageSlotNotAllowedForType"
        ELSE IF r.proof > max_proof     THEN "ProofTooLarge"
        ELSE IF r.proof = 0 \/ r.proof % 32 # 0 THEN "InvalidProofEncoding"
        ELSE "Ok"

estimate_gas_cost(r) == 3000 + 16 * r.proof

-----------------------------------------------------------------------------
(* The EXECUTE precompile; an input is [transactions (their number),       *)
(* pre_state_root, anchor].                                                *)
default_rollup_config == [anchor_frequency |-> 32, max_gas_per_execution |-> 30000000]

validate_execute_input(in, config) ==
    LET f == config.anchor_frequency
        block == in.anchor.l1_block_number
    IN  (IF in.transactions = 0 THEN {<<"EmptyTransactions">>} ELSE {})
          \cup (IF in.pre_state_root = 0 THEN {<<"InvalidPreStateRoot">>} ELSE {})
          \cup (IF f = 0 THEN {<<"AnchorFrequencyViolation", 0, block>>}
                ELSE IF block % f # 0
                  THEN {<<"AnchorFrequencyViolation", (block \div f) * f, block>>}
                ELSE {})

mock_execute(in, config) ==
    LET gas == 21000 * in.transactions
    IN  IF in.transactions = 0 THEN [ok |-> FALSE, err |-> "EmptyTransactions"]
        ELSE IF in.pre_state_root = 0 THEN [ok |-> FALSE, err |-> "InvalidPreStateRoot"]
        ELSE IF gas > config.max_gas_per_execution THEN [ok |-> FALSE, err |-> "ExceedsGasLimit"]
        ELSE [ok |-> TRUE, gas_used |-> gas,
              post_state_root |-> <<in.pre_state_root, in.anchor.l1_state_root, in.transactions>>]

compute_execution_stats(runs) ==
    [executions_count   |-> Len(runs),
     total_gas_used     |-> FoldLeft(LAMBDA sum, r : sum + r.out.gas_used, 0, runs),
     total_transactions |-> FoldLeft(LAMBDA sum, r : sum + r.in.transactions, 0, runs)]

-----------------------------------------------------------------------------
WordValue(bytes, base) == FoldLeft(LAMBDA n, b : n * base + b, 0, bytes)

(* In an accepted authorization list every entry is for this chain or any, *)
(* no account is delegated twice, and r and s, read as numbers, lie in the *)
(* range the curve order allows; the checks leave nothing else out.        *)
AcceptedAuthorizationsSound(as, chain, order, half, base) ==
    validate_authorization_list(as, chain, order, half) = {} <=>
      /\ as # <<>>
      /\ \A i, j \in DOMAIN as : i # j => as[i].address # as[j].address
      /\ \A i \in DOMAIN as :
           /\ as[i].chain_id \in {0, chain} /\ as[i].y_parity \in {0, 1}
           /\ as[i].address # 0
           /\ WordValue(as[i].r, base) < WordValue(order, base)
           /\ WordValue(as[i].s, base) <= WordValue(half, base)

(* Accepted requests are inside the window and cost at least one node; a   *)
(* larger window or proof limit never rejects what a smaller one accepts.  *)
WindowIsMonotone(r, current, lookback, max_proof) ==
    validate_state_access_request(r, current, lookback, max_proof) = "Ok" =>
      /\ r.block_number + lookback >= current /\ r.block_number <= current
      /\ estimate_gas_cost(r) >= 3512
      /\ validate_state_access_request(r, current, lookback + 1, max_proof + 1) = "Ok"

(* What validate_execute_input accepts, mock_execute only refuses for gas, *)
(* which the default limit never does for so few transactions; the gas of  *)
(* several executions is that of their transactions; and the anchor block  *)
(* an error suggests would have been accepted.                             *)
ExecuteFollowsValidation(in, config) ==
    LET errors == validate_execute_input(in, config)
        out    == mock_execute(in, config)
    IN  /\ errors = {} => out.ok \/ out.err = "ExceedsGasLimit"
        /\ errors = {} => mock_execute(in, default_rollup_config).ok
        /\ out.ok =>
             LET stats == compute_execution_stats(<<[in |-> in, out |-> out], [in |-> in, out |-> out]>>)
             IN  stats.executions_count = 2 /\ stats.total_gas_used = 21000 * stats.total_transactions
        /\ \A e \in errors :
             e[1] = "AnchorFrequencyViolation" /\ config.anchor_frequency # 0 =>
               \A f \in validate_execute_input(
                           [in EXCEPT !.anchor.l1_block_number = e[2]], config) :
                   f[1] # "AnchorFrequencyViolation"

=============================================================================
