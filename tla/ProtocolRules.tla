---------------------------- MODULE ProtocolRules ---------------------------
(***************************************************************************)
(* Protocol rules kept in eth2077-types: fees, announcements, frames,      *)
(* execution proofs, slots, inclusion lists and witness sets.              *)
(***************************************************************************)
EXTENDS Records

-----------------------------------------------------------------------------
(***************************************************************************)
(* Multidimensional fees (eip7999.rs).  The parameters are a sequence of   *)
(* [dimension, base_fee, target_usage, max_usage], a usage a sequence of   *)
(* pairs of a dimension and an amount.  No sum comes near 2^128.           *)
(***************************************************************************)
DimensionParams(d, fee, target, max) ==
    [dimension |-> d, base_fee |-> fee, target_usage |-> target, max_usage |-> max]

Known(params, d) == \E i \in DOMAIN params : params[i].dimension = d

find_params(params, d) == params[Min({i \in DOMAIN params : params[i].dimension = d})]

(* The error the loop of compute_base_cost returns at position i, if any. *)
UsageError(params, usage, i) ==
    LET d == usage[i][1] IN
    IF i \in Repeats(Column(usage, 1)) THEN "DuplicateDimension"
    ELSE IF ~ Known(params, d) THEN "ZeroBaseFee"
    ELSE IF find_params(params, d).base_fee = 0 THEN "ZeroBaseFee"
    ELSE IF usage[i][2] > find_params(params, d).max_usage THEN "ExceedsMaxUsage"
    ELSE "none"

BaseCost(params, use) == find_params(params, use[1]).base_fee * use[2]

compute_base_cost(params, tx) ==
    LET usage == tx.resource_usage
        bad   == {i \in DOMAIN usage : UsageError(params, usage, i) # "none"}
    IN  IF usage = <<>> THEN [ok |-> FALSE, err |-> "NoResourceUsage"]
        ELSE IF bad # {} THEN [ok |-> FALSE, err |-> UsageError(params, usage, Min(bad))]
        ELSE [ok |-> TRUE, total |-> Total(usage, LAMBDA use : BaseCost(params, use))]

SharesOnly(paid, total, costs) ==    \* mutant: the remainder of the division is lost
    IF total = 0 THEN costs ELSE [i \in DOMAIN costs |-> costs[i] + (paid * costs[i]) \div total]

(* The priority fee is shared by base cost, the remainder goes to the first. *)
Allocated(paid, total, costs) ==
    LET share  == [i \in DOMAIN costs |-> IF total = 0 THEN 0 ELSE (paid * costs[i]) \div total]
        rest   == paid - Total(share, LAMBDA s : s)
    IN  [i \in DOMAIN costs |-> costs[i] + share[i] + IF i = 1 THEN rest ELSE 0]

compute_fee_allocation(params, tx) ==
    LET base  == compute_base_cost(params, tx)
        paid  == Min({tx.priority_fee, tx.max_fee - base.total})
        costs == [i \in DOMAIN tx.resource_usage |-> BaseCost(params, tx.resource_usage[i])]
    IN  IF ~ base.ok THEN base
        ELSE IF tx.max_fee < base.total THEN [ok |-> FALSE, err |-> "InsufficientFee"]
        ELSE [ok |-> TRUE, total_base_cost |-> base.total, priority_fee_paid |-> paid,
              total_fee |-> base.total + paid, base_costs |-> costs,
              allocated |-> Allocated(paid, base.total, costs)]

(* One block's update: an eighth up or down, and never to 0. *)
NextFee(p, used) ==
    LET step == p.base_fee \div 8
        fee  == IF used > p.target_usage THEN p.base_fee + step
                ELSE IF used < p.target_usage THEN p.base_fee - step ELSE p.base_fee
    IN  Max({1, fee})

Used(usage, d) ==
    LET mine == {i \in DOMAIN usage : usage[i][1] = d}
    IN  IF mine = {} THEN 0 ELSE usage[Min(mine)][2]

update_base_fees(params, usage) ==
    [i \in DOMAIN params |->
       [params[i] EXCEPT !.base_fee = NextFee(params[i], Used(usage, params[i].dimension))]]

validate_multidim_transaction(params, tx) ==
    LET usage == tx.resource_usage
        known == SelectSeq(usage, LAMBDA use : Known(params, use[1]))
    IN  When(usage = <<>>, "NoResourceUsage")
          \cup When(Repeats(Column(usage, 1)) # {}, "DuplicateDimension")
          \cup When(\E use \in ToSet(known) : use[2] > find_params(params, use[1]).max_usage,
                    "ExceedsMaxUsage")
          \cup When(Total(known, LAMBDA use : BaseCost(params, use)) > tx.max_fee,
                    "InsufficientFee")

-----------------------------------------------------------------------------
(* A paid transaction pays exactly what its dimensions are given, within   *)
(* its limits, at least the base cost to each.                             *)
AllocationsAddUp(params, tx) ==
    LET r == compute_fee_allocation(params, tx)
    IN  r.ok =>
          /\ Total(r.allocated, LAMBDA a : a) = r.total_fee
          /\ r.total_fee <= tx.max_fee /\ r.priority_fee_paid <= tx.priority_fee
          /\ \A i \in DOMAIN r.allocated : r.allocated[i] >= r.base_costs[i]

(* validate and the allocation agree where every dimension used is priced, *)
(* and after any block of usage every known dimension is.                  *)
ValidationPredictsAllocation(params, tx) ==
    LET priced == \A i \in DOMAIN tx.resource_usage :
                     /\ Known(params, tx.resource_usage[i][1])
                     /\ find_params(params, tx.resource_usage[i][1]).base_fee > 0
        valid  == validate_multidim_transaction(params, tx) = {}
        next   == update_base_fees(params, tx.resource_usage)
    IN  /\ compute_fee_allocation(params, tx).ok <=> valid /\ priced
        /\ \A i \in DOMAIN params :
             /\ next[i].base_fee >= 1
             /\ params[i].base_fee >= 1 =>
                  /\ 8 * next[i].base_fee <= 9 * params[i].base_fee
                  /\ 8 * next[i].base_fee >= 7 * params[i].base_fee

-----------------------------------------------------------------------------
(***************************************************************************)
(* Transaction announcements with sender and nonce (eip8077.rs).  A batch  *)
(* is a sequence of [hash, type, size, sender, nonce]; what the code       *)
(* builds by iterating over a hash map is a set.                           *)
(***************************************************************************)
Announcement(hash, type, size, sender, nonce) ==
    [tx_hash |-> hash, tx_type |-> type, tx_size |-> size, sender |-> sender, nonce |-> nonce]

validate_announcement_batch(batch) ==
    LET hashes == Column(batch, "tx_hash")
    IN  When(batch = <<>>, "EmptyBatch")
          \cup When(Repeats(hashes) # {}, "DuplicateTxHash")
          \cup When(\E a \in ToSet(batch) : a.tx_type > 3, "InvalidTxType")
          \cup When(\E a \in ToSet(batch) : a.tx_size = 0, "ZeroSize")

Senders(batch) == ToSet(Column(batch, "sender"))

Nonces(batch, sender) ==
    SortSeq(Column(SelectSeq(batch, LAMBDA a : a.sender = sender), "nonce"), <)

(* The pairs of neighbours that do not follow each other; an equal pair is one. *)
Gaps(nonces) == {i \in 2 .. Len(nonces) : nonces[i] # nonces[i - 1] + 1}

detect_nonce_gaps(batch) ==
    UNION {{<<s, Nonces(batch, s)[i - 1] + 1, Nonces(batch, s)[i]>> : i \in Gaps(Nonces(batch, s))}
             : s \in Senders(batch)}

compute_announcement_stats(batch) ==
    [total_announcements |-> Len(batch),
     unique_senders      |-> Cardinality(Senders(batch)),
     total_tx_bytes      |-> Total(batch, LAMBDA a : a.tx_size),
     nonce_summaries     |->
        [s \in Senders(batch) |->
           LET nonces == Nonces(batch, s)
           IN  [min_nonce |-> Head(nonces), max_nonce |-> Last(nonces), count |-> Len(nonces),
                has_gaps |-> Gaps(nonces) # {}]]]

NonceOnly(known, a, b) ==    \* mutant: executable transactions are not put first
    \/ a.nonce < b.nonce
    \/ a.nonce = b.nonce /\ a.sender < b.sender
    \/ a.nonce = b.nonce /\ a.sender = b.sender /\ a.tx_hash < b.tx_hash

Executable(known, a) == a.nonce = known[a.sender]

Before(known, a, b) ==
    \/ Executable(known, a) /\ ~ Executable(known, b)
    \/ /\ Executable(known, a) <=> Executable(known, b)
       /\ \/ a.nonce < b.nonce
          \/ a.nonce = b.nonce /\ a.sender < b.sender
          \/ a.nonce = b.nonce /\ a.sender = b.sender /\ a.tx_hash < b.tx_hash

(* known: the account nonces, 0 for the senders the map does not have. *)
prioritize_announcements(batch, known) ==
    SortSeq(SelectSeq(batch, LAMBDA a : a.nonce >= known[a.sender]),
            LAMBDA a, b : Before(known, a, b))

merge_announcement_batches(batches) ==
    FoldLeft(LAMBDA merged, a : IF \E i \in DOMAIN merged : merged[i].tx_hash = a.tx_hash
                                  THEN merged ELSE Append(merged, a),
             <<>>, FlattenSeq(batches))

-----------------------------------------------------------------------------
(* Merging batches that are each accepted gives an accepted batch with all *)
(* their hashes, whatever they share; merging again changes nothing.       *)
MergeIsIdempotent(batches) ==
    LET merged == merge_announcement_batches(batches)
    IN  /\ (\A i \in DOMAIN batches : validate_announcement_batch(batches[i]) = {}) /\ batches # <<>>
             => validate_announcement_batch(merged) = {}
        /\ ToSet(Column(merged, "tx_hash")) = ToSet(Column(FlattenSeq(batches), "tx_hash"))
        /\ merge_announcement_batches(Append(batches, merged)) = merged

(* The nonces of a sender without gaps are an interval, counted once; the  *)
(* summaries and the list of gaps agree.                                   *)
GapsAgree(batch) ==
    LET stats == compute_announcement_stats(batch)
    IN  \A s \in Senders(batch) :
          LET m == stats.nonce_summaries[s]
          IN  /\ m.has_gaps <=> \E g \in detect_nonce_gaps(batch) : g[1] = s
              /\ ~ m.has_gaps <=>
                   /\ ToSet(Nonces(batch, s)) = m.min_nonce .. m.max_nonce
                   /\ m.count = m.max_nonce - m.min_nonce + 1

(* What can be executed now is requested first, nothing below an account's *)
(* nonce is requested, and a sender's transactions keep their nonce order. *)
ExecutableFirst(batch, known) ==
    LET p == prioritize_announcements(batch, known)
    IN  /\ \A i \in DOMAIN p : p[i].nonce >= known[p[i].sender]
        /\ \A i \in DOMAIN p : \A j \in 1 .. i - 1 :
             /\ Executable(known, p[i]) => Executable(known, p[j])
             /\ p[i].sender = p[j].sender => p[j].nonce <= p[i].nonce
        /\ \A a \in ToSet(batch) : a.nonce >= known[a.sender] => a \in ToSet(p)

-----------------------------------------------------------------------------
(***************************************************************************)
(* Frame transactions (eip8141.rs): a sequence of frames [phase, target,   *)
(* calldata (its length), gas_limit, value].  A phase is its discriminant  *)
(* 0 .. 4, from Validation to Execution.                                   *)
(***************************************************************************)
MAX_TOTAL_GAS == 30000000

REQUIRED_PHASE_ORDER == <<0, 1, 2, 3, 4>>
Validation  == 0
Sponsorship == 2
Execution   == 4

Frame(phase, target, calldata, gas, value) ==
    [phase |-> phase, target |-> target, calldata |-> calldata, gas_limit |-> gas, value |-> value]

OrderUnchecked(frames) ==    \* mutant: the previous phase is never remembered
    FALSE

OutOfOrder(frames) ==
    \E i \in 2 .. Len(frames) : frames[i].phase < frames[i - 1].phase

validate_frame_transaction(tx) ==
    LET phases == Column(tx.frames, "phase")
    IN  When(tx.frames = <<>>, "EmptyFrames")
          \cup When(tx.signature = <<>>, "EmptySignature")
          \cup When(\E f \in ToSet(tx.frames) : f.gas_limit = 0, "ZeroGasLimit")
          \cup When(Repeats(phases) # {}, "DuplicatePhase")
          \cup When(OutOfOrder(tx.frames), "InvalidPhaseOrder")
          \cup When({Validation, Execution} \ ToSet(phases) # {}, "MissingPhase")
          \cup When(Total(tx.frames, LAMBDA f : f.gas_limit) > MAX_TOTAL_GAS,
                    "ExcessiveTotalGas")

compute_frame_tx_stats(tx) ==
    [frame_count          |-> Len(tx.frames),
     total_gas_limit      |-> Total(tx.frames, LAMBDA f : f.gas_limit),
     total_value          |-> Total(tx.frames, LAMBDA f : f.value),
     phases_present       |-> ToSet(Column(tx.frames, "phase")),
     total_calldata_bytes |-> Total(tx.frames, LAMBDA f : f.calldata)]

estimate_frame_tx_cost(tx, base_fee) ==
    Total(tx.frames, LAMBDA f : f.gas_limit * base_fee + f.value)

(* 0 for None. *)
extract_sponsorship_target(tx) ==
    LET mine == {i \in DOMAIN tx.frames : tx.frames[i].phase = Sponsorship}
    IN  IF mine = {} THEN 0 ELSE tx.frames[Min(mine)].target

-----------------------------------------------------------------------------
(* The frames of an accepted transaction run through the required order    *)
(* from its first phase to its last, skipping at most the three between;   *)
(* at most one frame sponsors, and the estimate covers gas and value.      *)
AcceptedFramesInOrder(tx, base_fee) ==
    LET s == compute_frame_tx_stats(tx)
    IN  validate_frame_transaction(tx) = {} =>
          /\ Column(tx.frames, "phase")
               = SelectSeq(REQUIRED_PHASE_ORDER, LAMBDA p : p \in s.phases_present)
          /\ Head(tx.frames).phase = Validation /\ Last(tx.frames).phase = Execution
          /\ Cardinality(s.phases_present) = s.frame_count
          /\ s.total_gas_limit <= MAX_TOTAL_GAS
          /\ IF Sponsorship \in s.phases_present
               THEN [phase |-> Sponsorship, target |-> extract_sponsorship_target(tx)]
                      \in {[phase |-> f.phase, target |-> f.target] : f \in ToSet(tx.frames)}
               ELSE extract_sponsorship_target(tx) = 0
          /\ estimate_frame_tx_cost(tx, base_fee) = s.total_gas_limit * base_fee + s.total_value

-----------------------------------------------------------------------------
(***************************************************************************)
(* Attestations of several execution proofs of one block (eip8025.rs).  A  *)
(* proof is [block_hash, state_root_after, proof_data (its length),        *)
(* prover_client].                                                         *)
(***************************************************************************)
ClientImplementation == {"Geth", "Nethermind", "Besu", "Erigon", "Reth"}

default_proof_config == [required_client_diversity |-> 3, total_known_clients |-> 5]

Clients(proofs) == ToSet(Column(proofs, "prover_client"))

RootsUnchecked(proofs) ==    \* mutant: each proof is compared with itself
    {}

(* Every root is compared with the first one. *)
RootMismatches(proofs) ==
    {i \in DOMAIN proofs : proofs[i].state_root_after # proofs[1].state_root_after}

validate_proof_attestation(a, c) ==
    When(a.proofs = <<>>, "EmptyProofs")
      \cup When(\E p \in ToSet(a.proofs) : p.block_hash # a.block_hash, "BlockHashMismatch")
      \cup When(Repeats(Column(a.proofs, "prover_client")) # {}, "DuplicateClient")
      \cup When(\E p \in ToSet(a.proofs) : p.proof_data = 0, "ProofDataEmpty")
      \cup When(RootMismatches(a.proofs) # {}, "StateRootMismatch")
      \cup When(Cardinality(Clients(a.proofs)) < c.required_client_diversity,
                "InsufficientClientDiversity")

compute_attestation_stats(a, c) ==
    [unique_clients            |-> Cardinality(Clients(a.proofs)),
     total_proof_bytes         |-> Total(a.proofs, LAMBDA p : p.proof_data),
     meets_diversity_threshold |-> Cardinality(Clients(a.proofs)) >= c.required_client_diversity,
     state_roots_consistent    |->
        a.proofs = <<>> \/ \A p \in ToSet(a.proofs) :
                               p.state_root_after = a.proofs[1].state_root_after]

check_client_diversity(proofs, required) == Cardinality(Clients(proofs)) >= required

-----------------------------------------------------------------------------
(* An accepted attestation needs no trust in one client: that many         *)
(* different clients prove one root, one proof each; the verdict does not  *)
(* depend on the order of the proofs, though they are compared with the    *)
(* first one only.                                                         *)
AcceptedProofsAgree(a, c) ==
    /\ validate_proof_attestation(a, c) = {} =>
         LET s == compute_attestation_stats(a, c)
         IN  /\ s.meets_diversity_threshold /\ s.state_roots_consistent
             /\ s.unique_clients = Len(a.proofs)
             /\ \A i, j \in DOMAIN a.proofs :
                   a.proofs[i].state_root_after = a.proofs[j].state_root_after
             /\ s.total_proof_bytes >= c.required_client_diversity
    /\ validate_proof_attestation(a, c)
         = validate_proof_attestation([a EXCEPT !.proofs = Reverse(@)], c)
    /\ check_client_diversity(a.proofs, c.required_client_diversity)
         <=> compute_attestation_stats(a, c).meets_diversity_threshold

-----------------------------------------------------------------------------
(***************************************************************************)
(* The rules of the types crate for a slot's payload (epbs.rs) and for its *)
(* inclusion list (focil.rs).  A header is [slot, root], an envelope       *)
(* [slot, root, data_available, revealed_at]; a list is a sequence of      *)
(* [validator, hash, gas, fee, deadline].                                  *)
(***************************************************************************)
NoneGiven == [slot |-> -1]

validate_envelope_against_header(h, e) ==
    IF e.slot # h.slot      THEN "EnvelopeSlotMismatch"
    ELSE IF e.root # h.root THEN "EnvelopeHeaderRootMismatch"
    ELSE "Ok"

LateAtDeadline(e, deadline) ==    \* mutant: a reveal at the deadline is late
    e.revealed_at >= deadline

is_late(e, deadline) == e.revealed_at > deadline

determine_timeliness(h, e, deadline) ==
    CASE h = NoneGiven /\ e = NoneGiven -> "Unknown"
      [] h # NoneGiven /\ e = NoneGiven -> "HeaderOnly"
      [] h = NoneGiven /\ e # NoneGiven -> "OrphanEnvelope"
      [] OTHER ->
           IF e.data_available THEN IF is_late(e, deadline) THEN "LateReveal" ELSE "Revealed"
           ELSE IF is_late(e, deadline) THEN "Withheld" ELSE "PartialReveal"

check_header_conflict(existing, incoming) ==
    IF incoming.slot # existing.slot      THEN "HeaderSlotMismatch"
    ELSE IF incoming.root = existing.root THEN "Ok"
    ELSE "ConflictingHeaderRegistration"

validate_slot_range(start, end, max_window) == end >= start /\ end - start <= max_window

-----------------------------------------------------------------------------
Entry(validator, hash, gas, fee, deadline) ==
    [validator_index |-> validator, tx_hash |-> hash, gas_limit |-> gas, max_fee_per_gas |-> fee,
     inclusion_deadline_slot |-> deadline]

validate_inclusion_list(list, slot, max_entries, gas_limit) ==
    When(list = <<>>, "EmptyList")
      \cup When(Len(list) > max_entries, "TooManyEntries")
      \cup When(Repeats(Column(list, "tx_hash")) # {}, "DuplicateTxHashes")
      \cup When(\E e \in ToSet(list) : slot > e.inclusion_deadline_slot, "ExpiredDeadline")
      \cup When(Total(list, LAMBDA e : e.gas_limit) > gas_limit, "GasLimitExceeded")

(* The required hashes that are missing, each once, in the list's order.   *)
check_block_satisfies_inclusion_list(included, list) ==
    FoldLeft(LAMBDA missing, e : IF e.tx_hash \in included \/ e.tx_hash \in ToSet(missing)
                                   THEN missing ELSE Append(missing, e.tx_hash), <<>>, list)

compute_inclusion_stats(list) ==
    LET deadlines == ToSet(Column(list, "inclusion_deadline_slot"))
    IN  [entry_count             |-> Len(list),
         unique_validator_count  |-> Cardinality(ToSet(Column(list, "validator_index"))),
         unique_tx_count         |-> Cardinality(ToSet(Column(list, "tx_hash"))),
         total_gas_limit         |-> Total(list, LAMBDA e : e.gas_limit),
         min_deadline_slot       |-> IF list = <<>> THEN -1 ELSE Min(deadlines),
         max_deadline_slot       |-> IF list = <<>> THEN -1 ELSE Max(deadlines),
         average_max_fee_per_gas |->
            IF list = <<>> THEN 0 ELSE Total(list, LAMBDA e : e.max_fee_per_gas) \div Len(list)]

-----------------------------------------------------------------------------
(* A reveal is timely up to and including the deadline devnetd computes    *)
(* for the slot, a later deadline never makes it late, and an envelope is  *)
(* only judged against a header it belongs to.                             *)
TimelinessIsMonotone(h, e, deadline) ==
    LET status(d) == determine_timeliness(h, e, d)
        early     == {"Revealed", "PartialReveal"}
    IN  /\ h # NoneGiven /\ e # NoneGiven =>
             /\ status(deadline) \in early => status(deadline + 1) \in early
             /\ status(e.revealed_at) \in early
             /\ check_header_conflict(h, e) = "Ok" <=> validate_envelope_against_header(h, e) = "Ok"
        /\ (h = NoneGiven \/ e = NoneGiven) => status(deadline) = status(deadline + 1)

(* Whoever may ask for a range may ask for each of its parts, and no       *)
(* accepted range has more than max_window + 1 slots.                      *)
PartsOfRangeAccepted(start, end, max_window) ==
    validate_slot_range(start, end, max_window) =>
      /\ Cardinality(start .. end) \in 1 .. max_window + 1
      /\ \A s \in start .. end : \A e \in s .. end : validate_slot_range(s, e, max_window)

(* A block with room for the list satisfies it by including its hashes and *)
(* not by including fewer; an accepted list was acceptable at every        *)
(* earlier slot and is until its first deadline.                           *)
AcceptedListIsSatisfiable(list, slot, max_entries, gas_limit) ==
    LET s      == compute_inclusion_stats(list)
        hashes == ToSet(Column(list, "tx_hash"))
        valid(n) == validate_inclusion_list(list, n, max_entries, gas_limit) = {}
    IN  /\ valid(slot) =>
             /\ s.total_gas_limit <= gas_limit /\ s.unique_tx_count = s.entry_count
             /\ \A n \in 0 .. slot : valid(n)
             /\ valid(s.min_deadline_slot) /\ ~ valid(s.min_deadline_slot + 1)
        /\ \A included \in SUBSET hashes :
             LET missing == check_block_satisfies_inclusion_list(included, list)
             IN  /\ ToSet(missing) = hashes \ included
                 /\ Len(missing) = Cardinality(ToSet(missing))

-----------------------------------------------------------------------------
(***************************************************************************)
(* Witness identifiers (witness.rs) and the XOR fingerprint of a set of    *)
(* them (spore_sync.rs).  A byte is the set of its one bits, so that XOR   *)
(* is the symmetric difference; an identifier's hash has Width bytes.      *)
(***************************************************************************)
Xor(a, b) == (a \ b) \cup (b \ a)

(* WitnessCid::from_payload: the serialized bytes folded into Width bytes. *)
from_payload(bytes, Width) ==
    [hash |-> [k \in 0 .. Width - 1 |->
                 FoldLeft(LAMBDA acc, i : IF (i - 1) % Width = k THEN Xor(acc, bytes[i]) ELSE acc,
                          {}, [i \in DOMAIN bytes |-> i])],
     codec |-> 1, version |-> 1]

(* verify_binding; a payload is [bytes, proof_data (its length), block_hash]. *)
verify_binding(c, payload, Width) ==
    IF payload.proof_data = 0 THEN "MissingProofData"
    ELSE IF from_payload(payload.bytes, Width) # c.cid THEN "InvalidCid"
    ELSE IF \A i \in DOMAIN c.proposer_signature : c.proposer_signature[i] = 0
      THEN "SignatureInvalid"
    ELSE IF c.block_hash # payload.block_hash THEN "MismatchedStateRoot"
    ELSE "Valid"

-----------------------------------------------------------------------------
(* SporeFingerprint *)
new == [xor_accumulator |-> {}, count |-> 0]

insert(f, cid) == [xor_accumulator |-> Xor(f.xor_accumulator, cid), count |-> f.count + 1]

RemoveKeepsCount(f, cid) ==    \* mutant: the count is not taken back
    [f EXCEPT !.xor_accumulator = Xor(@, cid)]

remove(f, cid) ==
    [xor_accumulator |-> Xor(f.xor_accumulator, cid), count |-> Max({0, f.count - 1})]

is_synced_with(f, g) == f = g

difference(f, g) == Xor(f.xor_accumulator, g.xor_accumulator)

(* A sequence of operations [op, cid], and the set they leave. *)
Apply(f, o) == IF o.op = "insert" THEN insert(f, o.cid) ELSE remove(f, o.cid)

Fingerprint(ops) == FoldLeft(Apply, new, ops)

(* Every insertion is of an identifier that is absent, every removal of a  *)
(* present one: how a set calls the fingerprint.                           *)
Present(ops) ==
    FoldLeft(LAMBDA S, o : IF o.op = "insert" THEN S \cup {o.cid} ELSE S \ {o.cid}, {}, ops)

OfASet(ops) ==
    \A i \in DOMAIN ops :
        ops[i].op = "insert" <=> ops[i].cid \notin Present(SubSeq(ops, 1, i - 1))

-----------------------------------------------------------------------------
(* A commitment made for a payload verifies it, and no longer does when a  *)
(* byte of the payload has changed.                                        *)
BindingCatchesAChange(payload, i, byte, Width) ==
    LET c == [cid |-> from_payload(payload.bytes, Width), block_hash |-> payload.block_hash,
              proposer_signature |-> <<1>>]
        changed == [payload EXCEPT !.bytes[i] = byte]
    IN  payload.proof_data > 0 =>
          /\ verify_binding(c, payload, Width) = "Valid"
          /\ changed # payload => verify_binding(c, changed, Width) = "InvalidCid"

(* Two sets built by any insertions and removals in any order: the         *)
(* fingerprints are in sync when the sets are equal; when they differ in   *)
(* one identifier they are not, and the difference is that identifier.     *)
FingerprintFollowsSet(ops, others) ==
    LET f == Fingerprint(ops)
        g == Fingerprint(others)
        S == Present(ops)
        T == Present(others)
    IN  OfASet(ops) /\ OfASet(others) =>
          /\ f.count = Cardinality(S)
          /\ S = T => is_synced_with(f, g)
          /\ \A cid \in S : S = T \cup {cid} /\ S # T =>
               ~ is_synced_with(f, g) /\ difference(f, g) = cid

=============================================================================
