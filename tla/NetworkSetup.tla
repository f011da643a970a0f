---------------------------- MODULE NetworkSetup ----------------------------
(***************************************************************************)
(* Setting a network up and joining it (eth2077-types): key ceremony,      *)
(* genesis file, chain specification, snapshots and bootnodes.             *)
(***************************************************************************)
EXTENDS Records, Functions

-----------------------------------------------------------------------------
(***************************************************************************)
(* The validator key ceremony (validator_ceremony.rs).  Metadata is a set  *)
(* of pairs of texts, here sequences of bytes below 255, since the         *)
(* commitment joins them by bytes; times are in days.                      *)
(***************************************************************************)
SignerProtocol == {"Local", "RemoteGrpc", "RemoteHttp", "Hsm", "ThresholdBls", "Distributed"}
KeyStatus      == {"Generated", "Distributed", "Verified", "Active", "Revoked", "Expired"}
SecurityLevel  == {"Standard", "Enhanced", "AirGapped", "MultiParty", "FormallyVerified",
                   "PostQuantum"}

ValidatorKey(status, signer, generated_at) ==
    [status |-> status, signer |-> signer, generated_at |-> generated_at]

default_validator_ceremony_config ==
    [validator_count |-> 128, threshold |-> 86, protocol |-> "ThresholdBls",
     security |-> "MultiParty", rotation_period_days |-> 90, require_air_gap |-> TRUE,
     metadata |-> {}]

security_meets_air_gap_requirement(s) ==
    s \in {"AirGapped", "MultiParty", "FormallyVerified", "PostQuantum"}

is_terminal_key_status(s) == s \in {"Active", "Revoked", "Expired"}

validate_validator_ceremony_config(c) ==
    When(c.validator_count = 0, "validator_count")
      \cup When(\/ c.threshold \notin 1 .. c.validator_count
                \/ c.protocol \in {"ThresholdBls", "Distributed"} /\ c.threshold < 2, "threshold")
      \cup When(\/ c.rotation_period_days \notin 1 .. 3650
                \/ c.security = "PostQuantum" /\ c.rotation_period_days > 180,
                "rotation_period_days")
      \cup When(c.require_air_gap /\ ~ security_meets_air_gap_requirement(c.security), "security")
      \cup When(c.security = "AirGapped" /\ c.protocol = "RemoteHttp", "protocol")

(* The average age as the sum of the ages. *)
compute_validator_ceremony_stats(keys) ==
    LET newest == Max(ToSet(Column(keys, "generated_at")) \cup {0})
        active == Count(keys, LAMBDA k : k.status = "Active")
    IN  [total_keys            |-> Len(keys), active_keys |-> active,
         revoked_keys          |-> Count(keys, LAMBDA k : k.status = "Revoked"),
         avg_key_age_days      |-> Total(keys, LAMBDA k : newest - k.generated_at),
         protocol_distribution |-> Sorted(Column(keys, "signer")),
         ceremony_complete     |-> active > 0 /\ \A i \in DOMAIN keys :
                                                    is_terminal_key_status(keys[i].status)]

Lexicographic(a, b) ==
    \/ Len(a) < Len(b) /\ a = SubSeq(b, 1, Len(a))
    \/ \E i \in DOMAIN a \cap DOMAIN b : a[i] < b[i] /\ \A j \in 1 .. i - 1 : a[j] = b[j]

Undelimited(entry) ==    \* mutant: key and value are run together
    entry[1] \o entry[2] \o <<255>>

Delimited(entry) == entry[1] \o <<0>> \o entry[2] \o <<255>>

compute_validator_ceremony_commitment(c) ==
    LET entries == SetToSortSeq(c.metadata, LAMBDA a, b : Lexicographic(a[1], b[1]))
    IN  <<c.validator_count, c.threshold, c.protocol, c.security, c.rotation_period_days,
          c.require_air_gap, FlattenSeq([i \in DOMAIN entries |-> Delimited(entries[i])])>>

-----------------------------------------------------------------------------
(* A quorum of an accepted ceremony is one of its validators, and shared   *)
(* signing takes two; what protects a key is not lost when the air gap is  *)
(* asked for as well.                                                      *)
AcceptedCeremonyHasQuorum(c) ==
    validate_validator_ceremony_config(c) = {} =>
      /\ c.threshold \in 1 .. c.validator_count
      /\ c.protocol \in {"ThresholdBls", "Distributed"} => c.validator_count >= 2
      /\ c.security \notin {"Standard", "Enhanced"} <=>
           validate_validator_ceremony_config([c EXCEPT !.require_air_gap = TRUE]) = {}

(* A complete ceremony stays complete while its keys are retired, up to    *)
(* the last active one, and a key that is still on its way undoes it.      *)
CompletionFollowsKeys(keys) ==
    LET s(ks) == compute_validator_ceremony_stats(ks)
    IN  \A i \in DOMAIN keys :
          /\ s(keys).ceremony_complete =>
               (s([keys EXCEPT ![i].status = "Revoked"]).ceremony_complete
                  <=> keys[i].status # "Active" \/ s(keys).active_keys > 1)
          /\ ~ s([keys EXCEPT ![i].status = "Verified"]).ceremony_complete

(* Two configurations whose metadata keys hold no delimiter have the same  *)
(* commitment only when they are the same.                                 *)
CommitmentTellsApart(c, d) ==
    LET plain(x) == \A e \in x.metadata : 0 \notin ToSet(e[1])
    IN  plain(c) /\ plain(d) =>
          (compute_validator_ceremony_commitment(c) = compute_validator_ceremony_commitment(d)
             <=> c = d)

-----------------------------------------------------------------------------
(***************************************************************************)
(* The genesis configuration and its allocations (genesis_builder.rs).     *)
(* Metadata is a function from the keys present to values: a number, or    *)
(* Unparsable for a text that is no number, or Blank.  The seed is its     *)
(* length, amounts are in units of 10^9 gwei.  An address is a text with a *)
(* letter case, <<core, padding, case>>.                                   *)
(***************************************************************************)
Unparsable == -1
Blank      == -2
MIN_SEED_LEN == 8

GenesisAllocation(address, kind, amount, is_validator) ==
    [address |-> address, kind |-> kind, amount_gwei |-> amount, is_validator |-> is_validator]

default_genesis_builder_config ==
    [chain_id |-> 2077, genesis_time |-> 1893456000, validator_count |-> 64,
     signing_scheme |-> "Aggregate", artifact_format |-> "Ssz", seed |-> 20,
     min_deposit |-> 32, metadata |-> [k \in {"aggregate.domain"} |-> Unparsable]]

require_metadata_key(metadata, key) == When(key \notin DOMAIN metadata, key)

(* parse_required_usize: is there a number under the key. *)
Parses(metadata, key) == key \in DOMAIN metadata /\ metadata[key] >= 0

(* Both validate_multisig_metadata and validate_threshold_metadata. *)
QuorumErrors(metadata, total, quorum) ==
    When(~ Parses(metadata, total), total) \cup When(~ Parses(metadata, quorum), quorum)
      \cup IF Parses(metadata, total) /\ Parses(metadata, quorum)
             THEN When(metadata[total] = 0, total)
                    \cup When(metadata[quorum] \notin 1 .. metadata[total], quorum)
             ELSE {}

validate_signing_metadata(c) ==
    CASE c.signing_scheme = "MultiSig"  ->
           QuorumErrors(c.metadata, "multisig.participants", "multisig.threshold")
      [] c.signing_scheme = "Threshold" ->
           QuorumErrors(c.metadata, "threshold.total_shares", "threshold.quorum")
      [] c.signing_scheme = "Aggregate" -> require_metadata_key(c.metadata, "aggregate.domain")
      [] OTHER -> {}

validate_artifact_metadata(c) ==
    CASE c.artifact_format = "CompressedSsz" -> require_metadata_key(c.metadata, "compression.codec")
      [] c.artifact_format = "HexEncoded"    -> require_metadata_key(c.metadata, "hex.case")
      [] OTHER -> {}

validate_genesis_builder_config(c) ==
    When(c.chain_id = 0, "chain_id")
      \cup When(c.genesis_time = 0, "genesis_time")
      \cup When(c.validator_count = 0, "validator_count")
      \cup When(c.seed < MIN_SEED_LEN, "deterministic_seed")
      \cup When(c.min_deposit < 1, "min_deposit_gwei")
      \cup When(\E k \in DOMAIN c.metadata : c.metadata[k] = Blank, "metadata")
      \cup validate_signing_metadata(c) \cup validate_artifact_metadata(c)

is_validator_deposit(a) == a.is_validator \/ a.kind = "ValidatorDeposit"

AddressVerbatim(address) ==    \* mutant: the address is hashed as it is spelled
    address

normalize_address(address) == <<address[1], 0, "lower">>

canonical_allocation_record(a) == [a EXCEPT !.address = normalize_address(@)]

compute_genesis_builder_commitment(c) == c

compute_artifact_hash(c, records) == <<compute_genesis_builder_commitment(c), Sorted(records)>>

compute_genesis_builder_stats(allocations, c) ==
    LET deposits == SelectSeq(allocations, is_validator_deposit)
        records  == [i \in DOMAIN allocations |-> canonical_allocation_record(allocations[i])]
    IN  [total_allocations  |-> Len(allocations),
         validator_deposits |-> Len(deposits),
         total_gwei         |-> Total(allocations, LAMBDA a : a.amount_gwei),
         unique_addresses   |-> Cardinality(ToSet(Column(records, "address"))),
         signing_complete   |-> /\ validate_genesis_builder_config(c) = {}
                                /\ Len(deposits) >= c.validator_count
                                /\ \A i \in DOMAIN deposits : deposits[i].amount_gwei >= c.min_deposit,
         artifact_hash      |-> compute_artifact_hash(c, records)]

-----------------------------------------------------------------------------
(* The artifact is the allocations, not how their file spells or orders    *)
(* them; one artifact hash stands for one set of figures and one verdict.  *)
ArtifactFixesGenesis(as, bs, c) ==
    LET s == compute_genesis_builder_stats(as, c)
        t == compute_genesis_builder_stats(bs, c)
        respelled == [i \in DOMAIN as |-> [as[i] EXCEPT !.address = <<@[1], 1 - @[2], "upper">>]]
    IN  /\ s.artifact_hash = t.artifact_hash => s = t
        /\ compute_genesis_builder_stats(Reverse(respelled), c) = s

(* A signed genesis can reach its quorum: the stake is at least that of    *)
(* every validator counted, and a quorum of signers is one of those there  *)
(* are.                                                                    *)
SignedGenesisIsFunded(as, c) ==
    LET s == compute_genesis_builder_stats(as, c)
    IN  s.signing_complete =>
          /\ s.total_gwei >= c.validator_count * c.min_deposit
          /\ c.validator_count >= 1 /\ s.total_allocations >= c.validator_count
          /\ c.signing_scheme = "MultiSig" =>
               c.metadata["multisig.threshold"] \in 1 .. c.metadata["multisig.participants"]
          /\ c.signing_scheme = "Threshold" =>
               c.metadata["threshold.quorum"] \in 1 .. c.metadata["threshold.total_shares"]

-----------------------------------------------------------------------------
(***************************************************************************)
(* Frozen chain specifications (chain_spec.rs).  A name or an EIP is a     *)
(* text with its case, <<core, padding, case>>, without line breaks;       *)
(* metadata is a function from trimmed keys to texts.                      *)
(***************************************************************************)
NetworkKind == {"Mainnet", "Testnet", "Devnet", "Shadow", "Local", "Custom"}
ForkPhase   == {"Scheduled", "Activated", "Deprecated", "Cancelled", "Pending", "Emergency"}

ForkEntry(name, phase, epoch, eips, change, metadata) ==
    [name |-> name, phase |-> phase, activation_epoch |-> epoch, eips |-> eips, consensus_change |-> change,
     metadata |-> metadata]

default_chain_spec_config ==
    LET text(n) == <<n, 0>>
        name(n) == <<n, 0, "lower">>
        eip(n)  == <<n, 0, "upper">>
        notes   == [ticket |-> text(1), rollout |-> text(2)]
    IN  [chain_id |-> 20770001, network |-> "Testnet", consensus |-> "ProofOfStake", status |-> "Draft",
         genesis_time |-> 1766000000, slots_per_epoch |-> 32, seconds_per_slot |-> 12,
         forks |-> <<ForkEntry(name(1), "Activated", 0, <<eip(1559), eip(4895)>>, FALSE, notes),
                     ForkEntry(name(2), "Scheduled", 12000, <<eip(7002), eip(7251)>>, TRUE, notes),
                     ForkEntry(name(3), "Pending", 24000, <<eip(7623)>>, FALSE, notes)>>,
         metadata |-> [spec_version |-> text(1), owner |-> text(2), profile |-> text(3)]]

Given(metadata, key) == key \in DOMAIN metadata /\ ~ is_empty(metadata[key])

EmptyKey(metadata) == "" \in DOMAIN metadata

NamesVerbatim(forks) == Repeats([i \in DOMAIN forks |-> forks[i].name])    \* mutant: spellings tell names apart

DuplicateNames(forks) == Repeats([i \in DOMAIN forks |-> trim(forks[i].name)])

BadEips(fork) ==
    LET named == SelectSeq(fork.eips, LAMBDA e : ~ is_empty(e))
    IN  Len(named) < Len(fork.eips) \/ Repeats([i \in DOMAIN named |-> trim(named[i])]) # {}

(* An epoch is compared with that of the fork before it. *)
validate_chain_spec_config(c) ==
    LET fs == c.forks
    IN  When(c.chain_id = 0, "chain_id")
          \cup When(c.genesis_time = 0, "genesis_time")
          \cup When(c.slots_per_epoch = 0, "slots_per_epoch")
          \cup When(c.seconds_per_slot = 0, "seconds_per_slot")
          \cup When(fs = <<>>, "forks")
          \cup When(~ Given(c.metadata, "spec_version"), "metadata.spec_version")
          \cup When(EmptyKey(c.metadata), "metadata")
          \cup When(c.network = "Custom" /\ ~ Given(c.metadata, "network_name"), "metadata.network_name")
          \cup When((\E i \in DOMAIN fs : is_empty(fs[i].name)) \/ DuplicateNames(fs) # {}, "forks.name")
          \cup When(\/ \E i \in DOMAIN fs : fs[i].phase \in {"Scheduled", "Pending"} /\ fs[i].activation_epoch = 0
                    \/ \E i \in DOMAIN fs : i > 1 /\ fs[i].activation_epoch < fs[i - 1].activation_epoch,
                    "forks.activation_epoch")
          \cup When(\E i \in DOMAIN fs : BadEips(fs[i]), "forks.eips")
          \cup When(\E i \in DOMAIN fs : EmptyKey(fs[i].metadata), "forks.metadata")

resolve_spec_version(c) ==
    IF Given(c.metadata, "spec_version") THEN [given |-> trim(c.metadata["spec_version"])]
    ELSE [status |-> c.status, chain_id |-> c.chain_id, forks |-> Len(c.forks)]

EipsOf(fork) == {trim(fork.eips[i]) : i \in DOMAIN fork.eips} \ {0}

compute_chain_spec_stats(c) ==
    [total_forks |-> Len(c.forks),
     active_forks |-> Count(c.forks, LAMBDA f : f.phase = "Activated"),
     pending_forks |-> Count(c.forks, LAMBDA f : f.phase \in {"Pending", "Scheduled"}),
     eip_count |-> Cardinality(UNION {EipsOf(c.forks[i]) : i \in DOMAIN c.forks}),
     has_consensus_changes |-> \E i \in DOMAIN c.forks : c.forks[i].consensus_change,
     spec_version |-> resolve_spec_version(c)]

(* The forks are hashed in their order and in their spelling. *)
compute_chain_spec_commitment(c) == <<c, resolve_spec_version(c)>>

-----------------------------------------------------------------------------
(* An accepted specification has one schedule: a fork is found by its name *)
(* however it is written, no rearrangement that is accepted too changes    *)
(* which epoch comes when though it has a commitment of its own, and a     *)
(* fork counts each of its EIPs once (chain_spec.rs:227,379,424).          *)
AcceptedScheduleIsUnique(c) ==
    LET epochs(d) == [i \in DOMAIN d.forks |-> d.forks[i].activation_epoch]
        back      == [c EXCEPT !.forks = Reverse(@)]
        stats     == compute_chain_spec_stats(c)
    IN  validate_chain_spec_config(c) = {} =>
          /\ \A i, j \in DOMAIN c.forks : trim(c.forks[i].name) = trim(c.forks[j].name) => i = j
          /\ validate_chain_spec_config(back) = {} => epochs(back) = epochs(c)
          /\ back.forks # c.forks => compute_chain_spec_commitment(back) # compute_chain_spec_commitment(c)
          /\ stats = compute_chain_spec_stats(back)
          /\ stats.eip_count <= Total(c.forks, LAMBDA f : Len(f.eips))
          /\ \A i \in DOMAIN c.forks : Cardinality(EipsOf(c.forks[i])) = Len(c.forks[i].eips)
          /\ stats.active_forks + stats.pending_forks <= stats.total_forks

-----------------------------------------------------------------------------
(***************************************************************************)
(* Snapshot synchronisation (snapshot_sync.rs): progress of a session,     *)
(* checks of the configuration and figures over all sessions.              *)
(*                                                                         *)
(* A percentage is [num, den]: num / den.  Zero roots are 0, NotSet is no  *)
(* time or limit, and a bandwidth is its whole Mbps, NaN for what is not   *)
(* finite.  Averages are sums.                                             *)
(***************************************************************************)
SyncPhase == <<"Discovery", "Download", "Verification", "Application", "Finalization">>
CheckpointSource == {"Beacon", "ExecutionLayer", "ExternalOracle", "BootstrapNode"}

NotSet == -1
NaN    == -9

SyncSession(id, snapshot, phase, downloaded, verified, total, ended, repairs) ==
    [id |-> id, snapshot_id |-> snapshot, phase |-> phase, chunks_downloaded |-> downloaded,
     chunks_verified |-> verified, chunks_total |-> total, started_at_unix |-> 1, ended_at_unix |-> ended,
     bandwidth |-> 1, repair_attempts |-> repairs]

is_verified(c)  == c.verified_by_count > 0 /\ c.block_root # 0 /\ c.state_root # 0
is_completed(s) == s.ended_at_unix # NotSet
duration_s(s)   == IF is_completed(s) THEN Max({0, s.ended_at_unix - s.started_at_unix}) ELSE NotSet
bandwidth_mbps(s) == IF s.bandwidth = NaN THEN 0 ELSE Max({0, s.bandwidth})

phase_floor(phase) == [Discovery |-> 0, Download |-> 5, Verification |-> 40, Application |-> 80,
                       Finalization |-> 95][phase]

Finished(s) == s.phase = "Finalization" /\ is_completed(s)

(* 70 for what is downloaded and 30 for what is verified, at least what    *)
(* the phase stands for.                                                   *)
progress_pct(s) ==
    LET total    == s.chunks_total
        weighted == 70 * Min({s.chunks_downloaded, total}) + 30 * Min({s.chunks_verified, total})
    IN  IF total = 0 THEN [num |-> IF Finished(s) THEN 100 ELSE 0, den |-> 1]
        ELSE [num |-> IF Finished(s) THEN 100 * total
                      ELSE Min({100 * total, Max({weighted, phase_floor(s.phase) * total})}), den |-> total]

(* One error of a field stands for all of its messages. *)
validate_sync(c) ==
    When(c.max_snapshot_age_slots = 0, "max_snapshot_age_slots")
      \cup When(c.min_chunk_peers = 0 \/ c.min_chunk_peers > 4 * c.max_concurrent_downloads, "min_chunk_peers")
      \cup When(c.max_concurrent_downloads = 0, "max_concurrent_downloads")
      \cup When(\/ c.verification_parallelism = 0
                \/ c.verification_parallelism > 8 * c.max_concurrent_downloads, "verification_parallelism")
      \cup When(c.max_repair_attempts = 0, "max_repair_attempts")
      \cup When(c.checkpoint_sources = <<>> \/ Repeats(c.checkpoint_sources) # {}, "checkpoint_sources")
      \cup When(c.preferred_format = "DiffBased" /\ c.min_chunk_peers < 2, "preferred_format")
      \cup When(c.bandwidth_limit_mbps # NotSet /\ c.bandwidth_limit_mbps \notin 1 .. 1000000, "bandwidth_limit_mbps")

DefaultSyncConfig ==
    [max_snapshot_age_slots |-> 8192, min_chunk_peers |-> 3, max_concurrent_downloads |-> 8,
     verification_parallelism |-> 4, max_repair_attempts |-> 3, preferred_format |-> "Full",
     checkpoint_sources |-> <<"Beacon", "ExecutionLayer">>, bandwidth_limit_mbps |-> NotSet]

-----------------------------------------------------------------------------
ChunksUncapped(s) == Max({s.chunks_downloaded, s.chunks_verified})    \* mutant: more chunks than there are

CompletedChunks(s) == Min({Max({s.chunks_downloaded, s.chunks_verified}), s.chunks_total})

(* Of several snapshots with one id the last gives the size. *)
SizeOf(snapshots, id) ==
    LET is == {i \in DOMAIN snapshots : snapshots[i].id = id}
    IN  IF is = {} THEN 0 ELSE snapshots[Max(is)].size_bytes

(* [num, den] bytes *)
estimate_synced_bytes(s, snapshots) ==
    LET size == SizeOf(snapshots, s.snapshot_id)
    IN  IF s.chunks_total = 0
          THEN IF is_completed(s) THEN [num |-> size, den |-> 1]
               ELSE [num |-> size * progress_pct(s).num, den |-> 100]
          ELSE [num |-> size * CompletedChunks(s), den |-> s.chunks_total]

AddBytes(a, b) == [num |-> a.num * b.den + b.num * a.den, den |-> a.den * b.den]

compute_sync_stats(snapshots, checkpoints, sessions) ==
    [snapshots_available     |-> Len(snapshots),
     checkpoints_verified    |-> Count(checkpoints, is_verified),
     sync_sessions_completed |-> Count(sessions, is_completed),
     duration_sum            |-> Total(SelectSeq(sessions, is_completed), duration_s),
     bandwidth_sum           |-> Total(sessions, bandwidth_mbps),
     repair_sessions         |-> Count(sessions, LAMBDA s : s.repair_attempts > 0),
     data_synced             |-> FoldLeft(LAMBDA sum, s : AddBytes(sum, estimate_synced_bytes(s, snapshots)),
                                          [num |-> 0, den |-> 1], sessions)]

sanitize(bandwidth) == IF bandwidth = NaN THEN 0 ELSE bandwidth

compute_commitment_payload(snapshots, checkpoints, sessions) ==
    LET shown(s) == [session |-> [s EXCEPT !.bandwidth = sanitize(@)], progress |-> progress_pct(s)]
    IN  [snapshots   |-> ByKey(snapshots, LAMBDA s : <<s.id, s.slot, s.created_at_unix>>),
         checkpoints |-> ByKey(checkpoints, LAMBDA c : <<c.slot, c.source, c.timestamp_unix>>),
         sessions    |-> ByKey([i \in DOMAIN sessions |-> shown(sessions[i])],
                               LAMBDA s : <<s.session.id, s.session.snapshot_id, s.session.started_at_unix>>),
         stats       |-> compute_sync_stats(snapshots, checkpoints, sessions)]

-----------------------------------------------------------------------------
Later(s, t) ==    \* t is s after some more of the work
    /\ s.chunks_total = t.chunks_total
    /\ s.chunks_downloaded <= t.chunks_downloaded /\ s.chunks_verified <= t.chunks_verified
    /\ \E i, j \in 1 .. 5 : i <= j /\ SyncPhase[i] = s.phase /\ SyncPhase[j] = t.phase
    /\ is_completed(s) => t.ended_at_unix = s.ended_at_unix

(* Progress never falls while a session gets on, stays within 100, and     *)
(* reaches 100 only when all chunks are there or the session ended in its  *)
(* last phase (snapshot_sync.rs:104).                                      *)
ProgressNeverFalls(s, t) ==
    /\ Later(s, t) => progress_pct(s).num <= progress_pct(t).num
    /\ progress_pct(s).num \in 0 .. 100 * progress_pct(s).den
    /\ progress_pct(s).num = 100 * progress_pct(s).den =>
         \/ Finished(s)
         \/ s.chunks_downloaded >= s.chunks_total /\ s.chunks_verified >= s.chunks_total

(* The bytes counted are never more than the sessions' snapshots hold,     *)
(* whatever chunk numbers were reported, and all of them once every        *)
(* session has ended with its chunks (snapshot_sync.rs:552).               *)
SyncedWithinSize(snapshots, sessions) ==
    LET synced == compute_sync_stats(snapshots, <<>>, sessions).data_synced
        held   == Total(sessions, LAMBDA s : SizeOf(snapshots, s.snapshot_id))
        whole(s) == is_completed(s) /\ s.chunks_downloaded >= s.chunks_total
    IN  /\ synced.num <= held * synced.den
        /\ Count(sessions, whole) = Len(sessions) => synced.num = held * synced.den

(* The commitment does not depend on the order of snapshots, checkpoints   *)
(* and sessions as long as no two share their key; sharing a snapshot id   *)
(* is enough to make the figures depend on it (snapshot_sync.rs:323,409).  *)
CommitmentOrderFree(snapshots, checkpoints, sessions) ==
    (/\ Repeats(Column(snapshots, "id")) = {} /\ Repeats(Column(sessions, "id")) = {}
     /\ Repeats([i \in DOMAIN checkpoints |-> <<checkpoints[i].slot, checkpoints[i].source>>]) = {})
      => compute_commitment_payload(Reverse(snapshots), Reverse(checkpoints), Reverse(sessions))
           = compute_commitment_payload(snapshots, checkpoints, sessions)

(* A configuration that passes still does with more downloads at once or   *)
(* its sources asked in another order, and never lists more sources than   *)
(* there are (snapshot_sync.rs:182,510).                                   *)
AcceptedSyncStaysAccepted(c) ==
    validate_sync(c) = {} =>
        /\ validate_sync([c EXCEPT !.max_concurrent_downloads = @ + 1, !.checkpoint_sources = Reverse(@)]) = {}
        /\ Len(c.checkpoint_sources) \in 1 .. Cardinality(CheckpointSource)

-----------------------------------------------------------------------------
(***************************************************************************)
(* Bootnodes, discovered peers and the health of the topology              *)
(* (bootnode_discovery.rs).  A fraction is in percent; a latency is a      *)
(* number, NaN for what is no latency.  A snapshot's average peer count is *)
(* peer_sum / total_nodes.  Averages in the statistics are sums.           *)
(***************************************************************************)
ETH2077_TESTNET_NODE_COUNT    == 48
MAX_TARGET_PEER_COUNT_ALLOWED == 128
MAX_PEER_COUNT_ALLOWED        == 256

sanitize_f64(x) == IF x = NaN THEN 0 ELSE x

DiscoveryProtocol == {"Discv4", "Discv5", "DnsDiscovery", "StaticPeers"}
TopologyStrategy  == {"FullMesh", "KademliaDht", "StarTopology", "HybridMesh"}

is_reachable(p)      == p.reachability \in {"Public", "BehindNat"}
is_healthy(b)        == b.health \in {"Online", "Degraded"}
has_valid_latency(p) == p.latency_ms >= 0

DefaultDiscoveryConfig ==
    [discovery_protocol |-> "Discv5", topology_strategy |-> "KademliaDht", target_peer_count |-> 25,
     max_peer_count |-> 50, bootnode_count |-> 4, refresh_interval_seconds |-> 30,
     eviction_timeout_seconds |-> 300, dns_discovery_url |-> <<>>, enable_nat_traversal |-> TRUE]

(* A url is not given, <<>>, or a text that stands for its scheme. *)
Schemes == [enrtree |-> 1, dns |-> 2, https |-> 3]
validate_dns_url(url) == \E s \in DOMAIN Schemes : trim(url) = Schemes[s]

validate_peer_counts(c) ==
    When(\/ c.target_peer_count = 0 \/ c.target_peer_count > MAX_TARGET_PEER_COUNT_ALLOWED
         \/ c.target_peer_count > c.max_peer_count, "target_peer_count")
      \cup When(c.max_peer_count = 0 \/ c.max_peer_count > MAX_PEER_COUNT_ALLOWED, "max_peer_count")

validate_bootnode_count(c) ==
    When(\/ c.bootnode_count = 0 \/ c.bootnode_count > ETH2077_TESTNET_NODE_COUNT
         \/ c.bootnode_count > c.max_peer_count, "bootnode_count")

validate_timers(c) ==
    When(c.refresh_interval_seconds \notin 5 .. 3600, "refresh_interval_seconds")
      \cup When(\/ c.eviction_timeout_seconds \notin 30 .. 86400
                \/ c.eviction_timeout_seconds <= c.refresh_interval_seconds, "eviction_timeout_seconds")

validate_dns_settings(c) ==
    When(IF c.dns_discovery_url = <<>> THEN c.discovery_protocol = "DnsDiscovery"
         ELSE ~ validate_dns_url(c.dns_discovery_url), "dns_discovery_url")

validate_topology_expectations(c) ==
    LET least == [FullMesh |-> ETH2077_TESTNET_NODE_COUNT - 1, KademliaDht |-> 8, StarTopology |-> 2,
                  HybridMesh |-> 12]
    IN  When(c.target_peer_count < least[c.topology_strategy], "target_peer_count")
          \cup When(c.topology_strategy = "StarTopology" /\ c.bootnode_count < 1, "bootnode_count")

validate_nat_settings(c) ==
    When(~ c.enable_nat_traversal /\ c.discovery_protocol = "Discv5", "enable_nat_traversal")

validate_discovery(c) ==
    validate_peer_counts(c) \cup validate_bootnode_count(c) \cup validate_timers(c)
      \cup validate_dns_settings(c) \cup validate_topology_expectations(c) \cup validate_nat_settings(c)

-----------------------------------------------------------------------------
max_possible_pairs(t) == (t.total_nodes * Max({0, t.total_nodes - 1})) \div 2

healthy_diameter_ceiling(n) ==
    CASE n <= 2 -> 1 [] n \in 3 .. 8 -> 3 [] n \in 9 .. 16 -> 4 [] n \in 17 .. 32 -> 6 [] OTHER -> 8

(* The average number of peers must reach min of all others, rounded up.   *)
(* Of a single node no pair is possible and the ratio is 0.                *)
WellConnected(t, min) ==
    LET required == ((t.total_nodes - 1) * min + 99) \div 100
    IN  /\ IF max_possible_pairs(t) = 0 THEN min = 0
           ELSE 100 * t.connected_pairs >= min * max_possible_pairs(t)
        /\ sanitize_f64(t.peer_sum) >= required * t.total_nodes
        /\ t.network_diameter <= healthy_diameter_ceiling(t.total_nodes)

PartitionUnseen(t, min) ==    \* mutant: a partitioned network passes
    min \in 0 .. 100 /\ t.total_nodes # 0 /\ WellConnected(t, min)

is_healthy_network(t, min) ==
    min \in 0 .. 100 /\ t.total_nodes # 0 /\ ~ t.partitioned /\ WellConnected(t, min)

(* The snapshot's average counts before that of the bootnodes. *)
compute_discovery_stats(bootnodes, peers, snapshot) ==
    [total_bootnodes     |-> Len(bootnodes),
     healthy_bootnodes   |-> Count(bootnodes, is_healthy),
     discovered_peers    |-> Len(peers),
     reachable_peers     |-> Count(peers, is_reachable),
     latency_sum         |-> Total(SelectSeq(peers, has_valid_latency), LAMBDA p : p.latency_ms),
     latency_count       |-> Count(peers, has_valid_latency),
     peer_sum            |-> IF snapshot # <<>> THEN sanitize_f64(snapshot[1].peer_sum)
                             ELSE Total(bootnodes, LAMBDA b : b.connected_peers),
     network_partitioned |-> snapshot # <<>> /\ snapshot[1].partitioned]

compute_commitment(bootnodes, peers, snapshot) ==
    [stats |-> compute_discovery_stats(bootnodes, peers, snapshot),
     bootnodes |-> ByKey(bootnodes, LAMBDA b : <<b.id, b.ip_address, b.ports>>),
     peers |-> ByKey([i \in DOMAIN peers |-> [peers[i] EXCEPT !.latency_ms = sanitize_f64(@),
                                                              !.capabilities = Sorted(@)]],
                     LAMBDA p : <<p.node_id, p.protocol, p.discovered_at_unix>>),
     snapshot |-> snapshot]

-----------------------------------------------------------------------------
(* The snapshot of a graph: a set of pairs over nodes 1 to n. *)
Near(edges, reached) == reached \cup UNION {e \in edges : e \cap reached # {}}

Within(edges, n) ==    \* node -> distance -> the nodes no further away
    LET from(v) == FoldLeft(LAMBDA acc, k : Append(acc, Near(edges, acc[k])), <<{v}>>, [k \in 1 .. n |-> k])
    IN  [v \in 1 .. n |-> from(v)]

TopologyOf(edges, n) ==
    LET w    == Within(edges, n)
        last == [v \in 1 .. n |-> w[v][n + 1]]
        far(v) == Min({k \in 0 .. n : w[v][k + 1] = last[v]})
    IN  [total_nodes |-> n, connected_pairs |-> Cardinality(edges), peer_sum |-> 2 * Cardinality(edges),
         network_diameter |-> Max({0} \cup {far(v) : v \in 1 .. n}),
         partitioned |-> \E v \in 1 .. n : last[v] # 1 .. n]

(* A network said to be healthy is one: every node reaches every other     *)
(* within the bound on the diameter, a smaller demand never makes it       *)
(* unhealthy, and a full mesh meets every demand (bootnode_discovery.rs    *)
(* :243).                                                                  *)
HealthyIsConnected(edges, n, min) ==
    LET t == TopologyOf(edges, n)
    IN  /\ is_healthy_network(t, min) =>
             /\ \A v \in 1 .. n : Within(edges, n)[v][Min({n, healthy_diameter_ceiling(n)}) + 1] = 1 .. n
             /\ \A less \in 0 .. min : is_healthy_network(t, less)
        /\ n > 1 /\ Cardinality(edges) = max_possible_pairs(t) /\ min \in 0 .. 100 => is_healthy_network(t, min)

(* A configuration that passes can be run: its bootnodes and the peers its *)
(* topology expects fit under its limits, a peer outlives a refresh, and   *)
(* there is a way to find the bootnodes (bootnode_discovery.rs:206).       *)
AcceptedDiscoveryCanRun(c) ==
    validate_discovery(c) = {} =>
        /\ c.bootnode_count \in 1 .. c.max_peer_count
        /\ c.topology_strategy = "FullMesh" => c.max_peer_count >= ETH2077_TESTNET_NODE_COUNT - 1
        /\ c.refresh_interval_seconds < c.eviction_timeout_seconds
        /\ c.discovery_protocol = "DnsDiscovery" => c.dns_discovery_url # <<>>

(* The commitment does not depend on the order in which differently named  *)
(* nodes or the capabilities of a peer are listed, while two bootnodes     *)
(* with one id are told apart by where they listen (bootnode_discovery.rs  *)
(* :507).                                                                  *)
CommitmentOfNodes(bs, ps, snapshot) ==
    LET turned == [i \in DOMAIN ps |-> [ps[i] EXCEPT !.capabilities = Reverse(@)]]
        place(b) == <<b.id, b.ip_address, b.ports>>
    IN  (/\ Repeats([i \in DOMAIN bs |-> place(bs[i])]) = {}
         /\ Repeats(Column(ps, "node_id")) = {})
          => compute_commitment(Reverse(bs), Reverse(turned), snapshot) = compute_commitment(bs, ps, snapshot)

=============================================================================
