------------------------------ MODULE FastPath ------------------------------
(***************************************************************************)
(* The optimistic attestation accumulator of the out-of-band consensus     *)
(* crate (fast_path.rs), as operators on an accumulator record:            *)
(*   hash      round_block_hash, the hash of the first attestation         *)
(*   agreed    the attesters whose attestation carries that hash           *)
(*   start     round_start_ms                                              *)
(*   conflict  conflict_detected                                           *)
(* An attestation is only ever counted when it carries the round's hash,   *)
(* and once a conflict is flagged nothing reads the list until `reset`, so *)
(* the list is kept as the set of agreeing attesters and dropped on a      *)
(* conflict.  Signatures and the FinalityProof payload are left out.       *)
(***************************************************************************)
EXTENDS Naturals, FiniteSets

CONSTANTS
    Hash,                 \* the block hashes
    NoHash,               \* Rust's None for a hash
    NoTime,               \* Rust's None for a time
    OptimisticThreshold,  \* FastPathConfig.optimistic_threshold; 0 disables it
    QuorumThreshold,      \* FastPathConfig.quorum_threshold
    TimeoutMs             \* FastPathConfig.timeout_ms

(* The accumulator after `new` or `reset`. *)
FastReset == [hash |-> NoHash, agreed |-> {}, start |-> NoTime, conflict |-> FALSE]

(* is_timed_out: saturating_sub makes an earlier clock reading "not late". *)
TimedOut(start, now) == now > start + TimeoutMs

(* has_quorum, read after the attestation was recorded. *)
HasQuorum(fp) == ~fp.conflict /\ Cardinality(fp.agreed) >= QuorumThreshold

(* The verdict on an attestation that was recorded without a conflict. *)
Verdict(fp) ==
    IF OptimisticThreshold > 0 /\ Cardinality(fp.agreed) >= OptimisticThreshold
      THEN "FastFinalized"
    ELSE IF HasQuorum(fp)
      THEN "SlowPath"
    ELSE "None"

(* Both conflict branches of the code: an attester that changes its hash,  *)
(* and a new attester whose hash is not the round's.  A recorded attester  *)
(* always carries the round's hash, so one comparison covers both.         *)
Clashes(fp, hash) == fp.hash # NoHash /\ fp.hash # hash

(* add_attestation: the accumulator afterwards and the returned outcome. *)
AddAttestation(fp, who, hash, now) ==
    LET begun == [fp EXCEPT !.start = IF fp.start = NoTime THEN now ELSE fp.start]
        noted == [begun EXCEPT !.hash = hash, !.agreed = @ \cup {who}]
    IN  IF fp.conflict
          THEN [fp |-> fp, outcome |-> "ConflictDetected"]
        ELSE IF TimedOut(begun.start, now)
          THEN [fp |-> begun, outcome |-> "Timeout"]
        ELSE IF Clashes(fp, hash)
          THEN [fp |-> [FastReset EXCEPT !.start = begun.start, !.conflict = TRUE],
                outcome |-> "ConflictDetected"]
        ELSE [fp |-> noted, outcome |-> Verdict(noted)]
=============================================================================
