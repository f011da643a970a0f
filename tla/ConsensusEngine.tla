--------------------------- MODULE ConsensusEngine ---------------------------
(***************************************************************************)
(* The state transitions of one ConsensusEngine (consensus.rs) and of the  *)
(* ValidatorSet it votes by (validator.rs), as operators on an engine      *)
(* record.  Every handler returns the SET of its possible results, each an *)
(* engine and the event it returns: `quorum_hash` takes whichever entry    *)
(* with enough weight the hash map yields first.                           *)
(*                                                                         *)
(* The vote maps of the code are keyed by (round, voter) and never pruned, *)
(* but a vote is only inserted for the current round and only the current  *)
(* round is tallied, so a map from voters is kept and cleared when the     *)
(* round advances.  `proposals` is written and never read: left out.       *)
(***************************************************************************)
EXTENDS FastPath, Integers, Sequences, FiniteSetsExt

CONSTANTS
    Voters,        \* every identity a vote can name, validators or not
    ValidatorSeq,  \* ValidatorSet.validators, in order
    Weight,        \* weight_of; 0 for a voter that is not a validator
    Nil,           \* a vote for None
    Absent         \* no vote recorded

Validators == Range(ValidatorSeq)
NoRound    == -1    \* locked_round = None

ASSUME ValidatorAssumption ==
    /\ Voters # {} /\ Validators \subseteq Voters
    /\ ValidatorSeq # <<>>
    /\ \A i, j \in DOMAIN ValidatorSeq : ValidatorSeq[i] = ValidatorSeq[j] => i = j
    /\ Weight \in [Voters -> Nat]
    /\ \A v \in Voters \ Validators : Weight[v] = 0

ASSUME HashAssumption ==
    /\ NoHash \notin Hash /\ Nil \notin Hash /\ Absent \notin Hash
    /\ Nil # Absent

-----------------------------------------------------------------------------
(* ValidatorSet *)

(* The weights of a set of voters, added up. *)
WeightOf(S) == MapThenSumSet(LAMBDA v : Weight[v], S)

total_weight == WeightOf(Voters)

(* 2f + 1 with f = (total - 1) / 3, in whole numbers. *)
QuorumOf(total) == 2 * ((IF total = 0 THEN 0 ELSE total - 1) \div 3) + 1

quorum_weight == QuorumOf(total_weight)

(* The sets of voters whose votes together reach the quorum weight. *)
Quorums == {S \in SUBSET Voters : WeightOf(S) >= quorum_weight}

leader_for_round(height, round) ==
    ValidatorSeq[((height + round) % Len(ValidatorSeq)) + 1]

-----------------------------------------------------------------------------
(* RoundState *)

Steps == {"Propose", "Prevote", "Precommit", "Committed"}
Vote  == Hash \cup {Nil, Absent}

NoVotes == [v \in Voters |-> Absent]

(* reset_for_height, with the fast path reset of start_height. *)
StartHeight(height) ==
    [height |-> height, round |-> 0, step |-> "Propose",
     prevotes |-> NoVotes, precommits |-> NoVotes,
     locked_round |-> NoRound, locked_hash |-> NoHash, fast |-> FastReset]

SupportersAnyVote(votes, hash) ==    \* mutant: once a hash has a vote, every vote counts for it
    {v \in Voters : votes[v] # Absent /\ \E w \in Voters : votes[w] = hash}

Supporters(votes, hash) == {v \in Voters : votes[v] = hash}

(* tally_prevotes / tally_precommits followed by quorum_hash: the hashes   *)
(* that may be found to have a quorum.                                     *)
quorum_hash(votes) == {b \in Hash : Supporters(votes, b) \in Quorums}

-----------------------------------------------------------------------------
(* Messages, events and the handlers *)

Message(type, height, round, hash, from) ==
    [type |-> type, height |-> height, round |-> round, hash |-> hash, from |-> from]

Event(type, hash) == [type |-> type, hash |-> hash]
NoEvent           == Event("None", NoHash)

Result(engine, event) == [engine |-> engine, event |-> event]

(* The early returns every handler of on_message starts with. *)
Ignored(e, m) == e.step = "Committed" \/ m.height # e.height \/ m.round # e.round

ProposalOverLock(e, m) ==    \* mutant: the prevote follows the proposal, lock or not
    IF Ignored(e, m) \/ m.from # leader_for_round(m.height, m.round)
      THEN {Result(e, NoEvent)}
      ELSE {Result([e EXCEPT !.step = "Prevote"], Event("SendPrevote", m.hash))}

(* on_proposal: a proposal of the round's leader, even a second one, asks  *)
(* for a prevote for the locked hash if there is one.                      *)
on_proposal(e, m) ==
    IF Ignored(e, m) \/ m.from # leader_for_round(m.height, m.round)
      THEN {Result(e, NoEvent)}
      ELSE {Result([e EXCEPT !.step = "Prevote"],
                   Event("SendPrevote",
                         IF e.locked_hash # NoHash THEN e.locked_hash ELSE m.hash))}

(* The slow path of on_prevote: a quorum of prevotes locks its hash. *)
LockOnQuorum(e) ==
    IF quorum_hash(e.prevotes) = {}
      THEN {Result(e, NoEvent)}
      ELSE {Result([e EXCEPT !.locked_round = e.round, !.locked_hash = q,
                             !.step = "Precommit"],
                   IF e.step # "Precommit" \/ e.locked_hash # q \/ e.locked_round # e.round
                     THEN Event("SendPrecommit", q)
                     ELSE NoEvent)
              : q \in quorum_hash(e.prevotes)}

PrevoteRecounted(e, m) ==    \* mutant: a second prevote of a voter replaces the first
    IF Ignored(e, m) THEN {Result(e, NoEvent)}
    ELSE LockOnQuorum([e EXCEPT !.prevotes[m.from] = m.hash])

(* on_prevote: the first prevote of each voter counts; the fast path may   *)
(* finalize on it at once, otherwise the tally may lock.                   *)
on_prevote(e, m) ==
    LET noted == [e EXCEPT !.prevotes[m.from] = m.hash]
        fast  == AddAttestation(e.fast, m.from, m.hash, e.height * 1000 + e.round)
        after == [noted EXCEPT !.fast = fast.fp]
    IN  IF Ignored(e, m) \/ e.prevotes[m.from] # Absent
          THEN {Result(e, NoEvent)}
        ELSE IF m.hash = Nil
          THEN LockOnQuorum(noted)
        ELSE IF fast.outcome = "FastFinalized"
          THEN {Result([after EXCEPT !.step = "Committed"], Event("BlockFinalized", m.hash))}
        ELSE LockOnQuorum(after)

(* on_precommit: the first precommit of each voter counts; a quorum        *)
(* commits.                                                                *)
on_precommit(e, m) ==
    LET noted == [e EXCEPT !.precommits[m.from] = m.hash]
    IN  IF Ignored(e, m) \/ e.precommits[m.from] # Absent
          THEN {Result(e, NoEvent)}
        ELSE IF quorum_hash(noted.precommits) = {}
          THEN {Result(noted, NoEvent)}
        ELSE {Result([noted EXCEPT !.step = "Committed"], Event("BlockFinalized", q))
                : q \in quorum_hash(noted.precommits)}

TimeoutUnlocks(e) ==    \* mutant: a new round forgets the lock
    IF e.step = "Committed" THEN e
    ELSE [StartHeight(e.height) EXCEPT !.round = e.round + 1]

(* on_timeout: the next round of the height; the lock stays. *)
on_timeout(e) ==
    IF e.step = "Committed" THEN e
    ELSE [e EXCEPT !.round = @ + 1, !.step = "Propose", !.fast = FastReset,
                   !.prevotes = NoVotes, !.precommits = NoVotes]
=============================================================================
