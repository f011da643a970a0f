------------------------------ MODULE Consensus ------------------------------
(***************************************************************************)
(* The consensus engines of all correct validators, each run by the event  *)
(* loop of devnet.rs (the timer that proposes, the P2P branch that feeds   *)
(* on_message, and process_consensus_events), over an unreliable network.  *)
(*                                                                         *)
(* `sent` only grows and a message in it may be received at any time, any  *)
(* number of times or never: loss, duplication, delay and reordering.  A   *)
(* faulty voter may vote and propose anything, differently to each         *)
(* receiver.  The sender named by a message is taken to be genuine.        *)
(***************************************************************************)
EXTENDS ConsensusEngine

CONSTANTS
    Faulty,      \* the voters that do not follow the code
    FaultyVote,  \* bound: the values a faulty voter votes for
    MaxRound,    \* bound: no timeout beyond this round
    MaxHeight    \* bound: no proposal above this height

Correct == Voters \ Faulty

ASSUME FaultyAssumption == Faulty \subseteq Voters

ASSUME BoundAssumption ==
    /\ MaxRound \in Nat /\ MaxHeight \in Nat \ {0}
    /\ FaultyVote \subseteq Hash \cup {Nil}

VARIABLES
    engine,     \* engine[n]: the ConsensusEngine of n
    finalized,  \* finalized[n]: the hashes n's BlockFinalized events named, by height
    sent        \* every message a correct validator has broadcast

vars == <<engine, finalized, sent>>

Heights == 1 .. MaxHeight
Rounds  == 0 .. MaxRound

(* What a faulty voter may send. *)
FaultyMessage ==
    [type : {"Proposal"}, height : Heights, round : Rounds, hash : Hash, from : Faulty]
      \cup
    [type : {"Prevote", "Precommit"}, height : Heights, round : Rounds,
     hash : FaultyVote, from : Faulty]

-----------------------------------------------------------------------------
(* process_consensus_events: what follows from a handler's event, down to  *)
(* the next wait.  A vote is broadcast and then fed to the own engine; a   *)
(* finalized block starts the next height, whether or not the block itself *)
(* is known here.                                                          *)

Outcome(e, out, log) == [engine |-> e, out |-> out, log |-> log]

Settle(r) ==
    IF r.event.type = "BlockFinalized"
      THEN Outcome(StartHeight(r.engine.height + 1), {}, <<r.event.hash>>)
      ELSE Outcome(r.engine, {}, <<>>)

OwnMessage(n, type, r) ==
    Message(type, r.engine.height, r.engine.round, r.event.hash, n)

Broadcasting(m, outcomes) == {Outcome(o.engine, o.out \cup {m}, o.log) : o \in outcomes}

AfterPrecommit(e, m) == {Settle(r) : r \in on_precommit(e, m)}

AfterPrevote(n, e, m) ==
    UNION {LET own == OwnMessage(n, "Precommit", r)
           IN  IF r.event.type = "SendPrecommit"
                 THEN Broadcasting(own, AfterPrecommit(r.engine, own))
                 ELSE {Settle(r)}
             : r \in on_prevote(e, m)}

AfterProposal(n, e, m) ==
    UNION {LET own == OwnMessage(n, "Prevote", r)
           IN  IF r.event.type = "SendPrevote"
                 THEN Broadcasting(own, AfterPrevote(n, r.engine, own))
                 ELSE {Settle(r)}
             : r \in on_proposal(e, m)}

(* on_message and the processing of its event. *)
AfterMessage(n, e, m) ==
    CASE m.type = "Proposal"  -> AfterProposal(n, e, m)
      [] m.type = "Prevote"   -> AfterPrevote(n, e, m)
      [] m.type = "Precommit" -> AfterPrecommit(e, m)

-----------------------------------------------------------------------------
Init ==
    /\ engine    = [n \in Correct |-> StartHeight(1)]
    /\ finalized = [n \in Correct |-> <<>>]
    /\ sent      = {}

Apply(n, o, broadcast) ==
    /\ engine'    = [engine EXCEPT ![n] = o.engine]
    /\ finalized' = [finalized EXCEPT ![n] = @ \o o.log]
    /\ sent'      = sent \cup broadcast \cup o.out

(* The block timer of a leader.  Nothing stops it from firing again in a   *)
(* round it already proposed in, with a different block.                   *)
Propose(n, b) ==
    LET e == engine[n]
        m == Message("Proposal", e.height, e.round, b, n)
    IN  /\ e.height <= MaxHeight
        /\ n = leader_for_round(e.height, e.round)
        /\ \E o \in AfterProposal(n, e, m) : Apply(n, o, {m})

Receive(n, m) == \E o \in AfterMessage(n, engine[n], m) : Apply(n, o, {})

(* A round timer; the engine's on_timeout takes any moment for it. *)
Timeout(n) ==
    /\ engine[n].round < MaxRound
    /\ engine' = [engine EXCEPT ![n] = on_timeout(engine[n])]
    /\ UNCHANGED <<finalized, sent>>

Next ==
    \E n \in Correct :
        \/ \E b \in Hash : Propose(n, b)
        \/ \E m \in sent \cup FaultyMessage : Receive(n, m)
        \/ Timeout(n)

Spec == Init /\ [][Next]_vars

-----------------------------------------------------------------------------
(* Properties *)

Engine ==
    [height : Nat, round : Nat, step : Steps,
     prevotes : [Voters -> Vote], precommits : [Voters -> Vote],
     locked_round : Nat \cup {NoRound}, locked_hash : Hash \cup {NoHash},
     fast : [hash : Hash \cup {NoHash}, agreed : SUBSET Voters,
             start : Nat \cup {NoTime}, conflict : BOOLEAN]]

SentMessage ==
    [type : {"Proposal", "Prevote", "Precommit"}, height : Nat, round : Nat,
     hash : Hash, from : Correct]

(* Engines, finalized logs and messages are well formed: a correct         *)
(* validator only ever broadcasts votes for a hash, never for nil, and the *)
(* driver never leaves an engine in the Committed step.                    *)
TypeOK ==
    /\ engine \in [Correct -> Engine]
    /\ finalized \in [Correct -> Seq(Hash)]
    /\ sent \subseteq SentMessage
    /\ \A n \in Correct : engine[n].step # "Committed"

(* Two correct validators never finalize different blocks at one height:   *)
(* BlockFinalized events agree (consensus.rs, on_prevote / on_precommit).  *)
Agreement ==
    \A m, n \in Correct : \A h \in DOMAIN finalized[m] \cap DOMAIN finalized[n] :
        finalized[m][h] = finalized[n][h]

(* The correct validators that sent this vote, among the messages S. *)
Sent(S, type, h, r, b) == {n \in Correct : Message(type, h, r, b, n) \in S}

(* Every faulty voter counted, a quorum voted for b. *)
Backed(S, type, h, r, b) ==
    \E Q \in Quorums : Q \subseteq Faulty \cup Sent(S, type, h, r, b)

Polka(S, h, r, b)   == Backed(S, "Prevote", h, r, b)
Decided(S, h, r, b) == Backed(S, "Precommit", h, r, b)

(* A correct validator precommits at most one block per round, although a  *)
(* repeated proposal sends it back from Precommit to the Prevote step and  *)
(* makes it vote again (on_proposal sets step without looking at it).      *)
OnePrecommitPerRound ==
    \A p, q \in sent :
        (/\ p.type = "Precommit" /\ q.type = "Precommit" /\ p.from = q.from
         /\ p.height = q.height /\ p.round = q.round) => p.hash = q.hash

(* A correct validator that precommitted b prevotes another block in a     *)
(* later round only if a quorum prevoted that block in between: the lock   *)
(* taken in on_prevote is released by nothing else, timeouts included.     *)
LockReleasedByQuorumOnly ==
    \A p, v \in sent :
        (/\ p.type = "Precommit" /\ v.type = "Prevote" /\ p.from = v.from
         /\ p.height = v.height /\ p.round < v.round /\ p.hash # v.hash)
        => \E r \in p.round + 1 .. v.round : Polka(sent, p.height, r, v.hash)

(* The engines and their drivers implement the finalized log: each step    *)
(* extends at most one validator's log by one block, never rewrites one,   *)
(* and never extends it with a rival of a block another validator has.     *)
Chain == INSTANCE FinalizedLog WITH Node <- Correct, Block <- Hash, log <- finalized

ImplementsFinalizedLog == Chain!LogSpec
=============================================================================
