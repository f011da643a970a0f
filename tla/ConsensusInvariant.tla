------------------------- MODULE ConsensusInvariant -------------------------
(***************************************************************************)
(* The inductive invariant behind Agreement.  It is stated over arguments  *)
(* (E the engines, L the finalized logs, S the sent messages) and not over *)
(* the variables, because one action runs a chain of handlers: each handler*)
(* is shown to preserve it on its own, between two states of the variables.*)
(***************************************************************************)
EXTENDS Consensus

(* The faulty voters weigh no more than the quorum weight tolerates: two   *)
(* quorums overlap in more than that.  quorum_weight is 2f + 1 with        *)
(* f = (total - 1) / 3, so this says at most f when the total is 3f + 1,   *)
(* and less for other totals.                                              *)
ASSUME FaultBudget ==
    /\ IsFiniteSet(Voters)
    /\ total_weight + WeightOf(Faulty) < 2 * quorum_weight

(* The slow path alone: optimistic_threshold = 0 never fast-finalizes. *)
ASSUME FastPathOff == OptimisticThreshold = 0

-----------------------------------------------------------------------------
(* Any two quorums share a correct validator: what FaultBudget is for. *)
QuorumsMeet == \A Q, R \in Quorums : \E v \in Correct : v \in Q /\ v \in R

Typed(E, L, S) ==
    /\ E \in [Correct -> Engine]
    /\ L \in [Correct -> Seq(Hash)]
    /\ S \subseteq SentMessage

(* An engine works on the height after the last one it finalized. *)
HeightInv(E, L) == \A n \in Correct : E[n].height = Len(L[n]) + 1

(* No validator has sent a message of a round it has not reached. *)
PastInv(E, S) ==
    \A m \in S : /\ m.height <= E[m.from].height
                 /\ m.height = E[m.from].height => m.round <= E[m.from].round

(* A recorded vote of a correct validator was sent by it. *)
ViewInv(E, S) ==
    \A n, v \in Correct :
        LET e == E[n] IN
        /\ e.prevotes[v] \in Hash
             => Message("Prevote", e.height, e.round, e.prevotes[v], v) \in S
        /\ e.precommits[v] \in Hash
             => Message("Precommit", e.height, e.round, e.precommits[v], v) \in S

(* A lock rests on a quorum of prevotes, still recorded in the lock's round. *)
LockInv(E, S) ==
    \A n \in Correct :
        LET e == E[n] IN
        /\ e.locked_round = NoRound <=> e.locked_hash = NoHash
        /\ e.locked_hash # NoHash =>
             /\ e.locked_round <= e.round
             /\ Polka(S, e.height, e.locked_round, e.locked_hash)
             /\ e.locked_round = e.round =>
                  \E Q \in Quorums : Q \subseteq Supporters(e.prevotes, e.locked_hash)

(* A lock is never older than the validator's precommits of the height. *)
CommitLockInv(E, S) ==
    \A m \in S :
        (m.type = "Precommit" /\ m.height = E[m.from].height)
        => /\ m.round <= E[m.from].locked_round
           /\ m.round = E[m.from].locked_round => m.hash = E[m.from].locked_hash

(* A precommit rests on a quorum of prevotes of its round, and is unique. *)
PrecommitInv(S) ==
    /\ \A m \in S : m.type = "Precommit" => Polka(S, m.height, m.round, m.hash)
    /\ \A p, q \in S :
         (/\ p.type = "Precommit" /\ q.type = "Precommit" /\ p.from = q.from
          /\ p.height = q.height /\ p.round = q.round) => p.hash = q.hash

(* LockReleasedByQuorumOnly, over S. *)
ReleaseInv(S) ==
    \A p, v \in S :
        (/\ p.type = "Precommit" /\ v.type = "Prevote" /\ p.from = v.from
         /\ p.height = v.height /\ p.round < v.round /\ p.hash # v.hash)
        => \E r \in p.round + 1 .. v.round : Polka(S, p.height, r, v.hash)

(* The correct validators whose precommit for b in round r of height h is  *)
(* sent or may still be sent.                                              *)
MayPrecommit(E, S, h, r, b) ==
    {n \in Correct : \/ Message("Precommit", h, r, b, n) \in S
                     \/ E[n].height < h
                     \/ E[n].height = h /\ E[n].round <= r}

Choosable(E, S, h, r, b) ==
    \E Q \in Quorums : Q \subseteq Faulty \cup MayPrecommit(E, S, h, r, b)

(* While b can still be decided in a round, no later round has a quorum of *)
(* prevotes for another block.                                             *)
ChoosableInv(E, S) ==
    \A v \in S : \A r \in 0 .. v.round - 1 : \A b \in Hash :
        (/\ v.type = "Prevote" /\ Polka(S, v.height, v.round, v.hash)
         /\ Choosable(E, S, v.height, r, b)) => v.hash = b

(* Every finalized hash was decided by a quorum of precommits. *)
DecisionInv(L, S) ==
    \A n \in Correct : \A h \in DOMAIN L[n] :
        \E m \in S : /\ m.type = "Precommit" /\ m.height = h /\ m.hash = L[n][h]
                    /\ Decided(S, h, m.round, m.hash)

IInv(E, L, S) ==
    /\ QuorumsMeet /\ Typed(E, L, S)
    /\ HeightInv(E, L) /\ PastInv(E, S) /\ ViewInv(E, S)
    /\ LockInv(E, S) /\ CommitLockInv(E, S)
    /\ PrecommitInv(S) /\ ReleaseInv(S)
    /\ ChoosableInv(E, S) /\ DecisionInv(L, S)

(* The inductive invariant holds between any two steps of the event loop:  *)
(* what the engines record, what they have sent and what they finalized    *)
(* fit together, and a block that can still be decided in some round has   *)
(* no rival with a quorum of prevotes in a later one.                      *)
InductiveInv == IInv(engine, finalized, sent)
=============================================================================
