--------------------------- MODULE ConsensusProofs ---------------------------
(***************************************************************************)
(* Agreement of the consensus engines, for every set of voters, weights,   *)
(* hashes and bounds whose faulty weight is within FaultBudget, and with   *)
(* the fast path off.  Each handler of the engine, and each broadcast of   *)
(* its driver, preserves the inductive invariant of ConsensusInvariant;    *)
(* then that quorums intersect, the handlers chained as the event loop     *)
(* chains them, and the theorems.                                          *)
(***************************************************************************)
EXTENDS ConsensusInvariant, InductionProofs

(* Recording and sending votes *)

(* More messages back whatever fewer did: Backed only looks for votes that *)
(* are present.                                                            *)
LEMMA BackedMonotone ==
  ASSUME NEW S, NEW T, S \subseteq T, NEW type, NEW h, NEW r, NEW b,
         Backed(S, type, h, r, b)
  PROVE  Backed(T, type, h, r, b)
BY DEF Backed, Sent

(* Two backed votes have a correct validator that sent both: a quorum of   *)
(* the code is 2f + 1 of the total weight.                                 *)
LEMMA BackedIntersect ==
  ASSUME NEW S, NEW type1, NEW h1, NEW r1, NEW b1, Backed(S, type1, h1, r1, b1),
         NEW T, NEW type2, NEW h2, NEW r2, NEW b2, Backed(T, type2, h2, r2, b2),
         QuorumsMeet
  PROVE  \E v \in Correct : /\ Message(type1, h1, r1, b1, v) \in S
                            /\ Message(type2, h2, r2, b2, v) \in T
<1>1. PICK Q \in Quorums : Q \subseteq Faulty \cup Sent(S, type1, h1, r1, b1)
  BY DEF Backed
<1>2. PICK R \in Quorums : R \subseteq Faulty \cup Sent(T, type2, h2, r2, b2)
  BY DEF Backed
<1>3. PICK v \in Correct : v \in Q /\ v \in R
  BY DEF QuorumsMeet
<1>4. v \notin Faulty
  BY DEF Correct
<1> QED BY <1>1, <1>2, <1>3, <1>4 DEF Sent

(* An engine that keeps its height, its round and its lock keeps every     *)
(* fact that relates those to the sent messages.                           *)
LEMMA SameLocks ==
  ASSUME NEW E, NEW E2, NEW S, S \subseteq SentMessage,
         \A k \in Correct : /\ E2[k].height = E[k].height
                            /\ E2[k].round = E[k].round
                            /\ E2[k].locked_round = E[k].locked_round
                            /\ E2[k].locked_hash = E[k].locked_hash
  PROVE  /\ PastInv(E, S) => PastInv(E2, S)
         /\ CommitLockInv(E, S) => CommitLockInv(E2, S)
         /\ ChoosableInv(E, S) => ChoosableInv(E2, S)
<1>1. \A m \in S : m.from \in Correct
  BY DEF SentMessage
<1>2. PastInv(E, S) => PastInv(E2, S)
  BY <1>1 DEF PastInv
<1>3. CommitLockInv(E, S) => CommitLockInv(E2, S)
  BY <1>1 DEF CommitLockInv
<1>4. \A h, r, b : Choosable(E2, S, h, r, b) => Choosable(E, S, h, r, b)
  BY DEF Choosable, MayPrecommit
<1>5. ChoosableInv(E, S) => ChoosableInv(E2, S)
  BY <1>4 DEF ChoosableInv
<1> QED BY <1>2, <1>3, <1>5

FastType == [hash : Hash \cup {NoHash}, agreed : SUBSET Voters,
             start : Nat \cup {NoTime}, conflict : BOOLEAN]

(* Recording a prevote that its voter sent preserves the invariant         *)
(* (insert_prevote, for a voter without a prevote in the round).           *)
LEMMA RecordPrevote ==
  ASSUME NEW E, NEW L, NEW S, IInv(E, L, S), NEW n \in Correct,
         NEW v \in Voters, NEW b \in Hash \cup {Nil}, NEW f \in FastType,
         E[n].prevotes[v] = Absent,
         (v \in Correct /\ b \in Hash)
           => Message("Prevote", E[n].height, E[n].round, b, v) \in S
  PROVE  IInv([E EXCEPT ![n] = [E[n] EXCEPT !.prevotes[v] = b, !.fast = f]], L, S)
<1> DEFINE x  == [E[n] EXCEPT !.prevotes[v] = b, !.fast = f]
           E2 == [E EXCEPT ![n] = x]
<1>1. E \in [Correct -> Engine] /\ E[n] \in Engine
  BY DEF IInv, Typed
<1>2. /\ x \in Engine
      /\ x.height = E[n].height /\ x.round = E[n].round
      /\ x.locked_round = E[n].locked_round /\ x.locked_hash = E[n].locked_hash
      /\ x.precommits = E[n].precommits
      /\ x.prevotes = [E[n].prevotes EXCEPT ![v] = b]
      /\ x.prevotes \in [Voters -> Vote] /\ E[n].prevotes \in [Voters -> Vote]
  BY Zenon, <1>1 DEF Engine, FastType, Vote
<1>3. E2 \in [Correct -> Engine] /\ E2[n] = x
      /\ \A k \in Correct : k # n => E2[k] = E[k]
  BY <1>1, <1>2
<1> HIDE DEF E2, x
<1>4. \A k \in Correct : /\ E2[k].height = E[k].height
                         /\ E2[k].round = E[k].round
                         /\ E2[k].locked_round = E[k].locked_round
                         /\ E2[k].locked_hash = E[k].locked_hash
  BY <1>2, <1>3
<1>5. PastInv(E2, S) /\ CommitLockInv(E2, S) /\ ChoosableInv(E2, S)
  BY Zenon, <1>4, SameLocks DEF IInv, Typed
<1>6. HeightInv(E2, L)
  BY <1>4 DEF IInv, HeightInv
<1>7. ViewInv(E2, S)
  <2> SUFFICES ASSUME NEW k \in Correct, NEW u \in Correct
               PROVE  /\ E2[k].prevotes[u] \in Hash
                           => Message("Prevote", E2[k].height, E2[k].round, E2[k].prevotes[u], u) \in S
                      /\ E2[k].precommits[u] \in Hash
                           => Message("Precommit", E2[k].height, E2[k].round, E2[k].precommits[u], u) \in S
    BY DEF ViewInv
  <2>1. u \in Voters
    BY DEF Correct
  <2>2. CASE k # n
    BY <2>2, <1>3 DEF IInv, ViewInv
  <2>3. CASE k = n
    BY <2>1, <2>3, <1>2, <1>3 DEF IInv, ViewInv
  <2> QED BY <2>2, <2>3
<1>8. LockInv(E2, S)
  <2>1. ASSUME NEW c \in Hash
        PROVE  Supporters(E[n].prevotes, c) \subseteq Supporters(x.prevotes, c)
    BY <1>2, HashAssumption DEF Supporters
  <2>2. ASSUME E[n].locked_hash # NoHash
        PROVE  E[n].locked_hash \in Hash
    BY <1>1, <2>2 DEF Engine
  <2> SUFFICES ASSUME NEW k \in Correct
               PROVE  /\ E2[k].locked_round = NoRound <=> E2[k].locked_hash = NoHash
                      /\ E2[k].locked_hash # NoHash =>
                           /\ E2[k].locked_round <= E2[k].round
                           /\ Polka(S, E2[k].height, E2[k].locked_round, E2[k].locked_hash)
                           /\ E2[k].locked_round = E2[k].round =>
                                \E Q \in Quorums :
                                   Q \subseteq Supporters(E2[k].prevotes, E2[k].locked_hash)
    BY DEF LockInv
  <2>3. CASE k # n
    BY <2>3, <1>3 DEF IInv, LockInv
  <2>4. CASE k = n
    BY <2>1, <2>2, <2>4, <1>2, <1>3 DEF IInv, LockInv
  <2> QED BY <2>3, <2>4
<1>9. Typed(E2, L, S)
  BY <1>3 DEF IInv, Typed
<1>10. IInv(E2, L, S)
  BY <1>5, <1>6, <1>7, <1>8, <1>9 DEF IInv
<1> QED BY <1>10 DEF E2, x

(* Recording a precommit that its voter sent preserves the invariant       *)
(* (insert_precommit), whatever step on_precommit leaves the engine in.    *)
LEMMA RecordPrecommit ==
  ASSUME NEW E, NEW L, NEW S, IInv(E, L, S), NEW n \in Correct,
         NEW v \in Voters, NEW b \in Hash \cup {Nil}, NEW st \in Steps,
         (v \in Correct /\ b \in Hash)
           => Message("Precommit", E[n].height, E[n].round, b, v) \in S
  PROVE  IInv([E EXCEPT ![n] = [E[n] EXCEPT !.precommits[v] = b, !.step = st]], L, S)
<1> DEFINE x  == [E[n] EXCEPT !.precommits[v] = b, !.step = st]
           E2 == [E EXCEPT ![n] = x]
<1>1. E \in [Correct -> Engine] /\ E[n] \in Engine
  BY DEF IInv, Typed
<1>2. /\ x \in Engine
      /\ x.height = E[n].height /\ x.round = E[n].round
      /\ x.locked_round = E[n].locked_round /\ x.locked_hash = E[n].locked_hash
      /\ x.prevotes = E[n].prevotes
      /\ x.precommits = [E[n].precommits EXCEPT ![v] = b]
      /\ E[n].precommits \in [Voters -> Vote]
  BY Zenon, <1>1 DEF Engine, Vote
<1>3. E2 \in [Correct -> Engine] /\ E2[n] = x
      /\ \A k \in Correct : k # n => E2[k] = E[k]
  BY <1>1, <1>2
<1> HIDE DEF E2, x
<1>4. \A k \in Correct : /\ E2[k].height = E[k].height
                         /\ E2[k].round = E[k].round
                         /\ E2[k].locked_round = E[k].locked_round
                         /\ E2[k].locked_hash = E[k].locked_hash
                         /\ E2[k].prevotes = E[k].prevotes
  BY <1>2, <1>3
<1>5. PastInv(E2, S) /\ CommitLockInv(E2, S) /\ ChoosableInv(E2, S)
  BY Zenon, <1>4, SameLocks DEF IInv, Typed
<1>6. HeightInv(E2, L)
  BY <1>4 DEF IInv, HeightInv
<1>7. ViewInv(E2, S)
  <2> SUFFICES ASSUME NEW k \in Correct, NEW u \in Correct
               PROVE  /\ E2[k].prevotes[u] \in Hash
                           => Message("Prevote", E2[k].height, E2[k].round, E2[k].prevotes[u], u) \in S
                      /\ E2[k].precommits[u] \in Hash
                           => Message("Precommit", E2[k].height, E2[k].round, E2[k].precommits[u], u) \in S
    BY DEF ViewInv
  <2>1. u \in Voters
    BY DEF Correct
  <2>2. CASE k # n
    BY <2>2, <1>3 DEF IInv, ViewInv
  <2>3. CASE k = n
    BY <2>1, <2>3, <1>2, <1>3 DEF IInv, ViewInv
  <2> QED BY <2>2, <2>3
<1>8. LockInv(E2, S)
  BY <1>4 DEF IInv, LockInv
<1>9. Typed(E2, L, S)
  BY <1>3 DEF IInv, Typed
<1>10. IInv(E2, L, S)
  BY <1>5, <1>6, <1>7, <1>8, <1>9 DEF IInv
<1> QED BY <1>10 DEF E2, x

(* A message that is neither a prevote nor a precommit, of the round its   *)
(* sender is in, changes nothing: a broadcast proposal.                    *)
LEMMA SendProposal ==
  ASSUME NEW E, NEW L, NEW S, IInv(E, L, S), NEW n \in Correct, NEW b \in Hash
  PROVE  IInv(E, L, S \cup {Message("Proposal", E[n].height, E[n].round, b, n)})
<1> DEFINE m == Message("Proposal", E[n].height, E[n].round, b, n)
           T == S \cup {m}
<1>1. E \in [Correct -> Engine] /\ E[n].height \in Nat /\ E[n].round \in Nat
  BY DEF IInv, Typed, Engine
<1>2. m \in SentMessage /\ m.type = "Proposal" /\ m.from = n
      /\ m.height = E[n].height /\ m.round = E[n].round
  BY <1>1 DEF Message, SentMessage
<1>3. \A h, r, c, k : Message("Prevote", h, r, c, k) # m /\ Message("Precommit", h, r, c, k) # m
  BY DEF Message
<1>4. \A h, r, c : /\ Sent(T, "Prevote", h, r, c) = Sent(S, "Prevote", h, r, c)
                   /\ Sent(T, "Precommit", h, r, c) = Sent(S, "Precommit", h, r, c)
  BY <1>3 DEF Sent
<1>5. \A h, r, c : /\ Polka(T, h, r, c) <=> Polka(S, h, r, c)
                   /\ Decided(T, h, r, c) <=> Decided(S, h, r, c)
                   /\ Choosable(E, T, h, r, c) <=> Choosable(E, S, h, r, c)
  <2>1. \A h, r, c : /\ Polka(T, h, r, c) <=> Polka(S, h, r, c)
                     /\ Decided(T, h, r, c) <=> Decided(S, h, r, c)
    BY ZenonT(30), <1>4 DEF Polka, Decided, Backed
  <2>2. \A h, r, c : MayPrecommit(E, T, h, r, c) = MayPrecommit(E, S, h, r, c)
    BY <1>3 DEF MayPrecommit
  <2> QED BY <2>1, <2>2 DEF Choosable
<1>6. S \subseteq T /\ m \in T /\ \A k \in T : k \in S \/ k = m
  OBVIOUS
<1> HIDE DEF m, T
<1>7. Typed(E, L, T)
  BY <1>2, <1>6 DEF IInv, Typed
<1>8. PastInv(E, T)
  BY <1>1, <1>2, <1>6 DEF IInv, PastInv
<1>9. ViewInv(E, T)
  BY <1>6 DEF IInv, ViewInv
<1>10. LockInv(E, T)
  BY <1>5 DEF IInv, LockInv
<1>11. CommitLockInv(E, T)
  BY <1>2, <1>6 DEF IInv, CommitLockInv
<1>12. PrecommitInv(T)
  BY <1>2, <1>5, <1>6 DEF IInv, PrecommitInv
<1>13. ReleaseInv(T)
  BY <1>2, <1>5, <1>6 DEF IInv, ReleaseInv
<1>14. ChoosableInv(E, T)
  BY <1>2, <1>5, <1>6 DEF IInv, ChoosableInv
<1>15. DecisionInv(L, T)
  BY <1>5, <1>6 DEF IInv, DecisionInv
<1>16. IInv(E, L, T)
  BY <1>7, <1>8, <1>9, <1>10, <1>11, <1>12, <1>13, <1>14, <1>15 DEF IInv
<1> QED BY <1>16 DEF T, m

(* The prevote on_proposal asks for, for the locked hash if there is one,  *)
(* preserves the invariant: a validator whose precommit may be part of a   *)
(* decision does not help a rival of it to a quorum.                       *)
LEMMA SendPrevote ==
  ASSUME NEW E, NEW L, NEW S, IInv(E, L, S), NEW n \in Correct, NEW b \in Hash,
         E[n].locked_hash # NoHash => b = E[n].locked_hash
  PROVE  IInv([E EXCEPT ![n] = [E[n] EXCEPT !.step = "Prevote"]], L,
              S \cup {Message("Prevote", E[n].height, E[n].round, b, n)})
<1> DEFINE x  == [E[n] EXCEPT !.step = "Prevote"]
           E2 == [E EXCEPT ![n] = x]
           m  == Message("Prevote", E[n].height, E[n].round, b, n)
           T  == S \cup {m}
<1>1. E \in [Correct -> Engine] /\ E[n] \in Engine /\ S \subseteq SentMessage
  BY DEF IInv, Typed
<1>2. /\ x \in Engine
      /\ x.height = E[n].height /\ x.round = E[n].round
      /\ x.locked_round = E[n].locked_round /\ x.locked_hash = E[n].locked_hash
      /\ x.prevotes = E[n].prevotes /\ x.precommits = E[n].precommits
  BY Zenon, <1>1 DEF Engine, Steps
<1>3. E2 \in [Correct -> Engine] /\ E2[n] = x
      /\ \A k \in Correct : k # n => E2[k] = E[k]
  BY <1>1, <1>2
<1>4. m \in SentMessage /\ m.type = "Prevote" /\ m.from = n /\ m.hash = b
      /\ m.height = E[n].height /\ m.round = E[n].round
  BY <1>1 DEF Message, SentMessage, Engine
<1>5. \A h, r, c, k : Message("Precommit", h, r, c, k) # m
  BY DEF Message
<1>6. S \subseteq T /\ m \in T /\ \A k \in T : k \in S \/ k = m
  OBVIOUS
<1>7. \A h, r, c, k : Message("Prevote", h, r, c, k) = m
                        => h = E[n].height /\ r = E[n].round /\ c = b /\ k = n
  BY DEF Message
<1> HIDE DEF x, E2, m, T
<1>8. \A k \in Correct : /\ E2[k].height = E[k].height
                         /\ E2[k].round = E[k].round
                         /\ E2[k].locked_round = E[k].locked_round
                         /\ E2[k].locked_hash = E[k].locked_hash
                         /\ E2[k].prevotes = E[k].prevotes
                         /\ E2[k].precommits = E[k].precommits
  BY <1>2, <1>3
<1>9. \A h, r, c : /\ Polka(S, h, r, c) => Polka(T, h, r, c)
                   /\ Decided(S, h, r, c) => Decided(T, h, r, c)
  BY <1>6, BackedMonotone DEF Polka, Decided
<1>10. \A h, r, c : Choosable(E2, T, h, r, c) => Choosable(E, S, h, r, c)
  <2>1. \A h, r, c : MayPrecommit(E2, T, h, r, c) \subseteq MayPrecommit(E, S, h, r, c)
    BY <1>5, <1>6, <1>8 DEF MayPrecommit
  <2> QED BY <2>1 DEF Choosable
<1>11. Typed(E2, L, T)
  BY <1>3, <1>4, <1>6 DEF IInv, Typed
<1>12. HeightInv(E2, L)
  BY <1>8 DEF IInv, HeightInv
<1>13. PastInv(E2, T)
  <2>1. \A k \in S : k.from \in Correct
    BY <1>1 DEF SentMessage
  <2>2. E[n].height \in Nat /\ E[n].round \in Nat
    BY <1>1 DEF Engine
  <2> QED BY <2>1, <2>2, <1>4, <1>6, <1>8 DEF IInv, PastInv
<1>14. ViewInv(E2, T)
  BY <1>6, <1>8 DEF IInv, ViewInv
<1>15. LockInv(E2, T)
  BY <1>8, <1>9 DEF IInv, LockInv
<1>16. CommitLockInv(E2, T)
  <2>1. \A k \in S : k.from \in Correct
    BY <1>1 DEF SentMessage
  <2> QED BY <2>1, <1>4, <1>6, <1>8 DEF IInv, CommitLockInv
<1>17. PrecommitInv(T)
  BY <1>4, <1>6, <1>9 DEF IInv, PrecommitInv
<1>18. DecisionInv(L, T)
  BY <1>6, <1>9 DEF IInv, DecisionInv
<1>19. \* an earlier precommit of n for another hash: n was unlocked by a quorum for b
       ASSUME NEW p \in S, p.type = "Precommit", p.from = n, p.height = E[n].height,
              p.round < E[n].round, p.hash # b
       PROVE  /\ E[n].locked_round \in p.round + 1 .. E[n].round
              /\ Polka(S, E[n].height, E[n].locked_round, b)
  <2>1. /\ p.round <= E[n].locked_round
        /\ p.round = E[n].locked_round => p.hash = E[n].locked_hash
    BY <1>19 DEF IInv, CommitLockInv
  <2>2. p.round \in Nat /\ E[n].locked_round \in Nat \cup {NoRound} /\ E[n].round \in Nat
    BY <1>1 DEF SentMessage, Engine
  <2>3. E[n].locked_round # NoRound
    BY <2>1, <2>2 DEF NoRound
  <2>4. E[n].locked_hash # NoHash
    BY <2>3 DEF IInv, LockInv
  <2>5. E[n].locked_round <= E[n].round /\ Polka(S, E[n].height, E[n].locked_round, b)
    BY <2>4 DEF IInv, LockInv
  <2> QED BY <1>19, <2>1, <2>2, <2>3, <2>4, <2>5
<1>20. ReleaseInv(T)
  <2> SUFFICES ASSUME NEW p \in T, NEW v \in T, p.type = "Precommit", v.type = "Prevote",
                      p.from = v.from, p.height = v.height, p.round < v.round, p.hash # v.hash
               PROVE  \E r \in p.round + 1 .. v.round : Polka(T, p.height, r, v.hash)
    BY DEF ReleaseInv
  <2>1. p \in S
    BY <1>4, <1>6
  <2>2. CASE v \in S
    BY <2>1, <2>2, <1>9 DEF IInv, ReleaseInv
  <2>3. CASE v = m
    BY <2>1, <2>3, <1>4, <1>9, <1>19
  <2> QED BY <2>2, <2>3, <1>6
<1>21. ChoosableInv(E2, T)
  <2> SUFFICES ASSUME NEW v \in T, NEW r \in 0 .. v.round - 1, NEW c \in Hash,
                      v.type = "Prevote", Polka(T, v.height, v.round, v.hash),
                      Choosable(E2, T, v.height, r, c), v.hash # c
               PROVE  FALSE
    BY DEF ChoosableInv
  <2>1. v \in SentMessage
    BY <1>1, <1>4, <1>6
  <2>2. \* a correct validator in both quorums
        PICK y \in Correct : /\ Message("Prevote", v.height, v.round, v.hash, y) \in T
                             /\ y \in MayPrecommit(E, S, v.height, r, c)
    <3>1. PICK Q \in Quorums : Q \subseteq Faulty \cup Sent(T, "Prevote", v.height, v.round, v.hash)
      BY DEF Polka, Backed
    <3>2. PICK R \in Quorums : R \subseteq Faulty \cup MayPrecommit(E, S, v.height, r, c)
      BY <1>10 DEF Choosable
    <3>3. PICK y \in Correct : y \in Q /\ y \in R
      BY DEF IInv, QuorumsMeet
    <3> QED BY <3>1, <3>2, <3>3 DEF Sent, Correct
  <2> DEFINE w == Message("Prevote", v.height, v.round, v.hash, y)
             p == Message("Precommit", v.height, r, c, y)
  <2>3. /\ w.type = "Prevote" /\ w.from = y /\ w.hash = v.hash
        /\ w.height = v.height /\ w.round = v.round
        /\ p.type = "Precommit" /\ p.from = y /\ p.hash = c
        /\ p.height = v.height /\ p.round = r
    BY DEF Message
  <2>4. r \in Nat /\ r < v.round /\ v.round \in Nat /\ v.height \in Nat
        /\ E[y].height \in Nat /\ E[y].round \in Nat
    BY <2>1, <1>1 DEF SentMessage, Engine
  <2>5. v.height <= E[y].height /\ (v.height = E[y].height => v.round <= E[y].round)
    <3>1. w.height <= E2[w.from].height
          /\ (w.height = E2[w.from].height => w.round <= E2[w.from].round)
      BY <2>2, <1>13 DEF PastInv
    <3> QED BY <3>1, <2>3, <1>8
  <2>6. p \in S
    BY <2>2, <2>4, <2>5 DEF MayPrecommit
  <2> HIDE DEF w, p
  <2>7. \E r2 \in r + 1 .. v.round : Polka(S, v.height, r2, v.hash)
    <3>1. CASE w \in S
      BY <3>1, <2>3, <2>4, <2>6 DEF IInv, ReleaseInv
    <3>2. CASE w = m
      BY <3>2, <2>3, <2>4, <2>6, <1>4, <1>19
    <3> QED BY <3>1, <3>2, <2>2, <1>6 DEF w
  <2>8. PICK r2 \in r + 1 .. v.round : Polka(S, v.height, r2, v.hash)
    BY <2>7
  <2>9. PICK z \in Correct : Message("Prevote", v.height, r2, v.hash, z) \in S
    BY <2>8, BackedIntersect DEF Polka, IInv
  <2>10. Choosable(E, S, v.height, r, c)
    BY <1>10
  <2>11. r \in 0 .. r2 - 1
    BY <2>4, <2>8
  <2> QED BY <2>8, <2>9, <2>10, <2>11 DEF IInv, ChoosableInv, Message
<1>22. IInv(E2, L, T)
  BY <1>11, <1>12, <1>13, <1>14, <1>15, <1>16, <1>17, <1>18, <1>20, <1>21 DEF IInv
<1> QED BY <1>22 DEF E2, x, T, m

-----------------------------------------------------------------------------
(* Locking and precommitting (on_prevote), leaving a round (on_timeout) and *)
(* leaving a height (start_height after BlockFinalized) *)

(* Locking on a quorum of recorded prevotes and broadcasting the precommit *)
(* preserves the invariant (the tally branch of on_prevote).               *)
LEMMA LockAndPrecommit ==
  ASSUME NEW E, NEW L, NEW S, IInv(E, L, S), NEW n \in Correct,
         NEW q \in quorum_hash(E[n].prevotes)
  PROVE  IInv([E EXCEPT ![n] = [E[n] EXCEPT !.locked_round = E[n].round,
                                            !.locked_hash = q, !.step = "Precommit"]], L,
              S \cup {Message("Precommit", E[n].height, E[n].round, q, n)})
<1> DEFINE x  == [E[n] EXCEPT !.locked_round = E[n].round,
                              !.locked_hash = q, !.step = "Precommit"]
           E2 == [E EXCEPT ![n] = x]
           m  == Message("Precommit", E[n].height, E[n].round, q, n)
           T  == S \cup {m}
<1>1. E \in [Correct -> Engine] /\ E[n] \in Engine /\ S \subseteq SentMessage
  BY DEF IInv, Typed
<1>2. q \in Hash /\ Supporters(E[n].prevotes, q) \in Quorums
  BY DEF quorum_hash
<1>3. /\ x \in Engine
      /\ x.height = E[n].height /\ x.round = E[n].round
      /\ x.locked_round = E[n].round /\ x.locked_hash = q
      /\ x.prevotes = E[n].prevotes /\ x.precommits = E[n].precommits
      /\ E[n].height \in Nat /\ E[n].round \in Nat
      /\ E[n].locked_round \in Nat \cup {NoRound}
  BY Zenon, <1>1, <1>2 DEF Engine, Steps
<1>4. E2 \in [Correct -> Engine] /\ E2[n] = x
      /\ \A k \in Correct : k # n => E2[k] = E[k]
  BY <1>1, <1>3
<1>5. m \in SentMessage /\ m.type = "Precommit" /\ m.from = n /\ m.hash = q
      /\ m.height = E[n].height /\ m.round = E[n].round
  BY <1>2, <1>3 DEF Message, SentMessage
<1>6. S \subseteq T /\ m \in T /\ \A k \in T : k \in S \/ k = m
  OBVIOUS
<1>7. \A h, r, c, k : Message("Prevote", h, r, c, k) # m
  BY DEF Message
<1>8. \A h, r, c, k : Message("Precommit", h, r, c, k) = m
                        => h = E[n].height /\ r = E[n].round /\ k = n
  BY DEF Message
<1> HIDE DEF x, E2, m, T
<1>9. \A k \in Correct : /\ E2[k].height = E[k].height
                         /\ E2[k].round = E[k].round
                         /\ E2[k].prevotes = E[k].prevotes
                         /\ E2[k].precommits = E[k].precommits
  BY <1>3, <1>4
<1>10. \A k \in S : k.from \in Correct /\ k.round \in Nat /\ k.height \in Nat
  BY <1>1 DEF SentMessage
<1>11. \A h, r, c : /\ Polka(S, h, r, c) <=> Polka(T, h, r, c)
                    /\ Decided(S, h, r, c) => Decided(T, h, r, c)
  <2>1. \A h, r, c : Sent(T, "Prevote", h, r, c) = Sent(S, "Prevote", h, r, c)
    BY <1>6, <1>7 DEF Sent
  <2> QED BY <2>1, <1>6, BackedMonotone DEF Polka, Decided, Backed
<1>12. \A h, r, c : Choosable(E2, T, h, r, c) => Choosable(E, S, h, r, c)
  <2>1. \A h, r, c : MayPrecommit(E2, T, h, r, c) \subseteq MayPrecommit(E, S, h, r, c)
    <3> SUFFICES ASSUME NEW h, NEW r, NEW c, NEW k \in MayPrecommit(E2, T, h, r, c)
                 PROVE  k \in MayPrecommit(E, S, h, r, c)
      OBVIOUS
    <3>1. CASE Message("Precommit", h, r, c, k) = m
      BY <3>1, <1>3, <1>8 DEF MayPrecommit
    <3>2. CASE Message("Precommit", h, r, c, k) # m
      BY <3>2, <1>6, <1>9 DEF MayPrecommit
    <3> QED BY <3>1, <3>2
  <2> QED BY <2>1 DEF Choosable
<1>13. Polka(S, E[n].height, E[n].round, q)
  <2>1. Supporters(E[n].prevotes, q) \subseteq Faulty \cup Sent(S, "Prevote", E[n].height, E[n].round, q)
    BY <1>2 DEF IInv, ViewInv, Supporters, Sent, Correct
  <2> QED BY <1>2, <2>1 DEF Polka, Backed
<1>14. \* a precommit of n in this round was for the same hash
       ASSUME NEW p \in S, p.type = "Precommit", p.from = n,
              p.height = E[n].height, p.round = E[n].round
       PROVE  p.hash = q
  <2>1. /\ p.round <= E[n].locked_round
        /\ p.round = E[n].locked_round => p.hash = E[n].locked_hash
    BY <1>14 DEF IInv, CommitLockInv
  <2>2. E[n].locked_round # NoRound
    BY <1>3, <1>14, <2>1 DEF NoRound
  <2>3. E[n].locked_hash # NoHash
    BY <2>2 DEF IInv, LockInv
  <2>4. E[n].locked_round = E[n].round /\ p.hash = E[n].locked_hash
    <3>1. E[n].locked_round <= E[n].round
      BY <2>3 DEF IInv, LockInv
    <3>2. E[n].locked_round \in Nat
      BY <2>2, <1>3
    <3> QED BY <3>1, <3>2, <2>1, <1>3, <1>14
  <2>5. PICK Q \in Quorums : Q \subseteq Supporters(E[n].prevotes, E[n].locked_hash)
    BY <2>3, <2>4 DEF IInv, LockInv
  <2>6. PICK y \in Correct : y \in Q /\ y \in Supporters(E[n].prevotes, q)
    BY <1>2 DEF IInv, QuorumsMeet
  <2> QED BY <2>4, <2>5, <2>6 DEF Supporters
<1>15. Typed(E2, L, T)
  BY <1>4, <1>5, <1>6 DEF IInv, Typed
<1>16. HeightInv(E2, L)
  BY <1>9 DEF IInv, HeightInv
<1>17. PastInv(E2, T)
  BY <1>3, <1>5, <1>6, <1>9, <1>10 DEF IInv, PastInv
<1>18. ViewInv(E2, T)
  BY <1>6, <1>9 DEF IInv, ViewInv
<1>19. LockInv(E2, T)
  <2> SUFFICES ASSUME NEW k \in Correct
               PROVE  /\ E2[k].locked_round = NoRound <=> E2[k].locked_hash = NoHash
                      /\ E2[k].locked_hash # NoHash =>
                           /\ E2[k].locked_round <= E2[k].round
                           /\ Polka(T, E2[k].height, E2[k].locked_round, E2[k].locked_hash)
                           /\ E2[k].locked_round = E2[k].round =>
                                \E Q \in Quorums :
                                   Q \subseteq Supporters(E2[k].prevotes, E2[k].locked_hash)
    BY DEF LockInv
  <2>1. CASE k # n
    BY Zenon, <2>1, <1>4, <1>11 DEF IInv, LockInv
  <2>2. CASE k = n
    BY <2>2, <1>2, <1>3, <1>4, <1>11, <1>13, HashAssumption DEF NoRound
  <2> QED BY <2>1, <2>2
<1>20. CommitLockInv(E2, T)
  <2> SUFFICES ASSUME NEW p \in T, p.type = "Precommit", p.height = E2[p.from].height
               PROVE  /\ p.round <= E2[p.from].locked_round
                      /\ p.round = E2[p.from].locked_round => p.hash = E2[p.from].locked_hash
    BY DEF CommitLockInv
  <2>1. CASE p = m
    BY <2>1, <1>3, <1>4, <1>5
  <2>2. CASE p \in S /\ p.from # n
    BY <2>2, <1>4, <1>10 DEF IInv, CommitLockInv
  <2>3. CASE p \in S /\ p.from = n
    <3>1. p.height = E[n].height /\ p.round <= E[n].round
      BY <2>3, <1>3, <1>4 DEF IInv, PastInv
    <3> QED BY <3>1, <2>3, <1>3, <1>4, <1>14
  <2> QED BY <2>1, <2>2, <2>3, <1>6
<1>21. PrecommitInv(T)
  <2>1. ASSUME NEW p \in T, p.type = "Precommit"
        PROVE  Polka(T, p.height, p.round, p.hash)
    BY <2>1, <1>5, <1>6, <1>11, <1>13 DEF IInv, PrecommitInv
  <2>2. ASSUME NEW p \in T, NEW o \in T, p.type = "Precommit", o.type = "Precommit",
               p.from = o.from, p.height = o.height, p.round = o.round
        PROVE  p.hash = o.hash
    BY <2>2, <1>5, <1>6, <1>14 DEF IInv, PrecommitInv
  <2> QED BY <2>1, <2>2 DEF PrecommitInv
<1>22. ReleaseInv(T)
  <2> SUFFICES ASSUME NEW p \in T, NEW v \in T, p.type = "Precommit", v.type = "Prevote",
                      p.from = v.from, p.height = v.height, p.round < v.round, p.hash # v.hash
               PROVE  \E r \in p.round + 1 .. v.round : Polka(T, p.height, r, v.hash)
    BY DEF ReleaseInv
  <2>1. v \in S
    BY <1>5, <1>6
  <2>2. CASE p \in S
    BY <2>1, <2>2, <1>11 DEF IInv, ReleaseInv
  <2>3. CASE p = m
    BY <2>1, <2>3, <1>3, <1>5, <1>10 DEF IInv, PastInv
  <2> QED BY <2>2, <2>3, <1>6
<1>23. ChoosableInv(E2, T)
  <2>1. \A v \in T : v.type = "Prevote" => v \in S
    BY <1>5, <1>6
  <2> QED BY <2>1, <1>11, <1>12 DEF IInv, ChoosableInv
<1>24. DecisionInv(L, T)
  BY <1>6, <1>11 DEF IInv, DecisionInv
<1>25. IInv(E2, L, T)
  BY <1>15, <1>16, <1>17, <1>18, <1>19, <1>20, <1>21, <1>22, <1>23, <1>24 DEF IInv
<1> QED BY <1>25 DEF E2, x, T, m

(* A validator that only moves forward, to a later round or height, can    *)
(* only lose choices: nothing becomes decidable that was not.              *)
LEMMA ChoosableForward ==
  ASSUME NEW E, NEW E2, NEW S, ChoosableInv(E, S), S \subseteq SentMessage,
         \A k \in Correct : /\ E[k].height \in Nat /\ E2[k].height \in Nat
                            /\ E[k].round \in Nat /\ E2[k].round \in Nat
                            /\ E[k].height <= E2[k].height
                            /\ E[k].height = E2[k].height => E[k].round <= E2[k].round
  PROVE  ChoosableInv(E2, S)
<1>1. \A h, r \in Nat : \A c : MayPrecommit(E2, S, h, r, c) \subseteq MayPrecommit(E, S, h, r, c)
  BY DEF MayPrecommit
<1>2. \A h, r \in Nat : \A c : Choosable(E2, S, h, r, c) => Choosable(E, S, h, r, c)
  BY <1>1 DEF Choosable
<1>3. \A v \in S : v.height \in Nat /\ v.round \in Nat
  BY DEF SentMessage
<1>4. \A v \in S : \A r \in 0 .. v.round - 1 : r \in Nat
  BY <1>3
<1> QED BY <1>2, <1>3, <1>4 DEF ChoosableInv

(* on_timeout preserves the invariant: it clears the votes of the round    *)
(* and keeps the lock.                                                     *)
LEMMA TimeoutStep ==
  ASSUME NEW E, NEW L, NEW S, IInv(E, L, S), NEW n \in Correct
  PROVE  IInv([E EXCEPT ![n] = on_timeout(E[n])], L, S)
<1> DEFINE x  == on_timeout(E[n])
           E2 == [E EXCEPT ![n] = x]
<1>1. E \in [Correct -> Engine] /\ E[n] \in Engine /\ S \subseteq SentMessage
  BY DEF IInv, Typed
<1>2. CASE E[n].step = "Committed"
  BY Zenon, <1>1, <1>2 DEF on_timeout
<1>3. CASE E[n].step # "Committed"
  <2>1. /\ x \in Engine
        /\ x.height = E[n].height /\ x.round = E[n].round + 1
        /\ x.locked_round = E[n].locked_round /\ x.locked_hash = E[n].locked_hash
        /\ x.prevotes = NoVotes /\ x.precommits = NoVotes
        /\ E[n].height \in Nat /\ E[n].round \in Nat
    <3>1. NoVotes \in [Voters -> Vote]
      BY DEF NoVotes, Vote
    <3>2. FastReset \in [hash : Hash \cup {NoHash}, agreed : SUBSET Voters,
                         start : Nat \cup {NoTime}, conflict : BOOLEAN]
      BY DEF FastReset
    <3> DEFINE next == E[n].round + 1
               z == [E[n] EXCEPT !.round = next, !.step = "Propose"]
               y == [z EXCEPT !.fast = FastReset]
    <3>3. x = [y EXCEPT !.prevotes = NoVotes, !.precommits = NoVotes]
      BY <1>3 DEF on_timeout
    <3>0. E[n].height \in Nat /\ E[n].round \in Nat /\ next \in Nat
      BY <1>1 DEF Engine
    <3> HIDE DEF next
    <3>4. /\ z \in Engine /\ z.height = E[n].height /\ z.round = next
          /\ z.locked_round = E[n].locked_round /\ z.locked_hash = E[n].locked_hash
      BY Zenon, <1>1, <3>0 DEF Engine, Steps
    <3> HIDE DEF z
    <3>5. /\ y \in Engine /\ y.height = z.height /\ y.round = z.round
          /\ y.locked_round = z.locked_round /\ y.locked_hash = z.locked_hash
      BY <3>2, <3>4 DEF Engine
    <3> HIDE DEF x, y
    <3> QED BY Zenon, <3>0, <3>1, <3>3, <3>4, <3>5 DEF Engine, next
  <2>2. E2 \in [Correct -> Engine] /\ E2[n] = x
        /\ \A k \in Correct : k # n => E2[k] = E[k]
    BY <1>1, <2>1
  <2> HIDE DEF E2, x
  <2>3. \A k \in Correct : /\ E2[k].height = E[k].height
                           /\ E[k].height \in Nat /\ E[k].round \in Nat /\ E2[k].round \in Nat
                           /\ E[k].round <= E2[k].round
                           /\ E2[k].locked_round = E[k].locked_round
                           /\ E2[k].locked_hash = E[k].locked_hash
    <3>1. \A k \in Correct : E[k].height \in Nat /\ E[k].round \in Nat
      BY <1>1 DEF Engine
    <3> QED BY <2>1, <2>2, <3>1
  <2>4. \A k \in S : k.from \in Correct /\ k.round \in Nat
    BY <1>1 DEF SentMessage
  <2>5. ChoosableInv(E2, S)
    BY <2>3, <1>1, ChoosableForward DEF IInv
  <2>6. PastInv(E2, S)
    BY <2>3, <2>4 DEF IInv, PastInv
  <2>7. CommitLockInv(E2, S)
    BY <2>3, <2>4 DEF IInv, CommitLockInv
  <2>8. HeightInv(E2, L)
    BY <2>3 DEF IInv, HeightInv
  <2>9. ViewInv(E2, S)
    <3>1. \A v \in Correct : NoVotes[v] \notin Hash
      BY HashAssumption DEF NoVotes, Correct
    <3>2. ASSUME NEW k \in Correct, NEW u \in Correct, k # n
          PROVE  E2[k] = E[k]
      BY <2>2, <3>2
    <3> QED BY Zenon, <2>1, <2>2, <3>1 DEF IInv, ViewInv
  <2>10. LockInv(E2, S)
    <3>1. \A k \in Correct : k # n => E2[k].prevotes = E[k].prevotes /\ E2[k].round = E[k].round
      BY <2>2
    <3>2. E[n].locked_hash # NoHash => E2[n].locked_round < E2[n].round
      <4>1. E[n].locked_hash # NoHash
              => E[n].locked_round <= E[n].round /\ E[n].locked_round # NoRound
        BY Zenon DEF IInv, LockInv
      <4>2. E[n].locked_round \in Nat \cup {NoRound}
        BY <1>1 DEF Engine
      <4> QED BY <4>1, <4>2, <2>1, <2>2
    <3>3. E[n].locked_hash # NoHash
            => E2[n].locked_round <= E2[n].round /\ E2[n].locked_round # E2[n].round
      <4>1. E2[n].locked_round \in Nat \cup {NoRound} /\ E2[n].round \in Nat
        BY <2>2 DEF Engine
      <4> QED BY <3>2, <4>1 DEF NoRound
    <3> QED BY Zenon, <2>3, <3>1, <3>3 DEF IInv, LockInv
  <2>11. Typed(E2, L, S)
    BY <2>2 DEF IInv, Typed
  <2>12. IInv(E2, L, S)
    BY <2>5, <2>6, <2>7, <2>8, <2>9, <2>10, <2>11 DEF IInv
  <2> QED BY <2>12 DEF E2, x
<1> QED BY <1>2, <1>3

(* A fresh height is a well-formed engine without votes and lock. *)
LEMMA StartHeightType ==
  ASSUME NEW h \in Nat
  PROVE  LET x == StartHeight(h) IN
         /\ x \in Engine /\ x.height = h /\ x.round = 0 /\ x.step = "Propose"
         /\ x.locked_round = NoRound /\ x.locked_hash = NoHash
         /\ x.prevotes = NoVotes /\ x.precommits = NoVotes
<1>1. NoVotes \in [Voters -> Vote]
  BY DEF NoVotes, Vote
<1>2. FastReset \in [hash : Hash \cup {NoHash}, agreed : SUBSET Voters,
                     start : Nat \cup {NoTime}, conflict : BOOLEAN]
  BY DEF FastReset
<1> QED BY <1>1, <1>2 DEF StartHeight, Engine, Steps

(* start_height after BlockFinalized preserves the invariant, given that   *)
(* a quorum of precommits decided the block.                               *)
LEMMA FinalizeStep ==
  ASSUME NEW E, NEW L, NEW S, IInv(E, L, S), NEW n \in Correct, NEW q \in Hash,
         Decided(S, E[n].height, E[n].round, q)
  PROVE  IInv([E EXCEPT ![n] = StartHeight(E[n].height + 1)],
              [L EXCEPT ![n] = L[n] \o <<q>>], S)
<1> DEFINE x  == StartHeight(E[n].height + 1)
           E2 == [E EXCEPT ![n] = x]
           L2 == [L EXCEPT ![n] = L[n] \o <<q>>]
<1>0. Typed(E, L, S) /\ HeightInv(E, L) /\ PastInv(E, S)
  BY DEF IInv
<1>1. E \in [Correct -> Engine] /\ E[n] \in Engine /\ S \subseteq SentMessage
      /\ L \in [Correct -> Seq(Hash)] /\ L[n] \in Seq(Hash)
  BY <1>0 DEF Typed
<1>2. /\ x \in Engine
      /\ x.height = E[n].height + 1 /\ x.round = 0
      /\ x.locked_round = NoRound /\ x.locked_hash = NoHash
      /\ x.prevotes = NoVotes /\ x.precommits = NoVotes
      /\ E[n].height \in Nat /\ E[n].round \in Nat
  <2>1. E[n].height \in Nat /\ E[n].round \in Nat
    BY <1>1 DEF Engine
  <2>2. E[n].height + 1 \in Nat
    BY <2>1
  <2> QED BY <2>1, <2>2, StartHeightType
<1>3. E2 \in [Correct -> Engine] /\ E2[n] = x
      /\ \A k \in Correct : k # n => E2[k] = E[k]
  BY <1>1, <1>2
<1>4. /\ L2 \in [Correct -> Seq(Hash)] /\ L2[n] = L[n] \o <<q>>
      /\ \A k \in Correct : k # n => L2[k] = L[k]
  BY <1>1
<1>5. /\ Len(L2[n]) = Len(L[n]) + 1 /\ Len(L[n]) \in Nat
      /\ DOMAIN L2[n] = 1 .. Len(L[n]) + 1
      /\ DOMAIN L[n] = 1 .. Len(L[n])
      /\ \A h \in 1 .. Len(L[n]) : L2[n][h] = L[n][h]
      /\ L2[n][Len(L[n]) + 1] = q
  BY <1>1, <1>4
<1> HIDE DEF x, E2, L2
<1>6. \A k \in S : k.from \in Correct /\ k.round \in Nat /\ k.height \in Nat
  <2>1. S \subseteq SentMessage
    BY <1>1
  <2> QED BY <2>1 DEF SentMessage
<1>7. \A k \in Correct : E[k].height \in Nat /\ E[k].round \in Nat
  BY <1>1 DEF Engine
<1>8. ChoosableInv(E2, S)
  <2>1. \A k \in Correct : /\ E2[k].height \in Nat /\ E2[k].round \in Nat
                           /\ E[k].height <= E2[k].height
                           /\ E[k].height = E2[k].height => E[k].round <= E2[k].round
    BY <1>2, <1>3, <1>7
  <2> QED BY Zenon, <1>1, <1>7, <2>1, ChoosableForward DEF IInv
<1>9. \A m \in S : m.from = n => m.height < E2[n].height
  <2>1. E2[n].height = E[n].height + 1 /\ E[n].height \in Nat
    BY <1>2, <1>3
  <2>2. \A m \in S : m.height \in Nat /\ m.height <= E[m.from].height
    BY <1>0, <1>6 DEF PastInv
  <2> QED BY <2>1, <2>2
<1>10. PastInv(E2, S)
  <2> SUFFICES ASSUME NEW m \in S
               PROVE  /\ m.height <= E2[m.from].height
                      /\ m.height = E2[m.from].height => m.round <= E2[m.from].round
    BY DEF PastInv
  <2>1. CASE m.from = n
    <3>1. m.height < E2[n].height /\ m.height \in Nat /\ E2[n].height \in Nat
      BY <2>1, <1>2, <1>3, <1>6, <1>9
    <3> QED BY <2>1, <3>1
  <2>2. CASE m.from # n
    BY <2>2, <1>0, <1>3, <1>6 DEF PastInv
  <2> QED BY <2>1, <2>2
<1>11. CommitLockInv(E2, S)
  <2>1. \A m \in S : m.from = n => m.height # E2[m.from].height
    <3>1. E2[n].height \in Nat
      BY <1>2, <1>3
    <3> QED BY <3>1, <1>6, <1>9
  <2> QED BY Zenon, <2>1, <1>3, <1>6 DEF IInv, CommitLockInv
<1>12. HeightInv(E2, L2)
  BY Zenon, <1>2, <1>3, <1>4, <1>5 DEF IInv, HeightInv
<1>13. ViewInv(E2, S)
  <2>1. \A v \in Correct : NoVotes[v] \notin Hash
    BY HashAssumption DEF NoVotes, Correct
  <2> QED BY Zenon, <2>1, <1>2, <1>3 DEF IInv, ViewInv
<1>14. LockInv(E2, S)
  BY Zenon, <1>2, <1>3 DEF IInv, LockInv
<1>15. Typed(E2, L2, S)
  BY <1>3, <1>4 DEF IInv, Typed
<1>16. DecisionInv(L2, S)
  <2> SUFFICES ASSUME NEW k \in Correct, NEW h \in DOMAIN L2[k]
               PROVE  \E m \in S : /\ m.type = "Precommit" /\ m.height = h /\ m.hash = L2[k][h]
                                   /\ Decided(S, h, m.round, m.hash)
    BY DEF DecisionInv
  <2>1. CASE k # n
    <3>1. L2[k] = L[k] /\ h \in DOMAIN L[k]
      BY <2>1, <1>4
    <3>2. DecisionInv(L, S)
      BY DEF IInv
    <3> QED BY <3>1, <3>2 DEF DecisionInv
  <2>2. CASE k = n /\ h \in 1 .. Len(L[n])
    BY <2>2, <1>5 DEF IInv, DecisionInv
  <2>3. CASE k = n /\ h = Len(L[n]) + 1
    <3>1. h = E[n].height /\ L2[k][h] = q
      BY <2>3, <1>5 DEF IInv, HeightInv
    <3>2. PICK y \in Correct : Message("Precommit", E[n].height, E[n].round, q, y) \in S
      BY BackedIntersect DEF Decided, IInv
    <3> DEFINE m == Message("Precommit", E[n].height, E[n].round, q, y)
    <3>3. m.type = "Precommit" /\ m.height = E[n].height /\ m.round = E[n].round /\ m.hash = q
      BY DEF Message
    <3> HIDE DEF m
    <3>4. m \in S
      BY <3>2 DEF m
    <3>5. Decided(S, h, m.round, m.hash) /\ m.height = h /\ m.hash = L2[k][h]
      BY <3>1, <3>3
    <3> QED BY Zenon, <3>3, <3>4, <3>5
  <2>4. CASE k = n
    <3>1. h \in 1 .. Len(L[n]) + 1 /\ Len(L[n]) \in Nat
      BY <2>4, <1>5
    <3>2. h \in 1 .. Len(L[n]) \/ h = Len(L[n]) + 1
      BY <3>1
    <3> QED BY <2>2, <2>3, <2>4, <3>2
  <2> QED BY <2>1, <2>4
<1>17. IInv(E2, L2, S)
  BY <1>8, <1>10, <1>11, <1>12, <1>13, <1>14, <1>15, <1>16 DEF IInv
<1> QED BY <1>17 DEF E2, x, L2

-----------------------------------------------------------------------------
(* Adding up weights is the sum that InductionProofs is about. *)
LEMMA WeightIsSum == \A S : WeightOf(S) = SumOf(Weight, S)
BY DEF WeightOf, SumOf

(* What quorum_weight is chosen for: any two quorums share a correct       *)
(* validator.                                                              *)
THEOREM QuorumIntersection == QuorumsMeet
<1>1. SUFFICES ASSUME NEW Q \in Quorums, NEW R \in Quorums
               PROVE  \E v \in Correct : v \in Q /\ v \in R
  BY DEF QuorumsMeet
<1>2. IsFiniteSet(Voters) /\ Weight \in [Voters -> Nat]
  BY FaultBudget, ValidatorAssumption
<1>3. /\ Q \in SUBSET Voters /\ R \in SUBSET Voters /\ Faulty \in SUBSET Voters
      /\ Voters \in SUBSET Voters
  BY FaultyAssumption DEF Quorums
<1>4. /\ SumOf(Weight, Q) \in Nat /\ SumOf(Weight, R) \in Nat
      /\ SumOf(Weight, Faulty) \in Nat /\ SumOf(Weight, Voters) \in Nat
  BY <1>2, <1>3, SumLaws
<1>5. SumOf(Weight, Q) >= quorum_weight /\ SumOf(Weight, R) >= quorum_weight
  BY WeightIsSum DEF Quorums
<1>6. quorum_weight \in Nat
  BY <1>3, <1>4, WeightIsSum DEF quorum_weight, QuorumOf, total_weight
<1>7. SumOf(Weight, Voters) + SumOf(Weight, Faulty) < 2 * quorum_weight
  BY FaultBudget, WeightIsSum DEF total_weight
<1>8. SumOf(Weight, Voters) + SumOf(Weight, Faulty) < SumOf(Weight, Q) + SumOf(Weight, R)
  BY <1>4, <1>5, <1>6, <1>7
<1>9. QED BY <1>2, <1>3, <1>8, SumsOverlap DEF Correct

(* How much faulty weight that is: f of a total of 3f + 1, f - 1 of        *)
(* 3f + 2, and f - 2 of 3f + 3 (QuorumOf takes f = (total - 1) / 3).       *)
THEOREM FaultsTolerated ==
    ASSUME NEW f \in Nat, NEW faulty \in Nat
    PROVE  /\ 3*f + 1 + faulty < 2 * QuorumOf(3*f + 1) <=> faulty <= f
           /\ 3*f + 2 + faulty < 2 * QuorumOf(3*f + 2) <=> faulty <= f - 1
           /\ 3*f + 3 + faulty < 2 * QuorumOf(3*f + 3) <=> faulty <= f - 2
<1>1. QuorumOf(3*f + 1) = 2*f + 1 BY DEF QuorumOf
<1>2. QuorumOf(3*f + 2) = 2*f + 1 BY DEF QuorumOf
<1>3. QuorumOf(3*f + 3) = 2*f + 1 BY DEF QuorumOf
<1>4. QED BY <1>1, <1>2, <1>3

-----------------------------------------------------------------------------
(* The chain of handlers of one action.  Good says that applying the       *)
(* outcome o at n keeps the invariant and leaves the engine out of the     *)
(* Committed step.                                                         *)

Good(E, L, S, n, o) ==
    /\ IInv([E EXCEPT ![n] = o.engine], [L EXCEPT ![n] = L[n] \o o.log], S \cup o.out)
    /\ o.engine.step # "Committed"

(* The vote m may be counted: a correct voter it names has sent it. *)
Genuine(S, type, m) ==
    /\ m.from \in Voters /\ m.hash \in Hash \cup {Nil}
    /\ (m.from \in Correct /\ m.hash \in Hash)
         => Message(type, m.height, m.round, m.hash, m.from) \in S

(* Processing the last event of the chain: a finalized block starts the    *)
(* next height, anything else leaves the engine as it is.                  *)
LEMMA SettleStep ==
  ASSUME NEW E, NEW L, NEW S, NEW n \in Correct, NEW r,
         E \in [Correct -> Engine], L \in [Correct -> Seq(Hash)],
         IInv([E EXCEPT ![n] = r.engine], L, S),
         r.event.type = "BlockFinalized"
           => r.event.hash \in Hash
              /\ Decided(S, r.engine.height, r.engine.round, r.event.hash),
         r.event.type # "BlockFinalized" => r.engine.step # "Committed"
  PROVE  Good(E, L, S, n, Settle(r))
<1> DEFINE E2 == [E EXCEPT ![n] = r.engine]
<1>1. E2[n] = r.engine
  OBVIOUS
<1>2. CASE r.event.type = "BlockFinalized"
  <2> DEFINE x == StartHeight(r.engine.height + 1)
  <2>1. Settle(r) = [engine |-> x, out |-> {}, log |-> <<r.event.hash>>]
    BY <1>2 DEF Settle, Outcome
  <2>2. IInv([E2 EXCEPT ![n] = x], [L EXCEPT ![n] = L[n] \o <<r.event.hash>>], S)
    BY Zenon, <1>1, <1>2, FinalizeStep
  <2>3. [E2 EXCEPT ![n] = x] = [E EXCEPT ![n] = x]
    BY Zenon
  <2>4. x.step = "Propose"
    BY DEF StartHeight
  <2>5. S \cup {} = S
    OBVIOUS
  <2> HIDE DEF x, E2
  <2> QED BY <2>1, <2>2, <2>3, <2>4, <2>5 DEF Good
<1>3. CASE r.event.type # "BlockFinalized"
  <2>1. Settle(r) = [engine |-> r.engine, out |-> {}, log |-> <<>>]
    BY <1>3 DEF Settle, Outcome
  <2>2. [L EXCEPT ![n] = L[n] \o <<>>] = L
    <3>1. L[n] \in Seq(Hash)
      OBVIOUS
    <3>2. L[n] \o <<>> = L[n]
      BY <3>1
    <3> QED BY <3>2
  <2>3. S \cup {} = S
    OBVIOUS
  <2>4. Settle(r).engine = r.engine /\ Settle(r).out = {} /\ Settle(r).log = <<>>
    BY <2>1
  <2> QED BY Zenon, <1>3, <2>2, <2>3, <2>4 DEF Good
<1> QED BY <1>2, <1>3

(* on_precommit and the processing of its event. *)
LEMMA AfterPrecommitStep ==
  ASSUME NEW E, NEW L, NEW S, IInv(E, L, S), NEW n \in Correct, E[n].step # "Committed",
         NEW m, Genuine(S, "Precommit", m), NEW o \in AfterPrecommit(E[n], m)
  PROVE  Good(E, L, S, n, o)
<1>1. PICK r \in on_precommit(E[n], m) : o = Settle(r)
  BY DEF AfterPrecommit
<1>2. E \in [Correct -> Engine] /\ L \in [Correct -> Seq(Hash)] /\ E[n] \in Engine
  BY DEF IInv, Typed
<1>3. CASE r = Result(E[n], NoEvent)
  <2>1. r.engine = E[n] /\ r.event.type = "None"
    BY <1>3 DEF Result, NoEvent, Event
  <2>2. [E EXCEPT ![n] = r.engine] = E
    BY <2>1, <1>2
  <2> QED BY <1>1, <1>2, <2>1, <2>2, SettleStep
<1>4. CASE r # Result(E[n], NoEvent)
  <2> DEFINE noted == [E[n] EXCEPT !.precommits[m.from] = m.hash]
  <2>1. m.height = E[n].height /\ m.round = E[n].round
    BY <1>1, <1>4 DEF on_precommit, Ignored
  <2>2. E[n].step \in Steps
    BY <1>2 DEF Engine
  <2>3. noted = [E[n] EXCEPT !.precommits[m.from] = m.hash, !.step = E[n].step]
    BY Zenon, <1>2 DEF Engine
  <2>4. IInv([E EXCEPT ![n] = noted], L, S)
    <3> DEFINE same == [E[n] EXCEPT !.precommits[m.from] = m.hash, !.step = E[n].step]
    <3>1. IInv([E EXCEPT ![n] = same], L, S)
      BY Zenon, <2>1, <2>2, RecordPrecommit DEF Genuine
    <3> HIDE DEF same, noted
    <3> QED BY <3>1, <2>3 DEF same
  <2>5. IInv([E EXCEPT ![n] = [noted EXCEPT !.step = "Committed"]], L, S)
    BY Zenon, <2>1, RecordPrecommit DEF Genuine, Steps
  <2>6. noted.height = E[n].height /\ noted.round = E[n].round /\ noted.step = E[n].step
    BY <1>2 DEF Engine
  <2> HIDE DEF noted
  <2>7. \/ r = Result(noted, NoEvent)
        \/ \E q \in quorum_hash(noted.precommits) :
             r = Result([noted EXCEPT !.step = "Committed"], Event("BlockFinalized", q))
    BY <1>1, <1>4 DEF on_precommit, noted
  <2>8. CASE r = Result(noted, NoEvent)
    <3>1. r.engine = noted /\ r.event.type = "None"
      BY <2>8 DEF Result, NoEvent, Event
    <3> QED BY Zenon, <1>1, <1>2, <2>4, <2>6, <3>1, SettleStep
  <2>9. ASSUME NEW q \in quorum_hash(noted.precommits),
               r = Result([noted EXCEPT !.step = "Committed"], Event("BlockFinalized", q))
        PROVE  Good(E, L, S, n, o)
    <3>1. q \in Hash /\ Supporters(noted.precommits, q) \in Quorums
      BY DEF quorum_hash
    <3>2. ViewInv([E EXCEPT ![n] = noted], S) /\ [E EXCEPT ![n] = noted][n] = noted
      BY <1>2, <2>4 DEF IInv
    <3>3. \A v \in Correct : noted.precommits[v] \in Hash
            => Message("Precommit", noted.height, noted.round, noted.precommits[v], v) \in S
      BY <3>2 DEF ViewInv
    <3>4. Supporters(noted.precommits, q)
            \subseteq Faulty \cup Sent(S, "Precommit", noted.height, noted.round, q)
      BY <3>1, <3>3 DEF Supporters, Sent, Correct
    <3>5. Decided(S, noted.height, noted.round, q)
      BY <3>1, <3>4 DEF Decided, Backed
    <3> DEFINE x == [noted EXCEPT !.step = "Committed"]
    <3>6. r.engine = x /\ r.event.type = "BlockFinalized" /\ r.event.hash = q
      BY <2>9 DEF Result, Event
    <3>7. x.height = noted.height /\ x.round = noted.round
      BY <1>2 DEF Engine, noted
    <3> HIDE DEF x
    <3>8. IInv([E EXCEPT ![n] = r.engine], L, S)
      BY <2>5, <3>6 DEF x
    <3> QED BY Zenon, <1>1, <1>2, <3>1, <3>5, <3>6, <3>7, <3>8, SettleStep
  <2> QED BY <2>7, <2>8, <2>9
<1> QED BY <1>3, <1>4

(* A later engine of the same validator can be applied to either state. *)
LEMMA GoodCollapse ==
  ASSUME NEW E, NEW L, NEW S, NEW n \in Correct, NEW x, NEW o, E \in [Correct -> Engine],
         Good([E EXCEPT ![n] = x], L, S, n, o)
  PROVE  Good(E, L, S, n, o)
<1>1. [[E EXCEPT ![n] = x] EXCEPT ![n] = o.engine] = [E EXCEPT ![n] = o.engine]
  BY Zenon
<1> QED BY <1>1 DEF Good

(* The tally of on_prevote, the precommit it may ask for, and that         *)
(* precommit fed back to the own engine.                                   *)
LEMMA LockStep ==
  ASSUME NEW E, NEW L, NEW S, IInv(E, L, S), NEW n \in Correct, E[n].step # "Committed",
         NEW r \in LockOnQuorum(E[n]),
         NEW o \in IF r.event.type = "SendPrecommit"
                     THEN Broadcasting(OwnMessage(n, "Precommit", r),
                                       AfterPrecommit(r.engine, OwnMessage(n, "Precommit", r)))
                     ELSE {Settle(r)}
  PROVE  Good(E, L, S, n, o)
<1>1. E \in [Correct -> Engine] /\ L \in [Correct -> Seq(Hash)] /\ E[n] \in Engine
      /\ n \in Voters /\ [E EXCEPT ![n] = E[n]] = E
  BY DEF IInv, Typed, Correct
<1>2. CASE r = Result(E[n], NoEvent)
  <2>1. r.engine = E[n] /\ r.event.type = "None"
    BY <1>2 DEF Result, NoEvent, Event
  <2>2. o = Settle(r)
    BY <2>1
  <2> QED BY Zenon, <1>1, <2>1, <2>2, SettleStep
<1>3. CASE r # Result(E[n], NoEvent)
  <2>1. PICK q \in quorum_hash(E[n].prevotes) :
          r = Result([E[n] EXCEPT !.locked_round = E[n].round, !.locked_hash = q,
                                  !.step = "Precommit"],
                     IF E[n].step # "Precommit" \/ E[n].locked_hash # q
                        \/ E[n].locked_round # E[n].round
                       THEN Event("SendPrecommit", q) ELSE NoEvent)
    BY Zenon, <1>3 DEF LockOnQuorum
  <2> DEFINE x == [E[n] EXCEPT !.locked_round = E[n].round, !.locked_hash = q,
                               !.step = "Precommit"]
  <2>2. r.engine = x
    BY <2>1 DEF Result
  <2>3. x.height = E[n].height /\ x.round = E[n].round /\ x.step = "Precommit"
    BY <1>1 DEF Engine
  <2>4. CASE E[n].step = "Precommit" /\ E[n].locked_hash = q /\ E[n].locked_round = E[n].round
    <3>1. x = E[n]
      BY Zenon, <2>4, <1>1 DEF Engine
    <3>2. r = Result(x, NoEvent)
      BY <2>1, <2>4
    <3> QED BY <1>3, <3>1, <3>2
  <2>5. CASE ~(E[n].step = "Precommit" /\ E[n].locked_hash = q /\ E[n].locked_round = E[n].round)
    <3> DEFINE own == OwnMessage(n, "Precommit", r)
               E2  == [E EXCEPT ![n] = x]
    <3>1. r.event = Event("SendPrecommit", q)
      BY <2>1, <2>5 DEF Result
    <3>2. r.event.type = "SendPrecommit" /\ r.event.hash = q
      BY <3>1 DEF Event
    <3>3. own = Message("Precommit", E[n].height, E[n].round, q, n)
      BY <2>2, <2>3, <3>2 DEF OwnMessage
    <3>4. IInv(E2, L, S \cup {own}) /\ E2[n] = x
      BY Zenon, <3>3, <1>1, LockAndPrecommit
    <3>5. own.from = n /\ own.hash = q /\ own.height = E[n].height /\ own.round = E[n].round
      BY <3>3 DEF Message
    <3>6. q \in Hash
      BY DEF quorum_hash
    <3> HIDE DEF own, x, E2
    <3>7. Genuine(S \cup {own}, "Precommit", own)
      BY <1>1, <3>3, <3>5, <3>6 DEF Genuine
    <3>8. PICK p \in AfterPrecommit(r.engine, own) : o = Outcome(p.engine, p.out \cup {own}, p.log)
      BY <3>2 DEF Broadcasting, own
    <3>9. Good(E2, L, S \cup {own}, n, p)
      BY Zenon, <2>2, <2>3, <3>4, <3>7, <3>8, AfterPrecommitStep
    <3>10. Good(E, L, S \cup {own}, n, p)
      BY Zenon, <1>1, <3>9, GoodCollapse DEF E2
    <3>11. o.engine = p.engine /\ o.log = p.log /\ S \cup o.out = (S \cup {own}) \cup p.out
      BY <3>8 DEF Outcome
    <3> QED BY Zenon, <3>10, <3>11 DEF Good
  <2> QED BY <2>4, <2>5
<1> QED BY <1>2, <1>3

(* With the fast path off, an attestation never finalizes. *)
LEMMA AttestationStep ==
  ASSUME NEW fp \in FastType, NEW who \in Voters, NEW hash \in Hash, NEW now \in Nat
  PROVE  /\ AddAttestation(fp, who, hash, now).fp \in FastType
         /\ AddAttestation(fp, who, hash, now).outcome # "FastFinalized"
<1> DEFINE begun == [fp EXCEPT !.start = IF fp.start = NoTime THEN now ELSE fp.start]
           noted == [begun EXCEPT !.hash = hash, !.agreed = @ \cup {who}]
           lost  == [FastReset EXCEPT !.start = begun.start, !.conflict = TRUE]
<1>1. begun \in FastType /\ noted \in FastType /\ lost \in FastType
  BY Zenon DEF FastType, FastReset
<1>2. Verdict(noted) # "FastFinalized"
  BY FastPathOff DEF Verdict
<1> HIDE DEF begun, noted, lost
<1> QED BY <1>1, <1>2 DEF AddAttestation, begun, noted, lost

(* on_prevote and the processing of its event. *)
LEMMA AfterPrevoteStep ==
  ASSUME NEW E, NEW L, NEW S, IInv(E, L, S), NEW n \in Correct, E[n].step # "Committed",
         NEW m, Genuine(S, "Prevote", m), NEW o \in AfterPrevote(n, E[n], m)
  PROVE  Good(E, L, S, n, o)
<1> DEFINE Follow(r) == IF r.event.type = "SendPrecommit"
                         THEN Broadcasting(OwnMessage(n, "Precommit", r),
                                       AfterPrecommit(r.engine, OwnMessage(n, "Precommit", r)))
                         ELSE {Settle(r)}
<1>1. PICK r \in on_prevote(E[n], m) : o \in Follow(r)
  BY DEF AfterPrevote
<1>2. E \in [Correct -> Engine] /\ L \in [Correct -> Seq(Hash)] /\ E[n] \in Engine
      /\ [E EXCEPT ![n] = E[n]] = E /\ E[n].height * 1000 + E[n].round \in Nat
      /\ E[n].fast \in FastType
  BY DEF IInv, Typed, Engine, FastType
<1>3. CASE r = Result(E[n], NoEvent)
  <2>1. r.engine = E[n] /\ r.event.type = "None"
    BY <1>3 DEF Result, NoEvent, Event
  <2>2. o = Settle(r)
    BY <1>1, <2>1
  <2> QED BY Zenon, <1>2, <2>1, <2>2, SettleStep
<1>4. CASE r # Result(E[n], NoEvent)
  <2> DEFINE fast  == AddAttestation(E[n].fast, m.from, m.hash, E[n].height * 1000 + E[n].round)
             noted == [E[n] EXCEPT !.prevotes[m.from] = m.hash]
             after == [noted EXCEPT !.fast = fast.fp]
  <2>1. m.height = E[n].height /\ m.round = E[n].round /\ E[n].prevotes[m.from] = Absent
    BY <1>1, <1>4 DEF on_prevote, Ignored
  <2>2. \A f \in FastType :
          IInv([E EXCEPT ![n] = [E[n] EXCEPT !.prevotes[m.from] = m.hash, !.fast = f]], L, S)
    BY Zenon, <2>1, RecordPrevote DEF Genuine
  <2>3. \E x : /\ r \in LockOnQuorum(x) /\ x.step = E[n].step
               /\ IInv([E EXCEPT ![n] = x], L, S)
    <3>1. CASE m.hash = Nil
      <4>1. r \in LockOnQuorum(noted)
        BY <1>1, <2>1, <3>1 DEF on_prevote, Ignored
      <4>2. noted = [E[n] EXCEPT !.prevotes[m.from] = m.hash, !.fast = E[n].fast]
            /\ noted.step = E[n].step
        BY Zenon, <1>2 DEF Engine
      <4>3. IInv([E EXCEPT ![n] = [E[n] EXCEPT !.prevotes[m.from] = m.hash, !.fast = E[n].fast]], L, S)
        BY Zenon, <1>2, <2>2
      <4>4. IInv([E EXCEPT ![n] = noted], L, S)
        BY Zenon, <4>2, <4>3
      <4> QED BY Zenon, <4>1, <4>2, <4>4
    <3>2. CASE m.hash # Nil
      <4>1. fast.fp \in FastType /\ fast.outcome # "FastFinalized"
        <5>1. m.from \in Voters /\ m.hash \in Hash BY <3>2 DEF Genuine
        <5> DEFINE now == E[n].height * 1000 + E[n].round
        <5>2. now \in Nat BY <1>2
        <5> HIDE DEF now
        <5>3. /\ AddAttestation(E[n].fast, m.from, m.hash, now).fp \in FastType
              /\ AddAttestation(E[n].fast, m.from, m.hash, now).outcome # "FastFinalized"
          BY <1>2, <5>1, <5>2, AttestationStep
        <5> QED BY <5>3 DEF now
      <4>2. r \in LockOnQuorum(after)
        BY <1>1, <2>1, <3>2, <4>1 DEF on_prevote, Ignored
      <4>3. after.step = E[n].step
        BY <1>2 DEF Engine
      <4> HIDE DEF fast
      <4>4. IInv([E EXCEPT ![n] = after], L, S)
        BY Zenon, <2>2, <4>1
      <4> QED BY Zenon, <4>2, <4>3, <4>4
    <3> QED BY <3>1, <3>2
  <2>4. PICK x : /\ r \in LockOnQuorum(x) /\ x.step = E[n].step
                 /\ IInv([E EXCEPT ![n] = x], L, S)
    BY <2>3
  <2>5. [E EXCEPT ![n] = x][n] = x
    BY <1>2
  <2>6. Good([E EXCEPT ![n] = x], L, S, n, o)
    BY Zenon, <1>1, <2>4, <2>5, LockStep
  <2> QED BY Zenon, <1>2, <2>6, GoodCollapse
<1> QED BY <1>3, <1>4

(* on_proposal, the prevote it asks for, and that prevote fed back. *)
LEMMA AfterProposalStep ==
  ASSUME NEW E, NEW L, NEW S, IInv(E, L, S), NEW n \in Correct, E[n].step # "Committed",
         NEW m, m.hash \in Hash, NEW o \in AfterProposal(n, E[n], m)
  PROVE  Good(E, L, S, n, o)
<1>1. PICK r \in on_proposal(E[n], m) :
        o \in IF r.event.type = "SendPrevote"
                THEN Broadcasting(OwnMessage(n, "Prevote", r),
                                  AfterPrevote(n, r.engine, OwnMessage(n, "Prevote", r)))
                ELSE {Settle(r)}
  BY DEF AfterProposal
<1>2. E \in [Correct -> Engine] /\ L \in [Correct -> Seq(Hash)] /\ E[n] \in Engine
      /\ n \in Voters /\ [E EXCEPT ![n] = E[n]] = E
  BY DEF IInv, Typed, Correct
<1>3. CASE r = Result(E[n], NoEvent)
  <2>1. r.engine = E[n] /\ r.event.type = "None"
    BY <1>3 DEF Result, NoEvent, Event
  <2>2. o = Settle(r)
    BY <1>1, <2>1
  <2> QED BY Zenon, <1>2, <2>1, <2>2, SettleStep
<1>4. CASE r # Result(E[n], NoEvent)
  <2> DEFINE x   == [E[n] EXCEPT !.step = "Prevote"]
             b   == IF E[n].locked_hash # NoHash THEN E[n].locked_hash ELSE m.hash
             own == OwnMessage(n, "Prevote", r)
             E2  == [E EXCEPT ![n] = x]
  <2>1. r = Result(x, Event("SendPrevote", b))
    BY <1>1, <1>4 DEF on_proposal
  <2>2. r.engine = x /\ r.event.type = "SendPrevote" /\ r.event.hash = b
    BY <2>1 DEF Result, Event
  <2>3. x.height = E[n].height /\ x.round = E[n].round /\ x.step = "Prevote"
    BY <1>2 DEF Engine
  <2>4. b \in Hash /\ (E[n].locked_hash # NoHash => b = E[n].locked_hash)
    BY <1>2 DEF Engine
  <2> HIDE DEF b
  <2>5. own = Message("Prevote", E[n].height, E[n].round, b, n)
    BY <2>2, <2>3 DEF OwnMessage
  <2>6. IInv(E2, L, S \cup {own}) /\ E2[n] = x
    <3>1. IInv(E2, L, S \cup {Message("Prevote", E[n].height, E[n].round, b, n)})
      BY <2>4, SendPrevote
    <3>2. E2[n] = x
      BY <1>2
    <3> HIDE DEF E2, x, own
    <3> QED BY <2>5, <3>1, <3>2
  <2>7. own.from = n /\ own.hash = b /\ own.height = E[n].height /\ own.round = E[n].round
    BY <2>5 DEF Message
  <2> HIDE DEF own, x, E2
  <2>8. Genuine(S \cup {own}, "Prevote", own)
    BY <1>2, <2>4, <2>5, <2>7 DEF Genuine
  <2>9. PICK p \in AfterPrevote(n, r.engine, own) : o = Outcome(p.engine, p.out \cup {own}, p.log)
    BY <1>1, <2>2 DEF Broadcasting, own
  <2>10. Good(E2, L, S \cup {own}, n, p)
    BY Zenon, <2>2, <2>3, <2>6, <2>8, <2>9, AfterPrevoteStep
  <2>11. Good(E, L, S \cup {own}, n, p)
    BY Zenon, <1>2, <2>10, GoodCollapse DEF E2
  <2>12. o.engine = p.engine /\ o.log = p.log /\ S \cup o.out = (S \cup {own}) \cup p.out
    BY <2>9 DEF Outcome
  <2> QED BY Zenon, <2>11, <2>12 DEF Good
<1> QED BY <1>3, <1>4

-----------------------------------------------------------------------------
(* The invariant of the specification. *)

Safe == InductiveInv /\ \A n \in Correct : engine[n].step # "Committed"

(* Applying a good outcome gives a safe state. *)
LEMMA ApplyStep ==
  ASSUME Safe, NEW n \in Correct, NEW o, NEW B, Good(engine, finalized, sent \cup B, n, o),
         Apply(n, o, B)
  PROVE  Safe'
<1>1. engine \in [Correct -> Engine]
  BY DEF Safe, InductiveInv, IInv, Typed
<1>2. engine' = [engine EXCEPT ![n] = o.engine]
      /\ finalized' = [finalized EXCEPT ![n] = finalized[n] \o o.log]
      /\ sent' = (sent \cup B) \cup o.out
  BY DEF Apply
<1>3. IInv(engine', finalized', sent')
  BY <1>2 DEF Good
<1>4. \A k \in Correct : engine'[k].step # "Committed"
  BY <1>1, <1>2 DEF Good, Safe
<1> QED BY <1>3, <1>4 DEF Safe, InductiveInv

(* Before the first message nothing is recorded, locked or finalized. *)
LEMMA InitSafe == Init => Safe
<1> SUFFICES ASSUME Init PROVE Safe
  OBVIOUS
<1> DEFINE x == StartHeight(1)
<1>1. /\ x \in Engine /\ x.height = 1 /\ x.step = "Propose" /\ x.locked_hash = NoHash
      /\ x.locked_round = NoRound /\ x.prevotes = NoVotes /\ x.precommits = NoVotes
  BY StartHeightType
<1>2. engine = [n \in Correct |-> x] /\ finalized = [n \in Correct |-> <<>>] /\ sent = {}
  BY DEF Init
<1> HIDE DEF x
<1>3. \A n \in Correct : engine[n] = x /\ finalized[n] = <<>>
  BY <1>2
<1>4. Typed(engine, finalized, sent)
  BY <1>1, <1>2 DEF Typed
<1>5. HeightInv(engine, finalized)
  BY <1>1, <1>3 DEF HeightInv
<1>6. \A v \in Correct : NoVotes[v] \notin Hash
  BY HashAssumption DEF NoVotes, Correct
<1>7. ViewInv(engine, sent)
  BY <1>1, <1>3, <1>6 DEF ViewInv
<1>8. LockInv(engine, sent)
  BY <1>1, <1>3 DEF LockInv
<1>9. PastInv(engine, sent) /\ CommitLockInv(engine, sent) /\ PrecommitInv(sent)
      /\ ReleaseInv(sent) /\ ChoosableInv(engine, sent)
  BY <1>2 DEF PastInv, CommitLockInv, PrecommitInv, ReleaseInv, ChoosableInv
<1>10. DecisionInv(finalized, sent)
  BY <1>3 DEF DecisionInv
<1> QED BY <1>1, <1>3, <1>4, <1>5, <1>7, <1>8, <1>9, <1>10, QuorumIntersection
        DEF Safe, InductiveInv, IInv

(* Every action of every validator preserves the invariant. *)
LEMMA NextSafe == Safe /\ [Next]_vars => Safe'
<1> SUFFICES ASSUME Safe, [Next]_vars PROVE Safe'
  OBVIOUS
<1>1. IInv(engine, finalized, sent) /\ \A n \in Correct : engine[n].step # "Committed"
  BY DEF Safe, InductiveInv
<1>2. ASSUME NEW n \in Correct, NEW b \in Hash, Propose(n, b)
      PROVE  Safe'
  <2> DEFINE m == Message("Proposal", engine[n].height, engine[n].round, b, n)
  <2>1. PICK o \in AfterProposal(n, engine[n], m) : Apply(n, o, {m})
    BY <1>2 DEF Propose
  <2>2. IInv(engine, finalized, sent \cup {m})
    BY <1>1, SendProposal
  <2>3. m.hash \in Hash
    BY DEF Message
  <2> HIDE DEF m
  <2>4. Good(engine, finalized, sent \cup {m}, n, o)
    BY <1>1, <2>1, <2>2, <2>3, AfterProposalStep
  <2> QED BY <2>1, <2>4, ApplyStep
<1>3. ASSUME NEW n \in Correct, NEW m \in sent \cup FaultyMessage, Receive(n, m)
      PROVE  Safe'
  <2>1. PICK o \in AfterMessage(n, engine[n], m) : Apply(n, o, {})
    BY <1>3 DEF Receive
  <2>2. sent \cup {} = sent
    OBVIOUS
  <2>3. /\ m.type \in {"Proposal", "Prevote", "Precommit"}
        /\ m.type = "Proposal" => m.hash \in Hash
        /\ m.type # "Proposal" => Genuine(sent, m.type, m)
    <3>1. CASE m \in sent
      <4>1. m \in SentMessage
        BY <1>1, <3>1 DEF IInv, Typed
      <4>2. Message(m.type, m.height, m.round, m.hash, m.from) = m
        BY <4>1 DEF Message, SentMessage
      <4> QED BY <3>1, <4>1, <4>2 DEF SentMessage, Genuine, Correct
    <3>2. CASE m \in FaultyMessage
      <4>1. m.from \in Faulty /\ m.type \in {"Proposal", "Prevote", "Precommit"}
            /\ (m.type = "Proposal" => m.hash \in Hash)
            /\ (m.type # "Proposal" => m.hash \in FaultyVote)
        BY <3>2 DEF FaultyMessage
      <4> QED BY <4>1, BoundAssumption, FaultyAssumption DEF Genuine, Correct
    <3> QED BY <3>1, <3>2
  <2>4. Good(engine, finalized, sent, n, o)
    <3>1. CASE m.type = "Proposal"
      BY <1>1, <2>1, <2>3, <3>1, AfterProposalStep DEF AfterMessage
    <3>2. CASE m.type = "Prevote"
      BY <1>1, <2>1, <2>3, <3>2, AfterPrevoteStep DEF AfterMessage
    <3>3. CASE m.type = "Precommit"
      BY <1>1, <2>1, <2>3, <3>3, AfterPrecommitStep DEF AfterMessage
    <3> QED BY <2>3, <3>1, <3>2, <3>3
  <2> QED BY <2>1, <2>2, <2>4, ApplyStep
<1>4. ASSUME NEW n \in Correct, Timeout(n)
      PROVE  Safe'
  <2>1. engine' = [engine EXCEPT ![n] = on_timeout(engine[n])]
        /\ finalized' = finalized /\ sent' = sent
    BY <1>4 DEF Timeout
  <2>2. IInv(engine', finalized', sent')
    BY Zenon, <1>1, <2>1, TimeoutStep
  <2>3. engine \in [Correct -> Engine] /\ engine[n] \in Engine
    BY <1>1 DEF IInv, Typed
  <2>4. on_timeout(engine[n]).step # "Committed"
    BY <1>1, <2>3 DEF on_timeout, Engine
  <2>5. \A k \in Correct : engine'[k].step # "Committed"
    BY <1>1, <2>1, <2>3, <2>4
  <2> QED BY <2>2, <2>5 DEF Safe, InductiveInv
<1>5. CASE UNCHANGED vars
  BY <1>5 DEF vars, Safe, InductiveInv
<1> QED BY <1>2, <1>3, <1>4, <1>5 DEF Next

(* The inductive invariant holds in every reachable state. *)
THEOREM SafeAlways == Spec => []Safe
BY InitSafe, NextSafe, PTL DEF Spec

(* Every reachable state is well typed: correct validators vote for hashes *)
(* only, and no engine waits in the Committed step.                        *)
THEOREM TypeCorrect == Spec => []TypeOK
<1>1. Safe => TypeOK
  BY DEF Safe, InductiveInv, IInv, Typed, TypeOK
<1> QED BY <1>1, SafeAlways, PTL

(* In a safe state no two validators have finalized rivals: both blocks    *)
(* were decided, in one round by a validator that precommits once, or in   *)
(* two rounds, where the earlier decision excludes a later rival.          *)
LEMMA SafeAgrees == Safe => Agreement
<1> SUFFICES ASSUME Safe, NEW j \in Correct, NEW k \in Correct,
                    NEW h \in DOMAIN finalized[j] \cap DOMAIN finalized[k]
             PROVE  finalized[j][h] = finalized[k][h]
  BY DEF Agreement
<1>1. IInv(engine, finalized, sent)
  BY DEF Safe, InductiveInv
<1>2. PICK p \in sent : /\ p.type = "Precommit" /\ p.height = h /\ p.hash = finalized[j][h]
                        /\ Decided(sent, h, p.round, p.hash)
  BY Zenon, <1>1 DEF IInv, DecisionInv
<1>3. PICK q \in sent : /\ q.type = "Precommit" /\ q.height = h /\ q.hash = finalized[k][h]
                        /\ Decided(sent, h, q.round, q.hash)
  BY Zenon, <1>1 DEF IInv, DecisionInv
<1>4. p \in SentMessage /\ q \in SentMessage
  BY <1>1 DEF IInv, Typed
<1>5. p.round \in Nat /\ q.round \in Nat /\ p.hash \in Hash /\ q.hash \in Hash /\ h \in Nat
  BY <1>2, <1>4 DEF SentMessage
<1>6. ASSUME NEW r \in Nat, NEW r2 \in Nat, NEW b \in Hash, NEW b2 \in Hash, r < r2,
             Decided(sent, h, r, b), Polka(sent, h, r2, b2)
      PROVE  b2 = b
  <2>1. Sent(sent, "Precommit", h, r, b) \subseteq MayPrecommit(engine, sent, h, r, b)
    BY DEF Sent, MayPrecommit
  <2>2. Choosable(engine, sent, h, r, b)
    BY <1>6, <2>1 DEF Decided, Backed, Choosable
  <2>3. PICK v \in Correct : Message("Prevote", h, r2, b2, v) \in sent
    BY <1>6, BackedIntersect, QuorumIntersection DEF Polka
  <2>4. r \in 0 .. r2 - 1
    BY <1>6
  <2> DEFINE w == Message("Prevote", h, r2, b2, v)
  <2>5. w.type = "Prevote" /\ w.height = h /\ w.round = r2 /\ w.hash = b2
    BY DEF Message
  <2>6. w \in sent
    BY <2>3
  <2> HIDE DEF w
  <2>7. ChoosableInv(engine, sent)
    BY <1>1 DEF IInv
  <2> QED BY <1>6, <2>2, <2>4, <2>5, <2>6, <2>7 DEF ChoosableInv
<1>7. Polka(sent, h, p.round, p.hash) /\ Polka(sent, h, q.round, q.hash)
  BY Zenon, <1>1, <1>2, <1>3 DEF IInv, PrecommitInv
<1>8. CASE p.round = q.round
  <2>1. PICK v \in Correct : /\ Message("Precommit", h, p.round, p.hash, v) \in sent
                             /\ Message("Precommit", h, q.round, q.hash, v) \in sent
    BY <1>2, <1>3, BackedIntersect, QuorumIntersection DEF Decided
  <2> DEFINE a == Message("Precommit", h, p.round, p.hash, v)
             c == Message("Precommit", h, q.round, q.hash, v)
  <2>2. /\ a.type = "Precommit" /\ c.type = "Precommit" /\ a.from = c.from
        /\ a.height = c.height /\ a.round = p.round /\ c.round = q.round
        /\ a.hash = p.hash /\ c.hash = q.hash
    BY DEF Message
  <2>3. a \in sent /\ c \in sent
    BY <2>1
  <2> HIDE DEF a, c
  <2>4. PrecommitInv(sent)
    BY <1>1 DEF IInv
  <2> QED BY Zenon, <1>2, <1>3, <1>8, <2>2, <2>3, <2>4 DEF PrecommitInv
<1>9. CASE p.round < q.round
  BY <1>2, <1>3, <1>5, <1>6, <1>7, <1>9
<1>10. CASE q.round < p.round
  BY <1>2, <1>3, <1>5, <1>6, <1>7, <1>10
<1> QED BY <1>5, <1>8, <1>9, <1>10

(* No two correct validators finalize different blocks at one height, for  *)
(* any number of validators, rounds and heights and any message order,     *)
(* loss or duplication.                                                    *)
THEOREM AgreementHolds == Spec => []Agreement
BY SafeAlways, SafeAgrees, PTL

(* A correct validator never precommits two blocks in one round. *)
THEOREM OnePrecommitHolds == Spec => []OnePrecommitPerRound
<1>1. Safe => OnePrecommitPerRound
  BY Zenon DEF Safe, InductiveInv, IInv, PrecommitInv, OnePrecommitPerRound
<1> QED BY <1>1, SafeAlways, PTL

(* A lock is released by a quorum of prevotes of a later round only. *)
THEOREM LockReleaseHolds == Spec => []LockReleasedByQuorumOnly
<1>1. Safe => LockReleasedByQuorumOnly
  BY Zenon DEF Safe, InductiveInv, IInv, ReleaseInv, LockReleasedByQuorumOnly
<1> QED BY <1>1, SafeAlways, PTL

-----------------------------------------------------------------------------
(* One action appends at most one hash: BlockFinalized ends the chain. *)
LEMMA OneBlockPerStep ==
  ASSUME NEW n, NEW e, NEW m, NEW o,
         \/ o \in AfterProposal(n, e, m) \/ o \in AfterPrevote(n, e, m)
         \/ o \in AfterPrecommit(e, m)
  PROVE  o.log = <<>> \/ \E q : o.log = <<q>>
<1>1. \A r : Settle(r).log = <<>> \/ \E q : Settle(r).log = <<q>>
  BY DEF Settle, Outcome
<1>2. \A x, k : \A p \in AfterPrecommit(x, k) : p.log = <<>> \/ \E q : p.log = <<q>>
  BY <1>1 DEF AfterPrecommit
<1>3. \A k, s : \A p \in Broadcasting(k, s) : \E u \in s : p.log = u.log
  BY DEF Broadcasting, Outcome
<1>4. \A x, k : \A p \in AfterPrevote(n, x, k) : p.log = <<>> \/ \E q : p.log = <<q>>
  <2> SUFFICES ASSUME NEW x, NEW k, NEW p \in AfterPrevote(n, x, k)
               PROVE  p.log = <<>> \/ \E q : p.log = <<q>>
    OBVIOUS
  <2>1. PICK r : p \in IF r.event.type = "SendPrecommit"
                         THEN Broadcasting(OwnMessage(n, "Precommit", r),
                                AfterPrecommit(r.engine, OwnMessage(n, "Precommit", r)))
                         ELSE {Settle(r)}
    BY DEF AfterPrevote
  <2> QED BY <1>1, <1>2, <1>3, <2>1
<1>5. \A x, k : \A p \in AfterProposal(n, x, k) : p.log = <<>> \/ \E q : p.log = <<q>>
  <2> SUFFICES ASSUME NEW x, NEW k, NEW p \in AfterProposal(n, x, k)
               PROVE  p.log = <<>> \/ \E q : p.log = <<q>>
    OBVIOUS
  <2>1. PICK r : p \in IF r.event.type = "SendPrevote"
                         THEN Broadcasting(OwnMessage(n, "Prevote", r),
                                AfterPrevote(n, r.engine, OwnMessage(n, "Prevote", r)))
                         ELSE {Settle(r)}
    BY DEF AfterProposal
  <2> QED BY <1>1, <1>3, <1>4, <2>1
<1> QED BY <1>2, <1>4, <1>5

(* A step between safe states is a step of the finalized log or leaves it. *)
LEMMA StepImplements == Safe /\ Safe' /\ [Next]_vars => [Chain!LogNext]_finalized
<1> SUFFICES ASSUME Safe, Safe', [Next]_vars PROVE [Chain!LogNext]_finalized
  OBVIOUS
<1>1. finalized \in [Correct -> Seq(Hash)] /\ finalized' \in [Correct -> Seq(Hash)]
  BY DEF Safe, InductiveInv, IInv, Typed
<1>2. Agreement'
  <2>1. Safe' => Agreement'
    BY SafeAgrees, PTL
  <2> QED BY <2>1
<1>3. ASSUME NEW n \in Correct, NEW o, o.log = <<>> \/ \E q : o.log = <<q>>,
             finalized' = [finalized EXCEPT ![n] = @ \o o.log]
      PROVE  [Chain!LogNext]_finalized
  <2>1. CASE o.log = <<>>
    <3>1. finalized[n] \o <<>> = finalized[n]
      BY <1>1
    <3> QED BY <1>1, <1>3, <2>1, <3>1
  <2>2. ASSUME NEW q, o.log = <<q>>
        PROVE  [Chain!LogNext]_finalized
    <3> DEFINE l == finalized[n]
               k == Len(l)
    <3>1. l \in Seq(Hash) /\ k \in Nat /\ finalized'[n] = l \o <<q>> /\ finalized'[n] \in Seq(Hash)
      BY <1>1, <1>3, <2>2
    <3>2. finalized'[n] = l \o <<q>> /\ Len(l \o <<q>>) = k + 1 /\ (l \o <<q>>)[k + 1] = q
          /\ DOMAIN (l \o <<q>>) = 1 .. k + 1
      <4>1. l \in Seq(Hash \cup {q}) /\ <<q>> \in Seq(Hash \cup {q})
        BY <3>1
      <4> HIDE DEF l
      <4> QED BY <3>1, <4>1
    <3>3. q \in Hash
      <4> HIDE DEF l, k
      <4>1. finalized'[n][k + 1] \in Hash
        BY <3>1, <3>2
      <4> QED BY <3>2, <4>1
    <3>4. ASSUME NEW m \in Correct, k < Len(finalized[m])
          PROVE  finalized[m][k + 1] = q
      <4>1. m # n /\ finalized'[m] = finalized[m]
        BY <1>1, <1>3, <3>1, <3>4
      <4>2. k + 1 \in DOMAIN finalized'[m] /\ k + 1 \in DOMAIN finalized'[n]
        BY <1>1, <3>1, <3>2, <3>4, <4>1
      <4> HIDE DEF l, k
      <4>3. finalized'[m][k + 1] = finalized'[n][k + 1]
        BY <1>2, <4>2 DEF Agreement
      <4> QED BY <3>2, <4>1, <4>3
    <3>5. finalized' = [finalized EXCEPT ![n] = Append(finalized[n], q)]
      <4>1. Append(l, q) = l \o <<q>>
        BY <3>1, <3>3
      <4> QED BY <1>3, <2>2, <4>1
    <3>6. Chain!AppendBlock(n, q)
      BY <3>4, <3>5 DEF Chain!AppendBlock
    <3> QED BY <3>3, <3>6 DEF Chain!LogNext
  <2> QED BY Zenon, <1>3, <2>1, <2>2
<1>4. ASSUME NEW n \in Correct, NEW b \in Hash, Propose(n, b)
      PROVE  [Chain!LogNext]_finalized
  <2> DEFINE m == Message("Proposal", engine[n].height, engine[n].round, b, n)
  <2>1. PICK o \in AfterProposal(n, engine[n], m) : Apply(n, o, {m})
    BY <1>4 DEF Propose
  <2> HIDE DEF m
  <2>2. o.log = <<>> \/ \E q : o.log = <<q>>
    BY OneBlockPerStep
  <2> QED BY Zenon, <1>3, <2>1, <2>2 DEF Apply
<1>5. ASSUME NEW n \in Correct, NEW m \in sent \cup FaultyMessage, Receive(n, m)
      PROVE  [Chain!LogNext]_finalized
  <2>1. PICK o \in AfterMessage(n, engine[n], m) : Apply(n, o, {})
    BY <1>5 DEF Receive
  <2>2. m.type \in {"Proposal", "Prevote", "Precommit"}
    BY Zenon DEF Safe, InductiveInv, IInv, Typed, SentMessage, FaultyMessage
  <2>3. o.log = <<>> \/ \E q : o.log = <<q>>
    BY <2>1, <2>2, OneBlockPerStep DEF AfterMessage
  <2> QED BY Zenon, <1>3, <2>1, <2>3 DEF Apply
<1>6. ASSUME NEW n \in Correct, Timeout(n)
      PROVE  [Chain!LogNext]_finalized
  BY <1>6 DEF Timeout
<1>7. CASE UNCHANGED vars
  BY <1>7 DEF vars
<1> QED BY <1>4, <1>5, <1>6, <1>7 DEF Next

(* The engines with their drivers implement the finalized log. *)
THEOREM FinalizedLogImplemented == Spec => ImplementsFinalizedLog
<1>1. Init => Chain!LogInit
  BY DEF Init, Chain!LogInit
<1> QED BY <1>1, SafeAlways, StepImplements, PTL DEF Spec, ImplementsFinalizedLog, Chain!LogSpec
=============================================================================
