-------------------------- MODULE DevnetProgramProofs --------------------------
(***************************************************************************)
(* Two programs that run on a devnet, however many instances there are.    *)
(*                                                                         *)
(* The nodes of devnet.rs: no half-done height between two events, and no  *)
(* ancestor of a served block is lost.                                     *)
(*                                                                         *)
(* The benchmark against the daemon: requests and answers may be lost and  *)
(* ticks come at any time, and still no worker makes the daemon lose its   *)
(* accounts once the senders are funded.  The inductive invariant says     *)
(* that the lock keeps nonce and sender hint fresh between the two         *)
(* requests of a worker, and that every sender can pay for all jobs that   *)
(* are left.                                                               *)
(***************************************************************************)
EXTENDS DevnetNode, LiveBench, InductionProofs

-----------------------------------------------------------------------------
(* The devnet binary: nodes that are each a quorum of their own *)

(* The blocks some node serves. *)
Served == UNION {Range(node[n].blocks) : n \in Node}

(* What the wire can hold for node n: blocks that some node serves, and    *)
(* proposals and prevotes of other nodes, for a block and in round 0.      *)
Sendable(n) ==
    {Block(b) : b \in Served} \cup
    [type : {"Proposal", "Prevote"}, height : Nat, round : {0}, hash : Nat, from : Node \ {n}]

(* What the event loop of n owns between two events. *)
Rested(n) ==
    [engine : {Engine(n)!StartHeight(h) : h \in Nat}, proposed : {{}},
     blocks : Seq(Nat) \ {<<>>}, hashes : SUBSET Nat]

NodeInv ==
    /\ node \in [Node -> UNION {Rested(n) : n \in Node}]
    /\ \A n \in Node : node[n] \in Rested(n)
    /\ wire \subseteq UNION {{n} \X Sendable(n) : n \in Node}
    /\ AncestorsServedSomewhere

(* An engine at the start of a height finalizes it on the first prevote    *)
(* for a block, whoever sends it.                                          *)
LEMMA PrevoteFinalizes ==
    ASSUME NEW n \in Node, NEW h \in Nat, NEW step \in {"Propose", "Prevote"}, NEW m, NEW e,
           e = [Engine(n)!StartHeight(h) EXCEPT !.step = step],
           m.height = h, m.round = 0, m.hash \in Nat, m.from \in Node
    PROVE  \E f : /\ Engine(n)!on_prevote(e, m)
                       = {Engine(n)!Result(f, Engine(n)!Event("BlockFinalized", m.hash))}
                  /\ f.height = h
<1> DEFINE reset == [hash |-> NoHash, agreed |-> {}, start |-> NoTime, conflict |-> FALSE]
           now   == e.height * 1000 + e.round
           begun == [reset EXCEPT !.start = IF reset.start = NoTime THEN now ELSE reset.start]
           noted == [begun EXCEPT !.hash = m.hash, !.agreed = @ \cup {m.from}]
           after == [[e EXCEPT !.prevotes[m.from] = m.hash] EXCEPT !.fast = noted]
<1>1. /\ e.height = h /\ e.round = 0 /\ e.step = step /\ e.fast = reset
      /\ e.prevotes = [v \in Node |-> Absent]
  BY DEF Engine!StartHeight, Engine!NoVotes, Engine!FastReset
<1>2. ~ Engine(n)!Ignored(e, m) /\ e.prevotes[m.from] = Absent /\ m.hash # Nil
  BY <1>1, NodeAssumption DEF Engine!Ignored
<1>3. ~ Engine(n)!TimedOut(begun.start, now)
  BY <1>1 DEF Engine!TimedOut
<1>4. ~ reset.conflict /\ ~ Engine(n)!Clashes(reset, m.hash)
  BY DEF Engine!Clashes
<1>5. Cardinality(noted.agreed) = 1
  <2>1. noted.agreed = {m.from} OBVIOUS
  <2>2. QED BY Zenon, <2>1, FS_Singleton
<1>6. Engine(n)!Verdict(noted) = "FastFinalized"
  <2>1. ASSUME NEW fp, Cardinality(fp.agreed) = 1 PROVE Engine(n)!Verdict(fp) = "FastFinalized"
    <3>1. Engine(n)!Cardinality(fp.agreed) = Cardinality(fp.agreed)
      BY Zenon DEF Engine!Cardinality, Cardinality
    <3>2. QED BY <2>1, <3>1 DEF Engine!Verdict
  <2>2. QED BY Zenon, <1>5, <2>1
<1>7. Engine(n)!AddAttestation(e.fast, m.from, m.hash, now)
        = [fp |-> noted, outcome |-> "FastFinalized"]
  <2> HIDE DEF reset, now
  <2>1. Engine(n)!AddAttestation(reset, m.from, m.hash, now)
          = [fp |-> noted, outcome |-> Engine(n)!Verdict(noted)]
    BY <1>3, <1>4 DEF Engine!AddAttestation
  <2>2. QED BY <1>1, <1>6, <2>1
<1>8. Engine(n)!on_prevote(e, m)
        = {Engine(n)!Result([after EXCEPT !.step = "Committed"],
                            Engine(n)!Event("BlockFinalized", m.hash))}
  <2> DEFINE fast == Engine(n)!AddAttestation(e.fast, m.from, m.hash, now)
  <2>1. fast.outcome = "FastFinalized" /\ fast.fp = noted BY <1>7
  <2> HIDE DEF noted, fast
  <2>2. fast = Engine(n)!AddAttestation(e.fast, m.from, m.hash, now) BY DEF fast
  <2> HIDE DEF now
  <2>3. now = e.height * 1000 + e.round BY DEF now
  <2>4. QED BY Zenon, <1>2, <2>1, <2>2, <2>3 DEF Engine!on_prevote
<1>9. [after EXCEPT !.step = "Committed"].height = h
  BY <1>1 DEF Engine!StartHeight
<1> QED BY Zenon, <1>8, <1>9

(* Work without an event is left alone by the loop. *)
LEMMA NothingToDo ==
    ASSUME NEW n, NEW w, w.event.type = "None"
    PROVE  process_consensus_events(n, {w}) = {w}
<1>1. Pop(n, w) = {w} BY DEF Pop
<1>2. PopAll(n, {w}) = {w} BY <1>1 DEF PopAll
<1>3. QED BY <1>2 DEF process_consensus_events

(* A finalized block is seen to in one turn. *)
LEMMA FinalizedInOneTurn ==
    ASSUME NEW n, NEW w, w.event.type = "BlockFinalized"
    PROVE  /\ PopAll(n, {w}) = {Finalize(n, w)}
           /\ PopAll(n, {Finalize(n, w)}) = {Finalize(n, w)}
<1>1. Pop(n, w) = {Finalize(n, w)} BY DEF Pop
<1>2. Finalize(n, w).event.type = "None"
  BY DEF Finalize, Done, Work, Engine!NoEvent, Engine!Event
<1>3. Pop(n, Finalize(n, w)) = {Finalize(n, w)} BY <1>2 DEF Pop
<1>4. QED BY <1>1, <1>3 DEF PopAll

(* An engine that returns one result leaves one piece of work. *)
LEMMA DeliverOne ==
    ASSUME NEW n, NEW s, NEW sent, NEW m, NEW e, NEW event,
           on_message(n, s.engine, m) = {Engine(n)!Result(e, event)}
    PROVE  Deliver(n, s, sent, m) = {Work([s EXCEPT !.engine = e], sent, event)}
BY DEF Deliver, Engine!Result

(* A node leads every round of its own validator set. *)
LEMMA OwnLeader ==
    ASSUME NEW n, NEW h \in Nat PROVE Engine(n)!leader_for_round(h, 0) = n
<1>1. Len(<<n>>) = 1 /\ (h + 0) % 1 = 0 OBVIOUS
<1>2. QED BY <1>1 DEF Engine!leader_for_round

(* A message of a peer is ignored or finalizes the height for a block that *)
(* is not in the proposal cache; nothing is broadcast.                     *)
LEMMA PeerMessageHandled ==
    ASSUME NEW n \in Node, NEW s \in Rested(n), NEW m \in Sendable(n), m.type # "Block",
           NEW w \in process_consensus_events(n, Deliver(n, s, {}, m))
    PROVE  w.s \in Rested(n) /\ w.s.blocks = s.blocks /\ w.sent = {}
<1>1. PICK h \in Nat : s.engine = Engine(n)!StartHeight(h)
  BY DEF Rested
<1>2. /\ m.type \in {"Proposal", "Prevote"} /\ m.height \in Nat /\ m.round = 0
      /\ m.hash \in Nat /\ m.from \in Node /\ m.from # n
  <2>1. \A b : Block(b).type = "Block" BY DEF Block
  <2>2. m \in [type : {"Proposal", "Prevote"}, height : Nat, round : {0}, hash : Nat, from : Node \ {n}]
    BY <2>1 DEF Sendable
  <2> QED BY <2>2
<1>3. s = [s EXCEPT !.engine = s.engine] BY DEF Rested
<1>4. CASE Deliver(n, s, {}, m) = {Done(n, s, {})}
  <2>1. Done(n, s, {}).event.type = "None" BY DEF Done, Work, Engine!NoEvent, Engine!Event
  <2>2. w = Done(n, s, {}) BY <1>4, <2>1, NothingToDo
  <2>3. QED BY <2>2 DEF Done, Work
<1>5. ASSUME on_message(n, s.engine, m) = {Engine(n)!Result(s.engine, Engine(n)!NoEvent)}
      PROVE  Deliver(n, s, {}, m) = {Done(n, s, {})}
  BY <1>3, <1>5 DEF Deliver, Done, Engine!Result
<1>6. CASE m.type = "Proposal"
  <2>1. m.from # Engine(n)!leader_for_round(m.height, m.round) BY <1>2, OwnLeader
  <2>2. Engine(n)!on_proposal(s.engine, m) = {Engine(n)!Result(s.engine, Engine(n)!NoEvent)}
    BY <2>1 DEF Engine!on_proposal
  <2>3. QED BY <1>4, <1>5, <1>6, <2>2 DEF on_message
<1>7. CASE m.type = "Prevote" /\ m.height # h
  <2>1. Engine(n)!Ignored(s.engine, m)
    BY <1>1, <1>7 DEF Engine!Ignored, Engine!StartHeight
  <2>2. Engine(n)!on_prevote(s.engine, m) = {Engine(n)!Result(s.engine, Engine(n)!NoEvent)}
    BY <2>1 DEF Engine!on_prevote
  <2>3. QED BY <1>4, <1>5, <1>7, <2>2 DEF on_message
<1>8. CASE m.type = "Prevote" /\ m.height = h
  <2>1. s.engine = [Engine(n)!StartHeight(h) EXCEPT !.step = "Propose"]
    BY <1>1 DEF Engine!StartHeight
  <2>2. PICK f : /\ Engine(n)!on_prevote(s.engine, m)
                      = {Engine(n)!Result(f, Engine(n)!Event("BlockFinalized", m.hash))}
                 /\ f.height = h
    BY <1>2, <1>8, <2>1, PrevoteFinalizes
  <2> DEFINE u == Work([s EXCEPT !.engine = f], {}, Engine(n)!Event("BlockFinalized", m.hash))
             t == [s EXCEPT !.engine = Engine(n)!StartHeight(h + 1)]
  <2>3. Deliver(n, s, {}, m) = {u}
    BY <1>8, <2>2 DEF Deliver, on_message, Engine!Result
  <2>4. Finalize(n, u) = Done(n, t, {})
    BY Zenon, <2>2 DEF Finalize, Done, Work, Engine!Event, Rested
  <2>5. u.event.type = "BlockFinalized" BY DEF Work, Engine!Event
  <2> HIDE DEF u
  <2>6. w = Finalize(n, u)
    <3>1. process_consensus_events(n, {u}) = {Finalize(n, u)}
      BY Zenon, <2>5, FinalizedInOneTurn DEF process_consensus_events
    <3>2. QED BY <2>3, <3>1
  <2>7. t \in Rested(n) /\ t.blocks = s.blocks
    <3>1. h + 1 \in Nat BY <1>1
    <3> DEFINE e == Engine(n)!StartHeight(h + 1)
    <3>2. e \in {Engine(n)!StartHeight(k) : k \in Nat} BY <3>1
    <3> HIDE DEF e
    <3>3. [s EXCEPT !.engine = e] \in Rested(n) /\ [s EXCEPT !.engine = e].blocks = s.blocks
      BY <3>2 DEF Rested
    <3>4. QED BY <3>3 DEF e
  <2> HIDE DEF t
  <2>8. QED BY <2>4, <2>6, <2>7 DEF Done, Work
<1>9. QED BY <1>2, <1>6, <1>7, <1>8

(* What appending a block does to the record of a node. *)
LEMMA Appended ==
    ASSUME NEW s, NEW b,
           s = [engine |-> s.engine, proposed |-> s.proposed, blocks |-> s.blocks, hashes |-> s.hashes]
    PROVE  /\ [s EXCEPT !.blocks = Append(@, b), !.hashes = @ \cup {b}]
                = [engine |-> s.engine, proposed |-> s.proposed,
                   blocks |-> Append(s.blocks, b), hashes |-> s.hashes \cup {b}]
           /\ [s EXCEPT !.proposed = @ \ {b}, !.hashes = @ \cup {b}, !.blocks = Append(@, b)]
                = [engine |-> s.engine, proposed |-> s.proposed \ {b},
                   blocks |-> Append(s.blocks, b), hashes |-> s.hashes \cup {b}]
<1> DEFINE e == s.engine
           p == s.proposed
           q == s.blocks
           k == s.hashes
<1>1. s = [engine |-> e, proposed |-> p, blocks |-> q, hashes |-> k] OBVIOUS
<1> HIDE DEF e, p, q, k
<1> DEFINE q1 == Append(q, b)
           k1 == k \cup {b}
           p1 == p \ {b}
<1> HIDE DEF q1, k1, p1
<1>2. [s EXCEPT !.blocks = q1, !.hashes = k1]
        = [engine |-> e, proposed |-> p, blocks |-> q1, hashes |-> k1]
  <2> DEFINE s1 == [s EXCEPT !.blocks = q1]
  <2>1. s1 = [engine |-> e, proposed |-> p, blocks |-> q1, hashes |-> k] BY <1>1
  <2> HIDE DEF s1
  <2>2. [s1 EXCEPT !.hashes = k1] = [engine |-> e, proposed |-> p, blocks |-> q1, hashes |-> k1]
    BY <2>1
  <2>3. QED BY <2>2, Zenon DEF s1
<1>3. [s EXCEPT !.proposed = p1, !.hashes = k1, !.blocks = q1]
        = [engine |-> e, proposed |-> p1, blocks |-> q1, hashes |-> k1]
  <2> DEFINE s1 == [s EXCEPT !.proposed = p1]
  <2>1. s1 = [engine |-> e, proposed |-> p1, blocks |-> q, hashes |-> k] BY <1>1
  <2> HIDE DEF s1
  <2> DEFINE s2 == [s1 EXCEPT !.hashes = k1]
  <2>2. s2 = [engine |-> e, proposed |-> p1, blocks |-> q, hashes |-> k1] BY <2>1
  <2> HIDE DEF s2
  <2>3. [s2 EXCEPT !.blocks = q1] = [engine |-> e, proposed |-> p1, blocks |-> q1, hashes |-> k1]
    BY <2>2
  <2>4. QED BY <2>3, Zenon DEF s1, s2
<1>4. QED BY <1>2, <1>3, Zenon DEF q1, k1, p1, e, p, q, k

(* The proposal of block b, the prevote for it, and what the loop makes of *)
(* the proposal.                                                           *)
Proposal(n, s, b)   == Engine(n)!Message("Proposal", s.engine.height, s.engine.round, b, n)
OwnPrevote(n, s, b) == Engine(n)!Message("Prevote", s.engine.height, s.engine.round, b, n)
Proposed(n, s, b)   ==
    LET m == Proposal(n, s, b)
    IN  process_consensus_events(n, Deliver(n, [s EXCEPT !.proposed = @ \cup {b}], {m}, m))

(* What becomes of it: block b is appended, the cache is empty again and   *)
(* the next height has begun.                                              *)
Finalized(n, s, b, w) ==
    /\ w.s = [engine |-> Engine(n)!StartHeight(s.engine.height + 1), proposed |-> {},
              blocks |-> Append(s.blocks, b), hashes |-> s.hashes \cup {b}]
    /\ w.sent = {Proposal(n, s, b), OwnPrevote(n, s, b), Block(b)}

(* A timer tick sees its own proposal through: proposal and prevote are    *)
(* broadcast, the block is appended and broadcast, the cache is empty      *)
(* again and the next height has begun.                                    *)
LEMMA OwnProposalFinalized ==
    ASSUME NEW n \in Node, NEW s \in Rested(n), NEW b \in Nat, NEW w \in Proposed(n, s, b)
    PROVE  Finalized(n, s, b, w)
<1>1. PICK h \in Nat : s.engine = Engine(n)!StartHeight(h) BY DEF Rested
<1>2. s.engine.height = h /\ s.engine.round = 0 BY <1>1 DEF Engine!StartHeight
<1> DEFINE m == Engine(n)!Message("Proposal", h, 0, b, n)
<1> DEFINE e   == [Engine(n)!StartHeight(h) EXCEPT !.step = "Prevote"]
           s1  == [s EXCEPT !.proposed = @ \cup {b}]
           s2  == [s1 EXCEPT !.engine = e]
           own == Engine(n)!Message("Prevote", h, 0, b, n)
           u   == Work(s2, {m}, Engine(n)!Event("SendPrevote", b))
<1>3. /\ m.type = "Proposal" /\ m.height = h /\ m.round = 0 /\ m.hash = b /\ m.from = n
      /\ own.type = "Prevote" /\ own.height = h /\ own.round = 0 /\ own.hash = b /\ own.from = n
  BY DEF Engine!Message
<1>4. s1.engine = Engine(n)!StartHeight(h) BY <1>1 DEF Rested
<1>5. Engine(n)!on_proposal(s1.engine, m) = {Engine(n)!Result(e, Engine(n)!Event("SendPrevote", b))}
  <2>1. ~ Engine(n)!Ignored(s1.engine, m) /\ s1.engine.locked_hash = NoHash
    BY <1>3, <1>4 DEF Engine!Ignored, Engine!StartHeight
  <2>2. m.from = Engine(n)!leader_for_round(m.height, m.round) BY <1>3, OwnLeader
  <2> HIDE DEF s1, m
  <2>3. QED BY <1>3, <1>4, <2>1, <2>2 DEF Engine!on_proposal
<1>6. Deliver(n, s1, {m}, m) = {u}
  <2>1. on_message(n, s1.engine, m) = {Engine(n)!Result(e, Engine(n)!Event("SendPrevote", b))}
    BY <1>3, <1>5 DEF on_message
  <2> HIDE DEF s1, e, m
  <2>2. QED BY <2>1, DeliverOne
<1>7. s2.engine = e /\ e.height = h /\ e.round = 0
  BY DEF Rested, Engine!StartHeight
<1>8. PICK f : /\ Engine(n)!on_prevote(e, own)
                    = {Engine(n)!Result(f, Engine(n)!Event("BlockFinalized", b))}
               /\ f.height = h
  <2> HIDE DEF own
  <2>1. QED BY <1>3, PrevoteFinalizes
<1> DEFINE v == Work([s2 EXCEPT !.engine = f], {m} \cup {own},
                     Engine(n)!Event("BlockFinalized", b))
<1>9. PopAll(n, {u}) = {v}
  <2>1. u.event.type = "SendPrevote" /\ u.event.hash = b /\ u.s = s2 /\ u.sent = {m}
    BY DEF Work, Engine!Event
  <2>2. own = Engine(n)!Message("Prevote", u.s.engine.height, u.s.engine.round, u.event.hash, n)
    BY Zenon, <1>7, <2>1
  <2>3. Deliver(n, s2, {m} \cup {own}, own) = {v}
    <3> HIDE DEF own, s2, e
    <3>1. on_message(n, s2.engine, own) = {Engine(n)!Result(f, Engine(n)!Event("BlockFinalized", b))}
      BY <1>3, <1>7, <1>8 DEF on_message
    <3>2. QED BY <3>1, DeliverOne
  <2> HIDE DEF u, v, own, s2
  <2>4. Pop(n, u) = {v} BY <2>1, <2>2, <2>3 DEF Pop
  <2>5. QED BY <2>4 DEF PopAll
<1>10. v.event.type = "BlockFinalized" BY DEF Work, Engine!Event
<1>11. w = Finalize(n, v)
  <2> HIDE DEF u, v, s1, m
  <2>1. w \in process_consensus_events(n, Deliver(n, s1, {m}, m))
    BY <1>2 DEF Proposed, Proposal, s1, m
  <2>2. process_consensus_events(n, {u}) = {Finalize(n, v)}
    <3>1. PopAll(n, {v}) = {Finalize(n, v)} /\ PopAll(n, {Finalize(n, v)}) = {Finalize(n, v)}
      BY Zenon, <1>10, FinalizedInOneTurn
    <3>2. QED BY <1>9, <3>1 DEF process_consensus_events
  <2>3. QED BY <1>6, <2>1, <2>2
<1>12. Finalize(n, v).s = [engine   |-> Engine(n)!StartHeight(h + 1), proposed |-> {},
                           blocks   |-> Append(s.blocks, b), hashes |-> s.hashes \cup {b}]
       /\ Finalize(n, v).sent = {m, own, Block(b)}
  <2>1. v.event.hash = b /\ v.sent = {m, own} BY DEF Work, Engine!Event
  <2>2. v.s = [engine |-> f, proposed |-> {b}, blocks |-> s.blocks, hashes |-> s.hashes]
    BY Zenon DEF Work, Rested
  <2> HIDE DEF v, own
  <2> DEFINE next == [v.s EXCEPT !.engine = Engine(n)!StartHeight(@.height + 1)]
             last == [next EXCEPT !.proposed = @ \ {b}, !.hashes = @ \cup {b}, !.blocks = Append(@, b)]
  <2>3. next = [engine |-> Engine(n)!StartHeight(h + 1), proposed |-> {b},
                blocks |-> s.blocks, hashes |-> s.hashes]
    BY <1>8, <2>2
  <2>4. last = [engine |-> Engine(n)!StartHeight(h + 1), proposed |-> {},
                blocks |-> Append(s.blocks, b), hashes |-> s.hashes \cup {b}]
    <3> HIDE DEF next
    <3>1. {b} \ {b} = {} OBVIOUS
    <3> DEFINE restart == Engine(n)!StartHeight(h + 1)
    <3>2. next = [engine |-> restart, proposed |-> {b}, blocks |-> s.blocks, hashes |-> s.hashes]
      BY <2>3
    <3> HIDE DEF restart
    <3>3. [next EXCEPT !.proposed = @ \ {b}, !.hashes = @ \cup {b}, !.blocks = Append(@, b)]
            = [engine |-> restart, proposed |-> {b} \ {b},
               blocks |-> Append(s.blocks, b), hashes |-> s.hashes \cup {b}]
      <4>1. /\ next.engine = restart /\ next.proposed = {b}
            /\ next.blocks = s.blocks /\ next.hashes = s.hashes
            /\ next = [engine |-> next.engine, proposed |-> next.proposed,
                       blocks |-> next.blocks, hashes |-> next.hashes]
        BY <3>2
      <4>2. [next EXCEPT !.proposed = @ \ {b}, !.hashes = @ \cup {b}, !.blocks = Append(@, b)]
              = [engine |-> next.engine, proposed |-> next.proposed \ {b},
                 blocks |-> Append(next.blocks, b), hashes |-> next.hashes \cup {b}]
        BY <4>1, Appended, Zenon
      <4>3. QED BY <4>1, <4>2, Zenon
    <3>4. QED BY Zenon, <3>1, <3>3 DEF restart
  <2>5. Finalize(n, v) = Done(n, last, v.sent \cup {Block(b)})
    BY <2>1, <2>2 DEF Finalize
  <2> HIDE DEF last
  <2>6. Finalize(n, v).s = last /\ Finalize(n, v).sent = v.sent \cup {Block(b)}
    BY <2>5 DEF Done, Work
  <2>7. v.sent \cup {Block(b)} = {m, own, Block(b)} BY <2>1
  <2>8. QED BY <2>4, <2>6, <2>7
<1>13. QED BY Zenon, <1>2, <1>11, <1>12 DEF Proposal, OwnPrevote, Finalized

(* Taking on a rested state that keeps the served blocks, whose blocks have *)
(* their ancestors served, preserves the invariant.                         *)
LEMMA CommitStep ==
    ASSUME NodeInv, NEW n \in Node, NEW w, NEW delivered, Commit(n, w, delivered),
           w.s \in Rested(n), Range(node[n].blocks) \subseteq Range(w.s.blocks),
           \A b \in Range(w.s.blocks) : 0 .. b \subseteq Served \cup Range(w.s.blocks),
           \A m \in w.sent :
              \/ \E b \in Range(w.s.blocks) : m = Block(b)
              \/ m \in [type : {"Proposal", "Prevote"}, height : Nat, round : {0},
                        hash : Nat, from : {n}]
    PROVE  NodeInv'
<1>1. /\ node' \in [Node -> UNION {Rested(k) : k \in Node}]
      /\ \A k \in Node : node'[k] = IF k = n THEN w.s ELSE node[k]
  BY DEF NodeInv, Commit
<1>2. \A k \in Node : node'[k] \in Rested(k)
  BY <1>1 DEF NodeInv
<1>3. Served' = Served \cup Range(w.s.blocks)
  BY <1>1 DEF Served
<1>4. wire' \subseteq UNION {{k} \X Sendable(k)' : k \in Node}
  <2> SUFFICES ASSUME NEW x \in wire' PROVE \E k \in Node : x \in {k} \X Sendable(k)'
    OBVIOUS
  <2>1. CASE x \in wire
    <3>1. PICK k \in Node : x \in {k} \X Sendable(k) BY <2>1 DEF NodeInv
    <3>2. Sendable(k) \subseteq Sendable(k)' BY <1>3 DEF Sendable
    <3>3. QED BY <3>1, <3>2
  <2>2. CASE x \in (Node \ {n}) \X w.sent
    <3>1. PICK k \in Node, m \in w.sent : k # n /\ x = <<k, m>> BY <2>2
    <3>2. m \in Sendable(k)' BY <1>3, <3>1 DEF Sendable
    <3>3. QED BY <3>1, <3>2
  <2>3. QED BY <2>1, <2>2 DEF Commit
<1>5. AncestorsServedSomewhere'
  BY Zenon, <1>3 DEF NodeInv, AncestorsServedSomewhere, Served
<1>6. QED
  <2>1. \A k : Rested(k)' = Rested(k) BY DEF Rested
  <2>2. QED BY <1>1, <1>2, <1>4, <1>5, <2>1 DEF NodeInv

(* Appending adds the appended value to what a sequence ranges over. *)
LEMMA RangeOfAppend ==
    ASSUME NEW q \in Seq(Nat), NEW b \in Nat
    PROVE  Append(q, b) \in Seq(Nat) \ {<<>>} /\ Range(Append(q, b)) = Range(q) \cup {b}
<1>1. /\ Append(q, b) \in Seq(Nat) /\ Len(Append(q, b)) = Len(q) + 1
      /\ \A i \in 1 .. Len(q) : Append(q, b)[i] = q[i]
      /\ Append(q, b)[Len(q) + 1] = b
  OBVIOUS
<1>2. Len(q) \in Nat /\ DOMAIN q = 1 .. Len(q) /\ DOMAIN Append(q, b) = 1 .. (Len(q) + 1)
  BY <1>1
<1>3. Append(q, b) # <<>> BY <1>1, <1>2
<1>4. ASSUME NEW x PROVE x \in Range(Append(q, b)) <=> x \in Range(q) \cup {b}
  BY <1>1, <1>2 DEF Range
<1>5. QED BY <1>1, <1>3, <1>4

(* main enters its loop with the genesis block served and the first height *)
(* begun.                                                                  *)
LEMMA NodeInitially == NodeInit => NodeInv
<1> SUFFICES ASSUME NodeInit PROVE NodeInv
  OBVIOUS
<1>1. ASSUME NEW n \in Node PROVE Fresh(n) \in Rested(n) /\ Range(Fresh(n).blocks) = {0}
  <2>1. <<0>> \in Seq(Nat) \ {<<>>} /\ Range(<<0>>) = {0} BY DEF Range
  <2> DEFINE e == Engine(n)!StartHeight(1)
  <2>2. e \in {Engine(n)!StartHeight(h) : h \in Nat} OBVIOUS
  <2> HIDE DEF e
  <2>3. [engine |-> e, proposed |-> {}, blocks |-> <<0>>, hashes |-> {0}] \in Rested(n)
    BY <2>1, <2>2 DEF Rested
  <2>4. QED BY <2>1, <2>3 DEF Fresh, e
<1>2. \A n \in Node : node[n] \in Rested(n) /\ Range(node[n].blocks) = {0}
  BY <1>1 DEF NodeInit
<1>3. node \in [Node -> UNION {Rested(n) : n \in Node}]
  BY <1>1 DEF NodeInit
<1>4. AncestorsServedSomewhere
  <2>1. 0 .. 0 = {0} OBVIOUS
  <2>2. QED BY <1>2, <2>1 DEF AncestorsServedSomewhere
<1>5. QED BY <1>2, <1>3, <1>4 DEF NodeInv, NodeInit

(* Every step of a node preserves the invariant. *)
LEMMA NodeStep == NodeInv /\ [NodeNext]_nodeVars => NodeInv'
<1> SUFFICES ASSUME NodeInv, [NodeNext]_nodeVars PROVE NodeInv'
  OBVIOUS
<1>1. ASSUME NEW n \in Node
      PROVE  /\ node[n] \in Rested(n) /\ node[n].blocks \in Seq(Nat) \ {<<>>}
             /\ Range(node[n].blocks) \subseteq Served
             /\ \A b \in Served : b \in Nat /\ 0 .. b \subseteq Served
  <2>1. \A k \in Node : node[k] \in Rested(k) /\ node[k].blocks \in Seq(Nat) \ {<<>>}
    BY Zenon DEF NodeInv, Rested
  <2>2. \A k \in Node : Range(node[k].blocks) \subseteq Nat
    BY <2>1 DEF Range
  <2>3. QED BY <2>1, <2>2 DEF NodeInv, Served, AncestorsServedSomewhere
<1>2. ASSUME NEW n \in Node, BlockTimer(n) PROVE NodeInv'
  <2> DEFINE s == node[n]
             b == build_block(s)
  <2>1. PICK h \in Nat : s.engine = Engine(n)!StartHeight(h)
    BY <1>1 DEF Rested
  <2>2. s.engine.height = h /\ s.engine.round = 0
    BY <2>1 DEF Engine!StartHeight
  <2>3. latest_block(s) \in Range(s.blocks)
    BY <1>1 DEF latest_block, Range
  <2>4. latest_block(s) \in Served /\ latest_block(s) \in Nat
    BY <1>1, <2>3
  <2>5. b \in Nat /\ 0 .. b \subseteq Served \cup {b}
    BY <1>1, <2>4 DEF build_block
  <2> HIDE DEF b
  <2>6. PICK w \in Proposed(n, s, b) : Commit(n, w, {})
    BY <1>2 DEF BlockTimer, Proposed, Proposal, b
  <2>7. /\ w.s = [engine   |-> Engine(n)!StartHeight(h + 1), proposed |-> {},
                  blocks   |-> Append(s.blocks, b), hashes |-> s.hashes \cup {b}]
        /\ w.sent = {Proposal(n, s, b), OwnPrevote(n, s, b), Block(b)}
    <3>1. s \in Rested(n) BY <1>1
    <3> HIDE DEF s
    <3>2. b \in Nat BY <2>5
    <3>3. Finalized(n, s, b, w)
      BY <2>6, <3>1, <3>2, OwnProposalFinalized
    <3>4. QED BY <2>2, <3>3 DEF Finalized
  <2>8. /\ w.s \in Rested(n) /\ Range(w.s.blocks) = Range(s.blocks) \cup {b}
    <3>1. Append(s.blocks, b) \in Seq(Nat) \ {<<>>} /\ Range(Append(s.blocks, b)) = Range(s.blocks) \cup {b}
      BY <1>1, <2>5, RangeOfAppend
    <3>2. s.hashes \cup {b} \in SUBSET Nat BY <1>1, <2>5 DEF Rested
    <3> DEFINE e == Engine(n)!StartHeight(h + 1)
    <3>3. e \in {Engine(n)!StartHeight(k) : k \in Nat} BY <2>1
    <3> HIDE DEF e
    <3>4. w.s = [engine |-> e, proposed |-> {}, blocks |-> Append(s.blocks, b), hashes |-> s.hashes \cup {b}]
      BY <2>7 DEF e
    <3> DEFINE blocks == Append(s.blocks, b)
               hashes == s.hashes \cup {b}
    <3>5. blocks \in Seq(Nat) \ {<<>>} /\ hashes \in SUBSET Nat BY <3>1, <3>2
    <3>6. w.s = [engine |-> e, proposed |-> {}, blocks |-> blocks, hashes |-> hashes] /\ w.s.blocks = blocks
      BY <3>4
    <3> HIDE DEF blocks, hashes
    <3>7. w.s \in Rested(n) BY <3>3, <3>5, <3>6 DEF Rested
    <3>8. QED BY <3>1, <3>6, <3>7 DEF blocks
  <2>9. ASSUME NEW x \in w.sent
        PROVE  \/ \E c \in Range(w.s.blocks) : x = Block(c)
               \/ x \in [type : {"Proposal", "Prevote"}, height : Nat, round : {0}, hash : Nat, from : {n}]
    <3>1. CASE x = Block(b) BY <2>8, <3>1
    <3>2. CASE x \in {Proposal(n, s, b), OwnPrevote(n, s, b)}
      BY <2>2, <2>5, <3>2 DEF Proposal, OwnPrevote, Engine!Message
    <3>3. QED BY <2>7, <3>1, <3>2
  <2>10. \A c \in Range(w.s.blocks) : 0 .. c \subseteq Served \cup Range(w.s.blocks)
    BY Zenon, <1>1, <2>5, <2>8
  <2>11. QED BY <2>6, <2>8, <2>9, <2>10, CommitStep
<1>3. ASSUME NEW n \in Node, NEW m, BlockReceived(n, m) PROVE NodeInv'
  <2> DEFINE s == AcceptBlock(node[n], m.number)
             w == Done(n, s, {})
  <2>1. m \in Sendable(n) BY <1>3 DEF BlockReceived, NodeInv
  <2>2. m.number \in Served BY <1>3, <2>1 DEF BlockReceived, Sendable, Block
  <2>3. w.s = s /\ w.sent = {} BY DEF Done, Work
  <2>4. s \in Rested(n) /\ Range(s.blocks) = Range(node[n].blocks) \cup {m.number}
    <3>1. /\ Append(node[n].blocks, m.number) \in Seq(Nat) \ {<<>>}
          /\ Range(Append(node[n].blocks, m.number)) = Range(node[n].blocks) \cup {m.number}
      BY <1>1, <2>2, RangeOfAppend
    <3>2. s = [engine |-> node[n].engine, proposed |-> node[n].proposed,
               blocks |-> Append(node[n].blocks, m.number), hashes |-> node[n].hashes \cup {m.number}]
      <4>1. node[n] = [engine |-> node[n].engine, proposed |-> node[n].proposed,
                       blocks |-> node[n].blocks, hashes |-> node[n].hashes]
        BY <1>1 DEF Rested
      <4>2. QED BY Zenon, <4>1, Appended DEF AcceptBlock
    <3> HIDE DEF s
    <3>3. QED BY <1>1, <2>2, <3>1, <3>2 DEF Rested
  <2> HIDE DEF s
  <2>5. Commit(n, w, {<<n, m>>}) BY <1>3 DEF BlockReceived, s
  <2> HIDE DEF w
  <2>6. QED BY Zenon, <1>1, <2>2, <2>3, <2>4, <2>5, CommitStep
<1>4. ASSUME NEW n \in Node, NEW m, ConsensusMessageReceived(n, m) PROVE NodeInv'
  <2>1. m \in Sendable(n) /\ m.type # "Block"
    BY <1>4 DEF ConsensusMessageReceived, NodeInv
  <2>2. PICK w \in process_consensus_events(n, Deliver(n, node[n], {}, m)) : Commit(n, w, {<<n, m>>})
    BY <1>4 DEF ConsensusMessageReceived
  <2>3. w.s \in Rested(n) /\ w.s.blocks = node[n].blocks /\ w.sent = {}
    BY <1>1, <2>1, <2>2, PeerMessageHandled
  <2>4. QED BY Zenon, <1>1, <2>2, <2>3, CommitStep
<1>5. CASE UNCHANGED nodeVars
  <2>1. node' = node /\ wire' = wire BY <1>5 DEF nodeVars
  <2>2. Served' = Served BY <2>1 DEF Served
  <2>3. \A n : Sendable(n)' = Sendable(n) /\ Rested(n)' = Rested(n) BY <2>2 DEF Sendable, Rested
  <2>4. QED BY <2>1, <2>3 DEF NodeInv, AncestorsServedSomewhere
<1>6. QED BY <1>2, <1>3, <1>4, <1>5 DEF NodeNext

(* Hence the invariant holds in every reachable state. *)
LEMMA NodeAlways == NodeSpec => []NodeInv
BY NodeInitially, NodeStep, PTL DEF NodeSpec

(* However blocks and votes of peers arrive between the timer's ticks,     *)
(* process_consensus_events leaves no cached proposal, vote or lock behind *)
(* and the engine at the start of a height.                                *)
THEOREM NothingHalfDoneHolds == NodeSpec => []NothingHalfDone
<1>1. NodeInv => NothingHalfDone
  <2> SUFFICES ASSUME NodeInv, NEW n \in Node
               PROVE  /\ node[n].proposed = {}
                      /\ node[n].engine = Engine(n)!StartHeight(node[n].engine.height)
    BY DEF NothingHalfDone
  <2>1. PICK h \in Nat : node[n].engine = Engine(n)!StartHeight(h) BY DEF NodeInv, Rested
  <2>2. node[n].engine.height = h BY <2>1 DEF Engine!StartHeight
  <2>3. QED BY <2>1, <2>2 DEF NodeInv, Rested
<1>2. QED BY <1>1, NodeAlways, PTL

(* For any number of nodes and any loss, delay and reordering of what they *)
(* send, every ancestor of a block some node serves is served by some node. *)
THEOREM AncestorsServedHolds == NodeSpec => []AncestorsServedSomewhere
<1>1. NodeInv => AncestorsServedSomewhere BY DEF NodeInv
<1>2. QED BY <1>1, NodeAlways, PTL

-----------------------------------------------------------------------------
(* The live benchmark *)

(* Where a worker is: with a job in hand, or without. *)
Holding == {"lock", "nonce", "send"}
Places  == Holding \cup {"fetch", "done"}

(* The workers with a job in hand, and the jobs that may still cost a      *)
(* sender something.                                                       *)
Busy(at)        == {w \in Worker : at[w] \in Holding}
JobsLeft(n, at) == (IF n < TxCount THEN TxCount - n ELSE 0) + Cardinality(Busy(at))

(* What a sender needs for them in the worst case, where it sends them all. *)
Need(n, at)     == MaxCost * JobsLeft(n, at)

(* An account that was never written, or was lost. *)
Broke(a)   == evm_db[a] = NoAccount
Solvent(w) == Broke(Sender[w]) \/ evm_db[Sender[w]].balance >= Need(next_job, pc)

(* The part of the state the argument is about, typed. *)
BenchTypeOK ==
    /\ evm_db \in [Address -> [nonce : Nat, balance : Nat]]
    /\ next_job \in Nat
    /\ pc \in [Worker -> Places]
    /\ job \in [Worker -> Nat] /\ nonce \in [Worker -> Nat]
    /\ unfunded \subseteq Address

(* The inductive invariant: jobs start when funding is over; the lock holder *)
(* alone is between its two requests, with a fresh hint and nonce; and every *)
(* sender that has an account can pay for all jobs that are left.            *)
BenchInv ==
    /\ BenchTypeOK
    /\ unfunded # {} => next_job = 0 /\ Busy(pc) = {} /\ \A a \in unfunded : Broke(a)
    /\ \A w \in Worker : pc[w] \in {"nonce", "send"} => endpoint_lock = w
    /\ \A w \in Worker : pc[w] = "send" => /\ pending_nonce_address_hint = Sender[w]
                                           /\ nonce[w] = evm_db[Sender[w]].nonce
    /\ \A w \in Worker : pc[w] \in Holding => job[w] < TxCount
    /\ \A w \in Worker : Solvent(w)

(* What a transaction costs is a number, and so are its multiples. *)
LEMMA CostLaws ==
    /\ MaxCost \in Nat
    /\ \A i \in Nat : MaxCost * i \in Nat /\ MaxCost * (i + 1) = MaxCost * i + MaxCost
<1>1. MaxCost \in Nat BY BenchAssumption, LedgerAssumption DEF MaxCost
<1> QED BY <1>1

(* The jobs left are counted by a number, at least one while a worker      *)
(* holds a job.                                                            *)
LEMMA JobsCounted ==
    ASSUME NEW n \in Nat, NEW at \in [Worker -> Places]
    PROVE  /\ IsFiniteSet(Busy(at)) /\ Cardinality(Busy(at)) \in Nat
           /\ JobsLeft(n, at) \in Nat
           /\ \A w \in Busy(at) : JobsLeft(n, at) >= 1
<1>1. IsFiniteSet(Busy(at)) /\ Cardinality(Busy(at)) \in Nat
  BY BenchAssumption, FS_Subset, FS_CardinalityType DEF Busy
<1>2. TxCount \in Nat BY BenchAssumption
<1>3. ASSUME NEW w \in Busy(at) PROVE Cardinality(Busy(at)) >= 1
  <2>1. Cardinality(Busy(at)) # 0 BY <1>1, <1>3, FS_EmptySet
  <2> QED BY <1>1, <2>1
<1> QED BY <1>1, <1>2, <1>3 DEF JobsLeft

(* Taking a job from the counter moves it from the jobs to come to the     *)
(* jobs in hand; leaving a job makes one less.                             *)
LEMMA JobTaken ==
    ASSUME NEW n \in Nat, NEW at \in [Worker -> Places], NEW w \in Worker,
           at[w] \notin Holding, NEW to \in Places, n < TxCount <=> to \in Holding
    PROVE  JobsLeft(n + 1, [at EXCEPT ![w] = to]) = JobsLeft(n, at)
<1> DEFINE bt == [at EXCEPT ![w] = to]
<1>1. bt \in [Worker -> Places] OBVIOUS
<1>2. TxCount \in Nat BY BenchAssumption
<1>3. IsFiniteSet(Busy(at)) /\ Cardinality(Busy(at)) \in Nat BY JobsCounted
<1>4. CASE n < TxCount
  <2>1. Busy(bt) = Busy(at) \cup {w} /\ w \notin Busy(at) BY <1>4 DEF Busy
  <2>2. Cardinality(Busy(bt)) = Cardinality(Busy(at)) + 1 BY Zenon, <1>3, <2>1, FS_AddElement
  <2> HIDE DEF bt
  <2> QED BY <1>2, <1>3, <1>4, <2>2 DEF JobsLeft, bt
<1>5. CASE ~ (n < TxCount)
  <2>1. Busy(bt) = Busy(at) BY <1>5 DEF Busy
  <2> HIDE DEF bt
  <2> QED BY <1>2, <1>3, <1>5, <2>1 DEF JobsLeft, bt
<1> QED BY <1>4, <1>5

(* Leaving a job, done or failed, is one job less. *)
LEMMA JobLeft ==
    ASSUME NEW n \in Nat, NEW at \in [Worker -> Places], NEW w \in Worker, at[w] \in Holding
    PROVE  JobsLeft(n, at) = JobsLeft(n, [at EXCEPT ![w] = "fetch"]) + 1
<1> DEFINE bt == [at EXCEPT ![w] = "fetch"]
<1>1. bt \in [Worker -> Places] BY DEF Places
<1>2. TxCount \in Nat BY BenchAssumption
<1>3. IsFiniteSet(Busy(at)) /\ Cardinality(Busy(at)) \in Nat BY JobsCounted
<1>4. Busy(bt) = Busy(at) \ {w} /\ w \in Busy(at) BY DEF Busy, Holding
<1>5. Cardinality(Busy(bt)) = Cardinality(Busy(at)) - 1 BY Zenon, <1>3, <1>4, FS_RemoveElement
<1>6. Cardinality(Busy(bt)) \in Nat
  <2> HIDE DEF bt
  <2> QED BY <1>1, JobsCounted
<1> HIDE DEF bt
<1> QED BY <1>2, <1>3, <1>5, <1>6 DEF JobsLeft, bt

(* A worker on the way from its lock to its transaction keeps its job. *)
LEMMA JobKept ==
    ASSUME NEW n \in Nat, NEW at \in [Worker -> Places], NEW w \in Worker, at[w] \in Holding,
           NEW to \in Holding
    PROVE  JobsLeft(n, [at EXCEPT ![w] = to]) = JobsLeft(n, at)
<1>1. Busy([at EXCEPT ![w] = to]) = Busy(at) BY DEF Busy
<1> QED BY <1>1 DEF JobsLeft

(* The same for what the jobs left may cost. *)
LEMMA NeedTaken ==
    ASSUME NEW n \in Nat, NEW at \in [Worker -> Places], NEW w \in Worker,
           at[w] \notin Holding, NEW to \in Places, n < TxCount <=> to \in Holding
    PROVE  Need(n + 1, [at EXCEPT ![w] = to]) = Need(n, at)
BY Zenon, JobTaken DEF Need

(* A worker that keeps its job keeps what it may cost. *)
LEMMA NeedKept ==
    ASSUME NEW n \in Nat, NEW at \in [Worker -> Places], NEW w \in Worker, at[w] \in Holding,
           NEW to \in Holding
    PROVE  Need(n, [at EXCEPT ![w] = to]) = Need(n, at)
BY Zenon, JobKept DEF Need

(* Leaving a job sets the cost of one transaction free. *)
LEMMA NeedLeft ==
    ASSUME NEW n \in Nat, NEW at \in [Worker -> Places], NEW w \in Worker, at[w] \in Holding
    PROVE  /\ Need(n, at) = Need(n, [at EXCEPT ![w] = "fetch"]) + MaxCost
           /\ Need(n, [at EXCEPT ![w] = "fetch"]) \in Nat
<1> DEFINE bt == [at EXCEPT ![w] = "fetch"]
<1>1. bt \in [Worker -> Places] BY DEF Places
<1>2. JobsLeft(n, bt) \in Nat
  <2> HIDE DEF bt
  <2> QED BY <1>1, JobsCounted
<1>3. JobsLeft(n, at) = JobsLeft(n, bt) + 1 BY Zenon, JobLeft
<1> HIDE DEF bt
<1> QED BY <1>2, <1>3, CostLaws DEF Need, bt

(* The funds of a sender cover the whole run. *)
LEMMA NeedAtStart ==
    ASSUME NEW at \in [Worker -> Places], Busy(at) = {}
    PROVE  FundWei >= Need(0, at)
<1>1. TxCount \in Nat /\ FundWei >= TxCount * MaxCost /\ MaxCost \in Nat
  BY BenchAssumption, CostLaws
<1>2. Cardinality(Busy(at)) = 0 BY FS_EmptySet
<1>3. JobsLeft(0, at) = TxCount BY <1>1, <1>2 DEF JobsLeft
<1>4. TxCount * MaxCost = MaxCost * TxCount BY <1>1
<1> QED BY <1>1, <1>3, <1>4 DEF Need

-----------------------------------------------------------------------------
(* Execution moves a value between two accounts and takes the fee. *)
LEMMA ExecutedMoves ==
    ASSUME evm_db \in [Address -> [nonce : Nat, balance : Nat]],
           NEW a \in Address, NEW raw \in [nonce : Nat, to : Address, value : Nat],
           Executable(a, raw), raw.to # a
    PROVE  /\ Executed(a, raw) \in [Address -> [nonce : Nat, balance : Nat]]
           /\ Executed(a, raw)[a].balance + (raw.value + Fee) = evm_db[a].balance
           /\ Executed(a, raw)[raw.to].balance = evm_db[raw.to].balance + raw.value
           /\ \A b \in Address \ {a, raw.to} : Executed(a, raw)[b] = evm_db[b]
           /\ Executed(a, raw)[raw.to].nonce = evm_db[raw.to].nonce
<1>1. Fee \in Nat BY LedgerAssumption
<1>2. raw.value \in Nat /\ raw.to \in Address /\ evm_db[a].balance \in Nat /\ evm_db[a].nonce \in Nat
  OBVIOUS
<1>3. raw.value + Fee <= evm_db[a].balance BY DEF Executable
<1>4. evm_db[a].balance - raw.value - Fee \in Nat
  BY <1>1, <1>2, <1>3
<1> DEFINE paid == [evm_db EXCEPT ![a].nonce = @ + 1, ![a].balance = @ - raw.value - Fee]
<1>5. paid[a] = [nonce |-> evm_db[a].nonce + 1, balance |-> evm_db[a].balance - raw.value - Fee]
  BY Zenon
<1>6. paid \in [Address -> [nonce : Nat, balance : Nat]] BY <1>2, <1>4, <1>5
<1>7. \A b \in Address \ {a} : paid[b] = evm_db[b] OBVIOUS
<1>8. Executed(a, raw) = [paid EXCEPT ![raw.to].balance = @ + raw.value] BY DEF Executed
<1> HIDE DEF paid
<1>9. paid[raw.to].balance + raw.value \in Nat BY <1>2, <1>6
<1>10. Executed(a, raw) \in [Address -> [nonce : Nat, balance : Nat]] BY <1>6, <1>8, <1>9
<1>11. Executed(a, raw)[a] = paid[a] BY <1>6, <1>8
<1>12. Executed(a, raw)[raw.to].balance = paid[raw.to].balance + raw.value
  BY <1>2, <1>6, <1>8
<1>13. Executed(a, raw)[raw.to].nonce = paid[raw.to].nonce
  BY <1>2, <1>6, <1>8
<1>14. \A b \in Address \ {a, raw.to} : Executed(a, raw)[b] = paid[b] BY <1>6, <1>8
<1> QED BY <1>1, <1>2, <1>4, <1>5, <1>7, <1>10, <1>11, <1>12, <1>13, <1>14

(* It costs the accounts together the fee and no more. *)
LEMMA ExecutedCostsFee ==
    ASSUME evm_db \in [Address -> [nonce : Nat, balance : Nat]],
           NEW a \in Address, NEW raw \in [nonce : Nat, to : Address, value : Nat],
           Executable(a, raw), raw.to # a, evm_db' = Executed(a, raw)
    PROVE  TotalBalance' + Fee = TotalBalance
<1> DEFINE f == Balances
           h == Balances'
           g == [f EXCEPT ![a] = h[a]]
<1>1. IsFiniteSet(Address) /\ Fee \in Nat BY BenchAssumption, LedgerAssumption
<1>2. f \in [Address -> Nat] /\ \A b \in Address : f[b] = evm_db[b].balance
  BY DEF Balances
<1>3. h \in [Address -> Nat] /\ \A b \in Address : h[b] = evm_db'[b].balance
  BY ExecutedMoves DEF Balances
<1>4. raw.to \in Address /\ raw.value \in Nat OBVIOUS
<1>5. /\ h[a] + (raw.value + Fee) = f[a]
      /\ h[raw.to] = f[raw.to] + raw.value
      /\ \A b \in Address \ {a, raw.to} : h[b] = f[b]
  BY <1>2, <1>3, <1>4, ExecutedMoves
<1>6. TotalBalance = SumOf(f, Address) /\ TotalBalance' = SumOf(h, Address)
  <2>1. Total(f) = SumOf(f, Address) /\ Total(h) = SumOf(h, Address) BY DEF Total, SumOf
  <2> QED BY <2>1 DEF TotalBalance
<1> HIDE DEF f, h
<1>7. g \in [Address -> Nat] /\ g[a] = h[a] /\ \A b \in Address \ {a} : g[b] = f[b]
  BY <1>2, <1>3
<1> HIDE DEF g
<1>8. SumOf(g, Address) + f[a] = SumOf(f, Address) + g[a]
  BY <1>1, <1>2, <1>7, SumChange
<1>9. \A b \in Address \ {raw.to} : h[b] = g[b] BY <1>5, <1>7
<1>10. SumOf(h, Address) + g[raw.to] = SumOf(g, Address) + h[raw.to]
  BY <1>1, <1>3, <1>4, <1>7, <1>9, SumChange
<1>11. /\ SumOf(f, Address) \in Nat /\ SumOf(g, Address) \in Nat /\ SumOf(h, Address) \in Nat
  BY <1>1, <1>2, <1>3, <1>7, SumLaws
<1>12. g[raw.to] = f[raw.to] /\ f[raw.to] \in Nat /\ f[a] \in Nat /\ h[a] \in Nat
  BY <1>2, <1>3, <1>4, <1>7
<1> QED BY <1>1, <1>4, <1>5, <1>6, <1>7, <1>8, <1>10, <1>11, <1>12

-----------------------------------------------------------------------------
(* A worker about to send has the hint on its sender, asks for no more     *)
(* than the dearest transaction, and has the nonce of the account.         *)
LEMMA ReadyToSend ==
    ASSUME BenchInv, NEW w \in Worker, pc[w] = "send"
    PROVE  /\ pending_nonce_address_hint = Sender[w]
           /\ Sender[w] \in Address /\ RawTx(w).to = To /\ To # Sender[w]
           /\ RawTx(w) \in [nonce : Nat, to : Address, value : Nat]
           /\ RawTx(w).nonce = evm_db[Sender[w]].nonce
           /\ RawTx(w).value + Fee <= MaxCost /\ RawTx(w).value + Fee > 0
           /\ unfunded = {}
<1>1. /\ Sender[w] \in Address /\ To # Sender[w] /\ To \in Address
      /\ TxCount \in Nat /\ ValueWei \in Nat /\ Fee \in Nat /\ ValueWei + Fee > 0
  BY BenchAssumption, LedgerAssumption
<1>2. /\ pending_nonce_address_hint = Sender[w] /\ nonce[w] = evm_db[Sender[w]].nonce
      /\ job[w] < TxCount /\ job[w] \in Nat /\ evm_db[Sender[w]].nonce \in Nat
  BY <1>1 DEF BenchInv, BenchTypeOK, Holding
<1>3. w \in Busy(pc) BY DEF Busy, Holding
<1>4. unfunded = {} BY <1>3 DEF BenchInv
<1> QED BY <1>1, <1>2, <1>4 DEF RawTx, MaxCost

(* A transaction is refused only if its sender was never funded. *)
LEMMA RejectedOnlyIfBroke ==
    ASSUME BenchInv, NEW w \in Worker, pc[w] = "send", SendRejected(RawTx(w))
    PROVE  Broke(Sender[w])
<1>1. SUFFICES ASSUME ~ Broke(Sender[w]) PROVE FALSE OBVIOUS
<1>2. evm_db[Sender[w]].balance >= Need(next_job, pc) BY <1>1 DEF BenchInv, Solvent
<1>3. next_job \in Nat /\ pc \in [Worker -> Places] /\ pc[w] \in Holding
  BY DEF BenchInv, BenchTypeOK, Holding
<1>4. PICK k \in Nat : Need(next_job, pc) = k + MaxCost BY Zenon, <1>3, NeedLeft
<1>5. evm_db[Sender[w]].balance \in Nat BY ReadyToSend DEF BenchInv, BenchTypeOK
<1>6. RawTx(w).value + Fee > evm_db[Sender[w]].balance
  <2>1. ~ Executable(Sender[w], RawTx(w)) BY ReadyToSend DEF SendRejected
  <2>2. RawTx(w).value \in Nat /\ Fee \in Nat BY ReadyToSend, LedgerAssumption
  <2> QED BY <1>5, <2>1, <2>2, ReadyToSend DEF Executable
<1>7. RawTx(w).value + Fee <= MaxCost /\ RawTx(w).value \in Nat /\ Fee \in Nat /\ MaxCost \in Nat
  BY ReadyToSend, LedgerAssumption, CostLaws
<1> QED BY <1>2, <1>4, <1>5, <1>6, <1>7

(* One that is accepted is paid by a funded sender, and costs the accounts *)
(* together one fee.                                                       *)
LEMMA AcceptedPays ==
    ASSUME BenchInv, NEW w \in Worker, pc[w] = "send", SendAccepted(RawTx(w))
    PROVE  /\ evm_db' \in [Address -> [nonce : Nat, balance : Nat]]
           /\ TotalBalance' + Fee = TotalBalance
           /\ ~ Broke(Sender[w])
           /\ evm_db'[Sender[w]].balance + MaxCost >= evm_db[Sender[w]].balance
           /\ \A a \in Address \ {Sender[w], To} : evm_db'[a] = evm_db[a]
<1> DEFINE a == Sender[w]
           raw == RawTx(w)
<1>1. /\ a \in Address /\ raw \in [nonce : Nat, to : Address, value : Nat] /\ raw.to # a
      /\ raw.to = To /\ raw.value + Fee <= MaxCost /\ raw.value + Fee > 0
      /\ pending_nonce_address_hint = a
  BY ReadyToSend
<1>2. Executable(a, raw) /\ evm_db' = Executed(a, raw) BY <1>1 DEF SendAccepted
<1>3. evm_db \in [Address -> [nonce : Nat, balance : Nat]] BY DEF BenchInv, BenchTypeOK
<1>4. raw.value \in Nat /\ Fee \in Nat /\ MaxCost \in Nat BY <1>1, LedgerAssumption, CostLaws
<1>5. raw.value + Fee <= evm_db[a].balance /\ evm_db[a].balance \in Nat
  BY <1>1, <1>2, <1>3 DEF Executable
<1> HIDE DEF a, raw
<1>6. /\ evm_db' \in [Address -> [nonce : Nat, balance : Nat]]
      /\ evm_db'[a].balance + (raw.value + Fee) = evm_db[a].balance
      /\ \A b \in Address \ {a, To} : evm_db'[b] = evm_db[b]
  BY <1>1, <1>2, <1>3, ExecutedMoves
<1>7. TotalBalance' + Fee = TotalBalance BY <1>1, <1>2, <1>3, ExecutedCostsFee
<1>8. ~ Broke(a) BY <1>1, <1>4, <1>5 DEF Broke, NoAccount
<1>9. evm_db'[a].balance \in Nat BY <1>1, <1>6
<1>10. evm_db'[a].balance + MaxCost >= evm_db[a].balance
  BY <1>1, <1>4, <1>5, <1>6, <1>9
<1> QED BY <1>6, <1>7, <1>8, <1>10 DEF a

-----------------------------------------------------------------------------
(* A step that touches nothing of the accounts, the hint, the counter and  *)
(* the workers keeps the invariant.                                        *)
LEMMA IdleStep ==
    ASSUME BenchInv,
           UNCHANGED <<evm_db, pending_nonce_address_hint, unfunded, next_job, endpoint_lock,
                       pc, job, nonce>>
    PROVE  BenchInv'
BY DEF BenchInv, BenchTypeOK, Solvent, Broke, Busy

(* A sender is funded once, before the first job is taken. *)
LEMMA FundStep ==
    ASSUME BenchInv, NEW a \in Address, Fund(a) \/ FundFails(a)
    PROVE  BenchInv' /\ (Fund(a) => TotalBalance' >= TotalBalance) /\ (FundFails(a) => UNCHANGED evm_db)
<1>1. a \in unfunded /\ unfunded' = unfunded \ {a} BY DEF Fund, FundFails
<1>2. next_job = 0 /\ Busy(pc) = {} /\ \A b \in unfunded : Broke(b) BY <1>1 DEF BenchInv
<1>3. UNCHANGED <<pending_nonce_address_hint, next_job, endpoint_lock, pc, job, nonce>>
  BY DEF Fund, FundFails, SetBalance, ledgerVars
<1>4. /\ evm_db \in [Address -> [nonce : Nat, balance : Nat]] /\ FundWei \in Nat
      /\ pc \in [Worker -> Places]
  BY BenchAssumption DEF BenchInv, BenchTypeOK
<1>5. \/ UNCHANGED evm_db
      \/ evm_db' = [evm_db EXCEPT ![a].balance = FundWei]
  BY DEF Fund, FundFails, SetBalance, ledgerVars
<1>6. evm_db' \in [Address -> [nonce : Nat, balance : Nat]] BY <1>4, <1>5
<1>7. \A b \in Address \ {a} : evm_db'[b] = evm_db[b] BY <1>4, <1>5
<1>8. \/ evm_db'[a] = evm_db[a]
      \/ evm_db'[a].balance = FundWei
  BY <1>4, <1>5
<1>9. \A w \in Worker : pc[w] \notin {"nonce", "send"} BY <1>2 DEF Busy, Holding
<1>10. BenchTypeOK' BY <1>1, <1>3, <1>6 DEF BenchInv, BenchTypeOK
<1>11. (unfunded # {} => next_job = 0 /\ Busy(pc) = {} /\ \A b \in unfunded : Broke(b))'
  <2>1. \A b \in unfunded' : b \in unfunded /\ b \in Address \ {a}
    BY <1>1 DEF BenchInv, BenchTypeOK
  <2> QED BY <1>2, <1>3, <1>7, <2>1 DEF Broke, Busy
<1>12. ASSUME NEW w \in Worker PROVE Solvent(w)'
  <2>1. Sender[w] \in Address BY BenchAssumption
  <2>2. FundWei >= Need(next_job, pc) BY <1>2, <1>4, NeedAtStart
  <2>3. CASE evm_db'[Sender[w]] = evm_db[Sender[w]]
    BY <1>3, <2>3 DEF BenchInv, Solvent, Broke
  <2>4. CASE Sender[w] = a /\ evm_db'[a].balance = FundWei
    BY <1>3, <2>2, <2>4 DEF Solvent
  <2> QED BY <1>7, <1>8, <2>1, <2>3, <2>4
<1>13. BenchInv'
  BY <1>3, <1>9, <1>10, <1>11, <1>12 DEF BenchInv
<1>14. ASSUME Fund(a) PROVE TotalBalance' >= TotalBalance
  <2> DEFINE f == Balances
             h == Balances'
  <2>1. f \in [Address -> Nat] /\ h \in [Address -> Nat] BY <1>4, <1>6 DEF Balances
  <2>2. \A b \in Address \ {a} : f[b] = h[b] BY <1>7 DEF Balances
  <2>3. f[a] = 0 BY <1>1, <1>2 DEF Balances, Broke, NoAccount
  <2>4. Total(f) = SumOf(f, Address) /\ Total(h) = SumOf(h, Address) BY DEF Total, SumOf
  <2>5. TotalBalance = Total(f) /\ TotalBalance' = Total(h) BY DEF TotalBalance
  <2> HIDE DEF f, h
  <2>6. SumOf(h, Address) + f[a] = SumOf(f, Address) + h[a]
    BY <2>1, <2>2, SumChange, BenchAssumption
  <2>7. SumOf(h, Address) \in Nat /\ SumOf(f, Address) \in Nat BY <2>1, SumLaws, BenchAssumption
  <2>8. h[a] \in Nat BY <2>1
  <2> QED BY <2>3, <2>4, <2>5, <2>6, <2>7, <2>8
<1>15. FundFails(a) => UNCHANGED evm_db BY DEF FundFails, ledgerVars
<1> QED BY <1>13, <1>14, <1>15

(* The endpoint lock keeps two workers from being between their nonce and  *)
(* their transaction at once.                                              *)
LEMMA OneBetween ==
    ASSUME BenchInv, NEW w \in Worker, pc[w] \in {"nonce", "send"}
    PROVE  \A v \in Worker \ {w} : pc[v] \notin {"nonce", "send"}
BY DEF BenchInv

(* A job is taken from the counter. *)
LEMMA FetchStep ==
    ASSUME BenchInv, NEW w \in Worker, FetchJob(w)
    PROVE  BenchInv'
<1> DEFINE to == IF next_job >= TxCount THEN "done" ELSE "lock"
<1>1. /\ pc[w] = "fetch" /\ unfunded = {} /\ next_job \in Nat /\ pc \in [Worker -> Places]
      /\ job \in [Worker -> Nat] /\ TxCount \in Nat
  BY BenchAssumption DEF FetchJob, BenchInv, BenchTypeOK
<1>2. /\ job' = [job EXCEPT ![w] = next_job] /\ next_job' = next_job + 1
      /\ pc' = [pc EXCEPT ![w] = to]
      /\ UNCHANGED <<evm_db, pending_nonce_address_hint, unfunded, endpoint_lock, nonce>>
  BY DEF FetchJob, NextJob, ledgerVars
<1>3. to \in Places /\ (next_job < TxCount <=> to \in Holding) /\ to \notin {"nonce", "send"}
  BY <1>1 DEF Places, Holding
<1>4. pc[w] \notin Holding BY <1>1 DEF Holding
<1> HIDE DEF to
<1>5. Need(next_job', pc') = Need(next_job, pc) BY Zenon, <1>1, <1>2, <1>3, <1>4, NeedTaken
<1>6. BenchTypeOK' BY <1>1, <1>2, <1>3 DEF BenchInv, BenchTypeOK
<1>7. \A v \in Worker : pc'[v] \in {"nonce", "send"} => pc'[v] = pc[v] BY <1>1, <1>2, <1>3
<1>8. ASSUME NEW v \in Worker, pc'[v] \in Holding PROVE job'[v] < TxCount
  BY <1>1, <1>2, <1>3, <1>8 DEF BenchInv
<1>9. ASSUME NEW v \in Worker PROVE Solvent(v)'
  BY <1>2, <1>5 DEF BenchInv, Solvent, Broke
<1> QED BY <1>1, <1>2, <1>6, <1>7, <1>8, <1>9 DEF BenchInv

(* A worker with a job goes on to its nonce, and from there to sending. *)
LEMMA ForwardStep ==
    ASSUME BenchInv, NEW w \in Worker, Lock(w) \/ LookupNonce(w)
    PROVE  BenchInv'
<1> DEFINE to == IF pc[w] = "lock" THEN "nonce" ELSE "send"
<1>1. /\ pc[w] \in {"lock", "nonce"} /\ next_job \in Nat /\ pc \in [Worker -> Places]
      /\ pc[w] \in Holding /\ to \in Holding /\ to \in Places
  BY DEF Lock, LookupNonce, BenchInv, BenchTypeOK, Holding, Places
<1>2. /\ pc' = [pc EXCEPT ![w] = to]
      /\ UNCHANGED <<evm_db, unfunded, next_job, job>>
  BY DEF Lock, LookupNonce, ledgerVars, GetTransactionCount
<1>3. unfunded = {} BY <1>1 DEF BenchInv, Busy
<1>4. BenchTypeOK'
  <2>1. nonce' \in [Worker -> Nat]
    BY BenchAssumption DEF Lock, LookupNonce, BenchInv, BenchTypeOK
  <2> QED BY Zenon, <1>1, <1>2, <2>1 DEF BenchInv, BenchTypeOK
<1>5. Need(next_job', pc') = Need(next_job, pc)
  <2> HIDE DEF to
  <2> QED BY Zenon, <1>1, <1>2, NeedKept
<1>6. \A v \in Worker : Solvent(v)' BY <1>2, <1>5 DEF BenchInv, Solvent, Broke
<1>7. \A v \in Worker : pc'[v] \in Holding => job'[v] < TxCount
  <2> HIDE DEF to
  <2> QED BY Zenon, <1>1, <1>2 DEF BenchInv
<1>8. /\ \A v \in Worker : pc'[v] \in {"nonce", "send"} => endpoint_lock' = v
      /\ \A v \in Worker : pc'[v] = "send" => /\ pending_nonce_address_hint' = Sender[v]
                                              /\ nonce'[v] = evm_db'[Sender[v]].nonce
  <2>1. CASE Lock(w)
    <3>1. endpoint_lock = None /\ endpoint_lock' = w /\ pc' = [pc EXCEPT ![w] = "nonce"]
      BY <2>1 DEF Lock, LockFree
    <3>2. \A v \in Worker : pc[v] \notin {"nonce", "send"}
      BY <3>1, BenchAssumption DEF BenchInv
    <3> QED BY <1>1, <3>1, <3>2
  <2>2. CASE LookupNonce(w)
    <3>1. /\ pc[w] = "nonce" /\ pc' = [pc EXCEPT ![w] = "send"] /\ UNCHANGED <<endpoint_lock, evm_db>>
          /\ pending_nonce_address_hint' = Sender[w]
          /\ nonce' = [nonce EXCEPT ![w] = evm_db[Sender[w]].nonce]
      BY <2>2 DEF LookupNonce, GetTransactionCount
    <3>2. endpoint_lock = w /\ \A v \in Worker \ {w} : pc[v] \notin {"nonce", "send"}
      BY <3>1, OneBetween DEF BenchInv
    <3>3. nonce'[w] = evm_db[Sender[w]].nonce BY <3>1 DEF BenchInv, BenchTypeOK
    <3> QED BY <1>1, <3>1, <3>2, <3>3
  <2> QED BY <2>1, <2>2
<1> QED BY <1>2, <1>3, <1>4, <1>6, <1>7, <1>8 DEF BenchInv

(* A worker that is through with its job, whatever came of it, leaves the  *)
(* senders able to pay for the jobs left.                                  *)
LEMMA RoundStep ==
    ASSUME BenchInv, NEW w \in Worker, pc[w] \in {"nonce", "send"}, NextRound(w),
           UNCHANGED <<unfunded, next_job, job, nonce>>,
           evm_db' \in [Address -> [nonce : Nat, balance : Nat]],
           \A v \in Worker : \/ Broke(Sender[v])'
                             \/ evm_db'[Sender[v]].balance + MaxCost >= evm_db[Sender[v]].balance
                                /\ ~ Broke(Sender[v])
    PROVE  BenchInv'
<1>1. /\ pc' = [pc EXCEPT ![w] = "fetch"] /\ next_job \in Nat /\ pc \in [Worker -> Places]
      /\ pc[w] \in Holding /\ "fetch" \in Places /\ "fetch" \notin Holding
  BY DEF NextRound, BenchInv, BenchTypeOK, Places, Holding
<1>2. unfunded = {} BY <1>1 DEF BenchInv, Busy
<1>3. \A v \in Worker \ {w} : pc[v] \notin {"nonce", "send"} BY OneBetween
<1>4. \A v \in Worker : pc'[v] \notin {"nonce", "send"} BY <1>1, <1>3
<1>5. BenchTypeOK' BY <1>1 DEF BenchInv, BenchTypeOK
<1>6. \A v \in Worker : pc'[v] \in Holding => job'[v] < TxCount BY <1>1 DEF BenchInv
<1>7. PICK k \in Nat : Need(next_job', pc') = k /\ Need(next_job, pc) = k + MaxCost
  BY Zenon, <1>1, NeedLeft
<1>8. ASSUME NEW v \in Worker PROVE Solvent(v)'
  <2>1. CASE Broke(Sender[v])' BY <2>1 DEF Solvent
  <2>2. CASE /\ evm_db'[Sender[v]].balance + MaxCost >= evm_db[Sender[v]].balance
             /\ ~ Broke(Sender[v])
    <3>1. evm_db[Sender[v]].balance >= k + MaxCost BY <1>7, <2>2 DEF BenchInv, Solvent
    <3>2. /\ evm_db[Sender[v]].balance \in Nat /\ evm_db'[Sender[v]].balance \in Nat
          /\ MaxCost \in Nat
      BY BenchAssumption, CostLaws DEF BenchInv, BenchTypeOK
    <3>3. evm_db'[Sender[v]].balance >= k BY <2>2, <3>1, <3>2
    <3> QED BY <1>7, <3>3 DEF Solvent
  <2> QED BY <2>1, <2>2
<1> QED BY <1>2, <1>4, <1>5, <1>6, <1>8 DEF BenchInv

(* Whatever becomes of a request, the accounts change only as the senders  *)
(* can bear, and more than a fee is lost only if some sender is broke.     *)
LEMMA LookupFailsStep ==
    ASSUME BenchInv, NEW w \in Worker, LookupFails(w)
    PROVE  BenchInv' /\ UNCHANGED evm_db
<1>1. /\ UNCHANGED evm_db /\ pc[w] = "nonce" /\ NextRound(w) /\ UNCHANGED <<unfunded, next_job, job, nonce>>
  BY Zenon DEF LookupFails, GetTransactionCount, ledgerVars
<1>2. evm_db \in [Address -> [nonce : Nat, balance : Nat]] /\ MaxCost \in Nat
  BY CostLaws DEF BenchInv, BenchTypeOK
<1>3. ASSUME NEW v \in Worker, ~ Broke(Sender[v])'
      PROVE  /\ evm_db'[Sender[v]].balance + MaxCost >= evm_db[Sender[v]].balance
             /\ ~ Broke(Sender[v])
  <2>1. evm_db[Sender[v]].balance \in Nat BY <1>2, BenchAssumption
  <2> QED BY <1>1, <1>2, <1>3, <2>1 DEF Broke
<1> QED BY Zenon, <1>1, <1>2, <1>3, RoundStep

(* A transaction that is sent, whether or not its answer arrives, costs    *)
(* its sender what the invariant has put aside and the total one fee.      *)
LEMMA SendStep ==
    ASSUME BenchInv, NEW w \in Worker, Send(w) \/ SendFails(w)
    PROVE  /\ BenchInv'
           /\ \/ UNCHANGED evm_db
              \/ TotalBalance' + Fee = TotalBalance
              \/ Broke(Sender[w])
<1>1. /\ pc[w] = "send" /\ NextRound(w) /\ UNCHANGED <<unfunded, next_job, job, nonce>>
      /\ \/ UNCHANGED ledgerVars
         \/ SendAccepted(RawTx(w))
         \/ SendRejected(RawTx(w))
  BY DEF Send, SendFails, SendRawTransaction
<1>2. evm_db \in [Address -> [nonce : Nat, balance : Nat]] /\ MaxCost \in Nat
  BY CostLaws DEF BenchInv, BenchTypeOK
<1>3. \A v \in Worker : Sender[v] \in Address \ {To} BY BenchAssumption
<1>4. \A v \in Worker : evm_db[Sender[v]].balance \in Nat BY <1>2, <1>3
<1>5. CASE UNCHANGED ledgerVars
  <2>1. UNCHANGED evm_db BY <1>5 DEF ledgerVars
  <2>2. \A v \in Worker : \/ Broke(Sender[v])'
                          \/ /\ evm_db'[Sender[v]].balance + MaxCost >= evm_db[Sender[v]].balance
                             /\ ~ Broke(Sender[v])
    BY <1>2, <1>4, <2>1 DEF Broke
  <2> QED BY <1>1, <1>2, <2>1, <2>2, RoundStep
<1>6. CASE SendAccepted(RawTx(w))
  <2>1. /\ evm_db' \in [Address -> [nonce : Nat, balance : Nat]]
        /\ TotalBalance' + Fee = TotalBalance
        /\ ~ Broke(Sender[w])
        /\ evm_db'[Sender[w]].balance + MaxCost >= evm_db[Sender[w]].balance
        /\ \A a \in Address \ {Sender[w], To} : evm_db'[a] = evm_db[a]
    BY <1>1, <1>6, AcceptedPays
  <2>2. ASSUME NEW v \in Worker, ~ Broke(Sender[v])'
        PROVE  /\ evm_db'[Sender[v]].balance + MaxCost >= evm_db[Sender[v]].balance
               /\ ~ Broke(Sender[v])
    <3>1. CASE Sender[v] = Sender[w] BY <2>1, <3>1 DEF Broke
    <3>2. CASE Sender[v] # Sender[w]
      <4>1. evm_db'[Sender[v]] = evm_db[Sender[v]] BY <1>3, <2>1, <3>2
      <4> QED BY <1>2, <1>4, <2>2, <4>1 DEF Broke
    <3> QED BY <3>1, <3>2
  <2> QED BY <1>1, <2>1, <2>2, RoundStep
<1>7. CASE SendRejected(RawTx(w))
  <2>1. Broke(Sender[w]) BY <1>1, <1>7, RejectedOnlyIfBroke
  <2>2. evm_db' = EmptyDb BY <1>7 DEF SendRejected, LoseDatabase
  <2>3. evm_db' \in [Address -> [nonce : Nat, balance : Nat]] BY <2>2 DEF EmptyDb, NoAccount
  <2>4. \A v \in Worker : Broke(Sender[v])' BY <1>3, <2>2 DEF Broke, EmptyDb
  <2> QED BY <1>1, <2>1, <2>3, <2>4, RoundStep
<1> QED BY <1>1, <1>5, <1>6, <1>7

-----------------------------------------------------------------------------
(* At the start no sender has an account. *)
LEMMA BenchInitInv == BenchInit => BenchInv
<1> SUFFICES ASSUME BenchInit PROVE BenchInv OBVIOUS
<1>1. /\ evm_db = EmptyDb /\ pc = [w \in Worker |-> "fetch"] /\ next_job = 0
      /\ unfunded = {Sender[w] : w \in Worker} /\ job = [w \in Worker |-> 0]
      /\ nonce = [w \in Worker |-> 0]
  BY DEF BenchInit, LedgerInit
<1>2. \A a \in Address : Broke(a) BY <1>1 DEF Broke, EmptyDb
<1>3. \A w \in Worker : Sender[w] \in Address BY BenchAssumption
<1>4. Busy(pc) = {} /\ \A w \in Worker : pc[w] \notin Holding /\ pc[w] \notin {"nonce", "send"}
  BY <1>1 DEF Busy, Holding
<1>5. BenchTypeOK BY <1>1, <1>3 DEF BenchTypeOK, EmptyDb, NoAccount, Places
<1>6. \A w \in Worker : Solvent(w) BY <1>2, <1>3 DEF Solvent
<1> QED BY <1>1, <1>2, <1>3, <1>4, <1>5, <1>6 DEF BenchInv

(* What a step does to the accounts when nothing went wrong. *)
FeeAtMost == TotalBalance' + Fee < TotalBalance => \E w \in Worker : Broke(Sender[w])

(* Every step keeps the invariant and loses at most a fee, unless a sender *)
(* is broke.                                                               *)
LEMMA BenchStep == BenchInv /\ [BenchNext]_benchVars => BenchInv' /\ FeeAtMost
<1> SUFFICES ASSUME BenchInv, [BenchNext]_benchVars PROVE BenchInv' /\ FeeAtMost OBVIOUS
<1>1. TotalBalance \in Nat /\ Fee \in Nat
  <2>1. Balances \in [Address -> Nat] BY DEF Balances, BenchInv, BenchTypeOK
  <2>2. TotalBalance = SumOf(Balances, Address) BY DEF TotalBalance, Total, SumOf
  <2> QED BY <2>1, <2>2, SumLaws, BenchAssumption, LedgerAssumption
<1>2. ASSUME UNCHANGED evm_db PROVE FeeAtMost
  <2>1. Balances' = Balances BY <1>2 DEF Balances
  <2>2. TotalBalance' = TotalBalance BY <2>1 DEF TotalBalance
  <2> QED BY <1>1, <2>2 DEF FeeAtMost
<1>3. ASSUME BenchInv' PROVE TotalBalance' \in Nat
  <2> DEFINE h == Balances'
  <2>1. h \in [Address -> Nat] BY <1>3 DEF Balances, BenchInv, BenchTypeOK
  <2>2. Total(h) = SumOf(h, Address) BY DEF Total, SumOf
  <2>3. TotalBalance' = Total(h) BY DEF TotalBalance
  <2> HIDE DEF h
  <2> QED BY <2>1, <2>2, <2>3, SumLaws, BenchAssumption
<1>4. ASSUME NEW a \in Address, Fund(a) \/ FundFails(a) PROVE BenchInv' /\ FeeAtMost
  <2>1. BenchInv' /\ (Fund(a) => TotalBalance' >= TotalBalance) /\ (FundFails(a) => UNCHANGED evm_db)
    BY <1>4, FundStep
  <2>2. CASE Fund(a) BY <1>1, <1>3, <2>1, <2>2 DEF FeeAtMost
  <2>3. CASE FundFails(a) BY <1>2, <2>1, <2>3
  <2> QED BY <1>4, <2>2, <2>3
<1>5. ASSUME NEW w \in Worker, WorkerStep(w) PROVE BenchInv' /\ FeeAtMost
  <2>1. CASE FetchJob(w)
    <3>1. UNCHANGED evm_db BY <2>1 DEF FetchJob, ledgerVars
    <3> QED BY <1>2, <2>1, <3>1, FetchStep
  <2>2. CASE Lock(w) \/ LookupNonce(w)
    <3>1. UNCHANGED evm_db BY <2>2 DEF Lock, LookupNonce, GetTransactionCount, ledgerVars
    <3> QED BY <1>2, <2>2, <3>1, ForwardStep
  <2>3. CASE LookupFails(w) BY <1>2, <2>3, LookupFailsStep
  <2>4. CASE Send(w) \/ SendFails(w)
    <3>1. /\ BenchInv'
          /\ \/ UNCHANGED evm_db
             \/ TotalBalance' + Fee = TotalBalance
             \/ Broke(Sender[w])
      BY <2>4, SendStep
    <3>2. CASE UNCHANGED evm_db BY <1>2, <3>1, <3>2
    <3>3. CASE TotalBalance' + Fee = TotalBalance BY <1>1, <1>3, <3>1, <3>3 DEF FeeAtMost
    <3>4. CASE Broke(Sender[w]) BY <3>1, <3>4 DEF FeeAtMost
    <3> QED BY <3>1, <3>2, <3>3, <3>4
  <2> QED BY <1>5, <2>1, <2>2, <2>3, <2>4 DEF WorkerStep
<1>6. ASSUME \/ Join \/ PollingEnds \/ Deadline \/ MinerTick \/ UNCHANGED benchVars
             \/ \E raw \in pending : PollReceipt(raw)
      PROVE  BenchInv' /\ FeeAtMost
  <2>1. UNCHANGED <<evm_db, pending_nonce_address_hint, unfunded, next_job, endpoint_lock,
                    pc, job, nonce>>
    BY <1>6 DEF Join, PollReceipt, PollingEnds, Deadline, MinerTick, Tick, benchVars, clientVars, ledgerVars
  <2> QED BY <1>2, <2>1, IdleStep
<1> QED BY <1>4, <1>5, <1>6 DEF BenchNext

(* LossOnlyIfUnfunded for any number of workers, senders and transactions: *)
(* with an endpoint lock held from the nonce lookup to the answer of the   *)
(* transaction, and funds for the whole run, no lost request or answer     *)
(* makes a funded worker send what the node refuses.                       *)
THEOREM LossOnlyIfUnfundedHolds == BenchSpec => LossOnlyIfUnfunded
<1>1. BenchInv /\ [BenchNext]_benchVars
        => [TotalBalance' + Fee < TotalBalance => \E w \in Worker : evm_db[Sender[w]] = NoAccount]_benchVars
  BY BenchStep DEF FeeAtMost, Broke
<1>2. BenchInv /\ [BenchNext]_benchVars => BenchInv' BY BenchStep
<1> QED BY <1>1, <1>2, BenchInitInv, PTL DEF BenchSpec, LossOnlyIfUnfunded
================================================================================
