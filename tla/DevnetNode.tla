----------------------------- MODULE DevnetNode -----------------------------
(***************************************************************************)
(* The devnet binary (devnet.rs): the event loop that joins the consensus  *)
(* engine, the block builder, the chain served over JSON-RPC (EthRpcState) *)
(* and the P2P node, on several machines that are each other's peers.      *)
(*                                                                         *)
(* Every node's validator set holds the node alone, and both fast path     *)
(* thresholds are 1, so a node finalizes its own proposal within the timer *)
(* tick that makes it, and any vote of a peer for the current height       *)
(* finalizes that height too, whatever it votes for.                       *)
(*                                                                         *)
(* Nothing ever adds to pending_txs, so blocks are empty; all nodes start  *)
(* from one genesis block and the builder derives the rest of a header     *)
(* from the parent's.  A block is therefore determined by its number, and  *)
(* a block, its hash and its number are one thing here.                    *)
(*                                                                         *)
(* `wire` holds what the P2P layer still has to deliver: in any order, any *)
(* time later or never.  A node broadcasts a block or message once (its    *)
(* gossip caches, see Gossip, drop a repetition).                          *)
(***************************************************************************)
EXTENDS Naturals, Sequences, FiniteSets, Functions

CONSTANTS
    Node,
    LastHeight,    \* bound: no proposal above this height
    NoHash, NoTime, Nil, Absent

(* A vote for no block is none for a block. *)
ASSUME NodeAssumption == LastHeight \in Nat /\ Nil \notin Nat

Engine(n) ==
    INSTANCE ConsensusEngine
      WITH Hash <- 0 .. LastHeight * Cardinality(Node), Voters <- Node, ValidatorSeq <- <<n>>,
           Weight <- [v \in Node |-> IF v = n THEN 1 ELSE 0],
           OptimisticThreshold <- 1, QuorumThreshold <- 1, TimeoutMs <- 5000

VARIABLES
    node,     \* node[n]: what the event loop of n owns, see Fresh
    wire,     \* <<receiver, message>> not delivered yet
    shouted   \* shouted[n]: what n has broadcast

nodeVars == <<node, wire, shouted>>

Block(number) == [type |-> "Block", number |-> number]

(* The state of main when its loop is entered: the engine, proposed_blocks, *)
(* EthRpcState.blocks and the block hashes of execution_state.              *)
Fresh(n) ==
    [engine   |-> Engine(n)!StartHeight(1),
     proposed |-> {},
     blocks   |-> <<0>>,
     hashes   |-> {0}]

latest_block(s) == s.blocks[Len(s.blocks)]

-----------------------------------------------------------------------------
(* process_consensus_events.  A piece of work is the node, what it has     *)
(* broadcast and the event it still has to see to; a handler of the engine *)
(* returns at most one.                                                    *)

Work(s, sent, event) == [s |-> s, sent |-> sent, event |-> event]
Done(n, s, sent)     == Work(s, sent, Engine(n)!NoEvent)

FinalizeInPlace(n, w) ==    \* mutant: a hash that is not cached leaves the height open
    IF w.event.hash \in w.s.proposed
      THEN Done(n, [w.s EXCEPT !.proposed = @ \ {w.event.hash}, !.hashes = @ \cup {w.event.hash},
                               !.blocks = Append(@, w.event.hash),
                               !.engine = Engine(n)!StartHeight(@.height + 1)],
                w.sent \cup {Block(w.event.hash)})
      ELSE Done(n, w.s, w.sent)

(* BlockFinalized: a block of the proposal cache is appended and broadcast; *)
(* the next height starts either way.                                       *)
Finalize(n, w) ==
    LET b    == w.event.hash
        next == [w.s EXCEPT !.engine = Engine(n)!StartHeight(@.height + 1)]
    IN  IF b \in w.s.proposed
          THEN Done(n, [next EXCEPT !.proposed = @ \ {b}, !.hashes = @ \cup {b},
                                    !.blocks = Append(@, b)],
                    w.sent \cup {Block(b)})
          ELSE Done(n, next, w.sent)

IgnoreOwn(n, e, m) ==    \* mutant: a node's own messages do not reach its engine
    IF m.from = n THEN {Engine(n)!Result(e, Engine(n)!NoEvent)}
    ELSE Engine(n)!on_prevote(e, m)

on_message(n, e, m) ==
    CASE m.type = "Proposal"  -> Engine(n)!on_proposal(e, m)
      [] m.type = "Prevote"   -> Engine(n)!on_prevote(e, m)
      [] m.type = "Precommit" -> Engine(n)!on_precommit(e, m)

Deliver(n, s, sent, m) ==
    {Work([s EXCEPT !.engine = r.engine], sent, r.event) : r \in on_message(n, s.engine, m)}

(* One turn of the loop: a vote asked for is broadcast and handed to the   *)
(* own engine.                                                             *)
Pop(n, w) ==
    LET own == Engine(n)!Message(
                   IF w.event.type = "SendPrevote" THEN "Prevote" ELSE "Precommit",
                   w.s.engine.height, w.s.engine.round, w.event.hash, n)
    IN  CASE w.event.type = "None"           -> {w}
          [] w.event.type = "BlockFinalized" -> {Finalize(n, w)}
          [] OTHER                           -> Deliver(n, w.s, w.sent \cup {own}, own)

PopAll(n, W) == UNION {Pop(n, w) : w \in W}

(* Three turns see to every event: a proposal asks for a prevote, a prevote *)
(* for a precommit, and a precommit only ever finalizes.                    *)
process_consensus_events(n, W) == PopAll(n, PopAll(n, PopAll(n, W)))

-----------------------------------------------------------------------------
NodeInit ==
    /\ node    = [n \in Node |-> Fresh(n)]
    /\ wire    = {}
    /\ shouted = [n \in Node |-> {}]

(* The node takes on state w.s and broadcasts w.sent. *)
Commit(n, w, delivered) ==
    LET new == w.sent \ shouted[n]
    IN  /\ node' = [node EXCEPT ![n] = w.s]
        /\ wire' = (wire \ delivered) \cup ((Node \ {n}) \X new)
        /\ shouted' = [shouted EXCEPT ![n] = @ \cup new]

(* build_block on the latest block of the served chain. *)
build_block(s) == latest_block(s) + 1

(* The block timer.  The node is the leader of every round. *)
BlockTimer(n) ==
    LET s == node[n]
        b == build_block(s)
        m == Engine(n)!Message("Proposal", s.engine.height, s.engine.round, b, n)
        W == Deliver(n, [s EXCEPT !.proposed = @ \cup {b}], {m}, m)
    IN  /\ s.engine.height <= LastHeight
        /\ Engine(n)!leader_for_round(s.engine.height, s.engine.round) = n
        /\ \E w \in process_consensus_events(n, W) : Commit(n, w, {})

AcceptReplaces(s, b) ==    \* mutant: a received block restarts the served chain
    [s EXCEPT !.blocks = <<b>>, !.hashes = {b}]

(* BlockReceived: served at once, whatever its number and parent. *)
AcceptBlock(s, b) == [s EXCEPT !.blocks = Append(@, b), !.hashes = @ \cup {b}]

BlockReceived(n, m) ==
    /\ <<n, m>> \in wire /\ m.type = "Block"
    /\ Commit(n, Done(n, AcceptBlock(node[n], m.number), {}), {<<n, m>>})

ConsensusMessageReceived(n, m) ==
    /\ <<n, m>> \in wire /\ m.type # "Block"
    /\ \E w \in process_consensus_events(n, Deliver(n, node[n], {}, m)) : Commit(n, w, {<<n, m>>})

NodeNext ==
    \E n \in Node :
        \/ BlockTimer(n)
        \/ \E w \in wire : BlockReceived(n, w[2])
        \/ \E w \in wire : ConsensusMessageReceived(n, w[2])

(* tokio's interval keeps ticking; no message need ever arrive. *)
NodeSpec == NodeInit /\ [][NodeNext]_nodeVars /\ \A n \in Node : WF_nodeVars(BlockTimer(n))

-----------------------------------------------------------------------------
(* Properties *)

(* Between two events no node holds a half-finished height: the proposal   *)
(* cache is empty and the engine is where start_height put it, with no     *)
(* votes and no lock, so neither proposed_blocks (devnet.rs:294) nor the   *)
(* vote maps grow and a height is never waited for.                        *)
NothingHalfDone ==
    \A n \in Node :
        /\ node[n].proposed = {}
        /\ node[n].engine = Engine(n)!StartHeight(node[n].engine.height)

(* Blocks may be missing, repeated or out of order in what one node        *)
(* serves, but all nodes together serve every ancestor of every block: a   *)
(* block is only ever built on one that some node serves (devnet.rs:273).  *)
AncestorsServedSomewhere ==
    LET all == UNION {Range(node[n].blocks) : n \in Node}
    IN  \A b \in all : 0 .. b \subseteq all

(* Every node gets through every height although on_timeout has no caller  *)
(* and no peer need ever be heard (devnet.rs:256): it is its own quorum.   *)
HeightsAdvance ==
    \A n \in Node :
        <>(node[n].engine.height > LastHeight)
=============================================================================
