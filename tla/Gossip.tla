-------------------------------- MODULE Gossip --------------------------------
(***************************************************************************)
(* Relaying in eth2077-p2p: a network of P2pNodes that broadcast blocks,   *)
(* transactions and consensus messages (node.rs, gossip.rs).  Each node    *)
(* has one bounded cache of seen messages per kind; the dispatch loop      *)
(* relays a message to every peer but the one it came from if the cache    *)
(* does not hold it, and reports it to its owner every time.               *)
(*                                                                         *)
(* Connections are fixed and reliable; a wire is everything between one    *)
(* node's peer sender and the other's dispatch loop.  A message is its     *)
(* hash.  Some payloads do not decode: a block or transaction is decoded   *)
(* before it is relayed, a consensus message after.                        *)
(***************************************************************************)
EXTENDS Naturals, Sequences, FiniteSets

CONSTANTS
    Node,
    Peers,          \* node -> its connected peers
    Msg,
    Kind,           \* message -> "block", "tx" or "consensus"
    Undecodable,    \* the messages whose payload does not decode
    CacheSize,      \* kind -> size of the cache
    Workload        \* bound: sets of <<node, message>>, one of which is broadcast

ASSUME CacheAssumption ==
    /\ \A k \in DOMAIN CacheSize : CacheSize[k] \in Nat \ {0}
    /\ Kind \in [Msg -> DOMAIN CacheSize]
    /\ IsFiniteSet(Msg)

ASSUME NetworkAssumption ==
    /\ Peers \in [Node -> SUBSET Node]
    /\ \A n, p \in Node : p \in Peers[n] <=> n \in Peers[p]
    /\ \A w \in Workload : w \subseteq Node \X Msg

VARIABLES
    cache,          \* node -> kind -> [seen, order]
    wire,           \* <<from, to>> -> messages under way
    heard,          \* node -> the messages reported by events
    unsent,         \* the broadcasts still to come
    relays          \* history: node -> message -> times it was put on the wires, 2 for more

gossipVars == <<cache, wire, heard, unsent, relays>>

Wires == {w \in Node \X Node : w[2] \in Peers[w[1]]}

-----------------------------------------------------------------------------
(* should_relay, should_relay_block, should_relay_tx *)

Holds(c, m) == m \in c.seen

EvictQueueOnly(c, size) ==    \* mutant: the oldest leaves the queue and stays in the set
    IF Cardinality(c.seen) > size THEN [c EXCEPT !.order = Tail(c.order)] ELSE c

(* One insertion exceeds the size by at most one. *)
Evict(c, size) ==
    IF Cardinality(c.seen) > size
      THEN [seen |-> c.seen \ {Head(c.order)}, order |-> Tail(c.order)]
      ELSE c

Remember(c, m, size) ==
    IF Holds(c, m) THEN c
    ELSE Evict([seen |-> c.seen \cup {m}, order |-> Append(c.order, m)], size)

-----------------------------------------------------------------------------
GossipInit ==
    /\ cache = [n \in Node |-> [k \in DOMAIN CacheSize |-> [seen |-> {}, order |-> <<>>]]]
    /\ wire = [w \in Wires |-> <<>>]
    /\ heard = [n \in Node |-> {}]
    /\ unsent \in Workload
    /\ relays = [n \in Node |-> [m \in Msg |-> 0]]

SendBroadcastOnly(s, n, m, except) ==    \* mutant: what was received is not passed on
    [w \in Wires |-> IF w[1] = n /\ except = {} THEN Append(s[w], m) ELSE s[w]]

(* broadcast_wire on wires s. *)
Send(s, n, m, except) ==
    [w \in Wires |-> IF w[1] = n /\ w[2] \notin except THEN Append(s[w], m) ELSE s[w]]

Note(n, m) ==
    cache' = [cache EXCEPT ![n][Kind[m]] = Remember(@, m, CacheSize[Kind[m]])]

Count(n, m) == relays' = [relays EXCEPT ![n][m] = IF @ < 2 THEN @ + 1 ELSE @]

RelayAlways(n, m) == TRUE    \* mutant: the cache is not consulted

Fresh(n, m) == ~ Holds(cache[n][Kind[m]], m)

(* broadcast_block, broadcast_tx, broadcast_consensus_msg: nothing happens *)
(* if the cache holds the message.                                         *)
Broadcast(n, m) ==
    /\ <<n, m>> \in unsent
    /\ unsent' = unsent \ {<<n, m>>}
    /\ Note(n, m)
    /\ IF Fresh(n, m)
         THEN /\ wire' = Send(wire, n, m, {})
              /\ Count(n, m)
         ELSE UNCHANGED <<wire, relays>>
    /\ UNCHANGED heard

Popped(p, n) == [wire EXCEPT ![<<p, n>>] = Tail(@)]

(* The NewBlock, NewTransaction and ConsensusMsg arms of the dispatch loop. *)
Receive(n, p) ==
    LET m == Head(wire[<<p, n>>]) IN
    /\ p \in Peers[n]
    /\ wire[<<p, n>>] # <<>>
    /\ IF m \in Undecodable /\ Kind[m] # "consensus"
         THEN wire' = Popped(p, n) /\ UNCHANGED <<cache, relays>>
         ELSE /\ Note(n, m)
              /\ IF Fresh(n, m)
                   THEN /\ wire' = Send(Popped(p, n), n, m, {p})
                        /\ Count(n, m)
                   ELSE wire' = Popped(p, n) /\ UNCHANGED relays
    /\ heard' = IF m \in Undecodable THEN heard ELSE [heard EXCEPT ![n] = @ \cup {m}]
    /\ UNCHANGED unsent

GossipNext ==
    \/ \E n \in Node, m \in Msg : Broadcast(n, m)
    \/ \E n, p \in Node : Receive(n, p)

(* Every connection and dispatch task is scheduled. *)
GossipSpec == GossipInit /\ [][GossipNext]_gossipVars /\ \A n, p \in Node : WF_gossipVars(Receive(n, p))

-----------------------------------------------------------------------------
(* Type correctness. *)
GossipTypeOK ==
    /\ cache \in [Node -> [DOMAIN CacheSize -> [seen : SUBSET Msg, order : Seq(Msg)]]]
    /\ wire \in [Wires -> Seq(Msg)]
    /\ heard \in [Node -> SUBSET Msg]
    /\ unsent \subseteq Node \X Msg
    /\ relays \in [Node -> [Msg -> 0 .. 2]]

(* The set and the queue of a cache hold the same messages, each once, and *)
(* never more than the cache may hold: an entry left behind in one of them *)
(* would never be evicted, or would silence a message for ever.            *)
CacheExact ==
    \A n \in Node : \A k \in DOMAIN CacheSize :
        LET c == cache[n][k] IN
        /\ c.seen = {c.order[i] : i \in DOMAIN c.order}
        /\ Len(c.order) = Cardinality(c.seen)
        /\ Len(c.order) <= CacheSize[k]

(* The kinds whose cache has room for every message. *)
Roomy(m) == Cardinality({l \in Msg : Kind[l] = Kind[m]}) <= CacheSize[Kind[m]]

(* While nothing is evicted, a node puts a message on its wires once, no   *)
(* matter along how many paths it comes and who else broadcasts it.        *)
RelayedOnce == \A n \in Node, m \in Msg : Roomy(m) => relays[n][m] <= 1

(* A message that someone put on the wires reaches every other node, also  *)
(* when caches overflow: a node that hears it first relays it.             *)
EveryoneHears ==
    \A m \in Msg \ Undecodable :
        (\E n \in Node : relays[n][m] > 0)
            ~> (\A n \in Node : m \in heard[n] \/ relays[n][m] > 0)

(* The messages of a kind that fits its cache do not circulate for ever. *)
GoesQuiet ==
    \A m \in Msg : Roomy(m) =>
        <>[](\A w \in Wires : \A i \in DOMAIN wire[w] : wire[w][i] # m)
===============================================================================
