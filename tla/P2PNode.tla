-------------------------------- MODULE P2PNode --------------------------------
(***************************************************************************)
(* The tasks of one P2pNode (node.rs, transport.rs, peer.rs,               *)
(* sync_protocol.rs): the accept loop and the boot dials, one task per     *)
(* connection, the dispatch loop, and the owner that consumes its events   *)
(* and broadcasts.  They talk over bounded channels and every send waits   *)
(* for room.                                                               *)
(*                                                                         *)
(* A connection task that has read a frame holds it (hand) until the       *)
(* inbound channel takes it, and writes nothing to its peer meanwhile.     *)
(* The dispatch loop handles an item at once and then works off the sends  *)
(* and events it owes (todo), one wait at a time.  What is sent to a peer  *)
(* is only counted.  The peers are the environment: each connection        *)
(* announces one peer id and height and then delivers any frames.          *)
(***************************************************************************)
EXTENDS Naturals, Sequences, FiniteSets, SequencesExt

CONSTANTS
    Conn,           \* connections, one socket address each
    Dialed,         \* those made by the boot dials; the others are accepted
    PeerOf,         \* connection -> the peer id of its Hello
    HeightOf,       \* connection -> the best height of its Hello
    Batch,          \* best heights of Blocks messages, 0 for an empty one
    MaxPeers,
    InboundCap, OutCap, EventCap,    \* channel capacities
    MaxFrames,      \* bound: connection -> messages read from it
    MaxBroadcasts,  \* bound: broadcasts of the owner
    None

ASSUME ConnAssumption ==
    /\ HeightOf \in [Conn -> Nat]
    /\ Batch \subseteq Nat
    /\ MaxPeers \in Nat

VARIABLES
    phase,          \* connection -> where its task is
    active,         \* GossipTransport::active_peers
    hand,           \* connection -> the item waiting for the inbound channel, or None
    frames,         \* connection -> messages read, for MaxFrames
    out,            \* connection -> messages in its outbound channel
    inbound,        \* the inbound channel
    peers,          \* PeerManager: peer id -> connection
    senders,        \* peer_senders: peer id -> connection
    sync,           \* SyncEngine
    todo,           \* what the dispatch loop still has to send, in order
    events,         \* events in the event channel
    owner,          \* what the owner's broadcast still has to send
    broadcasts,     \* broadcasts made, for MaxBroadcasts
    admitted        \* history: connections the peer manager accepted

tasks == <<phase, active, hand, frames>>
table == <<peers, senders, sync, admitted>>
vars == <<tasks, out, inbound, table, todo, events, owner, broadcasts>>

Peer == {PeerOf[c] : c \in Conn}
EmptyMap == [p \in {} |-> None]
Connected(c) == [type |-> "PeerConnected", conn |-> c]
Disconnected(c) == [type |-> "PeerDisconnected", conn |-> c]
Message(c, k, h) == [type |-> "Message", conn |-> c, kind |-> k, height |-> h]

(* relayed: a block, transaction or consensus message not seen before;       *)
(* seen: one seen before; asks: GetBlocks or Ping; quiet: Pong, another      *)
(* Hello or an undecodable payload.                                          *)
Frame(c) ==
    {Message(c, k, 0) : k \in {"relayed", "seen", "asks", "quiet"}}
        \cup {Message(c, "blocks", h) : h \in Batch}
Item == UNION {Frame(c) \cup {Connected(c), Disconnected(c)} : c \in Conn}

ASSUME NoneIsNoItem == None \notin Item

Sync == [local : Nat, state : {"Idle", "Syncing", "Synced"}, target : Nat, current : Nat]

Init ==
    /\ phase = [c \in Conn |-> "new"]
    /\ active = {}
    /\ hand = [c \in Conn |-> None]
    /\ frames = [c \in Conn |-> 0]
    /\ out = [c \in Conn |-> 0]
    /\ inbound = <<>>
    /\ peers = EmptyMap
    /\ senders = EmptyMap
    /\ sync = [local |-> 0, state |-> "Idle", target |-> 0, current |-> 0]
    /\ todo = <<>>
    /\ events = 0
    /\ owner = <<>>
    /\ broadcasts = 0
    /\ admitted = {}

-----------------------------------------------------------------------------
(* Transport: the capacity is read first and the address added later, after *)
(* other tasks may have added theirs.                                       *)

HasCapacity == Cardinality(active) < MaxPeers

AcceptCapacity == HasCapacity

(* The accept loop is one task: it handles one incoming stream at a time. *)
AcceptChecks(c) ==
    /\ c \notin Dialed
    /\ phase[c] = "new"
    /\ \A d \in Conn \ Dialed : phase[d] # "checked"
    /\ phase' = [phase EXCEPT ![c] = IF AcceptCapacity THEN "checked" ELSE "gone"]
    /\ UNCHANGED <<active, hand, frames, out, inbound, table, todo, events, owner, broadcasts>>

(* A dial that finds no capacity is repeated, up to twenty times. *)
DialChecks(c) ==
    /\ c \in Dialed
    /\ phase[c] = "new"
    /\ \/ HasCapacity /\ phase' = [phase EXCEPT ![c] = "checked"]
       \/ phase' = [phase EXCEPT ![c] = "gone"]
    /\ UNCHANGED <<active, hand, frames, out, inbound, table, todo, events, owner, broadcasts>>

Established(c) ==
    /\ phase[c] = "checked"
    /\ phase' = [phase EXCEPT ![c] = "open"]
    /\ active' = active \cup {c}
    /\ UNCHANGED <<hand, frames, out, inbound, table, todo, events, owner, broadcasts>>

-----------------------------------------------------------------------------
(* spawn_connection_task *)

Free(c) == hand[c] = None

(* The first Hello, with the right chain id. *)
ReadHello(c) ==
    /\ phase[c] = "open"
    /\ phase' = [phase EXCEPT ![c] = "shaken"]
    /\ hand' = [hand EXCEPT ![c] = Connected(c)]
    /\ UNCHANGED <<active, frames, out, inbound, table, todo, events, owner, broadcasts>>

(* Any other frame after the handshake; before it they are dropped. *)
ReadFrame(c) ==
    /\ phase[c] = "shaken"
    /\ Free(c)
    /\ frames[c] < MaxFrames[c]
    /\ frames' = [frames EXCEPT ![c] = @ + 1]
    /\ \E f \in Frame(c) : hand' = [hand EXCEPT ![c] = f]
    /\ UNCHANGED <<phase, active, out, inbound, table, todo, events, owner, broadcasts>>

InboundRoom == Len(inbound) < InboundCap

(* The inbound channel takes the item; after PeerDisconnected the task ends, *)
(* and with it its outbound channel.                                         *)
Enqueue(c) ==
    /\ ~ Free(c)
    /\ InboundRoom
    /\ inbound' = Append(inbound, hand[c])
    /\ hand' = [hand EXCEPT ![c] = None]
    /\ IF phase[c] = "leaving"
         THEN phase' = [phase EXCEPT ![c] = "gone"] /\ out' = [out EXCEPT ![c] = 0]
         ELSE UNCHANGED <<phase, out>>
    /\ UNCHANGED <<active, frames, table, todo, events, owner, broadcasts>>

CanWrite(c) == phase[c] \in {"open", "shaken"} /\ Free(c)

WriteOut(c) ==
    /\ CanWrite(c)
    /\ out[c] > 0
    /\ out' = [out EXCEPT ![c] = @ - 1]
    /\ UNCHANGED <<tasks, inbound, table, todo, events, owner, broadcasts>>

LeaveQuietly(c) == "gone"    \* mutant: the end of a connection is not reported

PhaseAfterBreak(c) == IF phase[c] = "shaken" THEN "leaving" ELSE "gone"

(* The peer closes, the stream fails, a frame does not decode, or a Hello is *)
(* of another chain.                                                         *)
Break(c) ==
    /\ phase[c] \in {"open", "shaken"}
    /\ Free(c)
    /\ active' = active \ {c}
    /\ phase' = [phase EXCEPT ![c] = PhaseAfterBreak(c)]
    /\ hand' = IF PhaseAfterBreak(c) = "leaving" THEN [hand EXCEPT ![c] = Disconnected(c)] ELSE hand
    /\ out' = IF PhaseAfterBreak(c) = "gone" THEN [out EXCEPT ![c] = 0] ELSE out
    /\ UNCHANGED <<frames, inbound, table, todo, events, owner, broadcasts>>

-----------------------------------------------------------------------------
(* SyncEngine *)

NeedsSync(s, best) == best > s.local

StartSync(s, target) ==
    IF target <= s.local THEN [s EXCEPT !.state = "Synced"]
    ELSE [s EXCEPT !.state = "Syncing", !.target = target, !.current = s.local]

WantsBlocks(s) == s.state = "Syncing" /\ s.current < s.target    \* next_request

RestartIdle(s, best) ==    \* mutant: a running sync keeps its target
    IF NeedsSync(s, best) /\ s.state # "Syncing" THEN StartSync(s, best) ELSE s

(* The sync half of the PeerConnected arm. *)
Restart(s, best) ==
    IF NeedsSync(s, best) /\ (s.state = "Syncing" => best > s.target) THEN StartSync(s, best) ELSE s

OnBlocksReceivedLast(s, best) ==    \* mutant: the last batch decides the height
    IF best = 0 THEN s
    ELSE IF s.state = "Syncing"
      THEN [s EXCEPT !.local = best, !.current = best,
                     !.state = IF best >= s.target THEN "Synced" ELSE @]
      ELSE [s EXCEPT !.local = best]

OnBlocksReceived(s, best) ==
    LET local == IF best > s.local THEN best ELSE s.local IN
    IF best = 0 THEN s
    ELSE IF s.state = "Syncing"
      THEN [s EXCEPT !.local = local, !.current = local,
                     !.state = IF local >= s.target THEN "Synced" ELSE @]
      ELSE [s EXCEPT !.local = local]

-----------------------------------------------------------------------------
(* spawn_dispatch_loop *)

Drop(f, p) == [q \in DOMAIN f \ {p} |-> f[q]]
Put(f, p, c) == [q \in DOMAIN f \cup {p} |-> IF q = p THEN c ELSE f[q]]

AddOver(p) == Cardinality(DOMAIN peers) <= MaxPeers \/ p \in DOMAIN peers    \* mutant

AddPeer(p) == Cardinality(DOMAIN peers) < MaxPeers \/ p \in DOMAIN peers

OnConnected(c) ==
    IF AddPeer(PeerOf[c])
      THEN LET s == Restart(sync, HeightOf[c]) IN
           /\ peers' = Put(peers, PeerOf[c], c)
           /\ senders' = Put(senders, PeerOf[c], c)
           /\ sync' = s
           /\ admitted' = admitted \cup {c}
           /\ todo' = IF NeedsSync(sync, HeightOf[c]) /\ WantsBlocks(s)
                        THEN <<"event", c>> ELSE <<"event">>
      ELSE UNCHANGED <<table, todo>>

KeepSender(c) == senders    \* mutant: the sender stays

Forget(c) == Drop(senders, PeerOf[c])

(* By peer id: also when the peer has another connection by now. *)
OnDisconnected(c) ==
    /\ peers' = Drop(peers, PeerOf[c])
    /\ senders' = Forget(c)
    /\ todo' = <<"event">>
    /\ UNCHANGED <<sync, admitted>>

(* broadcast_wire: every sender but that of one peer, in any order. *)
Targets(except) == SetToSeqs({senders[p] : p \in DOMAIN senders \ except})

OnMessage(c, kind, height) ==
    \/ /\ kind = "relayed"
       /\ \E s \in Targets({PeerOf[c]}) : todo' = s \o <<"event">>
       /\ UNCHANGED table
    \/ /\ kind = "seen"
       /\ todo' = <<"event">>
       /\ UNCHANGED table
    \/ /\ kind = "asks"
       /\ todo' = IF PeerOf[c] \in DOMAIN senders THEN <<senders[PeerOf[c]]>> ELSE <<>>
       /\ UNCHANGED table
    \/ /\ kind = "quiet"
       /\ UNCHANGED <<table, todo>>
    \/ /\ kind = "blocks"
       /\ sync' = OnBlocksReceived(sync, height)
       /\ todo' = IF sync.state # "Synced" /\ sync'.state = "Synced" THEN <<"event">> ELSE <<>>
       /\ UNCHANGED <<peers, senders, admitted>>

Dispatch ==
    LET item == Head(inbound) IN
    /\ todo = <<>>
    /\ inbound # <<>>
    /\ inbound' = Tail(inbound)
    /\ \/ item.type = "PeerConnected" /\ OnConnected(item.conn)
       \/ item.type = "PeerDisconnected" /\ OnDisconnected(item.conn)
       \/ item.type = "Message" /\ OnMessage(item.conn, item.kind, item.height)
    /\ UNCHANGED <<tasks, out, events, owner, broadcasts>>

SendWaits(c) == phase[c] # "gone" /\ out[c] < OutCap    \* mutant: ended tasks are waited for

(* One send on an outbound channel; on the channel of a task that ended it *)
(* fails at once.                                                          *)
CanSend(c) == phase[c] = "gone" \/ out[c] < OutCap
Sent(c) == IF phase[c] = "gone" THEN out ELSE [out EXCEPT ![c] = @ + 1]

DispatchSends ==
    /\ todo # <<>>
    /\ todo' = Tail(todo)
    /\ \/ /\ Head(todo) = "event"
          /\ events < EventCap
          /\ events' = events + 1
          /\ UNCHANGED out
       \/ /\ Head(todo) # "event"
          /\ CanSend(Head(todo))
          /\ out' = Sent(Head(todo))
          /\ UNCHANGED events
    /\ UNCHANGED <<tasks, inbound, table, owner, broadcasts>>

(* The owner takes events and broadcasts; a broadcast is awaited before the *)
(* next event is taken.                                                     *)
Consume ==
    /\ owner = <<>>
    /\ events > 0
    /\ events' = events - 1
    /\ UNCHANGED <<tasks, out, inbound, table, todo, owner, broadcasts>>

OwnerBroadcasts ==
    /\ owner = <<>>
    /\ broadcasts < MaxBroadcasts
    /\ broadcasts' = broadcasts + 1
    /\ owner' \in Targets({})
    /\ UNCHANGED <<tasks, out, inbound, table, todo, events>>

OwnerSends ==
    /\ owner # <<>>
    /\ CanSend(Head(owner))
    /\ out' = Sent(Head(owner))
    /\ owner' = Tail(owner)
    /\ UNCHANGED <<tasks, inbound, table, todo, events, broadcasts>>

-----------------------------------------------------------------------------
Task(c) == Established(c) \/ Enqueue(c) \/ WriteOut(c)
Peering(c) == AcceptChecks(c) \/ DialChecks(c) \/ ReadHello(c) \/ ReadFrame(c) \/ Break(c)
Loop == Dispatch \/ DispatchSends
Owner == Consume \/ OwnerSends

Next ==
    \/ \E c \in Conn : Task(c) \/ Peering(c)
    \/ Loop
    \/ Owner
    \/ OwnerBroadcasts

(* The runtime schedules every task that can run, and a peer that keeps its *)
(* connection open reads what is written to it; peers owe nothing else.     *)
Fairness ==
    /\ \A c \in Conn : WF_vars(Task(c))
    /\ WF_vars(Loop)
    /\ WF_vars(Owner)

Spec == Init /\ [][Next]_vars /\ Fairness

-----------------------------------------------------------------------------
(* The table of peers never outgrows max_peers and names the connections   *)
(* that the senders use, although both are only updated by peer id.        *)
TableExact == peers = senders /\ Cardinality(DOMAIN peers) <= MaxPeers

(* The end of c is on its way to the dispatch loop. *)
Reported(c) == hand[c] = Disconnected(c) \/ \E i \in DOMAIN inbound : inbound[i] = Disconnected(c)

(* No ghost peers: a connection in the table has a running task, or the     *)
(* item that takes its peer out is on its way.                              *)
NoGhostPeers ==
    \A p \in DOMAIN senders : phase[senders[p]] = "shaken" \/ Reported(senders[p])

(* The height announced by every admitted connection has been reached or is *)
(* within the target of the running sync, whatever came in between.         *)
SyncCovers ==
    /\ sync.state = "Syncing" => sync.current = sync.local /\ sync.local < sync.target
    /\ \A c \in admitted :
          HeightOf[c] <= sync.local \/ (sync.state = "Syncing" /\ HeightOf[c] <= sync.target)

(* The local height never falls, and a sync that has reached its target is  *)
(* resumed only for a higher one.                                           *)
SyncAdvances ==
    [][/\ sync'.local >= sync.local
       /\ sync'.state = "Syncing" /\ sync.state = "Syncing" => sync'.target >= sync.target
       /\ sync.state # "Idle" => sync'.state # "Idle"]_vars

(* Whatever reaches the inbound channel is dispatched: the channel empties  *)
(* again and again, and so does the list of sends that are owed.            *)
Drains == []<>(inbound = <<>> /\ todo = <<>> /\ owner = <<>>)

(* A peer whose connections have all ended leaves the table. *)
Forgotten ==
    \A p \in Peer :
        (\A c \in Conn : PeerOf[c] = p => phase[c] = "gone") ~> p \notin DOMAIN senders
===============================================================================
