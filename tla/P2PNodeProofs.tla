---------------------------- MODULE P2PNodeProofs ----------------------------
(***************************************************************************)
(* The peer table and the block sync of a P2pNode, for any connections,    *)
(* peers, channel sizes and frames.  That the table has no ghosts needs    *)
(* the order of the inbound channel: what a task reports last is its end,  *)
(* so that a PeerConnected still under way is followed by it unless the    *)
(* task runs.                                                              *)
(***************************************************************************)
EXTENDS P2PNode, FiniteSetTheorems, TLAPS

(* The items of one connection. *)
ItemOf(c) == Frame(c) \cup {Connected(c), Disconnected(c)}

(* A PeerConnected at place i is followed by the end of its task, if it ended. *)
Followed(c, i, s) == \E j \in DOMAIN s : j > i /\ s[j] = Disconnected(c)

Phase == {"new", "checked", "open", "shaken", "leaving", "gone"}

TaskInv ==
    /\ phase \in [Conn -> Phase]
    /\ hand \in [Conn -> Item \cup {None}]
    /\ \A c \in Conn : hand[c] \in ItemOf(c) \cup {None}
    /\ inbound \in Seq(Item)
    /\ \A c \in Conn : Reported(c) => phase[c] \in {"leaving", "gone"}
    /\ \A c \in Conn : phase[c] = "leaving" => hand[c] = Disconnected(c)
    /\ \A c \in Conn : phase[c] \in {"new", "checked", "open"} => hand[c] = None
    /\ \A c \in Conn : hand[c] = Connected(c) => phase[c] = "shaken"
    /\ \A c \in Conn : \A i \in DOMAIN inbound : inbound[i] = Connected(c) =>
          phase[c] = "shaken" \/ hand[c] = Disconnected(c) \/ Followed(c, i, inbound)

TableInv ==
    /\ peers = senders
    /\ IsFiniteSet(DOMAIN senders) /\ Cardinality(DOMAIN senders) <= MaxPeers
    /\ \A p \in DOMAIN senders : senders[p] \in Conn /\ PeerOf[senders[p]] = p

SyncInv == sync \in Sync /\ admitted \subseteq Conn /\ SyncCovers

-----------------------------------------------------------------------------
(* The block sync. *)

(* The sync engine covers the heights up to h. *)
Covers(s, h) == h <= s.local \/ (s.state = "Syncing" /\ h <= s.target)
Running(s) == s.state = "Syncing" => s.current = s.local /\ s.local < s.target

(* A peer that connects leaves the engine running towards its height and    *)
(* loses none that was covered.                                             *)
LEMMA RestartCovers ==
  ASSUME NEW s \in Sync, Running(s), NEW best \in Nat
  PROVE  /\ Restart(s, best) \in Sync /\ Running(Restart(s, best))
         /\ Covers(Restart(s, best), best)
         /\ \A h \in Nat : Covers(s, h) => Covers(Restart(s, best), h)
<1> DEFINE r == Restart(s, best)
<1>1. /\ s.local \in Nat /\ s.target \in Nat /\ s.current \in Nat
      /\ s.state \in {"Idle", "Syncing", "Synced"}
  BY DEF Sync
<1>2. CASE best > s.local /\ (s.state = "Syncing" => best > s.target)
  <2>1. r = [s EXCEPT !.state = "Syncing", !.target = best, !.current = s.local]
    BY <1>1, <1>2 DEF Restart, StartSync, NeedsSync
  <2>2. /\ r.local = s.local /\ r.state = "Syncing" /\ r.target = best /\ r.current = s.local
        /\ r \in Sync
    BY Zenon, <1>1, <2>1 DEF Sync
  <2> HIDE DEF r
  <2>3. Running(r) /\ Covers(r, best)
    BY <1>2, <2>2 DEF Running, Covers
  <2>4. \A h \in Nat : Covers(s, h) => Covers(r, h)
    BY <1>1, <1>2, <2>2 DEF Running, Covers
  <2> QED BY <2>2, <2>3, <2>4 DEF r
<1>3. CASE ~ (best > s.local /\ (s.state = "Syncing" => best > s.target))
  <2>1. r = s
    BY <1>3 DEF Restart, NeedsSync
  <2>2. Covers(s, best)
    BY <1>1, <1>3 DEF Covers
  <2> QED BY <2>1, <2>2
<1> QED BY <1>2, <1>3

(* A batch of blocks loses no height that was covered. *)
LEMMA BlocksCover ==
  ASSUME NEW s \in Sync, Running(s), NEW best \in Nat
  PROVE  /\ OnBlocksReceived(s, best) \in Sync /\ Running(OnBlocksReceived(s, best))
         /\ \A h \in Nat : Covers(s, h) => Covers(OnBlocksReceived(s, best), h)
<1> DEFINE r == OnBlocksReceived(s, best)
           local == IF best > s.local THEN best ELSE s.local
<1>1. /\ s.local \in Nat /\ s.target \in Nat /\ s.current \in Nat
      /\ s.state \in {"Idle", "Syncing", "Synced"}
  BY DEF Sync
<1>2. local \in Nat /\ local >= s.local
  BY <1>1
<1> HIDE DEF local
<1>3. CASE best = 0
  BY <1>3 DEF OnBlocksReceived
<1>4. CASE best # 0 /\ s.state = "Syncing"
  <2>1. r = [s EXCEPT !.local = local, !.current = local,
                      !.state = IF local >= s.target THEN "Synced" ELSE s.state]
    BY <1>4 DEF OnBlocksReceived, local
  <2>2. /\ r.local = local /\ r.current = local /\ r.target = s.target
        /\ r.state = IF local >= s.target THEN "Synced" ELSE "Syncing"
        /\ r \in Sync
    BY Zenon, <1>1, <1>2, <1>4, <2>1 DEF Sync
  <2> HIDE DEF r
  <2>3. Running(r)
    BY <1>1, <1>2, <2>2 DEF Running
  <2>4. \A h \in Nat : Covers(s, h) => Covers(r, h)
    BY <1>1, <1>2, <1>4, <2>2 DEF Covers
  <2> QED BY <2>2, <2>3, <2>4 DEF r
<1>5. CASE best # 0 /\ s.state # "Syncing"
  <2>1. r = [s EXCEPT !.local = local]
    BY <1>5 DEF OnBlocksReceived, local
  <2>2. r.local = local /\ r.current = s.current /\ r.target = s.target /\ r.state = s.state /\ r \in Sync
    BY <1>1, <1>2, <2>1 DEF Sync
  <2> HIDE DEF r
  <2>3. Running(r) /\ \A h \in Nat : Covers(s, h) => Covers(r, h)
    BY <1>1, <1>2, <1>5, <2>2 DEF Running, Covers
  <2> QED BY <2>2, <2>3 DEF r
<1> QED BY <1>3, <1>4, <1>5

-----------------------------------------------------------------------------
(* Items. *)

(* Items of different kinds or connections differ. *)
LEMMA ItemsDiffer ==
  /\ \A c, d : Connected(c) = Connected(d) => c = d
  /\ \A c, d : Disconnected(c) = Disconnected(d) => c = d
  /\ \A c, d : Connected(c) # Disconnected(d)
  /\ \A c, d, k, h : Message(c, k, h) # Connected(d) /\ Message(c, k, h) # Disconnected(d)
  /\ \A c, d : ItemOf(c) # {} /\ (Disconnected(d) \in ItemOf(c) => c = d)
  /\ \A c \in Conn : ItemOf(c) \subseteq Item /\ None \notin ItemOf(c)
<1>1. \A c, d : Connected(c) = Connected(d) => c = d
  BY DEF Connected
<1>2. \A c, d : Disconnected(c) = Disconnected(d) => c = d
  BY DEF Disconnected
<1>3. \A c, d : Connected(c) # Disconnected(d)
  BY DEF Connected, Disconnected
<1>4. \A c, d, k, h : Message(c, k, h) # Connected(d) /\ Message(c, k, h) # Disconnected(d)
  BY DEF Connected, Disconnected, Message
<1>5. \A c, d : ItemOf(c) # {} /\ (Disconnected(d) \in ItemOf(c) => c = d)
  BY <1>2, <1>3, <1>4 DEF ItemOf, Frame
<1>6. \A c \in Conn : ItemOf(c) \subseteq Item
  BY DEF ItemOf, Item
<1> QED BY <1>1, <1>2, <1>3, <1>4, <1>5, <1>6, NoneIsNoItem

(* An item says what it is. *)
LEMMA ItemKinds ==
  ASSUME NEW x \in Item
  PROVE  \/ \E c \in Conn : x = Connected(c) /\ x.type = "PeerConnected" /\ x.conn = c
         \/ \E c \in Conn : x = Disconnected(c) /\ x.type = "PeerDisconnected" /\ x.conn = c
         \/ /\ x.type = "Message" /\ x.conn \in Conn
            /\ x.kind = "blocks" => x.height \in Nat
            /\ \A c : x # Connected(c) /\ x # Disconnected(c)
<1>1. PICK c \in Conn : x \in Frame(c) \cup {Connected(c), Disconnected(c)}
  BY DEF Item
<1>2. CASE x = Connected(c)
  BY <1>2 DEF Connected
<1>3. CASE x = Disconnected(c)
  BY <1>3 DEF Disconnected
<1>4. CASE x \in Frame(c)
  <2>1. PICK k, h : x = Message(c, k, h) /\ (k = "blocks" => h \in Batch)
    BY <1>4 DEF Frame
  <2>2. x.type = "Message" /\ x.conn = c /\ x.kind = k /\ x.height = h
    BY <2>1 DEF Message
  <2> QED BY Zenon, <2>1, <2>2, ItemsDiffer, ConnAssumption
<1> QED BY <1>1, <1>2, <1>3, <1>4

-----------------------------------------------------------------------------
(* The connection tasks. *)

(* A step before the handshake touches one phase only, and no item. *)
LEMMA EarlyStep ==
  ASSUME TaskInv, NEW c \in Conn, phase[c] \in {"new", "checked"},
         NEW x \in {"checked", "open", "gone"}, phase' = [phase EXCEPT ![c] = x],
         UNCHANGED <<hand, inbound>>
  PROVE  TaskInv' /\ \A d \in Conn : phase[d] = "shaken" \/ Reported(d) =>
                                        phase'[d] = "shaken" \/ Reported(d)'
<1>1. /\ phase' \in [Conn -> Phase] /\ phase'[c] = x
      /\ \A d \in Conn : d # c => phase'[d] = phase[d]
  BY DEF TaskInv, Phase
<1>2. hand[c] = None /\ ~ Reported(c) /\ None \notin ItemOf(c)
  BY ItemsDiffer DEF TaskInv
<1>3. \A d \in Conn : Reported(d)' <=> Reported(d)
  BY DEF Reported
<1>4. \A i \in DOMAIN inbound : inbound[i] # Connected(c)
  <2> SUFFICES ASSUME NEW i \in DOMAIN inbound, inbound[i] = Connected(c) PROVE FALSE
    OBVIOUS
  <2>1. phase[c] = "shaken" \/ hand[c] = Disconnected(c) \/ Followed(c, i, inbound)
    BY DEF TaskInv
  <2> QED BY <1>2, <2>1 DEF Followed, Reported
<1>5. hand[c] # Disconnected(c) /\ hand[c] # Connected(c)
  BY <1>2, ItemsDiffer DEF ItemOf
<1> QED BY <1>1, <1>2, <1>3, <1>4, <1>5 DEF TaskInv, Phase

(* Reading the first Hello. *)
LEMMA HelloStep ==
  ASSUME TaskInv, NEW c \in Conn, ReadHello(c)
  PROVE  TaskInv' /\ \A d \in Conn : phase[d] = "shaken" \/ Reported(d) =>
                                        phase'[d] = "shaken" \/ Reported(d)'
<1>1. /\ phase[c] = "open" /\ phase' = [phase EXCEPT ![c] = "shaken"]
      /\ hand' = [hand EXCEPT ![c] = Connected(c)] /\ inbound' = inbound
  BY DEF ReadHello
<1>2. /\ phase' \in [Conn -> Phase] /\ phase'[c] = "shaken" /\ hand'[c] = Connected(c)
      /\ \A d \in Conn : d # c => phase'[d] = phase[d] /\ hand'[d] = hand[d]
  BY <1>1 DEF TaskInv, Phase
<1>3. Connected(c) \in ItemOf(c) /\ ItemOf(c) \subseteq Item
  BY ItemsDiffer DEF ItemOf
<1>4. hand' \in [Conn -> Item \cup {None}]
  BY <1>1, <1>3 DEF TaskInv
<1>5. ~ Reported(c) /\ ~ Reported(c)'
  <2>1. ~ Reported(c)
    BY <1>1 DEF TaskInv
  <2> QED BY <1>1, <1>2, <2>1, ItemsDiffer DEF Reported
<1>6. \A d \in Conn : d # c => (Reported(d)' <=> Reported(d))
  BY <1>1, <1>2 DEF Reported
<1> QED BY <1>1, <1>2, <1>3, <1>4, <1>5, <1>6 DEF TaskInv

(* Reading another frame. *)
LEMMA FrameStep ==
  ASSUME TaskInv, NEW c \in Conn, ReadFrame(c)
  PROVE  TaskInv' /\ \A d \in Conn : phase[d] = "shaken" \/ Reported(d) =>
                                        phase'[d] = "shaken" \/ Reported(d)'
<1>1. /\ phase[c] = "shaken" /\ phase' = phase /\ hand[c] = None /\ inbound' = inbound
  BY DEF ReadFrame, Free
<1>2. PICK f \in Frame(c) : hand' = [hand EXCEPT ![c] = f]
  BY Zenon DEF ReadFrame
<1>3. f # Connected(c) /\ f # Disconnected(c) /\ f \in ItemOf(c) /\ f \in Item
  <2>1. PICK k, h : f = Message(c, k, h)
    BY DEF Frame
  <2>2. f \in ItemOf(c) /\ ItemOf(c) \subseteq Item
    BY ItemsDiffer DEF ItemOf
  <2> QED BY <2>1, <2>2, ItemsDiffer
<1>4. /\ hand' \in [Conn -> Item \cup {None}] /\ hand'[c] = f
      /\ \A d \in Conn : d # c => hand'[d] = hand[d]
  BY <1>2, <1>3 DEF TaskInv
<1>5. ~ Reported(c) /\ ~ Reported(c)'
  <2>1. ~ Reported(c)
    BY <1>1 DEF TaskInv
  <2> QED BY <1>1, <1>3, <1>4, <2>1 DEF Reported
<1>6. \A d \in Conn : d # c => (Reported(d)' <=> Reported(d))
  BY <1>1, <1>4 DEF Reported
<1> QED BY <1>1, <1>3, <1>4, <1>5, <1>6 DEF TaskInv

(* The end of a task, or of a stream before the handshake. *)
LEMMA BreakStep ==
  ASSUME TaskInv, NEW c \in Conn, Break(c)
  PROVE  TaskInv' /\ \A d \in Conn : phase[d] = "shaken" \/ Reported(d) =>
                                        phase'[d] = "shaken" \/ Reported(d)'
<1>1. /\ phase[c] \in {"open", "shaken"} /\ hand[c] = None /\ inbound' = inbound
      /\ phase' = [phase EXCEPT ![c] = PhaseAfterBreak(c)]
  BY DEF Break, Free
<1>2. ~ Reported(c)
  BY <1>1 DEF TaskInv
<1>3. CASE phase[c] = "shaken"
  <2>1. phase' = [phase EXCEPT ![c] = "leaving"] /\ hand' = [hand EXCEPT ![c] = Disconnected(c)]
    BY <1>1, <1>3 DEF Break, PhaseAfterBreak
  <2>2. Disconnected(c) \in ItemOf(c) /\ Disconnected(c) \in Item
    BY ItemsDiffer DEF ItemOf
  <2>3. /\ phase' \in [Conn -> Phase] /\ phase'[c] = "leaving" /\ hand'[c] = Disconnected(c)
        /\ hand' \in [Conn -> Item \cup {None}]
        /\ \A d \in Conn : d # c => phase'[d] = phase[d] /\ hand'[d] = hand[d]
    BY <2>1, <2>2 DEF TaskInv, Phase
  <2>4. Reported(c)' /\ \A d \in Conn : d # c => (Reported(d)' <=> Reported(d))
    BY <1>1, <2>3 DEF Reported
  <2> QED BY <1>1, <2>2, <2>3, <2>4, ItemsDiffer DEF TaskInv
<1>4. CASE phase[c] = "open"
  <2>1. phase' = [phase EXCEPT ![c] = "gone"] /\ hand' = hand
    BY <1>1, <1>4 DEF Break, PhaseAfterBreak
  <2>2. /\ phase' \in [Conn -> Phase] /\ phase'[c] = "gone"
        /\ \A d \in Conn : d # c => phase'[d] = phase[d]
    BY <2>1 DEF TaskInv, Phase
  <2>3. \A d \in Conn : Reported(d)' <=> Reported(d)
    BY <1>1, <2>1 DEF Reported
  <2>4. \A i \in DOMAIN inbound : inbound[i] # Connected(c)
    <3> SUFFICES ASSUME NEW i \in DOMAIN inbound, inbound[i] = Connected(c) PROVE FALSE
      OBVIOUS
    <3>1. phase[c] = "shaken" \/ hand[c] = Disconnected(c) \/ Followed(c, i, inbound)
      BY DEF TaskInv
    <3> QED BY <1>2, <1>4, <3>1 DEF Followed, Reported
  <2>5. hand[c] # Connected(c)
    BY <1>4 DEF TaskInv
  <2> QED BY <1>1, <1>2, <1>4, <2>1, <2>2, <2>3, <2>4, <2>5 DEF TaskInv
<1> QED BY <1>1, <1>3, <1>4

(* An item enters the inbound channel behind everything its task reported. *)
LEMMA EnqueueStep ==
  ASSUME TaskInv, NEW c \in Conn, Enqueue(c)
  PROVE  TaskInv' /\ \A d \in Conn : phase[d] = "shaken" \/ Reported(d) =>
                                        phase'[d] = "shaken" \/ Reported(d)'
<1> DEFINE L == Len(inbound)  x == hand[c]  t == Append(inbound, x)
<1>1. /\ x # None /\ x \in ItemOf(c) /\ x \in Item /\ inbound \in Seq(Item)
  <2>1. x # None
    BY DEF Enqueue, Free
  <2> QED BY <2>1, ItemsDiffer DEF TaskInv
<1>2. inbound' = t /\ hand' = [hand EXCEPT ![c] = None]
  BY DEF Enqueue
<1>3. /\ t \in Seq(Item) /\ DOMAIN inbound = 1 .. L /\ DOMAIN t = 1 .. (L + 1) /\ L \in Nat
      /\ t[L + 1] = x /\ \A i \in 1 .. L : t[i] = inbound[i]
  BY <1>1
<1>4. /\ hand' \in [Conn -> Item \cup {None}] /\ hand'[c] = None
      /\ \A d \in Conn : d # c => hand'[d] = hand[d]
  BY <1>2 DEF TaskInv
<1>5. /\ phase' \in [Conn -> Phase]
      /\ \A d \in Conn : d # c => phase'[d] = phase[d]
      /\ phase'[c] = IF phase[c] = "leaving" THEN "gone" ELSE phase[c]
  BY DEF Enqueue, TaskInv, Phase
<1>6. None # Disconnected(c) /\ None # Connected(c)
  BY ItemsDiffer DEF ItemOf
<1> HIDE DEF L, t
<1>7. \A d \in Conn : (\E i \in DOMAIN t : t[i] = Disconnected(d)) <=>
                        (x = Disconnected(d) \/ \E i \in DOMAIN inbound : inbound[i] = Disconnected(d))
  <2>1. \A i \in DOMAIN t : i \in DOMAIN inbound \/ i = L + 1
    BY <1>3
  <2>2. L + 1 \in DOMAIN t /\ \A i \in DOMAIN inbound : i \in DOMAIN t
    BY <1>3
  <2> QED BY <1>3, <2>1, <2>2
<1>8. \A d \in Conn : x = Disconnected(d) => d = c
  BY <1>1, ItemsDiffer
<1>9. \A d \in Conn : Reported(d)' <=> Reported(d)
  BY <1>2, <1>4, <1>6, <1>7, <1>8 DEF Reported
<1>10. phase[c] \notin {"new", "checked", "open"}
  BY <1>1 DEF TaskInv
<1>11. ASSUME NEW d \in Conn, NEW i \in DOMAIN t, t[i] = Connected(d)
       PROVE  phase'[d] = "shaken" \/ hand'[d] = Disconnected(d) \/ Followed(d, i, t)
  <2>1. CASE i \in DOMAIN inbound
    <3>1. phase[d] = "shaken" \/ hand[d] = Disconnected(d) \/ Followed(d, i, inbound)
      BY <1>3, <1>11, <2>1 DEF TaskInv
    <3>2. CASE phase[d] = "shaken"
      BY <1>5, <3>2
    <3>3. CASE hand[d] = Disconnected(d)
      <4>1. CASE d = c
        <5>1. L + 1 \in DOMAIN t /\ L + 1 > i /\ t[L + 1] = Disconnected(d)
          BY <1>3, <2>1, <3>3, <4>1
        <5> QED BY <5>1 DEF Followed
      <4>2. CASE d # c
        BY <1>4, <3>3, <4>2
      <4> QED BY <4>1, <4>2
    <3>4. CASE Followed(d, i, inbound)
      <4>1. PICK j \in DOMAIN inbound : j > i /\ inbound[j] = Disconnected(d)
        BY <3>4 DEF Followed
      <4>2. j \in DOMAIN t /\ t[j] = Disconnected(d)
        BY <1>3, <4>1
      <4> QED BY <4>1, <4>2 DEF Followed
    <3> QED BY <3>1, <3>2, <3>3, <3>4
  <2>2. CASE i = L + 1
    <3>1. x = Connected(d) /\ d = c
      <4>1. x = Connected(d)
        BY <1>3, <1>11, <2>2
      <4>2. Connected(d) \in ItemOf(c)
        BY <1>1, <4>1
      <4>3. \E k, h : Connected(d) = Message(c, k, h) \/ Connected(d) = Connected(c)
                        \/ Connected(d) = Disconnected(c)
        BY <4>2 DEF ItemOf, Frame
      <4> QED BY <4>1, <4>3, ItemsDiffer
    <3>2. phase[c] = "shaken"
      BY <3>1 DEF TaskInv
    <3> QED BY <1>5, <3>1, <3>2
  <2>3. i \in DOMAIN inbound \/ i = L + 1
    BY <1>3
  <2> QED BY <2>1, <2>2, <2>3
<1>12. \A d \in Conn : \A i \in DOMAIN inbound' : inbound'[i] = Connected(d) =>
           phase'[d] = "shaken" \/ hand'[d] = Disconnected(d) \/ Followed(d, i, inbound')
  BY <1>2, <1>11
<1>13. \A d \in Conn : Reported(d)' => phase'[d] \in {"leaving", "gone"}
  BY <1>5, <1>9 DEF TaskInv
<1>14. \A d \in Conn : phase'[d] = "leaving" => hand'[d] = Disconnected(d)
  BY <1>4, <1>5 DEF TaskInv
<1>15. \A d \in Conn : hand'[d] \in ItemOf(d) \cup {None}
  BY <1>4 DEF TaskInv
<1>16. \A d \in Conn : /\ phase'[d] \in {"new", "checked", "open"} => hand'[d] = None
                       /\ hand'[d] = Connected(d) => phase'[d] = "shaken"
  BY <1>4, <1>5, <1>6 DEF TaskInv
<1>17. \A d \in Conn : phase[d] = "shaken" => phase'[d] = "shaken"
  BY <1>5
<1>18. TaskInv'
  BY <1>2, <1>3, <1>4, <1>5, <1>12, <1>13, <1>14, <1>15, <1>16 DEF TaskInv
<1> QED BY <1>9, <1>17, <1>18

(* Taking an item off the inbound channel: the tasks are as before, the end *)
(* of a task is still under way unless it was the item, and a task whose    *)
(* PeerConnected was the item runs or has its end under way.                *)
LEMMA PopStep ==
  ASSUME TaskInv, inbound # <<>>, inbound' = Tail(inbound), UNCHANGED tasks
  PROVE  /\ TaskInv'
         /\ \A d \in Conn : Reported(d) /\ Head(inbound) # Disconnected(d) => Reported(d)'
         /\ \A d \in Conn : Head(inbound) = Connected(d) => phase'[d] = "shaken" \/ Reported(d)'
<1> DEFINE L == Len(inbound)  t == Tail(inbound)
<1>1. phase' = phase /\ hand' = hand
  BY DEF tasks
<1>2. inbound \in Seq(Item)
  BY DEF TaskInv
<1>3. /\ L \in Nat /\ L > 0 /\ DOMAIN inbound = 1 .. L /\ t \in Seq(Item) /\ DOMAIN t = 1 .. (L - 1)
      /\ Head(inbound) = inbound[1] /\ \A i \in 1 .. (L - 1) : t[i] = inbound[i + 1]
  BY <1>2
<1> HIDE DEF L, t
<1>4. \A i \in DOMAIN t : i + 1 \in DOMAIN inbound /\ i \in Nat /\ t[i] = inbound[i + 1]
  BY <1>3
<1>5. \A j \in DOMAIN inbound : j > 1 => j - 1 \in DOMAIN t /\ t[j - 1] = inbound[j]
  <2> SUFFICES ASSUME NEW j \in DOMAIN inbound, j > 1
               PROVE  j - 1 \in DOMAIN t /\ t[j - 1] = inbound[j]
    OBVIOUS
  <2>1. j - 1 \in 1 .. (L - 1) /\ (j - 1) + 1 = j
    BY <1>3
  <2> QED BY <1>3, <2>1
<1>6. \A d \in Conn : Reported(d)' => Reported(d)
  BY <1>1, <1>4 DEF Reported, t
<1>7. ASSUME NEW d \in Conn, Reported(d), Head(inbound) # Disconnected(d) PROVE Reported(d)'
  <2>1. CASE hand[d] = Disconnected(d)
    BY <1>1, <2>1 DEF Reported
  <2>2. CASE \E j \in DOMAIN inbound : inbound[j] = Disconnected(d)
    <3>1. PICK j \in DOMAIN inbound : inbound[j] = Disconnected(d)
      BY <2>2
    <3>2. j > 1
      BY <1>3, <1>7, <3>1
    <3>3. j - 1 \in DOMAIN t /\ t[j - 1] = Disconnected(d)
      BY <1>5, <3>1, <3>2
    <3> QED BY <3>3 DEF Reported, t
  <2> QED BY <1>7, <2>1, <2>2 DEF Reported
<1>8. ASSUME NEW d \in Conn, NEW i \in DOMAIN inbound, Followed(d, i, inbound)
      PROVE  \E j \in DOMAIN t : j + 1 > i /\ t[j] = Disconnected(d)
  <2>1. PICK j \in DOMAIN inbound : j > i /\ inbound[j] = Disconnected(d)
    BY <1>8 DEF Followed
  <2>2. j > 1 /\ (j - 1) + 1 > i
    BY <1>3, <2>1
  <2>3. j - 1 \in DOMAIN t /\ t[j - 1] = Disconnected(d)
    BY <1>5, <2>1, <2>2
  <2> QED BY <2>2, <2>3
<1>9. ASSUME NEW d \in Conn, Head(inbound) = Connected(d)
      PROVE  phase'[d] = "shaken" \/ Reported(d)'
  <2>1. 1 \in DOMAIN inbound /\ inbound[1] = Connected(d)
    BY <1>3, <1>9
  <2>2. phase[d] = "shaken" \/ hand[d] = Disconnected(d) \/ Followed(d, 1, inbound)
    BY <2>1 DEF TaskInv
  <2>3. CASE Followed(d, 1, inbound)
    <3>1. \E j \in DOMAIN t : t[j] = Disconnected(d)
      BY <1>8, <2>1, <2>3
    <3> QED BY <3>1 DEF Reported, t
  <2> QED BY <1>1, <2>2, <2>3 DEF Reported
<1>10. ASSUME NEW d \in Conn, NEW i \in DOMAIN t, t[i] = Connected(d)
       PROVE  phase'[d] = "shaken" \/ hand'[d] = Disconnected(d) \/ Followed(d, i, t)
  <2>1. i + 1 \in DOMAIN inbound /\ inbound[i + 1] = Connected(d) /\ i \in Nat
    BY <1>4, <1>10
  <2>2. phase[d] = "shaken" \/ hand[d] = Disconnected(d) \/ Followed(d, i + 1, inbound)
    BY <2>1 DEF TaskInv
  <2>3. CASE Followed(d, i + 1, inbound)
    <3>1. PICK j \in DOMAIN t : j + 1 > i + 1 /\ t[j] = Disconnected(d)
      BY <1>8, <2>1, <2>3
    <3>2. j > i
      BY <1>4, <2>1, <3>1
    <3> QED BY <3>1, <3>2 DEF Followed
  <2> QED BY <1>1, <2>2, <2>3
<1>11. TaskInv'
  <2>1. \A d \in Conn : \A i \in DOMAIN inbound' : inbound'[i] = Connected(d) =>
           phase'[d] = "shaken" \/ hand'[d] = Disconnected(d) \/ Followed(d, i, inbound')
    BY <1>10 DEF t
  <2>2. inbound' \in Seq(Item)
    BY <1>3 DEF t
  <2> QED BY <1>1, <1>6, <2>1, <2>2 DEF TaskInv
<1> QED BY <1>7, <1>9, <1>11

-----------------------------------------------------------------------------
(* The dispatch loop and the whole node. *)

Inv == TaskInv /\ TableInv /\ SyncInv /\ NoGhostPeers

(* The sync half of the invariant, height by height. *)
LEMMA SyncByHeight ==
  SyncInv <=> /\ sync \in Sync /\ admitted \subseteq Conn /\ Running(sync)
              /\ \A c \in admitted : Covers(sync, HeightOf[c])
BY DEF SyncInv, SyncCovers, Running, Covers

(* c runs, or its end is under way, in a state with phases f, hands g and   *)
(* inbound channel s.                                                       *)
Ends(c, g, s) == g[c] = Disconnected(c) \/ \E i \in DOMAIN s : s[i] = Disconnected(c)
Kept(c, f, g, s) == f[c] = "shaken" \/ Ends(c, g, s)

(* NoGhostPeers in both states of a step. *)
LEMMA NoGhostsByState ==
  /\ NoGhostPeers <=> \A p \in DOMAIN senders : Kept(senders[p], phase, hand, inbound)
  /\ NoGhostPeers' <=> \A p \in DOMAIN senders' : Kept(senders'[p], phase', hand', inbound')
  /\ \A c \in Conn : /\ Reported(c) <=> Ends(c, hand, inbound)
                     /\ Reported(c)' <=> Ends(c, hand', inbound')
BY DEF NoGhostPeers, Reported, Kept, Ends

(* A peer that connects. *)
LEMMA ConnectedStep ==
  ASSUME Inv, Dispatch, NEW c \in Conn, Head(inbound) = Connected(c), OnConnected(c)
  PROVE  Inv'
<1>1. inbound # <<>> /\ inbound' = Tail(inbound) /\ UNCHANGED tasks
  BY DEF Dispatch
<1>2. /\ TaskInv'
      /\ \A d \in Conn : Reported(d) /\ Head(inbound) # Disconnected(d) => Reported(d)'
      /\ phase'[c] = "shaken" \/ Reported(c)'
  BY <1>1, PopStep DEF Inv
<1>3. phase' = phase
  BY <1>1 DEF tasks
<1>4. /\ \A d \in Conn : Kept(d, phase, hand, inbound) => Kept(d, phase', hand', inbound')
      /\ Kept(c, phase', hand', inbound')
  BY <1>2, <1>3, ItemsDiffer, NoGhostsByState DEF Kept
<1>5. CASE ~ AddPeer(PeerOf[c])
  <2>1. UNCHANGED table
    BY <1>5 DEF OnConnected
  <2>2. TableInv' /\ SyncInv'
    BY <2>1 DEF table, Inv, TableInv, SyncInv, SyncCovers
  <2>3. NoGhostPeers'
    BY <1>4, <2>1, NoGhostsByState DEF table, Inv, TableInv
  <2> QED BY <1>2, <2>2, <2>3 DEF Inv
<1>6. CASE AddPeer(PeerOf[c])
  <2> DEFINE p == PeerOf[c]  D == DOMAIN senders
  <2>1. /\ peers' = Put(peers, p, c) /\ senders' = Put(senders, p, c)
        /\ sync' = Restart(sync, HeightOf[c]) /\ admitted' = admitted \cup {c}
    BY <1>6 DEF OnConnected
  <2>2. /\ DOMAIN senders' = D \cup {p} /\ senders'[p] = c
        /\ \A q \in D : q # p => senders'[q] = senders[q]
    BY <2>1 DEF Put
  <2>3. IsFiniteSet(D) /\ Cardinality(D) <= MaxPeers /\ peers = senders
    BY DEF Inv, TableInv
  <2>4. p \in D \/ Cardinality(D) < MaxPeers
    BY <1>6, <2>3 DEF AddPeer
  <2>5. IsFiniteSet(D \cup {p}) /\ Cardinality(D \cup {p}) <= MaxPeers
    <3>1. Cardinality(D) \in Nat /\ MaxPeers \in Nat
      BY <2>3, FS_CardinalityType, ConnAssumption
    <3>2. CASE p \in D
      <4>1. D \cup {p} = D
        BY <3>2
      <4> QED BY <2>3, <4>1
    <3>3. CASE p \notin D
      <4>1. IsFiniteSet(D \cup {p}) /\ Cardinality(D \cup {p}) = Cardinality(D) + 1
        BY <2>3, <3>3, FS_AddElement
      <4>2. Cardinality(D) < MaxPeers
        BY <2>4, <3>3
      <4> HIDE DEF D, p
      <4> QED BY <3>1, <4>1, <4>2
    <3> QED BY <3>2, <3>3
  <2>6. TableInv'
    <3>1. \A q \in DOMAIN senders' : senders'[q] \in Conn /\ PeerOf[senders'[q]] = q
      BY <2>2 DEF Inv, TableInv
    <3>2. peers' = senders'
      BY <2>1, <2>3
    <3> QED BY <2>2, <2>5, <3>1, <3>2 DEF TableInv
  <2>7. SyncInv'
    <3>1. sync \in Sync /\ admitted \subseteq Conn /\ Running(sync)
          /\ \A d \in admitted : Covers(sync, HeightOf[d])
      BY SyncByHeight DEF Inv
    <3>2. \A d \in Conn : HeightOf[d] \in Nat
      BY ConnAssumption
    <3>3. /\ sync' \in Sync /\ Running(sync') /\ Covers(sync', HeightOf[c])
          /\ \A h \in Nat : Covers(sync, h) => Covers(sync', h)
      BY <2>1, <3>1, <3>2, RestartCovers
    <3>4. admitted' \subseteq Conn /\ \A d \in admitted' : Covers(sync', HeightOf[d])
      BY <2>1, <3>1, <3>2, <3>3
    <3> QED BY <3>3, <3>4 DEF SyncInv, SyncCovers, Running, Covers
  <2>8. NoGhostPeers'
    <3>1. \A q \in D : senders[q] \in Conn /\ Kept(senders[q], phase, hand, inbound)
      BY NoGhostsByState DEF Inv, TableInv
    <3>2. \A q \in DOMAIN senders' : Kept(senders'[q], phase', hand', inbound')
      BY <1>4, <2>2, <3>1
    <3> QED BY <3>2, NoGhostsByState
  <2> QED BY <1>2, <2>6, <2>7, <2>8 DEF Inv
<1> QED BY <1>5, <1>6

(* A connection that ended: its peer leaves the table. *)
LEMMA DisconnectedStep ==
  ASSUME Inv, Dispatch, NEW c \in Conn, Head(inbound) = Disconnected(c), OnDisconnected(c)
  PROVE  Inv'
<1> DEFINE p == PeerOf[c]  D == DOMAIN senders
<1>1. inbound # <<>> /\ inbound' = Tail(inbound) /\ UNCHANGED tasks
  BY DEF Dispatch
<1>2. /\ TaskInv'
      /\ \A d \in Conn : Reported(d) /\ Head(inbound) # Disconnected(d) => Reported(d)'
  BY <1>1, PopStep DEF Inv
<1>3. phase' = phase
  BY <1>1 DEF tasks
<1>4. peers' = Drop(peers, p) /\ senders' = Drop(senders, p) /\ UNCHANGED <<sync, admitted>>
  BY DEF OnDisconnected, Forget
<1>5. DOMAIN senders' = D \ {p} /\ \A q \in D \ {p} : senders'[q] = senders[q]
  BY <1>4 DEF Drop
<1>6. SyncInv'
  BY <1>4 DEF Inv, SyncInv, SyncCovers
<1>7. IsFiniteSet(D \ {p}) /\ Cardinality(D \ {p}) <= MaxPeers
  <2>1. IsFiniteSet(D) /\ Cardinality(D) <= MaxPeers /\ MaxPeers \in Nat
    BY ConnAssumption DEF Inv, TableInv
  <2>2. IsFiniteSet(D \ {p}) /\ Cardinality(D \ {p}) <= Cardinality(D)
    BY <2>1, FS_Subset
  <2>3. Cardinality(D) \in Nat /\ Cardinality(D \ {p}) \in Nat
    BY <2>1, <2>2, FS_CardinalityType
  <2> QED BY <2>1, <2>2, <2>3
<1>8. TableInv'
  <2>1. peers' = senders'
    BY <1>4 DEF Inv, TableInv
  <2>2. \A q \in DOMAIN senders' : senders'[q] \in Conn /\ PeerOf[senders'[q]] = q
    BY <1>5 DEF Inv, TableInv
  <2> QED BY <1>5, <1>7, <2>1, <2>2 DEF TableInv
<1>9. NoGhostPeers'
  <2> SUFFICES ASSUME NEW q \in DOMAIN senders' PROVE Kept(senders'[q], phase', hand', inbound')
    BY NoGhostsByState
  <2> DEFINE d == senders[q]
  <2>1. q \in D /\ q # p /\ senders'[q] = d /\ d \in Conn /\ PeerOf[d] = q
    BY <1>5 DEF Inv, TableInv
  <2>2. Head(inbound) # Disconnected(d)
    BY <2>1, ItemsDiffer
  <2>3. Kept(d, phase, hand, inbound)
    BY <2>1, NoGhostsByState DEF Inv
  <2>4. Ends(d, hand, inbound) => Ends(d, hand', inbound')
    BY <1>2, <2>1, <2>2, NoGhostsByState
  <2> QED BY <1>3, <2>1, <2>3, <2>4 DEF Kept
<1> QED BY <1>2, <1>6, <1>8, <1>9 DEF Inv

(* A message: it may move the sync and nothing else of the table. *)
LEMMA MessageStep ==
  ASSUME Inv, Dispatch, \A c : Head(inbound) # Disconnected(c),
         NEW c \in Conn, NEW k, NEW h, k = "blocks" => h \in Nat, OnMessage(c, k, h)
  PROVE  Inv'
<1>1. inbound # <<>> /\ inbound' = Tail(inbound) /\ UNCHANGED tasks
  BY DEF Dispatch
<1>2. TaskInv' /\ \A d \in Conn : Reported(d) => Reported(d)'
  BY <1>1, PopStep DEF Inv
<1>3. phase' = phase
  BY <1>1 DEF tasks
<1>4. peers' = peers /\ senders' = senders /\ admitted' = admitted
  BY DEF OnMessage, table
<1>5. sync' = sync \/ (h \in Nat /\ sync' = OnBlocksReceived(sync, h))
  BY DEF OnMessage, table
<1>6. SyncInv'
  <2>1. sync \in Sync /\ admitted \subseteq Conn /\ Running(sync)
        /\ \A d \in admitted : Covers(sync, HeightOf[d])
    BY SyncByHeight DEF Inv
  <2>2. \A d \in Conn : HeightOf[d] \in Nat
    BY ConnAssumption
  <2>3. sync' \in Sync /\ Running(sync') /\ \A g \in Nat : Covers(sync, g) => Covers(sync', g)
    BY <1>5, <2>1, BlocksCover
  <2> QED BY <1>4, <2>1, <2>2, <2>3 DEF SyncInv, SyncCovers, Running, Covers
<1>7. TableInv'
  BY <1>4 DEF Inv, TableInv
<1>8. NoGhostPeers'
  <2>1. \A q \in DOMAIN senders : senders[q] \in Conn /\ Kept(senders[q], phase, hand, inbound)
    BY NoGhostsByState DEF Inv, TableInv
  <2>2. \A d \in Conn : Kept(d, phase, hand, inbound) => Kept(d, phase', hand', inbound')
    BY <1>2, <1>3, NoGhostsByState DEF Kept
  <2> QED BY <1>4, <2>1, <2>2, NoGhostsByState
<1> QED BY <1>2, <1>6, <1>7, <1>8 DEF Inv

(* Initially there are no items and no peers. *)
LEMMA InitInv == Init => Inv
<1> SUFFICES ASSUME Init PROVE Inv
  OBVIOUS
<1>1. inbound = <<>> /\ \A c \in Conn : hand[c] = None /\ phase[c] = "new"
  BY DEF Init
<1>2. \A c \in Conn : None # Connected(c) /\ None # Disconnected(c)
  BY ItemsDiffer DEF ItemOf
<1>3. \A c \in Conn : ~ Reported(c)
  BY <1>1, <1>2 DEF Reported
<1>4. TaskInv
  BY <1>1, <1>2, <1>3 DEF Init, TaskInv, Phase
<1>5. DOMAIN senders = {} /\ peers = senders
  BY DEF Init, EmptyMap
<1>6. TableInv
  BY <1>5, FS_EmptySet, ConnAssumption DEF TableInv
<1>7. SyncInv
  BY DEF Init, SyncInv, SyncCovers, Sync
<1>8. NoGhostPeers
  BY <1>5 DEF NoGhostPeers
<1> QED BY <1>4, <1>6, <1>7, <1>8 DEF Inv

(* A step that keeps the tasks in order and leaves the table alone. *)
LEMMA TableStep ==
  ASSUME Inv, UNCHANGED table, TaskInv',
         \A d \in Conn : phase[d] = "shaken" \/ Reported(d) => phase'[d] = "shaken" \/ Reported(d)'
  PROVE  Inv'
<1>1. TableInv' /\ SyncInv'
  BY DEF table, Inv, TableInv, SyncInv, SyncCovers
<1>2. \A d \in Conn : Kept(d, phase, hand, inbound) => Kept(d, phase', hand', inbound')
  BY NoGhostsByState DEF Kept
<1>3. NoGhostPeers'
  BY <1>2, NoGhostsByState DEF table, Inv, TableInv
<1> QED BY <1>1, <1>3 DEF Inv

(* A step of a connection task or of its peer. *)
LEMMA ConnectionStep ==
  ASSUME Inv, NEW c \in Conn, Task(c) \/ Peering(c)
  PROVE  Inv'
<1>1. UNCHANGED table
  BY DEF Task, Peering, AcceptChecks, DialChecks, Established, ReadHello, ReadFrame, Enqueue,
         WriteOut, Break
<1>2. TaskInv
  BY DEF Inv
<1>3. ASSUME AcceptChecks(c) \/ DialChecks(c) \/ Established(c) PROVE Inv'
  <2>1. /\ phase[c] \in {"new", "checked"} /\ UNCHANGED <<hand, inbound>>
        /\ \E x \in {"checked", "open", "gone"} : phase' = [phase EXCEPT ![c] = x]
    BY <1>3 DEF AcceptChecks, DialChecks, Established
  <2> QED BY Zenon, <1>1, <1>2, <2>1, EarlyStep, TableStep
<1>4. CASE ReadHello(c)
  BY <1>1, <1>2, <1>4, HelloStep, TableStep
<1>5. CASE ReadFrame(c)
  BY <1>1, <1>2, <1>5, FrameStep, TableStep
<1>6. CASE Enqueue(c)
  BY <1>1, <1>2, <1>6, EnqueueStep, TableStep
<1>7. CASE Break(c)
  BY <1>1, <1>2, <1>7, BreakStep, TableStep
<1>8. CASE WriteOut(c)
  <2>1. UNCHANGED <<phase, hand, inbound>>
    BY <1>8 DEF WriteOut, tasks
  <2>2. TaskInv' /\ \A d \in Conn : Reported(d)' <=> Reported(d)
    BY <1>2, <2>1 DEF TaskInv, Reported
  <2> QED BY <1>1, <2>1, <2>2, TableStep
<1> QED BY <1>3, <1>4, <1>5, <1>6, <1>7, <1>8 DEF Task, Peering

(* Every step preserves the invariant. *)
LEMMA NextInv == Inv /\ [Next]_vars => Inv'
<1> SUFFICES ASSUME Inv, [Next]_vars PROVE Inv'
  OBVIOUS
<1>1. ASSUME UNCHANGED <<tasks, inbound, table>> PROVE Inv'
  <2>1. UNCHANGED <<phase, hand, inbound>>
    BY <1>1 DEF tasks
  <2>2. TaskInv' /\ \A d \in Conn : Reported(d)' <=> Reported(d)
    BY <2>1 DEF Inv, TaskInv, Reported
  <2> QED BY <1>1, <2>1, <2>2, TableStep
<1>2. CASE Dispatch
  <2> DEFINE x == Head(inbound)
  <2>1. x \in Item
    <3>1. inbound \in Seq(Item) /\ inbound # <<>>
      BY <1>2 DEF Dispatch, Inv, TaskInv
    <3> QED BY <3>1
  <2>2. \/ x.type = "PeerConnected" /\ OnConnected(x.conn)
        \/ x.type = "PeerDisconnected" /\ OnDisconnected(x.conn)
        \/ x.type = "Message" /\ OnMessage(x.conn, x.kind, x.height)
    BY <1>2 DEF Dispatch
  <2>3. CASE \E c \in Conn : x = Connected(c) /\ x.type = "PeerConnected" /\ x.conn = c
    BY <1>2, <2>2, <2>3, ConnectedStep
  <2>4. CASE \E c \in Conn : x = Disconnected(c) /\ x.type = "PeerDisconnected" /\ x.conn = c
    BY <1>2, <2>2, <2>4, DisconnectedStep
  <2>5. CASE /\ x.type = "Message" /\ x.conn \in Conn
             /\ x.kind = "blocks" => x.height \in Nat
             /\ \A c : x # Connected(c) /\ x # Disconnected(c)
    <3>1. OnMessage(x.conn, x.kind, x.height)
      BY <2>2, <2>5
    <3> QED BY <1>2, <2>5, <3>1, MessageStep
  <2> QED BY <2>1, <2>3, <2>4, <2>5, ItemKinds
<1>3. CASE DispatchSends \/ Owner \/ OwnerBroadcasts
  BY <1>1, <1>3 DEF DispatchSends, Owner, Consume, OwnerSends, OwnerBroadcasts
<1>4. CASE \E c \in Conn : Task(c) \/ Peering(c)
  BY <1>4, ConnectionStep
<1>5. CASE UNCHANGED vars
  BY <1>1, <1>5 DEF vars
<1> QED BY <1>2, <1>3, <1>4, <1>5 DEF Next, Loop

(* The invariant holds in every reachable state. *)
LEMMA InvAlways == Spec => []Inv
BY InitInv, NextInv, PTL DEF Spec

(* The peer table and the senders agree and keep to max_peers, for any      *)
(* connections and any order of their items (add_peer, remove_peer and the  *)
(* dispatch loop).                                                          *)
THEOREM TableExactHolds == Spec => []TableExact
<1>1. Inv => TableExact
  BY DEF Inv, TableInv, TableExact
<1> QED BY <1>1, InvAlways, PTL

(* A sender in the table belongs to a running connection task, or the item  *)
(* that removes it is under way.                                            *)
THEOREM NoGhostPeersHold == Spec => []NoGhostPeers
<1>1. Inv => NoGhostPeers
  BY DEF Inv
<1> QED BY <1>1, InvAlways, PTL

(* The sync target covers every height an admitted peer announced, whatever *)
(* blocks come in.                                                          *)
THEOREM SyncCoversHolds == Spec => []SyncCovers
<1>1. Inv => SyncCovers
  BY DEF Inv, SyncInv
<1> QED BY <1>1, InvAlways, PTL

-----------------------------------------------------------------------------
(* The sync engine moves forward. *)

Advances(s, t) ==
    /\ t.local >= s.local
    /\ t.state = "Syncing" /\ s.state = "Syncing" => t.target >= s.target
    /\ s.state # "Idle" => t.state # "Idle"

(* Neither a new peer nor a batch of blocks, late or empty, takes the sync *)
(* engine back.                                                            *)
LEMMA SyncMoves ==
  ASSUME NEW s \in Sync, NEW best \in Nat
  PROVE  Advances(s, s) /\ Advances(s, Restart(s, best)) /\ Advances(s, OnBlocksReceived(s, best))
<1>1. /\ s.local \in Nat /\ s.target \in Nat /\ s.current \in Nat
      /\ s.state \in {"Idle", "Syncing", "Synced"}
  BY DEF Sync
<1>2. Advances(s, s)
  BY <1>1 DEF Advances
<1>3. Advances(s, Restart(s, best))
  <2> DEFINE r == [s EXCEPT !.state = "Syncing", !.target = best, !.current = s.local]
  <2>1. CASE best > s.local /\ (s.state = "Syncing" => best > s.target)
    <3>1. Restart(s, best) = r
      BY <1>1, <2>1 DEF Restart, StartSync, NeedsSync
    <3>2. r.local = s.local /\ r.state = "Syncing" /\ r.target = best
      BY <1>1 DEF Sync
    <3> HIDE DEF r
    <3> QED BY <1>1, <2>1, <3>1, <3>2 DEF Advances
  <2>2. CASE ~ (best > s.local /\ (s.state = "Syncing" => best > s.target))
    <3>1. Restart(s, best) = s BY <2>2 DEF Restart, NeedsSync
    <3> QED BY <1>2, <3>1
  <2> QED BY <2>1, <2>2
<1>4. Advances(s, OnBlocksReceived(s, best))
  <2> DEFINE r == OnBlocksReceived(s, best)
             local == IF best > s.local THEN best ELSE s.local
  <2>1. CASE best = 0
    BY <1>2, <2>1 DEF OnBlocksReceived
  <2>2. CASE best # 0 /\ s.state = "Syncing"
    <3>1. r = [s EXCEPT !.local = local, !.current = local,
                        !.state = IF local >= s.target THEN "Synced" ELSE @]
      BY <2>2 DEF OnBlocksReceived
    <3>2. r.local = local /\ r.target = s.target /\ r.state \in {"Synced", "Syncing"}
      BY <2>2, <3>1 DEF Sync
    <3> HIDE DEF r
    <3> QED BY <1>1, <2>2, <3>2 DEF Advances, r
  <2>3. CASE best # 0 /\ s.state # "Syncing"
    <3>1. r = [s EXCEPT !.local = local]
      BY <2>3 DEF OnBlocksReceived
    <3>2. r.local = local /\ r.target = s.target /\ r.state = s.state
      BY <3>1 DEF Sync
    <3> HIDE DEF r
    <3> QED BY <1>1, <2>3, <3>2 DEF Advances, r
  <2> QED BY <2>1, <2>2, <2>3
<1> QED BY <1>2, <1>3, <1>4

(* Only the dispatch loop moves the sync engine. *)
LEMMA SyncMovedByDispatch ==
  ASSUME [Next]_vars, ~ Dispatch PROVE sync' = sync
BY Zenon DEF Next, Task, Peering, Loop, Owner, AcceptChecks, DialChecks, Established, ReadHello, ReadFrame,
       Enqueue, WriteOut, Break, DispatchSends, Consume, OwnerSends, OwnerBroadcasts, table, vars

(* Every step leaves the sync engine where it is or moves it forward. *)
LEMMA SyncForward ==
  ASSUME Inv, [Next]_vars PROVE Advances(sync, sync')
<1>1. sync \in Sync
  BY DEF Inv, SyncInv
<1>2. Advances(sync, sync)
  BY <1>1, SyncMoves
<1>3. CASE ~ Dispatch
  BY <1>2, <1>3, SyncMovedByDispatch
<1>4. CASE Dispatch
  <2> DEFINE x == Head(inbound)
  <2>1. x \in Item
    <3>1. inbound \in Seq(Item) /\ inbound # <<>>
      BY <1>4 DEF Dispatch, Inv, TaskInv
    <3> QED BY <3>1
  <2>2. \/ x.type = "PeerConnected" /\ OnConnected(x.conn)
        \/ x.type = "PeerDisconnected" /\ OnDisconnected(x.conn)
        \/ x.type = "Message" /\ OnMessage(x.conn, x.kind, x.height)
    BY <1>4 DEF Dispatch
  <2>3. CASE x.type = "PeerConnected" /\ x.conn \in Conn
    <3>1. sync' = sync \/ sync' = Restart(sync, HeightOf[x.conn])
      BY <2>2, <2>3 DEF OnConnected, table
    <3>2. HeightOf[x.conn] \in Nat BY <2>3, ConnAssumption
    <3> QED BY <1>1, <1>2, <3>1, <3>2, SyncMoves
  <2>4. CASE x.type = "PeerDisconnected"
    BY <1>2, <2>2, <2>4 DEF OnDisconnected
  <2>5. CASE x.type = "Message" /\ (x.kind = "blocks" => x.height \in Nat)
    <3>1. sync' = sync \/ (x.height \in Nat /\ sync' = OnBlocksReceived(sync, x.height))
      BY <2>2, <2>5 DEF OnMessage, table
    <3> QED BY <1>1, <1>2, <3>1, SyncMoves
  <2> QED BY <2>1, <2>3, <2>4, <2>5, ItemKinds
<1> QED BY <1>3, <1>4

(* The local height never falls and a running sync never lowers its        *)
(* target, whatever peers and batches of blocks come and go.               *)
THEOREM SyncAdvancesHolds == Spec => SyncAdvances
<1>1. ASSUME Inv, [Next]_vars
      PROVE  /\ sync'.local >= sync.local
             /\ sync'.state = "Syncing" /\ sync.state = "Syncing" => sync'.target >= sync.target
             /\ sync.state # "Idle" => sync'.state # "Idle"
  BY <1>1, SyncForward DEF Advances
<1> QED BY <1>1, InvAlways, PTL DEF Spec, SyncAdvances
===============================================================================
