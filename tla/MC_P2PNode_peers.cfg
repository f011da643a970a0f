\* Channels that hold everything the bounded peers can send.  An empty batch
\* of blocks has the effect of a quiet frame, which the run includes.
SPECIFICATION Spec
CONSTANTS
    d = d
    a = a
    b = b
    p = p
    q = q
    None = None
    Conn = {d, a, b}
    Dialed = {d}
    PeerOf <- MCPeerOf
    HeightOf <- MCHeightOf
    Batch = {1, 2}
    MaxPeers = 1
    InboundCap = 1
    OutCap = 5
    EventCap = 1
    MaxFrames <- MCFrames
    MaxBroadcasts = 1
INVARIANTS TableExact NoGhostPeers SyncCovers
PROPERTIES  Drains Forgotten
CHECK_DEADLOCK FALSE
