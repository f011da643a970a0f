\* Small channels that two busy peers fill.
SPECIFICATION Spec
CONSTANTS
    d = d
    a = a
    b = b
    p = p
    q = q
    None = None
    Conn = {d, b}
    Dialed = {d}
    PeerOf <- MCPeerOf
    HeightOf <- MCNoHeights
    Batch = {0}
    MaxPeers = 2
    InboundCap = 1
    OutCap = 1
    EventCap = 1
    MaxFrames <- MCBusy
    MaxBroadcasts = 0
PROPERTIES Drains
CHECK_DEADLOCK FALSE
