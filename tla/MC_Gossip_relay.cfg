\* A ring with a cache that overflows and one that does not.
SPECIFICATION GossipSpec
CONSTANTS
    A = A
    B = B
    C = C
    D = D
    v1 = v1
    v2 = v2
    t1 = t1
    t2 = t2
    b1 = b1
    bad = bad
    Node = {A, B, C, D}
    Peers <- MCPeers
    Msg = {v1, v2, t1, t2, b1, bad}
    Kind <- MCKind
    Undecodable = {bad}
    CacheSize <- MCCache
    Workload <- MCWorkload
INVARIANTS CacheExact RelayedOnce
PROPERTIES EveryoneHears GoesQuiet
CHECK_DEADLOCK FALSE
