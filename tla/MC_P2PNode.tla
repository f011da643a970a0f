------------------------------ MODULE MC_P2PNode ------------------------------
(* Two peers; p has a dialed connection d and an accepted one a. *)
EXTENDS P2PNode, TLC

CONSTANTS d, a, b, p, q

MCPeerOf == (d :> p) @@ (a :> p) @@ (b :> q)
MCFrames == (d :> 2) @@ (a :> 0) @@ (b :> 0)
MCBusy == (d :> 3) @@ (b :> 3)
MCNoHeights == (d :> 0) @@ (b :> 0)
MCHeightOf == (d :> 1) @@ (a :> 2) @@ (b :> 1)
===============================================================================
