--------------------------- MODULE MCOrphanBlocks ---------------------------
(* A parent p with two children of one stake, x and y, and a chain on y:      *)
(* g - p - x,  p - y - c - d.                                                 *)
EXTENDS OrphanBlocks, TLC

CONSTANTS g, p, x, y, c, d, s, t

MCBlock == {g, p, x, y, c, d}
MCPrev == (g :> g) @@ (p :> g) @@ (x :> p) @@ (y :> p) @@ (c :> y) @@ (d :> c)
MCStake == (g :> NoStake) @@ (p :> NoStake) @@ (x :> s) @@ (y :> s) @@ (c :> t) @@ (d :> NoStake)
=============================================================================
