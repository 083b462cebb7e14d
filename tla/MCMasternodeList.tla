-------------------------- MODULE MCMasternodeList --------------------------
(***************************************************************************)
(* A masternode own with one connection, to a; b hears of it only through a.*)
(***************************************************************************)
EXTENDS MasternodeList
CONSTANTS own, a, b
MCNode == {own, a, b}
MCPeer == {<<own, a>>, <<a, own>>, <<a, b>>, <<b, a>>}
=============================================================================
