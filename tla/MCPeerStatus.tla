---------------------------- MODULE MCPeerStatus ----------------------------
(***************************************************************************)
(* PeerStatus with few devices and paths.                                  *)
(***************************************************************************)
EXTENDS PeerStatus, TLC

Symmetry == Permutations(Paths)
=============================================================================
