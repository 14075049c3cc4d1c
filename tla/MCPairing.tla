----------------------------- MODULE MCPairing -----------------------------
(***************************************************************************)
(* Pairing between a few devices; those that display no QR code are alike. *)
(***************************************************************************)
EXTENDS Pairing, TLC

ASSUME Removers \subseteq Displayers

Symmetry == Permutations(Devices \ Displayers)
=============================================================================
