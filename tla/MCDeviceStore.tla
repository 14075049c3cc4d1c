--------------------------- MODULE MCDeviceStore ---------------------------
(***************************************************************************)
(* DeviceStore on small sets, with the symmetry of its identifiers.        *)
(***************************************************************************)
EXTENDS DeviceStore, TLC

Symmetry ==
  Permutations(Devices) \union Permutations(Addresses) \union Permutations(Threads)
=============================================================================
