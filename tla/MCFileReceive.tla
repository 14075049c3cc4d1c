--------------------------- MODULE MCFileReceive ---------------------------
(***************************************************************************)
(* FileReceive on small sets, with the symmetry of its identifiers.        *)
(***************************************************************************)
EXTENDS FileReceive, TLC

Symmetry ==
  Permutations(Transfers) \union Permutations(Envelopes)
    \union Permutations(Files) \union Permutations(Versions)
    \union Permutations(Callers)
=============================================================================
