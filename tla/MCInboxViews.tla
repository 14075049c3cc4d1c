---------------------------- MODULE MCInboxViews ----------------------------
(***************************************************************************)
(* InboxViews on small sets, with the symmetry of its identifiers.         *)
(***************************************************************************)
EXTENDS InboxViews, TLC

Symmetry ==
  Permutations(Transfers) \union Permutations(Envelopes)
    \union Permutations(Files) \union Permutations(Callers)
    \union Permutations(Refreshes)
=============================================================================
