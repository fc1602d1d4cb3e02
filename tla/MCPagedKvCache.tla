-------------------------- MODULE MCPagedKvCache --------------------------
(***************************************************************************)
(* Two sequences of two layers on four pages of two slots: a sequence needs *)
(* two pages to exist and four when both layers grow, so the pool runs out  *)
(* for one layer while the other still has room.  Sequences, layers, pages  *)
(* and tokens are interchangeable.                                          *)
(***************************************************************************)
EXTENDS PagedKvCache, TLC

Symmetry ==
  Permutations(SeqIds) \union Permutations(CacheLayers)
  \union Permutations(Pages) \union Permutations(Tokens)
=============================================================================
