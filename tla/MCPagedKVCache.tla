--------------------------- MODULE MCPagedKVCache ---------------------------
(* Model checking of PagedKVCache, and its refinement of TokenPool. *)
EXTENDS PagedKVCache, TLC

Symmetry == Permutations(SeqIds)
=============================================================================
