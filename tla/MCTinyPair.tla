----------------------------- MODULE MCTinyPair -----------------------------
(* Values of the pair's constants for model checking. *)
EXTENDS TinyPair

MCToken == VocabIds
MCPrompts == {<<1>>}
=============================================================================
