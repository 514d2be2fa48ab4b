--------------------------- MODULE MCSpeculative ---------------------------
(* Values of the speculative decoder's constants for model checking. *)
EXTENDS Speculative

CONSTANT PromptLengths  \* bound: the lengths of the prompts

\* Prompts of one token only: a pure model tells contexts apart as a whole.
MCPrompts == {[i \in 1 .. n |-> CHOOSE t \in Token : t /= Eos] : n \in PromptLengths}
=============================================================================
