------------------------------ MODULE MCEngine ------------------------------
(* Values of the engine's constants for model checking. *)
EXTENDS Engine

CONSTANT PromptLengths  \* bound: the lengths of the prompts submitted

\* Prompts of one token only: what tells requests apart is their id and length.
MCPrompts == {[i \in 1 .. n |-> CHOOSE t \in Token : t /= Eos] : n \in PromptLengths}
=============================================================================
