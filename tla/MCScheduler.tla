---------------------------- MODULE MCScheduler ----------------------------
(* Values of the scheduler's constants for model checking. *)
EXTENDS PeakCapacity

CONSTANT PromptLengths  \* bound: the lengths of the prompts submitted

MCPrompts == UNION {[1 .. n -> Token] : n \in PromptLengths}
=============================================================================
