-------------------------- MODULE TinyTransformer --------------------------
(***************************************************************************)
(* The fixed-weight model of src/model.rs: the logits it answers to a      *)
(* context, and their argmax.  A model is a record of what its builders    *)
(* set.  The hash of a context is a parameter of forward: any number can   *)
(* be the hash of any context.  Logits are whole numbers in the code, too. *)
(* Faults are as in KVCache.                                               *)
(***************************************************************************)
EXTENDS Integers, FiniteSetsExt, Sequences

CONSTANT Vocab      \* the size of the vocabulary

ASSUME VocabAssumption == Vocab \in Nat \ {0}

VocabIds == 0 .. Vocab - 1

New == [eos |-> 0, diverges |-> FALSE, pinned |-> <<>>]

Draft == [New EXCEPT !.diverges = TRUE]

WithEos(m, eos) == [m EXCEPT !.eos = eos]

Pin(m, context, next) ==
    [m EXCEPT !.pinned = [c \in DOMAIN @ \cup {context} |->
                             IF c = context THEN next ELSE @[c]]]

-----------------------------------------------------------------------------
\* Below every logit; f32::NEG_INFINITY in the code.
NegInfinity == -3

\* A draft shifts its peak by 7 on the hashes that 4 divides.
Peak(m, context, hash) ==
    IF context \in DOMAIN m.pinned
    THEN m.pinned[context] % Vocab
    ELSE LET base == hash % Vocab
         IN  IF m.diverges /\ hash % 4 = 0 THEN (base + 7) % Vocab ELSE base

\* Fault: the mask is lifted one token too early.
IsMaskedEarly(m, context, i) == i = m.eos /\ Len(context) < 3

\* No eos after a short context.
IsMasked(m, context, i) == i = m.eos /\ Len(context) < 4

ForwardPass(m, context, hash) ==
    LET peak        == Peak(m, context, hash)
        distance(i) == Max({i - peak, peak - i})
    IN  [i \in VocabIds |-> IF IsMasked(m, context, i)
                            THEN NegInfinity
                            ELSE 6 - Min({distance(i), 8})]

\* The lowest of the ids with the highest logit; 0 if all are -inf.
Argmax(logits) ==
    Min({i \in VocabIds : \A j \in VocabIds : logits[j] <= logits[i]})

\* What the model may answer to a context, over the given hashes.
AnswersTo(m, context, hashes) ==
    {Argmax(ForwardPass(m, context, h)) : h \in hashes}
=============================================================================
