------------------------- MODULE CompletionService -------------------------
(***************************************************************************)
(* What a client of the server is promised: one model, asked afresh for    *)
(* every request.  An answer is the greedy decoding of its own prompt, as  *)
(* long as was asked for, as long as the cache has slots for, as long as   *)
(* the engine's loop runs, or until the model ends it, whichever is first. *)
(* No request leaves a trace in another's answer.                          *)
(***************************************************************************)
EXTENDS Integers, SequencesExt

CONSTANTS
    Token, Eos,
    Prompts,        \* prompts, encoded
    MaxNews,        \* limits asked for
    Slots,          \* tokens the cache of a request can hold
    Iterations      \* steps its engine may make

VARIABLES
    model,          \* partial function: contexts to tokens
    answers         \* the answers given, oldest first

vars == <<model, answers>>

Init == model = <<>> /\ answers = <<>>

\* The model is asked about contexts: it answers new ones, and old ones as
\* before.
Ask ==
    /\ DOMAIN model \subseteq DOMAIN model'
    /\ \A c \in DOMAIN model' : model'[c] \in Token
    /\ \A c \in DOMAIN model : model'[c] = model[c]
    /\ UNCHANGED answers

Ended(text) == text /= <<>> /\ Last(text) = Eos

\* At most `limit` tokens of the greedy decoding of a prompt, as far as the
\* model has been asked.
Decoding(prompt, limit) ==
    LET Extended(text) ==
            IF Ended(text) \/ prompt \o text \notin DOMAIN model
            THEN text
            ELSE Append(text, model[prompt \o text])
        text[n \in 0 .. limit] ==
            IF n = 0 THEN <<>> ELSE Extended(text[n - 1])
    IN  text[limit]

Limit(prompt, max) == Min({max, Iterations, Max({0, Slots - Len(prompt)})})

Answer(prompt, max) ==
    LET limit  == Limit(prompt, max)
        tokens == Decoding(prompt, limit)
    IN  /\ Len(tokens) = limit \/ Ended(tokens)
        /\ answers' = Append(answers, [prompt |-> prompt,
                                       max    |-> max,
                                       tokens |-> tokens])
        /\ UNCHANGED model

Next == Ask \/ \E prompt \in Prompts, max \in MaxNews : Answer(prompt, max)

Spec == Init /\ [][Next]_vars
=============================================================================
