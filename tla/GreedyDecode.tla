---------------------------- MODULE GreedyDecode ----------------------------
(***************************************************************************)
(* What a caller of the engine is promised: every request is decoded       *)
(* greedily on its own.  Its next token is what the model answers to its   *)
(* prompt and its own text so far, until the model ends it or its limit is *)
(* reached.  There is no batch, no cache, no preemption.                   *)
(*                                                                         *)
(* The model is any pure function of the context.  `model` holds the part  *)
(* of it that has been asked for, so that every such function is covered.  *)
(***************************************************************************)
EXTENDS Integers, Sequences

CONSTANTS RequestIds, Token, Eos, Prompts, MaxNews

VARIABLES
    requests,   \* partial function: what was submitted
    text,       \* partial function: the tokens handed to the caller so far
    model,      \* partial function: contexts to tokens
    done        \* every request has been answered in full

vars == <<requests, text, model, done>>

Context(s) == requests[s].prompt \o text[s]

Ended(s) == text[s] /= <<>> /\ text[s][Len(text[s])] = Eos

Open(s) == Len(text[s]) < requests[s].max_new_tokens /\ ~Ended(s)

Init ==
    /\ requests = <<>>
    /\ text = <<>>
    /\ model = <<>>
    /\ done = FALSE

Submit(s, prompt, max) ==
    LET request == [prompt |-> prompt, max_new_tokens |-> max]
        known   == DOMAIN requests
    IN  /\ ~done
        /\ s \notin known
        /\ requests' = [t \in known \cup {s} |->
                            IF t = s THEN request ELSE requests[t]]
        /\ text' = [t \in known \cup {s} |-> IF t = s THEN <<>> ELSE text[t]]
        /\ UNCHANGED <<model, done>>

\* The model is asked about contexts: it answers new ones, and old ones as
\* before.
Ask ==
    /\ DOMAIN model \subseteq DOMAIN model'
    /\ \A c \in DOMAIN model' : model'[c] \in Token
    /\ \A c \in DOMAIN model : model'[c] = model[c]
    /\ UNCHANGED <<requests, text, done>>

\* Some of the open requests are handed their next token.
Decode(S) ==
    /\ \A s \in S : Open(s) /\ Context(s) \in DOMAIN model
    /\ text' = [s \in DOMAIN text |->
                    IF s \in S THEN Append(text[s], model[Context(s)])
                               ELSE text[s]]
    /\ UNCHANGED <<requests, model, done>>

Finish ==
    /\ \A s \in DOMAIN requests : ~Open(s)
    /\ done' = TRUE
    /\ UNCHANGED <<requests, text, model>>

Next ==
    \/ \E s \in RequestIds, prompt \in Prompts, max \in MaxNews :
        Submit(s, prompt, max)
    \/ Ask
    \/ \E S \in SUBSET DOMAIN requests : Decode(S)
    \/ Finish

Spec == Init /\ [][Next]_vars
=============================================================================
