------------------------------- MODULE Server -------------------------------
(***************************************************************************)
(* The request handlers of src/server.rs: each encodes the prompt, builds  *)
(* an engine of its own over the shared model, submits the prompt as       *)
(* request 1, runs the engine to completion and decodes what it returns,   *)
(* all at once or token by token.                                          *)
(*                                                                         *)
(* Handlers are async functions, but between the request and the answer    *)
(* there is no await, and all they share is the model, which never changes *)
(* (Arc<dyn Model>).  So they are served one after the other here, in any  *)
(* order.  Faults are as in KVCache.                                       *)
(***************************************************************************)
EXTENDS Engine, Tokeniser, TinyTransformer

CONSTANTS
    Texts,          \* the prompts clients send
    Hashes,         \* bound: the hashes of contexts that are tried
    MaxRequests     \* bound: the requests that are served

\* A prompt is a String, and hashes are u64.  The batch size, the vocabulary
\* and the eos token are those of default_state (lib.rs:36-46).
ASSUME ServerAssumption ==
    /\ SeqIds = {1}
    /\ Token = VocabIds
    /\ Eos = EosToken
    /\ \A text \in Texts : IsText(text)
    /\ Prompts = {Encode(text) : text \in Texts}
    /\ Hashes \subseteq Nat
    /\ MaxBatchSize > 0
    /\ Vocab > 1
    /\ MaxRequests \in Nat

VARIABLES
    request,    \* the request in service, or NoRequest
    history     \* the requests served with their answers, oldest first

serverVars == <<request, history>>

\* Model and tokeniser agree on eos (default_state in lib.rs).
ServedModel == WithEos(New, EosToken)

NoRequest == [kind |-> "none"]

\* /generate, and /v1/completions with "stream": false and true.
Kinds == {"generate", "completion", "stream"}

Request == [kind : Kinds, text : Texts, max_tokens : MaxNews]

ServerInit ==
    /\ EngineInit
    /\ request = NoRequest
    /\ history = <<>>

-----------------------------------------------------------------------------
\* Fault: every request has a model of its own.
OwnModel == <<>>

SharedModel == model

\* new_engine(): an engine like the one of EngineInit, but for the model.
NewEngine ==
    /\ cache' = NewCache
    /\ seqs' = <<>>
    /\ waiting' = <<>>
    /\ running' = <<>>
    /\ plan' = EmptyPlan
    /\ pc' = "idle"
    /\ pos' = 1
    /\ requests' = <<>>
    /\ model' = SharedModel
    /\ emitted' = <<>>
    /\ outputs' = <<>>
    /\ guard' = 0
    /\ phase' = "submitting"

Handle(kind, text, max) ==
    /\ request = NoRequest
    /\ Len(history) < MaxRequests
    /\ request' = [kind |-> kind, text |-> text, max_tokens |-> max]
    /\ NewEngine
    /\ UNCHANGED history

SubmitPrompt ==
    /\ request /= NoRequest
    /\ EngineSubmit(1, Encode(request.text), request.max_tokens)
    /\ UNCHANGED serverVars

\* run_one(), over the model that is served.
RunOne ==
    /\ request /= NoRequest
    /\ Submitted(1)
    /\ \/ RunToCompletion
       \/ StepStart
       \/ StepSchedule
       \/ \E token \in Token :
            /\ StepForward(token)
            /\ token \in AnswersTo(ServedModel, NextContext, Hashes)
       \/ StepReturns
       \/ CollectNext
       \/ IterationEnds
       \/ RunReturns
    /\ UNCHANGED serverVars

\* What run_one() returns: the tokens of the first output, if there is one.
Tokens ==
    IF outputs = <<>> THEN <<>> ELSE outputs[Min(DOMAIN outputs)]

Body(served, tokens) ==
    CASE served.kind = "generate" ->
            [text              |-> Decode(tokens),
             prompt_tokens     |-> Len(Encode(served.text)),
             completion_tokens |-> Len(tokens)]
      [] served.kind = "completion" ->
            [text |-> Decode(tokens)]
      [] served.kind = "stream" ->
            [events |-> [i \in DOMAIN tokens |-> DecodeOne(tokens[i])]]

Respond ==
    /\ request /= NoRequest
    /\ phase = "returned"
    /\ history' = Append(history, [request |-> request,
                                   prompt  |-> requests[1].prompt,
                                   tokens  |-> Tokens,
                                   body    |-> Body(request, Tokens)])
    /\ request' = NoRequest
    /\ UNCHANGED allVars

HandlerStep == SubmitPrompt \/ RunOne \/ Respond

ServerNext ==
    \/ \E kind \in Kinds, text \in Texts, max \in MaxNews :
        Handle(kind, text, max)
    \/ HandlerStep

ServerSpec == ServerInit /\ [][ServerNext]_<<allVars, serverVars>>

\* A handler is synchronous code from the request to the answer.
FairServerSpec == ServerSpec /\ WF_<<allVars, serverVars>>(HandlerStep)

-----------------------------------------------------------------------------
(* Properties *)

\* Types of the handlers' state (server.rs:74-90, 116-144).
ServerTypeOK ==
    /\ EngineTypeOK
    /\ request \in Request \cup {NoRequest}
    /\ \A i \in DOMAIN history :
        /\ history[i].request \in Request
        /\ history[i].prompt \in Prompts
        /\ history[i].tokens \in Seq(Token)

Service == INSTANCE CompletionService WITH
    Slots      <- NumBlocks * BlockSize,
    Iterations <- MaxIterations + 1,
    answers    <- [i \in DOMAIN history |->
                      [prompt |-> history[i].prompt,
                       max    |-> history[i].request.max_tokens,
                       tokens |-> history[i].tokens]]

\* Every endpoint answers with the greedy decoding of its own prompt, cut
\* exactly where the limit, the cache or the engine's loop cuts it, whatever
\* was served before: a prompt that does not fit has an empty answer, one that
\* outgrows the cache ends with its last slot, and nothing is left of either
\* in the next request's engine (server.rs:93-100, 176-179; "requests cannot
\* interfere with each other's memory", wiki/HTTP-Server.md).
ImplementsCompletionService == Service!Spec

\* The prompt the engine sees stands for the text the client sent, characters
\* of several bytes included: decoding it gives the text back
\* (tokeniser.rs:19-37; "reversible", tokeniser.rs:3-8).
PromptRoundTrips ==
    \A i \in DOMAIN history : Decode(history[i].prompt) = history[i].request.text

SameQuestion(i, j) ==
    /\ history[i].request.text = history[j].request.text
    /\ history[i].request.max_tokens = history[j].request.max_tokens

Streamed(i) == history[i].request.kind = "stream"

\* The three kinds of answer tell a client the same.  A stream has an event for
\* each token of the completion, two plain answers have the same text, and the
\* events of a stream add up to it unless one of them is a replacement
\* character (server.rs:93-100, 150-165, 182-193).
AnswersAgree ==
    \A i, j \in DOMAIN history : SameQuestion(i, j) =>
        LET here == history[i].body  there == history[j].body
        IN  /\ ~Streamed(i) /\ ~Streamed(j) => here.text = there.text
            /\ Streamed(i) /\ Streamed(j) => here.events = there.events
            /\ Streamed(i) /\ history[j].request.kind = "generate" =>
                Len(here.events) = there.completion_tokens
            /\ /\ Streamed(i) /\ ~Streamed(j)
               /\ <<Replacement>> \notin Range(here.events)
               => FlattenSeq(here.events) = there.text

\* A short prompt is never answered with eos: if its cache holds one more
\* token, the completion has tokens, and up to a context of four tokens none of
\* them is eos.  The comment goes on "so short prompts always produce visible
\* output" (model.rs:197-201), which is more: a token other than eos need not
\* be visible, as the 63 ids of the vocabulary beyond the bytes render nothing.
ShortPromptsGoOn ==
    \A i \in DOMAIN history :
        LET p == Len(history[i].prompt)
        IN  /\ \A k \in DOMAIN history[i].tokens :
                p + k <= 4 => history[i].tokens[k] /= Eos
            /\ /\ history[i].tokens = <<>>
               /\ history[i].request.max_tokens > 0
               => p >= NumBlocks * BlockSize

\* Every request is answered, also one that never fits: then by the guard of
\* the loop (server.rs:97, engine.rs:101-103).
EveryRequestIsAnswered == request /= NoRequest ~> request = NoRequest

-----------------------------------------------------------------------------
\* "decode_one_matches_decode confirms streaming one token at a time
\* reassembles to the same string as decoding the whole vector"
\* (wiki/Model-and-Tokeniser.md).
StreamReassembles ==
    \A i \in DOMAIN history :
        Streamed(i) => FlattenSeq(history[i].body.events)
                       = Decode(history[i].tokens)
=============================================================================
