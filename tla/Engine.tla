------------------------------- MODULE Engine -------------------------------
(***************************************************************************)
(* The engine of src/engine.rs: submit, then run_to_completion, which      *)
(* drives the scheduler and the model until no work is left.  The owner    *)
(* submits a batch of requests and runs it once, as the server and the     *)
(* benchmark do.                                                           *)
(***************************************************************************)
EXTENDS SchedulerProperties

CONSTANTS
    Eos,            \* Model::eos_token()
    MaxIterations   \* max_iterations, 1_000_000 in the code

ASSUME EngineAssumption == Eos \in Token /\ MaxIterations \in Nat

VARIABLES
    requests,   \* history: what each id was submitted with
    model,      \* the part of the model's function asked for so far
    emitted,    \* step()'s return value, <<id, token>>: what is there of it,
                \* and then what is left to collect
    outputs,    \* partial function: run_to_completion's HashMap
    guard,      \* run_to_completion's iteration counter
    phase       \* "submitting", "running" (step() is due or under way),
                \* "collecting" (it has returned) or "returned"

engineVars == <<requests, model, emitted, outputs, guard, phase>>
allVars == <<vars, engineVars>>

EngineInit ==
    /\ Init
    /\ requests = <<>>
    /\ model = <<>>
    /\ emitted = <<>>
    /\ outputs = <<>>
    /\ guard = 0
    /\ phase = "submitting"

EngineSubmit(s, prompt, max) ==
    LET request == [prompt |-> prompt, max_new_tokens |-> max]
    IN  /\ phase = "submitting"
        /\ Submit(s, prompt, max)
        /\ requests' = [t \in DOMAIN requests \cup {s} |->
                            IF t = s THEN request ELSE requests[t]]
        /\ UNCHANGED <<model, emitted, outputs, guard, phase>>

RunToCompletion ==
    /\ phase = "submitting"
    /\ outputs' = <<>>
    /\ guard' = 0
    /\ phase' = "running"
    /\ UNCHANGED <<vars, requests, model, emitted>>

\* The loop's head: step() if there is work.
StepStart ==
    /\ phase = "running"
    /\ HasWork
    /\ StartSchedule
    /\ emitted' = <<>>
    /\ UNCHANGED <<requests, model, outputs, guard, phase>>

\* The rest of scheduler.schedule().
StepSchedule ==
    /\ phase = "running"
    /\ pc /= "idle"
    /\ Schedule
    /\ UNCHANGED engineVars

\* What the model is asked about next: prompt and output so far.
NextContext ==
    LET id == plan.decode_batch[pos] IN seqs[id].prompt \o seqs[id].output

\* One forward pass of the batch; the model is a function of the context.
StepForward(token) ==
    LET id      == plan.decode_batch[pos]
        context == NextContext
    IN  /\ phase = "running"
        /\ PushToken(token, token = Eos)
        /\ context \in DOMAIN model => token = model[context]
        /\ model' = [c \in DOMAIN model \cup {context} |->
                        IF c = context THEN token ELSE model[c]]
        /\ emitted' = Append(emitted, <<id, token>>)
        /\ UNCHANGED <<requests, outputs, guard, phase>>

\* `outputs.entry(id).or_default().push(token)`
Collected(out, pair) ==
    [s \in DOMAIN out \cup {pair[1]} |->
        IF s = pair[1]
        THEN Append(IF s \in DOMAIN out THEN out[s] ELSE <<>>, pair[2])
        ELSE out[s]]

\* step() returns what it emitted.
StepReturns ==
    /\ phase = "running"
    /\ EndStep
    /\ phase' = "collecting"
    /\ UNCHANGED <<requests, model, emitted, outputs, guard>>

\* run_to_completion walks what step() returned.
CollectNext ==
    /\ phase = "collecting"
    /\ emitted /= <<>>
    /\ outputs' = Collected(outputs, Head(emitted))
    /\ emitted' = Tail(emitted)
    /\ UNCHANGED <<vars, requests, model, guard, phase>>

\* Fault: iterations before the first token do not count.
NextGuardIfOutput == IF outputs = <<>> THEN guard ELSE guard + 1

NextGuard == guard + 1

\* The iteration is counted and the guard checked.
IterationEnds ==
    /\ phase = "collecting"
    /\ emitted = <<>>
    /\ guard' = NextGuard
    /\ phase' = IF guard' > MaxIterations THEN "returned" ELSE "running"
    /\ UNCHANGED <<vars, requests, model, emitted, outputs>>

RunReturns ==
    /\ phase = "running"
    /\ pc = "idle"
    /\ ~HasWork
    /\ phase' = "returned"
    /\ UNCHANGED <<vars, requests, model, emitted, outputs, guard>>

EngineStep ==
    \/ RunToCompletion
    \/ StepStart
    \/ StepSchedule
    \/ \E token \in Token : StepForward(token)
    \/ StepReturns
    \/ CollectNext
    \/ IterationEnds
    \/ RunReturns

EngineNext ==
    \/ \E s \in SeqIds, prompt \in Prompts, max \in MaxNews :
        EngineSubmit(s, prompt, max)
    \/ EngineStep

EngineSpec == EngineInit /\ [][EngineNext]_allVars

\* The loop is synchronous code: once called it runs until it returns.
FairEngineSpec == EngineSpec /\ WF_allVars(phase /= "submitting" /\ EngineStep)

-----------------------------------------------------------------------------
(* Properties *)

EngineTypeOK ==
    /\ TypeOK
    /\ DOMAIN requests = DOMAIN seqs
    /\ emitted \in Seq(SeqIds \X Token)
    /\ DOMAIN outputs \subseteq DOMAIN requests
    /\ outputs \in [DOMAIN outputs -> Seq(Token)]
    /\ \A context \in DOMAIN model :
        context \in Seq(Token) /\ model[context] \in Token
    /\ guard \in Nat
    /\ phase \in {"submitting", "running", "collecting", "returned"}

\* What the caller has of a request: a request without output has no entry.
Text == [s \in DOMAIN requests |->
            IF s \in DOMAIN outputs THEN outputs[s] ELSE <<>>]

Greedy == INSTANCE GreedyDecode WITH
    RequestIds <- SeqIds,
    text       <- Text,
    done       <- phase = "returned" /\ ~HasWork

\* Batching, paging and preemption are invisible in the output: what
\* run_to_completion collects for a request is, step by step, the greedy
\* decoding of its prompt as if it were alone, and when the loop ends with no
\* work left every request has been decoded to its end
\* (engine.rs:51-73, 88-112; README.md on recompute-based preemption).
ImplementsGreedyDecode == Greedy!Spec

\* The tokens the caller has, each as a request and a position, and the
\* requests that are finished.
Handed == UNION {{s} \X DOMAIN Text[s] : s \in DOMAIN requests}

Retired == {s \in DOMAIN seqs : IsFinished(s)}

\* Every iteration is paid for by a token or a request: if every request fits
\* the cache, there are never more iterations than tokens handed over and
\* requests retired.  So the loop's guard cuts a run short only if it asks for
\* more tokens and requests than the guard has iterations
\* (engine.rs:92-103, "collecting each request's full output").
IterationsBounded ==
    AllFit /\ MaxBatchSize > 0 =>
        guard <= Cardinality(Handed) + Cardinality(Retired)

\* With room in the guard for every token and every request, a run over
\* requests that fit the cache returns with all of them finished.
RunFinishes ==
    LET room == MapThenSumSet(LAMBDA s : requests[s].max_new_tokens,
                              DOMAIN requests) + Cardinality(DOMAIN requests)
    IN  [](AllFit /\ MaxBatchSize > 0 /\ room <= MaxIterations) =>
            (phase = "running"
                ~> phase = "returned" /\ ~HasWork)

=============================================================================
