# forge-infer in TLA+

forge-infer is a single-process inference engine: a paged KV-cache, a
continuous batching scheduler over it, an engine loop that alternates
scheduling and model forward passes, a speculative decoder, and an HTTP front
end. This directory models its core in TLA+, model-checks it with TLC on small
instances, and proves what matters most about it with TLAPS for every size.

Paths are relative to the repository root; line numbers are those of the commit
beside which this directory is kept. `PROJECT.json` maps every definition to the
lines it stands for.

## Inventory

| Part | State | Operations | Talks to |
| --- | --- | --- | --- |
| Paged KV-cache, `src/paged_cache.rs` | free list (a stack of block ids), a block table per sequence (blocks, `num_tokens`), `peak_blocks` | `admit`, `append`, `free`, `evict_largest`; reads `blocks_needed_for`, `free_blocks`, `slack`, ... | called by the scheduler only |
| Scheduler, `src/scheduler.rs` | `waiting` deque, `running` vector of `Sequence`s, the cache | `submit`, `schedule` (admit, preempt, commit, retire), `push_token` | owns the cache; hands a `StepPlan` to the engine |
| Engine, `src/engine.rs` | the scheduler, a shared immutable model; in the loop `outputs` and `guard` | `submit`, `step`, `run_to_completion`, `run_one` | calls the scheduler, the model, and returns tokens |
| Model, `src/model.rs` | none that changes after construction | `forward`, `argmax`, `prob_of`, `pin` | called by the engine and the speculative decoder |
| Speculative decoder, `src/speculative.rs` | none between calls | `draft_run`, `step`, `generate` | two models |
| Tokeniser, `src/tokeniser.rs` | none | `encode`, `decode`, `decode_one` | called by the server |
| HTTP server, `src/server.rs` | configuration and the model | `/healthz`, `/generate`, `/v1/completions` (plain and streamed) | builds one engine per request |
| Benchmark `src/bin/bench.rs`, binary `src/main.rs` | none | drivers | all of the above |

Nothing is persisted and, inside one engine, nothing runs concurrently: every
request of the server has an engine of its own, and `step` is straight-line
code. What is hard is not threads but **long sequences of steps**: many
sequences share one pool of blocks, `schedule()` makes four passes over shared
state in which a later pass relies on what an earlier one computed, and
preemption sends work round again any number of times. What each part has to
get right:

* *cache*: a block has one owner, none is lost, stored tokens do not move, the
  subtractions on `usize` never underflow, an append fails exactly when memory
  is short, and the peak is the peak;
* *scheduler*: a request is in one place, only the batch holds memory, the
  demand summed before the commit still holds during it, the plan names only
  sequences of the batch, older work is not overtaken, every step does
  something, everything finishes;
* *engine*: batching, paging and preemption do not show in the output, and the
  iteration guard cuts off no run that asks for less than it;
* *speculative decoder*: the emitted text, the cut at `max_new`, eos;
* *model*: the peak wins, eos does not end a short prompt;
* *tokeniser*: the round trip, and eos apart from the bytes;
* *server*: every request is answered, with the decoding of its own prompt and
  of nothing that was served before, and the endpoints agree.

`PROJECT.json` lists the hazards behind these, each at its line.

## Modules

| Module | What it is |
| --- | --- |
| `KVCache` | The cache as a value: a record of free list, tables and peak, one operator per method, and the predicates that make a cache sound. `PagedKVCache` and `Scheduler` both use it. |
| `PagedKVCache` | The cache as a state machine: one action per outcome of each method, in any order, with known and unknown ids; the last result is a variable. Invariants `NoBlockShared`, `NoBlockLost`, `SlackBounded`, `PeakIsHighWater`, action property `TablesOnlyGrow`. |
| `TokenPool` | Abstract cache: each sequence is a number of tokens that costs its blocks rounded up. `PagedKVCache` is shown to implement it. |
| `KVCacheProofs`, `PagedKVCacheProofs` | Lemmas about the operators of `KVCache`; the theorems about `PagedKVCache`, with the refinement of `TokenPool`. |
| `SchedulerProofs` | Where the requests, the blocks and the order are: the safety theorems about `Scheduler`, on the lemmas of `KVCacheProofs`. |
| `SchedulerProgressProofs` | What its steps achieve: the commit has room, and no step is wasted. |
| `Scheduler` | `submit`, `schedule()` loop iteration by loop iteration, and the caller's half of a step (`push_token`). |
| `SchedulerProperties` | Invariants and liveness of the scheduler. |
| `PeakCapacity` | The same run in a smaller cache, as a function of the run in the larger one; property `PeakIsExactCapacity`. |
| `Engine` | `Scheduler` composed with the engine's loop and an arbitrary pure model. |
| `EngineProofs` | The theorems about `Engine`, on those about `Scheduler`, with the refinement of `GreedyDecode`. |
| `GreedyDecode` | Abstract decoder: every request decoded greedily by itself. `Engine` and `Speculative` are shown to implement it. |
| `Speculative` | One call of `SpeculativeDecoder::generate` over two arbitrary pure models. |
| `SpeculativeProofs` | The theorems about `Speculative`, with the refinement of `GreedyDecode`. |
| `TinyTransformer` | The model of `src/model.rs`: builders, pins, peak, logits, eos mask, argmax, for any hash. |
| `TinyTransformerProofs` | What it answers, for every vocabulary, context and hash. |
| `TinyPair` | `Speculative` over the target and the draft that the benchmark pairs. |
| `Tokeniser` | `encode`, `decode`, `decode_one` and the lossy reading of UTF-8, as operators. |
| `Server` | The request handlers: `Engine`, `Tokeniser` and `TinyTransformer` composed, one engine per request. |
| `ServerProofs` | The theorems about `Server` and `Tokeniser`, on those about `Engine` and `TinyTransformer`, with the refinement of `CompletionService`. |
| `CompletionService` | Abstract service: one model, and every answer the greedy decoding of its own prompt up to an exact length. `Server` is shown to implement it. |
| `MC*` | Values of constants for TLC, and the refinement mappings that nothing is proved about. |

### How they correspond to the code

**Cache.** `cache.free_list` is the `Vec` used as a stack: the back is the last
element, `Popped` takes the blocks in the order `pop` returns them, `Free`
pushes the table's blocks in table order. Blocks have identities, so sharing
and leaking can be observed. `HashMap` iteration order makes `evict_largest`
choose any of the largest: `LargestSeqs`.

**Scheduler.** `schedule()` is not one action. Its variable `pc` is the loop it
is in (`admit`, `preempt`, `commit`, `retire`), and each action is one turn of
that loop with everything the turn does to the queue, the batch, the cache and
the plan; `pos` is the position of the two loops that walk the batch. So the
invariants hold at every turn of every loop, not only between calls. `waiting`
and `running` hold ids and `seqs` the `Sequence` values, including finished
ones, which the code drops: this is what lets a property say that nothing was
lost. In `forward` the caller holds the plan and pushes a token for each of its
ids, in order, as `Engine::step` does; any token, with eos or without.

**Engine.** `phase` says whether the owner is still submitting, `step` is due or
under way (`running`), it has returned and its tokens are walked one by one
(`collecting`: one `CollectNext` for each turn of `for (id, tok) in emitted`, then
`IterationEnds`), or the loop returned. `model` is the graph of the model's function as far
as it has been asked: the first answer to a context is any token, later ones
are the same. So one behaviour is one pure model and all of them are covered.
Whether a token is eos is a property of the token here, as in the code.

**Speculative decoder.** `phase` is where `generate` is: at the head of its loop
(`round`), in `draft_run` (`draft`), in the loop of `step` (`verify`), or passing
on what `step` returned (`collect`); one action is one turn of one of these
loops. `draft` and `target` are graphs like `model` above. The acceptance test
compares a hash of the context with a ratio of two probabilities; `Accept` and
`Reject` leave its outcome open on every context, and since no context is
verified twice, no two outcomes can contradict each other. The two models may
have different eos tokens: the constructor compares their vocabularies only.
`total_accepted` and `total_drafted` are the counts `generate` returns.

**Peak capacity.** `paged_cache.rs:122-125` compares two runs. `Restricted(m)` is
what the state of the large run is in a cache of `m` blocks: the free list
without its lowest `NumBlocks - m` blocks, which a run that stays within `m`
never takes, and blocks renumbered. `PeakIsExactCapacity` says that for every
`m` that has not been passed, each step of the large run is a step of
`Scheduler` with `m` blocks from the restricted state, unless the mark passes
`m` in it, and then it is not. So the run goes unchanged with exactly
`peak_blocks` blocks and changes with fewer. In the commit loop `PeakAhead` adds
what the batch was found to need and has not taken yet, since that is when a
smaller cache would have preempted. Both runs start in the initial states of their
sizes (the first conjunct).

**TinyTransformer.** A model is a record of what its builders set. The hash is
an argument of `Peak` and `ForwardPass`, and any context may have any of `Hashes`;
that the same context has the same hash is the business of `Engine`'s `model` graph.
`prob_of`, the softmax, is not needed anywhere but in the acceptance test,
which is open. `NegInfinity` is a number below every logit: logits are whole
numbers from -2 to 6 in the code too. Eos is assumed to be in the vocabulary; `with_eos`
does not check it, and the mask (`model.rs:200`) would index out of bounds on a short
context, but nothing in the repository builds such a model.

**Tokeniser.** A text is a sequence of characters and a character the sequence
of its bytes, so that "the same text" means the same characters. Which bytes
start a character of how many is a constant. `FromUtf8Lossy` reads bytes one by
one and puts `Replacement` for every byte that is in no complete character, and
one for an incomplete character as a whole, as the standard library does.
`IsText` is what a `String` is: whole characters.

**Server.** `request` is the request a handler works on and `history` those
answered, with their answers. `Handle` is the head of a handler up to
`new_engine()`: it resets every variable of `Engine` except `model`, which is the
`Arc` all engines share. Then come `submit` with id 1, the steps of
`run_to_completion` as `Engine` has them, each token restricted to what
`TinyTransformer` may answer, and `Respond`. The handlers are `async`, but between
the extraction of the request and the returned response there is no `.await`
that waits for anything (`completions` awaits `stream_completion`, which never
suspends), and two handlers on two threads share only the immutable model. So
serving them one after another, in any order, leaves out no behaviour that one of them could see. The
JSON around the text, the constants in it (`finish_reason`, `[DONE]`) and
`/healthz` are left out.

**Abstractions.** Tokens are model values; prompts are sequences of one token,
since what the scheduler looks at is their length. The bench, the server and
the wiki (`wiki/Engine.md:112`) use an id once per engine; `Submit` requires it.
Integers are unbounded: no count here comes near 2^64 except by the underflows
that `SlackBounded` and `PeakIsHighWater` exclude.

**Faults.** Next to a definition a wrong variant is sometimes kept, marked
`Fault:` (a block that is not returned, a victim put at the wrong end of the
queue, a demand checked one sequence at a time). No specification uses them;
substituted for the definition, each makes the run of the property it is paired
with in `PROJECT.json` fail. They show that the properties look at something.

## Runs

| Run | Checks | Instance |
| --- | --- | --- |
| `paged_cache` | The cache's invariants, `TablesOnlyGrow`, and that it implements `TokenPool`: whatever was freed in whatever order, an append succeeds exactly when the rounded-up total fits ("external fragmentation disappears") and reports the same numbers. | 3 symmetric ids, 5 blocks of 2 tokens, appends of 0 to 5 tokens |
| `scheduler` | `NoRequestLost`, `OnlyBatchHoldsBlocks`, `CacheMatchesContext`, `CommitNeverFails`, `DecodeBatchIsRunning`, `ProgressOrder`, `StepMakesProgress` at every turn of every loop. | 3 ids, 3 blocks of 2, batch of 3; prompts of 0, 2, 3, 7 tokens, limits 0, 1, 4 |
| `scheduler_order` | `NoOvertaking`: with ascending ids, ties of progress are broken by age. `PeakIsExactCapacity`: the high-water mark is the exact capacity of the run, for every smaller size. | 4 ids, 3 blocks of 1, batch of 3; prompts 1, 2, limits 2, 3 |
| `scheduler_liveness` | `EveryRequestFinishes`, if each fits the cache by itself. | 3 ids, 3 blocks of 2, batch of 2; prompts 1, 3, limits 0, 2, 4 |
| `engine` | `ImplementsGreedyDecode`: batching, paging and preemption do not show in the output. `IterationsBounded`: every iteration is paid for by a token or a request. `RunFinishes`: the loop returns with all work done. | 3 ids, 2 blocks of 2, batch of 3; prompts 1, 2, limits 0, 2, 3; every model on two tokens |
| `speculative` | `EveryTokenFitsItsPrefix`, `RoundEndsWithTarget`, `CutExactly`, `DraftsArePaidFor` with models that disagree; `ImplementsTargetDecode`: as long as they agree on all they were both asked, each step is one of greedy decoding, whatever the acceptance test says; `GenerateReturns`. | every two models on three tokens with different eos, lookahead 2, limits 0, 1, 4 |
| `server` | `ImplementsCompletionService`: each answer is the greedy decoding of its own prompt, cut exactly. `AnswersAgree`: the three kinds of answer tell the same. `PromptRoundTrips`, `ShortPromptsGoOn`, `EveryRequestIsAnswered`. | 2 requests of 3 kinds; prompts of 3, 5, 7 tokens with characters of one and two bytes, limits 0, 1, 3; 3 blocks of 2; a loop of 2 iterations; 4 hashes |

Why these bounds are enough to be interesting: in every scheduler and engine
instance the blocks are fewer than the requests want together, so preemption,
double preemption in one step, readmission with output, failed admission and
rollback all happen; block boundaries are crossed within a request (prompt 3
in blocks of 2, limits over 2); prompts of 0 tokens and limits of 0 exercise the
empty table and the request that is complete on arrival; a prompt of 7 in a cache of
6 slots never fits, 3 + 4 outgrows it, and 2 + 4 fills it to the last slot. In
the speculative runs a limit of 4 after lookahead 2 makes the text end inside a
round as well as with one, and a limit of 1 inside the first. Three ids are what it takes for one
sequence to be preempted over the heads of two others; four are used where
order is the question. In the cache instance an append needs 0, 1, 2 or 3 blocks
from a pool of 5, enough to be refused and to reuse blocks in any order. Ids are symmetric only
there; the scheduler compares ids. In the server instance there is one byte of each
kind: a character by itself, the first of two, a continuation, and one that is in no
text; the model also answers with an id that is no byte. The prompt of 3 tokens is cut by eos, by the
limit or by the loop, the one of 5 by the last of the 6 slots, and the one of 7 is
never admitted. A prompt of 3 is also the longest that the eos mask covers, so the
first token is masked and the second is not. The loop of 2 iterations stands for that of a million; each
of them is a request whose engine ends with work left, before which and after
which another request is served. Four hashes make the peak fall on eos, beside it
and away from it. `ImplementsTargetDecode` of the speculative run is about the
steps after which the models agree on every context both were asked, which
includes all the runs with one model for both.

The scheduler runs check deadlock (an idle scheduler can always be called).
The engine, speculative and server runs turn it off: `run_to_completion` and `generate`
return, the server has served its requests, and nothing follows.

### Fairness

`FairSpec` is weak fairness of `Schedule \/ Forward`: `schedule()` and `step()`
are synchronous code without waiting, and the owner calls them in
`while self.scheduler.has_work()` (`src/engine.rs:95`). Nobody is obliged to
submit, to send eos, or to pick any particular token. `FairEngineSpec` is weak
fairness of the loop once it is called, and the `FairSpec` of `Speculative` that of the steps
of `generate`, which is straight-line code. `FairServerSpec` is weak fairness of
the handler once it has a request: no client is obliged to send one. No strong fairness is assumed anywhere;
that the queue is served is a consequence of the order, not an assumption.

## Where the code and its documentation disagree

Each is a run that expects a violation, with a counterexample by TLC.

* `retire_next_schedule`. "Force retirement on the next schedule"
  (`src/scheduler.rs:282`): the preemption pass comes before the retirement
  pass and may choose a sequence that is already complete; it goes back to the
  queue, and is admitted and prefilled again only to be retired.
* `outgrown_livelock`. "it never deadlocks" (`src/scheduler.rs:21-22`,
  `README.md:98`, `wiki/Continuous-Batching.md:55`): a request whose text outgrows the
  whole cache is admitted and preempted for ever. The argument given, that freeing a
  sequence releases at least what the step needs, does not help when the freed
  sequence is the one that needs it. `EveryRequestFinishes` shows that this is
  the only way: if each request fits by itself, all finish.
* `oversized_starves`. "must not ... starve other work indefinitely"
  (test comment, `src/scheduler.rs:399-400`): an oversized prompt at the front
  blocks the queue.
* `draft_shows_in_output`. "The output is provably identical to plain target
  decoding" (`README.md:60`): a proposal that the target would not have chosen
  is accepted with probability p / q and stays in the text. The test the README names
  uses one model for both; that case is what `ImplementsTargetDecode` in the run
  `speculative` confirms. The counterexample is over the pair of models the
  benchmark runs, with hashes of one context each; with the real hash and the benchmark's
  64 prompts it happens too, once: request 60 keeps a token (135) where the target's choice
  is 128 (computed outside these models).
* `stream_reassembles`. "streaming one token at a time reassembles to the same
  string as decoding the whole vector" (`wiki/Model-and-Tokeniser.md:135`): the
  two bytes of one character stream as two replacement characters. The test
  named there encodes ASCII. `AnswersAgree` shows that this is the only way they differ.

Not worth a run: the comment at `src/tokeniser.rs:23-25` says that eos and
out-of-range ids "render as a visible placeholder"; `decode` leaves them out,
as the wiki and the test `eos_is_reserved_and_skipped` say.

## Proofs

Every theorem is about the specification the runs check, with the constants left
open under the assumptions the modules name: every set of ids
(`SeqIds \subseteq Nat` where they are compared), `NumBlocks \in Nat`,
`BlockSize \in Nat \ {0}` (the code's `assert!`), every batch size, every set of
prompts and limits, every vocabulary, lookahead and iteration limit.

### The cache (`KVCacheProofs`, `PagedKVCacheProofs`)

* `Inductive`: `Spec => []IInv`, and from it `TypeCorrect`, `BlocksNeverShared`,
  `BlocksNeverLost`, `SlackIsBounded`, `PeakIsCorrect`;
* `StoredTokensStay`: the action property `TablesOnlyGrow`;
* `IsTokenPool`: the refinement `ImplementsTokenPool`.

`IInv` is the conjunction of the type invariant and the four safety invariants.
None of them is inductive alone. `PeakIsHighWater` needs `UsedBlocks` to be
natural, hence a free list without repetitions: a duplicate-free sequence over
the blocks is no longer than there are blocks (`NoLongerThanBlocks`, by the
finite-set theorems). That needs `NoBlockShared`: a freed table has no
repetition and does not meet the free list. `SlackBounded` needs that `append`
takes exactly `BlocksNeededFor` blocks, which is the arithmetic of rounding up
(`CeilDivBounds`, `BlocksNeeded`). `KVCacheProofs` has one lemma per method that
says what it does to a sound cache (`AdmitSound`, `AppendSound`, `FreeSound`),
about the value and not about a variable, so that proofs about the scheduler can
cite them too.

The refinement counts twice. `TokenPool` adds up what each sequence costs,
rounded up; the code subtracts the length of the free list. `Shares` gives each
sequence one element for each block it costs, so that the sum is a cardinality,
and `SharesAreBlocks` pairs the shares with the blocks in use, one to one:
block `i` of a table with share `i` of its sequence, all of them because no block
is lost, none twice because none is shared. A table has as many blocks as its
tokens cost (`CostIsBlocks`) because its slack is below the block size, which
leaves one multiple of the size to be the right one (`CeilDivUnique`). And what
`append` asks for with the slack taken off first is the difference of the
rounded-up totals (`GrowthIsNeed`). No sum over a set is computed by induction.

### The scheduler (`SchedulerProofs`, `SchedulerProgressProofs`)

* `SchedulerInvariant`: `Spec => []IInv`, with `IInv` in `SchedulerProperties`;
  from it `SchedulerTypeCorrect`, `RequestsNeverLost`, `BlocksBelongToBatch`,
  `CacheTracksContext`, `DecodeBatchRuns`;
* `LeastProgressedWaits`: `Spec => []ProgressOrder`;
* `TiesGoToTheOldest`: `SpecAscending => []NoOvertaking`;
* `CommitHasRoom`: `Spec => []CommitNeverFails`;
* `NoStepIsWasted`: `Spec => []StepMakesProgress`.

The first aim is `CacheMatchesContext`, and the rest of `IInv` is what it needs. That
a commit adds a slot to a sequence that has none reserved needs to know whom
the plan lists: nobody before the commit, then members of the batch at
positions the loop has passed (`PlanFollowsBatch`). That a push takes exactly
one reservation back needs a plan without repetitions, whose members retirement
has left alone because they are incomplete (`DecodeBatchIsRunning`). That an
admission finds no table under its id, and that a victim or a retired sequence
takes its whole table with it, needs `OnlyBatchHoldsBlocks`, and that an id that
moves is nowhere else is `NoRequestLost`. What each call does to the cache comes
from the lemmas of `KVCacheProofs`, so `IInv` also carries `CacheSound`: no
block is shared or lost under the scheduler either. There is one lemma per
action that moves anything, and `LoopSteps` for those that only go from loop to
loop. `ProgressOrder` is inductive together with `IInv`: a victim has the least
output of the batch, hence at least that of the queue it is put in front of,
and only members of the batch, which are not in the queue, generate. `NoOvertaking`
needs the choice among equals as well: the victim is the youngest of the least
progressed, and a new request is younger than all.

What the steps achieve is not a property of single states, so `ProgressInv`
carries it from loop to loop. Preemption ends with `RoomForRest`: what the rest
of the batch will ask for, counted as the set of pairs of a position and a block
(`Slots`), is at most what is free. Each turn of the commit takes its own pairs
out of both sides. For `NoStepIsWasted`, admission does not leave the batch empty
(`BatchBusy`: with no batch no block is used, and a request that fits is admitted
to an empty cache), preemption does not empty it (a batch of one that fits has
room, `LoneBatchFits`), the commit passes only complete sequences by
(`CommitCovers`), so a step that decodes nothing has a batch of complete
sequences only and retires the first (`RetireWorks`). "Fits" is too strong to be
used here: the server's requests need not fit. What the argument needs is that
no request is `Hopeless`, which is to have grown until the cache has no slot for
another token; a request that fits never becomes hopeless.

### The engine (`EngineProofs`)

* `EngineTypeCorrect`: `EngineSpec => []EngineTypeOK`;
* `IterationsArePaid`: `EngineSpec => []IterationsBounded`;
* `EngineIsGreedy`: the refinement `ImplementsGreedyDecode`.

An engine step is a scheduler step or leaves the scheduler alone
(`EngineStepsSchedule`), so `EngineInv` starts from `ProgressInv`. To it come
what the loop knows: the pairs emitted are those of the plan up to `pos`, in its
order and one for each sequence (`EmittedFollowsBatch`); a sequence's output is the
text collected for its request, and one token more while a pair is on its way, which
is the model's answer to that text (`TextFollowsOutput`), whatever preemptions lie between;
a sequence has the prompt it was submitted with, and its limit until eos lowers it
(`LimitsAsSubmitted`); only complete sequences are retired (`FinishedAreComplete`).
With that every step maps: a forward pass to a question to the model, the
collection of a pair to one greedy step of one request on its own context, the return
to the end, where no work means that no request is open, and
scheduling and preemption to a stutter. `IterationsBounded` follows from
`StepWorks`: an iteration that ends has handed a token over or retired a request,
and each pair of a request and a position is handed over once
(`IterationsArePaidFor`).

### The speculative decoder (`SpeculativeProofs`)

* `TypeCorrect`, `TokensFit`, `RoundsEnd`, `TextIsCut`, `DraftsPaid`: the five
  invariants of the run;
* `Implements`: the refinement `ImplementsTargetDecode`, for models that agree.

The properties are about the text, which only `collect` changes, so the invariant
says of each phase what will become of it: the draft's run is its choices one
after the other (`Drafted`), what has been verified of it is its prefix with no
eos inside (`Verified`). That models only ever
learn (`ModelsRemember`) keeps each token the choice of a model in later states.
`DraftsArePaidFor` compares the totals with the number of contexts each model was
asked about, and so catches a round that is counted wrongly wherever it ends, cut by
`max_new` or not. It holds because the target is never asked twice about one context:
all it was asked about is shorter than what comes next (`Fresh`), so each question adds
one (`AskedAhead`), and the questions of a round that is still being verified are taken
out of the account until it is counted (`Paid`). The draft may be asked again about
a context it had, after a rejection that left the same token, so for it there is
only a lower bound. A round that is followed by another was not ended by an
accepted eos (`RoundGoesOn`, from `CutExactly`).
In the refinement, a call of the target is a question, and only what `collect`
passes on decodes: it is the choice of the target or, where the draft was accepted, of a
draft that agrees with the target on the same context.

### The model (`TinyTransformerProofs`)

* `PeakWins`: unless it is the masked eos, the pinned token or the one the hash
  selects is the argmax;
* `ShortContextNeverEos`: after fewer than four tokens the answer is a token
  other than eos. If the peak is eos, its neighbours have the highest logit
  left, and the lower one answers, or 1 above 0.

Both need what a logit is in terms of the distance to the peak (`LogitOf`), and
that the argmax is the smallest of the highest (`SmallestIsMin`, `OnlyMaximum`).
`ShortPromptsAreAnswered` rests on the second.

### The server (`ServerProofs`)

* `ServerTypeCorrect`, `PromptsRoundTrip`, `ShortPromptsAreAnswered`,
  `EndpointsAgree`: the four invariants of the run;
* `ServerImplementsService`: the refinement `ImplementsCompletionService`.

`ServerAssumption` says what the code guarantees (a prompt is a `String`, hence whole
characters; the server's model and tokeniser share eos) and takes from `default_state`
(`src/lib.rs:36-46`) that the batch holds a request and the vocabulary
more than eos: an `AppState` with a batch size of 0 would answer everything with
nothing, at the loop's guard.

*Alone in an engine.* The server gives each request an engine of its own, so
`LoneInv` adds to `EngineInv` what is true of a single request. Its text is greedy
in terms of positions, not only step by step: token `i` is the model's answer to the
prompt and the `i - 1` tokens before (`TextIsGreedy`). A token was pushed into a
slot of the cache, so prompt and text are never longer than it (`OutputHadRoom`).
And each iteration gives the request exactly one token as long as it is open and
the cache has a slot (`TokenEachIteration`): by `StepWorks`, as nothing is retired
(`ListedIsRetired`) and a request below the size of the cache is not hopeless,
the plan cannot be empty, and with one id it has one entry (`LoneBatch`). The count
of iterations thus bounds the text from below as well, and when the loop
returns the text is cut exactly where one of limit, cache, guard and eos cuts it
(`ReturnedIsCut`). A prompt that outgrows its cache is preempted, and its iterations
go by without a token, until the guard.

*One request after another.* `ServerInv` adds that the engine's only request is the one
in service (`RequestTaken`), that all that is known of the model is what
`TinyTransformer` answers (`ModelServed`), and that each answer in the history is greedy
for the model as it is known now and cut where it must be (`HistoryAnswered`). A new
engine satisfies `LoneInv` with any model (`NewlyBuiltIsLone`): nothing has to be known
about the request before. An answer stays greedy when the model is asked more
(`GreedyKept`). `CompletionService` defines an answer by recursion along the text;
`DecodingIs` shows that a text greedy at each position that is not extended by
the recursion is its only value. So equal questions have equal tokens, which is most
of `EndpointsAgree`.

*The tokeniser.* What `FromUtf8Lossy`, `Decode` and `FlattenSeq` compute is stated one
turn of their loops at a time: `Read`, `Kept` and `Joined` say that a run of the loop over
these elements ends in this state, and there is a lemma for no element, for one more, and for
the result (`ReadNothing`, `ReadOne`, `ReadAll`, and so on). `RoundTrip` follows character by
character (`ReadCharacter`, `ReadText`). `EventsAddUp` follows token by token: an event that is not
the replacement character is a whole character or nothing, so the decoder
has nothing pending between tokens.

The induction is over sets of numbers (`Induction`, `InductionTo`): a set that has 0, and with
each number the next, has all, since otherwise what it lacks had a least element
(`WFMin` for `<`). The facts about data are put as such sets, so the induction
theorems that take an operator are not needed, and neither are `RECURSIVE` operators:
recursion is by functions.

### Only model-checked

All liveness (`EveryRequestFinishes`, `RunFinishes`, `GenerateReturns`,
`EveryRequestIsAnswered`), which this prover does not reach, and
`PeakIsExactCapacity`, which relates the state to a renumbering of another run's.

## Not modelled, and the plan

1. Proofs: `PeakIsExactCapacity`, from `SchedulerProofs`.
2. The scheduler without the precondition of unique ids, and with a batch size of 0.
   No caller in `src/` does either;
   `PROJECT.json` keeps them as hazards without a property. `cache_mut`, which would let
   an owner evict behind the scheduler's back, is called nowhere outside tests and stays out.

Out of scope: the HTTP stack, serialisation, `/healthz`, how requests occupy the
runtime's threads, the clock and the printing of the benchmark, the hash
inside `TinyTransformer` (any number stands for it), the softmax, and floating
point beyond what the acceptance test decides.
