------------------------ MODULE SchedulerProperties ------------------------
(***************************************************************************)
(* What makes the scheduler correct, as invariants and temporal formulas   *)
(* over the state of Scheduler.                                            *)
(***************************************************************************)
EXTENDS Scheduler

Submitted(s) == s \in DOMAIN seqs

IsFinished(s) == Submitted(s) /\ seqs[s].state = "Finished"

InBatch(s) == s \in Range(running)

InQueue(s) == s \in Range(waiting)

\* A request the cache can carry to its limit when it has the cache to itself.
\* The last token needs a slot when prompt and max_new_tokens - 1 are stored.
Fits(s) ==
    CeilDiv(Len(seqs[s].prompt) + seqs[s].max_new_tokens, BlockSize) <= NumBlocks

AllFit == \A s \in DOMAIN seqs : Fits(s)

\* Slots committed in this step whose token the caller has not pushed yet.
Reserved ==
    {plan.decode_batch[i] :
        i \in {j \in DOMAIN plan.decode_batch : pc = "forward" => j >= pos}}

-----------------------------------------------------------------------------
(* Safety *)

\* Types of the scheduler's state (scheduler.rs:36-56, 83-93, 120-125).
TypeOK ==
    /\ IsCache(cache)
    /\ DOMAIN seqs \subseteq SeqIds
    /\ seqs \in [DOMAIN seqs -> Sequence]
    /\ waiting \in Seq(DOMAIN seqs)
    /\ running \in Seq(DOMAIN seqs)
    /\ plan \in StepPlan
    /\ pc \in {"idle", "admit", "preempt", "commit", "retire", "forward"}
    /\ pos \in Nat \ {0}

\* No request is lost or duplicated on its way through the queue and the
\* batch: every submitted id is in exactly one of the queue, the batch and the
\* finished, once, and its state says which (scheduler.rs:36-45; schedule()
\* moves sequences between the two containers at 193-196, 236-240, 261-271).
NoRequestLost ==
    /\ IsInjective(waiting)
    /\ IsInjective(running)
    /\ \A s \in DOMAIN seqs :
        /\ InQueue(s) <=> seqs[s].state \in {"Waiting", "Preempted"}
        /\ InBatch(s) <=> seqs[s].state = "Running"

\* Exactly the running sequences hold blocks: a queued or finished one has
\* given everything back (scheduler.rs:201, 237, 265), so no memory is
\* stranded, and each running one has a table to decode into.
OnlyBatchHoldsBlocks == DOMAIN cache.tables = Range(running)

\* The cache stores for a running sequence exactly its context, plus the one
\* slot reserved for the token of this step until the caller pushes it: over
\* admissions, preemptions and recomputation the two counts never drift.
CacheMatchesContext ==
    \A s \in Range(running) :
        SeqLen(cache, s) = TotalLen(s) + (IF s \in Reserved THEN 1 ELSE 0)

\* The append of the commit loop never fails: preemption has freed enough for
\* the whole rest of the batch ("Should not happen after preemption",
\* scheduler.rs:253-256).
CommitNeverFails ==
    pc = "commit" =>
        \A i \in pos .. Len(running) :
            WillDecode(running[i]) =>
                /\ Demand(pos) <= FreeBlocks(cache)
                /\ CanAppend(cache, running[i], 1)

\* Everything the caller is told to decode is still in the batch, once, and is
\* short of its limit when its token arrives: retirement comes after the batch
\* is recorded, yet `expect("decode_batch ids are running")` (engine.rs:58-61)
\* never fires and push_token (scheduler.rs:276-286) never drops a token.
DecodeBatchIsRunning ==
    /\ IsInjective(plan.decode_batch)
    /\ Range(plan.decode_batch) \subseteq Range(running)
    /\ \A s \in Reserved : ~IsComplete(s)

\* Least progressed goes first, as an order on the whole state: nobody in the
\* queue has more output than anybody in the batch, and the queue itself never
\* rises towards the back.  So work with output always resumes before work that
\* has less, whatever the sequence of preemptions and admissions; who goes
\* first at equal output is left to NoOvertaking
\* (scheduler.rs:18-22, 222-231, 240).
ProgressOrder ==
    /\ \A i \in DOMAIN running, j \in DOMAIN waiting :
        OutputLen(running[i]) >= OutputLen(waiting[j])
    /\ \A i, j \in DOMAIN waiting :
        i < j => OutputLen(waiting[i]) >= OutputLen(waiting[j])

\* When ids grow in submission order, ties go to the older request as well:
\* at equal output nobody in the queue is older than anybody in the batch,
\* and the queue is in submission order ("breaking ties by largest id",
\* scheduler.rs:222-223).
NoOvertaking ==
    /\ \A i \in DOMAIN running, j \in DOMAIN waiting :
        OutputLen(running[i]) = OutputLen(waiting[j]) => running[i] < waiting[j]
    /\ \A i, j \in DOMAIN waiting :
        i < j /\ OutputLen(waiting[i]) = OutputLen(waiting[j])
            => waiting[i] < waiting[j]

\* No step is wasted: if every request fits the cache by itself, a schedule()
\* that leaves work behind has decoded or retired something.  Preemption never
\* empties the batch, and admission never leaves an empty batch empty.
StepMakesProgress ==
    pc = "forward" /\ AllFit /\ MaxBatchSize > 0 /\ HasWork =>
        plan.decode_batch /= <<>> \/ plan.finished /= <<>>

\* What the plan says on its way: it is empty until the commit, and then lists
\* members of the batch that the commit has passed (scheduler.rs:175, 247-258).
PlanFollowsBatch ==
    /\ pc \in {"idle", "admit", "preempt"} => plan.decode_batch = <<>>
    /\ pc = "commit" =>
        \A s \in Range(plan.decode_batch) :
            \E i \in DOMAIN running : i < pos /\ running[i] = s

\* The inductive invariant.  CacheMatchesContext needs to know which slots are
\* reserved (DecodeBatchIsRunning, PlanFollowsBatch), which sequences have a
\* table (OnlyBatchHoldsBlocks), and that a sequence that moves is nowhere
\* else (NoRequestLost).
IInv ==
    /\ TypeOK
    /\ CacheSound(cache)
    /\ NoRequestLost
    /\ OnlyBatchHoldsBlocks
    /\ CacheMatchesContext
    /\ DecodeBatchIsRunning
    /\ PlanFollowsBatch

-----------------------------------------------------------------------------
(* Callers that number requests as they come, like run_to_completion's. *)

AscendingIds ==
    \A s \in DOMAIN seqs' \ DOMAIN seqs, t \in DOMAIN seqs : t < s

SpecAscending == Init /\ [][Next /\ AscendingIds]_vars

-----------------------------------------------------------------------------
(* Liveness *)

\* Every request is finished eventually, if every request fits the cache by
\* itself: preemption and recomputation never livelock (scheduler.rs:18-22).
EveryRequestFinishes ==
    []AllFit => \A s \in SeqIds : Submitted(s) ~> IsFinished(s)

-----------------------------------------------------------------------------
(* What the repository says of the scheduler and the code does not do.     *)

\* "Force retirement on the next schedule by capping the limit"
\* (scheduler.rs:282): a sequence completed by a pushed token is retired by
\* the next schedule(), so none is ever back in the queue.
RetiredOnNextSchedule ==
    \A s \in Range(waiting) : seqs[s].output /= <<>> => ~IsComplete(s)

\* "This is the recompute-based preemption strategy: simple, and it never
\* deadlocks" (scheduler.rs:21-22): every request that is submitted finishes.
NeverStuck == \A s \in SeqIds : Submitted(s) ~> IsFinished(s)

\* An oversized prompt "must not crash the scheduler or starve other work
\* indefinitely" (scheduler.rs:399-400): a request that fits finishes.
OversizedStarvesNobody ==
    \A s \in SeqIds : (Submitted(s) /\ Fits(s)) ~> IsFinished(s)
=============================================================================
