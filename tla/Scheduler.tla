----------------------------- MODULE Scheduler -----------------------------
(***************************************************************************)
(* The continuous batching scheduler of src/scheduler.rs over the paged    *)
(* cache.  schedule() is modelled one loop iteration at a time: `pc` is    *)
(* the loop it is in and `pos` the position of the loops that walk a       *)
(* vector.  Between two calls pc is "idle".  In "forward" schedule() has   *)
(* returned `plan` and its caller pushes one token for each member of      *)
(* plan.decode_batch, in order, as Engine::step does; the token and        *)
(* whether it ends the sequence are the caller's.  Faults are as in        *)
(* KVCache: wrong variants that no specification uses.                     *)
(***************************************************************************)
EXTENDS KVCache, SequencesExt

CONSTANTS
    Token,          \* token ids
    Prompts,        \* the prompts requests are submitted with
    MaxNews,        \* the max_new_tokens requests are submitted with
    MaxBatchSize    \* SchedulerConfig.max_batch_size

ASSUME SchedulerAssumption ==
    /\ SeqIds \subseteq Nat
    /\ Prompts \subseteq Seq(Token)
    /\ MaxNews \subseteq Nat
    /\ MaxBatchSize \in Nat

VARIABLES
    cache,      \* the PagedKVCache
    seqs,       \* partial function: the Sequence of every submitted id
    waiting,    \* VecDeque: ids, front first
    running,    \* Vec: ids, batch order
    plan,       \* the StepPlan being built, or being executed by the caller
    pc,
    pos

vars == <<cache, seqs, waiting, running, plan, pc, pos>>

SeqState == {"Waiting", "Running", "Preempted", "Finished"}

Sequence == [prompt         : Seq(Token),
             output         : Seq(Token),
             max_new_tokens : Nat,
             state          : SeqState]

NewSequence(prompt, max) ==
    [prompt |-> prompt, output |-> <<>>, max_new_tokens |-> max,
     state |-> "Waiting"]

StepPlan == [admitted     : Seq(SeqIds),
             decode_batch : Seq(SeqIds),
             preempted    : Seq(SeqIds),
             finished     : Seq(SeqIds)]

EmptyPlan == [admitted |-> <<>>, decode_batch |-> <<>>,
              preempted |-> <<>>, finished |-> <<>>]

OutputLen(s) == Len(seqs[s].output)

TotalLen(s) == Len(seqs[s].prompt) + Len(seqs[s].output)

IsComplete(s) == OutputLen(s) >= seqs[s].max_new_tokens

HasWork == waiting /= <<>> \/ running /= <<>>

-----------------------------------------------------------------------------
Init ==
    /\ cache = NewCache
    /\ seqs = <<>>
    /\ waiting = <<>>
    /\ running = <<>>
    /\ plan = EmptyPlan
    /\ pc = "idle"
    /\ pos = 1

\* Ids are unique within a scheduler's lifetime, as wiki/Engine.md requires of
\* the callers of submit.
Submit(s, prompt, max) ==
    /\ pc = "idle"
    /\ s \notin DOMAIN seqs
    /\ seqs' = [t \in DOMAIN seqs \cup {s} |->
                    IF t = s THEN NewSequence(prompt, max) ELSE seqs[t]]
    /\ waiting' = Append(waiting, s)
    /\ UNCHANGED <<cache, running, plan, pc, pos>>

StartSchedule ==
    /\ pc = "idle"
    /\ plan' = EmptyPlan
    /\ pc' = "admit"
    /\ UNCHANGED <<cache, seqs, waiting, running, pos>>

-----------------------------------------------------------------------------
(* Step 1: admission *)

\* One turn of the loop tries the front of the queue.
CanTryFront == Len(running) < MaxBatchSize /\ waiting /= <<>>

\* Fault: a preempted sequence comes back with room for its prompt only.
PromptOnly(s) == Len(seqs[s].prompt)

\* A preempted sequence keeps its output and needs room for it again.
TokensToPlace(s) == TotalLen(s)

AdmitFront ==
    LET id     == Head(waiting)
        placed == Admit(cache, id)
    IN  /\ pc = "admit"
        /\ CanTryFront
        /\ CanAppend(placed, id, TokensToPlace(id))
        /\ cache' = AppendTokens(placed, id, TokensToPlace(id))
        /\ waiting' = Tail(waiting)
        /\ running' = Append(running, id)
        /\ seqs' = [seqs EXCEPT ![id].state = "Running"]
        /\ plan' = [plan EXCEPT !.admitted = Append(@, id)]
        /\ UNCHANGED <<pc, pos>>

\* Fault: the admit is not undone.
AdmitFailsWithoutRollback ==
    LET id     == Head(waiting)
        placed == Admit(cache, id)
    IN  /\ pc = "admit"
        /\ CanTryFront
        /\ ~CanAppend(placed, id, TokensToPlace(id))
        /\ cache' = placed
        /\ pc' = "preempt"
        /\ UNCHANGED <<seqs, waiting, running, plan, pos>>

\* The append fails: the admit is undone and admission ends for this step.
AdmitFails ==
    LET id     == Head(waiting)
        placed == Admit(cache, id)
    IN  /\ pc = "admit"
        /\ CanTryFront
        /\ ~CanAppend(placed, id, TokensToPlace(id))
        /\ cache' = Free(placed, id)
        /\ pc' = "preempt"
        /\ UNCHANGED <<seqs, waiting, running, plan, pos>>

AdmitStops ==
    /\ pc = "admit"
    /\ ~CanTryFront
    /\ pc' = "preempt"
    /\ UNCHANGED <<cache, seqs, waiting, running, plan, pos>>

-----------------------------------------------------------------------------
(* Steps 2 and 3: make room for one token per decoding sequence *)

IsRunning(s) == seqs[s].state = "Running"

\* Fault: complete sequences decode as well.
WillDecodeAlways(s) == IsRunning(s)

WillDecode(s) == IsRunning(s) /\ ~IsComplete(s)

\* The sum of blocks_needed_for(s, 1), as the number of blocks asked for by
\* the positions `from` and after of the running batch.
Demand(from) ==
    Cardinality(UNION {{i} \X (1 .. BlocksNeededFor(cache, running[i], 1)) :
        i \in {j \in from .. Len(running) : WillDecode(running[j])}})

\* Fault: each sequence is checked by itself.
BatchFitsOneByOne ==
    \A i \in DOMAIN running :
        WillDecode(running[i]) =>
            BlocksNeededFor(cache, running[i], 1) <= FreeBlocks(cache)

\* Fault: a step may not take the last free block.
BatchFitsStrict == Demand(1) < FreeBlocks(cache)

BatchFits == Demand(1) <= FreeBlocks(cache)

\* Fault: ties go to the smallest id, for want of Reverse.
LessProgressedBySmallestId(s, t) ==
    \/ OutputLen(s) < OutputLen(t)
    \/ OutputLen(s) = OutputLen(t) /\ s <= t

\* Least output first, ties broken by the largest id.
LessProgressed(s, t) ==
    \/ OutputLen(s) < OutputLen(t)
    \/ OutputLen(s) = OutputLen(t) /\ s >= t

IsVictim(i) ==
    /\ IsRunning(running[i])
    /\ \A j \in DOMAIN running :
        IsRunning(running[j]) => LessProgressed(running[i], running[j])

\* Fault: the victim goes to the back of the queue.
RequeuedBack(s) == Append(waiting, s)

\* Fault: the victim is not put back into the queue.
RequeuedNever(s) == waiting

\* The queue with a victim pushed to its front.
Requeued(s) == <<s>> \o waiting

\* Fault: recomputation starts over without the output so far.
PreemptedForgets(seq) == [seq EXCEPT !.state = "Preempted", !.output = <<>>]

Preempted(seq) == [seq EXCEPT !.state = "Preempted"]

PreemptVictim(i) ==
    LET victim == running[i]
    IN  /\ pc = "preempt"
        /\ ~BatchFits
        /\ IsVictim(i)
        /\ running' = RemoveAt(running, i)
        /\ cache' = Free(cache, victim)
        /\ seqs' = [seqs EXCEPT ![victim] = Preempted(@)]
        /\ plan' = [plan EXCEPT !.preempted = Append(@, victim)]
        /\ waiting' = Requeued(victim)
        /\ UNCHANGED <<pc, pos>>

PreemptStops ==
    /\ pc = "preempt"
    /\ BatchFits \/ \A i \in DOMAIN running : ~IsRunning(running[i])
    /\ pc' = "commit"
    /\ pos' = 1
    /\ UNCHANGED <<cache, seqs, waiting, running, plan>>

-----------------------------------------------------------------------------
(* Step 2, commit: reserve the slot and record the batch *)

CommitNext ==
    LET id == running[pos]
    IN  /\ pc = "commit"
        /\ pos <= Len(running)
        /\ IF WillDecode(id) /\ CanAppend(cache, id, 1)
           THEN /\ cache' = AppendTokens(cache, id, 1)
                /\ plan' = [plan EXCEPT !.decode_batch = Append(@, id)]
           ELSE UNCHANGED <<cache, plan>>
        /\ pos' = pos + 1
        /\ UNCHANGED <<seqs, waiting, running, pc>>

CommitStops ==
    /\ pc = "commit"
    /\ pos > Len(running)
    /\ pc' = "retire"
    /\ pos' = 1
    /\ UNCHANGED <<cache, seqs, waiting, running, plan>>

-----------------------------------------------------------------------------
(* Step 4: retirement; positions before pos hold still_running *)

RetireNext ==
    LET id == running[pos]
    IN  /\ pc = "retire"
        /\ pos <= Len(running)
        /\ IsComplete(id)
        /\ seqs' = [seqs EXCEPT ![id].state = "Finished"]
        /\ cache' = Free(cache, id)
        /\ plan' = [plan EXCEPT !.finished = Append(@, id)]
        /\ running' = RemoveAt(running, pos)
        /\ UNCHANGED <<waiting, pc, pos>>

KeepNext ==
    /\ pc = "retire"
    /\ pos <= Len(running)
    /\ ~IsComplete(running[pos])
    /\ pos' = pos + 1
    /\ UNCHANGED <<cache, seqs, waiting, running, plan, pc>>

RetireStops ==
    /\ pc = "retire"
    /\ pos > Len(running)
    /\ pc' = "forward"
    /\ pos' = 1
    /\ UNCHANGED <<cache, seqs, waiting, running, plan>>

-----------------------------------------------------------------------------
(* The caller's half of a step *)

\* The sequence push_token leaves: eos caps the limit at what is there.
Pushed(seq, token, is_eos) ==
    LET output == Append(seq.output, token)
    IN  [seq EXCEPT !.output = output,
                    !.max_new_tokens = IF is_eos THEN Len(output) ELSE @]

PushToken(token, is_eos) ==
    LET id == plan.decode_batch[pos]
    IN  /\ pc = "forward"
        /\ pos <= Len(plan.decode_batch)
        /\ IF id \in Range(running)
           THEN seqs' = [seqs EXCEPT ![id] = Pushed(@, token, is_eos)]
           ELSE UNCHANGED seqs
        /\ pos' = pos + 1
        /\ UNCHANGED <<cache, waiting, running, plan, pc>>

\* The caller drops the plan.
EndStep ==
    /\ pc = "forward"
    /\ pos > Len(plan.decode_batch)
    /\ plan' = EmptyPlan
    /\ pc' = "idle"
    /\ pos' = 1
    /\ UNCHANGED <<cache, seqs, waiting, running>>

-----------------------------------------------------------------------------
Schedule ==
    \/ StartSchedule
    \/ AdmitFront
    \/ AdmitFails
    \/ AdmitStops
    \/ \E i \in DOMAIN running : PreemptVictim(i)
    \/ PreemptStops
    \/ CommitNext
    \/ CommitStops
    \/ RetireNext
    \/ KeepNext
    \/ RetireStops

Forward ==
    \/ \E token \in Token, is_eos \in BOOLEAN : PushToken(token, is_eos)
    \/ EndStep

SubmitAny ==
    \E s \in SeqIds, prompt \in Prompts, max \in MaxNews : Submit(s, prompt, max)

Next == SubmitAny \/ Schedule \/ Forward

Spec == Init /\ [][Next]_vars

\* A step once begun runs on, and the owner of the scheduler keeps stepping
\* while there is work (`while has_work()` in Engine::run_to_completion).
\* Nobody has to submit anything.
FairSpec == Spec /\ WF_vars(Schedule \/ Forward)
=============================================================================
