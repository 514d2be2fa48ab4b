---------------------------- MODULE EngineProofs ----------------------------
(***************************************************************************)
(* The engine: its types, the bound on its iterations, and that what it    *)
(* collects is greedy decoding.                                            *)
(***************************************************************************)
EXTENDS Engine, SchedulerProgressProofs

\* Outside a call of step() the scheduler is at rest, a new engine has handed
\* out nothing, and tokens are on their way from the forward pass to the
\* collection only.
PhaseFits ==
    /\ phase /= "running" => pc = "idle"
    /\ phase = "submitting" => outputs = <<>>
    /\ emitted /= <<>> => pc = "forward" \/ phase = "collecting"

\* What is emitted follows the batch, once for each sequence of it.
EmittedFollowsBatch ==
    /\ \A i \in DOMAIN emitted : emitted[i][1] \in DOMAIN seqs
    /\ \A i, j \in DOMAIN emitted : emitted[i][1] = emitted[j][1] => i = j
    /\ pc = "forward" =>
        /\ Len(emitted) = pos - 1
        /\ pos <= Len(plan.decode_batch) + 1
        /\ \A i \in DOMAIN emitted : emitted[i][1] = plan.decode_batch[i]

\* The model has said eos: no token follows (scheduler.rs:366-370).
EndsInEos(text) == text /= <<>> /\ text[Len(text)] = Eos

\* A sequence holds the prompt it was submitted with, and its limit is the one
\* it was submitted with until eos lowers it to what is there.
LimitsAsSubmitted ==
    \A s \in DOMAIN seqs :
        /\ seqs[s].prompt = requests[s].prompt
        /\ IF EndsInEos(seqs[s].output)
           THEN seqs[s].max_new_tokens = OutputLen(s)
           ELSE seqs[s].max_new_tokens = requests[s].max_new_tokens

\* A pair on its way: the model's answer to the text the caller has, which is
\* still open, and the sequence has it already.
OnItsWay(s, token) ==
    LET context == requests[s].prompt \o Text[s]
    IN  /\ seqs[s].output = Append(Text[s], token)
        /\ Len(Text[s]) < requests[s].max_new_tokens
        /\ ~EndsInEos(Text[s])
        /\ context \in DOMAIN model
        /\ model[context] = token

\* A token of the sequence is still to be collected.
Awaited(s) == \E i \in DOMAIN emitted : emitted[i][1] = s

\* The caller's text is the sequence's output, but for the token on its way.
TextFollowsOutput ==
    /\ \A i \in DOMAIN emitted : OnItsWay(emitted[i][1], emitted[i][2])
    /\ \A s \in DOMAIN seqs : ~Awaited(s) => seqs[s].output = Text[s]

\* Only complete sequences are retired.
FinishedAreComplete ==
    \A s \in DOMAIN seqs : seqs[s].state = "Finished" => IsComplete(s)

\* A step in progress has work left, or has retired the last of it.
WorkOrRetired == pc /= "idle" => HasWork \/ plan.finished /= <<>>

\* An iteration is paid for by a token handed over or a request retired: by a
\* request retired in it, or by what is still to be collected.
IterationsArePaidFor ==
    NoneHopeless /\ MaxBatchSize > 0 =>
        LET paid == Cardinality(Handed) + Cardinality(Retired)
        IN  /\ guard <= paid
            /\ pc /= "idle" /\ plan.finished /= <<>> => guard + 1 <= paid
            /\ phase = "collecting" => guard + 1 <= paid \/ emitted /= <<>>

\* The inductive invariant.
EngineInv ==
    /\ ProgressInv
    /\ EngineTypeOK
    /\ PhaseFits
    /\ EmittedFollowsBatch
    /\ LimitsAsSubmitted
    /\ TextFollowsOutput
    /\ FinishedAreComplete
    /\ WorkOrRetired
    /\ IsFiniteSet(Handed) /\ IsFiniteSet(Retired)
    /\ IterationsArePaidFor

-----------------------------------------------------------------------------
(* The scheduler under the engine                                          *)

\* A step of the engine is one of its scheduler, or leaves that alone.
LEMMA EngineStepsSchedule == [EngineNext]_allVars => [Next]_vars
<1>1. ASSUME NEW s \in SeqIds, NEW prompt \in Prompts, NEW max \in MaxNews,
             EngineSubmit(s, prompt, max)
      PROVE  Next
    BY <1>1 DEF EngineSubmit, Next, SubmitAny
<1>2. CASE StepStart
    BY <1>2 DEF StepStart, Next, Schedule
<1>3. CASE StepSchedule
    BY <1>3 DEF StepSchedule, Next
<1>4. ASSUME NEW token \in Token, StepForward(token)
      PROVE  Next
    <2>1. PushToken(token, token = Eos) /\ (token = Eos) \in BOOLEAN
        BY <1>4 DEF StepForward
    <2> QED
        BY <2>1 DEF Next, Forward
<1>5. CASE StepReturns
    BY <1>5 DEF StepReturns, Next, Forward
<1>6. CASE RunToCompletion \/ CollectNext \/ IterationEnds \/ RunReturns
    BY <1>6 DEF RunToCompletion, CollectNext, IterationEnds, RunReturns, vars
<1>7. CASE UNCHANGED allVars
    BY <1>7 DEF allVars, vars
<1> QED
    BY <1>1, <1>2, <1>3, <1>4, <1>5, <1>6, <1>7 DEF EngineNext, EngineStep

\* schedule() moves sequences about and changes nothing in them but the state.
LEMMA ScheduleKeepsText ==
    ASSUME IInv, Schedule
    PROVE  /\ DOMAIN seqs' = DOMAIN seqs
           /\ \A s \in DOMAIN seqs :
                /\ seqs'[s].prompt = seqs[s].prompt
                /\ seqs'[s].output = seqs[s].output
                /\ seqs'[s].max_new_tokens = seqs[s].max_new_tokens
<1>1. ASSUME NEW s \in DOMAIN seqs, NEW state,
             seqs' = [seqs EXCEPT ![s].state = state]
      PROVE  /\ DOMAIN seqs' = DOMAIN seqs
             /\ \A t \in DOMAIN seqs :
                /\ seqs'[t].prompt = seqs[t].prompt
                /\ seqs'[t].output = seqs[t].output
                /\ seqs'[t].max_new_tokens = seqs[t].max_new_tokens
    <2>1. \A t \in DOMAIN seqs : seqs[t] \in Sequence
        BY DEF IInv, TypeOK
    <2> QED
        BY <1>1, <2>1 DEF Sequence
<1>2. CASE AdmitFront
    <2>1. Head(waiting) \in DOMAIN seqs
        BY <1>2 DEF AdmitFront, CanTryFront, IInv, TypeOK
    <2>2. seqs' = [seqs EXCEPT ![Head(waiting)].state = "Running"]
        BY <1>2 DEF AdmitFront
    <2> QED
        BY <1>1, <2>1, <2>2
<1>3. ASSUME NEW i \in DOMAIN running, PreemptVictim(i)
      PROVE  \E s \in DOMAIN seqs :
                seqs' = [seqs EXCEPT ![s].state = "Preempted"]
    <2>1. seqs' = [seqs EXCEPT ![running[i]].state = "Preempted"]
        BY <1>3 DEF PreemptVictim, Preempted
    <2> QED
        BY <2>1, MemberFacts
<1>4. CASE RetireNext
    <2>1. pos \in DOMAIN running
        BY <1>4 DEF RetireNext, IInv, TypeOK
    <2>2. seqs' = [seqs EXCEPT ![running[pos]].state = "Finished"]
        BY <1>4 DEF RetireNext
    <2> QED
        BY <1>1, <2>1, <2>2, MemberFacts
<1>5. CASE UNCHANGED seqs
    BY <1>5
<1> QED
    BY <1>1, <1>2, <1>3, <1>4, <1>5
    DEF Schedule, StartSchedule, AdmitFails, AdmitStops, PreemptStops, CommitNext,
        CommitStops, KeepNext, RetireStops

\* schedule() finishes nobody, or one complete sequence that it lists.
LEMMA ScheduleRetires ==
    ASSUME IInv, Schedule
    PROVE  \/ /\ Retired' = Retired
              /\ plan'.finished = plan.finished \/ plan'.finished = <<>>
           \/ \E s \in DOMAIN seqs \ Retired :
                /\ Retired' = Retired \cup {s}
                /\ IsComplete(s)
                /\ plan'.finished /= <<>>
<1>1. ASSUME NEW s \in DOMAIN seqs, NEW state \in SeqState,
             seqs' = [seqs EXCEPT ![s].state = state]
      PROVE  Retired' = (IF state = "Finished" THEN Retired \cup {s}
                                               ELSE Retired \ {s})
    <2>1. /\ DOMAIN seqs' = DOMAIN seqs
          /\ \A t \in DOMAIN seqs :
                seqs'[t].state = IF t = s THEN state ELSE seqs[t].state
        BY <1>1, NewState DEF IInv
    <2> QED
        BY <2>1 DEF Retired, IsFinished, Submitted
<1>2. CASE AdmitFront
    <2>1. Head(waiting) \in DOMAIN seqs /\ Head(waiting) \in Range(waiting)
        BY <1>2 DEF AdmitFront, CanTryFront, IInv, TypeOK, Range
    <2>2. /\ seqs' = [seqs EXCEPT ![Head(waiting)].state = "Running"]
          /\ plan' = [plan EXCEPT !.admitted = Append(@, Head(waiting))]
        BY <1>2 DEF AdmitFront
    <2>3. Head(waiting) \notin Retired
        BY <2>1 DEF IInv, NoRequestLost, InQueue, Retired, IsFinished
    <2>4. Retired' = Retired
        BY <1>1, <2>1, <2>2, <2>3, ZenonT(30) DEF SeqState
    <2> QED
        BY <2>2, <2>4 DEF IInv, TypeOK, StepPlan
<1>3. ASSUME NEW i \in DOMAIN running, PreemptVictim(i)
      PROVE  Retired' = Retired /\ plan'.finished = plan.finished
    <2>1. /\ seqs' = [seqs EXCEPT ![running[i]].state = "Preempted"]
          /\ plan' = [plan EXCEPT !.preempted = Append(@, running[i])]
        BY <1>3 DEF PreemptVictim, Preempted
    <2>2. running[i] \in DOMAIN seqs /\ running[i] \notin Retired
        BY MemberFacts DEF Retired, IsFinished, IsRunning
    <2>3. Retired' = Retired \ {running[i]}
        BY <1>1, <2>1, <2>2 DEF SeqState
    <2>4. Retired' = Retired
        BY <2>2, <2>3
    <2> QED
        BY <2>1, <2>4 DEF IInv, TypeOK, StepPlan
<1>4. CASE RetireNext
    <2>1. pos \in DOMAIN running /\ IsComplete(running[pos])
        BY <1>4 DEF RetireNext, IInv, TypeOK
    <2>2. /\ seqs' = [seqs EXCEPT ![running[pos]].state = "Finished"]
          /\ plan' = [plan EXCEPT !.finished = Append(@, running[pos])]
        BY <1>4 DEF RetireNext
    <2>3. running[pos] \in DOMAIN seqs \ Retired /\ running[pos] \in SeqIds
        BY <2>1, MemberFacts, SeqParts DEF Retired, IsFinished, IsRunning, IInv
    <2>4. plan.finished \in Seq(SeqIds)
          /\ plan'.finished = Append(plan.finished, running[pos])
        BY <2>2 DEF IInv, TypeOK, StepPlan
    <2>5. plan'.finished /= <<>>
        BY <2>3, <2>4
    <2>6. Retired' = Retired \cup {running[pos]}
        BY <1>1, <2>2, <2>3 DEF SeqState
    <2> QED
        BY <2>1, <2>3, <2>5, <2>6
<1>5. ASSUME UNCHANGED seqs,
             plan'.finished = plan.finished \/ plan'.finished = <<>>
      PROVE  /\ Retired' = Retired
             /\ plan'.finished = plan.finished \/ plan'.finished = <<>>
    BY <1>5 DEF Retired, IsFinished, Submitted
<1>6. CASE CommitNext
    BY <1>5, <1>6 DEF CommitNext, IInv, TypeOK, StepPlan
<1>7. CASE StartSchedule
    BY <1>5, <1>7 DEF StartSchedule, EmptyPlan
<1> QED
    BY <1>2, <1>3, <1>4, <1>5, <1>6, <1>7
    DEF Schedule, AdmitFails, AdmitStops, PreemptStops, CommitStops, KeepNext,
        RetireStops

-----------------------------------------------------------------------------
(* The caller's text                                                       *)

\* Every request has a text, of tokens.
LEMMA TextFacts ==
    ASSUME EngineTypeOK
    PROVE  /\ DOMAIN Text = DOMAIN requests
           /\ \A s \in DOMAIN requests : Text[s] \in Seq(Token)
<1>1. <<>> \in Seq(Token)
    OBVIOUS
<1> QED
    BY <1>1 DEF EngineTypeOK, Text

\* The text changes with the requests and the outputs only.
LEMMA TextStays ==
    ASSUME UNCHANGED <<requests, outputs>>
    PROVE  Text' = Text /\ Handed' = Handed
<1>1. Text' = Text
    BY DEF Text
<1> QED
    BY <1>1 DEF Handed

\* A new request has no text, and nobody else has lost any.
LEMMA SubmitText ==
    ASSUME EngineTypeOK, NEW s \in SeqIds, NEW prompt \in Prompts,
           NEW max \in MaxNews, EngineSubmit(s, prompt, max)
    PROVE  /\ s \notin DOMAIN requests
           /\ DOMAIN requests' = DOMAIN requests \cup {s}
           /\ requests'[s] = [prompt |-> prompt, max_new_tokens |-> max]
           /\ \A t \in DOMAIN requests : requests'[t] = requests[t]
           /\ Text' = [t \in DOMAIN requests' |-> IF t = s THEN <<>> ELSE Text[t]]
           /\ Handed' = Handed
<1>1. /\ s \notin DOMAIN requests /\ s \notin DOMAIN outputs
      /\ outputs' = outputs
      /\ requests' = [t \in DOMAIN requests \cup {s} |->
                        IF t = s
                        THEN [prompt |-> prompt, max_new_tokens |-> max]
                        ELSE requests[t]]
    BY DEF EngineSubmit, Submit, EngineTypeOK
<1>2. DOMAIN requests' = DOMAIN requests \cup {s}
    BY <1>1
<1>3. Text' = [t \in DOMAIN requests' |-> IF t = s THEN <<>> ELSE Text[t]]
    BY <1>1, <1>2 DEF Text
<1>4. Handed' = Handed
    <2>1. \A t \in DOMAIN requests' :
            {t} \X DOMAIN Text'[t] = IF t = s THEN {} ELSE {t} \X DOMAIN Text[t]
        <3>1. {s} \X DOMAIN <<>> = {}
            OBVIOUS
        <3> QED
            BY <1>3, <3>1
    <2> QED
        BY <1>2, <2>1, <1>1 DEF Handed
<1> QED
    BY <1>1, <1>2, <1>3, <1>4

\* Collecting hands one token to its request.
LEMMA CollectText ==
    ASSUME EngineTypeOK, EmittedFollowsBatch, CollectNext,
           NEW s, NEW token, <<s, token>> = Head(emitted)
    PROVE  /\ s \in DOMAIN requests /\ token \in Token
           /\ DOMAIN outputs' = DOMAIN outputs \cup {s}
           /\ outputs' \in [DOMAIN outputs' -> Seq(Token)]
           /\ Text' = [Text EXCEPT ![s] = Append(@, token)]
           /\ Handed' = Handed \cup {<<s, Len(Text[s]) + 1>>}
           /\ <<s, Len(Text[s]) + 1>> \notin Handed
<1>1. /\ emitted \in Seq(SeqIds \X Token) /\ emitted /= <<>>
      /\ outputs' = Collected(outputs, Head(emitted))
      /\ UNCHANGED requests
    BY DEF CollectNext, EngineTypeOK
<1>2. /\ 1 \in DOMAIN emitted /\ Head(emitted) = emitted[1]
      /\ emitted[1][1] = s /\ emitted[1][2] = token
      /\ <<s, token>> \in SeqIds \X Token
    BY <1>1
<1>3. s \in DOMAIN requests /\ token \in Token
    BY <1>2 DEF EmittedFollowsBatch, EngineTypeOK
<1>4. outputs' = [t \in DOMAIN outputs \cup {s} |->
                    IF t = s
                    THEN Append(IF t \in DOMAIN outputs THEN outputs[t] ELSE <<>>, token)
                    ELSE outputs[t]]
    BY <1>1, <1>2 DEF Collected
<1>5. Text[s] \in Seq(Token) /\ Text[s] = IF s \in DOMAIN outputs THEN outputs[s] ELSE <<>>
    BY <1>3, TextFacts DEF Text
<1>6. Append(Text[s], token) \in Seq(Token)
    BY <1>3, <1>5
<1>7. /\ DOMAIN outputs' = DOMAIN outputs \cup {s}
      /\ outputs'[s] = Append(Text[s], token)
      /\ \A t \in DOMAIN outputs : t /= s => outputs'[t] = outputs[t]
    BY <1>4, <1>5
<1>8. outputs' \in [DOMAIN outputs' -> Seq(Token)]
    <2>1. \A t \in DOMAIN outputs' : outputs'[t] \in Seq(Token)
        BY <1>6, <1>7 DEF EngineTypeOK
    <2>2. outputs' = [t \in DOMAIN outputs' |-> outputs'[t]]
        BY <1>4
    <2> QED
        BY <2>1, <2>2
<1>9. Text' = [Text EXCEPT ![s] = Append(@, token)]
    <2>1. DOMAIN Text = DOMAIN requests
        BY TextFacts
    <2>2. \A t \in DOMAIN requests : Text'[t] = IF t = s THEN Append(Text[s], token) ELSE Text[t]
        BY <1>1, <1>3, <1>7 DEF Text
    <2>3. DOMAIN Text' = DOMAIN requests /\ Text' = [t \in DOMAIN requests |-> Text'[t]]
        BY <1>1 DEF Text
    <2> QED
        BY <2>1, <2>2, <2>3
<1>10. PICK n \in Nat : n = Len(Text[s]) /\ DOMAIN Text[s] = 1 .. n
                        /\ DOMAIN Append(Text[s], token) = 1 .. n + 1
    BY <1>3, <1>5
<1>11. Handed' = Handed \cup {<<s, n + 1>>}
    <2>1. 1 .. n + 1 = (1 .. n) \cup {n + 1}
        OBVIOUS
    <2>2. {s} \X DOMAIN Text'[s] = ({s} \X DOMAIN Text[s]) \cup {<<s, n + 1>>}
        BY <1>3, <1>9, <1>10, <2>1, TextFacts
    <2>3. \A t \in DOMAIN requests : t /= s => Text'[t] = Text[t]
        BY <1>9, TextFacts
    <2> QED
        BY <1>1, <1>3, <2>2, <2>3 DEF Handed
<1>12. <<s, n + 1>> \notin Handed
    BY <1>10 DEF Handed
<1> QED
    BY <1>3, <1>7, <1>8, <1>9, <1>10, <1>11, <1>12

-----------------------------------------------------------------------------
(* One token of the forward pass                                           *)

\* What StepForward does to the sequence it pushes to, which is running, short
\* of its limit, and has no token on its way yet.
LEMMA ForwardFacts ==
    ASSUME EngineInv, NEW token \in Token, StepForward(token),
           NEW s, s = plan.decode_batch[pos]
    PROVE  /\ pc = "forward" /\ pos \in DOMAIN plan.decode_batch
           /\ s \in DOMAIN seqs /\ s \in SeqIds /\ ~IsComplete(s)
           /\ ~Awaited(s)
           /\ DOMAIN seqs' = DOMAIN seqs
           /\ \A t \in DOMAIN seqs : t /= s => seqs'[t] = seqs[t]
           /\ seqs'[s].prompt = seqs[s].prompt
           /\ seqs'[s].state = seqs[s].state
           /\ seqs'[s].output = Append(seqs[s].output, token)
           /\ seqs'[s].max_new_tokens = IF token = Eos THEN OutputLen(s) + 1
                                        ELSE seqs[s].max_new_tokens
<1> USE DEF EngineInv, ProgressInv
<1>1. /\ pc = "forward" /\ pos \in DOMAIN plan.decode_batch
      /\ PushToken(token, token = Eos)
    BY DEF StepForward, PushToken, IInv, TypeOK, StepPlan
<1>2. s \in Reserved /\ s \in Range(plan.decode_batch)
    BY <1>1 DEF Reserved, Range, IInv, TypeOK
<1>3. s \in Range(running) /\ s \in DOMAIN seqs /\ ~IsComplete(s)
    BY <1>2, ReservedRoom DEF IInv, DecodeBatchIsRunning
<1>4. seqs' = [seqs EXCEPT ![s] = Pushed(@, token, token = Eos)]
    BY <1>1, <1>3 DEF PushToken
<1>5. /\ DOMAIN seqs' = DOMAIN seqs
      /\ \A t \in DOMAIN seqs : t /= s => seqs'[t] = seqs[t]
      /\ seqs'[s] = Pushed(seqs[s], token, token = Eos)
    BY <1>3, <1>4 DEF IInv, TypeOK
<1>6. seqs[s] \in Sequence /\ seqs[s].output \in Seq(Token) /\ s \in SeqIds
    BY <1>3, SeqParts DEF IInv
<1>7. Len(Append(seqs[s].output, token)) = OutputLen(s) + 1
    BY <1>6 DEF OutputLen
<1> HIDE DEF EngineInv, ProgressInv
<1>8. /\ seqs'[s].prompt = seqs[s].prompt
      /\ seqs'[s].state = seqs[s].state
      /\ seqs'[s].output = Append(seqs[s].output, token)
      /\ seqs'[s].max_new_tokens = IF token = Eos THEN OutputLen(s) + 1
                                   ELSE seqs[s].max_new_tokens
    BY <1>5, <1>6, <1>7 DEF Pushed, Sequence
<1>9. ~Awaited(s)
    <2> SUFFICES ASSUME NEW i \in DOMAIN emitted, emitted[i][1] = s
                 PROVE  FALSE
        BY DEF Awaited
    <2>1. /\ emitted \in Seq(SeqIds \X Token) /\ Len(emitted) = pos - 1
          /\ emitted[i][1] = plan.decode_batch[i]
          /\ plan.decode_batch \in Seq(SeqIds) /\ pos \in Nat
        BY <1>1 DEF EngineInv, EmittedFollowsBatch, EngineTypeOK, TypeOK, StepPlan
    <2>2. i \in DOMAIN plan.decode_batch /\ i /= pos
        BY <1>1, <2>1
    <2>3. IsInjective(plan.decode_batch)
        BY DEF EngineInv, ProgressInv, IInv, DecodeBatchIsRunning
    <2> QED
        BY <1>1, <2>1, <2>2, <2>3 DEF IsInjective
<1> QED
    BY <1>1, <1>3, <1>5, <1>6, <1>8, <1>9

-----------------------------------------------------------------------------
(* The steps, one part of the invariant after the other                    *)

\* The types are preserved.
LEMMA EngineTypeStep ==
    ASSUME EngineInv, TypeOK', [EngineNext]_allVars
    PROVE  EngineTypeOK'
<1> USE DEF EngineTypeOK
<1>1. EngineTypeOK /\ IInv
    BY DEF EngineInv, ProgressInv
<1>2. ASSUME NEW s \in SeqIds, NEW prompt \in Prompts, NEW max \in MaxNews,
             EngineSubmit(s, prompt, max)
      PROVE  EngineTypeOK'
    <2>1. /\ DOMAIN requests' = DOMAIN requests \cup {s}
          /\ DOMAIN seqs' = DOMAIN seqs \cup {s}
          /\ UNCHANGED <<model, emitted, outputs, guard, phase>>
        BY <1>2 DEF EngineSubmit, Submit
    <2> QED
        BY <1>1, <2>1
<1>3. CASE RunToCompletion
    <2>1. /\ UNCHANGED <<seqs, requests, model, emitted>>
          /\ outputs' = <<>> /\ guard' = 0 /\ phase' = "running"
        BY <1>3 DEF RunToCompletion, vars
    <2>2. DOMAIN outputs' = {} /\ outputs' \in [DOMAIN outputs' -> Seq(Token)]
        BY <2>1
    <2> QED
        BY <1>1, <2>1, <2>2
<1>4. CASE StepStart
    <2>1. /\ UNCHANGED <<seqs, requests, model, outputs, guard, phase>>
          /\ emitted' = <<>>
        BY <1>4 DEF StepStart, StartSchedule
    <2> QED
        BY <1>1, <2>1
<1>5. CASE StepSchedule
    <2>1. DOMAIN seqs' = DOMAIN seqs
        BY <1>1, <1>5, ScheduleKeepsText DEF StepSchedule
    <2>2. UNCHANGED <<requests, model, emitted, outputs, guard, phase>>
        BY <1>5 DEF StepSchedule, engineVars
    <2> QED
        BY <1>1, <2>1, <2>2
<1>6. ASSUME NEW token \in Token, StepForward(token)
      PROVE  EngineTypeOK'
    <2> DEFINE s == plan.decode_batch[pos]
    <2>1. s \in DOMAIN seqs /\ s \in SeqIds /\ DOMAIN seqs' = DOMAIN seqs
        BY <1>6, ForwardFacts
    <2>2. NextContext \in Seq(Token)
        <3>1. seqs[s].prompt \in Seq(Token) /\ seqs[s].output \in Seq(Token)
            BY <1>1, <2>1 DEF TypeOK, Sequence
        <3> QED
            BY <3>1 DEF NextContext
    <2>3. /\ model' = [c \in DOMAIN model \cup {NextContext} |->
                        IF c = NextContext THEN token ELSE model[c]]
          /\ emitted' = Append(emitted, <<s, token>>)
          /\ UNCHANGED <<requests, outputs, guard, phase>>
        BY <1>6 DEF StepForward
    <2> HIDE DEF s
    <2>4. emitted' \in Seq(SeqIds \X Token)
        <3>1. <<s, token>> \in SeqIds \X Token
            BY <2>1
        <3> QED
            BY <1>1, <2>3, <3>1
    <2>5. \A context \in DOMAIN model' :
            context \in Seq(Token) /\ model'[context] \in Token
        BY <1>1, <2>2, <2>3
    <2> QED
        BY <1>1, <2>1, <2>3, <2>4, <2>5
<1>7. CASE StepReturns
    <2>1. UNCHANGED <<seqs, requests, model, emitted, outputs, guard>>
          /\ phase' = "collecting"
        BY <1>7 DEF StepReturns, EndStep
    <2> QED
        BY <1>1, <2>1
<1>8. CASE CollectNext
    <2>1. /\ UNCHANGED <<seqs, requests, model, guard, phase>>
          /\ emitted' = Tail(emitted) /\ emitted /= <<>>
        BY <1>8 DEF CollectNext, vars
    <2>2. emitted' \in Seq(SeqIds \X Token) /\ Head(emitted) \in SeqIds \X Token
        BY <1>1, <2>1
    <2>3. PICK s \in SeqIds, token \in Token : <<s, token>> = Head(emitted)
        BY <2>2
    <2>4. /\ s \in DOMAIN requests
          /\ DOMAIN outputs' = DOMAIN outputs \cup {s}
          /\ outputs' \in [DOMAIN outputs' -> Seq(Token)]
        BY <1>1, <1>8, <2>3, CollectText DEF EngineInv
    <2> QED
        BY <1>1, <2>1, <2>2, <2>4
<1>9. CASE IterationEnds
    <2>1. /\ UNCHANGED <<seqs, requests, model, emitted, outputs>>
          /\ guard' = guard + 1 /\ phase' \in {"running", "returned"}
        BY <1>9 DEF IterationEnds, vars, NextGuard
    <2> QED
        BY <1>1, <2>1
<1>10. CASE RunReturns
    <2>1. /\ UNCHANGED <<seqs, requests, model, emitted, outputs, guard>>
          /\ phase' = "returned"
        BY <1>10 DEF RunReturns, vars
    <2> QED
        BY <1>1, <2>1
<1>11. CASE UNCHANGED allVars
    BY <1>1, <1>11 DEF allVars, engineVars, vars
<1> QED
    BY <1>2, <1>3, <1>4, <1>5, <1>6, <1>7, <1>8, <1>9, <1>10, <1>11
    DEF EngineNext, EngineStep

\* The phase of the loop fits the point reached in the step.
LEMMA PhaseStep ==
    ASSUME EngineInv, [EngineNext]_allVars
    PROVE  PhaseFits'
<1>1. PhaseFits /\ EngineTypeOK
    BY DEF EngineInv
<1>2. ASSUME NEW s \in SeqIds, NEW prompt \in Prompts, NEW max \in MaxNews,
             EngineSubmit(s, prompt, max)
      PROVE  PhaseFits'
    BY <1>1, <1>2 DEF EngineSubmit, Submit, PhaseFits
<1>3. CASE StepSchedule
    <2>1. pc' = "forward" \/ pc /= "forward"
        BY <1>3 DEF StepSchedule, Schedule, StartSchedule, AdmitFront, AdmitFails,
            AdmitStops, PreemptVictim, PreemptStops, CommitNext, CommitStops,
            RetireNext, KeepNext, RetireStops
    <2>2. phase = "running" /\ UNCHANGED <<phase, emitted, outputs>>
        BY <1>3 DEF StepSchedule, engineVars
    <2> QED
        BY <1>1, <2>1, <2>2 DEF PhaseFits
<1>4. ASSUME NEW token \in Token, StepForward(token)
      PROVE  PhaseFits'
    BY <1>1, <1>4 DEF StepForward, PushToken, PhaseFits
<1>5. CASE RunToCompletion \/ StepStart \/ StepReturns \/ RunReturns
    BY <1>1, <1>5 DEF RunToCompletion, StepStart, StartSchedule, StepReturns,
        EndStep, RunReturns, vars, PhaseFits
<1>6. CASE CollectNext \/ IterationEnds
    BY <1>1, <1>6 DEF CollectNext, IterationEnds, vars, PhaseFits
<1>7. CASE UNCHANGED allVars
    BY <1>1, <1>7 DEF allVars, engineVars, vars, PhaseFits
<1> QED
    BY <1>2, <1>3, <1>4, <1>5, <1>6, <1>7 DEF EngineNext, EngineStep

\* The forward pass appends the position it is at, collection takes the first.
LEMMA EmittedStep ==
    ASSUME EngineInv, [EngineNext]_allVars
    PROVE  EmittedFollowsBatch'
<1>1. EngineTypeOK /\ IInv /\ PhaseFits /\ EmittedFollowsBatch
    BY DEF EngineInv, ProgressInv
<1>2. ASSUME UNCHANGED <<emitted, plan, pc, pos>>, DOMAIN seqs \subseteq DOMAIN seqs'
      PROVE  EmittedFollowsBatch'
    BY <1>1, <1>2 DEF EmittedFollowsBatch
<1>3. ASSUME emitted' = <<>>, pc' /= "forward"
      PROVE  EmittedFollowsBatch'
    BY <1>3 DEF EmittedFollowsBatch
<1>4. ASSUME NEW s \in SeqIds, NEW prompt \in Prompts, NEW max \in MaxNews,
             EngineSubmit(s, prompt, max)
      PROVE  EmittedFollowsBatch'
    <2>1. UNCHANGED <<emitted, plan, pc, pos>> /\ DOMAIN seqs \subseteq DOMAIN seqs'
        BY <1>4 DEF EngineSubmit, Submit
    <2> QED
        BY <1>2, <2>1
<1>5. CASE RunToCompletion \/ IterationEnds \/ RunReturns
    BY <1>2, <1>5 DEF RunToCompletion, IterationEnds, RunReturns, vars
<1>6. CASE StepStart
    BY <1>3, <1>6 DEF StepStart, StartSchedule
<1>7. CASE StepSchedule
    <2>1. emitted = <<>> /\ emitted' = <<>>
        <3>1. phase = "running" /\ pc /= "forward" /\ emitted' = emitted
            BY <1>7 DEF StepSchedule, engineVars, Schedule, StartSchedule, AdmitFront,
                AdmitFails, AdmitStops, PreemptVictim, PreemptStops, CommitNext,
                CommitStops, RetireNext, KeepNext, RetireStops
        <3> QED
            BY <1>1, <3>1 DEF PhaseFits
    <2>2. pc' = "forward" => pos' = 1 /\ plan' = plan
        BY <1>7 DEF StepSchedule, Schedule, StartSchedule, AdmitFront,
            AdmitFails, AdmitStops, PreemptVictim, PreemptStops, CommitNext,
            CommitStops, RetireNext, KeepNext, RetireStops
    <2>3. plan.decode_batch \in Seq(SeqIds)
        BY <1>1 DEF IInv, TypeOK, StepPlan
    <2> QED
        BY <2>1, <2>2, <2>3 DEF EmittedFollowsBatch
<1>8. ASSUME NEW token \in Token, StepForward(token)
      PROVE  EmittedFollowsBatch'
    <2>1. PICK s : s = plan.decode_batch[pos]
        OBVIOUS
    <2>2. /\ pc = "forward" /\ pos \in DOMAIN plan.decode_batch
          /\ s \in DOMAIN seqs /\ s \in SeqIds /\ ~Awaited(s)
          /\ DOMAIN seqs' = DOMAIN seqs
        BY <1>8, <2>1, ForwardFacts
    <2>3. /\ emitted' = Append(emitted, <<s, token>>)
          /\ pos' = pos + 1 /\ pc' = pc /\ plan' = plan
        BY <1>8, <2>1 DEF StepForward, PushToken
    <2>4. PICK n \in Nat : n = Len(emitted) /\ DOMAIN emitted = 1 .. n
        BY <1>1 DEF EngineTypeOK
    <2>5. /\ DOMAIN emitted' = 1 .. n + 1 /\ Len(emitted') = n + 1
          /\ \A i \in 1 .. n : emitted'[i] = emitted[i]
          /\ emitted'[n + 1] = <<s, token>>
        <3>1. emitted \in Seq(SeqIds \X Token) /\ <<s, token>> \in SeqIds \X Token
            BY <1>1, <2>2 DEF EngineTypeOK
        <3> QED
            BY <2>3, <2>4, <3>1
    <2>6. \A i \in 1 .. n + 1 : i \in 1 .. n \/ i = n + 1
        OBVIOUS
    <2>7. \A i \in DOMAIN emitted' : emitted'[i][1] \in DOMAIN seqs'
        BY <1>1, <2>2, <2>4, <2>5, <2>6 DEF EmittedFollowsBatch
    <2>8. \A i, j \in DOMAIN emitted' : emitted'[i][1] = emitted'[j][1] => i = j
        <3>1. \A i \in 1 .. n : emitted'[i][1] /= s
            BY <2>2, <2>4, <2>5 DEF Awaited
        <3>2. \A i, j \in 1 .. n : emitted'[i][1] = emitted'[j][1] => i = j
            BY <1>1, <2>4, <2>5 DEF EmittedFollowsBatch
        <3>3. emitted'[n + 1][1] = s
            BY <2>5
        <3> QED
            BY <2>5, <2>6, <3>1, <3>2, <3>3
    <2>9. /\ plan.decode_batch \in Seq(SeqIds)
          /\ n = pos - 1 /\ pos \in Nat
          /\ \A i \in 1 .. n : emitted[i][1] = plan.decode_batch[i]
        BY <1>1, <2>2, <2>4 DEF EmittedFollowsBatch, IInv, TypeOK, StepPlan
    <2>10. /\ Len(emitted') = pos' - 1
           /\ pos' <= Len(plan'.decode_batch) + 1
           /\ \A i \in DOMAIN emitted' : emitted'[i][1] = plan'.decode_batch[i]
        BY <2>1, <2>2, <2>3, <2>5, <2>6, <2>9
    <2> QED
        BY <2>7, <2>8, <2>10 DEF EmittedFollowsBatch
<1>9. CASE StepReturns
    <2>1. UNCHANGED <<emitted, seqs>> /\ pc' = "idle"
        BY <1>9 DEF StepReturns, EndStep
    <2> QED
        BY <1>1, <2>1 DEF EmittedFollowsBatch
<1>10. CASE CollectNext
    <2>1. /\ emitted' = Tail(emitted) /\ emitted /= <<>> /\ seqs' = seqs
          /\ pc' = "idle"
        BY <1>1, <1>10 DEF CollectNext, vars, PhaseFits
    <2>2. \A i \in DOMAIN emitted' : i + 1 \in DOMAIN emitted
                                     /\ emitted'[i] = emitted[i + 1]
        BY <1>1, <2>1 DEF EngineTypeOK
    <2>3. DOMAIN emitted' \subseteq Nat
        BY <1>1, <2>1 DEF EngineTypeOK
    <2>4. \A i, j \in DOMAIN emitted' : emitted'[i][1] = emitted'[j][1] => i = j
        <3> SUFFICES ASSUME NEW i \in DOMAIN emitted', NEW j \in DOMAIN emitted',
                            emitted'[i][1] = emitted'[j][1]
                     PROVE  i = j
            OBVIOUS
        <3>1. i + 1 = j + 1
            BY <1>1, <2>2 DEF EmittedFollowsBatch
        <3> QED
            BY <2>3, <3>1
    <2> QED
        BY <1>1, <2>1, <2>2, <2>4 DEF EmittedFollowsBatch
<1>11. CASE UNCHANGED allVars
    BY <1>2, <1>11 DEF allVars, engineVars, vars
<1> QED
    BY <1>4, <1>5, <1>6, <1>7, <1>8, <1>9, <1>10, <1>11 DEF EngineNext, EngineStep

\* What StepSchedule, StepReturns and the steps outside step() leave alone.
LEMMA SeqsStay ==
    ASSUME IInv,
           \/ RunToCompletion \/ StepStart \/ StepSchedule \/ StepReturns
           \/ CollectNext \/ IterationEnds \/ RunReturns \/ UNCHANGED allVars
    PROVE  /\ DOMAIN seqs' = DOMAIN seqs
           /\ \A s \in DOMAIN seqs :
                /\ seqs'[s].prompt = seqs[s].prompt
                /\ seqs'[s].output = seqs[s].output
                /\ seqs'[s].max_new_tokens = seqs[s].max_new_tokens
           /\ requests' = requests
<1>1. CASE StepSchedule
    BY <1>1, ScheduleKeepsText DEF StepSchedule, engineVars
<1>2. CASE StepStart \/ StepReturns
    BY <1>2 DEF StepStart, StartSchedule, StepReturns, EndStep
<1>3. CASE RunToCompletion \/ CollectNext \/ IterationEnds \/ RunReturns
           \/ UNCHANGED allVars
    BY <1>3 DEF RunToCompletion, CollectNext, IterationEnds, RunReturns, allVars,
                engineVars, vars
<1> QED
    BY <1>1, <1>2, <1>3

\* Only the forward pass touches a limit, and only at eos.
LEMMA LimitsAsSubmittedStep ==
    ASSUME EngineInv, [EngineNext]_allVars
    PROVE  LimitsAsSubmitted'
<1>1. EngineTypeOK /\ IInv /\ LimitsAsSubmitted
    BY DEF EngineInv, ProgressInv
<1>2. ASSUME NEW s \in SeqIds, NEW prompt \in Prompts, NEW max \in MaxNews,
             EngineSubmit(s, prompt, max)
      PROVE  LimitsAsSubmitted'
    <2>1. /\ DOMAIN seqs' = DOMAIN seqs \cup {s} /\ s \notin DOMAIN seqs
          /\ seqs'[s] = NewSequence(prompt, max)
          /\ \A t \in DOMAIN seqs : seqs'[t] = seqs[t]
        BY <1>2 DEF EngineSubmit, Submit
    <2>2. /\ requests'[s] = [prompt |-> prompt, max_new_tokens |-> max]
          /\ \A t \in DOMAIN seqs : requests'[t] = requests[t]
        BY <1>1, <1>2, SubmitText DEF EngineTypeOK
    <2>3. /\ seqs'[s].prompt = prompt /\ seqs'[s].max_new_tokens = max
          /\ ~EndsInEos(seqs'[s].output)
        BY <2>1 DEF NewSequence, EndsInEos
    <2> QED
        BY <1>1, <2>1, <2>2, <2>3 DEF LimitsAsSubmitted, OutputLen
<1>3. ASSUME NEW token \in Token, StepForward(token)
      PROVE  LimitsAsSubmitted'
    <2>1. PICK s : s = plan.decode_batch[pos]
        OBVIOUS
    <2>2. /\ s \in DOMAIN seqs /\ ~IsComplete(s)
          /\ DOMAIN seqs' = DOMAIN seqs
          /\ \A t \in DOMAIN seqs : t /= s => seqs'[t] = seqs[t]
          /\ seqs'[s].prompt = seqs[s].prompt
          /\ seqs'[s].output = Append(seqs[s].output, token)
          /\ seqs'[s].max_new_tokens = IF token = Eos THEN OutputLen(s) + 1
                                       ELSE seqs[s].max_new_tokens
        BY <1>3, <2>1, ForwardFacts
    <2>3. seqs[s].output \in Seq(Token) /\ OutputLen(s) \in Nat
          /\ seqs[s].max_new_tokens \in Nat
        BY <1>1, <2>2, SeqParts DEF IInv
    <2>4. /\ EndsInEos(seqs'[s].output) <=> token = Eos
          /\ Len(seqs'[s].output) = OutputLen(s) + 1
        BY <2>2, <2>3 DEF EndsInEos, OutputLen
    <2>5. seqs[s].max_new_tokens = requests[s].max_new_tokens
        BY <1>1, <2>2, <2>3 DEF LimitsAsSubmitted, IsComplete
    <2>6. requests' = requests
        BY <1>3 DEF StepForward
    <2> QED
        BY <1>1, <2>2, <2>4, <2>5, <2>6 DEF LimitsAsSubmitted, OutputLen
<1>4. CASE \/ RunToCompletion \/ StepStart \/ StepSchedule \/ StepReturns
           \/ CollectNext \/ IterationEnds \/ RunReturns \/ UNCHANGED allVars
    BY <1>1, <1>4, SeqsStay DEF LimitsAsSubmitted, OutputLen
<1> QED
    BY <1>2, <1>3, <1>4 DEF EngineNext, EngineStep

\* A pair on its way to one request is not touched by what happens to others.
LEMMA OnItsWayStays ==
    ASSUME NEW s, NEW token, OnItsWay(s, token),
           seqs'[s].output = seqs[s].output, requests'[s] = requests[s],
           Text'[s] = Text[s],
           DOMAIN model \subseteq DOMAIN model',
           \A c \in DOMAIN model : model'[c] = model[c]
    PROVE  OnItsWay(s, token)'
BY DEF OnItsWay

\* The forward pass sends a token on its way and collection delivers it.
LEMMA TextStep ==
    ASSUME EngineInv, [EngineNext]_allVars
    PROVE  TextFollowsOutput'
<1>1. /\ EngineTypeOK /\ IInv /\ PhaseFits /\ EmittedFollowsBatch
      /\ LimitsAsSubmitted /\ TextFollowsOutput
    BY DEF EngineInv, ProgressInv
<1>2. /\ emitted \in Seq(SeqIds \X Token)
      /\ DOMAIN requests = DOMAIN seqs
      /\ DOMAIN Text = DOMAIN seqs
    BY <1>1, TextFacts DEF EngineTypeOK
<1>3. ASSUME UNCHANGED <<emitted, model>>, Text' = Text, requests' = requests,
             DOMAIN seqs' = DOMAIN seqs,
             \A s \in DOMAIN seqs : seqs'[s].output = seqs[s].output
      PROVE  TextFollowsOutput'
    BY <1>1, <1>3 DEF TextFollowsOutput, OnItsWay, Awaited, EmittedFollowsBatch
<1>4. ASSUME NEW s \in SeqIds, NEW prompt \in Prompts, NEW max \in MaxNews,
             EngineSubmit(s, prompt, max)
      PROVE  TextFollowsOutput'
    <2>1. emitted = <<>> /\ emitted' = <<>>
        BY <1>1, <1>4 DEF EngineSubmit, Submit, PhaseFits
    <2>2. /\ DOMAIN seqs' = DOMAIN seqs \cup {s} /\ s \notin DOMAIN seqs
          /\ seqs'[s].output = <<>>
          /\ \A t \in DOMAIN seqs : seqs'[t] = seqs[t]
        BY <1>4 DEF EngineSubmit, Submit, NewSequence
    <2>3. Text' = [t \in DOMAIN requests' |-> IF t = s THEN <<>> ELSE Text[t]]
          /\ DOMAIN requests' = DOMAIN requests \cup {s}
        BY <1>1, <1>4, SubmitText
    <2>4. \A t \in DOMAIN seqs : seqs[t].output = Text[t]
        BY <1>1, <2>1 DEF TextFollowsOutput, Awaited
    <2>5. \A t \in DOMAIN seqs' : seqs'[t].output = Text'[t]
        BY <1>2, <2>2, <2>3, <2>4
    <2> QED
        BY <2>1, <2>5 DEF TextFollowsOutput
<1>5. CASE RunToCompletion
    <2>1. UNCHANGED <<requests, outputs, emitted, model>>
        BY <1>1, <1>5 DEF RunToCompletion, PhaseFits
    <2> QED
        BY <1>1, <1>3, <1>5, <2>1, TextStays, SeqsStay
<1>6. CASE StepStart
    <2>1. UNCHANGED <<requests, outputs, emitted, model>>
        BY <1>1, <1>6 DEF StepStart, StartSchedule, PhaseFits
    <2> QED
        BY <1>1, <1>3, <1>6, <2>1, TextStays, SeqsStay
<1>7. CASE StepSchedule \/ StepReturns \/ IterationEnds \/ RunReturns
           \/ UNCHANGED allVars
    <2>1. UNCHANGED <<requests, outputs, emitted, model>>
        BY <1>7 DEF StepSchedule, StepReturns, IterationEnds, RunReturns, allVars,
                    engineVars
    <2> QED
        BY <1>1, <1>3, <1>7, <2>1, TextStays, SeqsStay
<1>8. ASSUME NEW token \in Token, StepForward(token)
      PROVE  TextFollowsOutput'
    <2>1. PICK s : s = plan.decode_batch[pos]
        OBVIOUS
    <2>2. /\ s \in DOMAIN seqs /\ s \in SeqIds /\ ~IsComplete(s) /\ ~Awaited(s)
          /\ DOMAIN seqs' = DOMAIN seqs
          /\ \A t \in DOMAIN seqs : t /= s => seqs'[t] = seqs[t]
          /\ seqs'[s].output = Append(seqs[s].output, token)
        BY <1>8, <2>1, ForwardFacts
    <2>3. PICK context : context = seqs[s].prompt \o seqs[s].output
        OBVIOUS
    <2>4. /\ context \in DOMAIN model => token = model[context]
          /\ model' = [c \in DOMAIN model \cup {context} |->
                        IF c = context THEN token ELSE model[c]]
          /\ emitted' = Append(emitted, <<s, token>>)
          /\ UNCHANGED <<requests, outputs>>
        BY <1>8, <2>1, <2>3 DEF StepForward, NextContext
    <2>5. Text' = Text
        BY <2>4, TextStays
    <2>6. PICK n \in Nat : n = Len(emitted) /\ DOMAIN emitted = 1 .. n
        BY <1>2
    <2>7. /\ DOMAIN emitted' = 1 .. n + 1
          /\ \A i \in 1 .. n : emitted'[i] = emitted[i]
          /\ emitted'[n + 1] = <<s, token>>
        <3>1. <<s, token>> \in SeqIds \X Token
            BY <2>2
        <3> QED
            BY <1>2, <2>4, <2>6, <3>1
    <2>8. seqs[s].output = Text[s] /\ seqs[s].prompt = requests[s].prompt
        BY <1>1, <2>2 DEF TextFollowsOutput, LimitsAsSubmitted
    <2>9. OnItsWay(s, token)'
        <3>1. OutputLen(s) \in Nat /\ seqs[s].max_new_tokens \in Nat
            BY <1>1, <2>2, SeqParts DEF IInv
        <3>2. /\ ~EndsInEos(seqs[s].output)
              /\ OutputLen(s) < requests[s].max_new_tokens
            BY <1>1, <2>2, <3>1 DEF LimitsAsSubmitted, IsComplete
        <3>3. context \in DOMAIN model' /\ model'[context] = token
            BY <2>4
        <3>4. /\ seqs'[s].output = Append(Text[s], token)
              /\ Len(Text[s]) < requests[s].max_new_tokens /\ ~EndsInEos(Text[s])
              /\ requests[s].prompt \o Text[s] = context
            BY <2>2, <2>3, <2>8, <3>2 DEF OutputLen
        <3> QED
            BY <2>4, <2>5, <3>3, <3>4 DEF OnItsWay
    <2>10. ASSUME NEW i \in 1 .. n, NEW t, NEW k,
                  t = emitted[i][1], k = emitted[i][2]
           PROVE  OnItsWay(t, k)'
        <3>1. t \in DOMAIN seqs /\ t /= s /\ OnItsWay(t, k)
            BY <1>1, <2>2, <2>6, <2>10
            DEF EmittedFollowsBatch, Awaited, TextFollowsOutput
        <3>2. /\ DOMAIN model \subseteq DOMAIN model'
              /\ \A c \in DOMAIN model : model'[c] = model[c]
            BY <2>4
        <3> QED
            BY <2>2, <2>4, <2>5, <3>1, <3>2, OnItsWayStays
    <2>11. \A i \in DOMAIN emitted' : \E t, k :
            t = emitted'[i][1] /\ k = emitted'[i][2] /\ OnItsWay(t, k)'
        <3> SUFFICES ASSUME NEW i \in DOMAIN emitted'
                     PROVE  \E t, k : /\ t = emitted'[i][1] /\ k = emitted'[i][2]
                                      /\ OnItsWay(t, k)'
            OBVIOUS
        <3>1. CASE i \in 1 .. n
            BY <2>7, <2>10, <3>1
        <3>2. CASE i = n + 1
            BY <2>7, <2>9, <3>2
        <3> QED
            BY <2>7, <3>1, <3>2
    <2>12. \A t \in DOMAIN seqs' : ~Awaited(t)' => seqs'[t].output = Text'[t]
        <3> SUFFICES ASSUME NEW t \in DOMAIN seqs, ~Awaited(t)'
                     PROVE  seqs'[t].output = Text'[t]
            BY <2>2
        <3>1. t /= s /\ ~Awaited(t)
            BY <2>6, <2>7 DEF Awaited
        <3> QED
            BY <1>1, <2>2, <2>5, <3>1 DEF TextFollowsOutput
    <2> QED
        BY <2>11, <2>12 DEF TextFollowsOutput, OnItsWay
<1>9. CASE CollectNext
    <2>1. /\ emitted /= <<>> /\ emitted' = Tail(emitted)
          /\ UNCHANGED <<seqs, requests, model>>
        BY <1>9 DEF CollectNext, vars
    <2>2. /\ 1 \in DOMAIN emitted /\ Head(emitted) = emitted[1]
          /\ emitted[1] \in SeqIds \X Token
          /\ \A i \in DOMAIN emitted' : /\ i + 1 \in DOMAIN emitted /\ i + 1 /= 1
                                        /\ emitted'[i] = emitted[i + 1]
          /\ \A i \in DOMAIN emitted : i /= 1 =>
                i - 1 \in DOMAIN emitted' /\ emitted'[i - 1] = emitted[i]
        <3>1. PICK n \in Nat : n = Len(emitted) /\ n >= 1 /\ DOMAIN emitted = 1 .. n
            BY <1>2, <2>1
        <3>2. /\ DOMAIN emitted' = 1 .. n - 1
              /\ \A i \in 1 .. n - 1 : emitted'[i] = emitted[i + 1]
            BY <1>2, <2>1, <3>1
        <3>3. \A i \in 1 .. n : i /= 1 => i - 1 \in 1 .. n - 1 /\ (i - 1) + 1 = i
            BY <3>1
        <3>4. emitted[1] \in SeqIds \X Token /\ Head(emitted) = emitted[1]
            BY <1>2, <2>1, <3>1
        <3>5. \A i \in 1 .. n - 1 : i + 1 \in 1 .. n /\ i + 1 /= 1
            BY <3>1
        <3>6. \A i \in DOMAIN emitted : i /= 1 =>
                i - 1 \in DOMAIN emitted' /\ emitted'[i - 1] = emitted[i]
            BY <3>1, <3>2, <3>3
        <3> QED
            BY <3>1, <3>2, <3>4, <3>5, <3>6
    <2>3. PICK s \in SeqIds, token \in Token : <<s, token>> = emitted[1]
        BY <2>2
    <2>4. Text' = [Text EXCEPT ![s] = Append(@, token)] /\ s \in DOMAIN seqs
        BY <1>1, <1>2, <1>9, <2>2, <2>3, CollectText
    <2>5. /\ Text'[s] = Append(Text[s], token)
          /\ \A t \in DOMAIN seqs : t /= s => Text'[t] = Text[t]
        BY <1>2, <2>4
    <2>6. \A i \in DOMAIN emitted : i /= 1 => emitted[i][1] /= s
        BY <1>1, <2>2, <2>3 DEF EmittedFollowsBatch
    <2>7. seqs[s].output = Append(Text[s], token)
        BY <1>1, <2>2, <2>3 DEF TextFollowsOutput, OnItsWay
    <2>8. \A i \in DOMAIN emitted' : \E t, k :
            t = emitted'[i][1] /\ k = emitted'[i][2] /\ OnItsWay(t, k)'
        <3> SUFFICES ASSUME NEW i \in DOMAIN emitted', NEW t, NEW k,
                            t = emitted'[i][1], k = emitted'[i][2]
                     PROVE  OnItsWay(t, k)'
            OBVIOUS
        <3>1. t \in DOMAIN seqs /\ t /= s /\ OnItsWay(t, k)
            BY <1>1, <2>2, <2>6 DEF EmittedFollowsBatch, TextFollowsOutput
        <3> QED
            BY <2>1, <2>5, <3>1, OnItsWayStays
    <2>9. \A t \in DOMAIN seqs' : ~Awaited(t)' => seqs'[t].output = Text'[t]
        <3> SUFFICES ASSUME NEW t \in DOMAIN seqs, ~Awaited(t)'
                     PROVE  seqs[t].output = Text'[t]
            BY <2>1
        <3>1. CASE t = s
            BY <2>5, <2>7, <3>1
        <3>2. CASE t /= s
            <4>1. ~Awaited(t)
                BY <2>2, <2>3, <3>2 DEF Awaited
            <4> QED
                BY <1>1, <2>5, <3>2, <4>1 DEF TextFollowsOutput
        <3> QED
            BY <3>1, <3>2
    <2> QED
        BY <2>8, <2>9 DEF TextFollowsOutput, OnItsWay
<1> QED
    BY <1>4, <1>5, <1>6, <1>7, <1>8, <1>9 DEF EngineNext, EngineStep

\* schedule() finishes who is complete, and no text of theirs grows after that.
LEMMA FinishedStep ==
    ASSUME EngineInv, [EngineNext]_allVars
    PROVE  FinishedAreComplete'
<1>1. EngineTypeOK /\ IInv /\ FinishedAreComplete
    BY DEF EngineInv, ProgressInv
<1>2. ASSUME UNCHANGED seqs
      PROVE  FinishedAreComplete'
    BY <1>1, <1>2 DEF FinishedAreComplete, IsComplete, OutputLen
<1>3. ASSUME NEW s \in SeqIds, NEW prompt \in Prompts, NEW max \in MaxNews,
             EngineSubmit(s, prompt, max)
      PROVE  FinishedAreComplete'
    <2>1. /\ DOMAIN seqs' = DOMAIN seqs \cup {s}
          /\ seqs'[s].state = "Waiting"
          /\ \A t \in DOMAIN seqs : seqs'[t] = seqs[t]
        BY <1>3 DEF EngineSubmit, Submit, NewSequence
    <2> QED
        BY <1>1, <2>1 DEF FinishedAreComplete, IsComplete, OutputLen
<1>4. CASE StepSchedule
    <2>1. Schedule
        BY <1>4 DEF StepSchedule
    <2>2. /\ DOMAIN seqs' = DOMAIN seqs
          /\ \A s \in DOMAIN seqs : IsComplete(s)' <=> IsComplete(s)
        BY <1>1, <2>1, ScheduleKeepsText DEF IsComplete, OutputLen
    <2>3. \A s \in Retired : IsComplete(s)
        BY <1>1 DEF FinishedAreComplete, Retired, IsFinished
    <2>4. \A s \in Retired' : IsComplete(s)
        BY <1>1, <2>1, <2>3, ScheduleRetires
    <2> QED
        BY <2>2, <2>4 DEF FinishedAreComplete, Retired, IsFinished, Submitted
<1>5. ASSUME NEW token \in Token, StepForward(token)
      PROVE  FinishedAreComplete'
    <2>1. PICK s : s = plan.decode_batch[pos]
        OBVIOUS
    <2>2. /\ s \in DOMAIN seqs /\ ~IsComplete(s)
          /\ DOMAIN seqs' = DOMAIN seqs
          /\ \A t \in DOMAIN seqs : t /= s => seqs'[t] = seqs[t]
          /\ seqs'[s].state = seqs[s].state
        BY <1>5, <2>1, ForwardFacts
    <2> QED
        BY <1>1, <2>2 DEF FinishedAreComplete, IsComplete, OutputLen
<1>6. CASE StepStart \/ StepReturns
    BY <1>2, <1>6 DEF StepStart, StartSchedule, StepReturns, EndStep
<1>7. CASE RunToCompletion \/ CollectNext \/ IterationEnds \/ RunReturns
           \/ UNCHANGED allVars
    BY <1>2, <1>7 DEF RunToCompletion, CollectNext, IterationEnds, RunReturns,
                      allVars, vars
<1> QED
    BY <1>3, <1>4, <1>5, <1>6, <1>7 DEF EngineNext, EngineStep

\* A step starts with work, and only retirement takes the last of it.
LEMMA WorkStep ==
    ASSUME EngineInv, [EngineNext]_allVars
    PROVE  WorkOrRetired'
<1>1. IInv /\ WorkOrRetired
    BY DEF EngineInv, ProgressInv
<1>2. ASSUME pc' = "idle" \/ (pc' = pc /\ UNCHANGED <<waiting, running, plan>>)
      PROVE  WorkOrRetired'
    BY <1>1, <1>2 DEF WorkOrRetired, HasWork
<1>3. ASSUME NEW s \in SeqIds, NEW prompt \in Prompts, NEW max \in MaxNews,
             EngineSubmit(s, prompt, max)
      PROVE  WorkOrRetired'
    BY <1>2, <1>3 DEF EngineSubmit, Submit
<1>4. CASE StepStart
    BY <1>4 DEF StepStart, StartSchedule, WorkOrRetired, HasWork
<1>5. CASE StepSchedule
    <2>1. pc /= "idle" /\ Schedule
        BY <1>5 DEF StepSchedule
    <2>2. HasWork \/ plan.finished /= <<>>
        BY <1>1, <2>1 DEF WorkOrRetired
    <2>3. \/ UNCHANGED <<waiting, running>> /\ plan'.finished = plan.finished
          \/ running' /= <<>> \/ waiting' /= <<>> \/ plan'.finished /= <<>>
        <3>1. CASE AdmitFront
            <4>1. running' = Append(running, Head(waiting)) /\ running \in Seq(DOMAIN seqs)
                  /\ Head(waiting) \in DOMAIN seqs
                BY <1>1, <3>1 DEF AdmitFront, CanTryFront, IInv, TypeOK
            <4> QED
                BY <4>1
        <3>2. ASSUME NEW i \in DOMAIN running, PreemptVictim(i)
              PROVE  waiting' /= <<>>
            <4>1. waiting' = <<running[i]>> \o waiting /\ waiting \in Seq(DOMAIN seqs)
                  /\ running[i] \in DOMAIN seqs
                BY <1>1, <3>2, MemberFacts DEF PreemptVictim, Requeued, IInv, TypeOK
            <4> QED
                BY <4>1, ConsFacts
        <3>3. CASE CommitNext
            BY <1>1, <3>3 DEF CommitNext, IInv, TypeOK, StepPlan
        <3>4. CASE RetireNext
            <4>1. plan'.finished = Append(plan.finished, running[pos])
                  /\ plan.finished \in Seq(SeqIds)
                BY <1>1, <3>4 DEF RetireNext, IInv, TypeOK, StepPlan
            <4>2. pos \in DOMAIN running
                BY <1>1, <3>4 DEF RetireNext, IInv, TypeOK
            <4>3. running[pos] \in SeqIds
                BY <1>1, <4>2, MemberFacts, SeqParts DEF IInv
            <4> QED
                BY <4>1, <4>3
        <3>5. CASE AdmitFails \/ AdmitStops \/ PreemptStops \/ CommitStops
                   \/ KeepNext \/ RetireStops
            BY <3>5 DEF AdmitFails, AdmitStops, PreemptStops, CommitStops,
                        KeepNext, RetireStops
        <3>6. ~StartSchedule
            BY <2>1 DEF StartSchedule
        <3> QED
            BY <2>1, <3>1, <3>2, <3>3, <3>4, <3>5, <3>6 DEF Schedule
    <2> QED
        BY <2>2, <2>3 DEF WorkOrRetired, HasWork
<1>6. ASSUME NEW token \in Token, StepForward(token)
      PROVE  WorkOrRetired'
    BY <1>2, <1>6 DEF StepForward, PushToken
<1>7. CASE StepReturns
    BY <1>2, <1>7 DEF StepReturns, EndStep
<1>8. CASE RunToCompletion \/ CollectNext \/ IterationEnds \/ RunReturns
           \/ UNCHANGED allVars
    BY <1>2, <1>8 DEF RunToCompletion, CollectNext, IterationEnds, RunReturns,
                      allVars, vars
<1> QED
    BY <1>3, <1>4, <1>5, <1>6, <1>7, <1>8 DEF EngineNext, EngineStep

\* A step that leaves no request hopeless found none.
LEMMA HopelessBefore ==
    ASSUME IInv, [Next]_vars, NoneHopeless'
    PROVE  NoneHopeless
BY HopelessStays DEF NoneHopeless

\* While no state changes, the same requests are retired.
LEMMA RetiredStay ==
    ASSUME DOMAIN seqs' = DOMAIN seqs,
           \A s \in DOMAIN seqs : seqs'[s].state = seqs[s].state
    PROVE  Retired' = Retired
BY DEF Retired, IsFinished, Submitted

\* A step has emitted something or retired something when it returns.
LEMMA StepIsPaidFor ==
    ASSUME EngineInv, StepReturns, NoneHopeless, MaxBatchSize > 0
    PROVE  plan.finished /= <<>> \/ emitted /= <<>>
<1> SUFFICES ASSUME plan.finished = <<>>
             PROVE  emitted /= <<>>
    OBVIOUS
<1>1. pc = "forward" /\ pos > Len(plan.decode_batch)
    BY DEF StepReturns, EndStep
<1>2. HasWork
    BY <1>1 DEF EngineInv, WorkOrRetired
<1>3. plan.decode_batch /= <<>>
    BY <1>1, <1>2 DEF EngineInv, ProgressInv, StepWorks, CanWork, Progress
<1>4. /\ plan.decode_batch \in Seq(SeqIds) /\ pos \in Nat
      /\ emitted \in Seq(SeqIds \X Token) /\ Len(emitted) = pos - 1
    BY <1>1 DEF EngineInv, ProgressInv, IInv, TypeOK, StepPlan, EngineTypeOK,
                EmittedFollowsBatch
<1>5. Len(plan.decode_batch) >= 1
    BY <1>3, <1>4
<1>6. Len(emitted) >= 1
    BY <1>1, <1>4, <1>5
<1> QED
    BY <1>4, <1>6

\* No action adds to the guard what it does not add to the other side.
LEMMA PaidStep ==
    ASSUME EngineInv, [EngineNext]_allVars
    PROVE  /\ IsFiniteSet(Handed)' /\ IsFiniteSet(Retired)'
           /\ IterationsArePaidFor'
<1>1. /\ EngineTypeOK /\ IInv /\ PhaseFits /\ EmittedFollowsBatch
      /\ IsFiniteSet(Handed) /\ IsFiniteSet(Retired) /\ IterationsArePaidFor
      /\ guard \in Nat
    BY DEF EngineInv, ProgressInv, EngineTypeOK
<1>2. PICK h \in Nat, r \in Nat :
        h = Cardinality(Handed) /\ r = Cardinality(Retired)
    BY <1>1, FS_CardinalityType
<1>3. ASSUME NoneHopeless, MaxBatchSize > 0
      PROVE  /\ guard <= h + r
             /\ pc /= "idle" /\ plan.finished /= <<>> => guard + 1 <= h + r
             /\ phase = "collecting" => guard + 1 <= h + r \/ emitted /= <<>>
    BY <1>1, <1>2, <1>3 DEF IterationsArePaidFor
<1>4. NoneHopeless' => NoneHopeless
    BY <1>1, EngineStepsSchedule, HopelessBefore
<1>5. ASSUME Handed' = Handed, Retired' = Retired,
             NoneHopeless /\ MaxBatchSize > 0 =>
                /\ guard' <= h + r
                /\ pc' /= "idle" /\ plan'.finished /= <<>> => guard' + 1 <= h + r
                /\ phase' = "collecting" => guard' + 1 <= h + r \/ emitted' /= <<>>
      PROVE  /\ IsFiniteSet(Handed)' /\ IsFiniteSet(Retired)'
             /\ IterationsArePaidFor'
    <2>1. /\ IsFiniteSet(Handed') /\ IsFiniteSet(Retired')
          /\ Cardinality(Handed') = h /\ Cardinality(Retired') = r
        BY <1>1, <1>2, <1>5
    <2> QED
        BY <1>4, <1>5, <2>1 DEF IterationsArePaidFor
<1>6. ASSUME NEW s \in SeqIds, NEW prompt \in Prompts, NEW max \in MaxNews,
             EngineSubmit(s, prompt, max)
      PROVE  /\ IsFiniteSet(Handed)' /\ IsFiniteSet(Retired)'
             /\ IterationsArePaidFor'
    <2>1. /\ DOMAIN seqs' = DOMAIN seqs \cup {s}
          /\ seqs'[s].state = "Waiting" /\ s \notin DOMAIN seqs
          /\ \A t \in DOMAIN seqs : seqs'[t] = seqs[t]
          /\ UNCHANGED <<guard, pc, plan, phase, emitted>>
        BY <1>6 DEF EngineSubmit, Submit, NewSequence
    <2>2. Retired' = Retired
        BY <2>1 DEF Retired, IsFinished, Submitted
    <2>3. Handed' = Handed
        BY <1>1, <1>6, SubmitText
    <2> QED
        BY <1>3, <1>5, <2>1, <2>2, <2>3
<1>7. CASE RunToCompletion
    <2>1. /\ UNCHANGED <<requests, outputs, seqs, pc>>
          /\ guard' = 0 /\ phase' = "running" /\ pc = "idle"
        BY <1>1, <1>7 DEF RunToCompletion, PhaseFits, vars
    <2>2. Handed' = Handed /\ Retired' = Retired
        BY <2>1, TextStays, RetiredStay
    <2> QED
        BY <1>2, <1>5, <2>1, <2>2
<1>8. CASE StepStart
    <2>1. /\ UNCHANGED <<requests, outputs, seqs, guard, phase>>
          /\ plan'.finished = <<>> /\ phase = "running"
        BY <1>8 DEF StepStart, StartSchedule, EmptyPlan
    <2>2. Handed' = Handed /\ Retired' = Retired
        BY <2>1, TextStays, RetiredStay
    <2> QED
        BY <1>3, <1>5, <2>1, <2>2
<1>9. CASE StepSchedule
    <2>1. /\ Schedule /\ pc /= "idle" /\ phase = "running"
          /\ UNCHANGED <<requests, outputs, guard, phase, emitted>>
        BY <1>9 DEF StepSchedule, engineVars
    <2>2. Handed' = Handed
        BY <2>1, TextStays
    <2>3. CASE Retired' = Retired
               /\ (plan'.finished = plan.finished \/ plan'.finished = <<>>)
        BY <1>3, <1>5, <2>1, <2>2, <2>3
    <2>4. ASSUME NEW s \in DOMAIN seqs \ Retired, Retired' = Retired \cup {s}
          PROVE  /\ IsFiniteSet(Handed)' /\ IsFiniteSet(Retired)'
                 /\ IterationsArePaidFor'
        <3>1. /\ IsFiniteSet(Retired') /\ Cardinality(Retired') = r + 1
              /\ IsFiniteSet(Handed') /\ Cardinality(Handed') = h
            BY <1>1, <1>2, <2>2, <2>4, FS_AddElement
        <3>2. NoneHopeless /\ MaxBatchSize > 0 =>
                guard' <= h + (r + 1) /\ guard' + 1 <= h + (r + 1)
            BY <1>1, <1>2, <1>3, <2>1
        <3> QED
            BY <1>4, <3>1, <3>2 DEF IterationsArePaidFor
    <2> QED
        BY <1>1, <2>1, <2>3, <2>4, ScheduleRetires
<1>10. ASSUME NEW token \in Token, StepForward(token)
       PROVE  /\ IsFiniteSet(Handed)' /\ IsFiniteSet(Retired)'
              /\ IterationsArePaidFor'
    <2>1. PICK s : s = plan.decode_batch[pos]
        OBVIOUS
    <2>2. /\ DOMAIN seqs' = DOMAIN seqs
          /\ \A t \in DOMAIN seqs : t /= s => seqs'[t] = seqs[t]
          /\ seqs'[s].state = seqs[s].state
        BY <1>10, <2>1, ForwardFacts
    <2>3. /\ UNCHANGED <<requests, outputs, guard, phase, pc, plan>>
          /\ phase = "running"
        BY <1>10 DEF StepForward, PushToken
    <2>4. Handed' = Handed /\ Retired' = Retired
        <3>1. \A t \in DOMAIN seqs : seqs'[t].state = seqs[t].state
            BY <2>2
        <3> QED
            BY <2>2, <2>3, <3>1, TextStays, RetiredStay
    <2> QED
        BY <1>3, <1>5, <2>3, <2>4
<1>11. CASE StepReturns
    <2>1. /\ UNCHANGED <<requests, outputs, seqs, guard, emitted>>
          /\ pc' = "idle" /\ pc = "forward"
        BY <1>11 DEF StepReturns, EndStep
    <2>2. Handed' = Handed /\ Retired' = Retired
        BY <2>1, TextStays, RetiredStay
    <2>3. NoneHopeless /\ MaxBatchSize > 0 =>
            guard + 1 <= h + r \/ emitted /= <<>>
        BY <1>3, <1>11, <2>1, StepIsPaidFor
    <2> QED
        BY <1>3, <1>5, <2>1, <2>2, <2>3
<1>12. CASE CollectNext
    <2>1. /\ UNCHANGED <<seqs, guard, phase, pc, plan>>
          /\ phase = "collecting" /\ pc = "idle"
          /\ emitted /= <<>> /\ emitted \in Seq(SeqIds \X Token)
        BY <1>1, <1>12 DEF CollectNext, vars, PhaseFits, EngineTypeOK
    <2>2. Head(emitted) \in SeqIds \X Token
        BY <2>1
    <2>3. PICK s \in SeqIds, token \in Token : <<s, token>> = Head(emitted)
        BY <2>2
    <2>4. PICK e : e \notin Handed /\ Handed' = Handed \cup {e}
        BY <1>1, <1>12, <2>3, CollectText
    <2>5. Retired' = Retired
        BY <2>1, RetiredStay
    <2>6. /\ IsFiniteSet(Retired') /\ Cardinality(Retired') = r
          /\ IsFiniteSet(Handed') /\ Cardinality(Handed') = h + 1
        BY <1>1, <1>2, <2>4, <2>5, FS_AddElement
    <2>7. NoneHopeless /\ MaxBatchSize > 0 =>
            guard' <= (h + 1) + r /\ guard' + 1 <= (h + 1) + r
        BY <1>1, <1>2, <1>3, <2>1
    <2> QED
        BY <1>4, <2>6, <2>7 DEF IterationsArePaidFor
<1>13. CASE IterationEnds
    <2>1. /\ UNCHANGED <<requests, outputs, seqs, pc>>
          /\ guard' = guard + 1 /\ phase' /= "collecting"
          /\ phase = "collecting" /\ pc = "idle" /\ emitted = <<>>
        BY <1>1, <1>13 DEF IterationEnds, NextGuard, vars, PhaseFits
    <2>2. Handed' = Handed /\ Retired' = Retired
        BY <2>1, TextStays, RetiredStay
    <2> QED
        BY <1>3, <1>5, <2>1, <2>2
<1>14. CASE RunReturns
    <2>1. /\ UNCHANGED <<requests, outputs, seqs, pc, plan, guard>>
          /\ phase' = "returned"
        BY <1>14 DEF RunReturns, vars
    <2>2. Handed' = Handed /\ Retired' = Retired
        BY <2>1, TextStays, RetiredStay
    <2> QED
        BY <1>3, <1>5, <2>1, <2>2
<1>15. CASE UNCHANGED allVars
    <2>1. UNCHANGED <<requests, outputs, seqs, pc, plan, guard, phase, emitted>>
        BY <1>15 DEF allVars, engineVars, vars
    <2>2. Handed' = Handed /\ Retired' = Retired
        BY <2>1, TextStays, RetiredStay
    <2> QED
        BY <1>3, <1>5, <2>1, <2>2
<1> QED
    BY <1>6, <1>7, <1>8, <1>9, <1>10, <1>11, <1>12, <1>13, <1>14, <1>15
    DEF EngineNext, EngineStep

-----------------------------------------------------------------------------
(* The invariant                                                           *)

\* A new engine, over a model that others may have asked before.
NewlyBuilt ==
    /\ Init
    /\ requests = <<>> /\ emitted = <<>> /\ outputs = <<>>
    /\ guard = 0 /\ phase = "submitting"
    /\ \A context \in DOMAIN model :
        context \in Seq(Token) /\ model[context] \in Token

\* The invariant holds of a new engine.
LEMMA NewlyBuiltIsSound == NewlyBuilt => EngineInv
<1> SUFFICES ASSUME NewlyBuilt
             PROVE  EngineInv
    OBVIOUS
<1>1. ProgressInv /\ TypeOK
    BY ProgressInvInductive DEF NewlyBuilt, ProgressInv, IInv
<1>2. /\ pc = "idle" /\ seqs = <<>> /\ requests = <<>>
      /\ emitted = <<>> /\ outputs = <<>> /\ guard = 0 /\ phase = "submitting"
      /\ DOMAIN seqs = {} /\ DOMAIN requests = {}
      /\ \A context \in DOMAIN model :
            context \in Seq(Token) /\ model[context] \in Token
    BY DEF NewlyBuilt, Init
<1>3. EngineTypeOK
    BY <1>1, <1>2 DEF EngineTypeOK
<1>4. PhaseFits /\ EmittedFollowsBatch /\ LimitsAsSubmitted /\ TextFollowsOutput
    BY <1>2 DEF PhaseFits, EmittedFollowsBatch, LimitsAsSubmitted, TextFollowsOutput
<1>5. FinishedAreComplete /\ WorkOrRetired
    BY <1>2 DEF FinishedAreComplete, WorkOrRetired
<1>6. Handed = {} /\ Retired = {}
    BY <1>2 DEF Handed, Retired
<1>7. IsFiniteSet({}) /\ Cardinality({}) = 0
    BY FS_EmptySet
<1>8. IterationsArePaidFor
    BY <1>2, <1>6, <1>7 DEF IterationsArePaidFor
<1> QED
    BY <1>1, <1>3, <1>4, <1>5, <1>6, <1>7, <1>8 DEF EngineInv

LEMMA EngineInitEstablishes == EngineInit => EngineInv
BY NewlyBuiltIsSound DEF EngineInit, NewlyBuilt

\* Every step of the engine preserves it.
LEMMA EngineNextPreserves == EngineInv /\ [EngineNext]_allVars => EngineInv'
<1> SUFFICES ASSUME EngineInv, [EngineNext]_allVars
             PROVE  EngineInv'
    OBVIOUS
<1>1. ProgressInv' /\ TypeOK'
    BY EngineStepsSchedule, ProgressInvInductive DEF EngineInv, ProgressInv, IInv
<1>2. EngineTypeOK' /\ PhaseFits' /\ EmittedFollowsBatch'
    BY <1>1, EngineTypeStep, PhaseStep, EmittedStep
<1>3. LimitsAsSubmitted' /\ TextFollowsOutput' /\ FinishedAreComplete'
    BY LimitsAsSubmittedStep, TextStep, FinishedStep
<1>4. WorkOrRetired' /\ IsFiniteSet(Handed)' /\ IsFiniteSet(Retired)'
      /\ IterationsArePaidFor'
    BY WorkStep, PaidStep
<1> QED
    BY <1>1, <1>2, <1>3, <1>4 DEF EngineInv

\* The invariant holds in every reachable state of the engine.
THEOREM EngineInvariant == EngineSpec => []EngineInv
    BY EngineInitEstablishes, EngineNextPreserves, PTL DEF EngineSpec

\* Every reachable state of the engine is well typed (engine.rs:18-28, 88-97).
THEOREM EngineTypeCorrect == EngineSpec => []EngineTypeOK
<1>1. EngineInv => EngineTypeOK
    BY DEF EngineInv
<1> QED
    BY <1>1, EngineInvariant, PTL

\* If every request fits the cache, run_to_completion makes no more iterations
\* than there are tokens handed over and requests finished
\* (engine.rs:92-103): the guard is a bound on the work, not on the waiting.
THEOREM IterationsArePaid == EngineSpec => []IterationsBounded
<1>1. EngineInv => IterationsBounded
    <2>1. AllFit => NoneHopeless
        BY DEF AllFit, NoneHopeless, Hopeless
    <2> QED
        BY <2>1 DEF EngineInv, IterationsArePaidFor, IterationsBounded
<1> QED
    BY <1>1, EngineInvariant, PTL

-----------------------------------------------------------------------------
(* The refinement                                                          *)

\* When no work is left and everything is collected, every request has been
\* decoded to its end.
LEMMA AllAnswered ==
    ASSUME EngineInv, emitted = <<>>, ~HasWork
    PROVE  \A s \in DOMAIN requests : ~Greedy!Open(s)
<1> SUFFICES ASSUME NEW s \in DOMAIN requests
             PROVE  ~Greedy!Open(s)
    OBVIOUS
<1>1. s \in DOMAIN seqs /\ seqs[s] \in Sequence
    BY DEF EngineInv, EngineTypeOK, TypeOK
<1>2. seqs[s].state = "Finished"
    <2>1. s \notin Range(waiting) /\ s \notin Range(running)
        BY DEF HasWork, Range
    <2>2. seqs[s].state \in SeqState
        BY <1>1 DEF Sequence
    <2> QED
        BY <1>1, <2>1, <2>2 DEF EngineInv, ProgressInv, IInv, NoRequestLost,
                                InQueue, InBatch, SeqState
<1>3. IsComplete(s)
    BY <1>1, <1>2 DEF EngineInv, FinishedAreComplete
<1>4. seqs[s].output = Text[s]
    BY <1>1 DEF EngineInv, TextFollowsOutput, Awaited
<1>5. OutputLen(s) \in Nat /\ seqs[s].max_new_tokens \in Nat
    BY <1>1, SeqParts DEF EngineInv, EngineTypeOK
<1>6. EndsInEos(Text[s]) \/ Len(Text[s]) >= requests[s].max_new_tokens
    BY <1>1, <1>3, <1>4 DEF EngineInv, LimitsAsSubmitted, IsComplete, OutputLen
<1>7. EndsInEos(Text[s]) <=> Greedy!Ended(s)
    BY DEF EndsInEos, Greedy!Ended
<1>8. \/ EndsInEos(Text[s])
      \/ Len(Text[s]) \in Nat /\ requests[s].max_new_tokens \in Nat
    BY <1>1, <1>4, <1>5 DEF EngineInv, LimitsAsSubmitted, OutputLen
<1> QED
    BY <1>6, <1>7, <1>8 DEF Greedy!Open

\* Every step of the engine is a step of greedy decoding, or none.
LEMMA EngineStepMaps ==
    ASSUME EngineInv, [EngineNext]_allVars
    PROVE  [Greedy!Next]_(Greedy!vars)
<1>1. EngineTypeOK /\ IInv /\ PhaseFits /\ EmittedFollowsBatch /\ TextFollowsOutput
    BY DEF EngineInv, ProgressInv
<1>2. ASSUME UNCHANGED <<requests, outputs, model>>,
             (phase = "returned" /\ ~HasWork)' <=> (phase = "returned" /\ ~HasWork)
      PROVE  UNCHANGED Greedy!vars
    BY <1>2, TextStays DEF Greedy!vars
<1>3. ASSUME UNCHANGED <<requests, outputs, model, emitted>>, emitted = <<>>,
             UNCHANGED <<waiting, running>>, phase /= "returned"
      PROVE  [Greedy!Next]_(Greedy!vars)
    <2>1. CASE phase' = "returned" /\ ~HasWork
        <3>1. \A s \in DOMAIN requests : ~Greedy!Open(s)
            BY <1>3, <2>1, AllAnswered
        <3>2. Greedy!Finish
            BY <1>3, <2>1, <3>1, TextStays DEF Greedy!Finish, HasWork
        <3> QED
            BY <3>2 DEF Greedy!Next
    <2>2. CASE ~(phase' = "returned" /\ ~HasWork)
        BY <1>2, <1>3, <2>2 DEF HasWork
    <2> QED
        BY <2>1, <2>2
<1>4. ASSUME NEW s \in SeqIds, NEW prompt \in Prompts, NEW max \in MaxNews,
             EngineSubmit(s, prompt, max)
      PROVE  Greedy!Next
    <2>1. /\ s \notin DOMAIN requests
          /\ requests' = [t \in DOMAIN requests \cup {s} |->
                            IF t = s
                            THEN [prompt |-> prompt, max_new_tokens |-> max]
                            ELSE requests[t]]
          /\ UNCHANGED model /\ phase = "submitting" /\ phase' = "submitting"
        BY <1>1, <1>4, SubmitText DEF EngineSubmit
    <2>2. Text' = [t \in DOMAIN requests \cup {s} |->
                    IF t = s THEN <<>> ELSE Text[t]]
        BY <1>1, <1>4, SubmitText
    <2>3. Greedy!Submit(s, prompt, max)
        BY <2>1, <2>2 DEF Greedy!Submit
    <2> QED
        BY <2>3 DEF Greedy!Next
<1>5. CASE RunToCompletion
    <2>1. UNCHANGED <<requests, outputs, model>> /\ phase = "submitting"
          /\ phase' = "running"
        BY <1>1, <1>5 DEF RunToCompletion, PhaseFits
    <2> QED
        BY <1>2, <2>1
<1>6. CASE StepStart \/ StepSchedule \/ StepReturns
    <2>1. UNCHANGED <<requests, outputs, model>> /\ phase = "running"
          /\ phase' \in {"running", "collecting"}
        BY <1>6 DEF StepStart, StepSchedule, StepReturns, engineVars
    <2> QED
        BY <1>2, <2>1
<1>7. ASSUME NEW token \in Token, StepForward(token)
      PROVE  Greedy!Next
    <2>1. UNCHANGED <<requests, outputs, phase>> /\ phase = "running"
        BY <1>7 DEF StepForward
    <2>2. /\ NextContext \in DOMAIN model => token = model[NextContext]
          /\ model' = [c \in DOMAIN model \cup {NextContext} |->
                        IF c = NextContext THEN token ELSE model[c]]
        BY <1>7 DEF StepForward
    <2>3. \A c \in DOMAIN model : model[c] \in Token
        BY <1>1 DEF EngineTypeOK
    <2>4. Greedy!Ask
        BY <2>1, <2>2, <2>3, TextStays DEF Greedy!Ask
    <2> QED
        BY <2>4 DEF Greedy!Next
<1>8. CASE CollectNext
    <2>1. /\ emitted \in Seq(SeqIds \X Token) /\ emitted /= <<>>
          /\ UNCHANGED <<requests, model, phase>> /\ phase = "collecting"
        BY <1>1, <1>8 DEF CollectNext, EngineTypeOK
    <2>2. /\ 1 \in DOMAIN emitted /\ Head(emitted) = emitted[1]
          /\ emitted[1] \in SeqIds \X Token
        BY <2>1
    <2>3. PICK s \in SeqIds, token \in Token : <<s, token>> = emitted[1]
        BY <2>2
    <2>4. s \in DOMAIN requests /\ Text' = [Text EXCEPT ![s] = Append(@, token)]
        BY <1>1, <1>8, <2>2, <2>3, CollectText
    <2>5. OnItsWay(s, token)
        BY <1>1, <2>2, <2>3 DEF TextFollowsOutput
    <2>6. /\ Greedy!Open(s)
          /\ Greedy!Context(s) \in DOMAIN model
          /\ model[Greedy!Context(s)] = token
        BY <2>5 DEF OnItsWay, EndsInEos, Greedy!Open, Greedy!Ended, Greedy!Context
    <2>7. Text' = [t \in DOMAIN Text |->
                    IF t \in {s} THEN Append(Text[t], model[Greedy!Context(t)])
                                 ELSE Text[t]]
        BY <2>4, <2>6
    <2>8. Greedy!Decode({s})
        BY <2>1, <2>6, <2>7 DEF Greedy!Decode
    <2> QED
        BY <2>4, <2>8 DEF Greedy!Next
<1>9. CASE IterationEnds
    <2>1. /\ UNCHANGED <<requests, outputs, model, emitted>> /\ emitted = <<>>
          /\ UNCHANGED <<waiting, running>> /\ phase = "collecting"
        BY <1>9 DEF IterationEnds, vars
    <2> QED
        BY <1>3, <2>1
<1>10. CASE RunReturns
    <2>1. /\ UNCHANGED <<requests, outputs, model, emitted>> /\ emitted = <<>>
          /\ UNCHANGED <<waiting, running>> /\ phase = "running"
        BY <1>1, <1>10 DEF RunReturns, vars, PhaseFits
    <2> QED
        BY <1>3, <2>1
<1>11. CASE UNCHANGED allVars
    <2>1. UNCHANGED <<requests, outputs, model, phase, waiting, running>>
        BY <1>11 DEF allVars, engineVars, vars
    <2> QED
        BY <1>2, <2>1 DEF HasWork
<1> QED
    BY <1>4, <1>5, <1>6, <1>7, <1>8, <1>9, <1>10, <1>11 DEF EngineNext, EngineStep

\* What run_to_completion collects for a request is the greedy decoding of its
\* prompt, as if there were no batch, no pages and no preemption, for every
\* model, every number of requests and every size of cache and batch
\* (engine.rs:51-73, 88-112).
THEOREM EngineIsGreedy == EngineSpec => ImplementsGreedyDecode
<1>1. EngineInit => Greedy!Init
    BY DEF EngineInit, Init, Greedy!Init, Text
<1>2. EngineInv /\ [EngineNext]_allVars => [Greedy!Next]_(Greedy!vars)
    BY EngineStepMaps
<1> QED
    BY <1>1, <1>2, EngineInvariant, PTL
    DEF EngineSpec, ImplementsGreedyDecode, Greedy!Spec
=============================================================================
