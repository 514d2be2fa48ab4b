-------------------------- MODULE SchedulerProofs --------------------------
(***************************************************************************)
(* The safety invariants of the scheduler, for every set of ids, cache     *)
(* size, batch size and requests.                                          *)
(***************************************************************************)
EXTENDS SchedulerProperties, KVCacheProofs

-----------------------------------------------------------------------------
(* The queue and the batch as sequences                                    *)

\* push_back.
LEMMA AppendFacts ==
    ASSUME NEW S, NEW q \in Seq(S), NEW e \in S
    PROVE  /\ Append(q, e) \in Seq(S)
           /\ Range(Append(q, e)) = Range(q) \cup {e}
           /\ IsInjective(q) /\ e \notin Range(q) => IsInjective(Append(q, e))
<1>1. /\ Append(q, e) \in Seq(S)
      /\ Len(q) \in Nat
      /\ DOMAIN q = 1 .. Len(q)
      /\ DOMAIN Append(q, e) = 1 .. Len(q) + 1
      /\ \A i \in 1 .. Len(q) : Append(q, e)[i] = q[i]
      /\ Append(q, e)[Len(q) + 1] = e
    OBVIOUS
<1>2. Range(Append(q, e)) = Range(q) \cup {e}
    <2>1. \A i \in 1 .. Len(q) + 1 : i \in 1 .. Len(q) \/ i = Len(q) + 1
        BY <1>1
    <2>2. \A i \in 1 .. Len(q) : i \in 1 .. Len(q) + 1
        BY <1>1
    <2>3. Len(q) + 1 \in 1 .. Len(q) + 1
        BY <1>1
    <2> QED
        BY <1>1, <2>1, <2>2, <2>3 DEF Range
<1>3. ASSUME IsInjective(q), e \notin Range(q)
      PROVE  IsInjective(Append(q, e))
    <2>1. \A i \in 1 .. Len(q) : Append(q, e)[i] /= e
        BY <1>1, <1>3 DEF Range
    <2> QED
        BY <1>1, <1>3, <2>1 DEF IsInjective
<1> QED
    BY <1>1, <1>2, <1>3

\* pop_front.
LEMMA TailFacts ==
    ASSUME NEW S, NEW q \in Seq(S), q /= <<>>, IsInjective(q)
    PROVE  /\ Head(q) \in Range(q)
           /\ Tail(q) \in Seq(S)
           /\ Range(Tail(q)) = Range(q) \ {Head(q)}
           /\ IsInjective(Tail(q))
<1>1. /\ Tail(q) \in Seq(S)
      /\ Len(q) \in Nat \ {0}
      /\ DOMAIN q = 1 .. Len(q)
      /\ Head(q) = q[1]
      /\ DOMAIN Tail(q) = 1 .. Len(q) - 1
      /\ \A i \in 1 .. Len(q) - 1 : Tail(q)[i] = q[i + 1]
    OBVIOUS
<1>2. \A i \in 1 .. Len(q) - 1 : i + 1 \in 1 .. Len(q) /\ i + 1 /= 1
    BY <1>1
<1>3. \A i \in 1 .. Len(q) : i = 1 \/ (i - 1 \in 1 .. Len(q) - 1 /\ (i - 1) + 1 = i)
    BY <1>1
<1>4. Head(q) \in Range(q)
    BY <1>1 DEF Range
<1>5. Range(Tail(q)) = Range(q) \ {Head(q)}
    <2>1. ASSUME NEW i \in 1 .. Len(q) - 1
          PROVE  Tail(q)[i] \in Range(q) \ {Head(q)}
        BY <1>1, <1>2 DEF IsInjective, Range
    <2>2. ASSUME NEW i \in 1 .. Len(q), q[i] /= Head(q)
          PROVE  q[i] \in Range(Tail(q))
        <3>1. i - 1 \in 1 .. Len(q) - 1 /\ Tail(q)[i - 1] = q[i]
            BY <1>1, <1>3, <2>2
        <3> QED
            BY <1>1, <3>1 DEF Range
    <2> QED
        BY <1>1, <2>1, <2>2 DEF Range
<1>6. IsInjective(Tail(q))
    <2>1. ASSUME NEW i \in 1 .. Len(q) - 1, NEW j \in 1 .. Len(q) - 1,
                 Tail(q)[i] = Tail(q)[j]
          PROVE  i = j
        <3>1. i + 1 = j + 1
            BY <1>1, <1>2, <2>1 DEF IsInjective
        <3> QED
            BY <3>1
    <2> QED
        BY <1>1, <2>1 DEF IsInjective
<1> QED
    BY <1>1, <1>4, <1>5, <1>6

\* The elements of a concatenation.
LEMMA ConcatAt ==
    ASSUME NEW S, NEW u \in Seq(S), NEW v \in Seq(S)
    PROVE  /\ u \o v \in Seq(S)
           /\ Len(u \o v) = Len(u) + Len(v)
           /\ \A j \in 1 .. Len(u) : (u \o v)[j] = u[j]
           /\ \A j \in 1 .. Len(v) : (u \o v)[Len(u) + j] = v[j]
OBVIOUS

\* push_front.
LEMMA ConsFacts ==
    ASSUME NEW S, NEW q \in Seq(S), NEW e \in S
    PROVE  /\ <<e>> \o q \in Seq(S)
           /\ Range(<<e>> \o q) = {e} \cup Range(q)
           /\ IsInjective(q) /\ e \notin Range(q) => IsInjective(<<e>> \o q)
<1> DEFINE u == <<e>>
<1>1. u \in Seq(S) /\ Range(u) = {e} /\ IsInjective(u)
    BY DEF Range, IsInjective
<1> HIDE DEF u
<1>2. /\ u \o q \in Seq(S)
      /\ Range(u \o q) = {e} \cup Range(q)
      /\ IsInjective(q) /\ e \notin Range(q) => IsInjective(u \o q)
    BY <1>1, ConcatFacts
<1> QED
    BY <1>2 DEF u

\* Vec::remove.
LEMMA RemoveFacts ==
    ASSUME NEW S, NEW q \in Seq(S), NEW i \in DOMAIN q, IsInjective(q)
    PROVE  /\ RemoveAt(q, i) \in Seq(S)
           /\ Len(RemoveAt(q, i)) = Len(q) - 1
           /\ \A j \in 1 .. Len(q) - 1 :
                RemoveAt(q, i)[j] = IF j < i THEN q[j] ELSE q[j + 1]
           /\ Range(RemoveAt(q, i)) = Range(q) \ {q[i]}
           /\ IsInjective(RemoveAt(q, i))
<1> DEFINE n == Len(q)
           r == RemoveAt(q, i)
<1>1. n \in Nat /\ DOMAIN q = 1 .. n /\ i \in 1 .. n
    OBVIOUS
<1> DEFINE u == SubSeq(q, 1, i - 1)
           v == SubSeq(q, i + 1, n)
<1>2. /\ u \in Seq(S) /\ Len(u) = i - 1
      /\ v \in Seq(S) /\ Len(v) = n - i
      /\ \A j \in 1 .. i - 1 : u[j] = q[j]
      /\ \A j \in 1 .. n - i : v[j] = q[i + j]
    <2>1. u \in Seq(S) /\ Len(u) = i - 1
        BY <1>1
    <2>2. v \in Seq(S) /\ Len(v) = n - i
        BY <1>1
    <2>3. ASSUME NEW j \in 1 .. i - 1
          PROVE  u[j] = q[j]
        BY <1>1
    <2>4. ASSUME NEW j \in 1 .. n - i
          PROVE  v[j] = q[i + j]
        BY <1>1
    <2> QED
        BY <2>1, <2>2, <2>3, <2>4
<1>3. /\ r \in Seq(S)
      /\ Len(r) = n - 1
      /\ \A j \in 1 .. n - 1 : r[j] = IF j < i THEN q[j] ELSE q[j + 1]
    <2>1. r = u \o v
        BY DEF RemoveAt
    <2>s. u \in Seq(S) /\ v \in Seq(S)
        BY <1>2
    <2> HIDE DEF u, v, r
    <2>2. /\ r \in Seq(S)
          /\ Len(r) = Len(u) + Len(v)
          /\ \A j \in 1 .. Len(u) : r[j] = u[j]
          /\ \A j \in 1 .. Len(v) : r[Len(u) + j] = v[j]
        BY <2>1, <2>s, ConcatAt
    <2>3. Len(r) = n - 1
        BY <1>1, <1>2, <2>2
    <2>4. ASSUME NEW j \in 1 .. n - 1, j < i
          PROVE  r[j] = q[j]
        <3>1. j \in 1 .. i - 1 /\ j \in 1 .. Len(u)
            BY <1>1, <1>2, <2>4
        <3>2. r[j] = u[j]
            BY <2>2, <3>1
        <3> QED
            BY <1>2, <3>1, <3>2
    <2>5. ASSUME NEW j \in 1 .. n - 1, ~(j < i)
          PROVE  r[j] = q[j + 1]
        <3> DEFINE k == j - (i - 1)
        <3>1. /\ k \in 1 .. n - i /\ k \in 1 .. Len(v)
              /\ i + k = j + 1
              /\ Len(u) + k = j
            BY <1>1, <1>2, <2>5
        <3> HIDE DEF k
        <3>2. r[j] = v[k]
            BY <2>2, <3>1
        <3> QED
            BY <1>2, <3>1, <3>2
    <2> QED
        BY <2>2, <2>3, <2>4, <2>5
<1>4. DOMAIN r = 1 .. n - 1
    BY <1>3
<1> HIDE DEF r
<1>5. Range(r) = Range(q) \ {q[i]}
    <2>1. ASSUME NEW j \in 1 .. n - 1
          PROVE  r[j] \in Range(q) \ {q[i]}
        <3>1. CASE j < i
            BY <1>1, <1>3, <3>1 DEF IsInjective, Range
        <3>2. CASE ~(j < i)
            <4>1. j + 1 \in 1 .. n /\ j + 1 /= i
                BY <1>1, <3>2
            <4> QED
                BY <1>1, <1>3, <3>2, <4>1 DEF IsInjective, Range
        <3> QED
            BY <3>1, <3>2
    <2>2. ASSUME NEW j \in 1 .. n, j /= i
          PROVE  q[j] \in Range(r)
        <3>1. CASE j < i
            BY <1>1, <1>3, <1>4, <3>1 DEF Range
        <3>2. CASE ~(j < i)
            <4>1. j - 1 \in 1 .. n - 1 /\ ~(j - 1 < i) /\ (j - 1) + 1 = j
                BY <1>1, <2>2, <3>2
            <4>2. r[j - 1] = q[j]
                BY <1>3, <4>1
            <4> QED
                BY <1>4, <4>1, <4>2 DEF Range
        <3> QED
            BY <3>1, <3>2
    <2> QED
        BY <1>1, <1>4, <2>1, <2>2 DEF Range
<1>6. IsInjective(r)
    <2>1. ASSUME NEW j \in 1 .. n - 1, NEW k \in 1 .. n - 1, r[j] = r[k]
          PROVE  j = k
        <3> DEFINE at(m) == IF m < i THEN m ELSE m + 1
        <3>1. at(j) \in 1 .. n /\ at(k) \in 1 .. n
            BY <1>1
        <3>2. r[j] = q[at(j)] /\ r[k] = q[at(k)]
            BY <1>3
        <3>3. at(j) = at(k)
            BY <1>1, <2>1, <3>1, <3>2 DEF IsInjective
        <3> QED
            BY <1>1, <3>3
    <2> QED
        BY <1>4, <2>1 DEF IsInjective
<1> QED
    BY <1>3, <1>5, <1>6 DEF r

\* A sequence over S is one over any larger set, and its range is in S.
LEMMA SeqGrows ==
    ASSUME NEW S, NEW T, S \subseteq T, NEW q \in Seq(S)
    PROVE  q \in Seq(T) /\ Range(q) \subseteq S
<1>1. DOMAIN q = 1 .. Len(q) /\ Len(q) \in Nat /\ \A i \in DOMAIN q : q[i] \in S
    OBVIOUS
<1>2. q = [i \in 1 .. Len(q) |-> q[i]]
    BY <1>1
<1> QED
    BY <1>1, <1>2 DEF Range

-----------------------------------------------------------------------------
(* The sequences *)

LEMMA SeqParts ==
    ASSUME TypeOK, NEW s \in DOMAIN seqs
    PROVE  /\ s \in SeqIds
           /\ seqs[s] \in Sequence
           /\ seqs[s].output \in Seq(Token)
           /\ OutputLen(s) \in Nat /\ TotalLen(s) \in Nat
           /\ seqs[s].max_new_tokens \in Nat
<1>1. s \in SeqIds /\ seqs[s] \in Sequence
    BY DEF TypeOK
<1>2. /\ seqs[s].prompt \in Seq(Token) /\ seqs[s].output \in Seq(Token)
      /\ seqs[s].max_new_tokens \in Nat
    BY <1>1 DEF Sequence
<1>3. Len(seqs[s].prompt) \in Nat /\ Len(seqs[s].output) \in Nat
    BY <1>2
<1>4. OutputLen(s) \in Nat
    BY <1>3 DEF OutputLen
<1>5. TotalLen(s) \in Nat
    <2>1. \A m, n \in Nat : m + n \in Nat
        OBVIOUS
    <2> QED
        BY <1>3, <2>1 DEF TotalLen
<1> QED
    BY <1>1, <1>2, <1>4, <1>5

\* The four lists of a plan grow one by one.
LEMMA PlanGrows ==
    ASSUME plan \in StepPlan, NEW s \in SeqIds
    PROVE  /\ plan.decode_batch \in Seq(SeqIds)
           /\ plan' = [plan EXCEPT !.admitted = Append(@, s)]
                => /\ plan' \in StepPlan
                   /\ plan'.decode_batch = plan.decode_batch
           /\ plan' = [plan EXCEPT !.preempted = Append(@, s)]
                => /\ plan' \in StepPlan
                   /\ plan'.decode_batch = plan.decode_batch
           /\ plan' = [plan EXCEPT !.finished = Append(@, s)]
                => /\ plan' \in StepPlan
                   /\ plan'.decode_batch = plan.decode_batch
           /\ plan' = [plan EXCEPT !.decode_batch = Append(@, s)]
                => /\ plan' \in StepPlan
                   /\ plan'.decode_batch = Append(plan.decode_batch, s)
<1>1. /\ plan.admitted \in Seq(SeqIds) /\ plan.decode_batch \in Seq(SeqIds)
      /\ plan.preempted \in Seq(SeqIds) /\ plan.finished \in Seq(SeqIds)
      /\ plan = [admitted     |-> plan.admitted,
                 decode_batch |-> plan.decode_batch,
                 preempted    |-> plan.preempted,
                 finished     |-> plan.finished]
    BY DEF StepPlan
<1>2. ASSUME NEW q \in Seq(SeqIds)
      PROVE  Append(q, s) \in Seq(SeqIds)
    OBVIOUS
<1>3. /\ Append(plan.admitted, s) \in Seq(SeqIds)
      /\ Append(plan.decode_batch, s) \in Seq(SeqIds)
      /\ Append(plan.preempted, s) \in Seq(SeqIds)
      /\ Append(plan.finished, s) \in Seq(SeqIds)
    BY <1>1, <1>2
<1>4. ASSUME plan' = [plan EXCEPT !.admitted = Append(@, s)]
      PROVE  plan' \in StepPlan /\ plan'.decode_batch = plan.decode_batch
    BY <1>1, <1>3, <1>4 DEF StepPlan
<1>5. ASSUME plan' = [plan EXCEPT !.preempted = Append(@, s)]
      PROVE  plan' \in StepPlan /\ plan'.decode_batch = plan.decode_batch
    BY <1>1, <1>3, <1>5 DEF StepPlan
<1>6. ASSUME plan' = [plan EXCEPT !.finished = Append(@, s)]
      PROVE  plan' \in StepPlan /\ plan'.decode_batch = plan.decode_batch
    BY <1>1, <1>3, <1>6 DEF StepPlan
<1>7. ASSUME plan' = [plan EXCEPT !.decode_batch = Append(@, s)]
      PROVE  plan' \in StepPlan /\ plan'.decode_batch = Append(plan.decode_batch, s)
    BY <1>1, <1>3, <1>7 DEF StepPlan
<1> QED
    BY <1>1, <1>4, <1>5, <1>6, <1>7

\* With nothing in the plan there is nothing to decode.
LEMMA EmptyBatch ==
    ASSUME plan'.decode_batch = <<>>
    PROVE  Reserved' = {} /\ PlanFollowsBatch' /\ DecodeBatchIsRunning'
<1>1. DOMAIN (plan'.decode_batch) = {} /\ Range(plan'.decode_batch) = {}
    BY DEF Range
<1>2. Reserved' = {}
    BY <1>1 DEF Reserved
<1> QED
    BY <1>1, <1>2 DEF PlanFollowsBatch, DecodeBatchIsRunning, IsInjective

\* A sequence changes its state and nothing else.
LEMMA NewState ==
    ASSUME TypeOK, NEW s \in DOMAIN seqs, NEW state \in SeqState,
           seqs' = [seqs EXCEPT ![s].state = state]
    PROVE  /\ DOMAIN seqs' = DOMAIN seqs
           /\ seqs' \in [DOMAIN seqs' -> Sequence]
           /\ \A t \in DOMAIN seqs :
                /\ seqs'[t].state = IF t = s THEN state ELSE seqs[t].state
                /\ TotalLen(t)' = TotalLen(t)
                /\ OutputLen(t)' = OutputLen(t)
                /\ IsComplete(t)' = IsComplete(t)
<1>1. \A t \in DOMAIN seqs : seqs[t] \in Sequence
    BY DEF TypeOK
<1>2. DOMAIN seqs' = DOMAIN seqs
    OBVIOUS
<1>3. \A t \in DOMAIN seqs :
        /\ seqs'[t] \in Sequence
        /\ seqs'[t].state = IF t = s THEN state ELSE seqs[t].state
        /\ seqs'[t].prompt = seqs[t].prompt
        /\ seqs'[t].output = seqs[t].output
        /\ seqs'[t].max_new_tokens = seqs[t].max_new_tokens
    BY <1>1 DEF Sequence
<1>4. seqs' \in [DOMAIN seqs' -> Sequence]
    BY <1>2, <1>3 DEF TypeOK
<1> QED
    BY <1>2, <1>3, <1>4 DEF TotalLen, OutputLen, IsComplete

\* push_token changes the output and the limit of one sequence.
LEMMA PushedState ==
    ASSUME TypeOK, NEW s \in DOMAIN seqs, NEW token \in Token, NEW is_eos,
           seqs' = [seqs EXCEPT ![s] = Pushed(@, token, is_eos)]
    PROVE  /\ DOMAIN seqs' = DOMAIN seqs
           /\ seqs' \in [DOMAIN seqs' -> Sequence]
           /\ \A t \in DOMAIN seqs :
                /\ seqs'[t].state = seqs[t].state
                /\ TotalLen(t)' = TotalLen(t) + (IF t = s THEN 1 ELSE 0)
                /\ OutputLen(t)' = OutputLen(t) + (IF t = s THEN 1 ELSE 0)
                /\ t /= s => IsComplete(t)' = IsComplete(t)
<1> DEFINE x == seqs[s]
           out == Append(x.output, token)
           y == Pushed(x, token, is_eos)
<1>1. /\ DOMAIN seqs' = DOMAIN seqs
      /\ seqs'[s] = y
      /\ \A t \in DOMAIN seqs : t /= s => seqs'[t] = seqs[t]
    OBVIOUS
<1>2. x \in Sequence /\ \A t \in DOMAIN seqs : seqs[t] \in Sequence
    BY DEF TypeOK
<1>3. out \in Seq(Token) /\ Len(out) = Len(x.output) + 1 /\ Len(out) \in Nat
      /\ Len(x.prompt) \in Nat /\ Len(x.output) \in Nat
    BY <1>2 DEF Sequence
<1> HIDE DEF out
<1>4. y = [x EXCEPT !.output = out,
                    !.max_new_tokens = IF is_eos THEN Len(out) ELSE @]
    BY DEF Pushed, out
<1> HIDE DEF y, x
<1>5. /\ y \in Sequence /\ y.state = x.state
      /\ y.prompt = x.prompt /\ y.output = out
    BY <1>2, <1>3, <1>4 DEF Sequence
<1>6. \A t \in DOMAIN seqs : seqs'[t] \in Sequence /\ seqs'[t].state = seqs[t].state
    BY <1>1, <1>2, <1>5 DEF x
<1>7. seqs' \in [DOMAIN seqs' -> Sequence]
    BY <1>1, <1>6 DEF TypeOK
<1>8. \A t \in DOMAIN seqs : t /= s =>
        /\ TotalLen(t)' = TotalLen(t) /\ OutputLen(t)' = OutputLen(t)
        /\ IsComplete(t)' = IsComplete(t)
    BY <1>1 DEF TotalLen, IsComplete, OutputLen
<1>9. TotalLen(s)' = Len(x.prompt) + (Len(x.output) + 1)
    BY <1>1, <1>3, <1>5 DEF TotalLen
<1>10. TotalLen(s) = Len(x.prompt) + Len(x.output)
    BY DEF TotalLen, x
<1>11. TotalLen(s)' = TotalLen(s) + 1
    <2>1. \A m, n \in Nat : m + (n + 1) = (m + n) + 1
        OBVIOUS
    <2> QED
        BY <1>3, <1>9, <1>10, <2>1
<1>12. \A t \in DOMAIN seqs : TotalLen(t) \in Nat /\ OutputLen(t) \in Nat
    BY SeqParts
<1>13. OutputLen(s)' = OutputLen(s) + 1
    <2>1. OutputLen(s)' = Len(out)
        BY <1>1, <1>5 DEF OutputLen
    <2>2. OutputLen(s) = Len(x.output)
        BY DEF OutputLen, x
    <2> QED
        BY <1>3, <2>1, <2>2
<1> QED
    BY <1>1, <1>6, <1>7, <1>8, <1>11, <1>12, <1>13

-----------------------------------------------------------------------------
(* What the calls of the scheduler do to the cache                         *)

\* An append to a known sequence, as the scheduler sees it.
LEMMA Appended ==
    ASSUME NEW c, CacheSound(c), NEW s, NEW count \in Nat,
           CanAppend(c, s, count),
           NEW d, d = AppendTokens(c, s, count)
    PROVE  /\ CacheSound(d)
           /\ DOMAIN d.tables = DOMAIN c.tables
           /\ \A t \in DOMAIN c.tables : t /= s => d.tables[t] = c.tables[t]
           /\ d.tables[s].num_tokens = c.tables[s].num_tokens + count
<1>1. s \in DOMAIN c.tables
    BY DEF CanAppend, Known
<1>2. CacheSound(d)
    BY AppendSound
<1>3. /\ DOMAIN d.tables = DOMAIN c.tables
      /\ \A t \in DOMAIN c.tables : t /= s => d.tables[t] = c.tables[t]
      /\ d.tables[s] = [blocks |-> c.tables[s].blocks
                                   \o Popped(c, BlocksNeededFor(c, s, count)),
                        num_tokens |-> c.tables[s].num_tokens + count]
    BY <1>1, AppendTables
<1> QED
    BY <1>2, <1>3

\* Admit and append, for a sequence the cache does not know.
LEMMA Placed ==
    ASSUME NEW c, CacheSound(c), NEW s \in SeqIds, s \notin DOMAIN c.tables,
           NEW n \in Nat, CanAppend(Admit(c, s), s, n),
           NEW d, d = AppendTokens(Admit(c, s), s, n)
    PROVE  /\ CacheSound(d)
           /\ DOMAIN d.tables = DOMAIN c.tables \cup {s}
           /\ \A t \in DOMAIN c.tables : d.tables[t] = c.tables[t]
           /\ d.tables[s].num_tokens = n
<1> DEFINE a == Admit(c, s)
<1>1. /\ CacheSound(a)
      /\ DOMAIN a.tables = DOMAIN c.tables \cup {s}
      /\ \A t \in DOMAIN c.tables : a.tables[t] = c.tables[t]
      /\ a.tables[s].num_tokens = 0
    BY AdmitSound DEF EmptyTable
<1> HIDE DEF a
<1>2. CanAppend(a, s, n) /\ d = AppendTokens(a, s, n)
    BY DEF a
<1>3. /\ CacheSound(d)
      /\ DOMAIN d.tables = DOMAIN a.tables
      /\ \A t \in DOMAIN a.tables : t /= s => d.tables[t] = a.tables[t]
      /\ d.tables[s].num_tokens = a.tables[s].num_tokens + n
    BY <1>1, <1>2, Appended
<1> QED
    BY <1>1, <1>3

\* Admit and free, for a sequence the cache does not know: nothing is left.
LEMMA RolledBack ==
    ASSUME NEW c, CacheSound(c), NEW s \in SeqIds, s \notin DOMAIN c.tables,
           NEW d, d = Free(Admit(c, s), s)
    PROVE  /\ CacheSound(d)
           /\ DOMAIN d.tables = DOMAIN c.tables
           /\ \A t \in DOMAIN c.tables : d.tables[t] = c.tables[t]
<1> DEFINE a == Admit(c, s)
<1>1. /\ CacheSound(a)
      /\ DOMAIN a.tables = DOMAIN c.tables \cup {s}
      /\ \A t \in DOMAIN c.tables : a.tables[t] = c.tables[t]
    BY AdmitSound
<1> HIDE DEF a
<1>2. d = Free(a, s)
    BY DEF a
<1>3. /\ CacheSound(d)
      /\ DOMAIN d.tables = DOMAIN a.tables \ {s}
      /\ \A t \in DOMAIN a.tables \ {s} : d.tables[t] = a.tables[t]
    BY <1>1, <1>2, FreeSound
<1> QED
    BY <1>1, <1>3

-----------------------------------------------------------------------------
(* The steps that move nothing: only pc, pos or an empty plan change       *)

LEMMA LoopSteps ==
    ASSUME IInv,
           \/ StartSchedule \/ AdmitStops \/ PreemptStops \/ CommitStops
           \/ KeepNext \/ RetireStops \/ EndStep \/ UNCHANGED vars
    PROVE  IInv'
<1> DEFINE b == plan.decode_batch
<1>1. UNCHANGED <<cache, seqs, waiting, running>>
    BY DEF StartSchedule, AdmitStops, PreemptStops, CommitStops, KeepNext,
           RetireStops, EndStep, vars
<1>2. TypeOK'
    <2>1. pc' \in {"idle", "admit", "preempt", "commit", "retire", "forward"}
        BY DEF StartSchedule, AdmitStops, PreemptStops, CommitStops, KeepNext,
               RetireStops, EndStep, vars, IInv, TypeOK
    <2>2. pos' \in Nat \ {0}
        BY DEF StartSchedule, AdmitStops, PreemptStops, CommitStops, KeepNext,
               RetireStops, EndStep, vars, IInv, TypeOK
    <2>3. EmptyPlan \in StepPlan
        BY DEF EmptyPlan, StepPlan
    <2>4. plan' \in StepPlan
        BY <2>3 DEF StartSchedule, AdmitStops, PreemptStops, CommitStops,
               KeepNext, RetireStops, EndStep, vars, IInv, TypeOK
    <2> QED
        BY <1>1, <2>1, <2>2, <2>4 DEF IInv, TypeOK
<1>3. CacheSound(cache)' /\ OnlyBatchHoldsBlocks' /\ NoRequestLost'
    BY <1>1 DEF IInv, OnlyBatchHoldsBlocks, NoRequestLost, InQueue, InBatch
<1>4. /\ b \in Seq(SeqIds)
      /\ DOMAIN b = 1 .. Len(b) /\ Len(b) \in Nat
      /\ DOMAIN EmptyPlan.decode_batch = {}
      /\ pos \in Nat \ {0}
    BY DEF IInv, TypeOK, StepPlan, EmptyPlan
<1>5. PlanFollowsBatch' /\ Reserved' = Reserved /\ (b' = b \/ b' = <<>>)
    <2>1. CASE StartSchedule
        BY <1>4, <2>1 DEF StartSchedule, IInv, PlanFollowsBatch, EmptyPlan, Reserved
    <2>2. CASE AdmitStops \/ PreemptStops
        BY <1>4, <2>2 DEF AdmitStops, PreemptStops, IInv, PlanFollowsBatch,
                          Reserved, Range
    <2>3. CASE CommitStops \/ KeepNext \/ RetireStops
        BY <1>4, <2>3 DEF CommitStops, KeepNext, RetireStops, PlanFollowsBatch,
                          Reserved
    <2>4. CASE EndStep
        BY <1>4, <2>4 DEF EndStep, PlanFollowsBatch, EmptyPlan, Reserved
    <2>5. CASE UNCHANGED vars
        BY <2>5 DEF vars, IInv, PlanFollowsBatch, Reserved
    <2> QED
        BY <2>1, <2>2, <2>3, <2>4, <2>5
<1>6. CacheMatchesContext'
    BY <1>1, <1>5 DEF IInv, CacheMatchesContext, TotalLen
<1>7. DecodeBatchIsRunning'
    BY <1>1, <1>5 DEF IInv, DecodeBatchIsRunning, IsComplete, OutputLen,
                      IsInjective, Range
<1> QED
    BY <1>2, <1>3, <1>5, <1>6, <1>7 DEF IInv
-----------------------------------------------------------------------------
(* The steps that do *)

LEMMA SubmitStep ==
    ASSUME IInv, NEW s \in SeqIds, NEW prompt \in Prompts, NEW max \in MaxNews,
           Submit(s, prompt, max)
    PROVE  IInv'
<1> DEFINE new == NewSequence(prompt, max)
<1>1. /\ s \notin DOMAIN seqs
      /\ DOMAIN seqs' = DOMAIN seqs \cup {s}
      /\ \A t \in DOMAIN seqs : seqs'[t] = seqs[t]
      /\ seqs'[s] = new
      /\ waiting' = Append(waiting, s)
      /\ UNCHANGED <<cache, running, plan, pc, pos>>
    BY DEF Submit
<1>2. new \in Sequence /\ new.state = "Waiting"
    BY SchedulerAssumption DEF NewSequence, Sequence, SeqState
<1> HIDE DEF new
<1>3. /\ waiting \in Seq(DOMAIN seqs') /\ running \in Seq(DOMAIN seqs')
      /\ Range(waiting) \subseteq DOMAIN seqs
      /\ Range(running) \subseteq DOMAIN seqs
    BY <1>1, SeqGrows DEF IInv, TypeOK
<1>4. /\ waiting' \in Seq(DOMAIN seqs')
      /\ Range(waiting') = Range(waiting) \cup {s}
      /\ IsInjective(waiting')
    BY <1>1, <1>3, AppendFacts DEF IInv, NoRequestLost
<1>5. TypeOK'
    <2>1. seqs' \in [DOMAIN seqs' -> Sequence]
        BY <1>1, <1>2 DEF IInv, TypeOK, Submit
    <2> QED
        BY <1>1, <1>3, <1>4, <2>1 DEF IInv, TypeOK
<1>6. CacheSound(cache)' /\ OnlyBatchHoldsBlocks' /\ PlanFollowsBatch'
    BY <1>1 DEF IInv, OnlyBatchHoldsBlocks, PlanFollowsBatch
<1>7. NoRequestLost'
    BY <1>1, <1>2, <1>3, <1>4 DEF IInv, NoRequestLost, InQueue, InBatch
<1>8. CacheMatchesContext' /\ DecodeBatchIsRunning'
    <2>1. Reserved' = Reserved /\ Reserved \subseteq Range(plan.decode_batch)
        BY <1>1 DEF Reserved, Range
    <2>2. \A t \in Range(running) : seqs'[t] = seqs[t]
        BY <1>1, <1>3
    <2> QED
        BY <1>1, <2>1, <2>2 DEF IInv, CacheMatchesContext, DecodeBatchIsRunning,
            TotalLen, IsComplete, OutputLen
<1> QED
    BY <1>5, <1>6, <1>7, <1>8 DEF IInv

LEMMA AdmitFrontStep ==
    ASSUME IInv, AdmitFront
    PROVE  IInv'
<1> DEFINE s == Head(waiting)
<1>1. /\ pc = "admit" /\ waiting /= <<>>
      /\ CanAppend(Admit(cache, s), s, TotalLen(s))
      /\ cache' = AppendTokens(Admit(cache, s), s, TotalLen(s))
      /\ waiting' = Tail(waiting)
      /\ running' = Append(running, s)
      /\ seqs' = [seqs EXCEPT ![s].state = "Running"]
      /\ plan' = [plan EXCEPT !.admitted = Append(@, s)]
      /\ UNCHANGED <<pc, pos>>
    BY DEF AdmitFront, CanTryFront, TokensToPlace
<1>2. /\ s \in Range(waiting)
      /\ waiting' \in Seq(DOMAIN seqs)
      /\ Range(waiting') = Range(waiting) \ {s}
      /\ IsInjective(waiting')
    BY <1>1, TailFacts DEF IInv, TypeOK, NoRequestLost
<1> HIDE DEF s
<1>3. /\ s \in DOMAIN seqs /\ s \in SeqIds /\ TotalLen(s) \in Nat
      /\ s \notin Range(running)
    BY <1>2, SeqGrows, SeqParts DEF IInv, TypeOK, NoRequestLost, InQueue, InBatch
<1>4. /\ running' \in Seq(DOMAIN seqs)
      /\ Range(running') = Range(running) \cup {s}
      /\ IsInjective(running')
    BY <1>1, <1>3, AppendFacts DEF IInv, TypeOK, NoRequestLost
<1>5. /\ DOMAIN seqs' = DOMAIN seqs
      /\ seqs' \in [DOMAIN seqs' -> Sequence]
      /\ \A t \in DOMAIN seqs :
            /\ seqs'[t].state = IF t = s THEN "Running" ELSE seqs[t].state
            /\ TotalLen(t)' = TotalLen(t)
            /\ OutputLen(t)' = OutputLen(t)
            /\ IsComplete(t)' = IsComplete(t)
    BY <1>1, <1>3, NewState DEF IInv, SeqState
<1>6. /\ CacheSound(cache')
      /\ DOMAIN cache'.tables = DOMAIN cache.tables \cup {s}
      /\ \A t \in DOMAIN cache.tables : cache'.tables[t] = cache.tables[t]
      /\ cache'.tables[s].num_tokens = TotalLen(s)
    BY <1>1, <1>3, Placed DEF IInv, OnlyBatchHoldsBlocks
<1>7. /\ plan' \in StepPlan /\ plan'.decode_batch = <<>>
      /\ plan.decode_batch = <<>>
    BY <1>1, <1>3, PlanGrows DEF IInv, TypeOK, PlanFollowsBatch
<1>8. TypeOK'
    BY <1>1, <1>2, <1>4, <1>5, <1>6, <1>7 DEF IInv, TypeOK, CacheSound
<1>9. OnlyBatchHoldsBlocks' /\ PlanFollowsBatch' /\ DecodeBatchIsRunning'
    <2>1. OnlyBatchHoldsBlocks'
        BY <1>4, <1>6 DEF IInv, OnlyBatchHoldsBlocks
    <2>2. PlanFollowsBatch' /\ DecodeBatchIsRunning'
        BY <1>1, <1>7, EmptyBatch
    <2> QED
        BY <2>1, <2>2
<1>10. NoRequestLost'
    BY <1>2, <1>3, <1>4, <1>5 DEF IInv, NoRequestLost, InQueue, InBatch
<1>11. CacheMatchesContext'
    <2>1. Reserved' = {} /\ Reserved = {}
        BY <1>7 DEF Reserved
    <2>2. Range(running) \subseteq DOMAIN seqs
        BY SeqGrows DEF IInv, TypeOK
    <2> QED
        BY <1>3, <1>4, <1>5, <1>6, <2>1, <2>2
           DEF IInv, CacheMatchesContext, OnlyBatchHoldsBlocks, SeqLen, Known
<1> QED
    BY <1>6, <1>8, <1>9, <1>10, <1>11 DEF IInv
LEMMA AdmitFailsStep ==
    ASSUME IInv, AdmitFails
    PROVE  IInv'
<1> DEFINE s == Head(waiting)
<1>1. /\ pc = "admit" /\ waiting /= <<>>
      /\ cache' = Free(Admit(cache, s), s)
      /\ pc' = "preempt"
      /\ UNCHANGED <<seqs, waiting, running, plan, pos>>
    BY DEF AdmitFails, CanTryFront
<1>2. s \in Range(waiting)
    BY <1>1, TailFacts DEF IInv, TypeOK, NoRequestLost
<1> HIDE DEF s
<1>3. /\ s \in DOMAIN seqs /\ s \in SeqIds
      /\ s \notin Range(running)
    BY <1>2, SeqGrows, SeqParts DEF IInv, TypeOK, NoRequestLost, InQueue, InBatch
<1>4. /\ CacheSound(cache')
      /\ DOMAIN cache'.tables = DOMAIN cache.tables
      /\ \A t \in DOMAIN cache.tables : cache'.tables[t] = cache.tables[t]
    BY <1>1, <1>3, RolledBack DEF IInv, OnlyBatchHoldsBlocks
<1>5. plan.decode_batch = <<>> /\ plan'.decode_batch = <<>>
    BY <1>1 DEF IInv, PlanFollowsBatch
<1>6. Reserved' = {} /\ Reserved = {} /\ PlanFollowsBatch' /\ DecodeBatchIsRunning'
    BY <1>5, EmptyBatch DEF Reserved
<1>7. TypeOK'
    BY <1>1, <1>4 DEF IInv, TypeOK, CacheSound
<1>8. NoRequestLost' /\ OnlyBatchHoldsBlocks'
    BY <1>1, <1>4 DEF IInv, NoRequestLost, InQueue, InBatch, OnlyBatchHoldsBlocks
<1>9. CacheMatchesContext'
    BY <1>1, <1>4, <1>6 DEF IInv, CacheMatchesContext, OnlyBatchHoldsBlocks,
                            SeqLen, Known, TotalLen
<1> QED
    BY <1>4, <1>6, <1>7, <1>8, <1>9 DEF IInv

LEMMA PreemptVictimStep ==
    ASSUME IInv, NEW i \in DOMAIN running, PreemptVictim(i)
    PROVE  IInv'
<1> DEFINE s == running[i]
<1>1. /\ pc = "preempt"
      /\ running' = RemoveAt(running, i)
      /\ cache' = Free(cache, s)
      /\ seqs' = [seqs EXCEPT ![s].state = "Preempted"]
      /\ plan' = [plan EXCEPT !.preempted = Append(@, s)]
      /\ waiting' = <<s>> \o waiting
      /\ UNCHANGED <<pc, pos>>
    BY DEF PreemptVictim, Preempted, Requeued
<1>2. s \in Range(running)
    BY DEF Range
<1>3. /\ running' \in Seq(DOMAIN seqs)
      /\ Range(running') = Range(running) \ {s}
      /\ IsInjective(running')
    BY <1>1, RemoveFacts DEF IInv, TypeOK, NoRequestLost
<1> HIDE DEF s
<1>4. /\ s \in DOMAIN seqs /\ s \in SeqIds
      /\ s \notin Range(waiting)
    BY <1>2, SeqGrows, SeqParts DEF IInv, TypeOK, NoRequestLost, InQueue, InBatch
<1>5. /\ waiting' \in Seq(DOMAIN seqs)
      /\ Range(waiting') = {s} \cup Range(waiting)
      /\ IsInjective(waiting')
    BY <1>1, <1>4, ConsFacts DEF IInv, TypeOK, NoRequestLost
<1>6. /\ DOMAIN seqs' = DOMAIN seqs
      /\ seqs' \in [DOMAIN seqs' -> Sequence]
      /\ \A t \in DOMAIN seqs :
            /\ seqs'[t].state = IF t = s THEN "Preempted" ELSE seqs[t].state
            /\ TotalLen(t)' = TotalLen(t)
    BY <1>1, <1>4, NewState DEF IInv, SeqState
<1>7. /\ CacheSound(cache')
      /\ DOMAIN cache'.tables = DOMAIN cache.tables \ {s}
      /\ \A t \in DOMAIN cache.tables \ {s} : cache'.tables[t] = cache.tables[t]
    BY <1>1, FreeSound DEF IInv
<1>8. /\ plan' \in StepPlan /\ plan'.decode_batch = <<>>
      /\ plan.decode_batch = <<>>
    BY <1>1, <1>4, PlanGrows DEF IInv, TypeOK, PlanFollowsBatch
<1>9. Reserved' = {} /\ Reserved = {} /\ PlanFollowsBatch' /\ DecodeBatchIsRunning'
    BY <1>8, EmptyBatch DEF Reserved
<1>10. TypeOK'
    BY <1>1, <1>3, <1>5, <1>6, <1>7, <1>8 DEF IInv, TypeOK, CacheSound
<1>11. OnlyBatchHoldsBlocks'
    BY <1>3, <1>7 DEF IInv, OnlyBatchHoldsBlocks
<1>12. NoRequestLost'
    BY <1>2, <1>3, <1>4, <1>5, <1>6 DEF IInv, NoRequestLost, InQueue, InBatch
<1>13. CacheMatchesContext'
    <2>1. Range(running) \subseteq DOMAIN seqs
        BY SeqGrows DEF IInv, TypeOK
    <2> QED
        BY <1>3, <1>6, <1>7, <1>9, <2>1
           DEF IInv, CacheMatchesContext, OnlyBatchHoldsBlocks, SeqLen, Known
<1> QED
    BY <1>7, <1>9, <1>10, <1>11, <1>12, <1>13 DEF IInv

LEMMA CommitNextStep ==
    ASSUME IInv, CommitNext
    PROVE  IInv'
<1> DEFINE s == running[pos]
           b == plan.decode_batch
<1>1. /\ pc = "commit" /\ pos <= Len(running)
      /\ pos' = pos + 1
      /\ UNCHANGED <<seqs, waiting, running, pc>>
    BY DEF CommitNext
<1>2. pos \in DOMAIN running /\ pos \in Nat \ {0} /\ s \in Range(running)
    BY <1>1 DEF IInv, TypeOK, Range
<1>3. s \in DOMAIN seqs /\ s \in SeqIds
    BY <1>2, SeqGrows, SeqParts DEF IInv, TypeOK
<1>4. NoRequestLost'
    BY <1>1 DEF IInv, NoRequestLost, InQueue, InBatch
<1>5. CASE UNCHANGED <<cache, plan>>
    <2>1. TypeOK' /\ CacheSound(cache)' /\ OnlyBatchHoldsBlocks'
        BY <1>1, <1>2, <1>5 DEF IInv, TypeOK, OnlyBatchHoldsBlocks
    <2>2. Reserved' = Reserved
        BY <1>1, <1>5 DEF Reserved
    <2>3. CacheMatchesContext' /\ DecodeBatchIsRunning'
        BY <1>1, <1>5, <2>2 DEF IInv, CacheMatchesContext, DecodeBatchIsRunning,
                                TotalLen, IsComplete, OutputLen
    <2>4. PlanFollowsBatch'
        <3>1. \A i \in DOMAIN running : i < pos => i < pos + 1
            BY <1>2 DEF IInv, TypeOK
        <3> QED
            BY <1>1, <1>5, <3>1 DEF IInv, PlanFollowsBatch
    <2> QED
        BY <1>4, <2>1, <2>3, <2>4 DEF IInv
<1>6. CASE /\ WillDecode(s) /\ CanAppend(cache, s, 1)
           /\ cache' = AppendTokens(cache, s, 1)
           /\ plan' = [plan EXCEPT !.decode_batch = Append(@, s)]
    <2>1. /\ plan' \in StepPlan /\ plan'.decode_batch = Append(b, s)
          /\ b \in Seq(SeqIds)
        BY <1>3, <1>6, PlanGrows DEF IInv, TypeOK
    <2>2. s \notin Range(b)
        BY <1>1, <1>2 DEF IInv, PlanFollowsBatch, NoRequestLost, IsInjective
    <2> HIDE DEF s, b
    <2>3. /\ CacheSound(cache')
          /\ DOMAIN cache'.tables = DOMAIN cache.tables
          /\ \A t \in DOMAIN cache.tables : t /= s => cache'.tables[t] = cache.tables[t]
          /\ cache'.tables[s].num_tokens = cache.tables[s].num_tokens + 1
        BY <1>6, Appended DEF IInv
    <2>4. /\ Range(plan'.decode_batch) = Range(b) \cup {s}
          /\ IsInjective(plan'.decode_batch)
        BY <1>3, <2>1, <2>2, AppendFacts DEF IInv, DecodeBatchIsRunning, b
    <2>5. Reserved' = Range(b) \cup {s} /\ Reserved = Range(b)
        BY <1>1, <2>4 DEF Reserved, Range, b
    <2>6. TypeOK' /\ OnlyBatchHoldsBlocks'
        BY <1>1, <1>2, <2>1, <2>3 DEF IInv, TypeOK, CacheSound, OnlyBatchHoldsBlocks
    <2>7. CacheMatchesContext'
        <3>1. Range(running) \subseteq DOMAIN seqs /\ TotalLen(s) \in Nat
            BY <1>3, SeqGrows, SeqParts DEF IInv, TypeOK
        <3>2. \A t \in DOMAIN seqs : TotalLen(t)' = TotalLen(t)
            BY <1>1 DEF TotalLen
        <3>3. /\ SeqLen(cache', s) = SeqLen(cache, s) + 1
              /\ SeqLen(cache, s) = TotalLen(s)
            <4>1. s \in DOMAIN cache.tables /\ s \in DOMAIN cache'.tables
                BY <1>2, <2>3 DEF IInv, OnlyBatchHoldsBlocks
            <4>2. SeqLen(cache, s) = cache.tables[s].num_tokens
                BY <4>1 DEF SeqLen, Known
            <4>3. SeqLen(cache', s) = cache'.tables[s].num_tokens
                BY <4>1 DEF SeqLen, Known
            <4>4. s \notin Reserved
                BY <2>2, <2>5
            <4>5. SeqLen(cache, s) = TotalLen(s) + 0
                BY <1>2, <4>4 DEF IInv, CacheMatchesContext
            <4>6. SeqLen(cache, s) = TotalLen(s)
                BY <3>1, <4>5
            <4> QED
                BY <2>3, <4>2, <4>3, <4>6
        <3>4. \A t \in Range(running) : t /= s =>
                SeqLen(cache', t) = SeqLen(cache, t)
            BY <1>1, <2>3 DEF IInv, OnlyBatchHoldsBlocks, SeqLen, Known
        <3> SUFFICES ASSUME NEW t \in Range(running)
                     PROVE  SeqLen(cache', t)
                                = TotalLen(t) + (IF t \in Reserved' THEN 1 ELSE 0)
            BY <1>1, <3>1, <3>2 DEF CacheMatchesContext
        <3>5. CASE t = s
            BY <2>5, <3>3, <3>5
        <3>6. CASE t /= s
            <4>1. SeqLen(cache, t) = TotalLen(t) + (IF t \in Reserved THEN 1 ELSE 0)
                BY DEF IInv, CacheMatchesContext
            <4>2. t \in Reserved' <=> t \in Reserved
                BY <2>5, <3>6
            <4> QED
                BY <3>4, <3>6, <4>1, <4>2
        <3> QED
            BY <3>5, <3>6
    <2>8. DecodeBatchIsRunning'
        <3>1. \A t : IsComplete(t)' = IsComplete(t)
            BY <1>1 DEF IsComplete, OutputLen
        <3>2. ~IsComplete(s) /\ \A t \in Range(b) : ~IsComplete(t)
            BY <1>6, <2>5 DEF IInv, DecodeBatchIsRunning, WillDecode
        <3> QED
            BY <1>1, <1>2, <2>4, <2>5, <3>1, <3>2 DEF IInv, DecodeBatchIsRunning, b
    <2>9. PlanFollowsBatch'
        <3>1. \A i \in DOMAIN running : i < pos => i < pos + 1
            BY <1>2 DEF IInv, TypeOK
        <3>2. pos < pos + 1
            BY <1>2
        <3> QED
            BY <1>1, <1>2, <2>4, <3>1, <3>2 DEF IInv, PlanFollowsBatch, s, b
    <2> QED
        BY <1>4, <2>3, <2>6, <2>7, <2>8, <2>9 DEF IInv
<1> QED
    BY <1>5, <1>6 DEF CommitNext

LEMMA RetireNextStep ==
    ASSUME IInv, RetireNext
    PROVE  IInv'
<1> DEFINE s == running[pos]
<1>1. /\ pc = "retire" /\ pos <= Len(running)
      /\ IsComplete(s)
      /\ seqs' = [seqs EXCEPT ![s].state = "Finished"]
      /\ cache' = Free(cache, s)
      /\ plan' = [plan EXCEPT !.finished = Append(@, s)]
      /\ running' = RemoveAt(running, pos)
      /\ UNCHANGED <<waiting, pc, pos>>
    BY DEF RetireNext
<1>2. pos \in DOMAIN running /\ s \in Range(running)
    BY <1>1 DEF IInv, TypeOK, Range
<1>3. /\ running' \in Seq(DOMAIN seqs)
      /\ Range(running') = Range(running) \ {s}
      /\ IsInjective(running')
    BY <1>1, <1>2, RemoveFacts DEF IInv, TypeOK, NoRequestLost
<1> HIDE DEF s
<1>4. /\ s \in DOMAIN seqs /\ s \in SeqIds
      /\ s \notin Range(waiting)
    BY <1>2, SeqGrows, SeqParts DEF IInv, TypeOK, NoRequestLost, InQueue, InBatch
<1>5. /\ DOMAIN seqs' = DOMAIN seqs
      /\ seqs' \in [DOMAIN seqs' -> Sequence]
      /\ \A t \in DOMAIN seqs :
            /\ seqs'[t].state = IF t = s THEN "Finished" ELSE seqs[t].state
            /\ TotalLen(t)' = TotalLen(t)
            /\ IsComplete(t)' = IsComplete(t)
    BY <1>1, <1>4, NewState DEF IInv, SeqState
<1>6. /\ CacheSound(cache')
      /\ DOMAIN cache'.tables = DOMAIN cache.tables \ {s}
      /\ \A t \in DOMAIN cache.tables \ {s} : cache'.tables[t] = cache.tables[t]
    BY <1>1, FreeSound DEF IInv
<1>7. plan' \in StepPlan /\ plan'.decode_batch = plan.decode_batch
    BY <1>1, <1>4, PlanGrows DEF IInv, TypeOK
<1>8. /\ Reserved' = Reserved /\ Reserved = Range(plan.decode_batch)
      /\ s \notin Reserved
    BY <1>1, <1>7 DEF IInv, DecodeBatchIsRunning, Reserved, Range
<1>9. Range(running) \subseteq DOMAIN seqs
    BY SeqGrows DEF IInv, TypeOK
<1>10. TypeOK' /\ PlanFollowsBatch'
    BY <1>1, <1>3, <1>5, <1>6, <1>7, SeqGrows
       DEF IInv, TypeOK, CacheSound, PlanFollowsBatch
<1>11. OnlyBatchHoldsBlocks'
    BY <1>3, <1>6 DEF IInv, OnlyBatchHoldsBlocks
<1>12. NoRequestLost'
    BY <1>1, <1>2, <1>3, <1>4, <1>5 DEF IInv, NoRequestLost, InQueue, InBatch
<1>13. CacheMatchesContext'
    BY <1>3, <1>5, <1>6, <1>8, <1>9
       DEF IInv, CacheMatchesContext, OnlyBatchHoldsBlocks, SeqLen, Known
<1>14. DecodeBatchIsRunning'
    BY <1>3, <1>5, <1>7, <1>8, <1>9 DEF IInv, DecodeBatchIsRunning
<1> QED
    BY <1>6, <1>10, <1>11, <1>12, <1>13, <1>14 DEF IInv

LEMMA PushTokenStep ==
    ASSUME IInv, NEW token \in Token, NEW is_eos \in BOOLEAN,
           PushToken(token, is_eos)
    PROVE  IInv'
<1> DEFINE b == plan.decode_batch
           s == b[pos]
<1>1. /\ pc = "forward" /\ pos <= Len(b)
      /\ s \in Range(running) =>
            seqs' = [seqs EXCEPT ![s] = Pushed(@, token, is_eos)]
      /\ pos' = pos + 1
      /\ UNCHANGED <<cache, waiting, running, plan, pc>>
    BY DEF PushToken
<1>2. /\ b \in Seq(SeqIds) /\ DOMAIN b = 1 .. Len(b) /\ Len(b) \in Nat
      /\ pos \in DOMAIN b /\ pos \in Nat \ {0}
    BY <1>1 DEF IInv, TypeOK, StepPlan
<1>3. /\ s \in Range(b) /\ s \in Range(running)
      /\ s \in Reserved /\ Reserved' = Reserved \ {s}
    <2>1. s \in Range(b) /\ s \in Range(running)
        BY <1>2 DEF IInv, DecodeBatchIsRunning, Range
    <2>2. Reserved = {b[i] : i \in {j \in DOMAIN b : j >= pos}}
        BY <1>1 DEF Reserved
    <2>3. Reserved' = {b[i] : i \in {j \in DOMAIN b : j >= pos + 1}}
        BY <1>1 DEF Reserved
    <2>4. \A j \in DOMAIN b : (j >= pos + 1) <=> (j >= pos /\ j /= pos)
        BY <1>2
    <2>5. \A j \in DOMAIN b : b[j] = s <=> j = pos
        BY <1>2 DEF IInv, DecodeBatchIsRunning, IsInjective
    <2>6. pos >= pos
        BY <1>2
    <2> QED
        BY <1>2, <2>1, <2>2, <2>3, <2>4, <2>5, <2>6
<1>4. s \in DOMAIN seqs /\ s \in SeqIds /\ Range(running) \subseteq DOMAIN seqs
    BY <1>3, SeqGrows, SeqParts DEF IInv, TypeOK
<1> HIDE DEF s
<1>5. /\ DOMAIN seqs' = DOMAIN seqs
      /\ seqs' \in [DOMAIN seqs' -> Sequence]
      /\ \A t \in DOMAIN seqs :
            /\ seqs'[t].state = seqs[t].state
            /\ TotalLen(t)' = TotalLen(t) + (IF t = s THEN 1 ELSE 0)
            /\ t /= s => IsComplete(t)' = IsComplete(t)
    BY <1>1, <1>3, <1>4, PushedState DEF IInv
<1>6. TypeOK' /\ CacheSound(cache)' /\ OnlyBatchHoldsBlocks' /\ PlanFollowsBatch'
    <2>1. pos' \in Nat \ {0}
        BY <1>1, <1>2
    <2> QED
        BY <1>1, <1>5, <2>1 DEF IInv, TypeOK, OnlyBatchHoldsBlocks, PlanFollowsBatch
<1>7. NoRequestLost'
    BY <1>1, <1>5 DEF IInv, NoRequestLost, InQueue, InBatch
<1>8. CacheMatchesContext'
    <2> SUFFICES ASSUME NEW t \in Range(running)
                 PROVE  SeqLen(cache, t)
                            = TotalLen(t)' + (IF t \in Reserved' THEN 1 ELSE 0)
        BY <1>1 DEF CacheMatchesContext
    <2>1. /\ SeqLen(cache, t) = TotalLen(t) + (IF t \in Reserved THEN 1 ELSE 0)
          /\ t \in DOMAIN seqs /\ TotalLen(t) \in Nat
        BY <1>4, SeqParts DEF IInv, CacheMatchesContext
    <2>2. TotalLen(t)' = TotalLen(t) + (IF t = s THEN 1 ELSE 0)
        BY <1>5, <2>1
    <2>3. CASE t = s
        BY <1>3, <2>1, <2>2, <2>3
    <2>4. CASE t /= s
        <3>1. t \in Reserved' <=> t \in Reserved
            BY <1>3, <2>4
        <3> QED
            BY <2>1, <2>2, <2>4, <3>1
    <2> QED
        BY <2>3, <2>4
<1>9. DecodeBatchIsRunning'
    <2>1. \A t \in Reserved : t \in DOMAIN seqs
        BY <1>4 DEF IInv, DecodeBatchIsRunning, Reserved, Range
    <2>2. \A t \in Reserved' : t \in Reserved /\ t /= s
        BY <1>3
    <2>3. \A t \in Reserved' : ~IsComplete(t)'
        BY <1>5, <2>1, <2>2 DEF IInv, DecodeBatchIsRunning
    <2> QED
        BY <1>1, <2>3 DEF IInv, DecodeBatchIsRunning
<1> QED
    BY <1>6, <1>7, <1>8, <1>9 DEF IInv

-----------------------------------------------------------------------------
(* The theorems *)

LEMMA InitEstablishes == Init => IInv
<1> SUFFICES ASSUME Init
             PROVE  IInv
    OBVIOUS
<1>1. /\ cache = NewCache /\ seqs = <<>> /\ waiting = <<>> /\ running = <<>>
      /\ plan = EmptyPlan /\ pc = "idle" /\ pos = 1
    BY DEF Init
<1>2. CacheSound(cache) /\ DOMAIN cache.tables = {}
    BY <1>1, NewCacheSound DEF NewCache, CacheSound
<1>3. DOMAIN seqs = {} /\ Range(running) = {} /\ Range(waiting) = {}
    BY <1>1 DEF Range
<1>4. EmptyPlan \in StepPlan /\ plan.decode_batch = <<>> /\ Range(plan.decode_batch) = {}
    BY <1>1 DEF EmptyPlan, StepPlan, Range
<1>5. TypeOK
    <2>1. seqs \in [DOMAIN seqs -> Sequence]
        BY <1>1
    <2> QED
        BY <1>1, <1>2, <1>3, <1>4, <2>1 DEF TypeOK, CacheSound
<1>6. NoRequestLost /\ OnlyBatchHoldsBlocks /\ CacheMatchesContext
    BY <1>1, <1>2, <1>3
       DEF NoRequestLost, IsInjective, OnlyBatchHoldsBlocks, CacheMatchesContext
<1>7. DecodeBatchIsRunning /\ PlanFollowsBatch
    BY <1>1, <1>4 DEF PlanFollowsBatch, DecodeBatchIsRunning, Reserved,
                      IsInjective, EmptyPlan
<1> QED
    BY <1>2, <1>5, <1>6, <1>7 DEF IInv

LEMMA NextPreserves == IInv /\ [Next]_vars => IInv'
<1> SUFFICES ASSUME IInv, [Next]_vars
             PROVE  IInv'
    OBVIOUS
<1>1. CASE SubmitAny
    BY <1>1, SubmitStep DEF SubmitAny
<1>2. CASE Schedule
    BY <1>2, LoopSteps, AdmitFrontStep, AdmitFailsStep, PreemptVictimStep,
       CommitNextStep, RetireNextStep DEF Schedule
<1>3. CASE Forward
    BY <1>3, LoopSteps, PushTokenStep DEF Forward
<1>4. CASE UNCHANGED vars
    BY <1>4, LoopSteps
<1> QED
    BY <1>1, <1>2, <1>3, <1>4 DEF Next

\* The inductive invariant holds in every reachable state of the scheduler.
THEOREM SchedulerInvariant == Spec => []IInv
    BY InitEstablishes, NextPreserves, PTL DEF Spec

\* Every reachable state is well typed.
THEOREM SchedulerTypeCorrect == Spec => []TypeOK
<1>1. IInv => TypeOK
    BY DEF IInv
<1> QED
    BY <1>1, SchedulerInvariant, PTL

\* No request is lost or duplicated, however many there are and whatever
\* the batch and the cache can hold.
THEOREM RequestsNeverLost == Spec => []NoRequestLost
<1>1. IInv => NoRequestLost
    BY DEF IInv
<1> QED
    BY <1>1, SchedulerInvariant, PTL

\* Exactly the running sequences hold blocks.
THEOREM BlocksBelongToBatch == Spec => []OnlyBatchHoldsBlocks
<1>1. IInv => OnlyBatchHoldsBlocks
    BY DEF IInv
<1> QED
    BY <1>1, SchedulerInvariant, PTL

\* The cache stores for each running sequence exactly its context and the
\* slot of the token to come.
THEOREM CacheTracksContext == Spec => []CacheMatchesContext
<1>1. IInv => CacheMatchesContext
    BY DEF IInv
<1> QED
    BY <1>1, SchedulerInvariant, PTL

\* Whatever the caller is told to decode is running, once, and not complete.
THEOREM DecodeBatchRuns == Spec => []DecodeBatchIsRunning
<1>1. IInv => DecodeBatchIsRunning
    BY DEF IInv
<1> QED
    BY <1>1, SchedulerInvariant, PTL
-----------------------------------------------------------------------------
(* Least progressed last: the order of the batch and the queue *)

\* ProgressOrder by its two conjuncts, the first one over members.
BatchAhead ==
    \A s \in Range(running), t \in Range(waiting) : OutputLen(s) >= OutputLen(t)

QueueFalls ==
    \A i, j \in DOMAIN waiting :
        i < j => OutputLen(waiting[i]) >= OutputLen(waiting[j])

LEMMA OrderParts == ProgressOrder <=> BatchAhead /\ QueueFalls
    BY DEF ProgressOrder, BatchAhead, QueueFalls, Range

\* A step that moves nobody and generates nothing.
LEMMA OrderStays ==
    ASSUME IInv, BatchAhead, QueueFalls,
           UNCHANGED waiting, Range(running') \subseteq Range(running),
           \A t \in DOMAIN seqs : OutputLen(t)' = OutputLen(t)
    PROVE  BatchAhead' /\ QueueFalls'
<1>1. /\ Range(waiting) \subseteq DOMAIN seqs /\ Range(running) \subseteq DOMAIN seqs
      /\ \A i \in DOMAIN waiting : waiting[i] \in Range(waiting)
    BY SeqGrows DEF IInv, TypeOK, Range
<1>2. BatchAhead'
    BY <1>1 DEF BatchAhead
<1>3. QueueFalls'
    BY <1>1 DEF QueueFalls
<1> QED
    BY <1>2, <1>3

LEMMA SubmitOrder ==
    ASSUME IInv, BatchAhead, QueueFalls,
           NEW s \in SeqIds, NEW prompt \in Prompts, NEW max \in MaxNews,
           Submit(s, prompt, max)
    PROVE  BatchAhead' /\ QueueFalls'
<1>1. /\ s \notin DOMAIN seqs
      /\ \A t \in DOMAIN seqs : seqs'[t] = seqs[t]
      /\ seqs'[s] = NewSequence(prompt, max)
      /\ waiting' = Append(waiting, s)
      /\ running' = running
      /\ s \in DOMAIN seqs'
    BY DEF Submit
<1>2. /\ waiting \in Seq(DOMAIN seqs') /\ Len(waiting) \in Nat
      /\ DOMAIN waiting = 1 .. Len(waiting)
      /\ Range(waiting) \subseteq DOMAIN seqs /\ Range(running) \subseteq DOMAIN seqs
      /\ \A i \in DOMAIN waiting : waiting[i] \in DOMAIN seqs
    BY <1>1, SeqGrows DEF IInv, TypeOK, Submit
<1>3. /\ DOMAIN waiting' = 1 .. Len(waiting) + 1
      /\ \A i \in DOMAIN waiting : waiting'[i] = waiting[i]
      /\ waiting'[Len(waiting) + 1] = s
      /\ Range(waiting') = Range(waiting) \cup {s}
    BY <1>1, <1>2, AppendFacts
<1>4. /\ \A t \in DOMAIN seqs : OutputLen(t)' = OutputLen(t) /\ OutputLen(t) >= 0
      /\ OutputLen(s)' = 0
    <2>1. \A t \in DOMAIN seqs : OutputLen(t) \in Nat
        BY SeqParts DEF IInv
    <2>2. NewSequence(prompt, max).output = <<>>
        BY DEF NewSequence
    <2> QED
        BY <1>1, <2>1, <2>2 DEF OutputLen
<1>5. BatchAhead'
    BY <1>1, <1>2, <1>3, <1>4 DEF BatchAhead
<1>6. QueueFalls'
    <2> SUFFICES ASSUME NEW i \in DOMAIN waiting', NEW j \in DOMAIN waiting', i < j
                 PROVE  OutputLen(waiting[i])' >= OutputLen(waiting[j])'
        BY DEF QueueFalls
    <2>1. i \in DOMAIN waiting /\ (j \in DOMAIN waiting \/ j = Len(waiting) + 1)
        BY <1>2, <1>3
    <2>2. CASE j \in DOMAIN waiting
        BY <1>2, <1>3, <1>4, <2>1, <2>2 DEF QueueFalls
    <2>3. CASE j = Len(waiting) + 1
        BY <1>2, <1>3, <1>4, <2>1, <2>3
    <2> QED
        BY <2>1, <2>2, <2>3
<1> QED
    BY <1>5, <1>6

LEMMA AdmitFrontOrder ==
    ASSUME IInv, BatchAhead, QueueFalls, AdmitFront
    PROVE  BatchAhead' /\ QueueFalls'
<1> DEFINE s == Head(waiting)
<1>1. /\ waiting /= <<>>
      /\ waiting' = Tail(waiting)
      /\ running' = Append(running, s)
      /\ seqs' = [seqs EXCEPT ![s].state = "Running"]
    BY DEF AdmitFront, CanTryFront
<1>2. /\ waiting \in Seq(DOMAIN seqs) /\ Len(waiting) \in Nat \ {0}
      /\ DOMAIN waiting = 1 .. Len(waiting) /\ s = waiting[1]
      /\ DOMAIN waiting' = 1 .. Len(waiting) - 1
      /\ \A i \in DOMAIN waiting' : waiting'[i] = waiting[i + 1]
      /\ \A i \in DOMAIN waiting : waiting[i] \in DOMAIN seqs
    BY <1>1 DEF IInv, TypeOK
<1>3. Range(waiting') = Range(waiting) \ {s} /\ s \in Range(waiting)
    BY <1>1, TailFacts DEF IInv, TypeOK, NoRequestLost
<1> HIDE DEF s
<1>4. s \in DOMAIN seqs
    BY <1>2
<1>5. Range(running') = Range(running) \cup {s}
    BY <1>1, <1>4, AppendFacts DEF IInv, TypeOK
<1>6. \A t \in DOMAIN seqs : OutputLen(t)' = OutputLen(t)
    BY <1>1, <1>4, NewState DEF IInv, SeqState
<1>7. Range(waiting) \subseteq DOMAIN seqs /\ Range(running) \subseteq DOMAIN seqs
    BY SeqGrows DEF IInv, TypeOK
<1>8. \A i \in DOMAIN waiting' : i + 1 \in DOMAIN waiting /\ 1 < i + 1
    BY <1>2
<1>9. \A t \in Range(waiting') : OutputLen(s) >= OutputLen(t)
    <2>1. 1 \in DOMAIN waiting
        BY <1>2
    <2> QED
        BY <1>2, <1>8, <2>1 DEF QueueFalls, Range
<1>10. BatchAhead'
    BY <1>3, <1>5, <1>6, <1>7, <1>9 DEF BatchAhead
<1>11. QueueFalls'
    <2>1. \A i, j \in DOMAIN waiting' : i < j => i + 1 < j + 1
        BY <1>2
    <2> QED
        BY <1>2, <1>6, <1>8, <2>1 DEF QueueFalls
<1> QED
    BY <1>10, <1>11

LEMMA PreemptVictimOrder ==
    ASSUME IInv, BatchAhead, QueueFalls,
           NEW v \in DOMAIN running, PreemptVictim(v)
    PROVE  BatchAhead' /\ QueueFalls'
<1> DEFINE s == running[v]
<1>1. /\ running' = RemoveAt(running, v)
      /\ seqs' = [seqs EXCEPT ![s].state = "Preempted"]
      /\ waiting' = <<s>> \o waiting
      /\ IsVictim(v)
    BY DEF PreemptVictim, Preempted, Requeued
<1>2. s \in Range(running)
    BY DEF Range
<1>3. Range(running') = Range(running) \ {s}
    BY <1>1, RemoveFacts DEF IInv, TypeOK, NoRequestLost
<1>4. Range(waiting) \subseteq DOMAIN seqs /\ Range(running) \subseteq DOMAIN seqs
    BY SeqGrows DEF IInv, TypeOK
<1>5. \A t \in Range(running) : OutputLen(t) >= OutputLen(s)
    <2>1. \A t \in Range(running) : seqs[t].state = "Running"
        BY <1>4 DEF IInv, NoRequestLost, InBatch
    <2>2. \A t \in Range(running) : LessProgressed(s, t)
        BY <1>1, <2>1 DEF IsVictim, IsRunning, Range
    <2>3. \A t \in DOMAIN seqs : OutputLen(t) \in Nat
        BY SeqParts DEF IInv
    <2> QED
        BY <1>2, <1>4, <2>2, <2>3 DEF LessProgressed
<1> HIDE DEF s
<1>6. s \in DOMAIN seqs
    BY <1>2, <1>4
<1>7. /\ waiting \in Seq(DOMAIN seqs) /\ <<s>> \in Seq(DOMAIN seqs)
      /\ Len(waiting) \in Nat /\ DOMAIN waiting = 1 .. Len(waiting)
      /\ \A i \in DOMAIN waiting : waiting[i] \in Range(waiting)
    BY <1>6 DEF IInv, TypeOK, Range
<1>8. Range(waiting') = {s} \cup Range(waiting)
    BY <1>1, <1>6, ConsFacts DEF IInv, TypeOK
<1>9. /\ DOMAIN waiting' = 1 .. Len(waiting) + 1
      /\ waiting'[1] = s
      /\ \A i \in DOMAIN waiting : waiting'[1 + i] = waiting[i]
    BY <1>1, <1>7
<1>10. \A t \in DOMAIN seqs : OutputLen(t)' = OutputLen(t)
    BY <1>1, <1>6, NewState DEF IInv, SeqState
<1>11. BatchAhead'
    BY <1>3, <1>4, <1>5, <1>6, <1>8, <1>10 DEF BatchAhead
<1>12. QueueFalls'
    <2> SUFFICES ASSUME NEW i \in DOMAIN waiting', NEW j \in DOMAIN waiting', i < j
                 PROVE  OutputLen(waiting[i])' >= OutputLen(waiting[j])'
        BY DEF QueueFalls
    <2>1. /\ j - 1 \in DOMAIN waiting /\ 1 + (j - 1) = j
          /\ i = 1 \/ (i - 1 \in DOMAIN waiting /\ 1 + (i - 1) = i)
          /\ i - 1 < j - 1
        BY <1>7, <1>9
    <2>2. waiting'[j] = waiting[j - 1]
        BY <1>9, <2>1
    <2>3. CASE i = 1
        BY <1>2, <1>4, <1>6, <1>7, <1>9, <1>10, <2>1, <2>2, <2>3 DEF BatchAhead
    <2>4. CASE i - 1 \in DOMAIN waiting /\ 1 + (i - 1) = i
        <3>1. waiting'[i] = waiting[i - 1]
            BY <1>9, <2>4
        <3> QED
            BY <1>4, <1>7, <1>10, <2>1, <2>2, <2>4, <3>1 DEF QueueFalls
    <2> QED
        BY <2>1, <2>3, <2>4
<1> QED
    BY <1>11, <1>12

LEMMA RetireNextOrder ==
    ASSUME IInv, BatchAhead, QueueFalls, RetireNext
    PROVE  BatchAhead' /\ QueueFalls'
<1> DEFINE s == running[pos]
<1>1. /\ pos <= Len(running)
      /\ seqs' = [seqs EXCEPT ![s].state = "Finished"]
      /\ running' = RemoveAt(running, pos)
      /\ UNCHANGED waiting
    BY DEF RetireNext
<1>2. pos \in DOMAIN running /\ s \in DOMAIN seqs
    BY <1>1 DEF IInv, TypeOK
<1>3. Range(running') \subseteq Range(running)
    BY <1>1, <1>2, RemoveFacts DEF IInv, TypeOK, NoRequestLost
<1> HIDE DEF s
<1>4. \A t \in DOMAIN seqs : OutputLen(t)' = OutputLen(t)
    BY <1>1, <1>2, NewState DEF IInv, SeqState
<1> QED
    BY <1>1, <1>3, <1>4, OrderStays

\* Only a member of the batch gets a token, and nobody in it is in the queue.
LEMMA PushTokenOrder ==
    ASSUME IInv, BatchAhead, QueueFalls,
           NEW token \in Token, NEW is_eos \in BOOLEAN, PushToken(token, is_eos)
    PROVE  BatchAhead' /\ QueueFalls'
<1> DEFINE s == plan.decode_batch[pos]
<1>1. /\ s \in Range(running) =>
            seqs' = [seqs EXCEPT ![s] = Pushed(@, token, is_eos)]
      /\ s \notin Range(running) => UNCHANGED seqs
      /\ UNCHANGED <<waiting, running>>
    BY DEF PushToken
<1>2. Range(waiting) \subseteq DOMAIN seqs /\ Range(running) \subseteq DOMAIN seqs
    BY SeqGrows DEF IInv, TypeOK
<1> HIDE DEF s
<1>3. CASE s \in Range(running)
    <2>1. /\ s \in DOMAIN seqs /\ s \notin Range(waiting)
          /\ seqs' = [seqs EXCEPT ![s] = Pushed(@, token, is_eos)]
        BY <1>1, <1>2, <1>3 DEF IInv, NoRequestLost, InBatch, InQueue
    <2>2. \A t \in DOMAIN seqs :
            OutputLen(t) \in Nat
            /\ OutputLen(t)' = OutputLen(t) + (IF t = s THEN 1 ELSE 0)
        BY <2>1, PushedState, SeqParts DEF IInv
    <2>3. BatchAhead'
        <3> SUFFICES ASSUME NEW u \in Range(running), NEW t \in Range(waiting)
                     PROVE  OutputLen(u)' >= OutputLen(t)'
            BY <1>1 DEF BatchAhead
        <3>1. OutputLen(t)' = OutputLen(t) /\ OutputLen(t) \in Nat
            BY <1>2, <2>1, <2>2
        <3>2. OutputLen(u)' >= OutputLen(u) /\ OutputLen(u) \in Nat
              /\ OutputLen(u)' \in Nat
            BY <1>2, <2>2
        <3> QED
            BY <3>1, <3>2 DEF BatchAhead
    <2>4. QueueFalls'
        <3>1. \A i \in DOMAIN waiting : OutputLen(waiting[i])' = OutputLen(waiting[i])
            <4>1. \A t \in Range(waiting) : OutputLen(t)' = OutputLen(t)
                BY <1>2, <2>1, <2>2
            <4> QED
                BY <1>1, <4>1 DEF Range
        <3> QED
            BY <1>1, <3>1 DEF QueueFalls
    <2> QED
        BY <2>3, <2>4
<1>4. CASE s \notin Range(running)
    BY <1>1, <1>4, OrderStays DEF OutputLen
<1> QED
    BY <1>3, <1>4

LEMMA ProgressOrderStep ==
    ASSUME IInv, BatchAhead, QueueFalls, [Next]_vars
    PROVE  BatchAhead' /\ QueueFalls'
<1>1. CASE SubmitAny
    BY <1>1, SubmitOrder DEF SubmitAny
<1>2. CASE \/ StartSchedule \/ AdmitFails \/ AdmitStops \/ PreemptStops
           \/ CommitNext \/ CommitStops \/ KeepNext \/ RetireStops \/ EndStep
           \/ UNCHANGED vars
    <2>1. UNCHANGED <<seqs, waiting, running>>
        BY <1>2 DEF StartSchedule, AdmitFails, AdmitStops, PreemptStops,
               CommitNext, CommitStops, KeepNext, RetireStops, EndStep, vars
    <2>2. \A t \in DOMAIN seqs : OutputLen(t)' = OutputLen(t)
        BY <2>1 DEF OutputLen
    <2> QED
        BY <2>1, <2>2, OrderStays
<1>3. CASE Schedule
    BY <1>2, <1>3, AdmitFrontOrder, PreemptVictimOrder, RetireNextOrder DEF Schedule
<1>4. CASE Forward
    BY <1>2, <1>4, PushTokenOrder DEF Forward
<1> QED
    BY <1>1, <1>2, <1>3, <1>4 DEF Next

\* Work with output always resumes before work that has less: nobody in the
\* queue has more output than anybody in the batch, and the queue never rises.
THEOREM LeastProgressedWaits == Spec => []ProgressOrder
<1>1. Init => BatchAhead /\ QueueFalls
    BY DEF Init, BatchAhead, QueueFalls, Range
<1>2. IInv /\ BatchAhead /\ QueueFalls /\ [Next]_vars => (BatchAhead /\ QueueFalls)'
    BY ProgressOrderStep
<1>3. BatchAhead /\ QueueFalls => ProgressOrder
    BY OrderParts
<1> QED
    BY <1>1, <1>2, <1>3, SchedulerInvariant, PTL DEF Spec

-----------------------------------------------------------------------------
(* Ties: when ids grow in submission order *)

\* NoOvertaking by its two conjuncts, the first one over members.
TiesAhead ==
    \A s \in Range(running), t \in Range(waiting) :
        OutputLen(s) = OutputLen(t) => s < t

TiesRise ==
    \A i, j \in DOMAIN waiting :
        i < j /\ OutputLen(waiting[i]) = OutputLen(waiting[j])
            => waiting[i] < waiting[j]

\* What the order is proved with: ProgressOrder rules out that a pushed token
\* makes a tie with somebody in the queue.
OrderInv == IInv /\ BatchAhead /\ QueueFalls /\ TiesAhead /\ TiesRise

\* The two forms say the same.
LEMMA TieParts == NoOvertaking <=> TiesAhead /\ TiesRise
    BY DEF NoOvertaking, TiesAhead, TiesRise, Range

\* Ids and counts are numbers.
LEMMA OrderTypes ==
    ASSUME IInv
    PROVE  /\ \A t \in DOMAIN seqs : t \in Nat /\ OutputLen(t) \in Nat
           /\ Range(waiting) \subseteq DOMAIN seqs
           /\ Range(running) \subseteq DOMAIN seqs
           /\ Len(waiting) \in Nat /\ DOMAIN waiting = 1 .. Len(waiting)
           /\ \A i \in DOMAIN waiting : waiting[i] \in Range(waiting)
           /\ \A i \in DOMAIN running : running[i] \in Range(running)
BY SeqGrows, SeqParts, SchedulerAssumption DEF IInv, TypeOK, Range

\* A step that moves nobody and generates nothing.
LEMMA TiesStay ==
    ASSUME OrderInv,
           UNCHANGED waiting, Range(running') \subseteq Range(running),
           \A t \in DOMAIN seqs : OutputLen(t)' = OutputLen(t)
    PROVE  TiesAhead' /\ TiesRise'
BY OrderTypes DEF OrderInv, TiesAhead, TiesRise

\* A new request is the last one of its length.
LEMMA SubmitTies ==
    ASSUME OrderInv, AscendingIds,
           NEW s \in SeqIds, NEW prompt \in Prompts, NEW max \in MaxNews,
           Submit(s, prompt, max)
    PROVE  TiesAhead' /\ TiesRise'
<1>1. /\ s \notin DOMAIN seqs
      /\ DOMAIN seqs' = DOMAIN seqs \cup {s}
      /\ \A t \in DOMAIN seqs : seqs'[t] = seqs[t]
      /\ waiting' = Append(waiting, s)
      /\ running' = running
    BY DEF Submit
<1>2. \A t \in DOMAIN seqs : t < s /\ OutputLen(t)' = OutputLen(t)
    BY <1>1 DEF AscendingIds, OutputLen
<1>3. waiting \in Seq(DOMAIN seqs')
    BY <1>1, SeqGrows DEF OrderInv, IInv, TypeOK
<1>4. /\ DOMAIN waiting' = 1 .. Len(waiting) + 1
      /\ \A i \in DOMAIN waiting : waiting'[i] = waiting[i]
      /\ waiting'[Len(waiting) + 1] = s
      /\ Range(waiting') = Range(waiting) \cup {s}
    BY <1>1, <1>3, AppendFacts
<1>5. TiesAhead'
    BY <1>1, <1>2, <1>4, OrderTypes DEF OrderInv, TiesAhead
<1>6. TiesRise'
    <2> SUFFICES ASSUME NEW i \in DOMAIN waiting', NEW j \in DOMAIN waiting', i < j,
                        OutputLen(waiting[i])' = OutputLen(waiting[j])'
                 PROVE  waiting'[i] < waiting'[j]
        BY DEF TiesRise
    <2>1. i \in DOMAIN waiting /\ (j \in DOMAIN waiting \/ j = Len(waiting) + 1)
        BY <1>4, OrderTypes DEF OrderInv
    <2>2. waiting'[i] = waiting[i] /\ waiting[i] \in DOMAIN seqs
        BY <1>4, <2>1, OrderTypes DEF OrderInv
    <2>3. CASE j \in DOMAIN waiting
        <3>1. waiting'[j] = waiting[j] /\ waiting[j] \in DOMAIN seqs
            BY <1>4, <2>3, OrderTypes DEF OrderInv
        <3> QED
            BY <1>2, <2>1, <2>2, <2>3, <3>1 DEF OrderInv, TiesRise
    <2>4. CASE j = Len(waiting) + 1
        BY <1>2, <1>4, <2>2, <2>4
    <2> QED
        BY <2>1, <2>3, <2>4
<1> QED
    BY <1>5, <1>6

\* Whoever leaves the queue was its first.
LEMMA AdmitFrontTies ==
    ASSUME OrderInv, AdmitFront
    PROVE  TiesAhead' /\ TiesRise'
<1> DEFINE s == Head(waiting)
<1>1. /\ waiting /= <<>>
      /\ waiting' = Tail(waiting)
      /\ running' = Append(running, s)
      /\ seqs' = [seqs EXCEPT ![s].state = "Running"]
    BY DEF AdmitFront, CanTryFront
<1>2. /\ Len(waiting) \in Nat \ {0}
      /\ DOMAIN waiting = 1 .. Len(waiting) /\ s = waiting[1]
      /\ DOMAIN waiting' = 1 .. Len(waiting) - 1
      /\ \A i \in DOMAIN waiting' : waiting'[i] = waiting[i + 1]
    BY <1>1 DEF OrderInv, IInv, TypeOK
<1>3. Range(waiting') = Range(waiting) \ {s} /\ s \in Range(waiting)
    BY <1>1, TailFacts DEF OrderInv, IInv, TypeOK, NoRequestLost
<1> HIDE DEF s
<1>4. s \in DOMAIN seqs
    BY <1>3, OrderTypes DEF OrderInv
<1>5. Range(running') = Range(running) \cup {s}
    BY <1>1, <1>4, AppendFacts DEF OrderInv, IInv, TypeOK
<1>6. \A t \in DOMAIN seqs : OutputLen(t)' = OutputLen(t)
    BY <1>1, <1>4, NewState DEF OrderInv, IInv, SeqState
<1>7. /\ 1 \in DOMAIN waiting
      /\ \A i \in DOMAIN waiting' : i + 1 \in DOMAIN waiting /\ 1 < i + 1
      /\ \A i, j \in DOMAIN waiting' : i < j => i + 1 < j + 1
    BY <1>2
<1>8. \A t \in Range(waiting') : OutputLen(s) = OutputLen(t) => s < t
    BY <1>2, <1>7 DEF OrderInv, TiesRise, Range
<1>9. TiesAhead'
    BY <1>3, <1>5, <1>6, <1>8, OrderTypes DEF OrderInv, TiesAhead
<1>10. TiesRise'
    <2> SUFFICES ASSUME NEW i \in DOMAIN waiting', NEW j \in DOMAIN waiting', i < j,
                        OutputLen(waiting[i])' = OutputLen(waiting[j])'
                 PROVE  waiting'[i] < waiting'[j]
        BY DEF TiesRise
    <2>1. /\ i + 1 \in DOMAIN waiting /\ j + 1 \in DOMAIN waiting /\ i + 1 < j + 1
          /\ waiting'[i] = waiting[i + 1] /\ waiting'[j] = waiting[j + 1]
        BY <1>2, <1>7
    <2>2. waiting[i + 1] \in DOMAIN seqs /\ waiting[j + 1] \in DOMAIN seqs
        BY <2>1, OrderTypes DEF OrderInv
    <2> QED
        BY <1>6, <2>1, <2>2 DEF OrderInv, TiesRise
<1> QED
    BY <1>9, <1>10

\* The victim is the newest of the least progressed.
LEMMA PreemptVictimTies ==
    ASSUME OrderInv, NEW v \in DOMAIN running, PreemptVictim(v)
    PROVE  TiesAhead' /\ TiesRise'
<1> DEFINE s == running[v]
<1>1. /\ running' = RemoveAt(running, v)
      /\ seqs' = [seqs EXCEPT ![s].state = "Preempted"]
      /\ waiting' = <<s>> \o waiting
      /\ IsVictim(v)
    BY DEF PreemptVictim, Preempted, Requeued
<1>2. s \in Range(running) /\ s \in DOMAIN seqs
    BY OrderTypes DEF OrderInv, Range
<1>3. Range(running') = Range(running) \ {s}
    BY <1>1, RemoveFacts DEF OrderInv, IInv, TypeOK, NoRequestLost
<1>4. \A t \in Range(running) \ {s} : OutputLen(t) = OutputLen(s) => t < s
    <2>1. \A t \in Range(running) : seqs[t].state = "Running"
        BY OrderTypes DEF OrderInv, IInv, NoRequestLost, InBatch
    <2>2. \A t \in Range(running) : LessProgressed(s, t)
        BY <1>1, <2>1 DEF IsVictim, IsRunning, Range
    <2>3. \A t \in Range(running) : t \in Nat /\ OutputLen(t) \in Nat
        BY OrderTypes DEF OrderInv
    <2> HIDE DEF s
    <2> QED
        BY <1>2, <2>2, <2>3 DEF LessProgressed
<1> HIDE DEF s
<1>5. /\ waiting \in Seq(DOMAIN seqs) /\ <<s>> \in Seq(DOMAIN seqs)
      /\ Len(waiting) \in Nat /\ DOMAIN waiting = 1 .. Len(waiting)
    BY <1>2 DEF OrderInv, IInv, TypeOK
<1>6. Range(waiting') = {s} \cup Range(waiting)
    BY <1>1, <1>2, ConsFacts DEF OrderInv, IInv, TypeOK
<1>7. /\ DOMAIN waiting' = 1 .. Len(waiting) + 1
      /\ waiting'[1] = s
      /\ \A i \in DOMAIN waiting : waiting'[1 + i] = waiting[i]
    BY <1>1, <1>5
<1>8. \A t \in DOMAIN seqs : OutputLen(t)' = OutputLen(t)
    BY <1>1, <1>2, NewState DEF OrderInv, IInv, SeqState
<1>9. TiesAhead'
    BY <1>2, <1>3, <1>4, <1>6, <1>8, OrderTypes DEF OrderInv, TiesAhead
<1>10. TiesRise'
    <2> SUFFICES ASSUME NEW i \in DOMAIN waiting', NEW j \in DOMAIN waiting', i < j,
                        OutputLen(waiting[i])' = OutputLen(waiting[j])'
                 PROVE  waiting'[i] < waiting'[j]
        BY DEF TiesRise
    <2>1. /\ j - 1 \in DOMAIN waiting /\ 1 + (j - 1) = j
          /\ i = 1 \/ (i - 1 \in DOMAIN waiting /\ 1 + (i - 1) = i)
          /\ i - 1 < j - 1
        BY <1>5, <1>7
    <2>2. /\ waiting'[j] = waiting[j - 1]
          /\ waiting[j - 1] \in Range(waiting) /\ waiting[j - 1] \in DOMAIN seqs
        BY <1>7, <2>1, OrderTypes DEF OrderInv
    <2>3. CASE i = 1
        BY <1>2, <1>7, <1>8, <2>2, <2>3 DEF OrderInv, TiesAhead
    <2>4. CASE i - 1 \in DOMAIN waiting /\ 1 + (i - 1) = i
        <3>1. waiting'[i] = waiting[i - 1] /\ waiting[i - 1] \in DOMAIN seqs
            BY <1>7, <2>4, OrderTypes DEF OrderInv
        <3> QED
            BY <1>8, <2>1, <2>2, <2>4, <3>1 DEF OrderInv, TiesRise
    <2> QED
        BY <2>1, <2>3, <2>4
<1> QED
    BY <1>9, <1>10

\* Retirement takes a member of the batch away.
LEMMA RetireNextTies ==
    ASSUME OrderInv, RetireNext
    PROVE  TiesAhead' /\ TiesRise'
<1> DEFINE s == running[pos]
<1>1. /\ pos <= Len(running)
      /\ seqs' = [seqs EXCEPT ![s].state = "Finished"]
      /\ running' = RemoveAt(running, pos)
      /\ UNCHANGED waiting
    BY DEF RetireNext
<1>2. pos \in DOMAIN running /\ s \in DOMAIN seqs
    BY <1>1 DEF OrderInv, IInv, TypeOK
<1>3. Range(running') \subseteq Range(running)
    BY <1>1, <1>2, RemoveFacts DEF OrderInv, IInv, TypeOK, NoRequestLost
<1> HIDE DEF s
<1>4. \A t \in DOMAIN seqs : OutputLen(t)' = OutputLen(t)
    BY <1>1, <1>2, NewState DEF OrderInv, IInv, SeqState
<1> QED
    BY <1>1, <1>3, <1>4, TiesStay

\* A token takes its sequence ahead of the whole queue.
LEMMA PushTokenTies ==
    ASSUME OrderInv,
           NEW token \in Token, NEW is_eos \in BOOLEAN, PushToken(token, is_eos)
    PROVE  TiesAhead' /\ TiesRise'
<1> DEFINE s == plan.decode_batch[pos]
<1>1. /\ s \in Range(running) =>
            seqs' = [seqs EXCEPT ![s] = Pushed(@, token, is_eos)]
      /\ s \notin Range(running) => UNCHANGED seqs
      /\ UNCHANGED <<waiting, running>>
    BY DEF PushToken
<1> HIDE DEF s
<1>2. CASE s \in Range(running)
    <2>1. s \in DOMAIN seqs /\ s \notin Range(waiting)
        BY <1>2, OrderTypes DEF OrderInv, IInv, NoRequestLost, InBatch, InQueue
    <2>2. \A t \in DOMAIN seqs :
            OutputLen(t)' = OutputLen(t) + (IF t = s THEN 1 ELSE 0)
        BY <1>1, <1>2, <2>1, PushedState DEF OrderInv, IInv
    <2>3. \A t \in DOMAIN seqs \ {s} : OutputLen(t)' = OutputLen(t)
        BY <2>2, OrderTypes DEF OrderInv
    <2>4. \A t \in DOMAIN seqs : t = s => OutputLen(t)' = OutputLen(t) + 1
        BY <2>2
    <2>5. TiesAhead'
        <3> SUFFICES ASSUME NEW u \in Range(running), NEW t \in Range(waiting),
                            OutputLen(u)' = OutputLen(t)'
                     PROVE  u < t
            BY <1>1 DEF TiesAhead
        <3>1. /\ u \in DOMAIN seqs /\ t \in DOMAIN seqs \ {s}
              /\ OutputLen(u) \in Nat /\ OutputLen(t) \in Nat
              /\ OutputLen(u) >= OutputLen(t)
            BY <2>1, OrderTypes DEF OrderInv, BatchAhead
        <3>2. CASE u = s
            <4>1. OutputLen(u)' = OutputLen(u) + 1
                BY <2>4, <3>1, <3>2
            <4>2. OutputLen(t)' = OutputLen(t)
                BY <2>3, <3>1
            <4>3. OutputLen(u) + 1 = OutputLen(t)
                BY <4>1, <4>2
            <4> QED
                BY <3>1, <4>3
        <3>3. CASE u /= s
            BY <2>3, <3>1, <3>3 DEF OrderInv, TiesAhead
        <3> QED
            BY <3>2, <3>3
    <2>6. TiesRise'
        <3>1. \A i \in DOMAIN waiting : waiting[i] \in DOMAIN seqs \ {s}
            BY <2>1, OrderTypes DEF OrderInv
        <3> QED
            BY <1>1, <2>3, <3>1 DEF OrderInv, TiesRise
    <2> QED
        BY <2>5, <2>6
<1>3. CASE s \notin Range(running)
    BY <1>1, <1>3, TiesStay DEF OutputLen
<1> QED
    BY <1>2, <1>3

\* No step lets a younger request pass an older one of its length.
LEMMA TiesStep ==
    ASSUME OrderInv, [Next /\ AscendingIds]_vars
    PROVE  OrderInv'
<1>1. [Next]_vars
    OBVIOUS
<1>2. IInv' /\ BatchAhead' /\ QueueFalls'
    BY <1>1, NextPreserves, ProgressOrderStep DEF OrderInv
<1>3. CASE SubmitAny /\ AscendingIds
    BY <1>2, <1>3, SubmitTies DEF SubmitAny, OrderInv
<1>4. CASE \/ StartSchedule \/ AdmitFails \/ AdmitStops \/ PreemptStops
           \/ CommitNext \/ CommitStops \/ KeepNext \/ RetireStops \/ EndStep
           \/ UNCHANGED vars
    <2>1. UNCHANGED <<seqs, waiting, running>>
        BY <1>4 DEF StartSchedule, AdmitFails, AdmitStops, PreemptStops,
               CommitNext, CommitStops, KeepNext, RetireStops, EndStep, vars
    <2>2. \A t \in DOMAIN seqs : OutputLen(t)' = OutputLen(t)
        BY <2>1 DEF OutputLen
    <2> QED
        BY <1>2, <2>1, <2>2, TiesStay DEF OrderInv
<1>5. CASE Schedule
    BY <1>2, <1>4, <1>5, AdmitFrontTies, PreemptVictimTies, RetireNextTies
    DEF Schedule, OrderInv
<1>6. CASE Forward
    BY <1>2, <1>4, <1>6, PushTokenTies DEF Forward, OrderInv
<1> QED
    BY <1>3, <1>4, <1>5, <1>6 DEF Next

\* With ids that grow in submission order, ties go to the older request: at
\* equal output nobody in the queue is older than anybody in the batch, and
\* the queue is in submission order (scheduler.rs:222-223).
THEOREM TiesGoToTheOldest == SpecAscending => []NoOvertaking
<1>1. Init => OrderInv
    BY InitEstablishes
    DEF Init, OrderInv, BatchAhead, QueueFalls, TiesAhead, TiesRise, Range
<1>2. OrderInv /\ [Next /\ AscendingIds]_vars => OrderInv'
    BY TiesStep
<1>3. OrderInv => NoOvertaking
    BY TieParts DEF OrderInv
<1> QED
    BY <1>1, <1>2, <1>3, PTL DEF SpecAscending
=============================================================================
