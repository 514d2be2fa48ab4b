---------------------- MODULE SchedulerProgressProofs ----------------------
(***************************************************************************)
(* What the scheduler's steps achieve: the commit never runs out of blocks *)
(* and no step is wasted.  Both rest on counting blocks, which the state   *)
(* alone does not show at the moment they are needed, so the invariant     *)
(* carries the count from phase to phase: preemption leaves room for the   *)
(* whole batch (RoomForRest), a batch that has work is never empty after   *)
(* admission (BatchBusy), the commit passes complete sequences only        *)
(* (CommitCovers), and a step that decodes nothing finds one to retire     *)
(* (RetireWorks).                                                          *)
(***************************************************************************)
EXTENDS SchedulerProofs, FiniteSetTheorems

\* No sequence has more output than it may.
WithinLimits == \A s \in DOMAIN seqs : OutputLen(s) <= seqs[s].max_new_tokens

\* Preemption has made room for the rest of the batch.
RoomForRest == pc = "commit" => Demand(pos) <= FreeBlocks(cache)

\* A request that does not fit the cache, and whose text has come so far that
\* the cache has no slot for another token of it.
Hopeless(s) == ~Fits(s) /\ TotalLen(s) >= NumBlocks * BlockSize

NoneHopeless == \A s \in DOMAIN seqs : ~Hopeless(s)

\* What a step needs to be worth its while: less than StepMakesProgress asks,
\* since a request that fits is never hopeless.
CanWork == NoneHopeless /\ MaxBatchSize > 0 /\ HasWork

\* Admission fills an empty batch, and preemption never empties it.
BatchBusy == pc \in {"preempt", "commit"} /\ CanWork => running /= <<>>

\* The commit skips complete sequences only.
CommitCovers ==
    pc = "commit" =>
        \A i \in DOMAIN running : i < pos =>
            IsComplete(running[i]) \/ running[i] \in Range(plan.decode_batch)

\* The step has decoded or retired something.
Progress == plan.decode_batch /= <<>> \/ plan.finished /= <<>>

\* A step that decodes nothing finds something to retire at the first position.
RetireWorks ==
    pc = "retire" /\ CanWork =>
        \/ Progress
        \/ pos = 1 /\ running /= <<>> /\ IsComplete(running[1])

\* A finished schedule() has not been for nothing.
StepWorks == pc = "forward" /\ CanWork => Progress

\* The inductive invariant.
ProgressInv ==
    /\ IInv
    /\ WithinLimits
    /\ RoomForRest
    /\ BatchBusy
    /\ CommitCovers
    /\ RetireWorks
    /\ StepWorks

-----------------------------------------------------------------------------
(* The blocks the rest of the batch asks for                               *)

\* The set that Demand counts: the positions from `from` on, each with the
\* blocks its sequence asks for.
Slots(from) ==
    UNION {{i} \X (1 .. BlocksNeededFor(cache, running[i], 1)) :
        i \in {j \in from .. Len(running) : WillDecode(running[j])}}

\* For the rest of the arguments: a member of the batch has a table.
LEMMA MemberFacts ==
    ASSUME IInv, NEW i \in DOMAIN running
    PROVE  /\ running[i] \in DOMAIN cache.tables
           /\ running[i] \in DOMAIN seqs
           /\ IsRunning(running[i])
           /\ Len(running) \in Nat /\ DOMAIN running = 1 .. Len(running)
<1>1. Len(running) \in Nat /\ DOMAIN running = 1 .. Len(running)
      /\ running[i] \in DOMAIN seqs /\ running[i] \in Range(running)
    BY DEF IInv, TypeOK, Range
<1> QED
    BY <1>1 DEF IInv, OnlyBatchHoldsBlocks, NoRequestLost, InBatch, IsRunning

\* One more token takes at most one block.
LEMMA OneBlock ==
    ASSUME IInv, NEW s \in DOMAIN cache.tables
    PROVE  BlocksNeededFor(cache, s, 1) =
             IF Slack(cache.tables[s]) = 0 THEN 1 ELSE 0
<1> DEFINE slack == Slack(cache.tables[s])
<1>1. slack \in 0 .. BlockSize - 1 /\ BlockSize \in Nat \ {0}
    BY BlockSizeAssumption DEF IInv, CacheSound, Tight
<1>2. BlocksNeededFor(cache, s, 1) =
        IF 1 <= slack THEN 0 ELSE CeilDiv(1 - slack, BlockSize)
    BY DEF BlocksNeededFor, Known
<1> HIDE DEF slack
<1>3. CeilDiv(1, BlockSize) = 1
    <2> DEFINE c == CeilDiv(1, BlockSize)
    <2>1. c \in Nat /\ 1 <= c * BlockSize /\ c * BlockSize < 1 + BlockSize
        BY <1>1, CeilDivBounds
    <2> HIDE DEF c
    <2>2. c /= 0
        BY <1>1, <2>1
    <2>3. ASSUME c >= 2
          PROVE  FALSE
        <3>1. c * BlockSize = (c - 2) * BlockSize + 2 * BlockSize
              /\ (c - 2) * BlockSize >= 0
            BY <1>1, <2>1, <2>3
        <3> QED
            BY <1>1, <2>1, <3>1
    <2>4. c = 1
        BY <2>1, <2>2, <2>3
    <2> QED
        BY <2>4 DEF c
<1> QED
    BY <1>1, <1>2, <1>3 DEF slack

\* The set is finite, so its size is a number, and no position counts twice.
LEMMA SlotsFacts ==
    ASSUME IInv, NEW n \in Nat \ {0}
    PROVE  /\ IsFiniteSet(Slots(n))
           /\ Demand(n) = Cardinality(Slots(n))
           /\ Slots(n) \subseteq (n .. Len(running)) \X {1}
<1>1. Len(running) \in Nat /\ DOMAIN running = 1 .. Len(running)
    BY DEF IInv, TypeOK
<1>2. ASSUME NEW i \in n .. Len(running)
      PROVE  1 .. BlocksNeededFor(cache, running[i], 1) \subseteq {1}
    <2>1. i \in DOMAIN running
        BY <1>1
    <2>2. BlocksNeededFor(cache, running[i], 1) \in {0, 1}
        BY <2>1, MemberFacts, OneBlock
    <2> QED
        BY <2>2
<1>3. Slots(n) \subseteq (n .. Len(running)) \X {1}
    BY <1>2 DEF Slots
<1>4. IsFiniteSet((n .. Len(running)) \X {1})
    <2>1. IsFiniteSet(n .. Len(running))
        BY <1>1, FS_Interval
    <2>2. IsFiniteSet({1})
        BY FS_Singleton
    <2> QED
        BY <2>1, <2>2, FS_Product
<1>5. IsFiniteSet(Slots(n))
    BY <1>3, <1>4, FS_Subset
<1> QED
    BY <1>3, <1>5 DEF Demand, Slots

\* The first position's share, and the rest's.
LEMMA SlotsSplit ==
    ASSUME IInv, NEW n \in DOMAIN running
    PROVE  /\ WillDecode(running[n]) =>
                Slots(n) = ({n} \X (1 .. BlocksNeededFor(cache, running[n], 1)))
                           \cup Slots(n + 1)
           /\ ~WillDecode(running[n]) => Slots(n) = Slots(n + 1)
<1>1. Len(running) \in Nat /\ n \in 1 .. Len(running)
    BY DEF IInv, TypeOK
<1>2. n .. Len(running) = {n} \cup ((n + 1) .. Len(running))
    BY <1>1
<1>3. {j \in n .. Len(running) : WillDecode(running[j])} =
        (IF WillDecode(running[n]) THEN {n} ELSE {})
        \cup {j \in (n + 1) .. Len(running) : WillDecode(running[j])}
    BY <1>2
<1> QED
    BY <1>3 DEF Slots

\* What one position asks for is part of what all ask for.
LEMMA ShareBounded ==
    ASSUME IInv, NEW n \in Nat \ {0}, NEW i \in n .. Len(running),
           WillDecode(running[i])
    PROVE  BlocksNeededFor(cache, running[i], 1) <= Demand(n)
<1> DEFINE k == BlocksNeededFor(cache, running[i], 1)
<1>1. i \in DOMAIN running
    BY DEF IInv, TypeOK
<1>2. k \in {0, 1}
    BY <1>1, MemberFacts, OneBlock
<1>3. Demand(n) = Cardinality(Slots(n)) /\ Demand(n) \in Nat /\ IsFiniteSet(Slots(n))
    BY SlotsFacts, FS_CardinalityType
<1>4. ASSUME k = 1
      PROVE  Demand(n) >= 1
    <2>1. <<i, 1>> \in Slots(n)
        BY <1>4 DEF Slots
    <2>2. Cardinality({<<i, 1>>}) = 1 /\ {<<i, 1>>} \in SUBSET Slots(n)
        BY <2>1, FS_Singleton
    <2>3. Cardinality({<<i, 1>>}) <= Cardinality(Slots(n))
        BY <1>3, <2>2, FS_Subset
    <2> QED
        BY <1>3, <2>2, <2>3
<1> HIDE DEF k
<1>5. k <= Demand(n)
    BY <1>2, <1>3, <1>4
<1> QED
    BY <1>5 DEF k

\* There is room for every member the commit still comes to.
LEMMA RoomSuffices ==
    ASSUME IInv, RoomForRest
    PROVE  CommitNeverFails
<1> SUFFICES ASSUME pc = "commit", NEW i \in pos .. Len(running),
                    WillDecode(running[i])
             PROVE  /\ Demand(pos) <= FreeBlocks(cache)
                    /\ CanAppend(cache, running[i], 1)
    BY DEF CommitNeverFails
<1>1. pos \in Nat \ {0} /\ i \in DOMAIN running
    BY DEF IInv, TypeOK
<1>2. Demand(pos) <= FreeBlocks(cache)
    BY DEF RoomForRest
<1>3. BlocksNeededFor(cache, running[i], 1) <= Demand(pos)
    BY <1>1, ShareBounded
<1>4. running[i] \in DOMAIN cache.tables
    BY <1>1, MemberFacts
<1>5. /\ BlocksNeededFor(cache, running[i], 1) \in Nat
      /\ Demand(pos) \in Nat /\ FreeBlocks(cache) \in Nat
    <2>1. BlocksNeededFor(cache, running[i], 1) \in {0, 1}
        BY <1>4, OneBlock
    <2>2. Demand(pos) \in Nat
        BY <1>1, SlotsFacts, FS_CardinalityType
    <2>3. FreeBlocks(cache) \in Nat
        BY CacheParts DEF IInv, TypeOK
    <2> QED
        BY <2>1, <2>2, <2>3
<1>6. BlocksNeededFor(cache, running[i], 1) <= FreeBlocks(cache)
    BY <1>2, <1>3, <1>5
<1> QED
    BY <1>2, <1>4, <1>6 DEF CanAppend, Known

\* The commit of one position leaves room for the others.
LEMMA CommitKeepsRoom ==
    ASSUME IInv, IInv', RoomForRest, CommitNext
    PROVE  RoomForRest'
<1>1. /\ pc = "commit" /\ pos <= Len(running)
      /\ pos' = pos + 1
      /\ UNCHANGED <<seqs, waiting, running, pc>>
      /\ pos \in DOMAIN running /\ pos \in Nat \ {0}
    BY DEF CommitNext, IInv, TypeOK
<1>2. PICK n \in Nat \ {0} : n = pos + 1
    BY <1>1
<1>3. PICK s : s = running[pos]
    OBVIOUS
<1>4. s \in DOMAIN cache.tables
    BY <1>1, <1>3, MemberFacts
<1>5. \A j \in n .. Len(running) :
        /\ running[j] /= s
        /\ running[j] \in DOMAIN cache.tables
        /\ WillDecode(running[j])' <=> WillDecode(running[j])
    <2> SUFFICES ASSUME NEW j \in n .. Len(running)
                 PROVE  /\ running[j] /= s
                        /\ running[j] \in DOMAIN cache.tables
                        /\ WillDecode(running[j])' <=> WillDecode(running[j])
        OBVIOUS
    <2>1. j \in DOMAIN running /\ j /= pos
        BY <1>1, <1>2 DEF IInv, TypeOK
    <2>2. running[j] /= s
        BY <1>1, <1>3, <2>1 DEF IInv, NoRequestLost, IsInjective
    <2>3. WillDecode(running[j])' <=> WillDecode(running[j])
        BY <1>1 DEF WillDecode, IsRunning, IsComplete, OutputLen
    <2> QED
        BY <2>1, <2>2, <2>3, MemberFacts
<1>6. ASSUME \A t \in DOMAIN cache.tables \ {s} :
                t \in DOMAIN cache'.tables /\ cache'.tables[t] = cache.tables[t]
      PROVE  Slots(n)' = Slots(n)
    <2>1. \A j \in n .. Len(running) :
            BlocksNeededFor(cache, running[j], 1)' = BlocksNeededFor(cache, running[j], 1)
        BY <1>1, <1>5, <1>6 DEF BlocksNeededFor, Known
    <2>2. {j \in n .. Len(running) : WillDecode(running[j])}' =
            {j \in n .. Len(running) : WillDecode(running[j])}
        BY <1>1, <1>5
    <2> QED
        BY <1>1, <2>1, <2>2 DEF Slots
<1>7. /\ IsFiniteSet(Slots(n)) /\ Cardinality(Slots(n)) \in Nat
      /\ Demand(n)' = Cardinality(Slots(n)')
      /\ Demand(pos) = Cardinality(Slots(pos))
      /\ Demand(pos) <= FreeBlocks(cache)
      /\ FreeBlocks(cache) \in Nat
      /\ Slots(n) \subseteq (n .. Len(running)) \X {1}
    BY <1>1, SlotsFacts, FS_CardinalityType, CacheParts
    DEF RoomForRest, Slots, Demand, IInv, TypeOK
<1>8. CASE ~WillDecode(s)
    <2>1. UNCHANGED cache
        BY <1>3, <1>8 DEF CommitNext
    <2>2. Slots(n)' = Slots(n)
        BY <1>6, <2>1
    <2>3. Slots(pos) = Slots(n)
        BY <1>1, <1>2, <1>3, <1>8, SlotsSplit
    <2>4. Demand(n)' <= FreeBlocks(cache')
        BY <1>7, <2>1, <2>2, <2>3
    <2> QED
        BY <1>1, <1>2, <2>4 DEF RoomForRest, Demand
<1>9. CASE WillDecode(s)
    <2> DEFINE k == BlocksNeededFor(cache, s, 1)
    <2>1. CanAppend(cache, s, 1)
        <3>1. pos \in pos .. Len(running)
            BY <1>1 DEF IInv, TypeOK
        <3> QED
            BY <1>1, <1>3, <1>9, <3>1, RoomSuffices DEF CommitNeverFails
    <2>2. cache' = AppendTokens(cache, s, 1)
        BY <1>3, <1>9, <2>1 DEF CommitNext
    <2>3. FreeBlocks(cache') = FreeBlocks(cache) - k
        BY <2>1, <2>2, AppendSound DEF IInv
    <2>4. Slots(n)' = Slots(n)
        <3>1. /\ DOMAIN cache'.tables = DOMAIN cache.tables
              /\ \A t \in DOMAIN cache.tables :
                    t /= s => cache'.tables[t] = cache.tables[t]
            BY <1>4, <2>2, AppendTables, ZenonT(30)
        <3> QED
            BY <1>6, <3>1
    <2>5. Slots(pos) = ({pos} \X (1 .. k)) \cup Slots(n)
        BY <1>1, <1>2, <1>3, <1>9, SlotsSplit
    <2>6. k \in {0, 1}
        BY <1>4, OneBlock
    <2> HIDE DEF k
    <2>7. CASE k = 0
        <3>1. Slots(pos) = Slots(n)
            BY <2>5, <2>7
        <3> QED
            BY <1>1, <1>2, <1>7, <2>3, <2>4, <2>7, <3>1 DEF RoomForRest, Demand
    <2>8. CASE k = 1
        <3>1. Slots(pos) = Slots(n) \cup {<<pos, 1>>}
            <4>1. 1 .. k = {1}
                BY <2>8
            <4>2. {pos} \X {1} = {<<pos, 1>>}
                OBVIOUS
            <4> QED
                BY <2>5, <4>1, <4>2
        <3>2. <<pos, 1>> \notin Slots(n)
            <4>1. pos \notin n .. Len(running)
                BY <1>1, <1>2
            <4> QED
                BY <1>7, <4>1
        <3>3. Demand(pos) = Cardinality(Slots(n)) + 1
            BY <1>7, <3>1, <3>2, FS_AddElement
        <3>4. Cardinality(Slots(n)) <= FreeBlocks(cache')
            BY <1>7, <2>3, <2>8, <3>3
        <3>5. Demand(n)' <= FreeBlocks(cache')
            BY <1>7, <2>4, <3>4
        <3> QED
            BY <1>1, <1>2, <3>5 DEF RoomForRest, Demand
    <2> QED
        BY <2>6, <2>7, <2>8
<1> QED
    BY <1>8, <1>9

\* Preemption makes the room and the commit keeps it.
LEMMA RoomStep ==
    ASSUME IInv, IInv', RoomForRest, [Next]_vars
    PROVE  RoomForRest'
<1>1. CASE CommitNext
    BY <1>1, CommitKeepsRoom
<1>2. CASE PreemptStops
    <2>1. /\ pc = "preempt" /\ pos' = 1
          /\ UNCHANGED <<cache, seqs, running>>
          /\ BatchFits \/ \A i \in DOMAIN running : ~IsRunning(running[i])
        BY <1>2 DEF PreemptStops
    <2>2. Demand(1) <= FreeBlocks(cache)
        <3>1. CASE \A i \in DOMAIN running : ~IsRunning(running[i])
            <4>1. DOMAIN running = {} /\ 1 .. Len(running) = {}
                BY <3>1, MemberFacts DEF IInv, TypeOK
            <4>2. Slots(1) = {} /\ Demand(1) = Cardinality(Slots(1))
                BY <4>1, SlotsFacts
            <4>3. Demand(1) = 0 /\ FreeBlocks(cache) \in Nat
                BY <4>2, FS_EmptySet, CacheParts DEF IInv, TypeOK
            <4> QED
                BY <4>3
        <3> QED
            BY <2>1, <3>1 DEF BatchFits
    <2>3. Demand(1)' = Demand(1)
        BY <2>1 DEF Demand, WillDecode, IsRunning, IsComplete, OutputLen
    <2> QED
        BY <2>1, <2>2, <2>3 DEF RoomForRest, Demand
<1>3. CASE UNCHANGED vars
    BY <1>3 DEF vars, RoomForRest, Demand, WillDecode, IsRunning, IsComplete,
                OutputLen
<1>4. ASSUME Next, ~CommitNext, ~PreemptStops
      PROVE  pc' /= "commit"
    BY <1>4 DEF Next, SubmitAny, Schedule, Forward, Submit, StartSchedule,
        AdmitFront, AdmitFails, AdmitStops, PreemptVictim, CommitStops,
        RetireNext, KeepNext, RetireStops, PushToken, EndStep
<1> QED
    BY <1>1, <1>2, <1>3, <1>4 DEF RoomForRest

-----------------------------------------------------------------------------
(* What a request costs that has the cache to itself                       *)

\* Blocks enough for n tokens are slots enough for them.
LEMMA BlocksCover ==
    ASSUME NEW n \in Nat
    PROVE  CeilDiv(n, BlockSize) <= NumBlocks <=> n <= NumBlocks * BlockSize
<1> DEFINE a == CeilDiv(n, BlockSize)
<1>1. a \in Nat /\ n <= a * BlockSize /\ a * BlockSize < n + BlockSize
    BY CeilDivBounds, BlockSizeAssumption
<1>2. /\ NumBlocks \in Nat /\ BlockSize \in Nat \ {0}
      /\ a * BlockSize \in Nat /\ NumBlocks * BlockSize \in Nat
      /\ (NumBlocks + 1) * BlockSize = NumBlocks * BlockSize + BlockSize
    BY <1>1, NumBlocksAssumption, BlockSizeAssumption
<1> HIDE DEF a
<1>3. ASSUME n <= NumBlocks * BlockSize
      PROVE  a <= NumBlocks
    <2>1. a * BlockSize < (NumBlocks + 1) * BlockSize
        BY <1>1, <1>2, <1>3
    <2>2. a < NumBlocks + 1
        BY <1>1, <1>2, <2>1, ProductLess
    <2> QED
        BY <1>1, <1>2, <2>2
<1>4. ASSUME n > NumBlocks * BlockSize
      PROVE  a > NumBlocks
    <2>1. NumBlocks * BlockSize < a * BlockSize
        BY <1>1, <1>2, <1>4
    <2> QED
        BY <1>1, <1>2, <2>1, ProductLess
<1>5. a <= NumBlocks <=> n <= NumBlocks * BlockSize
    BY <1>1, <1>2, <1>3, <1>4
<1> QED
    BY <1>5 DEF a

\* A sequence of every block, each once, has NumBlocks of them.
LEMMA AllBlocks ==
    ASSUME NEW f \in Seq(Blocks), IsInjective(f), Range(f) = Blocks
    PROVE  Len(f) = NumBlocks
<1>1. Len(f) \in Nat /\ DOMAIN f = 1 .. Len(f) /\ f \in [1 .. Len(f) -> Blocks]
    OBVIOUS
<1>2. /\ IsFiniteSet(1 .. Len(f)) /\ Cardinality(1 .. Len(f)) = Len(f)
      /\ Cardinality(Blocks) = NumBlocks
    <2>1. IsFiniteSet(1 .. Len(f)) /\ Cardinality(1 .. Len(f)) = Len(f)
        BY <1>1, FS_Interval
    <2>2. Cardinality(0 .. NumBlocks - 1) = NumBlocks
        BY NumBlocksAssumption, FS_Interval
    <2> QED
        BY <2>1, <2>2 DEF Blocks
<1>3. f \in Bijection(1 .. Len(f), Blocks)
    <2>1. f \in Injection(1 .. Len(f), Blocks)
        BY <1>1 DEF IsInjective, Injection
    <2>2. f \in Surjection(1 .. Len(f), Blocks)
        BY <1>1 DEF Range, Surjection
    <2> QED
        BY <2>1, <2>2 DEF Bijection
<1>4. ExistsBijection(1 .. Len(f), Blocks)
    BY <1>3 DEF ExistsBijection
<1> QED
    BY <1>2, <1>4, FS_Bijection

\* An empty cache has every block to give; a sequence by itself leaves what it
\* does not hold.
LEMMA BlocksLeft ==
    ASSUME NEW c, CacheSound(c)
    PROVE  /\ DOMAIN c.tables = {} => FreeBlocks(c) = NumBlocks
           /\ \A s : DOMAIN c.tables = {s} =>
                FreeBlocks(c) + Len(c.tables[s].blocks) = NumBlocks
<1>1. c.free_list \in Seq(Blocks) /\ IsInjective(c.free_list)
    BY CacheParts DEF CacheSound, NoSharing
<1>2. ASSUME DOMAIN c.tables = {}
      PROVE  FreeBlocks(c) = NumBlocks
    <2>1. Range(c.free_list) = Blocks
        BY <1>2 DEF CacheSound, NoLeak
    <2> QED
        BY <1>1, <2>1, AllBlocks DEF FreeBlocks
<1>3. ASSUME NEW s, DOMAIN c.tables = {s}
      PROVE  FreeBlocks(c) + Len(c.tables[s].blocks) = NumBlocks
    <2> DEFINE b == c.tables[s].blocks
    <2>1. /\ b \in Seq(Blocks) /\ IsInjective(b)
          /\ Range(c.free_list) \cap Range(b) = {}
        BY <1>3, CacheParts DEF CacheSound, NoSharing
    <2>2. Range(c.free_list) \cup Range(b) = Blocks
        BY <1>3 DEF CacheSound, NoLeak
    <2> HIDE DEF b
    <2>3. /\ c.free_list \o b \in Seq(Blocks)
          /\ Len(c.free_list \o b) = Len(c.free_list) + Len(b)
          /\ Range(c.free_list \o b) = Blocks
          /\ IsInjective(c.free_list \o b)
        <3> DEFINE f == c.free_list
        <3>1. f \in Seq(Blocks) /\ IsInjective(f)
            BY <1>1
        <3>2. Range(f) \cap Range(b) = {} /\ Range(f) \cup Range(b) = Blocks
            BY <2>1, <2>2
        <3> HIDE DEF f
        <3>3. /\ f \o b \in Seq(Blocks)
              /\ Len(f \o b) = Len(f) + Len(b)
              /\ Range(f \o b) = Blocks
              /\ IsInjective(f \o b)
            <4>1. f \in Seq(Blocks) /\ b \in Seq(Blocks)
                BY <2>1, <3>1
            <4>2. /\ f \o b \in Seq(Blocks)
                  /\ Len(f \o b) = Len(f) + Len(b)
                  /\ Range(f \o b) = Range(f) \cup Range(b)
                  /\ IsInjective(f) /\ IsInjective(b) /\ Range(f) \cap Range(b) = {}
                        => IsInjective(f \o b)
                BY ONLY <4>1, ConcatFacts
            <4> QED
                BY <2>1, <3>1, <3>2, <4>2
        <3> QED
            BY <3>3 DEF f
    <2>4. Len(c.free_list \o b) = NumBlocks
        BY <2>3, AllBlocks
    <2> QED
        BY <2>3, <2>4 DEF FreeBlocks, b
<1> QED
    BY <1>2, <1>3

\* What Fits and the limits say of the numbers of a request.
LEMMA RequestNumbers ==
    ASSUME IInv, NEW s \in DOMAIN seqs
    PROVE  /\ Len(seqs[s].prompt) \in Nat /\ seqs[s].max_new_tokens \in Nat
           /\ OutputLen(s) \in Nat
           /\ TotalLen(s) = Len(seqs[s].prompt) + OutputLen(s)
           /\ TotalLen(s) \in Nat
<1>1. /\ seqs[s].prompt \in Seq(Token) /\ seqs[s].output \in Seq(Token)
      /\ seqs[s].max_new_tokens \in Nat
    <2>1. seqs[s] \in Sequence
        BY DEF IInv, TypeOK
    <2> QED
        BY <2>1 DEF Sequence
<1>2. Len(seqs[s].prompt) \in Nat /\ OutputLen(s) \in Nat
    BY <1>1 DEF OutputLen
<1>3. TotalLen(s) = Len(seqs[s].prompt) + OutputLen(s)
    BY DEF TotalLen, OutputLen
<1> QED
    BY <1>1, <1>2, <1>3

\* As long as a request is not hopeless, the cache has room for its text, and
\* for a token more if that is still to come.
LEMMA RoomForText ==
    ASSUME IInv, NEW s \in DOMAIN seqs, ~Hopeless(s),
           OutputLen(s) <= seqs[s].max_new_tokens
    PROVE  /\ TotalLen(s) <= NumBlocks * BlockSize
           /\ ~IsComplete(s) => TotalLen(s) < NumBlocks * BlockSize
<1> DEFINE p == Len(seqs[s].prompt)
           m == seqs[s].max_new_tokens
           l == NumBlocks * BlockSize
<1>1. /\ p \in Nat /\ m \in Nat /\ OutputLen(s) \in Nat
      /\ TotalLen(s) = p + OutputLen(s)
      /\ IsComplete(s) <=> OutputLen(s) >= m
      /\ OutputLen(s) <= m
    BY RequestNumbers DEF IsComplete
<1>2. PICK t \in Nat : t = p + m
    BY <1>1
<1>3. Fits(s) => t <= l
    BY <1>2, BlocksCover DEF Fits
<1>4. Fits(s) \/ TotalLen(s) < l
    <2>1. l \in Nat /\ TotalLen(s) \in Nat
        BY NumBlocksAssumption, BlockSizeAssumption, RequestNumbers
    <2>2. Fits(s) \/ ~(TotalLen(s) >= l)
        BY DEF Hopeless
    <2> HIDE DEF l
    <2> QED
        BY <2>1, <2>2
<1>5. l \in Nat
    BY NumBlocksAssumption, BlockSizeAssumption
<1> HIDE DEF l, p, m
<1>6. CASE Fits(s)
    BY <1>1, <1>2, <1>3, <1>5, <1>6 DEF l
<1>7. CASE TotalLen(s) < l
    BY <1>1, <1>5, <1>7 DEF l
<1> QED
    BY <1>4, <1>6, <1>7

\* A request that is not hopeless can be admitted to an empty cache.
LEMMA EmptyCacheAdmits ==
    ASSUME IInv, NEW s \in DOMAIN seqs, ~Hopeless(s),
           OutputLen(s) <= seqs[s].max_new_tokens, running = <<>>
    PROVE  CanAppend(Admit(cache, s), s, TotalLen(s))
<1> DEFINE n == TotalLen(s)
           a == Admit(cache, s)
<1>1. DOMAIN cache.tables = {} /\ CacheSound(cache) /\ s \in SeqIds
    BY SeqParts DEF IInv, OnlyBatchHoldsBlocks, Range
<1>2. /\ s \in DOMAIN a.tables /\ a.tables[s] = EmptyTable
      /\ FreeBlocks(a) = NumBlocks
    <2>1. /\ a.free_list = cache.free_list
          /\ DOMAIN a.tables = DOMAIN cache.tables \cup {s}
          /\ s \notin DOMAIN cache.tables => a.tables[s] = EmptyTable
        BY <1>1, AdmitSound
    <2>2. FreeBlocks(cache) = NumBlocks
        BY <1>1, BlocksLeft
    <2> HIDE DEF a
    <2> QED
        BY <1>1, <2>1, <2>2 DEF FreeBlocks
<1>3. n \in Nat /\ n <= NumBlocks * BlockSize
    BY RequestNumbers, RoomForText
<1> HIDE DEF n, a
<1>4. CeilDiv(n, BlockSize) <= NumBlocks
    BY <1>3, BlocksCover
<1>5. Slack(EmptyTable) = 0
    BY BlockSizeAssumption DEF Slack, Capacity, EmptyTable
<1>6. BlocksNeededFor(a, s, n) = IF n <= 0 THEN 0 ELSE CeilDiv(n, BlockSize)
    BY <1>2, <1>3, <1>5 DEF BlocksNeededFor, Known
<1>7. BlocksNeededFor(a, s, n) <= FreeBlocks(a)
    BY <1>2, <1>4, <1>6, NumBlocksAssumption
<1> QED
    BY <1>2, <1>7 DEF CanAppend, Known, a, n

\* Nor is it preempted while it runs alone.
LEMMA LoneBatchFits ==
    ASSUME IInv, NoneHopeless, WithinLimits, Len(running) = 1, plan.decode_batch = <<>>
    PROVE  BatchFits
<1> DEFINE s == running[1]
           table == cache.tables[s]
<1>1. /\ 1 \in DOMAIN running /\ DOMAIN running = {1}
      /\ s \in DOMAIN cache.tables /\ s \in DOMAIN seqs
      /\ DOMAIN cache.tables = {s}
    <2>1. DOMAIN running = {1}
        BY DEF IInv, TypeOK
    <2>2. Range(running) = {s}
        BY <2>1 DEF Range
    <2> QED
        BY <2>1, <2>2, MemberFacts DEF IInv, OnlyBatchHoldsBlocks
<1>2. Slots(1) = (IF WillDecode(s)
                  THEN {1} \X (1 .. BlocksNeededFor(cache, s, 1)) ELSE {})
    <2>1. Slots(2) = {}
        <3>1. Slots(2) \subseteq (2 .. Len(running)) \X {1} /\ 2 .. Len(running) = {}
            BY SlotsFacts
        <3> QED
            BY <3>1
    <2> QED
        BY <1>1, <2>1, SlotsSplit
<1>3. Demand(1) = Cardinality(Slots(1)) /\ FreeBlocks(cache) \in Nat
    BY SlotsFacts, CacheParts DEF IInv, TypeOK
<1>4. BlocksNeededFor(cache, s, 1) = IF Slack(table) = 0 THEN 1 ELSE 0
    BY <1>1, OneBlock
<1>5. CASE Slots(1) = {}
    <2>1. Demand(1) = 0
        BY <1>3, <1>5, FS_EmptySet
    <2> QED
        BY <1>3, <2>1 DEF BatchFits
<1>6. ASSUME WillDecode(s), Slack(table) = 0
      PROVE  FreeBlocks(cache) >= 1
    <2>1. /\ table.num_tokens = TotalLen(s)
          /\ Len(table.blocks) \in Nat
        <3>1. Reserved = {}
            BY DEF Reserved
        <3>2. SeqLen(cache, s) = TotalLen(s) + 0
            BY <1>1, <3>1 DEF IInv, CacheMatchesContext, Range
        <3>3. TotalLen(s) \in Nat
            BY <1>1, RequestNumbers
        <3>4. SeqLen(cache, s) = table.num_tokens
            BY <1>1 DEF SeqLen, Known
        <3> QED
            BY <1>1, <3>2, <3>3, <3>4, CacheParts DEF IInv, TypeOK
    <2>2. TotalLen(s) \in Nat /\ TotalLen(s) < NumBlocks * BlockSize
        BY <1>1, <1>6, RequestNumbers, RoomForText
        DEF WillDecode, NoneHopeless, WithinLimits
    <2>3. FreeBlocks(cache) + Len(table.blocks) = NumBlocks
        BY <1>1, BlocksLeft DEF IInv
    <2> DEFINE k == Len(table.blocks)
    <2>4. k * BlockSize = TotalLen(s)
        <3>1. Slack(table) = k * BlockSize - table.num_tokens
            BY DEF Slack, Capacity
        <3>2. k * BlockSize \in Nat /\ table.num_tokens \in Nat
            BY <2>1, <2>2, BlockSizeAssumption
        <3> HIDE DEF k
        <3> QED
            BY <1>6, <2>1, <3>1, <3>2
    <2>5. k \in Nat
        BY <2>1
    <2> HIDE DEF k
    <2>6. k < NumBlocks
        BY <2>2, <2>4, <2>5, NumBlocksAssumption, BlockSizeAssumption, ProductLess
    <2> QED
        BY <1>3, <2>3, <2>5, <2>6, NumBlocksAssumption DEF k
<1>7. CASE Slots(1) /= {}
    <2>1. WillDecode(s) /\ Slack(table) = 0
        BY <1>2, <1>4, <1>7
    <2>2. Slots(1) = {<<1, 1>>}
        <3>1. 1 .. 1 = {1} /\ {1} \X {1} = {<<1, 1>>}
            OBVIOUS
        <3> QED
            BY <1>2, <1>4, <2>1, <3>1
    <2>3. Demand(1) = 1
        BY <1>3, <2>2, FS_Singleton
    <2> QED
        BY <1>3, <1>6, <2>1, <2>3 DEF BatchFits
<1> QED
    BY <1>5, <1>7

-----------------------------------------------------------------------------
(* The steps                                                               *)

\* A sequence that changes its state keeps its text and its limit.
LEMMA LimitsStay ==
    ASSUME TypeOK, NEW s \in DOMAIN seqs, NEW state \in SeqState,
           seqs' = [seqs EXCEPT ![s].state = state]
    PROVE  /\ WithinLimits => WithinLimits'
           /\ \A t \in DOMAIN seqs : Hopeless(t)' <=> Hopeless(t)
<1>1. \A t \in DOMAIN seqs : seqs[t] \in Sequence
    BY DEF TypeOK
<1>2. DOMAIN seqs' = DOMAIN seqs
    OBVIOUS
<1>3. \A t \in DOMAIN seqs :
        /\ seqs'[t].prompt = seqs[t].prompt
        /\ seqs'[t].output = seqs[t].output
        /\ seqs'[t].max_new_tokens = seqs[t].max_new_tokens
    BY <1>1 DEF Sequence
<1>4. WithinLimits => WithinLimits'
    BY <1>2, <1>3 DEF WithinLimits, OutputLen
<1>5. \A t \in DOMAIN seqs : Hopeless(t)' <=> Hopeless(t)
    BY <1>3 DEF Hopeless, Fits, TotalLen
<1> QED
    BY <1>4, <1>5

\* push_token is called for a sequence short of its limit, or lowers the limit
\* to the output it leaves.
LEMMA LimitsStep ==
    ASSUME IInv, WithinLimits, [Next]_vars
    PROVE  WithinLimits'
<1> USE DEF IInv
<1>1. CASE UNCHANGED seqs
    BY <1>1 DEF WithinLimits, OutputLen
<1>2. ASSUME NEW s \in SeqIds, NEW prompt \in Prompts, NEW max \in MaxNews,
             Submit(s, prompt, max)
      PROVE  WithinLimits'
    <2>1. /\ DOMAIN seqs' = DOMAIN seqs \cup {s}
          /\ seqs'[s] = NewSequence(prompt, max)
          /\ \A t \in DOMAIN seqs : seqs'[t] = seqs[t]
        BY <1>2 DEF Submit
    <2>2. seqs'[s].output = <<>> /\ seqs'[s].max_new_tokens = max
        BY <2>1 DEF NewSequence
    <2>3. max \in Nat
        BY SchedulerAssumption
    <2>4. Len(seqs'[s].output) <= seqs'[s].max_new_tokens
        BY <2>2, <2>3
    <2> QED
        BY <2>1, <2>4 DEF WithinLimits, OutputLen
<1>3. CASE AdmitFront
    <2>1. Head(waiting) \in DOMAIN seqs
        BY <1>3 DEF AdmitFront, CanTryFront, TypeOK
    <2>2. seqs' = [seqs EXCEPT ![Head(waiting)].state = "Running"]
        BY <1>3 DEF AdmitFront
    <2> QED
        BY <2>1, <2>2, LimitsStay DEF SeqState
<1>4. ASSUME NEW i \in DOMAIN running, PreemptVictim(i)
      PROVE  WithinLimits'
    <2>1. seqs' = [seqs EXCEPT ![running[i]].state = "Preempted"]
        BY <1>4 DEF PreemptVictim, Preempted
    <2> QED
        BY <2>1, MemberFacts, LimitsStay DEF SeqState
<1>5. CASE RetireNext
    <2>1. pos \in DOMAIN running
        BY <1>5 DEF RetireNext, TypeOK
    <2>2. seqs' = [seqs EXCEPT ![running[pos]].state = "Finished"]
        BY <1>5 DEF RetireNext
    <2> QED
        BY <2>1, <2>2, MemberFacts, LimitsStay DEF SeqState
<1>6. ASSUME NEW token \in Token, NEW is_eos \in BOOLEAN,
             PushToken(token, is_eos), ~UNCHANGED seqs
      PROVE  WithinLimits'
    <2> DEFINE s == plan.decode_batch[pos]
               out == Append(seqs[s].output, token)
    <2>1. /\ s \in Range(running)
          /\ seqs' = [seqs EXCEPT ![s] = Pushed(@, token, is_eos)]
        BY <1>6 DEF PushToken
    <2>2. s \in DOMAIN seqs
        BY <2>1, MemberFacts DEF Range
    <2>3. ~IsComplete(s)
        <3>1. pos \in DOMAIN plan.decode_batch /\ pc = "forward"
            BY <1>6 DEF PushToken, TypeOK, StepPlan
        <3>2. s \in Reserved
            BY <3>1 DEF Reserved, TypeOK
        <3> QED
            BY <3>2 DEF DecodeBatchIsRunning
    <2>4. /\ seqs[s] \in Sequence /\ seqs[s].output \in Seq(Token)
          /\ seqs[s].max_new_tokens \in Nat
        BY <2>2, SeqParts
    <2>5. /\ DOMAIN seqs' = DOMAIN seqs
          /\ seqs'[s] = Pushed(seqs[s], token, is_eos)
          /\ \A t \in DOMAIN seqs : t /= s => seqs'[t] = seqs[t]
        BY <2>1, <2>2 DEF TypeOK
    <2>6. Len(out) = Len(seqs[s].output) + 1 /\ Len(out) \in Nat
        BY <2>4
    <2>7. Len(seqs[s].output) < seqs[s].max_new_tokens
        BY <2>3, <2>4 DEF IsComplete, OutputLen
    <2>8. Len(out) <= seqs[s].max_new_tokens
        BY <2>4, <2>6, <2>7
    <2> HIDE DEF out
    <2>9. /\ seqs'[s].output = out
          /\ seqs'[s].max_new_tokens = IF is_eos THEN Len(out)
                                       ELSE seqs[s].max_new_tokens
        <3>1. Pushed(seqs[s], token, is_eos) =
                [seqs[s] EXCEPT !.output = out,
                    !.max_new_tokens = IF is_eos THEN Len(out) ELSE @]
            BY DEF Pushed, out
        <3> QED
            BY <2>4, <2>5, <3>1 DEF Sequence
    <2>10. Len(seqs'[s].output) <= seqs'[s].max_new_tokens
        BY <2>6, <2>8, <2>9
    <2> QED
        BY <2>2, <2>5, <2>10 DEF WithinLimits, OutputLen
<1> QED
    BY <1>1, <1>2, <1>3, <1>4, <1>5, <1>6
    DEF Next, SubmitAny, Schedule, Forward, StartSchedule, AdmitFails, AdmitStops,
        PreemptStops, CommitNext, CommitStops, KeepNext, RetireStops, EndStep, vars

\* Admission ends with an empty batch only if there is nothing to admit, and
\* preemption stops at the last sequence.
LEMMA BusyStep ==
    ASSUME IInv, WithinLimits, BatchBusy, [Next]_vars
    PROVE  BatchBusy'
<1> SUFFICES ASSUME (pc \in {"preempt", "commit"})', CanWork'
             PROVE  running' /= <<>>
    BY DEF BatchBusy
<1>1. ASSUME pc \in {"preempt", "commit"}, UNCHANGED <<seqs, waiting, running>>
      PROVE  running' /= <<>>
    BY <1>1 DEF BatchBusy, CanWork, NoneHopeless, Hopeless, Fits, TotalLen, HasWork
<1>2. CASE AdmitFails
    <2> SUFFICES ASSUME running = <<>>
                 PROVE  FALSE
        BY <1>2 DEF AdmitFails
    <2> DEFINE s == Head(waiting)
    <2>1. s \in DOMAIN seqs
        BY <1>2 DEF AdmitFails, CanTryFront, IInv, TypeOK
    <2>2. ~Hopeless(s)
        BY <1>2, <2>1 DEF AdmitFails, CanWork, NoneHopeless, Hopeless, Fits, TotalLen
    <2>3. OutputLen(s) <= seqs[s].max_new_tokens
        BY <2>1 DEF WithinLimits
    <2>4. ~CanAppend(Admit(cache, s), s, TotalLen(s))
        BY <1>2 DEF AdmitFails, TokensToPlace
    <2> HIDE DEF s
    <2> QED
        BY <2>1, <2>2, <2>3, <2>4, EmptyCacheAdmits
<1>3. CASE AdmitStops
    <2>1. ~CanTryFront /\ UNCHANGED <<waiting, running>>
        BY <1>3 DEF AdmitStops
    <2>2. running = <<>> => Len(running) = 0
        OBVIOUS
    <2> QED
        BY <2>1, <2>2 DEF CanTryFront, CanWork, HasWork
<1>4. ASSUME NEW i \in DOMAIN running, PreemptVictim(i)
      PROVE  running' /= <<>>
    <2> SUFFICES ASSUME running' = <<>>
                 PROVE  FALSE
        OBVIOUS
    <2>1. /\ pc = "preempt" /\ ~BatchFits
          /\ running' = RemoveAt(running, i)
          /\ seqs' = [seqs EXCEPT ![running[i]].state = "Preempted"]
        BY <1>4 DEF PreemptVictim, Preempted
    <2>2. Len(running) = 1
        <3>1. /\ running \in Seq(DOMAIN seqs) /\ Len(running) \in Nat
              /\ IsInjective(running)
            BY DEF IInv, TypeOK, NoRequestLost
        <3>2. Len(RemoveAt(running, i)) = Len(running) - 1
            BY <3>1, RemoveFacts
        <3>3. Len(RemoveAt(running, i)) = 0
            BY <2>1
        <3> QED
            BY <3>1, <3>2, <3>3
    <2>3. NoneHopeless
        <3>1. running[i] \in DOMAIN seqs /\ DOMAIN seqs' = DOMAIN seqs
            BY <2>1, MemberFacts
        <3>2. NoneHopeless'
            BY DEF CanWork
        <3>3. \A t \in DOMAIN seqs : Hopeless(t)' <=> Hopeless(t)
            BY <2>1, <3>1, LimitsStay DEF SeqState, IInv
        <3> QED
            BY <3>1, <3>2, <3>3 DEF NoneHopeless
    <2>4. plan.decode_batch = <<>>
        BY <2>1 DEF IInv, PlanFollowsBatch
    <2> QED
        BY <2>1, <2>2, <2>3, <2>4, LoneBatchFits
<1>5. CASE PreemptStops \/ CommitNext \/ UNCHANGED vars
    BY <1>1, <1>5 DEF PreemptStops, CommitNext, vars
<1> QED
    BY <1>2, <1>3, <1>4, <1>5
    DEF Next, SubmitAny, Schedule, Forward, Submit, StartSchedule, AdmitFront,
        CommitStops, RetireNext, KeepNext, RetireStops, PushToken, EndStep

\* The commit records every sequence that is not complete.
LEMMA CoversStep ==
    ASSUME IInv, RoomForRest, CommitCovers, [Next]_vars
    PROVE  CommitCovers'
<1>1. CASE PreemptStops
    BY <1>1 DEF PreemptStops, CommitCovers, IInv, TypeOK
<1>2. CASE CommitNext
    <2>1. /\ pc = "commit" /\ pos' = pos + 1 /\ pos \in Nat \ {0}
          /\ UNCHANGED <<seqs, running>>
          /\ pos \in DOMAIN running
          /\ DOMAIN running = 1 .. Len(running) /\ Len(running) \in Nat
        BY <1>2 DEF CommitNext, IInv, TypeOK
    <2>2. plan.decode_batch \in Seq(SeqIds) /\ running[pos] \in SeqIds
        BY <2>1, MemberFacts, SeqParts DEF IInv, TypeOK, StepPlan
    <2>3. \/ plan'.decode_batch = plan.decode_batch
          \/ plan'.decode_batch = Append(plan.decode_batch, running[pos])
        BY <1>2, <2>2, PlanGrows DEF CommitNext, IInv, TypeOK
    <2>4. Range(plan.decode_batch) \subseteq Range(plan'.decode_batch)
        <3>1. Range(Append(plan.decode_batch, running[pos]))
                = Range(plan.decode_batch) \cup {running[pos]}
            BY <2>2, AppendFacts
        <3> QED
            BY <2>3, <3>1
    <2>5. IsComplete(running[pos]) \/ running[pos] \in Range(plan'.decode_batch)
        <3> SUFFICES ASSUME ~IsComplete(running[pos])
                     PROVE  running[pos] \in Range(plan'.decode_batch)
            OBVIOUS
        <3>1. WillDecode(running[pos])
            BY <2>1, MemberFacts DEF WillDecode
        <3>2. CanAppend(cache, running[pos], 1)
            BY <2>1, <3>1, RoomSuffices DEF CommitNeverFails
        <3>3. plan' = [plan EXCEPT !.decode_batch = Append(@, running[pos])]
            BY <1>2, <3>1, <3>2 DEF CommitNext
        <3>4. plan'.decode_batch = Append(plan.decode_batch, running[pos])
            BY <2>2, <3>3, PlanGrows DEF IInv, TypeOK
        <3> QED
            BY <2>2, <3>4, AppendFacts
    <2>6. ASSUME NEW i \in DOMAIN running, i < pos + 1
          PROVE  IsComplete(running[i]) \/ running[i] \in Range(plan'.decode_batch)
        <3>1. i < pos \/ i = pos
            BY <2>1, <2>6
        <3> QED
            BY <2>1, <2>4, <2>5, <3>1 DEF CommitCovers
    <2>7. \A i \in DOMAIN running : IsComplete(running[i])' <=> IsComplete(running[i])
        BY <2>1 DEF IsComplete, OutputLen
    <2> QED
        BY <2>1, <2>6, <2>7 DEF CommitCovers
<1>3. CASE UNCHANGED vars
    BY <1>3 DEF vars, CommitCovers, IsComplete, OutputLen
<1> QED
    BY <1>1, <1>2, <1>3
    DEF CommitCovers, Next, SubmitAny, Schedule, Forward, Submit, StartSchedule,
        AdmitFront, AdmitFails, AdmitStops, PreemptVictim, CommitStops,
        RetireNext, KeepNext, RetireStops, PushToken, EndStep

\* A commit that recorded nobody has passed a batch of complete sequences, and
\* retirement takes the first of them at once.
LEMMA RetireStep ==
    ASSUME IInv, BatchBusy, CommitCovers, RetireWorks, [Next]_vars
    PROVE  RetireWorks'
<1>1. CASE CommitStops
    <2> SUFFICES ASSUME CanWork', ~Progress'
                 PROVE  pos' = 1 /\ running' /= <<>> /\ IsComplete(running[1])'
        BY DEF RetireWorks
    <2>1. /\ pc = "commit" /\ pos > Len(running) /\ pos' = 1
          /\ UNCHANGED <<seqs, waiting, running, plan>>
        BY <1>1 DEF CommitStops
    <2>2. CanWork
        BY <2>1 DEF CanWork, NoneHopeless, Hopeless, Fits, TotalLen, HasWork
    <2>3. running /= <<>>
        BY <2>1, <2>2 DEF BatchBusy
    <2>4. 1 \in DOMAIN running /\ 1 < pos
        BY <2>1, <2>3 DEF IInv, TypeOK
    <2>5. IsComplete(running[1]) \/ running[1] \in Range(plan.decode_batch)
        BY <2>1, <2>4 DEF CommitCovers
    <2>6. plan.decode_batch = <<>>
        BY <2>1 DEF Progress
    <2>7. IsComplete(running[1])
        BY <2>5, <2>6 DEF Range
    <2> QED
        BY <2>1, <2>3, <2>7 DEF IsComplete, OutputLen
<1>2. CASE RetireNext
    <2>1. plan'.finished = Append(plan.finished, running[pos])
        BY <1>2 DEF RetireNext, IInv, TypeOK, StepPlan
    <2>2. plan.finished \in Seq(SeqIds) /\ running[pos] \in SeqIds
        <3>1. pos \in DOMAIN running
            BY <1>2 DEF RetireNext, IInv, TypeOK
        <3> QED
            BY <3>1, MemberFacts, SeqParts DEF IInv, TypeOK, StepPlan
    <2>3. plan'.finished /= <<>>
        BY <2>1, <2>2
    <2> QED
        BY <2>3 DEF RetireWorks, Progress
<1>3. CASE KeepNext
    BY <1>3 DEF KeepNext, RetireWorks, Progress, CanWork, NoneHopeless, Hopeless,
                Fits, TotalLen, HasWork
<1>4. CASE UNCHANGED vars
    BY <1>4 DEF vars, RetireWorks, Progress, CanWork, NoneHopeless, Hopeless,
                Fits, TotalLen, HasWork, IsComplete, OutputLen
<1> QED
    BY <1>1, <1>2, <1>3, <1>4
    DEF RetireWorks, Next, SubmitAny, Schedule, Forward, Submit, StartSchedule,
        AdmitFront, AdmitFails, AdmitStops, PreemptVictim, PreemptStops,
        CommitNext, RetireStops, PushToken, EndStep

\* Once retirement is over the plan has something in it, and keeps it until the
\* caller drops the plan.
LEMMA ProgressStep ==
    ASSUME IInv, RetireWorks, StepWorks, [Next]_vars
    PROVE  StepWorks'
<1>1. CASE RetireStops
    <2>1. running /= <<>> => Len(running) >= 1
        BY DEF IInv, TypeOK
    <2>2. CanWork => Progress
        BY <1>1, <2>1 DEF RetireStops, RetireWorks, IInv, TypeOK
    <2> QED
        BY <1>1, <2>2 DEF RetireStops, StepWorks, Progress, CanWork,
                          NoneHopeless, Hopeless, Fits, TotalLen, HasWork
<1>2. ASSUME NEW token \in Token, NEW is_eos \in BOOLEAN, PushToken(token, is_eos)
      PROVE  StepWorks'
    <2>1. plan.decode_batch /= <<>> /\ plan' = plan
        BY <1>2 DEF PushToken, IInv, TypeOK
    <2> QED
        BY <2>1 DEF StepWorks, Progress
<1>3. CASE UNCHANGED vars
    BY <1>3 DEF vars, StepWorks, Progress, CanWork, NoneHopeless, Hopeless,
                Fits, TotalLen, HasWork
<1> QED
    BY <1>1, <1>2, <1>3
    DEF StepWorks, Next, SubmitAny, Schedule, Forward, Submit,
        StartSchedule, AdmitFront, AdmitFails, AdmitStops, PreemptVictim,
        PreemptStops, CommitNext, CommitStops, RetireNext, KeepNext, EndStep

-----------------------------------------------------------------------------
(* Once hopeless, always hopeless                                          *)

\* A slot is reserved inside the cache: there is one for a token more.
LEMMA ReservedRoom ==
    ASSUME IInv, NEW s \in Reserved
    PROVE  /\ s \in Range(running) /\ s \in DOMAIN seqs
           /\ TotalLen(s) < NumBlocks * BlockSize
<1> DEFINE table == cache.tables[s]
           k == Len(table.blocks)
<1>1. s \in Range(running)
    BY DEF IInv, DecodeBatchIsRunning, Reserved, Range
<1>2. s \in DOMAIN seqs /\ s \in DOMAIN cache.tables
    BY <1>1, MemberFacts DEF Range
<1>3. /\ table.num_tokens = TotalLen(s) + 1
      /\ TotalLen(s) \in Nat
    BY <1>1, <1>2, RequestNumbers DEF IInv, CacheMatchesContext, SeqLen, Known
<1>4. k \in Nat /\ k <= NumBlocks
    BY <1>2, CacheParts, NoLongerThanBlocks DEF IInv, CacheSound, NoSharing
<1>5. k * BlockSize - table.num_tokens >= 0
    BY <1>2, BlockSizeAssumption DEF IInv, CacheSound, Tight, Slack, Capacity
<1> HIDE DEF k, table
<1>6. k * BlockSize \in Nat /\ NumBlocks * BlockSize \in Nat
    BY <1>4, NumBlocksAssumption, BlockSizeAssumption
<1>7. k * BlockSize <= NumBlocks * BlockSize
    <2>1. ~(NumBlocks * BlockSize < k * BlockSize)
        BY <1>4, NumBlocksAssumption, BlockSizeAssumption, ProductLess
    <2> QED
        BY <1>6, <2>1
<1> QED
    BY <1>1, <1>2, <1>3, <1>5, <1>6, <1>7

\* So a hopeless request gets no further token, and its limit stays.
LEMMA HopelessStays ==
    ASSUME IInv, [Next]_vars, NEW h \in DOMAIN seqs, Hopeless(h)
    PROVE  h \in DOMAIN seqs' /\ Hopeless(h)'
<1> USE DEF IInv
<1>1. CASE UNCHANGED seqs
    BY <1>1 DEF Hopeless, Fits, TotalLen
<1>2. ASSUME NEW s \in SeqIds, NEW prompt \in Prompts, NEW max \in MaxNews,
             Submit(s, prompt, max)
      PROVE  h \in DOMAIN seqs' /\ Hopeless(h)'
    <2>1. h \in DOMAIN seqs' /\ seqs'[h] = seqs[h]
        BY <1>2 DEF Submit
    <2> QED
        BY <2>1 DEF Hopeless, Fits, TotalLen
<1>3. CASE AdmitFront
    <2>1. Head(waiting) \in DOMAIN seqs
        BY <1>3 DEF AdmitFront, CanTryFront, TypeOK
    <2>2. seqs' = [seqs EXCEPT ![Head(waiting)].state = "Running"]
        BY <1>3 DEF AdmitFront
    <2> QED
        BY <2>1, <2>2, LimitsStay DEF SeqState
<1>4. ASSUME NEW i \in DOMAIN running, PreemptVictim(i)
      PROVE  h \in DOMAIN seqs' /\ Hopeless(h)'
    <2>1. seqs' = [seqs EXCEPT ![running[i]].state = "Preempted"]
        BY <1>4 DEF PreemptVictim, Preempted
    <2> QED
        BY <2>1, MemberFacts, LimitsStay DEF SeqState
<1>5. CASE RetireNext
    <2>1. pos \in DOMAIN running
        BY <1>5 DEF RetireNext, TypeOK
    <2>2. seqs' = [seqs EXCEPT ![running[pos]].state = "Finished"]
        BY <1>5 DEF RetireNext
    <2> QED
        BY <2>1, <2>2, MemberFacts, LimitsStay DEF SeqState
<1>6. ASSUME NEW token \in Token, NEW is_eos \in BOOLEAN,
             PushToken(token, is_eos), ~UNCHANGED seqs
      PROVE  h \in DOMAIN seqs' /\ Hopeless(h)'
    <2> DEFINE s == plan.decode_batch[pos]
    <2>1. seqs' = [seqs EXCEPT ![s] = Pushed(@, token, is_eos)]
        BY <1>6 DEF PushToken
    <2>2. s \in Reserved
        <3>1. pos \in DOMAIN plan.decode_batch /\ pc = "forward"
            BY <1>6 DEF PushToken, TypeOK, StepPlan
        <3> QED
            BY <3>1 DEF Reserved, TypeOK
    <2> HIDE DEF s
    <2>3. s /= h
        <3>1. TotalLen(s) < NumBlocks * BlockSize
            BY <2>2, ReservedRoom
        <3>2. TotalLen(h) \in Nat /\ NumBlocks * BlockSize \in Nat
            BY RequestNumbers, NumBlocksAssumption, BlockSizeAssumption
        <3> QED
            BY <3>1, <3>2 DEF Hopeless
    <2>4. h \in DOMAIN seqs' /\ seqs'[h] = seqs[h]
        BY <2>1, <2>3
    <2> QED
        BY <2>4 DEF Hopeless, Fits, TotalLen
<1> QED
    BY <1>1, <1>2, <1>3, <1>4, <1>5, <1>6
    DEF Next, SubmitAny, Schedule, Forward, StartSchedule, AdmitFails, AdmitStops,
        PreemptStops, CommitNext, CommitStops, KeepNext, RetireStops, EndStep, vars

-----------------------------------------------------------------------------
(* The theorems                                                            *)

\* The invariant holds at first, and every step preserves it.
LEMMA ProgressInvInductive ==
    /\ Init => ProgressInv
    /\ ProgressInv /\ [Next]_vars => ProgressInv'
<1>1. ASSUME Init
      PROVE  ProgressInv
    <2>1. IInv
        BY <1>1, InitEstablishes
    <2>2. pc = "idle" /\ DOMAIN seqs = {}
        BY <1>1 DEF Init
    <2> QED
        BY <2>1, <2>2 DEF ProgressInv, WithinLimits, RoomForRest, BatchBusy,
            CommitCovers, RetireWorks, StepWorks
<1>2. ASSUME ProgressInv, [Next]_vars
      PROVE  ProgressInv'
    <2>1. IInv'
        BY <1>2, NextPreserves DEF ProgressInv
    <2>2. WithinLimits' /\ RoomForRest' /\ BatchBusy'
        BY <1>2, <2>1, LimitsStep, RoomStep, BusyStep DEF ProgressInv
    <2>3. CommitCovers' /\ RetireWorks' /\ StepWorks'
        BY <1>2, CoversStep, RetireStep, ProgressStep DEF ProgressInv
    <2> QED
        BY <2>1, <2>2, <2>3 DEF ProgressInv
<1> QED
    BY <1>1, <1>2

\* It holds in every reachable state of the scheduler.
THEOREM ProgressInvariant == Spec => []ProgressInv
BY ProgressInvInductive, PTL DEF Spec

\* The branch of the commit loop marked "Should not happen after preemption"
\* (scheduler.rs:253-256) is dead code.
THEOREM CommitHasRoom == Spec => []CommitNeverFails
<1>1. ProgressInv => CommitNeverFails
    BY RoomSuffices DEF ProgressInv
<1> QED
    BY <1>1, ProgressInvariant, PTL

\* A schedule() that leaves work behind has decoded or retired something, if
\* every request fits the cache by itself and max_batch_size is positive
\* (scheduler.rs:172-274): no call of it is spent on nothing.
THEOREM NoStepIsWasted == Spec => []StepMakesProgress
<1>1. AllFit => NoneHopeless
    BY DEF AllFit, NoneHopeless, Hopeless
<1>2. ProgressInv => StepMakesProgress
    BY <1>1 DEF ProgressInv, StepWorks, StepMakesProgress, CanWork, Progress
<1> QED
    BY <1>2, ProgressInvariant, PTL
=============================================================================
