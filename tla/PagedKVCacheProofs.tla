------------------------- MODULE PagedKVCacheProofs -------------------------
(***************************************************************************)
(* The invariants of the paged cache, for every number of sequences and    *)
(* blocks, every block size and every sequence of calls.                   *)
(***************************************************************************)
EXTENDS PagedKVCache, KVCacheProofs

-----------------------------------------------------------------------------
(* The theorems                                                            *)

\* IInv is inductive: a new cache satisfies it and every call preserves it.
THEOREM Inductive == Spec => []IInv
<1>1. Init => IInv
    <2>1. NewCache.peak_blocks = 0 /\ UsedBlocks(NewCache) = 0
        BY NumBlocksAssumption DEF NewCache, UsedBlocks
    <2> QED
        BY <2>1, NewCacheSound, NumBlocksAssumption
           DEF Init, IInv, TypeOK, NoBlockShared, NoBlockLost, SlackBounded,
               PeakIsHighWater, PeakCovers, Result, Unit
<1>2. IInv /\ [Next]_vars => IInv'
    <2> SUFFICES ASSUME IInv, [Next]_vars
                 PROVE  IInv'
        OBVIOUS
    <2>1. CacheSound(cache) /\ PeakCovers(cache) /\ result \in Result
        BY DEF IInv, TypeOK, NoBlockShared, NoBlockLost, SlackBounded,
               PeakIsHighWater, CacheSound
    <2>2. SUFFICES CacheSound(cache') /\ PeakCovers(cache') /\ result' \in Result
        BY DEF IInv, TypeOK, NoBlockShared, NoBlockLost, SlackBounded,
               PeakIsHighWater, CacheSound
    <2>3. /\ FreeBlocks(cache) \in Nat /\ cache.peak_blocks \in Nat
          /\ cache.free_list \in Seq(Blocks)
        BY <2>1, CacheParts DEF CacheSound
    <2>4. ASSUME NEW s \in SeqIds, cache' = Free(cache, s)
          PROVE  CacheSound(cache') /\ PeakCovers(cache')
        <3>1. /\ CacheSound(cache')
              /\ cache'.peak_blocks = cache.peak_blocks
              /\ FreeBlocks(cache) <= FreeBlocks(cache')
            BY <2>1, <2>4, FreeSound
        <3>2. UsedBlocks(cache') \in 0 .. NumBlocks /\ FreeBlocks(cache') \in Nat
            BY <3>1, UsedIsNat, CacheParts DEF CacheSound
        <3> QED
            BY <2>1, <2>3, <3>1, <3>2, NumBlocksAssumption
               DEF PeakCovers, UsedBlocks, FreeBlocks
    <2>5. ASSUME NEW s \in SeqIds, AdmitSeq(s)
          PROVE  CacheSound(cache') /\ PeakCovers(cache') /\ result' \in Result
        BY <2>1, <2>5, AdmitSound
           DEF AdmitSeq, PeakCovers, UsedBlocks, Result, Unit
    <2>6. ASSUME NEW s \in SeqIds, AppendUnknown(s)
          PROVE  CacheSound(cache') /\ PeakCovers(cache') /\ result' \in Result
        BY <2>1, <2>6 DEF AppendUnknown, Result, UnknownSequence
    <2>7. ASSUME NEW s \in SeqIds, NEW count \in 0 .. MaxAppend,
                 AppendOutOfBlocks(s, count)
          PROVE  CacheSound(cache') /\ PeakCovers(cache') /\ result' \in Result
        <3>1. BlocksNeededFor(cache, s, count) \in Nat
            BY <2>1, <2>7, BlocksNeeded, MaxAppendAssumption
               DEF AppendOutOfBlocks, Known, CacheSound
        <3> QED
            BY <2>1, <2>3, <2>7, <3>1
               DEF AppendOutOfBlocks, OutOfBlocks, Result
    <2>8. ASSUME NEW s \in SeqIds, NEW count \in 0 .. MaxAppend,
                 AppendOk(s, count)
          PROVE  CacheSound(cache') /\ PeakCovers(cache') /\ result' \in Result
        <3>1. count \in Nat
            BY MaxAppendAssumption
        <3>2. /\ CacheSound(cache')
              /\ cache'.peak_blocks = IF UsedBlocks(cache') > cache.peak_blocks
                                      THEN UsedBlocks(cache')
                                      ELSE cache.peak_blocks
            BY <2>1, <2>8, <3>1, AppendSound DEF AppendOk
        <3>3. UsedBlocks(cache') \in 0 .. NumBlocks
            BY <3>2, UsedIsNat
        <3> QED
            BY <2>1, <2>3, <2>8, <3>2, <3>3, NumBlocksAssumption
               DEF AppendOk, PeakCovers, Ok, Result
    <2>9. ASSUME NEW s \in SeqIds, FreeSeq(s)
          PROVE  CacheSound(cache') /\ PeakCovers(cache') /\ result' \in Result
        BY <2>4, <2>9 DEF FreeSeq, Unit, Result
    <2>10. ASSUME NEW s \in SeqIds, EvictLargest(s)
           PROVE  CacheSound(cache') /\ PeakCovers(cache') /\ result' \in Result
        BY <2>4, <2>10 DEF EvictLargest, Evicted, Result
    <2>11. CASE UNCHANGED vars
        BY <2>1, <2>11 DEF vars
    <2> QED
        BY <2>5, <2>6, <2>7, <2>8, <2>9, <2>10, <2>11 DEF Next
<1> QED
    BY <1>1, <1>2, PTL DEF Spec

\* The state of the cache keeps its types (paged_cache.rs:78-88).
THEOREM TypeCorrect == Spec => []TypeOK
<1>1. IInv => TypeOK
    BY DEF IInv
<1> QED
    BY <1>1, Inductive, PTL

\* No physical block is ever in two places: two sequences never write into
\* each other's keys and values.
THEOREM BlocksNeverShared == Spec => []NoBlockShared
<1>1. IInv => NoBlockShared
    BY DEF IInv
<1> QED
    BY <1>1, Inductive, PTL

\* No physical block is ever lost: what is not in a table can be allocated.
THEOREM BlocksNeverLost == Spec => []NoBlockLost
<1>1. IInv => NoBlockLost
    BY DEF IInv
<1> QED
    BY <1>1, Inductive, PTL

\* Every sequence has between 0 and BlockSize - 1 unused slots.
THEOREM SlackIsBounded == Spec => []SlackBounded
<1>1. IInv => SlackBounded
    BY DEF IInv
<1> QED
    BY <1>1, Inductive, PTL

\* The count of used blocks never underflows and never passes the high-water
\* mark, nor that the size of the cache.
THEOREM PeakIsCorrect == Spec => []PeakIsHighWater
<1>1. IInv => PeakIsHighWater
    BY DEF IInv
<1> QED
    BY <1>1, Inductive, PTL

\* Under every call, and for every sequence that stays known, the tokens
\* stored stay in the blocks they were written to.
THEOREM StoredTokensStay == Spec => TablesOnlyGrow
<1> DEFINE Stay == \A s \in DOMAIN cache.tables \cap DOMAIN cache'.tables :
                        StoredStays(cache.tables[s], cache'.tables[s])
<1>1. IInv /\ [Next]_vars => [Stay]_vars
    <2> SUFFICES ASSUME IInv, Next
                 PROVE  Stay
        BY DEF vars
    <2>1. CacheSound(cache)
        BY DEF IInv, TypeOK, NoBlockShared, NoBlockLost, SlackBounded, CacheSound
    <2>2. ASSUME NEW t \in DOMAIN cache.tables,
                 t \in DOMAIN cache'.tables => cache'.tables[t] = cache.tables[t]
          PROVE  t \in DOMAIN cache'.tables =>
                    StoredStays(cache.tables[t], cache'.tables[t])
        <3>1. /\ cache.tables[t] = [blocks     |-> cache.tables[t].blocks,
                                    num_tokens |-> cache.tables[t].num_tokens]
              /\ cache.tables[t].blocks \in Seq(Blocks)
              /\ cache.tables[t].num_tokens \in Nat
            BY <2>1, CacheParts DEF CacheSound
        <3> QED
            BY <2>2, <3>1, TableStays
    <2>3. ASSUME NEW s \in SeqIds, AdmitSeq(s)
          PROVE  Stay
        BY <2>1, <2>2, <2>3, AdmitSound DEF AdmitSeq
    <2>4. ASSUME NEW s \in SeqIds, cache' = Free(cache, s)
          PROVE  Stay
        BY <2>1, <2>2, <2>4, FreeSound
    <2>5. ASSUME UNCHANGED cache
          PROVE  Stay
        BY <2>2, <2>5
    <2>6. ASSUME NEW s \in SeqIds, NEW count \in 0 .. MaxAppend,
                 AppendOk(s, count)
          PROVE  Stay
        <3>1. count \in Nat
            BY MaxAppendAssumption
        <3> QED
            BY <2>1, <2>6, <3>1, AppendStays DEF AppendOk
    <2> QED
        BY <2>3, <2>4, <2>5, <2>6
           DEF Next, AppendUnknown, AppendOutOfBlocks, FreeSeq, EvictLargest
<1> QED
    BY <1>1, Inductive, PTL DEF Spec, TablesOnlyGrow

-----------------------------------------------------------------------------
(* The refinement of TokenPool                                             *)

\* Rounding up has one result.
LEMMA CeilDivUnique ==
    ASSUME NEW n \in Nat, NEW size \in Nat \ {0}, NEW k \in Nat,
           k * size - n \in 0 .. size - 1
    PROVE  CeilDiv(n, size) = k
<1> DEFINE q == CeilDiv(n, size)
<1>1. q \in Nat /\ n <= q * size /\ q * size < n + size
    BY CeilDivBounds
<1>2. /\ q * size \in Nat /\ k * size \in Nat
      /\ (q + 1) * size = q * size + size /\ (k + 1) * size = k * size + size
    BY <1>1
<1>3. n <= k * size /\ k * size < n + size
    BY <1>2
<1> HIDE DEF q
<1>4. q * size < (k + 1) * size /\ k * size < (q + 1) * size
    BY <1>1, <1>2, <1>3
<1>5. q < k + 1 /\ k < q + 1
    <2>1. q + 1 \in Nat /\ k + 1 \in Nat
        BY <1>1
    <2> QED
        BY <1>1, <1>4, <2>1, ProductLess
<1>6. q = k
    BY <1>1, <1>5
<1> QED
    BY <1>6 DEF q

\* An interval of k numbers.
LEMMA IntervalSize ==
    ASSUME NEW a \in Nat, NEW k \in Nat
    PROVE  /\ IsFiniteSet((a + 1) .. (a + k))
           /\ Cardinality((a + 1) .. (a + k)) = k
<1>1. a + 1 \in Int /\ a + k \in Int
    OBVIOUS
<1>2. /\ IsFiniteSet((a + 1) .. (a + k))
      /\ Cardinality((a + 1) .. (a + k))
          = IF a + 1 > a + k THEN 0 ELSE (a + k) - (a + 1) + 1
    BY <1>1, FS_Interval
<1> QED
    BY <1>2

\* The pool counts as everybody does.
LEMMA PoolCardinality ==
    ASSUME NEW S
    PROVE  Pool!Cardinality(S) = Cardinality(S)
BY DEF Pool!Cardinality, Cardinality

Tokens(c) == [s \in DOMAIN c.tables |-> c.tables[s].num_tokens]

\* The cost of the tokens of a sequence is the blocks it has: Tight leaves no
\* other number.
LEMMA CostIsBlocks ==
    ASSUME NEW c, CacheSound(c), NEW s \in DOMAIN c.tables
    PROVE  /\ Pool!Cost(Tokens(c)[s]) = Len(c.tables[s].blocks)
           /\ Len(c.tables[s].blocks) \in Nat
<1> DEFINE n == c.tables[s].num_tokens
           b == Len(c.tables[s].blocks)
<1>1. n \in Nat /\ b \in Nat /\ Tokens(c)[s] = n
    BY CacheParts DEF CacheSound, Tokens
<1>2. b * BlockSize - n \in 0 .. BlockSize - 1
    BY DEF CacheSound, Tight, Slack, Capacity
<1>3. PICK k \in Nat, size \in Nat \ {0} : k = b /\ size = BlockSize
    BY <1>1, BlockSizeAssumption
<1>4. k * size - n \in 0 .. size - 1
    BY <1>2, <1>3
<1> HIDE DEF n, b
<1>5. CeilDiv(n, size) = k
    BY <1>1, <1>4, CeilDivUnique
<1> QED
    BY <1>1, <1>3, <1>5 DEF Pool!Cost, CeilDiv, n, b

\* The used blocks correspond to the shares of the sequences one to one, so
\* there are as many of the ones as of the others.
LEMMA SharesAreBlocks ==
    ASSUME NEW c, CacheSound(c)
    PROVE  /\ IsFiniteSet(Pool!Shares(Tokens(c)))
           /\ Pool!Used(Tokens(c)) = UsedBlocks(c)
<1> DEFINE free   == Range(c.free_list)
           shares == Pool!Shares(Tokens(c))
           block(p) == c.tables[p[1]].blocks[p[2]]
           f == [p \in shares |-> block(p)]
<1>1. /\ c.free_list \in Seq(Blocks) /\ IsInjective(c.free_list)
      /\ FreeBlocks(c) \in Nat
      /\ \A s \in DOMAIN c.tables : c.tables[s].blocks \in Seq(Blocks)
    BY CacheParts DEF CacheSound, NoSharing
<1>2. IsFiniteSet(Blocks) /\ Cardinality(Blocks) = NumBlocks
    BY NumBlocksAssumption, FS_Interval DEF Blocks
<1>3. IsFiniteSet(Blocks \ free) /\ Cardinality(Blocks \ free) = UsedBlocks(c)
    <2>1. IsFiniteSet(1 .. Len(c.free_list))
          /\ Cardinality(1 .. Len(c.free_list)) = Len(c.free_list)
        <3>1. PICK k \in Nat : k = Len(c.free_list)
            BY <1>1
        <3>2. 1 .. k = (0 + 1) .. (0 + k)
            OBVIOUS
        <3> QED
            BY <3>1, <3>2, IntervalSize
    <2>2. c.free_list \in Bijection(1 .. Len(c.free_list), free)
        <3>1. c.free_list \in [1 .. Len(c.free_list) -> free]
              /\ \A y \in free : \E x \in 1 .. Len(c.free_list) : c.free_list[x] = y
            BY <1>1 DEF Range
        <3> QED
            BY <1>1, <3>1 DEF Bijection, Injection, Surjection, IsInjective
    <2>3. ExistsBijection(1 .. Len(c.free_list), free)
        BY <2>2 DEF ExistsBijection
    <2>4. Cardinality(free) = Len(c.free_list)
        BY <2>1, <2>3, FS_Bijection
    <2>5. Blocks \cap free = free
        BY <1>1 DEF Range
    <2> HIDE DEF free
    <2>6. Cardinality(Blocks \ free)
            = Cardinality(Blocks) - Cardinality(Blocks \cap free)
        BY <1>2, FS_Difference
    <2> QED
        BY <1>2, <2>4, <2>5, <2>6, FS_Difference DEF UsedBlocks
<1>4. \A s \in DOMAIN c.tables :
        DOMAIN c.tables[s].blocks = 1 .. Pool!Cost(Tokens(c)[s])
    BY <1>1, CostIsBlocks
<1>5. shares = {p \in (DOMAIN c.tables) \X Nat :
                    p[2] \in DOMAIN c.tables[p[1]].blocks}
    <2>1. DOMAIN Tokens(c) = DOMAIN c.tables
        BY DEF Tokens
    <2>2. \A s \in DOMAIN c.tables : DOMAIN c.tables[s].blocks \subseteq Nat
        BY <1>1
    <2>3. shares = UNION {{s} \X (DOMAIN c.tables[s].blocks) : s \in DOMAIN c.tables}
        BY <1>4, <2>1 DEF Pool!Shares
    <2> QED
        BY <2>2, <2>3
<1>6. f \in Bijection(shares, Blocks \ free)
    <2> HIDE DEF shares
    <2>1. ASSUME NEW p \in shares
          PROVE  /\ block(p) \in Range(c.tables[p[1]].blocks)
                 /\ block(p) \in Blocks \ free
                 /\ p[1] \in DOMAIN c.tables
                 /\ p[2] \in DOMAIN c.tables[p[1]].blocks
        <3>1. PICK s \in DOMAIN c.tables, i \in Nat :
                p = <<s, i>> /\ i \in DOMAIN c.tables[s].blocks
            BY <1>5
        <3>2. block(p) = c.tables[s].blocks[i]
            BY <3>1
        <3>3. block(p) \in Range(c.tables[s].blocks) /\ block(p) \in Blocks
            BY <1>1, <3>1, <3>2 DEF Range
        <3>4. Range(c.tables[s].blocks) \cap free = {}
            BY DEF CacheSound, NoSharing
        <3> HIDE DEF block, free
        <3> QED
            BY <3>1, <3>3, <3>4
    <2>2. ASSUME NEW p \in shares, NEW q \in shares, block(p) = block(q)
          PROVE  p = q
        <3>1. p[1] = q[1]
            BY <2>1, <2>2 DEF CacheSound, NoSharing
        <3>2. p[2] = q[2]
            BY <2>1, <2>2, <3>1 DEF CacheSound, NoSharing, IsInjective
        <3> QED
            BY <1>5, <3>1, <3>2
    <2>3. ASSUME NEW b \in Blocks \ free
          PROVE  \E p \in shares : block(p) = b
        <3>1. PICK s \in DOMAIN c.tables : b \in Range(c.tables[s].blocks)
            BY DEF CacheSound, NoLeak
        <3>2. PICK i \in DOMAIN c.tables[s].blocks : c.tables[s].blocks[i] = b
            BY <3>1 DEF Range
        <3>3. <<s, i>> \in shares
            BY <1>1, <1>5, <3>2
        <3> QED
            BY <3>2, <3>3
    <2>4. f \in [shares -> Blocks \ free]
        BY <2>1
    <2>5. \A p \in shares : f[p] = block(p)
        OBVIOUS
    <2> HIDE DEF f, block, free
    <2>6. f \in Injection(shares, Blocks \ free)
        <3>1. \A p, q \in shares : f[p] = f[q] => p = q
            BY <2>2, <2>5
        <3> QED
            BY <2>4, <3>1 DEF Injection, IsInjective
    <2>7. f \in Surjection(shares, Blocks \ free)
        BY <2>3, <2>4, <2>5 DEF Surjection
    <2> QED
        BY <2>6, <2>7 DEF Bijection
<1>7. f \in Injection(shares, Blocks \ free) /\ f \in Surjection(shares, Blocks \ free)
    <2> HIDE DEF f, shares
    <2> QED
        BY <1>6 DEF Bijection
<1> HIDE DEF f, shares
<1>8. IsFiniteSet(shares) /\ Cardinality(shares) = UsedBlocks(c)
    BY <1>3, <1>7, FS_Injection
<1> QED
    BY <1>8, PoolCardinality DEF Pool!Used, shares

\* What count tokens more cost is what append asks for, whether it can have
\* it or not.
LEMMA GrowthIsNeed ==
    ASSUME NEW c, CacheSound(c), NEW s \in DOMAIN c.tables, NEW count \in Nat
    PROVE  Pool!Used([Tokens(c) EXCEPT ![s] = @ + count])
            = UsedBlocks(c) + BlocksNeededFor(c, s, count)
<1> DEFINE n     == c.tables[s].num_tokens
           b     == Len(c.tables[s].blocks)
           k     == BlocksNeededFor(c, s, count)
           grown == [Tokens(c) EXCEPT ![s] = @ + count]
           more  == {s} \X ((b + 1) .. (b + k))
<1>1. /\ n \in Nat /\ b \in Nat /\ Tokens(c)[s] = n
      /\ DOMAIN Tokens(c) = DOMAIN c.tables
    BY CacheParts DEF CacheSound, Tokens
<1>2. k \in Nat
    BY BlocksNeeded DEF CacheSound
<1>3. Pool!Cost(n) = b
    BY <1>1, CostIsBlocks
<1>4. Pool!Cost(n + count) = b + k
    <2>1. b * BlockSize - n + k * BlockSize - count \in 0 .. BlockSize - 1
        BY BlocksNeeded DEF CacheSound, Slack, Capacity
    <2>2. (b + k) * BlockSize = b * BlockSize + k * BlockSize
        BY <1>1, <1>2, Distributes
    <2>3. PICK m \in Nat, size \in Nat \ {0}, bs \in Nat, ks \in Nat :
            m = b + k /\ size = BlockSize /\ bs = b * BlockSize /\ ks = k * BlockSize
        <3> HIDE DEF b, k
        <3> QED
            BY <1>1, <1>2, BlockSizeAssumption
    <2> HIDE DEF n, b, k
    <2>4. m * size - (n + count) \in 0 .. size - 1
        BY <1>1, <2>1, <2>2, <2>3
    <2>5. CeilDiv(n + count, size) = m
        BY <1>1, <2>3, <2>4, CeilDivUnique
    <2> QED
        BY <2>3, <2>5 DEF Pool!Cost, CeilDiv
<1>5. Pool!Shares(grown) = Pool!Shares(Tokens(c)) \cup more
    <2>1. /\ DOMAIN grown = DOMAIN c.tables /\ grown[s] = n + count
          /\ \A t \in DOMAIN c.tables \ {s} : grown[t] = Tokens(c)[t]
        BY <1>1
    <2>2. 1 .. (b + k) = (1 .. b) \cup ((b + 1) .. (b + k))
        BY <1>1, <1>2
    <2> HIDE DEF grown, n, b, k
    <2> QED
        BY <1>1, <1>3, <1>4, <2>1, <2>2 DEF Pool!Shares
<1>6. Pool!Shares(Tokens(c)) \cap more = {}
    <2>1. (1 .. b) \cap ((b + 1) .. (b + k)) = {}
        BY <1>1, <1>2
    <2> HIDE DEF n, b, k
    <2> QED
        BY <1>1, <1>3, <2>1 DEF Pool!Shares
<1>7. IsFiniteSet(more) /\ Cardinality(more) = k
    <2>1. /\ IsFiniteSet((b + 1) .. (b + k))
          /\ Cardinality((b + 1) .. (b + k)) = k
        <3> HIDE DEF b, k
        <3> QED
            BY <1>1, <1>2, IntervalSize
    <2>2. IsFiniteSet({s}) /\ Cardinality({s}) = 1
        BY FS_Singleton
    <2>3. Cardinality(more) = 1 * k /\ IsFiniteSet(more)
        BY <2>1, <2>2, FS_Product, ZenonT(30)
    <2> QED
        BY <1>2, <2>3
<1>8. /\ IsFiniteSet(Pool!Shares(Tokens(c)))
      /\ Cardinality(Pool!Shares(Tokens(c))) = UsedBlocks(c)
      /\ UsedBlocks(c) \in Nat
    <2>1. UsedBlocks(c) \in 0 .. NumBlocks
        BY UsedIsNat
    <2> QED
        BY <2>1, SharesAreBlocks, PoolCardinality DEF Pool!Used
<1>9. Cardinality({}) = 0
    BY FS_EmptySet
<1> HIDE DEF more, k, grown
<1>10. Cardinality(Pool!Shares(grown)) = UsedBlocks(c) + k
    <2>1. PICK S, T : S = Pool!Shares(Tokens(c)) /\ T = more
        OBVIOUS
    <2>2. /\ IsFiniteSet(S) /\ IsFiniteSet(T) /\ Cardinality(S \cap T) = 0
          /\ Cardinality(S) = UsedBlocks(c) /\ Cardinality(T) = k
        BY <1>6, <1>7, <1>8, <1>9, <2>1
    <2>3. Cardinality(S \cup T)
            = Cardinality(S) + Cardinality(T) - Cardinality(S \cap T)
        BY <2>2, FS_Union
    <2> QED
        BY <1>2, <1>5, <1>8, <2>1, <2>2, <2>3
<1> QED
    BY <1>10, PoolCardinality DEF Pool!Used, grown, k

\* Every call of the cache is the pool's call, with the same answer.
LEMMA PoolStepMaps ==
    ASSUME CacheSound(cache), [Next]_vars
    PROVE  [Pool!Next]_(Pool!vars)
<1> DEFINE tokens == Tokens(cache)
<1>1. /\ DOMAIN tokens = DOMAIN cache.tables
      /\ \A s \in DOMAIN cache.tables : tokens[s] = cache.tables[s].num_tokens
      /\ tokens = [s \in DOMAIN cache.tables |-> cache.tables[s].num_tokens]
      /\ tokens' = [s \in DOMAIN cache'.tables |-> cache'.tables[s].num_tokens]
    BY DEF Tokens
<1>2. ASSUME NEW s \in SeqIds, AdmitSeq(s)
      PROVE  Pool!Admit(s)
    <2>1. /\ cache'.peak_blocks = cache.peak_blocks
          /\ DOMAIN cache'.tables = DOMAIN cache.tables \cup {s}
          /\ \A t \in DOMAIN cache.tables : cache'.tables[t] = cache.tables[t]
          /\ s \notin DOMAIN cache.tables => cache'.tables[s].num_tokens = 0
        BY <1>2, AdmitSound DEF AdmitSeq, EmptyTable
    <2>2. tokens' = [t \in DOMAIN tokens \cup {s} |->
                        IF t \in DOMAIN tokens THEN tokens[t] ELSE 0]
        BY <1>1, <2>1
    <2> QED
        BY <1>1, <1>2, <2>1, <2>2 DEF Pool!Admit, AdmitSeq, Unit
<1>3. ASSUME NEW s \in SeqIds, AppendUnknown(s)
      PROVE  Pool!GrowUnknown(s)
    BY <1>1, <1>3 DEF Pool!GrowUnknown, AppendUnknown, Known, UnknownSequence
<1>4. ASSUME NEW s \in DOMAIN cache.tables
      PROVE  /\ FreeBlocks(cache) \in Nat /\ UsedBlocks(cache) \in 0 .. NumBlocks
             /\ FreeBlocks(cache) = NumBlocks - UsedBlocks(cache)
             /\ Pool!Used(tokens) = UsedBlocks(cache)
    <2>1. FreeBlocks(cache) \in Nat
        BY CacheParts DEF CacheSound
    <2>2. FreeBlocks(cache) = NumBlocks - UsedBlocks(cache)
        BY <2>1, NumBlocksAssumption DEF FreeBlocks, UsedBlocks
    <2> QED
        BY <2>1, <2>2, UsedIsNat, SharesAreBlocks
<1>5. ASSUME NEW s \in SeqIds, NEW count \in 0 .. MaxAppend,
             AppendOutOfBlocks(s, count) \/ AppendOk(s, count)
      PROVE  Pool!Grow(s, count)
    <2> DEFINE grown == [tokens EXCEPT ![s] = @ + count]
               k     == BlocksNeededFor(cache, s, count)
    <2>1. s \in DOMAIN cache.tables /\ count \in Nat
        BY <1>5, MaxAppendAssumption DEF AppendOutOfBlocks, AppendOk, CanAppend, Known
    <2>2. k \in Nat
        BY <2>1, BlocksNeeded DEF CacheSound
    <2>3. Pool!Used(grown) = UsedBlocks(cache) + k
        BY <2>1, GrowthIsNeed
    <2>4. CanAppend(cache, s, count) <=> Pool!Used(grown) <= NumBlocks
        <3> HIDE DEF k, tokens
        <3>1. k <= FreeBlocks(cache) <=> UsedBlocks(cache) + k <= NumBlocks
            BY <1>4, <2>1, <2>2, NumBlocksAssumption
        <3> QED
            BY <2>1, <2>3, <3>1 DEF CanAppend, Known, k
    <2>5. CASE CanAppend(cache, s, count)
        <3>1. AppendOk(s, count)
            BY <1>5, <2>5 DEF AppendOutOfBlocks
        <3>2. /\ DOMAIN cache'.tables = DOMAIN cache.tables
              /\ \A t \in DOMAIN cache.tables :
                    t /= s => cache'.tables[t] = cache.tables[t]
              /\ cache'.tables[s].num_tokens = cache.tables[s].num_tokens + count
            <4>1. cache' = AppendTokens(cache, s, count)
                BY <3>1 DEF AppendOk
            <4>2. cache'.tables[s] =
                    [blocks     |-> cache.tables[s].blocks \o Popped(cache, k),
                     num_tokens |-> cache.tables[s].num_tokens + count]
                BY <2>1, <4>1, AppendTables
            <4>3. cache'.tables[s].num_tokens = cache.tables[s].num_tokens + count
                BY <4>2
            <4> QED
                BY <2>1, <4>1, <4>3, AppendTables
        <3>3. tokens' = grown
            BY <1>1, <2>1, <3>2
        <3>4. /\ CacheSound(cache')
              /\ cache'.peak_blocks = IF UsedBlocks(cache') > cache.peak_blocks
                                      THEN UsedBlocks(cache')
                                      ELSE cache.peak_blocks
            BY <2>1, <3>1, AppendSound DEF AppendOk
        <3>5. Pool!Used(Tokens(cache')) = UsedBlocks(cache')
            BY <3>4, SharesAreBlocks
        <3>6. cache'.peak_blocks = Pool!Raise(Pool!Used(grown))
            BY <3>3, <3>4, <3>5 DEF Pool!Raise, Tokens
        <3>7. result' = [kind |-> "Ok"]
            BY <3>1 DEF AppendOk, Ok
        <3> QED
            BY <1>1, <2>1, <2>4, <2>5, <3>3, <3>6, <3>7 DEF Pool!Grow
    <2>6. CASE ~CanAppend(cache, s, count)
        <3>1. AppendOutOfBlocks(s, count)
            BY <1>5, <2>6 DEF AppendOk
        <3>2. /\ cache' = cache
              /\ result' = [kind |-> "OutOfBlocks", needed |-> k,
                            free |-> FreeBlocks(cache)]
            BY <3>1 DEF AppendOutOfBlocks, OutOfBlocks
        <3>3. /\ k = Pool!Used(grown) - Pool!Used(tokens)
              /\ FreeBlocks(cache) = NumBlocks - Pool!Used(tokens)
            <4> HIDE DEF k, tokens
            <4> QED
                BY <1>4, <2>1, <2>2, <2>3, NumBlocksAssumption
        <3>4. tokens' = tokens
            BY <3>2 DEF Tokens
        <3> QED
            BY <1>1, <2>1, <2>4, <2>6, <3>2, <3>3, <3>4 DEF Pool!Grow
    <2> QED
        BY <2>5, <2>6
<1>6. ASSUME NEW s \in SeqIds, cache' = Free(cache, s)
      PROVE  /\ tokens' = Pool!Restrict(tokens, DOMAIN tokens \ {s})
             /\ cache'.peak_blocks = cache.peak_blocks
    <2>1. /\ cache'.peak_blocks = cache.peak_blocks
          /\ DOMAIN cache'.tables = DOMAIN cache.tables \ {s}
          /\ \A t \in DOMAIN cache.tables \ {s} : cache'.tables[t] = cache.tables[t]
        BY <1>6, FreeSound
    <2> QED
        BY <1>1, <2>1 DEF Pool!Restrict
<1>7. ASSUME NEW s \in SeqIds, FreeSeq(s)
      PROVE  Pool!Forget(s)
    BY <1>1, <1>6, <1>7 DEF Pool!Forget, FreeSeq, Unit
<1>8. ASSUME NEW s \in SeqIds, EvictLargest(s)
      PROVE  Pool!Evict(s)
    <2>1. /\ s \in DOMAIN cache.tables
          /\ \A t \in DOMAIN cache.tables :
                Pool!Cost(tokens[t]) <= Pool!Cost(tokens[s])
        BY <1>8, CostIsBlocks DEF EvictLargest, LargestSeqs
    <2> QED
        BY <1>1, <1>6, <1>8, <2>1 DEF Pool!Evict, EvictLargest, Evicted
<1>9. CASE UNCHANGED vars
    <2>1. cache' = cache /\ result' = result
        BY <1>9 DEF vars
    <2>2. tokens' = tokens
        BY <2>1 DEF Tokens
    <2> QED
        BY <1>1, <2>1, <2>2 DEF Pool!vars
<1> QED
    BY <1>2, <1>3, <1>5, <1>7, <1>8, <1>9 DEF Next, Pool!Next

\* The paged cache is a pool that only counts tokens: where the blocks lie
\* never decides whether an append succeeds, nor what it answers.
THEOREM IsTokenPool == Spec => ImplementsTokenPool
<1>1. Init => Pool!Init
    <2> SUFFICES ASSUME Init
                 PROVE  Pool!Init
        OBVIOUS
    <2>1. cache.tables = <<>> /\ cache.peak_blocks = 0 /\ result = [kind |-> "Unit"]
        BY DEF Init, NewCache, Unit
    <2>2. [s \in DOMAIN cache.tables |-> cache.tables[s].num_tokens] = <<>>
        BY <2>1
    <2> QED
        BY <2>1, <2>2 DEF Pool!Init
<1>2. IInv /\ [Next]_vars => [Pool!Next]_(Pool!vars)
    BY PoolStepMaps DEF IInv, TypeOK, NoBlockShared, NoBlockLost, SlackBounded, CacheSound
<1> QED
    BY <1>1, <1>2, Inductive, PTL DEF Spec, ImplementsTokenPool, Pool!Spec
=============================================================================
