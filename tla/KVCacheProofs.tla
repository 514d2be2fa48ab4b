--------------------------- MODULE KVCacheProofs ---------------------------
(***************************************************************************)
(* Lemmas about the operators of KVCache, for every number of sequences    *)
(* and blocks and every block size: what each call does to a sound cache.  *)
(***************************************************************************)
EXTENDS KVCache, FiniteSetTheorems, TLAPS

-----------------------------------------------------------------------------
(* The arithmetic of blocks and tokens                                     *)

\* usize::div_ceil is the least number of blocks that hold n tokens.
LEMMA CeilDivBounds ==
    ASSUME NEW n \in Nat, NEW d \in Nat \ {0}
    PROVE  /\ CeilDiv(n, d) \in Nat
           /\ n <= CeilDiv(n, d) * d
           /\ CeilDiv(n, d) * d < n + d
BY DEF CeilDiv

\* Fewer slots, fewer blocks.
LEMMA ProductLess ==
    ASSUME NEW d \in Nat \ {0}, NEW k \in Nat, NEW q \in Nat, k * d < q * d
    PROVE  k < q
<1>1. ASSUME k >= q
      PROVE  FALSE
    <2>1. PICK r \in Nat : r = k - q
        BY <1>1
    <2>2. k = r + q /\ (r + q) * d = r * d + q * d /\ r * d \in Nat
        BY <1>1, <2>1
    <2>3. k * d \in Nat /\ q * d \in Nat /\ k * d = r * d + q * d
        BY <2>2
    <2> QED
        BY <2>2, <2>3
<1> QED
    BY <1>1

\* Adding k blocks to n of them adds k * BlockSize slots.
LEMMA Distributes ==
    ASSUME NEW n \in Nat, NEW k \in Nat
    PROVE  (n + k) * BlockSize = n * BlockSize + k * BlockSize
BY BlockSizeAssumption

\* The parts of a cache have their types.
LEMMA CacheParts ==
    ASSUME NEW c, IsCache(c)
    PROVE  /\ c.free_list \in Seq(Blocks)
           /\ FreeBlocks(c) \in Nat
           /\ c.peak_blocks \in Nat
           /\ \A s \in DOMAIN c.tables :
                /\ c.tables[s] = [blocks     |-> c.tables[s].blocks,
                                  num_tokens |-> c.tables[s].num_tokens]
                /\ c.tables[s].blocks \in Seq(Blocks)
                /\ Len(c.tables[s].blocks) \in Nat
                /\ c.tables[s].num_tokens \in Nat
BY DEF IsCache, BlockTable, FreeBlocks

\* blocks_needed_for asks for enough blocks to hold the extra tokens, and for
\* no block more than that.
LEMMA BlocksNeeded ==
    ASSUME NEW c, IsCache(c), Tight(c),
           NEW s \in DOMAIN c.tables, NEW extra \in Nat
    PROVE  LET k == BlocksNeededFor(c, s, extra)
           IN  /\ k \in Nat
               /\ Slack(c.tables[s]) + k * BlockSize - extra \in 0 .. BlockSize - 1
<1> DEFINE slack == Slack(c.tables[s])
           k     == BlocksNeededFor(c, s, extra)
<1>1. slack \in 0 .. BlockSize - 1 /\ BlockSize \in Nat \ {0}
    BY BlockSizeAssumption DEF Tight
<1>2. CASE extra <= slack
    <2>1. k = 0
        BY <1>2 DEF BlocksNeededFor, Known
    <2>2. k * BlockSize = 0
        BY <2>1, <1>1
    <2> HIDE DEF slack, k
    <2> QED
        BY <1>1, <1>2, <2>1, <2>2 DEF slack, k
<1>3. CASE ~(extra <= slack)
    <2>1. k = CeilDiv(extra - slack, BlockSize)
        BY <1>3 DEF BlocksNeededFor, Known
    <2> HIDE DEF slack, k
    <2>2. extra - slack \in Nat
        BY <1>1, <1>3
    <2>3. /\ k \in Nat
          /\ extra - slack <= k * BlockSize
          /\ k * BlockSize < extra - slack + BlockSize
        BY <1>1, <2>1, <2>2, CeilDivBounds
    <2>4. k * BlockSize \in Nat
        BY <1>1, <2>3
    <2> QED
        BY <1>1, <2>2, <2>3, <2>4 DEF slack, k
<1> QED
    BY <1>2, <1>3

-----------------------------------------------------------------------------
(* Sequences of blocks                                                     *)

\* Concatenation adds up the elements, and repeats none if the parts repeat
\* none and share none.
LEMMA ConcatFacts ==
    ASSUME NEW S, NEW u \in Seq(S), NEW v \in Seq(S)
    PROVE  /\ u \o v \in Seq(S)
           /\ Len(u \o v) = Len(u) + Len(v)
           /\ Range(u \o v) = Range(u) \cup Range(v)
           /\ IsInjective(u) /\ IsInjective(v) /\ Range(u) \cap Range(v) = {}
                => IsInjective(u \o v)
<1>1. /\ u \o v \in Seq(S)
      /\ Len(u \o v) = Len(u) + Len(v)
      /\ Len(u) \in Nat /\ Len(v) \in Nat
      /\ DOMAIN u = 1 .. Len(u) /\ DOMAIN v = 1 .. Len(v)
      /\ DOMAIN (u \o v) = 1 .. Len(u) + Len(v)
      /\ \A i \in 1 .. Len(u) : (u \o v)[i] = u[i]
      /\ \A i \in 1 .. Len(v) : (u \o v)[Len(u) + i] = v[i]
    OBVIOUS
<1>2. \A i \in DOMAIN (u \o v) :
        \/ i \in DOMAIN u /\ (u \o v)[i] = u[i]
        \/ i - Len(u) \in DOMAIN v /\ (u \o v)[i] = v[i - Len(u)]
    <2>1. ASSUME NEW i \in DOMAIN (u \o v), i \notin DOMAIN u
          PROVE  i - Len(u) \in DOMAIN v /\ i = Len(u) + (i - Len(u))
        BY <1>1, <2>1
    <2> QED
        BY <1>1, <2>1
<1>3. Range(u \o v) = Range(u) \cup Range(v)
    <2>1. Range(u \o v) \subseteq Range(u) \cup Range(v)
        BY <1>2 DEF Range
    <2>2. Range(u) \subseteq Range(u \o v)
        BY <1>1 DEF Range
    <2>3. ASSUME NEW i \in DOMAIN v
          PROVE  v[i] \in Range(u \o v)
        <3>1. Len(u) + i \in DOMAIN (u \o v) /\ (u \o v)[Len(u) + i] = v[i]
            BY <1>1
        <3> QED
            BY <3>1 DEF Range
    <2> QED
        BY <2>1, <2>2, <2>3 DEF Range
<1>4. ASSUME IsInjective(u), IsInjective(v), Range(u) \cap Range(v) = {}
      PROVE  IsInjective(u \o v)
    <2> DEFINE w == u \o v
    <2>1. ASSUME NEW i \in DOMAIN w, NEW j \in DOMAIN w, w[i] = w[j]
          PROVE  i = j
        <3>1. CASE i \in DOMAIN u /\ j \in DOMAIN u
            BY <1>1, <1>4, <2>1, <3>1 DEF IsInjective
        <3>2. CASE i \notin DOMAIN u /\ j \notin DOMAIN u
            <4>1. i - Len(u) = j - Len(u)
                BY <1>2, <1>4, <2>1, <3>2 DEF IsInjective
            <4> QED
                BY <1>1, <2>1, <4>1
        <3>3. CASE i \in DOMAIN u /\ j \notin DOMAIN u
            <4>1. w[i] = u[i] /\ w[j] = v[j - Len(u)] /\ j - Len(u) \in DOMAIN v
                BY <1>1, <1>2, <2>1, <3>3
            <4>2. w[i] \in Range(u) /\ w[j] \in Range(v)
                BY <3>3, <4>1 DEF Range
            <4> QED
                BY <1>4, <2>1, <4>2
        <3>4. CASE i \notin DOMAIN u /\ j \in DOMAIN u
            <4>1. w[j] = u[j] /\ w[i] = v[i - Len(u)] /\ i - Len(u) \in DOMAIN v
                BY <1>1, <1>2, <2>1, <3>4
            <4>2. w[j] \in Range(u) /\ w[i] \in Range(v)
                BY <3>4, <4>1 DEF Range
            <4> QED
                BY <1>4, <2>1, <4>2
        <3> QED
            BY <3>1, <3>2, <3>3, <3>4
    <2> QED
        BY <2>1 DEF IsInjective
<1> QED
    BY <1>1, <1>3, <1>4

\* Popping k blocks takes the last k of the free list, each once, and leaves
\* the others where they are.
LEMMA PopFacts ==
    ASSUME NEW c, IsCache(c), IsInjective(c.free_list),
           NEW k \in 0 .. FreeBlocks(c)
    PROVE  LET out  == Popped(c, k)
               left == SubSeq(c.free_list, 1, FreeBlocks(c) - k)
           IN  /\ out \in Seq(Blocks) /\ Len(out) = k
               /\ left \in Seq(Blocks) /\ Len(left) = FreeBlocks(c) - k
               /\ IsInjective(out) /\ IsInjective(left)
               /\ Range(out) \cap Range(left) = {}
               /\ Range(out) \cup Range(left) = Range(c.free_list)
<1> DEFINE f    == c.free_list
           n    == Len(f)
           out  == Popped(c, k)
           left == SubSeq(f, 1, n - k)
<1>1. f \in Seq(Blocks) /\ n \in Nat /\ DOMAIN f = 1 .. n /\ k \in 0 .. n
    BY CacheParts DEF FreeBlocks
<1>2. /\ DOMAIN out = 1 .. k
      /\ \A i \in 1 .. k : n - i + 1 \in 1 .. n /\ out[i] = f[n - i + 1]
    BY <1>1 DEF Popped
<1>3. out \in Seq(Blocks) /\ Len(out) = k
    <2>1. \A i \in 1 .. k : out[i] \in Blocks
        BY <1>1, <1>2
    <2>2. out = [i \in 1 .. k |-> f[n - i + 1]]
        BY DEF Popped
    <2> HIDE DEF out
    <2> QED
        BY <1>1, <2>1, <2>2
<1>4. /\ left \in Seq(Blocks) /\ Len(left) = n - k /\ DOMAIN left = 1 .. n - k
      /\ \A i \in 1 .. n - k : left[i] = f[i]
    BY <1>1
<1> HIDE DEF f, n, out, left
<1>5. IsInjective(f)
    BY DEF f
<1>6. IsInjective(out) /\ IsInjective(left)
    BY <1>1, <1>2, <1>4, <1>5, SMTT(20) DEF IsInjective
<1>7. Range(out) \cap Range(left) = {}
    <2>1. ASSUME NEW i \in 1 .. k, NEW j \in 1 .. n - k
          PROVE  out[i] /= left[j]
        BY <1>1, <1>2, <1>4, <1>5, SMTT(20) DEF IsInjective
    <2> QED
        BY <1>2, <1>4, <2>1 DEF Range
<1>8. Range(out) \cup Range(left) = Range(f)
    <2>1. Range(out) \cup Range(left) \subseteq Range(f)
        <3>1. \A i \in 1 .. k : out[i] \in Range(f)
            BY <1>1, <1>2 DEF Range
        <3>2. \A i \in 1 .. n - k : left[i] \in Range(f)
            BY <1>1, <1>4 DEF Range
        <3> QED
            BY <1>2, <1>4, <3>1, <3>2 DEF Range
    <2>2. ASSUME NEW i \in 1 .. n
          PROVE  f[i] \in Range(out) \cup Range(left)
        <3>1. CASE i <= n - k
            BY <1>1, <1>4, <3>1 DEF Range
        <3>2. CASE i > n - k
            <4>1. n - i + 1 \in 1 .. k /\ n - (n - i + 1) + 1 = i
                BY <1>1, <3>2
            <4>2. out[n - i + 1] = f[i]
                BY <1>2, <4>1
            <4> QED
                BY <1>2, <4>1, <4>2 DEF Range
        <3> QED
            BY <1>1, <3>1, <3>2
    <2> QED
        BY <1>1, <2>1, <2>2 DEF Range
<1> QED
    BY <1>3, <1>4, <1>6, <1>7, <1>8 DEF f, n, out, left, FreeBlocks

\* A sequence that repeats no block is no longer than there are blocks.
LEMMA NoLongerThanBlocks ==
    ASSUME NEW f \in Seq(Blocks), IsInjective(f)
    PROVE  Len(f) <= NumBlocks
<1>1. DOMAIN f = 1 .. Len(f) /\ Len(f) \in Nat
    OBVIOUS
<1>2. IsFiniteSet(Blocks) /\ Cardinality(Blocks) = NumBlocks
    BY NumBlocksAssumption, FS_Interval DEF Blocks
<1>3. Cardinality(1 .. Len(f)) = Len(f)
    BY <1>1, FS_Interval
<1>4. f \in Injection(1 .. Len(f), Blocks)
    BY <1>1 DEF IsInjective, Injection
<1> QED
    BY <1>2, <1>3, <1>4, FS_Injection

-----------------------------------------------------------------------------
(* What one call leaves                                                    *)

\* A new cache is empty and whole.
LEMMA NewCacheSound ==
    /\ IsCache(NewCache)
    /\ NoSharing(NewCache)
    /\ NoLeak(NewCache)
    /\ Tight(NewCache)
<1>1. NewCache.free_list \in Seq(Blocks)
    BY NumBlocksAssumption DEF NewCache, Blocks
<1>2. DOMAIN NewCache.tables = {}
    BY DEF NewCache
<1>3. NewCache.tables \in [DOMAIN NewCache.tables -> BlockTable]
    BY DEF NewCache
<1>4. IsCache(NewCache)
    BY <1>1, <1>2, <1>3 DEF NewCache, IsCache
<1>5. IsInjective(NewCache.free_list)
    BY NumBlocksAssumption DEF NewCache, IsInjective
<1>6. Range(NewCache.free_list) = Blocks
    <2>1. ASSUME NEW b \in Blocks
          PROVE  b \in Range(NewCache.free_list)
        <3>1. b + 1 \in 1 .. NumBlocks /\ NewCache.free_list[b + 1] = b
            BY NumBlocksAssumption DEF NewCache, Blocks
        <3> QED
            BY <3>1 DEF NewCache, Range
    <2>2. Range(NewCache.free_list) \subseteq Blocks
        BY NumBlocksAssumption DEF NewCache, Blocks, Range
    <2> QED
        BY <2>1, <2>2
<1> QED
    BY <1>2, <1>4, <1>5, <1>6 DEF NoSharing, NoLeak, Tight

\* The block count of a sound cache does not underflow.
LEMMA UsedIsNat ==
    ASSUME NEW c, CacheSound(c)
    PROVE  UsedBlocks(c) \in 0 .. NumBlocks
BY CacheParts, NoLongerThanBlocks, NumBlocksAssumption
   DEF CacheSound, NoSharing, UsedBlocks, FreeBlocks

\* Admitting a sequence leaves a sound cache, and takes no block.
LEMMA AdmitSound ==
    ASSUME NEW c, CacheSound(c), NEW s \in SeqIds
    PROVE  /\ CacheSound(Admit(c, s))
           /\ Admit(c, s).free_list = c.free_list
           /\ Admit(c, s).peak_blocks = c.peak_blocks
           /\ DOMAIN Admit(c, s).tables = DOMAIN c.tables \cup {s}
           /\ \A t \in DOMAIN c.tables : Admit(c, s).tables[t] = c.tables[t]
           /\ s \notin DOMAIN c.tables => Admit(c, s).tables[s] = EmptyTable
<1> DEFINE d == Admit(c, s)
<1>1. c = [free_list |-> c.free_list, tables |-> c.tables,
           peak_blocks |-> c.peak_blocks]
    BY DEF CacheSound, IsCache
<1>2. d = [free_list   |-> c.free_list,
           tables      |-> [t \in DOMAIN c.tables \cup {s} |->
                                IF Known(c, t) THEN c.tables[t] ELSE EmptyTable],
           peak_blocks |-> c.peak_blocks]
    BY <1>1 DEF Admit
<1> HIDE DEF d
<1>3. /\ d.free_list = c.free_list
      /\ d.peak_blocks = c.peak_blocks
      /\ DOMAIN d.tables = DOMAIN c.tables \cup {s}
      /\ \A t \in DOMAIN c.tables : d.tables[t] = c.tables[t]
      /\ s \notin DOMAIN c.tables => d.tables[s] = EmptyTable
    BY <1>2 DEF Known
<1>4. IsCache(d)
    <2>1. EmptyTable \in BlockTable
        BY DEF EmptyTable, BlockTable
    <2>2. d.tables \in [DOMAIN d.tables -> BlockTable]
        BY <1>2, <1>3, <2>1 DEF CacheSound, IsCache, Known
    <2> QED
        BY <1>2, <1>3, <2>2 DEF CacheSound, IsCache
<1>5. Range(EmptyTable.blocks) = {} /\ IsInjective(EmptyTable.blocks)
    BY DEF EmptyTable, Range, IsInjective
<1>6. NoSharing(d)
    BY <1>3, <1>5 DEF CacheSound, NoSharing
<1>7. NoLeak(d)
    BY <1>3, <1>5 DEF CacheSound, NoLeak
<1>8. Tight(d)
    <2>1. Slack(EmptyTable) \in 0 .. BlockSize - 1
        BY BlockSizeAssumption DEF EmptyTable, Slack, Capacity
    <2> QED
        BY <1>3, <2>1 DEF CacheSound, Tight
<1> QED
    BY <1>3, <1>4, <1>6, <1>7, <1>8 DEF d, CacheSound

\* Freeing a sequence, known or not, leaves a sound cache that uses no more
\* blocks than before.
LEMMA FreeSound ==
    ASSUME NEW c, CacheSound(c), NEW s
    PROVE  /\ CacheSound(Free(c, s))
           /\ Free(c, s).peak_blocks = c.peak_blocks
           /\ FreeBlocks(c) <= FreeBlocks(Free(c, s))
           /\ DOMAIN Free(c, s).tables = DOMAIN c.tables \ {s}
           /\ \A t \in DOMAIN c.tables \ {s} :
                Free(c, s).tables[t] = c.tables[t]
<1>1. CASE ~Known(c, s)
    BY <1>1, CacheParts DEF CacheSound, Free, Known
<1>2. CASE Known(c, s)
    <2> DEFINE d == Free(c, s)
               b == c.tables[s].blocks
    <2>1. d = [free_list   |-> c.free_list \o b,
               tables      |-> [t \in DOMAIN c.tables \ {s} |-> c.tables[t]],
               peak_blocks |-> c.peak_blocks]
        BY <1>2 DEF CacheSound, IsCache, Free, Restrict
    <2>2. b \in Seq(Blocks) /\ c.free_list \in Seq(Blocks)
        BY <1>2, CacheParts DEF CacheSound, Known
    <2>3. IsInjective(c.free_list) /\ IsInjective(b)
          /\ Range(c.free_list) \cap Range(b) = {}
        BY <1>2 DEF CacheSound, NoSharing, Known
    <2> HIDE DEF d, b
    <2>4. /\ d.free_list = c.free_list \o b
          /\ DOMAIN d.tables = DOMAIN c.tables \ {s}
          /\ \A t \in DOMAIN d.tables : d.tables[t] = c.tables[t]
        BY <2>1
    <2>5. /\ d.free_list \in Seq(Blocks)
          /\ IsInjective(d.free_list)
          /\ Range(d.free_list) = Range(c.free_list) \cup Range(b)
        BY <2>2, <2>3, <2>4, ConcatFacts
    <2>6. IsCache(d)
        <3>1. d.tables \in [DOMAIN d.tables -> BlockTable]
            BY <2>1, <2>4 DEF CacheSound, IsCache
        <3> QED
            BY <2>1, <2>4, <2>5, <3>1 DEF CacheSound, IsCache
    <2>7. NoSharing(d)
        BY <1>2, <2>4, <2>5 DEF CacheSound, NoSharing, Known, b
    <2>8. NoLeak(d)
        BY <1>2, <2>4, <2>5 DEF CacheSound, NoLeak, Known, b
    <2>9. Tight(d)
        BY <2>4 DEF CacheSound, Tight
    <2>10. FreeBlocks(c) <= FreeBlocks(d)
        <3>1. Len(c.free_list \o b) = Len(c.free_list) + Len(b) /\ Len(b) \in Nat
              /\ Len(c.free_list) \in Nat
            BY <2>2
        <3> QED
            BY <2>4, <3>1 DEF FreeBlocks
    <2> QED
        BY <2>1, <2>4, <2>6, <2>7, <2>8, <2>9, <2>10 DEF d, CacheSound
<1> QED
    BY <1>1, <1>2

\* An append changes the table of its sequence only: blocks are added behind
\* the ones it has.
LEMMA AppendTables ==
    ASSUME NEW c, NEW s \in DOMAIN c.tables, NEW count
    PROVE  /\ DOMAIN AppendTokens(c, s, count).tables = DOMAIN c.tables
           /\ \A t \in DOMAIN c.tables :
                t /= s => AppendTokens(c, s, count).tables[t] = c.tables[t]
           /\ AppendTokens(c, s, count).tables[s] =
                [blocks |-> c.tables[s].blocks
                            \o Popped(c, BlocksNeededFor(c, s, count)),
                 num_tokens |-> c.tables[s].num_tokens + count]
BY DEF AppendTokens

\* A successful append leaves a sound cache, and takes just the blocks asked
\* for; the high-water mark moves up to the new use.
LEMMA AppendSound ==
    ASSUME NEW c, CacheSound(c), NEW s, NEW count \in Nat,
           CanAppend(c, s, count)
    PROVE  LET d == AppendTokens(c, s, count)
               k == BlocksNeededFor(c, s, count)
           IN  /\ CacheSound(d)
               /\ FreeBlocks(d) = FreeBlocks(c) - k
               /\ d.peak_blocks = IF UsedBlocks(d) > c.peak_blocks
                                  THEN UsedBlocks(d) ELSE c.peak_blocks
<1> DEFINE d     == AppendTokens(c, s, count)
           k     == BlocksNeededFor(c, s, count)
           left  == SubSeq(c.free_list, 1, FreeBlocks(c) - k)
           out   == Popped(c, k)
           old   == c.tables[s].blocks
           table == [blocks     |-> old \o out,
                     num_tokens |-> c.tables[s].num_tokens + count]
           used  == NumBlocks - (FreeBlocks(c) - k)
           peak  == IF used > c.peak_blocks THEN used ELSE c.peak_blocks
<1>1. s \in DOMAIN c.tables /\ k <= FreeBlocks(c)
    BY DEF CanAppend, Known
<1>2. /\ k \in Nat
      /\ Slack(c.tables[s]) + k * BlockSize - count \in 0 .. BlockSize - 1
    BY <1>1, BlocksNeeded DEF CacheSound
<1>3. /\ FreeBlocks(c) \in Nat /\ c.peak_blocks \in Nat
      /\ old \in Seq(Blocks) /\ Len(old) \in Nat
      /\ c.tables[s].num_tokens \in Nat
    BY <1>1, CacheParts DEF CacheSound
<1>4. /\ out \in Seq(Blocks) /\ Len(out) = k
      /\ left \in Seq(Blocks) /\ Len(left) = FreeBlocks(c) - k
      /\ IsInjective(out) /\ IsInjective(left)
      /\ Range(out) \cap Range(left) = {}
      /\ Range(out) \cup Range(left) = Range(c.free_list)
    <2>1. k \in 0 .. FreeBlocks(c)
        BY <1>1, <1>2, <1>3
    <2>2. IsInjective(c.free_list)
        BY DEF CacheSound, NoSharing
    <2> HIDE DEF k
    <2> QED
        BY <2>1, <2>2, PopFacts DEF CacheSound
<1>5. d = [free_list |-> left, tables |-> [c.tables EXCEPT ![s] = table],
           peak_blocks |-> peak]
    BY DEF AppendTokens
<1> HIDE DEF d, k, left, out, used, peak
<1>6. IsInjective(old) /\ Range(old) \cap Range(c.free_list) = {}
    BY <1>1 DEF CacheSound, NoSharing
<1>7. /\ old \o out \in Seq(Blocks)
      /\ Range(old \o out) = Range(old) \cup Range(out)
      /\ IsInjective(old \o out)
      /\ Len(old \o out) = Len(old) + k
    <2>1. Range(old) \cap Range(out) = {}
        BY <1>4, <1>6
    <2>2. old \in Seq(Blocks) /\ out \in Seq(Blocks)
        BY <1>3, <1>4
    <2> HIDE DEF old
    <2>3. /\ old \o out \in Seq(Blocks)
          /\ Range(old \o out) = Range(old) \cup Range(out)
          /\ Len(old \o out) = Len(old) + Len(out)
          /\ IsInjective(old) /\ IsInjective(out) => IsInjective(old \o out)
        BY <2>1, <2>2, ConcatFacts
    <2> QED
        BY <1>4, <1>6, <2>3
<1>8. /\ d.free_list = left
      /\ d.peak_blocks = peak
      /\ DOMAIN d.tables = DOMAIN c.tables
      /\ d.tables[s] = table
      /\ \A t \in DOMAIN c.tables \ {s} : d.tables[t] = c.tables[t]
    BY <1>1, <1>5
<1>9. FreeBlocks(d) = FreeBlocks(c) - k /\ used = UsedBlocks(d)
    BY <1>4, <1>8 DEF FreeBlocks, UsedBlocks, used
<1>10. IsCache(d)
    <2>1. table \in BlockTable
        BY <1>3, <1>7 DEF BlockTable
    <2>2. d.tables \in [DOMAIN d.tables -> BlockTable]
        BY <1>1, <1>5, <1>8, <2>1 DEF CacheSound, IsCache
    <2>3. peak \in Nat
        BY <1>2, <1>3, NumBlocksAssumption DEF peak, used
    <2> QED
        BY <1>4, <1>5, <1>8, <2>2, <2>3 DEF CacheSound, IsCache
<1>11. NoSharing(d)
    <2>1. ASSUME NEW t \in DOMAIN d.tables
          PROVE  /\ IsInjective(d.tables[t].blocks)
                 /\ Range(d.tables[t].blocks) \cap Range(left) = {}
        <3>1. CASE t = s
            <4>1. d.tables[t].blocks = old \o out
                BY <1>8, <3>1
            <4> QED
                BY <1>4, <1>6, <1>7, <4>1
        <3>2. CASE t /= s
            BY <1>4, <1>8, <2>1, <3>2 DEF CacheSound, NoSharing
        <3> QED
            BY <3>1, <3>2
    <2>2. ASSUME NEW t \in DOMAIN d.tables, t /= s
          PROVE  Range(d.tables[t].blocks) \cap Range(table.blocks) = {}
        BY <1>1, <1>4, <1>7, <1>8, <2>2 DEF CacheSound, NoSharing
    <2>3. ASSUME NEW t \in DOMAIN d.tables, NEW u \in DOMAIN d.tables, t /= u
          PROVE  Range(d.tables[t].blocks) \cap Range(d.tables[u].blocks) = {}
        <3>1. CASE t = s
            BY <1>8, <2>2, <2>3, <3>1
        <3>2. CASE u = s
            BY <1>8, <2>2, <2>3, <3>2
        <3>3. CASE t /= s /\ u /= s
            BY <1>8, <2>3, <3>3 DEF CacheSound, NoSharing
        <3> QED
            BY <3>1, <3>2, <3>3
    <2> QED
        BY <1>4, <1>8, <2>1, <2>3 DEF NoSharing
<1>12. NoLeak(d)
    <2>1. UNION {Range(d.tables[t].blocks) : t \in DOMAIN d.tables}
          = Range(out)
            \cup UNION {Range(c.tables[t].blocks) : t \in DOMAIN c.tables}
        <3>1. Range(d.tables[s].blocks) = Range(c.tables[s].blocks) \cup Range(out)
            BY <1>7, <1>8
        <3> QED
            BY <1>1, <1>8, <3>1
    <2> QED
        BY <1>4, <1>8, <2>1 DEF CacheSound, NoLeak
<1>13. Tight(d)
    <2>1. Slack(table) = Slack(c.tables[s]) + k * BlockSize - count
        <3>1. (Len(old) + k) * BlockSize = Len(old) * BlockSize + k * BlockSize
            BY <1>2, <1>3, Distributes
        <3>2. /\ Len(old) * BlockSize \in Nat /\ k * BlockSize \in Nat
              /\ (Len(old) + k) * BlockSize \in Nat
            BY <1>2, <1>3, BlockSizeAssumption, SMTT(20)
        <3>3. Slack(table)
              = (Len(old) + k) * BlockSize - (c.tables[s].num_tokens + count)
            BY <1>7 DEF Slack, Capacity
        <3>4. Slack(c.tables[s])
              = Len(old) * BlockSize - c.tables[s].num_tokens
            BY DEF Slack, Capacity
        <3> HIDE DEF old, table
        <3> QED
            BY <1>2, <1>3, <3>1, <3>2, <3>3, <3>4
    <2> QED
        BY <1>2, <1>8, <2>1 DEF CacheSound, Tight
<1> QED
    BY <1>8, <1>9, <1>10, <1>11, <1>12, <1>13
       DEF d, k, out, peak, CacheSound

\* A table keeps its stored tokens where they are when it stays as it is, and
\* when blocks and tokens are added behind them.
LEMMA TableStays ==
    ASSUME NEW b \in Seq(Blocks), NEW new \in Seq(Blocks),
           NEW n \in Nat, NEW count \in Nat
    PROVE  LET table == [blocks |-> b, num_tokens |-> n]
           IN  /\ StoredStays(table, table)
               /\ StoredStays(table, [blocks     |-> b \o new,
                                      num_tokens |-> n + count])
<1>1. Len(b \o new) = Len(b) + Len(new) /\ Len(b) \in Nat /\ Len(new) \in Nat
    OBVIOUS
<1>2. SubSeq(b, 1, Len(b)) = b
    OBVIOUS
<1>3. SubSeq(b \o new, 1, Len(b)) = b
    OBVIOUS
<1> QED
    BY <1>1, <1>2, <1>3 DEF StoredStays

\* A successful append moves no stored token of any sequence.
LEMMA AppendStays ==
    ASSUME NEW c, CacheSound(c), NEW s, NEW count \in Nat,
           CanAppend(c, s, count), NEW t \in DOMAIN c.tables
    PROVE  StoredStays(c.tables[t], AppendTokens(c, s, count).tables[t])
<1> DEFINE d == AppendTokens(c, s, count)
           k == BlocksNeededFor(c, s, count)
           b == c.tables[t].blocks
           n == c.tables[t].num_tokens
<1>1. /\ c.tables[t] = [blocks |-> b, num_tokens |-> n]
      /\ b \in Seq(Blocks) /\ n \in Nat
    BY CacheParts DEF CacheSound
<1>2. CASE t /= s
    <2>1. d.tables[t] = c.tables[t]
        BY <1>2, AppendTables DEF CanAppend, Known
    <2> HIDE DEF d, b, n
    <2> QED
        BY <1>1, <2>1, TableStays DEF d
<1>3. CASE t = s
    <2>1. d.tables[t] = [blocks |-> b \o Popped(c, k), num_tokens |-> n + count]
        BY <1>3, AppendTables
    <2>2. k \in 0 .. FreeBlocks(c)
        BY <1>3, BlocksNeeded, CacheParts DEF CacheSound, CanAppend
    <2> HIDE DEF d, k, b, n
    <2>3. Popped(c, k) \in Seq(Blocks)
        BY <2>2, PopFacts DEF CacheSound, NoSharing
    <2> QED
        BY <1>1, <2>1, <2>3, TableStays DEF d
<1> QED
    BY <1>2, <1>3

=============================================================================
