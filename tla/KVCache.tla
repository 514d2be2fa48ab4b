------------------------------ MODULE KVCache ------------------------------
(***************************************************************************)
(* The paged key/value cache of src/paged_cache.rs as a data structure: a  *)
(* cache is a record value, and every method of PagedKVCache is an         *)
(* operator that returns what the method answers or the cache it leaves.   *)
(* PagedKVCache.tla drives these operators one call at a time; Scheduler   *)
(* drives the same operators the way schedule() does.                      *)
(*                                                                         *)
(* A definition introduced as a fault is the next definition with a bug    *)
(* somebody could write.  No specification uses it: it is there to be put  *)
(* in the place of the correct one, to see which property notices.         *)
(***************************************************************************)
EXTENDS Integers, Sequences, FiniteSets, Functions

CONSTANTS
    SeqIds,     \* the sequence ids callers use (SeqId = u64)
    NumBlocks,  \* physical blocks in the cache
    BlockSize   \* token slots per block

ASSUME NumBlocksAssumption == NumBlocks \in Nat
\* PagedKVCache::new asserts a positive block size.
ASSUME BlockSizeAssumption == BlockSize \in Nat \ {0}

Blocks == 0 .. NumBlocks - 1

\* usize::div_ceil
CeilDiv(n, d) == (n + d - 1) \div d

-----------------------------------------------------------------------------
(* BlockTable *)

BlockTable == [blocks : Seq(Blocks), num_tokens : Nat]

EmptyTable == [blocks |-> <<>>, num_tokens |-> 0]

Capacity(table) == Len(table.blocks) * BlockSize

Slack(table) == Capacity(table) - table.num_tokens

-----------------------------------------------------------------------------
(* PagedKVCache: `tables` is a partial function from ids to block tables.  *)

IsCache(c) ==
    /\ c = [free_list   |-> c.free_list,
            tables      |-> c.tables,
            peak_blocks |-> c.peak_blocks]
    /\ c.free_list \in Seq(Blocks)
    /\ DOMAIN c.tables \subseteq SeqIds
    /\ c.tables \in [DOMAIN c.tables -> BlockTable]
    /\ c.peak_blocks \in Nat

\* Fault: block ids start at one.
NewCacheFromOne == [free_list   |-> [i \in 1 .. NumBlocks |-> i],
                    tables      |-> <<>>,
                    peak_blocks |-> 0]

NewCache == [free_list   |-> [i \in 1 .. NumBlocks |-> i - 1],
             tables      |-> <<>>,
             peak_blocks |-> 0]

Known(c, s) == s \in DOMAIN c.tables

FreeBlocks(c) == Len(c.free_list)

UsedBlocks(c) == NumBlocks - Len(c.free_list)

\* Fault: the slack of the last block is not used up first.
BlocksNeededIgnoringSlack(c, s, extra) == CeilDiv(extra, BlockSize)

BlocksNeededFor(c, s, extra) ==
    LET slack == IF Known(c, s) THEN Slack(c.tables[s]) ELSE 0
    IN  IF extra <= slack THEN 0 ELSE CeilDiv(extra - slack, BlockSize)

\* The blocks k calls of free_list.pop() yield, in the order they come out.
Popped(c, k) == [i \in 1 .. k |-> c.free_list[Len(c.free_list) - i + 1]]

\* Fault: `insert` in the place of `entry().or_default()`.
AdmitInserts(c, s) ==
    [c EXCEPT !.tables =
        [t \in DOMAIN c.tables \cup {s} |->
            IF t = s THEN EmptyTable ELSE c.tables[t]]]

\* `entry(seq).or_default()`: a known sequence keeps its table.
Admit(c, s) ==
    [c EXCEPT !.tables =
        [t \in DOMAIN c.tables \cup {s} |->
            IF Known(c, t) THEN c.tables[t] ELSE EmptyTable]]

\* Fault: the last free block is never handed out.
CanAppendStrict(c, s, count) ==
    /\ Known(c, s)
    /\ BlocksNeededFor(c, s, count) = 0
       \/ BlocksNeededFor(c, s, count) < FreeBlocks(c)

\* append() answers Ok.
CanAppend(c, s, count) ==
    /\ Known(c, s)
    /\ BlocksNeededFor(c, s, count) <= FreeBlocks(c)

\* Fault: the high-water mark is taken before the blocks are.
AppendPeakFirst(c, s, count) ==
    LET needed == BlocksNeededFor(c, s, count)
        table  == [blocks     |-> c.tables[s].blocks \o Popped(c, needed),
                   num_tokens |-> c.tables[s].num_tokens + count]
    IN  [free_list   |-> SubSeq(c.free_list, 1, FreeBlocks(c) - needed),
         tables      |-> [c.tables EXCEPT ![s] = table],
         peak_blocks |-> IF UsedBlocks(c) > c.peak_blocks
                         THEN UsedBlocks(c) ELSE c.peak_blocks]

\* append() past its two early returns; the high-water mark moves here only.
AppendTokens(c, s, count) ==
    LET needed == BlocksNeededFor(c, s, count)
        left   == FreeBlocks(c) - needed
        used   == NumBlocks - left
        table  == [blocks     |-> c.tables[s].blocks \o Popped(c, needed),
                   num_tokens |-> c.tables[s].num_tokens + count]
    IN  [free_list   |-> SubSeq(c.free_list, 1, left),
         tables      |-> [c.tables EXCEPT ![s] = table],
         peak_blocks |-> IF used > c.peak_blocks THEN used ELSE c.peak_blocks]

\* Fault: the table is dropped with its blocks.
FreeLeaks(c, s) ==
    IF Known(c, s)
    THEN [c EXCEPT !.tables = Restrict(@, DOMAIN @ \ {s})]
    ELSE c

\* Fault: the blocks are freed but the table stays.
FreeKeepsTable(c, s) ==
    IF Known(c, s)
    THEN [c EXCEPT !.free_list = @ \o c.tables[s].blocks]
    ELSE c

\* free(): the blocks go back in table order; an unknown id is a no-op.
Free(c, s) ==
    IF Known(c, s)
    THEN [c EXCEPT !.free_list = @ \o c.tables[s].blocks,
                   !.tables    = Restrict(@, DOMAIN @ \ {s})]
    ELSE c

\* The ids evict_largest() may pick: max_by_key takes the last maximum in the
\* HashMap's iteration order, which is any of them.
LargestSeqs(c) ==
    {s \in DOMAIN c.tables :
        \A t \in DOMAIN c.tables :
            Len(c.tables[t].blocks) <= Len(c.tables[s].blocks)}

SeqLen(c, s) == IF Known(c, s) THEN c.tables[s].num_tokens ELSE 0

-----------------------------------------------------------------------------
(* What a cache must satisfy between two calls.                            *)

\* A physical block is in one place at most: once in the free list, or once
\* in one block table.
NoSharing(c) ==
    /\ IsInjective(c.free_list)
    /\ \A s \in DOMAIN c.tables :
        /\ IsInjective(c.tables[s].blocks)
        /\ Range(c.tables[s].blocks) \cap Range(c.free_list) = {}
    /\ \A s, t \in DOMAIN c.tables :
        s /= t => Range(c.tables[s].blocks) \cap Range(c.tables[t].blocks) = {}

\* A physical block is in one place at least: no call loses one.
NoLeak(c) ==
    Blocks = Range(c.free_list)
             \cup UNION {Range(c.tables[s].blocks) : s \in DOMAIN c.tables}

\* Slots cover the tokens, and no table holds a whole block it does not need.
Tight(c) == \A s \in DOMAIN c.tables : Slack(c.tables[s]) \in 0 .. BlockSize - 1

\* The block count never underflows, and the high-water mark covers it and
\* stays within the cache.
PeakCovers(c) ==
    /\ 0 <= UsedBlocks(c)
    /\ UsedBlocks(c) <= c.peak_blocks
    /\ c.peak_blocks <= NumBlocks

\* What holds of a cache whatever calls it has seen.
CacheSound(c) == IsCache(c) /\ NoSharing(c) /\ NoLeak(c) /\ Tight(c)

\* The tokens of the table `old` are where they were in the table `new`.
StoredStays(old, new) ==
    /\ Len(old.blocks) <= Len(new.blocks)
    /\ SubSeq(new.blocks, 1, Len(old.blocks)) = old.blocks
    /\ old.num_tokens <= new.num_tokens

=============================================================================
