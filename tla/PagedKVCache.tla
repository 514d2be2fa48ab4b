---------------------------- MODULE PagedKVCache ----------------------------
(***************************************************************************)
(* The cache as a state machine: one action per outcome of each public     *)
(* method of PagedKVCache that changes state, called in any order with any *)
(* known or unknown id.  `result` is what the last call returned.          *)
(***************************************************************************)
EXTENDS KVCache

CONSTANT
    MaxAppend   \* bound: the largest count one append is called with

ASSUME MaxAppendAssumption == MaxAppend \in Nat

VARIABLES
    cache,
    result

vars == <<cache, result>>

Ok == [kind |-> "Ok"]
Unit == [kind |-> "Unit"]
UnknownSequence(s) == [kind |-> "UnknownSequence", seq |-> s]
OutOfBlocks(n, f) == [kind |-> "OutOfBlocks", needed |-> n, free |-> f]
Evicted(s) == [kind |-> "Evicted", seq |-> s]

Result ==
    [kind : {"Ok", "Unit"}]
    \cup [kind : {"UnknownSequence", "Evicted"}, seq : SeqIds]
    \cup [kind : {"OutOfBlocks"}, needed : Nat, free : Nat]

Init ==
    /\ cache = NewCache
    /\ result = Unit

AdmitSeq(s) ==
    /\ cache' = Admit(cache, s)
    /\ result' = Unit

AppendUnknown(s) ==
    /\ ~Known(cache, s)
    /\ result' = UnknownSequence(s)
    /\ UNCHANGED cache

AppendOutOfBlocks(s, count) ==
    /\ Known(cache, s)
    /\ ~CanAppend(cache, s, count)
    /\ result' = OutOfBlocks(BlocksNeededFor(cache, s, count), FreeBlocks(cache))
    /\ UNCHANGED cache

AppendOk(s, count) ==
    /\ CanAppend(cache, s, count)
    /\ cache' = AppendTokens(cache, s, count)
    /\ result' = Ok

FreeSeq(s) ==
    /\ cache' = Free(cache, s)
    /\ result' = Unit

EvictLargest(s) ==
    /\ s \in LargestSeqs(cache)
    /\ cache' = Free(cache, s)
    /\ result' = Evicted(s)

Next ==
    \E s \in SeqIds :
        \/ AdmitSeq(s)
        \/ AppendUnknown(s)
        \/ \E count \in 0 .. MaxAppend :
            \/ AppendOutOfBlocks(s, count)
            \/ AppendOk(s, count)
        \/ FreeSeq(s)
        \/ EvictLargest(s)

Spec == Init /\ [][Next]_vars

-----------------------------------------------------------------------------
(* Properties *)

\* Every part of the cache has its type (paged_cache.rs:78-88).
TypeOK == IsCache(cache) /\ result \in Result

\* No two sequences, and no sequence and the free list, ever hold the same
\* physical block: append pops a block once and free pushes it back once.
NoBlockShared == NoSharing(cache)

\* Every physical block is always either free or in a table: free() returns
\* every block of the table it drops.
NoBlockLost == NoLeak(cache)

\* The tokens of a sequence fit the blocks reserved for it, and the slack of
\* its last block is below BlockSize (paged_cache.rs:69-71): otherwise
\* num_tokens overruns the table and the subtraction in slack() underflows.
SlackBounded == Tight(cache)

\* The subtraction in used_blocks() never underflows, and peak_blocks never
\* misses a moment of higher use and never exceeds the cache
\* (paged_cache.rs:83-86, 118-120).
PeakIsHighWater == PeakCovers(cache)

\* The inductive invariant: SlackBounded needs the types, PeakIsHighWater
\* needs that no block is in the free list twice, and that in turn needs that
\* the tables and the free list never overlap.
IInv ==
    /\ TypeOK
    /\ NoBlockShared
    /\ NoBlockLost
    /\ SlackBounded
    /\ PeakIsHighWater

\* No call moves what is already stored: as long as a sequence stays known,
\* its tokens stay in the blocks they were written to, in the same order,
\* whatever is admitted, appended, freed or evicted next to it.  The forward
\* pass gathers keys and values through the table (paged_cache.rs:205-209).
TablesOnlyGrow ==
    [][\A s \in DOMAIN cache.tables \cap DOMAIN cache'.tables :
        StoredStays(cache.tables[s], cache'.tables[s])]_vars

\* The cache seen as a pool of tokens.
Pool == INSTANCE TokenPool WITH
    tokens <- [s \in DOMAIN cache.tables |-> cache.tables[s].num_tokens],
    peak   <- cache.peak_blocks

\* The block allocator implements the counting pool: an append succeeds
\* exactly when the total rounded-up need fits, whatever blocks were freed in
\* whatever order before, and the answers carry the same numbers
\* (paged_cache.rs:148-193).
ImplementsTokenPool == Pool!Spec
=============================================================================
