---------------------------- MODULE PeakCapacity ----------------------------
(***************************************************************************)
(* The same workload in a smaller cache.  "A workload that fits in         *)
(* peak_blocks blocks would run unchanged in a cache sized to exactly that *)
(* many" (paged_cache.rs:122-125) relates two runs of the scheduler.  Here *)
(* the second run is a function of the first: for every size m the state   *)
(* of the scheduler with m blocks is the state with NumBlocks blocks less  *)
(* the blocks at the bottom of the free list, which a run that never uses  *)
(* more than m blocks never takes.                                         *)
(***************************************************************************)
EXTENDS SchedulerProperties

\* A block of the large cache as the small one numbers it.
Renumbered(m, block) == block - (NumBlocks - m)

RenumberedTable(m, table) ==
    [blocks     |-> [i \in DOMAIN table.blocks |-> Renumbered(m, table.blocks[i])],
     num_tokens |-> table.num_tokens]

\* The cache of m blocks that has seen the same calls.
Restricted(m) ==
    LET bottom == NumBlocks - m
    IN  [free_list   |-> [i \in 1 .. FreeBlocks(cache) - bottom |->
                             Renumbered(m, cache.free_list[i + bottom])],
         tables      |-> [s \in DOMAIN cache.tables |->
                             RenumberedTable(m, cache.tables[s])],
         peak_blocks |-> cache.peak_blocks]

Small(m) == INSTANCE Scheduler WITH NumBlocks <- m, cache <- Restricted(m)

\* The use that the rest of this step is bound for: in the commit loop the
\* demand of the batch is checked already but not taken yet.
PeakAhead ==
    LET ahead == UsedBlocks(cache) + Demand(pos)
    IN  IF pc = "commit" /\ ahead > cache.peak_blocks
        THEN ahead
        ELSE cache.peak_blocks

\* peak_blocks is the exact capacity the run needs to go as it goes.  In a
\* cache of any size that the high-water mark has not passed, every step is
\* one the scheduler would take there too, with the same admissions, victims,
\* batch and blocks, unless it is the step with which the mark passes that
\* size, and that one it would not take (paged_cache.rs:122-125,
\* wiki/Paged-KV-Cache.md:45).
PeakIsExactCapacity ==
    /\ \A m \in 0 .. NumBlocks : Restricted(m) = Small(m)!NewCache
    /\ [][\A m \in 0 .. NumBlocks :
            PeakAhead <= m => (Small(m)!Next <=> PeakAhead' <= m)]_vars
=============================================================================
