----------------------------- MODULE TokenPool -----------------------------
(***************************************************************************)
(* What the paged cache promises, without blocks: a pool in which every    *)
(* sequence is just a number of tokens and costs the blocks those tokens   *)
(* fill, rounded up.  No free list, no tables, no identity of blocks: any  *)
(* free block fits any sequence, so an append succeeds exactly when the    *)
(* total cost stays within the pool ("external fragmentation disappears"). *)
(***************************************************************************)
EXTENDS Integers, FiniteSets, Functions

CONSTANTS SeqIds, NumBlocks, BlockSize, MaxAppend

VARIABLES
    tokens,     \* partial function: tokens stored per known sequence
    peak,       \* the largest cost the pool has ever had
    result      \* what the last call returned

vars == <<tokens, peak, result>>

Cost(n) == (n + BlockSize - 1) \div BlockSize

\* What the sequences cost together: the first, second, ... block of each.
Shares(f) == UNION {{s} \X (1 .. Cost(f[s])) : s \in DOMAIN f}

Used(f) == Cardinality(Shares(f))

Raise(n) == IF n > peak THEN n ELSE peak

Init ==
    /\ tokens = <<>>
    /\ peak = 0
    /\ result = [kind |-> "Unit"]

Admit(s) ==
    /\ tokens' = [t \in DOMAIN tokens \cup {s} |->
                    IF t \in DOMAIN tokens THEN tokens[t] ELSE 0]
    /\ result' = [kind |-> "Unit"]
    /\ UNCHANGED peak

Grow(s, count) ==
    LET grown == [tokens EXCEPT ![s] = @ + count]
        free  == NumBlocks - Used(tokens)
    IN  /\ s \in DOMAIN tokens
        /\ IF Used(grown) <= NumBlocks
           THEN /\ tokens' = grown
                /\ peak' = Raise(Used(grown))
                /\ result' = [kind |-> "Ok"]
           ELSE /\ result' = [kind   |-> "OutOfBlocks",
                              needed |-> Used(grown) - Used(tokens),
                              free   |-> free]
                /\ UNCHANGED <<tokens, peak>>

GrowUnknown(s) ==
    /\ s \notin DOMAIN tokens
    /\ result' = [kind |-> "UnknownSequence", seq |-> s]
    /\ UNCHANGED <<tokens, peak>>

Forget(s) ==
    /\ tokens' = Restrict(tokens, DOMAIN tokens \ {s})
    /\ result' = [kind |-> "Unit"]
    /\ UNCHANGED peak

\* A costliest sequence goes.
Evict(s) ==
    /\ s \in DOMAIN tokens
    /\ \A t \in DOMAIN tokens : Cost(tokens[t]) <= Cost(tokens[s])
    /\ tokens' = Restrict(tokens, DOMAIN tokens \ {s})
    /\ result' = [kind |-> "Evicted", seq |-> s]
    /\ UNCHANGED peak

Next ==
    \E s \in SeqIds :
        \/ Admit(s)
        \/ GrowUnknown(s)
        \/ \E count \in 0 .. MaxAppend : Grow(s, count)
        \/ Forget(s)
        \/ Evict(s)

Spec == Init /\ [][Next]_vars
=============================================================================
