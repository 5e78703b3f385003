----------------------------- MODULE SetSearch -----------------------------
(***************************************************************************)
(* mem_pool_binary_search_set_by_size (mem_pool.c): the binary search over *)
(* the chunk sizes of set_table that mem_pool.h replaces by the closed     *)
(* form mem_pool_get_set_by_size.  One call of the search, one action per  *)
(* iteration of its loop, for every size of Sizes.                         *)
(***************************************************************************)
EXTENDS SizeClasses

CONSTANT Sizes  \* the request sizes searched for

ASSUME SizesAssumption == Sizes \subseteq Nat

VARIABLES
    size,    \* the argument
    pc,      \* "start", "loop" or "done"
    i, j,    \* the bounds of the loop
    ret,     \* the value returned, once pc = "done"
    probes   \* number of set_table entries read so far (history variable)

vars == <<size, pc, i, j, ret, probes>>

\* step: the distance of two neighbouring classes in the half searched.
Step == IF size <= TINY_MAX_SIZE THEN TINY_STEP ELSE MEDIUM_STEP

Init ==
    /\ size \in Sizes
    /\ pc = "start"
    /\ i = 0 /\ j = 0
    /\ ret = OUTSET
    /\ probes = 0

\* The early return for a size no set serves.
TooLarge ==
    /\ pc = "start"
    /\ size > MEDIUM_MAX_SIZE
    /\ pc' = "done"
    /\ ret' = OUTSET
    /\ UNCHANGED <<size, i, j, probes>>

\* low and high: the tiny or the medium half of the table.
Bounds ==
    /\ pc = "start"
    /\ size <= MEDIUM_MAX_SIZE
    /\ pc' = "loop"
    /\ IF size <= TINY_MAX_SIZE
       THEN i' = 0 /\ j' = SET_BOUNDARY - 1
       ELSE i' = SET_BOUNDARY /\ j' = SETSIZE - 1
    /\ UNCHANGED <<size, ret, probes>>

\* Mutant: the upper bound keeps mid instead of dropping it.
Probe_KeepMid ==
    LET mid        == (i + j) \div 2
        chunk_size == ChunkSize(mid)
        hit        == size <= chunk_size /\ size > chunk_size - Step
    IN  /\ pc = "loop"
        /\ i <= j
        /\ probes' = IF probes < 9 THEN probes + 1 ELSE probes
        /\ \/ /\ hit
              /\ pc' = "done" /\ ret' = mid
              /\ UNCHANGED <<i, j>>
           \/ /\ ~hit /\ chunk_size > size
              /\ j' = mid
              /\ UNCHANGED <<pc, i, ret>>
           \/ /\ ~hit /\ chunk_size <= size
              /\ i' = mid + 1
              /\ UNCHANGED <<pc, j, ret>>
        /\ UNCHANGED size

\* One iteration: read set_table[mid]->chunk_size, return or halve.
Probe ==
    LET mid        == (i + j) \div 2
        chunk_size == ChunkSize(mid)
        hit        == size <= chunk_size /\ size > chunk_size - Step
    IN  /\ pc = "loop"
        /\ i <= j
        /\ probes' = probes + 1
        /\ \/ /\ hit
              /\ pc' = "done" /\ ret' = mid
              /\ UNCHANGED <<i, j>>
           \/ /\ ~hit /\ chunk_size > size
              /\ j' = mid - 1
              /\ UNCHANGED <<pc, i, ret>>
           \/ /\ ~hit /\ chunk_size <= size
              /\ i' = mid + 1
              /\ UNCHANGED <<pc, j, ret>>
        /\ UNCHANGED size

\* The loop ends without a hit: return i.
Exhausted ==
    /\ pc = "loop"
    /\ i > j
    /\ pc' = "done"
    /\ ret' = i
    /\ UNCHANGED <<size, i, j, probes>>

\* The call has returned.
Returned == pc = "done" /\ UNCHANGED vars

Next == TooLarge \/ Bounds \/ Probe \/ Exhausted \/ Returned

Spec == Init /\ [][Next]_vars

-----------------------------------------------------------------------------
\* The variables stay in their types; i and j may cross by one at either end
\* of the half searched.
TypeOK ==
    /\ size \in Sizes
    /\ pc \in {"start", "loop", "done"}
    /\ i \in 0 .. SETSIZE
    /\ j \in -1 .. (SETSIZE - 1)
    /\ ret \in SetIndex \cup {OUTSET}
    /\ probes \in Nat

\* mem_pool.h:119 replaces the search by mem_pool_get_set_by_size: on every
\* size a caller passes (mem_pool_alloc refuses 0 and serves sizes above
\* MEDIUM_MAX_SIZE without a set) both name the same set.
SearchAgrees ==
    (pc = "done" /\ Pooled(size))
        => ret = mem_pool_get_set_by_size(size)

\* The set found is the smallest one whose chunks hold the request, so
\* mem_pool_alloc neither hands out a chunk that is too short nor wastes a
\* larger one.
BestFit ==
    (pc = "done" /\ Pooled(size))
        => /\ ret \in SetIndex
           /\ size <= ChunkSize(ret)
           /\ \A k \in SetIndex : size <= ChunkSize(k) => ret <= k

\* The loop reads at most seven table entries: the span i .. j starts at 64
\* entries and every miss leaves less than half of it.  (mem_pool.c:223 counts
\* six and the comparison before the loop; for class 63 the loop needs seven.)
SevenProbes == probes <= 7
=============================================================================
