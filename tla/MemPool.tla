------------------------------ MODULE MemPool ------------------------------
(***************************************************************************)
(* The memory pool (mem_pool.c): threads allocate, reallocate and free     *)
(* blocks.  A block is the data part of a MemChunk; the pool keeps the     *)
(* chunks that are not in use on one free list per size class (MemSet),    *)
(* each under its own spin lock.  A request is served from the head of the *)
(* list of its class, or by malloc when the list is empty or the request   *)
(* is larger than every class.  A freed chunk goes to the tail of its      *)
(* list, or back to malloc when the pool is over FREE_BOUNDARY.            *)
(*                                                                         *)
(* A step of a thread contains at most one access to memory another thread *)
(* may write: a compare-and-swap, a fetch-and-add, one read of used_size,  *)
(* or the accesses to one pointer chain under a lock.  prev is written by  *)
(* the code and never read; it is left out.                                *)
(***************************************************************************)
EXTENDS SizeClasses, FiniteSets, FiniteSetsExt, Functions, Sequences, SequencesExt

CONSTANTS
    Threads,   \* the threads that use the pool
    Chunks,    \* the addresses malloc can return for a chunk
    NULL,      \* the null pointer
    UsedSets,  \* the positions of set_table some request maps to
    InitList,  \* the chunks mem_pool_create puts in each used set
    IdleSize,  \* the bytes it puts in the sets no request maps to
    Requests,  \* the sizes asked for
    MaxSize,   \* max_size
    MaxBlock   \* a bound on the blocks the requests are served with

ASSUME PoolAssumption ==
    /\ Threads # {} /\ IsFiniteSet(Threads)
    /\ NULL \notin Chunks /\ IsFiniteSet(Chunks)
    /\ UsedSets \subseteq SetIndex
    /\ InitList \in [UsedSets -> Seq(Chunks)]
    /\ \A s \in UsedSets : IsInjective(InitList[s])
    /\ \A s1, s2 \in UsedSets :
          s1 # s2 => Range(InitList[s1]) \cap Range(InitList[s2]) = {}
    /\ IdleSize \in Nat /\ MaxSize \in Nat
    /\ Requests \subseteq Nat
    /\ MaxBlock \in Nat
    /\ \A n \in Requests :
          IF n <= MEDIUM_MAX_SIZE
          THEN n > 0 => /\ mem_pool_get_set_by_size(n) \in UsedSets
                        /\ ChunkSize(mem_pool_get_set_by_size(n)) <= MaxBlock
          ELSE n <= MaxBlock

VARIABLES
    live,         \* the addresses malloc has handed out and free has not taken
    size,         \* chunk->size
    set_pos,      \* chunk->set_pos
    next,         \* chunk->next
    chunk_head, chunk_tail, chunk_count, lock,   \* of each used set
    used_size,    \* pool->used_size
    open,         \* FALSE once mem_pool_destroy has run
    held,         \* the chunks whose blocks the client holds
    pc, req, cur, pos,  \* where each thread is; size, palloc or chunk, pos
    old, new,     \* pold and pnew of a reallocation in progress
    want,         \* history: the size each held block was last asked for
    fl            \* history: the free list of each set, head first

setVars  == <<chunk_head, chunk_tail, chunk_count, lock>>
listVars == <<chunk_head, chunk_tail, fl>>
callVars == <<req, pos, old, new>>
vars == <<live, size, set_pos, next, setVars, used_size, open, held,
          pc, req, cur, pos, old, new, want, fl>>

InitChunks == UNION {Range(InitList[s]) : s \in UsedSets}

\* The set mem_pool_create made a chunk for.
HomeSet(c) == CHOOSE s \in UsedSets : c \in Range(InitList[s])

SuccIn(q, c) ==
    LET k == CHOOSE k \in DOMAIN q : q[k] = c
    IN  IF k = Len(q) THEN NULL ELSE q[k + 1]

\* used_size after mem_pool_create: every chunk of the sets counts.
InitUsed ==
    IdleSize + MapThenSumSet(LAMBDA s : ChunkSize(s) * Len(InitList[s]), UsedSets)

ASSUME InitUsedAssumption == InitUsed \in Nat

\* The state mem_pool_create returns: each set holds its chunks in the order
\* mem_set_create linked them.
Init ==
    /\ live = InitChunks
    /\ size = [c \in Chunks |->
                 IF c \in InitChunks THEN ChunkSize(HomeSet(c)) ELSE 0]
    /\ set_pos = [c \in Chunks |->
                    IF c \in InitChunks THEN HomeSet(c) ELSE OUTSET]
    /\ next = [c \in Chunks |->
                 IF c \in InitChunks THEN SuccIn(InitList[HomeSet(c)], c)
                 ELSE NULL]
    /\ chunk_head = [s \in UsedSets |->
                       IF InitList[s] = <<>> THEN NULL ELSE Head(InitList[s])]
    /\ chunk_tail = [s \in UsedSets |->
                       IF InitList[s] = <<>> THEN NULL ELSE Last(InitList[s])]
    /\ chunk_count = [s \in UsedSets |-> Len(InitList[s])]
    /\ lock = [s \in UsedSets |-> FALSE]
    /\ used_size = InitUsed
    /\ open = TRUE
    /\ held = {}
    /\ pc = [t \in Threads |-> "idle"]
    /\ req = [t \in Threads |-> 0]
    /\ cur = [t \in Threads |-> NULL]
    /\ pos = [t \in Threads |-> OUTSET]
    /\ old = [t \in Threads |-> NULL]
    /\ new = [t \in Threads |-> NULL]
    /\ want = [c \in Chunks |-> 0]
    /\ fl = InitList

Goto(t, label) == pc' = [pc EXCEPT ![t] = label]

-----------------------------------------------------------------------------
(* mem_pool_alloc *)

\* A client calls mem_pool_alloc or mem_pool_calloc.
AllocCall(t, n) ==
    /\ open /\ pc[t] = "idle"
    /\ Goto(t, "alloc_start")
    /\ req' = [req EXCEPT ![t] = n]
    /\ UNCHANGED <<live, size, set_pos, next, setVars, used_size, open, held,
                   cur, pos, old, new, want, fl>>

\* Mutant: the old block of a failed reallocation is forgotten.
AllocFails_DropsOld(t) ==
    /\ Goto(t, "idle")
    /\ old' = [old EXCEPT ![t] = NULL]
    /\ req' = [req EXCEPT ![t] = 0]
    /\ cur' = [cur EXCEPT ![t] = NULL]
    /\ pos' = [pos EXCEPT ![t] = OUTSET]
    /\ UNCHANGED <<held, new, want>>

\* alloc returns NULL: a plain call is over, and a reallocation gives the old
\* block, which it has not touched, back to its client.
AllocFails(t) ==
    /\ Goto(t, "idle")
    /\ held' = IF old[t] = NULL THEN held ELSE held \cup {old[t]}
    /\ old' = [old EXCEPT ![t] = NULL]
    /\ req' = [req EXCEPT ![t] = 0]
    /\ cur' = [cur EXCEPT ![t] = NULL]
    /\ pos' = [pos EXCEPT ![t] = OUTSET]
    /\ UNCHANGED <<new, want>>

\* alloc returns chunk c: a plain call hands it to the client, and a
\* reallocation copies the data and goes on to free the old block.
AllocSucceeds(t, c) ==
    /\ want' = [want EXCEPT ![c] = req[t]]
    /\ req' = [req EXCEPT ![t] = 0]
    /\ pos' = [pos EXCEPT ![t] = OUTSET]
    /\ cur' = [cur EXCEPT ![t] = old[t]]
    /\ old' = [old EXCEPT ![t] = NULL]
    /\ IF old[t] = NULL
       THEN /\ held' = held \cup {c}
            /\ Goto(t, "idle")
            /\ UNCHANGED new
       ELSE /\ new' = [new EXCEPT ![t] = c]
            /\ Goto(t, "free_start")
            /\ UNCHANGED held

\* The size is 0 or would take the pool over max_size.
Refused(n) == used_size + n > MaxSize \/ n = 0

AllocRefused(t) ==
    /\ pc[t] = "alloc_start"
    /\ Refused(req[t])
    /\ AllocFails(t)
    /\ UNCHANGED <<live, size, set_pos, next, setVars, used_size, open, fl>>

AllocStart(t) ==
    /\ pc[t] = "alloc_start"
    /\ ~Refused(req[t])
    /\ IF req[t] <= MEDIUM_MAX_SIZE
       THEN /\ pos' = [pos EXCEPT ![t] = mem_pool_get_set_by_size(req[t])]
            /\ Goto(t, "alloc_lock")
       ELSE /\ Goto(t, "alloc_create")
            /\ UNCHANGED pos
    /\ UNCHANGED <<live, size, set_pos, next, setVars, used_size, open, held,
                   req, cur, old, new, want, fl>>

Acquire(s) == ~lock[s] /\ lock' = [lock EXCEPT ![s] = TRUE]
Release(s) == lock' = [lock EXCEPT ![s] = FALSE]

AllocLock(t) ==
    /\ pc[t] = "alloc_lock"
    /\ Acquire(pos[t])
    /\ Goto(t, "alloc_peek")
    /\ UNCHANGED <<live, size, set_pos, next, listVars, chunk_count, used_size,
                   open, held, cur, callVars, want>>

\* Mutant: with an empty list, wait under the lock for a chunk to be freed.
AllocPeek_Waits(t) ==
    /\ pc[t] = "alloc_peek"
    /\ cur' = [cur EXCEPT ![t] = chunk_head[pos[t]]]
    /\ Goto(t, IF chunk_head[pos[t]] = NULL THEN "alloc_peek" ELSE "alloc_pop")
    /\ UNCHANGED <<live, size, set_pos, next, setVars, used_size, open, held,
                   callVars, want, fl>>

\* palloc = set->chunk_head
AllocPeek(t) ==
    /\ pc[t] = "alloc_peek"
    /\ cur' = [cur EXCEPT ![t] = chunk_head[pos[t]]]
    /\ Goto(t, IF chunk_head[pos[t]] = NULL THEN "alloc_unlock" ELSE "alloc_pop")
    /\ UNCHANGED <<live, size, set_pos, next, setVars, used_size, open, held,
                   callVars, want, fl>>

AllocPop(t) ==
    LET s == pos[t]
        c == cur[t]
    IN  /\ pc[t] = "alloc_pop"
        /\ chunk_head' = [chunk_head EXCEPT ![s] = next[c]]
        /\ chunk_tail' = IF next[c] = NULL
                         THEN [chunk_tail EXCEPT ![s] = NULL] ELSE chunk_tail
        /\ fl' = [fl EXCEPT ![s] = SubSeq(@, 2, Len(@))]
        /\ Goto(t, "alloc_unlock")
        /\ UNCHANGED <<live, size, set_pos, next, chunk_count, lock, used_size,
                       open, held, cur, callVars, want>>

AllocUnlock(t) ==
    /\ pc[t] = "alloc_unlock"
    /\ Release(pos[t])
    /\ IF cur[t] # NULL
       THEN AllocSucceeds(t, cur[t])
       ELSE /\ Goto(t, "alloc_create")
            /\ UNCHANGED <<held, req, cur, pos, old, new, want>>
    /\ UNCHANGED <<live, size, set_pos, next, listVars, chunk_count, used_size,
                   open>>

\* align_size: the chunk size of the set, or the size itself above them all.
AlignSize(t) == IF pos[t] = OUTSET THEN req[t] ELSE ChunkSize(pos[t])

\* mem_chunk_create: malloc returns any address that is not in use.
AllocCreate(t, c) ==
    /\ pc[t] = "alloc_create"
    /\ c \notin live
    /\ live' = live \cup {c}
    /\ size' = [size EXCEPT ![c] = AlignSize(t)]
    /\ set_pos' = [set_pos EXCEPT ![c] = OUTSET]
    /\ next' = [next EXCEPT ![c] = NULL]
    /\ cur' = [cur EXCEPT ![t] = c]
    /\ Goto(t, "alloc_account")
    /\ UNCHANGED <<setVars, used_size, open, held, callVars, want, fl>>

\* malloc fails.
AllocCreateFails(t) ==
    /\ pc[t] = "alloc_create"
    /\ AllocFails(t)
    /\ UNCHANGED <<live, size, set_pos, next, setVars, used_size, open, fl>>

\* Mutant: the size asked for is counted, not the size of the chunk.
AllocAccount_Request(t) ==
    /\ pc[t] = "alloc_account"
    /\ used_size' = used_size + req[t]
    /\ AllocSucceeds(t, cur[t])
    /\ UNCHANGED <<live, size, set_pos, next, setVars, open, fl>>

AllocAccount(t) ==
    /\ pc[t] = "alloc_account"
    /\ used_size' = used_size + size[cur[t]]
    /\ AllocSucceeds(t, cur[t])
    /\ UNCHANGED <<live, size, set_pos, next, setVars, open, fl>>

-----------------------------------------------------------------------------
(* mem_pool_free *)

\* A client frees a block it holds; it may have been allocated by another
\* thread.
FreeCall(t, c) ==
    /\ open /\ pc[t] = "idle"
    /\ c \in held
    /\ held' = held \ {c}
    /\ want' = [want EXCEPT ![c] = 0]
    /\ cur' = [cur EXCEPT ![t] = c]
    /\ Goto(t, "free_start")
    /\ UNCHANGED <<live, size, set_pos, next, setVars, used_size, open,
                   callVars, fl>>

\* used_size > max_size * FREE_BOUNDARY (0.8)
OverBoundary == 5 * used_size > 4 * MaxSize

\* Mutant: a chunk of exactly a set's size is taken for one of the next set.
FreeStart_NextSet(t) ==
    LET c == cur[t]
    IN  /\ pc[t] = "free_start"
        /\ \/ /\ size[c] > MEDIUM_MAX_SIZE
              /\ Goto(t, "free_account")
              /\ UNCHANGED pos
           \/ /\ size[c] <= MEDIUM_MAX_SIZE /\ set_pos[c] > OUTSET
              /\ pos' = [pos EXCEPT ![t] = set_pos[c]]
              /\ Goto(t, "free_lock")
           \/ /\ size[c] <= MEDIUM_MAX_SIZE /\ set_pos[c] = OUTSET
              /\ pos' = [pos EXCEPT
                            ![t] = mem_pool_get_set_by_align_size(size[c]) + 1]
              /\ Goto(t, IF OverBoundary THEN "free_account" ELSE "free_adopt")
        /\ UNCHANGED <<live, size, set_pos, next, setVars, used_size, open,
                       held, req, cur, old, new, want, fl>>

\* A chunk of a set goes back to it; one malloc'd on demand is adopted by the
\* set of its size unless the pool is over the boundary; a large one goes.
FreeStart(t) ==
    LET c == cur[t]
    IN  /\ pc[t] = "free_start"
        /\ \/ /\ size[c] > MEDIUM_MAX_SIZE
              /\ Goto(t, "free_account")
              /\ UNCHANGED pos
           \/ /\ size[c] <= MEDIUM_MAX_SIZE /\ set_pos[c] > OUTSET
              /\ pos' = [pos EXCEPT ![t] = set_pos[c]]
              /\ Goto(t, "free_lock")
           \/ /\ size[c] <= MEDIUM_MAX_SIZE /\ set_pos[c] = OUTSET
              /\ pos' = [pos EXCEPT ![t] = mem_pool_get_set_by_align_size(size[c])]
              /\ Goto(t, IF OverBoundary THEN "free_account" ELSE "free_adopt")
        /\ UNCHANGED <<live, size, set_pos, next, setVars, used_size, open,
                       held, req, cur, old, new, want, fl>>

\* Mutant: the adopted chunk is not told its set.
FreeAdopt_NoPos(t) ==
    /\ pc[t] = "free_adopt"
    /\ chunk_count' = [chunk_count EXCEPT ![pos[t]] = @ + 1]
    /\ Goto(t, "free_lock")
    /\ UNCHANGED <<live, size, set_pos, next, listVars, lock, used_size, open,
                   held, cur, callVars, want>>

\* set_pos is stored before the chunk is on a list, where others can see it.
FreeAdopt(t) ==
    /\ pc[t] = "free_adopt"
    /\ set_pos' = [set_pos EXCEPT ![cur[t]] = pos[t]]
    /\ chunk_count' = [chunk_count EXCEPT ![pos[t]] = @ + 1]
    /\ Goto(t, "free_lock")
    /\ UNCHANGED <<live, size, next, listVars, lock, used_size, open, held,
                   cur, callVars, want>>

\* Mutant: the lock is tried once and the answer ignored.
FreeLock_NoWait(t) ==
    /\ pc[t] = "free_lock"
    /\ lock' = [lock EXCEPT ![pos[t]] = TRUE]
    /\ Goto(t, "free_link")
    /\ UNCHANGED <<live, size, set_pos, next, listVars, chunk_count, used_size,
                   open, held, cur, callVars, want>>

FreeLock(t) ==
    /\ pc[t] = "free_lock"
    /\ Acquire(pos[t])
    /\ Goto(t, "free_link")
    /\ UNCHANGED <<live, size, set_pos, next, listVars, chunk_count, used_size,
                   open, held, cur, callVars, want>>

\* Link the chunk behind the tail, or make it the head of an empty list.
FreeLink(t) ==
    LET s == pos[t]
        c == cur[t]
    IN  /\ pc[t] = "free_link"
        /\ IF chunk_head[s] = NULL
           THEN /\ chunk_head' = [chunk_head EXCEPT ![s] = c]
                /\ chunk_tail' = [chunk_tail EXCEPT ![s] = c]
                /\ UNCHANGED next
           ELSE /\ next' = [next EXCEPT ![chunk_tail[s]] = c]
                /\ UNCHANGED <<chunk_head, chunk_tail>>
        /\ Goto(t, "free_tail")
        /\ UNCHANGED <<live, size, set_pos, chunk_count, lock, used_size, open,
                       held, cur, callVars, want, fl>>

\* Mutant: the chunk keeps the next pointer of its last stay on the list.
FreeTail_KeepsNext(t) ==
    LET s == pos[t]
        c == cur[t]
    IN  /\ pc[t] = "free_tail"
        /\ chunk_tail' = [chunk_tail EXCEPT ![s] = c]
        /\ fl' = [fl EXCEPT ![s] = Append(@, c)]
        /\ Goto(t, "free_unlock")
        /\ UNCHANGED <<live, size, set_pos, next, chunk_head, chunk_count, lock,
                       used_size, open, held, cur, callVars, want>>

\* chunk->next = NULL; set->chunk_tail = chunk
FreeTail(t) ==
    LET s == pos[t]
        c == cur[t]
    IN  /\ pc[t] = "free_tail"
        /\ next' = [next EXCEPT ![c] = NULL]
        /\ chunk_tail' = [chunk_tail EXCEPT ![s] = c]
        /\ fl' = [fl EXCEPT ![s] = Append(@, c)]
        /\ Goto(t, "free_unlock")
        /\ UNCHANGED <<live, size, set_pos, chunk_head, chunk_count, lock,
                       used_size, open, held, cur, callVars, want>>

\* Mutant: a reallocation returns the block it has just freed.
FreeReturns_Old(t) ==
    /\ Goto(t, "idle")
    /\ held' = IF new[t] = NULL THEN held ELSE held \cup {cur[t]}
    /\ new' = [new EXCEPT ![t] = NULL]
    /\ cur' = [cur EXCEPT ![t] = NULL]
    /\ pos' = [pos EXCEPT ![t] = OUTSET]

\* free returns; a reallocation then returns its new block.
FreeReturns(t) ==
    /\ Goto(t, "idle")
    /\ held' = IF new[t] = NULL THEN held ELSE held \cup {new[t]}
    /\ new' = [new EXCEPT ![t] = NULL]
    /\ cur' = [cur EXCEPT ![t] = NULL]
    /\ pos' = [pos EXCEPT ![t] = OUTSET]

FreeUnlock(t) ==
    /\ pc[t] = "free_unlock"
    /\ Release(pos[t])
    /\ FreeReturns(t)
    /\ UNCHANGED <<live, size, set_pos, next, listVars, chunk_count, used_size,
                   open, req, old, want>>

FreeAccount(t) ==
    /\ pc[t] = "free_account"
    /\ used_size' = used_size - size[cur[t]]
    /\ Goto(t, "free_destroy")
    /\ UNCHANGED <<live, size, set_pos, next, setVars, open, held, cur,
                   callVars, want, fl>>

FreeDestroy(t) ==
    /\ pc[t] = "free_destroy"
    /\ live' = live \ {cur[t]}
    /\ FreeReturns(t)
    /\ UNCHANGED <<size, set_pos, next, setVars, used_size, open, req, old,
                   want, fl>>

-----------------------------------------------------------------------------
(* mem_pool_realloc and mem_pool_destroy *)

\* The old block is returned when its size, rounded up to ALIGN_SIZE, covers
\* the new one.
ReallocInPlace(t, c, n) ==
    /\ open /\ pc[t] = "idle"
    /\ c \in held
    /\ mem_align_size(size[c], ALIGN_SIZE) >= n
    /\ want' = [want EXCEPT ![c] = n]
    /\ UNCHANGED <<live, size, set_pos, next, setVars, used_size, open, held,
                   pc, req, cur, pos, old, new, fl>>

\* Otherwise a new block is allocated; the old one stays the client's until
\* it is freed, but the client may not use it before realloc returns.
ReallocMove(t, c, n) ==
    /\ open /\ pc[t] = "idle"
    /\ c \in held
    /\ mem_align_size(size[c], ALIGN_SIZE) < n
    /\ held' = held \ {c}
    /\ old' = [old EXCEPT ![t] = c]
    /\ req' = [req EXCEPT ![t] = n]
    /\ Goto(t, "alloc_start")
    /\ UNCHANGED <<live, size, set_pos, next, setVars, used_size, open,
                   cur, pos, new, want, fl>>

\* Mutant: the loop tests the next pointer and misses the last chunk.
Reachable_NotLast(s) ==
    LET chunk[k \in 0 .. Cardinality(Chunks)] ==
            IF k = 0 THEN chunk_head[s]
            ELSE IF chunk[k - 1] = NULL THEN NULL ELSE next[chunk[k - 1]]
    IN  {c \in Range(chunk) \ {NULL} : next[c] # NULL}

\* The chunks mem_set_destroy meets on its way along the next pointers.
Reachable(s) ==
    LET chunk[k \in 0 .. Cardinality(Chunks)] ==
            IF k = 0 THEN chunk_head[s]
            ELSE IF chunk[k - 1] = NULL THEN NULL ELSE next[chunk[k - 1]]
    IN  Range(chunk) \ {NULL}

\* The pool may be destroyed once no thread is inside it.
Destroy ==
    /\ open
    /\ \A t \in Threads : pc[t] = "idle"
    /\ live' = live \ UNION {Reachable(s) : s \in UsedSets}
    /\ open' = FALSE
    /\ UNCHANGED <<size, set_pos, next, setVars, used_size, held,
                   pc, req, cur, pos, old, new, want, fl>>

Destroyed == ~open /\ UNCHANGED vars

-----------------------------------------------------------------------------
AllocStep(t) ==
    \/ AllocRefused(t) \/ AllocStart(t) \/ AllocLock(t) \/ AllocPeek(t)
    \/ AllocPop(t) \/ AllocUnlock(t) \/ (\E c \in Chunks : AllocCreate(t, c))
    \/ AllocCreateFails(t) \/ AllocAccount(t)

FreeStep(t) ==
    \/ FreeStart(t) \/ FreeAdopt(t) \/ FreeLock(t) \/ FreeLink(t)
    \/ FreeTail(t) \/ FreeUnlock(t) \/ FreeAccount(t) \/ FreeDestroy(t)

Call(t) ==
    \/ \E n \in Requests : AllocCall(t, n)
    \/ \E c \in Chunks : FreeCall(t, c)
    \/ \E c \in Chunks, n \in Requests :
          ReallocInPlace(t, c, n) \/ ReallocMove(t, c, n)

Next ==
    \/ \E t \in Threads : Call(t) \/ AllocStep(t) \/ FreeStep(t)
    \/ Destroy
    \/ Destroyed

Spec == Init /\ [][Next]_vars

\* A thread inside the pool keeps running.  The spin lock is not fair, so a
\* thread that waits for it has no more than weak fairness.
FairSpec ==
    /\ Spec
    /\ \A t \in Threads : WF_vars(AllocStep(t)) /\ WF_vars(FreeStep(t))

-----------------------------------------------------------------------------
(* Properties *)

Labels == {"idle", "alloc_start", "alloc_lock", "alloc_peek", "alloc_pop",
           "alloc_unlock", "alloc_create", "alloc_account", "free_start",
           "free_adopt", "free_lock", "free_link", "free_tail", "free_unlock",
           "free_account", "free_destroy"}

\* The variables stay in their types.
TypeOK ==
    /\ live \subseteq Chunks
    /\ size \in [Chunks -> Nat]
    /\ set_pos \in [Chunks -> UsedSets \cup {OUTSET}]
    /\ next \in [Chunks -> Chunks \cup {NULL}]
    /\ chunk_head \in [UsedSets -> Chunks \cup {NULL}]
    /\ chunk_tail \in [UsedSets -> Chunks \cup {NULL}]
    /\ chunk_count \in [UsedSets -> Nat]
    /\ lock \in [UsedSets -> BOOLEAN]
    /\ used_size \in Int
    /\ open \in BOOLEAN
    /\ held \subseteq Chunks
    /\ pc \in [Threads -> Labels]
    /\ req \in [Threads -> Nat]
    /\ cur \in [Threads -> Chunks \cup {NULL}]
    /\ pos \in [Threads -> UsedSets \cup {OUTSET}]
    /\ old \in [Threads -> Chunks \cup {NULL}]
    /\ new \in [Threads -> Chunks \cup {NULL}]
    /\ want \in [Chunks -> Nat]
    /\ fl \in [UsedSets -> Seq(Chunks)]

\* The steps a thread takes between taking the lock of pos[t] and giving it
\* back.
Critical == {"alloc_peek", "alloc_pop", "alloc_unlock", "free_link",
             "free_tail", "free_unlock"}
Inside(t, s) == pc[t] \in Critical /\ pos[t] = s

\* The free list of a set is touched by one thread at a time, and its lock is
\* taken exactly while one does (lines 260-269 and 320-332).
MutualExclusion ==
    \A s \in UsedSets :
        /\ lock[s] <=> \E t \in Threads : Inside(t, s)
        /\ \A t1, t2 \in Threads : Inside(t1, s) /\ Inside(t2, s) => t1 = t2

\* Where thread t has a chunk in its hands that is on no free list and in no
\* client's: a block on its way out, or one on its way back.
Carries == {"alloc_unlock", "alloc_account", "free_start", "free_adopt",
            "free_lock", "free_link", "free_tail", "free_account",
            "free_destroy"}
InHands(t) ==
    ((IF pc[t] \in Carries THEN {cur[t]} ELSE {}) \cup {old[t], new[t]}) \ {NULL}

\* One chunk never is in two places: two blocks handed out do not overlap, a
\* block in use is on no free list, and no list holds a chunk twice,
\* whatever the interleaving of alloc, free and realloc.
NoDoubleAllocation ==
    /\ \A s \in UsedSets :
          /\ IsInjective(fl[s])
          /\ Range(fl[s]) \cap held = {}
          /\ \A t \in Threads : Range(fl[s]) \cap InHands(t) = {}
          /\ \A s2 \in UsedSets \ {s} : Range(fl[s]) \cap Range(fl[s2]) = {}
    /\ \A t \in Threads :
          /\ held \cap InHands(t) = {}
          /\ \A t2 \in Threads \ {t} : InHands(t) \cap InHands(t2) = {}
          /\ old[t] # NULL => /\ old[t] # new[t]
                              /\ pc[t] \in Carries => old[t] # cur[t]
          /\ new[t] # NULL => (pc[t] \in Carries => new[t] # cur[t])

\* No chunk is lost and none is used after free: while the pool is open, what
\* malloc has handed out is with the client, in a thread's hands or on a free
\* list, and what is there has not been given back to malloc.
NothingLost ==
    open => live = held \cup (UNION {InHands(t) : t \in Threads})
                        \cup (UNION {Range(fl[s]) : s \in UsedSets})

\* mem_pool_destroy follows the next pointers of the lists to every chunk that
\* is not with the client, and to no block that is.
DestroyLeavesHeld == ~open => live = held

\* While no thread is inside a set, the pointers agree with its list: head
\* and tail are its ends, next links it, and the last chunk ends it.  A popped
\* chunk that keeps its stale next must not leak it into the list again.
ListWellFormed ==
    \A s \in UsedSets :
        ~lock[s] =>
            LET q == fl[s]
            IN  IF q = <<>> THEN chunk_head[s] = NULL /\ chunk_tail[s] = NULL
                ELSE /\ chunk_head[s] = q[1]
                     /\ chunk_tail[s] = q[Len(q)]
                     /\ \A k \in 1 .. (Len(q) - 1) : next[q[k]] = q[k + 1]
                     /\ next[q[Len(q)]] = NULL

\* A list holds only chunks of the size of its class, made for the set or
\* adopted by it; and a block holds what its client last asked for, a large
\* one up to the rounding of mem_pool_realloc.
BlockFits ==
    /\ \A s \in UsedSets : \A c \in Range(fl[s]) :
          size[c] = ChunkSize(s) /\ set_pos[c] = s
    /\ \A c \in held :
          IF size[c] <= MEDIUM_MAX_SIZE THEN want[c] <= size[c]
          ELSE want[c] <= mem_align_size(size[c], ALIGN_SIZE)

\* The counters are exact.  used_size is the memory malloc has handed out for
\* chunks, but for the blocks between their malloc or free and the atomic
\* operation that follows or precedes it; chunk_count counts the chunks that
\* belong to a set, those the client holds included.
CountersExact ==
    open => LET uncounted == {cur[t] : t \in {u \in Threads :
                                 pc[u] \in {"alloc_account", "free_destroy"}}}
            IN  /\ used_size = IdleSize
                       + MapThenSumSet(LAMBDA c : size[c], live \ uncounted)
                /\ \A s \in UsedSets :
                      chunk_count[s] = Cardinality({c \in live : set_pos[c] = s})

\* The check of used_size (line 251) and the addition to it (line 275) are
\* not one step: the pool can outgrow max_size, but by less than one block
\* per thread.
Overshoot ==
    used_size <= InitUsed
    \/ used_size < MaxSize + Cardinality(Threads) * MaxBlock

\* The memory the pool counts is the memory it has, and within bounds: the
\* counters, which threads update in their own time, are exact, and max_size is
\* outgrown by less than a block per thread.
Accounting == CountersExact /\ Overshoot

\* A lock that is taken is given back, and the pool as a whole never hangs: again
\* and again some thread is outside.
KeepsGoing ==
    /\ \A s \in UsedSets : lock[s] ~> ~lock[s]
    /\ []<>(\E t \in Threads : pc[t] = "idle")

\* test/test_mem_pool.c expects a reallocated block to hold the new size.
ReallocHoldsRequest == \A c \in held : want[c] <= size[c]
=============================================================================
