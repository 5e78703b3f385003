--------------------------- MODULE MemPoolProofs ---------------------------
(***************************************************************************)
(* Proofs about the memory pool, for any number of threads, chunks, sets   *)
(* and requests.  The invariants build on one another.                     *)
(*                                                                         *)
(* TypeInv says where each thread is and what its locals hold there, and   *)
(* that every chunk met has the size of a used class or a large one; types *)
(* follow from it, and with it mutual exclusion on each set.               *)
(*                                                                         *)
(* A chunk can be at five kinds of places (At): with the client, in the    *)
(* cur, old or new of a thread, or on the free list of a set.  Exclusive   *)
(* says that it is at one place at most.  Every action either moves one    *)
(* chunk (Moved), or two in turn, or none (NoMove), so Exclusive follows   *)
(* action by action from where the chunk was.  The pointers are needed for *)
(* it: a thread pops the chunk the head points to, and only ListInv makes  *)
(* that chunk one of the list.                                             *)
(*                                                                         *)
(* FitInv says that a block holds what was asked for.  RoomLeft says that  *)
(* max_size is outgrown by less than a block per thread.                   *)
(*                                                                         *)
(* The last parts are about all chunks at once.  The walk of               *)
(* mem_set_destroy meets exactly the chunks of the list (ReachableIs).     *)
(* CountInv makes used_size a sum over the chunks that count; a sum over a *)
(* finite set is the number of the units of its weights (SumIsUnits), so   *)
(* that one chunk more or less changes it by the size of that chunk.       *)
(***************************************************************************)
EXTENDS MemPool, FiniteSetTheorems, NaturalsInduction, WellFoundedInduction, TLAPS

AllocLabels == {"alloc_start", "alloc_lock", "alloc_peek", "alloc_pop",
                "alloc_unlock", "alloc_create", "alloc_account"}
FreeLabels  == {"free_start", "free_adopt", "free_lock", "free_link",
                "free_tail", "free_unlock", "free_account", "free_destroy"}

\* What the locals of thread t hold at each label.
Control(t) ==
    /\ pc[t] \in {"idle", "alloc_start"} => pos[t] = OUTSET
    /\ pc[t] \in AllocLabels => req[t] \in Requests
    /\ pc[t] \in AllocLabels \ {"alloc_start"} => req[t] > 0
    /\ pc[t] \in {"alloc_lock", "alloc_peek", "alloc_pop", "alloc_unlock"}
          => pos[t] \in UsedSets
    /\ pc[t] \in AllocLabels \ {"alloc_start"} =>
          IF req[t] <= MEDIUM_MAX_SIZE
          THEN pos[t] = mem_pool_get_set_by_size(req[t]) ELSE pos[t] = OUTSET
    /\ pc[t] \in {"alloc_pop", "alloc_account"} \cup FreeLabels => cur[t] # NULL
    /\ pc[t] \in {"idle", "alloc_start", "alloc_create"} => cur[t] = NULL
    /\ pc[t] \in {"free_adopt", "free_lock", "free_link", "free_tail",
                  "free_unlock"} => pos[t] \in UsedSets
    /\ pc[t] \in {"idle"} \cup FreeLabels => old[t] = NULL
    /\ pc[t] \notin FreeLabels => new[t] = NULL

\* Every chunk a pointer leads to has been created by mem_chunk_create.
Created(c) == c # NULL => size[c] > 0

Sized ==
    /\ \A c \in Chunks : size[c] > 0 /\ size[c] <= MEDIUM_MAX_SIZE
                            => \E s \in UsedSets : size[c] = ChunkSize(s)
    /\ \A c \in Chunks : Created(next[c])
    /\ \A s \in UsedSets : Created(chunk_head[s]) /\ Created(chunk_tail[s])
    /\ \A c \in held : size[c] > 0
    /\ \A t \in Threads : Created(cur[t]) /\ Created(old[t]) /\ Created(new[t])

TypeInv == TypeOK /\ (\A t \in Threads : Control(t)) /\ Sized

\* The null pointer is no chunk.
LEMMA NullFact == NULL \notin Chunks
  BY PoolAssumption DEF PoolAssumption

\* The used sets are positions of set_table.
LEMMA SetFacts ==
    /\ \A s \in UsedSets : s \in Int /\ 0 <= s /\ s <= 126
    /\ OUTSET = -1 /\ OUTSET \notin UsedSets
  BY PoolAssumption DEF PoolAssumption, SetIndex, SETSIZE, OUTSET

\* A request up to the largest class has a used set.
LEMMA RequestFacts ==
    ASSUME NEW n \in Requests
    PROVE  /\ n \in Nat
           /\ n > 0 /\ n <= MEDIUM_MAX_SIZE
                 => mem_pool_get_set_by_size(n) \in UsedSets
  BY PoolAssumption DEF PoolAssumption, MEDIUM_MAX_SIZE

\* The classes of the used sets: positive, at most MEDIUM_MAX_SIZE, and found
\* again by mem_pool_get_set_by_align_size.
LEMMA ClassFacts ==
    ASSUME NEW s \in UsedSets
    PROVE  /\ ChunkSize(s) \in Nat /\ ChunkSize(s) > 0
           /\ ChunkSize(s) <= MEDIUM_MAX_SIZE
           /\ mem_pool_get_set_by_align_size(ChunkSize(s)) = s
  BY SetFacts DEF ChunkSize, SET_BOUNDARY, TINY_MIN_SIZE, TINY_STEP,
       MEDIUM_MIN_SIZE, MEDIUM_STEP, MEDIUM_MAX_SIZE, TINY_MAX_SIZE,
       mem_pool_get_set_by_align_size

-----------------------------------------------------------------------------
(* TypeInv *)

\* What mem_pool_create puts in a set is in no other.
LEMMA InitListFacts ==
    ASSUME NEW s \in UsedSets
    PROVE  /\ InitList[s] \in Seq(Chunks)
           /\ IsInjective(InitList[s])
           /\ Range(InitList[s]) \subseteq Chunks
           /\ \A s2 \in UsedSets : s # s2
                 => Range(InitList[s]) \cap Range(InitList[s2]) = {}
  <1>1. InitList[s] \in Seq(Chunks) /\ IsInjective(InitList[s])
    BY PoolAssumption DEF PoolAssumption
  <1>2. Range(InitList[s]) \subseteq Chunks
    BY <1>1 DEF Range
  <1>3. \A s2 \in UsedSets : s # s2
            => Range(InitList[s]) \cap Range(InitList[s2]) = {}
    BY PoolAssumption DEF PoolAssumption
  <1> QED BY <1>1, <1>2, <1>3

\* A chunk of mem_pool_create has one set.
LEMMA HomeFacts ==
    ASSUME NEW c \in InitChunks
    PROVE  /\ c \in Chunks
           /\ HomeSet(c) \in UsedSets
           /\ c \in Range(InitList[HomeSet(c)])
           /\ \A s \in UsedSets : c \in Range(InitList[s]) => s = HomeSet(c)
  <1>1. PICK s \in UsedSets : c \in Range(InitList[s])
    BY DEF InitChunks
  <1>2. HomeSet(c) \in UsedSets /\ c \in Range(InitList[HomeSet(c)])
    BY <1>1 DEF HomeSet
  <1>3. c \in Chunks
    BY <1>1, InitListFacts
  <1>4. ASSUME NEW u \in UsedSets, c \in Range(InitList[u])
        PROVE  u = HomeSet(c)
    BY <1>2, <1>4, InitListFacts
  <1> QED BY <1>2, <1>3, <1>4

\* The next of a chunk of a list is a chunk of it or NULL.
LEMMA SuccFacts ==
    ASSUME NEW q \in Seq(Chunks), NEW c \in Range(q)
    PROVE  SuccIn(q, c) \in Chunks \cup {NULL}
  <1> DEFINE k == CHOOSE k \in DOMAIN q : q[k] = c
  <1>1. k \in 1 .. Len(q)
    BY DEF Range
  <1>2. SuccIn(q, c) = IF k = Len(q) THEN NULL ELSE q[k + 1]
    BY DEF SuccIn
  <1> HIDE DEF k
  <1>3. k # Len(q) => k + 1 \in 1 .. Len(q)
    BY <1>1
  <1> QED BY <1>2, <1>3

\* The pool mem_pool_create returns is well typed.
LEMMA TypeInit == Init => TypeInv
  <1> SUFFICES ASSUME Init PROVE TypeInv
    OBVIOUS
  <1>1. size \in [Chunks -> Nat] /\ set_pos \in [Chunks -> UsedSets \cup {OUTSET}]
    BY HomeFacts, ClassFacts DEF Init
  <1>2. next \in [Chunks -> Chunks \cup {NULL}]
    BY HomeFacts, InitListFacts, SuccFacts DEF Init
  <1>3. ASSUME NEW s \in UsedSets
        PROVE  /\ chunk_head[s] \in Chunks \cup {NULL}
               /\ chunk_tail[s] \in Chunks \cup {NULL}
               /\ chunk_head[s] # NULL => chunk_head[s] \in InitChunks
               /\ chunk_tail[s] # NULL => chunk_tail[s] \in InitChunks
    <2> DEFINE q == InitList[s]
    <2>1. q \in Seq(Chunks)
      BY InitListFacts
    <2>2. /\ chunk_head[s] = IF q = <<>> THEN NULL ELSE q[1]
          /\ chunk_tail[s] = IF q = <<>> THEN NULL ELSE q[Len(q)]
      BY <2>1 DEF Init, Last
    <2>3. q # <<>> => 1 \in DOMAIN q /\ Len(q) \in DOMAIN q
      BY <2>1
    <2>4. \A k \in DOMAIN q : q[k] \in InitChunks /\ q[k] \in Chunks
      BY <2>1 DEF InitChunks, Range
    <2> QED BY <2>2, <2>3, <2>4
  <1>4. chunk_count \in [UsedSets -> Nat]
    BY InitListFacts DEF Init
  <1>5. /\ chunk_head \in [UsedSets -> Chunks \cup {NULL}]
        /\ chunk_tail \in [UsedSets -> Chunks \cup {NULL}]
    BY <1>3 DEF Init
  <1>6. fl \in [UsedSets -> Seq(Chunks)] /\ live \subseteq Chunks
    BY HomeFacts, PoolAssumption DEF Init, PoolAssumption
  <1>7. TypeOK
    BY <1>1, <1>2, <1>4, <1>5, <1>6, InitUsedAssumption DEF Init, TypeOK, Labels
  <1>8. \A t \in Threads : Control(t)
    BY DEF Init, Control, AllocLabels, FreeLabels
  <1>9. Sized
    <2>1. \A c \in InitChunks : size[c] = ChunkSize(HomeSet(c)) /\ size[c] > 0
      BY HomeFacts, ClassFacts DEF Init
    <2>2. \A c \in Chunks : size[c] > 0 => c \in InitChunks
      BY DEF Init
    <2>3. \A c \in Chunks : next[c] # NULL => next[c] \in InitChunks
      <3> SUFFICES ASSUME NEW c \in Chunks, next[c] # NULL
                   PROVE  next[c] \in InitChunks
        OBVIOUS
      <3> DEFINE q == InitList[HomeSet(c)]
                 k == CHOOSE k \in DOMAIN q : q[k] = c
      <3>1. c \in InitChunks /\ next[c] = SuccIn(q, c)
        BY DEF Init
      <3>2. q \in Seq(Chunks) /\ c \in Range(q) /\ Range(q) \subseteq InitChunks
        BY <3>1, HomeFacts, InitListFacts DEF InitChunks
      <3> HIDE DEF q
      <3>3. k \in 1 .. Len(q)
        BY <3>2 DEF Range
      <3>4. next[c] = IF k = Len(q) THEN NULL ELSE q[k + 1]
        BY <3>1 DEF SuccIn
      <3> HIDE DEF k
      <3>5. next[c] = q[k + 1] /\ k + 1 \in DOMAIN q
        BY <3>2, <3>3, <3>4
      <3> QED BY <3>2, <3>5 DEF Range
    <2> QED
      BY <1>3, <2>1, <2>2, <2>3, HomeFacts DEF Init, Sized, Created
  <1> QED BY <1>7, <1>8, <1>9 DEF TypeInv

\* AllocCall keeps the types and what the locals hold.
LEMMA TypeAllocCall ==
    ASSUME TypeInv, NEW t \in Threads, NEW n \in Requests, AllocCall(t, n)
    PROVE  TypeInv'
  <1>t. TypeOK
    BY DEF TypeInv
  <1>c. \A u \in Threads : Control(u)
    BY DEF TypeInv
  <1>s. Sized
    BY DEF TypeInv
  <1>1. TypeOK'
    BY RequestFacts, <1>t, <1>c, NullFact, SetFacts DEF TypeOK, Control,
       Labels, AllocLabels, FreeLabels, AllocCall, Goto, setVars, listVars,
       callVars
  <1>2. ASSUME NEW u \in Threads PROVE Control(u)'
    BY <1>t, <1>c, NullFact, SetFacts DEF TypeOK, Control, AllocLabels,
       FreeLabels, AllocCall, Goto, setVars, listVars, callVars
  <1>3. Sized'
    BY <1>t, <1>c, NullFact, SetFacts, <1>s DEF TypeOK, Control, AllocLabels,
       FreeLabels, Sized, Created, AllocCall, Goto, setVars, listVars, callVars
  <1> QED BY <1>1, <1>2, <1>3 DEF TypeInv

\* FreeCall keeps the types and what the locals hold.
LEMMA TypeFreeCall ==
    ASSUME TypeInv, NEW t \in Threads, NEW c \in Chunks, FreeCall(t, c)
    PROVE  TypeInv'
  <1>t. TypeOK
    BY DEF TypeInv
  <1>c. \A u \in Threads : Control(u)
    BY DEF TypeInv
  <1>s. Sized
    BY DEF TypeInv
  <1>1. TypeOK'
    BY <1>t, <1>c, NullFact, SetFacts DEF TypeOK, Control, Labels, AllocLabels,
       FreeLabels, FreeCall, Goto, setVars, listVars, callVars
  <1>2. ASSUME NEW u \in Threads PROVE Control(u)'
    BY <1>t, <1>c, NullFact, SetFacts DEF TypeOK, Control, AllocLabels,
       FreeLabels, FreeCall, Goto, setVars, listVars, callVars
  <1>3. Sized'
    BY <1>t, <1>c, NullFact, SetFacts, <1>s DEF TypeOK, Control, AllocLabels,
       FreeLabels, Sized, Created, FreeCall, Goto, setVars, listVars, callVars
  <1> QED BY <1>1, <1>2, <1>3 DEF TypeInv

\* ReallocInPlace keeps the types and what the locals hold.
LEMMA TypeReallocInPlace ==
    ASSUME TypeInv, NEW t \in Threads, NEW c \in Chunks, NEW n \in Requests,
           ReallocInPlace(t, c, n)
    PROVE  TypeInv'
  <1>t. TypeOK
    BY DEF TypeInv
  <1>c. \A u \in Threads : Control(u)
    BY DEF TypeInv
  <1>s. Sized
    BY DEF TypeInv
  <1>1. TypeOK'
    BY RequestFacts, <1>t, <1>c, NullFact, SetFacts DEF TypeOK, Control,
       Labels, AllocLabels, FreeLabels, ReallocInPlace, Goto, setVars,
       listVars, callVars
  <1>2. ASSUME NEW u \in Threads PROVE Control(u)'
    BY <1>t, <1>c, NullFact, SetFacts DEF TypeOK, Control, AllocLabels,
       FreeLabels, ReallocInPlace, Goto, setVars, listVars, callVars
  <1>3. Sized'
    BY <1>t, <1>c, NullFact, SetFacts, <1>s DEF TypeOK, Control, AllocLabels,
       FreeLabels, Sized, Created, ReallocInPlace, Goto, setVars, listVars,
       callVars
  <1> QED BY <1>1, <1>2, <1>3 DEF TypeInv

\* ReallocMove keeps the types and what the locals hold.
LEMMA TypeReallocMove ==
    ASSUME TypeInv, NEW t \in Threads, NEW c \in Chunks, NEW n \in Requests,
           ReallocMove(t, c, n)
    PROVE  TypeInv'
  <1>t. TypeOK
    BY DEF TypeInv
  <1>c. \A u \in Threads : Control(u)
    BY DEF TypeInv
  <1>s. Sized
    BY DEF TypeInv
  <1>1. TypeOK'
    BY RequestFacts, <1>t, <1>c, NullFact, SetFacts DEF TypeOK, Control,
       Labels, AllocLabels, FreeLabels, ReallocMove, Goto, setVars, listVars,
       callVars
  <1>2. ASSUME NEW u \in Threads PROVE Control(u)'
    BY <1>t, <1>c, NullFact, SetFacts DEF TypeOK, Control, AllocLabels,
       FreeLabels, ReallocMove, Goto, setVars, listVars, callVars
  <1>3. Sized'
    BY <1>t, <1>c, NullFact, SetFacts, <1>s DEF TypeOK, Control, AllocLabels,
       FreeLabels, Sized, Created, ReallocMove, Goto, setVars, listVars,
       callVars
  <1> QED BY <1>1, <1>2, <1>3 DEF TypeInv

\* AllocRefused keeps the types and what the locals hold.
LEMMA TypeAllocRefused ==
    ASSUME TypeInv, NEW t \in Threads, AllocRefused(t)
    PROVE  TypeInv'
  <1>t. TypeOK
    BY DEF TypeInv
  <1>c. \A u \in Threads : Control(u)
    BY DEF TypeInv
  <1>s. Sized
    BY DEF TypeInv
  <1>1. TypeOK'
    BY <1>t, <1>c, NullFact, SetFacts DEF TypeOK, Control, Labels, AllocLabels,
       FreeLabels, AllocRefused, AllocFails, Goto, setVars, listVars, callVars
  <1>2. ASSUME NEW u \in Threads PROVE Control(u)'
    BY <1>t, <1>c, NullFact, SetFacts DEF TypeOK, Control, AllocLabels,
       FreeLabels, AllocRefused, AllocFails, Goto, setVars, listVars, callVars
  <1>3. Sized'
    BY <1>t, <1>c, NullFact, SetFacts, <1>s DEF TypeOK, Control, AllocLabels,
       FreeLabels, Sized, Created, AllocRefused, AllocFails, Goto, setVars,
       listVars, callVars
  <1> QED BY <1>1, <1>2, <1>3 DEF TypeInv

\* AllocStart keeps the types and what the locals hold.
LEMMA TypeAllocStart ==
    ASSUME TypeInv, NEW t \in Threads, AllocStart(t)
    PROVE  TypeInv'
  <1>t. TypeOK
    BY DEF TypeInv
  <1>c. \A u \in Threads : Control(u)
    BY DEF TypeInv
  <1>s. Sized
    BY DEF TypeInv
  <1>0. /\ req[t] \in Nat /\ req[t] > 0 /\ req[t] \in Requests
        /\ req[t] <= MEDIUM_MAX_SIZE
              => mem_pool_get_set_by_size(req[t]) \in UsedSets
    BY RequestFacts, <1>t, <1>c, NullFact, SetFacts DEF TypeOK, Control,
       AllocLabels, AllocStart, Refused
  <1>1. TypeOK'
    BY <1>0, <1>t DEF TypeOK, Labels, AllocStart, Goto, setVars, listVars,
       callVars
  <1>2. ASSUME NEW u \in Threads PROVE Control(u)'
    <2>1. /\ pc[t] = "alloc_start"
          /\ UNCHANGED <<req, cur, old, new>>
          /\ pc' = [pc EXCEPT ![t] = pc'[t]]
          /\ pos' = [pos EXCEPT ![t] = pos'[t]]
          /\ \/ /\ req[t] <= MEDIUM_MAX_SIZE /\ pc'[t] = "alloc_lock"
                /\ pos'[t] = mem_pool_get_set_by_size(req[t])
             \/ /\ req[t] > MEDIUM_MAX_SIZE /\ pc'[t] = "alloc_create"
                /\ pos'[t] = pos[t]
      BY <1>0, <1>t DEF TypeOK, AllocStart, Goto, MEDIUM_MAX_SIZE
    <2>2. CASE u # t
      BY <2>1, <2>2, <1>t, <1>c, NullFact, SetFacts DEF TypeOK, Control
    <2>3. CASE u = t
      <3>1. /\ req'[t] = req[t] /\ old'[t] = old[t] /\ new'[t] = new[t]
            /\ \/ /\ req[t] <= MEDIUM_MAX_SIZE /\ pc'[t] = "alloc_lock"
                  /\ pos'[t] = mem_pool_get_set_by_size(req[t])
               \/ /\ req[t] > MEDIUM_MAX_SIZE /\ pc'[t] = "alloc_create"
                  /\ pos'[t] = OUTSET /\ cur'[t] = NULL
        BY <2>1, <1>c, <1>t DEF TypeOK, Control
      <3>2. new[t] = NULL
        BY <2>1, <1>c DEF Control, FreeLabels
      <3> QED
        BY <1>0, <2>3, <3>1, <3>2 DEF Control, AllocLabels, FreeLabels,
           MEDIUM_MAX_SIZE
    <2> QED BY <2>2, <2>3
  <1>3. Sized'
    BY <1>t, <1>c, NullFact, SetFacts, <1>s DEF TypeOK, Control, AllocLabels,
       FreeLabels, Sized, Created, AllocStart, Refused, Goto, setVars,
       listVars, callVars
  <1> QED BY <1>1, <1>2, <1>3 DEF TypeInv

\* AllocLock keeps the types and what the locals hold.
LEMMA TypeAllocLock ==
    ASSUME TypeInv, NEW t \in Threads, AllocLock(t)
    PROVE  TypeInv'
  <1>t. TypeOK
    BY DEF TypeInv
  <1>c. \A u \in Threads : Control(u)
    BY DEF TypeInv
  <1>s. Sized
    BY DEF TypeInv
  <1>1. TypeOK'
    BY <1>t, <1>c, NullFact, SetFacts DEF TypeOK, Control, Labels, AllocLabels,
       FreeLabels, AllocLock, Acquire, Goto, setVars, listVars, callVars
  <1>2. ASSUME NEW u \in Threads PROVE Control(u)'
    BY <1>t, <1>c, NullFact, SetFacts DEF TypeOK, Control, AllocLabels,
       FreeLabels, AllocLock, Acquire, Goto, setVars, listVars, callVars
  <1>3. Sized'
    BY <1>t, <1>c, NullFact, SetFacts, <1>s DEF TypeOK, Control, AllocLabels,
       FreeLabels, Sized, Created, AllocLock, Acquire, Goto, setVars, listVars,
       callVars
  <1> QED BY <1>1, <1>2, <1>3 DEF TypeInv

\* AllocPeek keeps the types and what the locals hold.
LEMMA TypeAllocPeek ==
    ASSUME TypeInv, NEW t \in Threads, AllocPeek(t)
    PROVE  TypeInv'
  <1>t. TypeOK
    BY DEF TypeInv
  <1>c. \A u \in Threads : Control(u)
    BY DEF TypeInv
  <1>s. Sized
    BY DEF TypeInv
  <1>1. TypeOK'
    BY <1>t, <1>c, NullFact, SetFacts DEF TypeOK, Control, Labels, AllocLabels,
       FreeLabels, AllocPeek, Goto, setVars, listVars, callVars
  <1>2. ASSUME NEW u \in Threads PROVE Control(u)'
    BY <1>t, <1>c, NullFact, SetFacts DEF TypeOK, Control, AllocLabels,
       FreeLabels, AllocPeek, Goto, setVars, listVars, callVars
  <1>3. Sized'
    BY <1>t, <1>c, NullFact, SetFacts, <1>s DEF TypeOK, Control, AllocLabels,
       FreeLabels, Sized, Created, AllocPeek, Goto, setVars, listVars, callVars
  <1> QED BY <1>1, <1>2, <1>3 DEF TypeInv

\* AllocPop keeps the types and what the locals hold.
LEMMA TypeAllocPop ==
    ASSUME TypeInv, NEW t \in Threads, AllocPop(t)
    PROVE  TypeInv'
  <1>t. TypeOK
    BY DEF TypeInv
  <1>c. \A u \in Threads : Control(u)
    BY DEF TypeInv
  <1>s. Sized
    BY DEF TypeInv
  <1>0. cur[t] \in Chunks /\ pos[t] \in UsedSets
    BY <1>t, <1>c, NullFact, SetFacts DEF TypeOK, Control, AllocPop
  <1>1. TypeOK'
    <2>1. fl' \in [UsedSets -> Seq(Chunks)]
      <3>1. fl[pos[t]] \in Seq(Chunks)
        BY <1>0, <1>t DEF TypeOK
      <3>2. SubSeq(fl[pos[t]], 2, Len(fl[pos[t]])) \in Seq(Chunks)
        BY <3>1
      <3> QED BY <3>2, <1>0, <1>t DEF TypeOK, AllocPop
    <2>2. /\ chunk_head' \in [UsedSets -> Chunks \cup {NULL}]
          /\ chunk_tail' \in [UsedSets -> Chunks \cup {NULL}]
      BY <1>0, <1>t DEF TypeOK, AllocPop
    <2>3. pc' \in [Threads -> Labels]
      BY <1>t DEF TypeOK, AllocPop, Goto, Labels
    <2> QED
      BY <2>1, <2>2, <2>3, <1>t DEF TypeOK, AllocPop, setVars, callVars
  <1>2. ASSUME NEW u \in Threads PROVE Control(u)'
    BY <1>t, <1>c, NullFact, SetFacts DEF TypeOK, Control, AllocLabels,
       FreeLabels, AllocPop, Goto, setVars, listVars, callVars
  <1>3. Sized'
    BY <1>t, <1>c, NullFact, SetFacts, <1>s DEF TypeOK, Control, AllocLabels,
       FreeLabels, Sized, Created, AllocPop, Goto, setVars, listVars, callVars
  <1> QED BY <1>1, <1>2, <1>3 DEF TypeInv

\* Where a successful alloc leaves the threads.
LEMMA SucceedsControl ==
    ASSUME TypeOK, \A u \in Threads : Control(u),
           NEW t \in Threads, AllocSucceeds(t, cur[t]),
           pc[t] \in {"alloc_unlock", "alloc_account"}, NEW u \in Threads
    PROVE  Control(u)'
  <1>1. CASE u # t
    BY <1>1 DEF TypeOK, Control, AllocSucceeds, Goto
  <1>2. CASE u = t
    <2>1. Control(t) /\ old[t] \in Chunks \cup {NULL}
      BY DEF TypeOK
    <2>2. /\ old'[t] = NULL /\ pos'[t] = OUTSET /\ cur'[t] = old[t]
          /\ old[t] = NULL => pc'[t] = "idle" /\ new'[t] = new[t]
          /\ old[t] # NULL => pc'[t] = "free_start"
      BY DEF TypeOK, AllocSucceeds, Goto
    <2>3. new[t] = NULL
      BY <2>1 DEF Control, FreeLabels
    <2> QED
      BY <1>2, <2>2, <2>3 DEF Control, AllocLabels, FreeLabels
  <1> QED BY <1>1, <1>2

\* AllocUnlock keeps the types and what the locals hold.
LEMMA TypeAllocUnlock ==
    ASSUME TypeInv, NEW t \in Threads, AllocUnlock(t)
    PROVE  TypeInv'
  <1>t. TypeOK
    BY DEF TypeInv
  <1>c. \A u \in Threads : Control(u)
    BY DEF TypeInv
  <1>s. Sized
    BY DEF TypeInv
  <1>0. CASE cur[t] = NULL
    <2>1. TypeOK'
      BY <1>0, <1>t DEF TypeOK, Labels, AllocUnlock, Release, Goto, setVars,
         listVars, callVars
    <2>2. ASSUME NEW u \in Threads PROVE Control(u)'
      BY <1>0, <1>t, <1>c, NullFact, SetFacts DEF TypeOK, Control, AllocLabels,
         FreeLabels, AllocUnlock, Goto, setVars, listVars, callVars
    <2>3. Sized'
      BY <1>0, <1>s DEF Sized, Created, AllocUnlock, setVars, listVars
    <2> QED BY <2>1, <2>2, <2>3 DEF TypeInv
  <1>1. CASE cur[t] # NULL
    <2>0. cur[t] \in Chunks /\ AllocSucceeds(t, cur[t]) /\ size[cur[t]] > 0
      BY <1>1, <1>t, <1>s DEF TypeOK, AllocUnlock, Sized, Created
    <2>1. TypeOK'
      <3>1. lock' \in [UsedSets -> BOOLEAN]
        BY <1>t DEF TypeOK, AllocUnlock, Release
      <3>2. want' \in [Chunks -> Nat]
        BY <2>0, <1>t DEF TypeOK, AllocSucceeds
      <3>3. pc' \in [Threads -> Labels] /\ held' \subseteq Chunks
            /\ new' \in [Threads -> Chunks \cup {NULL}]
        BY <2>0, <1>t DEF TypeOK, AllocSucceeds, Goto, Labels
      <3>4. /\ req' \in [Threads -> Nat]
            /\ pos' \in [Threads -> UsedSets \cup {OUTSET}]
            /\ cur' \in [Threads -> Chunks \cup {NULL}]
            /\ old' \in [Threads -> Chunks \cup {NULL}]
        BY <2>0, <1>t DEF TypeOK, AllocSucceeds
      <3> QED
        BY <3>1, <3>2, <3>3, <3>4, <1>t DEF TypeOK, AllocUnlock, listVars
    <2>2. ASSUME NEW u \in Threads PROVE Control(u)'
      BY <2>0, <1>t, <1>c, SucceedsControl DEF AllocUnlock
    <2>3. Sized'
      BY <2>0, <1>t, <1>s DEF TypeOK, Sized, Created, AllocUnlock,
         AllocSucceeds, listVars
    <2> QED BY <2>1, <2>2, <2>3 DEF TypeInv
  <1> QED BY <1>0, <1>1

\* AllocCreate keeps the types and what the locals hold.
LEMMA TypeAllocCreate ==
    ASSUME TypeInv, NEW t \in Threads, NEW c \in Chunks, AllocCreate(t, c)
    PROVE  TypeInv'
  <1>t. TypeOK
    BY DEF TypeInv
  <1>c. \A u \in Threads : Control(u)
    BY DEF TypeInv
  <1>s. Sized
    BY DEF TypeInv
  <1>0. /\ AlignSize(t) \in Nat /\ AlignSize(t) > 0
        /\ AlignSize(t) <= MEDIUM_MAX_SIZE
              => \E s \in UsedSets : AlignSize(t) = ChunkSize(s)
    <2>1. /\ req[t] \in Requests /\ req[t] \in Nat /\ req[t] > 0
          /\ IF req[t] <= MEDIUM_MAX_SIZE
             THEN pos[t] = mem_pool_get_set_by_size(req[t])
             ELSE pos[t] = OUTSET
      BY <1>t, <1>c, NullFact, SetFacts DEF TypeOK, Control, AllocLabels,
         AllocCreate
    <2>2. CASE req[t] <= MEDIUM_MAX_SIZE
      <3>1. pos[t] \in UsedSets /\ pos[t] # OUTSET
        BY SetFacts, RequestFacts, <2>1, <2>2
      <3> QED BY <3>1, ClassFacts DEF AlignSize
    <2>3. CASE req[t] > MEDIUM_MAX_SIZE
      BY <2>1, <2>3 DEF AlignSize, MEDIUM_MAX_SIZE
    <2> QED BY <2>1, <2>2, <2>3 DEF MEDIUM_MAX_SIZE
  <1> HIDE DEF AlignSize
  <1>1. TypeOK'
    BY <1>0, <1>t DEF TypeOK, Labels, AllocCreate, Goto, setVars, listVars,
       callVars
  <1>2. ASSUME NEW u \in Threads PROVE Control(u)'
    BY <1>t, <1>c, NullFact, SetFacts DEF TypeOK, Control, AllocLabels,
       FreeLabels, AllocCreate, Goto, setVars, listVars, callVars
  <1>3. Sized'
    <2>1. \A d \in Chunks : size'[d] = IF d = c THEN AlignSize(t) ELSE size[d]
      BY <1>t DEF AllocCreate, TypeOK
    <2>2. \A d \in Chunks \cup {NULL} : Created(d) => Created(d)'
      BY <1>0, <2>1 DEF Created
    <2>3. \A d \in Chunks : size'[d] > 0 /\ size'[d] <= MEDIUM_MAX_SIZE
                               => \E s \in UsedSets : size'[d] = ChunkSize(s)
      BY <1>0, <2>1, <1>s DEF Sized
    <2>4. \A d \in Chunks : Created(next[d])'
      <3> SUFFICES ASSUME NEW d \in Chunks PROVE Created(next[d])'
        OBVIOUS
      <3>1. next'[d] = IF d = c THEN NULL ELSE next[d]
        BY <1>t DEF AllocCreate, TypeOK
      <3>2. next[d] \in Chunks \cup {NULL} /\ Created(next[d])
        BY <1>t, <1>s DEF TypeOK, Sized
      <3>3. Created(next[d]) => (next[d] # NULL => size'[next[d]] > 0)
        BY <3>2, <2>1, <1>0 DEF Created
      <3> QED BY <3>1, <3>2, <3>3 DEF Created
    <2>5. \A u \in Threads : Created(cur[u])' /\ Created(old[u])' /\ Created(new[u])'
      BY <1>0, <2>1, <1>t, <1>s DEF AllocCreate, TypeOK, Sized, Created,
         callVars
    <2>6. \A s \in UsedSets : Created(chunk_head[s])' /\ Created(chunk_tail[s])'
      BY <1>0, <2>1, <1>t, <1>s DEF AllocCreate, TypeOK, Sized, Created, setVars
    <2>7. \A d \in held' : size'[d] > 0
      BY <1>0, <2>1, <1>t, <1>s DEF AllocCreate, TypeOK, Sized
    <2> QED BY <2>3, <2>4, <2>5, <2>6, <2>7, <1>s DEF Sized
  <1> QED BY <1>1, <1>2, <1>3 DEF TypeInv

\* AllocCreateFails keeps the types and what the locals hold.
LEMMA TypeAllocCreateFails ==
    ASSUME TypeInv, NEW t \in Threads, AllocCreateFails(t)
    PROVE  TypeInv'
  <1>t. TypeOK
    BY DEF TypeInv
  <1>c. \A u \in Threads : Control(u)
    BY DEF TypeInv
  <1>s. Sized
    BY DEF TypeInv
  <1>1. TypeOK'
    BY <1>t, <1>c, NullFact, SetFacts DEF TypeOK, Control, Labels, AllocLabels,
       FreeLabels, AllocCreateFails, AllocFails, Goto, setVars, listVars,
       callVars
  <1>2. ASSUME NEW u \in Threads PROVE Control(u)'
    BY <1>t, <1>c, NullFact, SetFacts DEF TypeOK, Control, AllocLabels,
       FreeLabels, AllocCreateFails, AllocFails, Goto, setVars, listVars,
       callVars
  <1>3. Sized'
    BY <1>t, <1>c, NullFact, SetFacts, <1>s DEF TypeOK, Control, AllocLabels,
       FreeLabels, Sized, Created, AllocCreateFails, AllocFails, Goto, setVars,
       listVars, callVars
  <1> QED BY <1>1, <1>2, <1>3 DEF TypeInv

\* AllocAccount keeps the types and what the locals hold.
LEMMA TypeAllocAccount ==
    ASSUME TypeInv, NEW t \in Threads, AllocAccount(t)
    PROVE  TypeInv'
  <1>t. TypeOK
    BY DEF TypeInv
  <1>c. \A u \in Threads : Control(u)
    BY DEF TypeInv
  <1>s. Sized
    BY DEF TypeInv
  <1>0. cur[t] \in Chunks /\ cur[t] # NULL
    BY <1>t, <1>c, NullFact, SetFacts DEF TypeOK, Control, AllocLabels,
       AllocAccount
  <1>1. TypeOK'
    <2>1. used_size' \in Int
      BY <1>0, <1>t DEF TypeOK, AllocAccount
    <2>2. want' \in [Chunks -> Nat]
      BY <1>0, <1>t DEF TypeOK, AllocAccount, AllocSucceeds
    <2>3. pc' \in [Threads -> Labels] /\ held' \subseteq Chunks
          /\ new' \in [Threads -> Chunks \cup {NULL}]
      BY <1>0, <1>t DEF TypeOK, AllocAccount, AllocSucceeds, Goto, Labels
    <2>4. /\ req' \in [Threads -> Nat]
          /\ pos' \in [Threads -> UsedSets \cup {OUTSET}]
          /\ cur' \in [Threads -> Chunks \cup {NULL}]
          /\ old' \in [Threads -> Chunks \cup {NULL}]
      BY <1>t DEF TypeOK, AllocAccount, AllocSucceeds
    <2> QED
      BY <2>1, <2>2, <2>3, <2>4, <1>t DEF TypeOK, AllocAccount, setVars
  <1>2. ASSUME NEW u \in Threads PROVE Control(u)'
    BY <1>t, <1>c, SucceedsControl DEF AllocAccount
  <1>3. Sized'
    BY <1>t, <1>c, NullFact, SetFacts, <1>s DEF TypeOK, Control, AllocLabels,
       FreeLabels, Sized, Created, AllocAccount, AllocSucceeds, Goto, setVars,
       listVars, callVars
  <1> QED BY <1>1, <1>2, <1>3 DEF TypeInv

\* FreeStart keeps the types and what the locals hold.
LEMMA TypeFreeStart ==
    ASSUME TypeInv, NEW t \in Threads, FreeStart(t)
    PROVE  TypeInv'
  <1>t. TypeOK
    BY DEF TypeInv
  <1>c. \A u \in Threads : Control(u)
    BY DEF TypeInv
  <1>s. Sized
    BY DEF TypeInv
  <1>0. cur[t] \in Chunks /\ size[cur[t]] \in Nat /\ size[cur[t]] > 0
    BY <1>t, <1>c, NullFact, SetFacts, <1>s DEF TypeOK, Control, FreeLabels,
       FreeStart, Sized, Created
  <1>1. size[cur[t]] <= MEDIUM_MAX_SIZE
          => mem_pool_get_set_by_align_size(size[cur[t]]) \in UsedSets
    BY <1>0, ClassFacts, <1>s DEF Sized
  <1>2. /\ pos' = [pos EXCEPT ![t] = pos'[t]]
        /\ pos'[t] \in UsedSets \cup {OUTSET}
        /\ pc' = [pc EXCEPT ![t] = pc'[t]]
        /\ pc'[t] \in {"free_lock", "free_adopt", "free_account"}
        /\ pc'[t] # "free_account" => pos'[t] \in UsedSets
    <2>1. CASE size[cur[t]] > MEDIUM_MAX_SIZE
      BY <2>1, <1>0, <1>t DEF FreeStart, TypeOK, Goto, MEDIUM_MAX_SIZE
    <2>2. CASE size[cur[t]] <= MEDIUM_MAX_SIZE /\ set_pos[cur[t]] > OUTSET
      <3>1. set_pos[cur[t]] \in UsedSets
        BY SetFacts, <1>0, <2>2, <1>t DEF TypeOK
      <3>2. /\ pos' = [pos EXCEPT ![t] = set_pos[cur[t]]]
            /\ pc' = [pc EXCEPT ![t] = "free_lock"]
        BY <2>2, <1>0, SetFacts DEF FreeStart, Goto, MEDIUM_MAX_SIZE
      <3> QED BY <3>1, <3>2, <1>t DEF TypeOK
    <2>3. CASE size[cur[t]] <= MEDIUM_MAX_SIZE /\ set_pos[cur[t]] = OUTSET
      <3>1. /\ pos' = [pos EXCEPT ![t] = mem_pool_get_set_by_align_size(size[cur[t]])]
            /\ \/ pc' = [pc EXCEPT ![t] = "free_account"]
               \/ pc' = [pc EXCEPT ![t] = "free_adopt"]
        BY <2>3, <1>0, SetFacts DEF FreeStart, Goto, MEDIUM_MAX_SIZE
      <3> QED BY <2>3, <1>1, <3>1, <1>t DEF TypeOK
    <2> QED BY <2>1, <2>2, <2>3, <1>0 DEF FreeStart
  <1>3. /\ pc[t] = "free_start"
        /\ UNCHANGED <<live, size, set_pos, next, setVars, used_size, open,
                       held, req, cur, old, new, want, fl>>
    BY DEF FreeStart
  <1>4. TypeOK'
    BY <1>2, <1>3, <1>t DEF TypeOK, Labels, setVars
  <1>5. ASSUME NEW u \in Threads PROVE Control(u)'
    BY <1>2, <1>3, <1>t, <1>c, NullFact, SetFacts DEF TypeOK, Control,
       AllocLabels, FreeLabels
  <1>6. Sized'
    BY <1>3, <1>s DEF Sized, Created, setVars
  <1> QED BY <1>4, <1>5, <1>6 DEF TypeInv

\* FreeAdopt keeps the types and what the locals hold.
LEMMA TypeFreeAdopt ==
    ASSUME TypeInv, NEW t \in Threads, FreeAdopt(t)
    PROVE  TypeInv'
  <1>t. TypeOK
    BY DEF TypeInv
  <1>c. \A u \in Threads : Control(u)
    BY DEF TypeInv
  <1>s. Sized
    BY DEF TypeInv
  <1>0. cur[t] \in Chunks /\ pos[t] \in UsedSets
    BY <1>t, <1>c, NullFact, SetFacts DEF TypeOK, Control, FreeLabels, FreeAdopt
  <1>1. TypeOK'
    <2>1. chunk_count' \in [UsedSets -> Nat]
      BY <1>0, <1>t DEF TypeOK, FreeAdopt
    <2>2. set_pos' \in [Chunks -> UsedSets \cup {OUTSET}]
      BY <1>0, <1>t DEF TypeOK, FreeAdopt
    <2>3. pc' \in [Threads -> Labels]
      BY <1>t DEF TypeOK, FreeAdopt, Goto, Labels
    <2> QED
      BY <2>1, <2>2, <2>3, <1>t DEF TypeOK, FreeAdopt, setVars, listVars,
         callVars
  <1>2. ASSUME NEW u \in Threads PROVE Control(u)'
    BY <1>t, <1>c, NullFact, SetFacts DEF TypeOK, Control, AllocLabels,
       FreeLabels, FreeAdopt, Goto, setVars, listVars, callVars
  <1>3. Sized'
    BY <1>t, <1>c, NullFact, SetFacts, <1>s DEF TypeOK, Control, AllocLabels,
       FreeLabels, Sized, Created, FreeAdopt, Goto, setVars, listVars, callVars
  <1> QED BY <1>1, <1>2, <1>3 DEF TypeInv

\* FreeLock keeps the types and what the locals hold.
LEMMA TypeFreeLock ==
    ASSUME TypeInv, NEW t \in Threads, FreeLock(t)
    PROVE  TypeInv'
  <1>t. TypeOK
    BY DEF TypeInv
  <1>c. \A u \in Threads : Control(u)
    BY DEF TypeInv
  <1>s. Sized
    BY DEF TypeInv
  <1>1. TypeOK'
    BY <1>t, <1>c, NullFact, SetFacts DEF TypeOK, Control, Labels, AllocLabels,
       FreeLabels, FreeLock, Acquire, Goto, setVars, listVars, callVars
  <1>2. ASSUME NEW u \in Threads PROVE Control(u)'
    BY <1>t, <1>c, NullFact, SetFacts DEF TypeOK, Control, AllocLabels,
       FreeLabels, FreeLock, Acquire, Goto, setVars, listVars, callVars
  <1>3. Sized'
    BY <1>t, <1>c, NullFact, SetFacts, <1>s DEF TypeOK, Control, AllocLabels,
       FreeLabels, Sized, Created, FreeLock, Acquire, Goto, setVars, listVars,
       callVars
  <1> QED BY <1>1, <1>2, <1>3 DEF TypeInv

\* FreeLink keeps the types and what the locals hold.
LEMMA TypeFreeLink ==
    ASSUME TypeInv, NEW t \in Threads, FreeLink(t)
    PROVE  TypeInv'
  <1>t. TypeOK
    BY DEF TypeInv
  <1>c. \A u \in Threads : Control(u)
    BY DEF TypeInv
  <1>s. Sized
    BY DEF TypeInv
  <1>0. cur[t] \in Chunks /\ pos[t] \in UsedSets
    BY <1>t, <1>c, NullFact, SetFacts DEF TypeOK, Control, FreeLabels, FreeLink
  <1>1. TypeOK'
    BY <1>0, <1>t DEF TypeOK, Labels, FreeLink, Goto, setVars, listVars,
       callVars
  <1>2. ASSUME NEW u \in Threads PROVE Control(u)'
    BY <1>t, <1>c, NullFact, SetFacts DEF TypeOK, Control, AllocLabels,
       FreeLabels, FreeLink, Goto, setVars, listVars, callVars
  <1>3. Sized'
    <2>1. size[cur[t]] > 0
      BY <1>t, <1>0, <1>s, NullFact DEF Sized, Created
    <2>2. \A c \in Chunks : Created(next[c])'
      BY <1>0, <2>1, <1>t, <1>s DEF TypeOK, FreeLink, Sized, Created
    <2>3. \A s \in UsedSets : Created(chunk_head[s])' /\ Created(chunk_tail[s])'
      BY <1>0, <2>1, <1>t, <1>s DEF TypeOK, FreeLink, Sized, Created
    <2> QED
      BY <2>2, <2>3, <1>s DEF FreeLink, Sized, Created, setVars, callVars
  <1> QED BY <1>1, <1>2, <1>3 DEF TypeInv

\* FreeTail keeps the types and what the locals hold.
LEMMA TypeFreeTail ==
    ASSUME TypeInv, NEW t \in Threads, FreeTail(t)
    PROVE  TypeInv'
  <1>t. TypeOK
    BY DEF TypeInv
  <1>c. \A u \in Threads : Control(u)
    BY DEF TypeInv
  <1>s. Sized
    BY DEF TypeInv
  <1>0. cur[t] \in Chunks /\ pos[t] \in UsedSets
    BY <1>t, <1>c, NullFact, SetFacts DEF TypeOK, Control, FreeLabels, FreeTail
  <1>1. TypeOK'
    <2>1. fl' \in [UsedSets -> Seq(Chunks)]
      BY <1>0, <1>t DEF TypeOK, FreeTail
    <2>2. next' \in [Chunks -> Chunks \cup {NULL}]
      BY <1>0, <1>t DEF TypeOK, FreeTail
    <2>3. chunk_tail' \in [UsedSets -> Chunks \cup {NULL}]
      BY <1>0, <1>t DEF TypeOK, FreeTail
    <2>4. pc' \in [Threads -> Labels]
      BY <1>t DEF TypeOK, FreeTail, Goto, Labels
    <2> QED
      BY <2>1, <2>2, <2>3, <2>4, <1>t DEF TypeOK, FreeTail, setVars, listVars,
         callVars
  <1>2. ASSUME NEW u \in Threads PROVE Control(u)'
    BY <1>t, <1>c, NullFact, SetFacts DEF TypeOK, Control, AllocLabels,
       FreeLabels, FreeTail, Goto, setVars, listVars, callVars
  <1>3. Sized'
    BY <1>t, <1>c, NullFact, SetFacts, <1>s DEF TypeOK, Control, AllocLabels,
       FreeLabels, Sized, Created, FreeTail, Goto, setVars, listVars, callVars
  <1> QED BY <1>1, <1>2, <1>3 DEF TypeInv

\* FreeUnlock keeps the types and what the locals hold.
LEMMA TypeFreeUnlock ==
    ASSUME TypeInv, NEW t \in Threads, FreeUnlock(t)
    PROVE  TypeInv'
  <1>t. TypeOK
    BY DEF TypeInv
  <1>c. \A u \in Threads : Control(u)
    BY DEF TypeInv
  <1>s. Sized
    BY DEF TypeInv
  <1>1. TypeOK'
    BY <1>t, <1>c, NullFact, SetFacts DEF TypeOK, Control, Labels, AllocLabels,
       FreeLabels, FreeUnlock, FreeReturns, Release, Goto, setVars, listVars,
       callVars
  <1>2. ASSUME NEW u \in Threads PROVE Control(u)'
    BY <1>t, <1>c, NullFact, SetFacts DEF TypeOK, Control, AllocLabels,
       FreeLabels, FreeUnlock, FreeReturns, Release, Goto, setVars, listVars,
       callVars
  <1>3. Sized'
    BY <1>t, <1>c, NullFact, SetFacts, <1>s DEF TypeOK, Control, AllocLabels,
       FreeLabels, Sized, Created, FreeUnlock, FreeReturns, Release, Goto,
       setVars, listVars, callVars
  <1> QED BY <1>1, <1>2, <1>3 DEF TypeInv

\* FreeAccount keeps the types and what the locals hold.
LEMMA TypeFreeAccount ==
    ASSUME TypeInv, NEW t \in Threads, FreeAccount(t)
    PROVE  TypeInv'
  <1>t. TypeOK
    BY DEF TypeInv
  <1>c. \A u \in Threads : Control(u)
    BY DEF TypeInv
  <1>s. Sized
    BY DEF TypeInv
  <1>0. cur[t] \in Chunks
    BY <1>t, <1>c, NullFact, SetFacts DEF TypeOK, Control, FreeLabels,
       FreeAccount
  <1>1. TypeOK'
    <2>1. used_size' \in Int
      BY <1>0, <1>t DEF TypeOK, FreeAccount
    <2> QED BY <2>1, <1>t DEF TypeOK, Labels, FreeAccount, Goto, setVars,
           listVars, callVars
  <1>2. ASSUME NEW u \in Threads PROVE Control(u)'
    BY <1>t, <1>c, NullFact, SetFacts DEF TypeOK, Control, AllocLabels,
       FreeLabels, FreeAccount, Goto, setVars, listVars, callVars
  <1>3. Sized'
    BY <1>t, <1>c, NullFact, SetFacts, <1>s DEF TypeOK, Control, AllocLabels,
       FreeLabels, Sized, Created, FreeAccount, Goto, setVars, listVars,
       callVars
  <1> QED BY <1>1, <1>2, <1>3 DEF TypeInv

\* FreeDestroy keeps the types and what the locals hold.
LEMMA TypeFreeDestroy ==
    ASSUME TypeInv, NEW t \in Threads, FreeDestroy(t)
    PROVE  TypeInv'
  <1>t. TypeOK
    BY DEF TypeInv
  <1>c. \A u \in Threads : Control(u)
    BY DEF TypeInv
  <1>s. Sized
    BY DEF TypeInv
  <1>1. TypeOK'
    BY <1>t, <1>c, NullFact, SetFacts DEF TypeOK, Control, Labels, AllocLabels,
       FreeLabels, FreeDestroy, FreeReturns, Goto, setVars, listVars, callVars
  <1>2. ASSUME NEW u \in Threads PROVE Control(u)'
    BY <1>t, <1>c, NullFact, SetFacts DEF TypeOK, Control, AllocLabels,
       FreeLabels, FreeDestroy, FreeReturns, Goto, setVars, listVars, callVars
  <1>3. Sized'
    BY <1>t, <1>c, NullFact, SetFacts, <1>s DEF TypeOK, Control, AllocLabels,
       FreeLabels, Sized, Created, FreeDestroy, FreeReturns, Goto, setVars,
       listVars, callVars
  <1> QED BY <1>1, <1>2, <1>3 DEF TypeInv

\* A step that changes nothing does.
LEMMA TypeStutter ==
    ASSUME TypeInv, Destroy \/ UNCHANGED vars
    PROVE  TypeInv'
  <1>1. TypeOK'
    BY DEF TypeInv, TypeOK, Destroy, vars, setVars
  <1>2. ASSUME NEW u \in Threads PROVE Control(u)'
    BY DEF TypeInv, Control, Destroy, vars
  <1>3. Sized'
    BY DEF TypeInv, Sized, Created, Destroy, vars, setVars
  <1> QED BY <1>1, <1>2, <1>3 DEF TypeInv

\* No step leaves TypeInv.
LEMMA TypeNext ==
    ASSUME TypeInv, [Next]_vars
    PROVE  TypeInv'
  <1>1. ASSUME NEW t \in Threads, Call(t) PROVE TypeInv'
    BY <1>1, TypeAllocCall, TypeFreeCall, TypeReallocInPlace, TypeReallocMove
       DEF Call
  <1>2. ASSUME NEW t \in Threads, AllocStep(t) PROVE TypeInv'
    BY <1>2, TypeAllocRefused, TypeAllocStart, TypeAllocLock, TypeAllocPeek,
       TypeAllocPop, TypeAllocUnlock, TypeAllocCreate, TypeAllocCreateFails,
       TypeAllocAccount DEF AllocStep
  <1>3. ASSUME NEW t \in Threads, FreeStep(t) PROVE TypeInv'
    BY <1>3, TypeFreeStart, TypeFreeAdopt, TypeFreeLock, TypeFreeLink,
       TypeFreeTail, TypeFreeUnlock, TypeFreeAccount, TypeFreeDestroy
       DEF FreeStep
  <1> QED
    BY <1>1, <1>2, <1>3, TypeStutter DEF Next, Destroyed

\* TypeInv holds for good.
LEMMA TypeInvariant == Spec => []TypeInv
  <1> QED BY TypeInit, TypeNext, PTL DEF Spec

\* The types of the pool hold in every reachable state.
THEOREM TypeCorrect == Spec => []TypeOK
  <1>1. TypeInv => TypeOK
    BY DEF TypeInv
  <1> QED BY <1>1, TypeInvariant, PTL

-----------------------------------------------------------------------------
(* Mutual exclusion on the sets: a thread enters, leaves or stays *)

\* A thread that takes the lock of a set comes inside, where no other is.
LEMMA LockEnter ==
    ASSUME MutualExclusion, TypeOK, NEW t \in Threads, NEW s \in UsedSets,
           pos[t] = s, pos' = pos, Acquire(s), pc[t] \notin Critical,
           NEW l \in Critical, Goto(t, l)
    PROVE  MutualExclusion'
  <1>1. \A u \in Threads, r \in UsedSets :
            Inside(u, r)' <=> Inside(u, r) \/ (u = t /\ r = s)
    BY DEF Inside, TypeOK, Goto
  <1>2. \A r \in UsedSets : lock'[r] <=> lock[r] \/ r = s
    BY DEF Acquire, TypeOK
  <1>3. ~ \E u \in Threads : Inside(u, s)
    BY DEF MutualExclusion, Acquire
  <1> QED BY <1>1, <1>2, <1>3 DEF MutualExclusion

\* A thread that gives it back goes outside.
LEMMA LockLeave ==
    ASSUME MutualExclusion, TypeOK, NEW t \in Threads, Release(pos[t]),
           pos[t] \in UsedSets, pc[t] \in Critical, pc'[t] \notin Critical,
           \A u \in Threads \ {t} : pc'[u] = pc[u] /\ pos'[u] = pos[u]
    PROVE  MutualExclusion'
  <1>1. \A u \in Threads, r \in UsedSets :
            Inside(u, r)' <=> Inside(u, r) /\ u # t
    BY DEF Inside
  <1>2. \A r \in UsedSets : lock'[r] <=> lock[r] /\ r # pos[t]
    BY DEF Release, TypeOK
  <1>3. Inside(t, pos[t])
    BY DEF Inside
  <1>4. \A u \in Threads, r \in UsedSets :
            Inside(u, r) => (u = t <=> r = pos[t])
    BY <1>3 DEF MutualExclusion, Inside
  <1> QED BY <1>1, <1>2, <1>4 DEF MutualExclusion

\* A step that does neither leaves everybody where he is.
LEMMA LockStay ==
    ASSUME MutualExclusion, lock' = lock, NEW t \in Threads,
           pc'[t] \in Critical <=> pc[t] \in Critical,
           pc[t] \in Critical => pos'[t] = pos[t],
           \A u \in Threads \ {t} : pc'[u] = pc[u] /\ pos'[u] = pos[u]
    PROVE  MutualExclusion'
  <1>1. \A u \in Threads, r \in UsedSets : Inside(u, r)' <=> Inside(u, r)
    BY DEF Inside
  <1> QED BY <1>1 DEF MutualExclusion

\* No step brings a second thread inside a set.
LEMMA LockNext ==
    ASSUME TypeInv, MutualExclusion, [Next]_vars
    PROVE  MutualExclusion'
  <1>t. TypeOK /\ \A u \in Threads : Control(u)
    BY DEF TypeInv
  <1>1. ASSUME NEW t \in Threads, Call(t) PROVE MutualExclusion'
    <2>1. CASE \E n \in Requests : AllocCall(t, n)
      BY <2>1, <1>t, LockStay DEF AllocCall, TypeOK, Goto, setVars, Critical
    <2>2. CASE \E c \in Chunks : FreeCall(t, c)
      BY <2>2, <1>t, LockStay DEF FreeCall, TypeOK, Goto, setVars, callVars,
           Critical
    <2>3. CASE \E c \in Chunks, n \in Requests : ReallocInPlace(t, c, n)
      BY <2>3, <1>t, LockStay DEF ReallocInPlace, TypeOK, setVars
    <2>4. CASE \E c \in Chunks, n \in Requests : ReallocMove(t, c, n)
      BY <2>4, <1>t, LockStay DEF ReallocMove, TypeOK, Goto, setVars, Critical
    <2> QED
      BY <1>1, <2>1, <2>2, <2>3, <2>4 DEF Call
  <1>2. ASSUME NEW t \in Threads, AllocStep(t) PROVE MutualExclusion'
    <2>1. CASE AllocLock(t)
      BY <2>1, <1>t, LockEnter DEF AllocLock, Control, callVars, Critical
    <2>2. CASE AllocUnlock(t)
      <3>1. pc[t] \in Critical /\ pos[t] \in UsedSets /\ Release(pos[t])
        BY <2>2, <1>t DEF AllocUnlock, Control, Critical
      <3>2. /\ pc'[t] \notin Critical
            /\ \A u \in Threads \ {t} : pc'[u] = pc[u] /\ pos'[u] = pos[u]
        BY <2>2, <1>t DEF AllocUnlock, AllocSucceeds, TypeOK, Goto, Critical
      <3> QED BY <3>1, <3>2, <1>t, LockLeave
    <2>3. CASE AllocRefused(t) \/ AllocCreateFails(t)
      BY <2>3, <1>t, LockStay DEF AllocRefused, AllocCreateFails, AllocFails,
           TypeOK, Goto, setVars, Critical
    <2>4. CASE AllocStart(t)
      BY <2>4, <1>t, LockStay DEF AllocStart, TypeOK, Goto, setVars, Critical
    <2>5. CASE AllocPeek(t) \/ AllocPop(t)
      BY <2>5, <1>t, LockStay DEF AllocPeek, AllocPop, TypeOK, Goto, setVars,
           callVars, Critical
    <2>6. CASE \E c \in Chunks : AllocCreate(t, c)
      <3>1. /\ lock' = lock /\ pos' = pos /\ pc[t] = "alloc_create"
            /\ pc' = [pc EXCEPT ![t] = "alloc_account"]
        BY <2>6 DEF AllocCreate, Goto, setVars, callVars
      <3>2. /\ pc'[t] = "alloc_account"
            /\ \A u \in Threads \ {t} : pc'[u] = pc[u] /\ pos'[u] = pos[u]
        BY <3>1, <1>t DEF TypeOK
      <3> QED BY <3>1, <3>2, LockStay DEF Critical
    <2>7. CASE AllocAccount(t)
      BY <2>7, <1>t, LockStay DEF AllocAccount, AllocSucceeds, TypeOK, Goto,
           setVars, Critical
    <2> QED
      BY <1>2, <2>1, <2>2, <2>3, <2>4, <2>5, <2>6, <2>7 DEF AllocStep
  <1>3. ASSUME NEW t \in Threads, FreeStep(t) PROVE MutualExclusion'
    <2>1. CASE FreeLock(t)
      BY <2>1, <1>t, LockEnter DEF FreeLock, Control, callVars, Critical
    <2>2. CASE FreeUnlock(t)
      <3>1. pc[t] \in Critical /\ pos[t] \in UsedSets /\ Release(pos[t])
        BY <2>2, <1>t DEF FreeUnlock, Control, Critical
      <3>2. /\ pc'[t] \notin Critical
            /\ \A u \in Threads \ {t} : pc'[u] = pc[u] /\ pos'[u] = pos[u]
        BY <2>2, <1>t DEF FreeUnlock, FreeReturns, TypeOK, Goto, Critical
      <3> QED BY <3>1, <3>2, <1>t, LockLeave
    <2>3. CASE FreeStart(t)
      BY <2>3, <1>t, LockStay DEF FreeStart, TypeOK, Goto, setVars, Critical
    <2>4. CASE FreeAdopt(t)
      BY <2>4, <1>t, LockStay DEF FreeAdopt, TypeOK, Goto, listVars, callVars,
           Critical
    <2>5. CASE FreeLink(t) \/ FreeTail(t)
      BY <2>5, <1>t, LockStay DEF FreeLink, FreeTail, TypeOK, Goto, callVars,
           Critical
    <2>6. CASE FreeAccount(t)
      BY <2>6, <1>t, LockStay DEF FreeAccount, TypeOK, Goto, setVars, callVars,
           Critical
    <2>7. CASE FreeDestroy(t)
      BY <2>7, <1>t, LockStay DEF FreeDestroy, FreeReturns, TypeOK, Goto,
           setVars, Critical
    <2> QED
      BY <1>3, <2>1, <2>2, <2>3, <2>4, <2>5, <2>6, <2>7 DEF FreeStep
  <1>4. CASE Destroy \/ UNCHANGED vars
    BY <1>4 DEF Destroy, vars, setVars, MutualExclusion, Inside
  <1> QED
    BY <1>1, <1>2, <1>3, <1>4 DEF Next, Destroyed

\* No two threads are inside one free list, and the lock of a set is taken
\* exactly while a thread is inside.
THEOREM MutualExclusionHolds == Spec => []MutualExclusion
  <1>1. Init => MutualExclusion
    BY DEF Init, MutualExclusion, Inside, Critical
  <1>2. TypeInv /\ MutualExclusion /\ [Next]_vars => MutualExclusion'
    BY LockNext
  <1> QED BY <1>1, <1>2, TypeInvariant, PTL DEF Spec
-----------------------------------------------------------------------------
(* Who has each chunk, and the free lists *)

Kinds  == {"held", "cur", "old", "new", "list"}
Owners == {NULL} \cup Threads \cup UsedSets

\* Chunk c is at place k of x.
At(c, k, x) ==
    \/ k = "held" /\ x = NULL /\ c \in held
    \/ k = "cur" /\ x \in Threads /\ pc[x] \in Carries /\ cur[x] = c
    \/ k = "old" /\ x \in Threads /\ old[x] = c
    \/ k = "new" /\ x \in Threads /\ new[x] = c
    \/ k = "list" /\ x \in UsedSets /\ c \in Range(fl[x])

Exclusive ==
    \A c \in Chunks : \A k1, k2 \in Kinds : \A x1, x2 \in Owners :
        At(c, k1, x1) /\ At(c, k2, x2) => k1 = k2 /\ x1 = x2

Placed(c) == \E k \in Kinds, x \in Owners : At(c, k, x)

\* While the pool is open, malloc's chunks are the placed ones; once it is
\* closed no thread is inside.
LiveInv ==
    /\ open => \A c \in Chunks : c \in live <=> Placed(c)
    /\ ~open => \A t \in Threads : pc[t] = "idle"

NoRepeats == \A s \in UsedSets : IsInjective(fl[s])

\* The pointers of set s against its list q.  Between FreeLink and FreeTail
\* the new chunk is linked but not yet the tail.
Closing(s) == \E t \in Threads : pc[t] = "free_tail" /\ pos[t] = s

ListInv(s) ==
    LET q == fl[s]
    IN  /\ \A k \in 1 .. (Len(q) - 1) : next[q[k]] = q[k + 1]
        /\ q # <<>> => chunk_head[s] = q[1] /\ chunk_tail[s] = q[Len(q)]
        /\ ~Closing(s) => IF q = <<>> THEN chunk_head[s] = NULL /\ chunk_tail[s] = NULL
                          ELSE next[q[Len(q)]] = NULL
        /\ \A t \in Threads :
              pc[t] = "free_tail" /\ pos[t] = s
                  => IF q = <<>> THEN chunk_head[s] = cur[t]
                     ELSE next[q[Len(q)]] = cur[t]

\* A thread about to pop has the head in its hands.
PopInv ==
    \A t \in Threads : pc[t] = "alloc_pop" => cur[t] = chunk_head[pos[t]]

OwnInv ==
    /\ Exclusive /\ LiveInv /\ NoRepeats /\ PopInv
    /\ \A s \in UsedSets : ListInv(s)

-----------------------------------------------------------------------------
(* Sequences without repeats *)

\* Arithmetic of indices.
LEMMA AboveOne == \A n \in Nat : n >= 1 /\ n # 1 => n > 1 /\ 2 \in 1 .. n
  OBVIOUS

\* A list without repeats, without its head.
LEMMA TailFacts ==
    ASSUME NEW q \in Seq(Chunks), IsInjective(q), q # <<>>
    PROVE  \E r : /\ r = SubSeq(q, 2, Len(q))
                  /\ r \in Seq(Chunks) /\ Len(r) = Len(q) - 1
                  /\ \A k \in 1 .. Len(r) : r[k] = q[k + 1]
                  /\ IsInjective(r)
                  /\ Range(r) = Range(q) \ {q[1]}
  <1>0. PICK r : r = SubSeq(q, 2, Len(q))
    OBVIOUS
  <1>1. Len(q) \in Nat /\ Len(q) >= 1 /\ DOMAIN q = 1 .. Len(q)
    OBVIOUS
  <1>2. r \in Seq(Chunks) /\ Len(r) = Len(q) - 1
    BY <1>0, <1>1
  <1>3. \A k \in 1 .. Len(r) : r[k] = q[k + 1]
    BY <1>0, <1>1
  <1>4. DOMAIN r = 1 .. (Len(q) - 1)
    BY <1>2
  <1>5. \A a, b \in 1 .. Len(q) : q[a] = q[b] => a = b
    BY <1>1 DEF IsInjective
  <1>6. IsInjective(r)
    <2> SUFFICES ASSUME NEW a \in DOMAIN r, NEW b \in DOMAIN r, r[a] = r[b]
                 PROVE  a = b
      BY DEF IsInjective
    <2>1. q[a + 1] = q[b + 1] /\ a + 1 \in 1 .. Len(q) /\ b + 1 \in 1 .. Len(q)
      BY <1>1, <1>2, <1>3, <1>4
    <2>2. a + 1 = b + 1
      BY <2>1, <1>5
    <2> QED BY <2>2, <1>4
  <1>7. Range(r) = Range(q) \ {q[1]}
    <2>1. ASSUME NEW c \in Range(r) PROVE c \in Range(q) \ {q[1]}
      <3>1. PICK k \in 1 .. (Len(q) - 1) : c = r[k]
        BY <1>4 DEF Range
      <3>2. c = q[k + 1] /\ k + 1 \in 1 .. Len(q) /\ k + 1 # 1
        BY <3>1, <1>1, <1>2, <1>3
      <3> QED BY <3>2, <1>1, <1>5 DEF Range
    <2>2. ASSUME NEW c \in Range(q) \ {q[1]} PROVE c \in Range(r)
      <3>1. PICK k \in 1 .. Len(q) : c = q[k]
        BY <1>1 DEF Range
      <3>2. k # 1 /\ k - 1 \in 1 .. (Len(q) - 1) /\ (k - 1) + 1 = k
        BY <3>1, <2>2, <1>1
      <3>3. r[k - 1] = c
        BY <3>1, <3>2, <1>2, <1>3
      <3> QED BY <3>2, <3>3, <1>4 DEF Range
    <2> QED BY <2>1, <2>2
  <1> QED BY <1>0, <1>2, <1>3, <1>6, <1>7

\* A list without repeats, with one more chunk behind it.
LEMMA AppendFacts ==
    ASSUME NEW q \in Seq(Chunks), IsInjective(q),
           NEW c \in Chunks, c \notin Range(q)
    PROVE  \E r : /\ r = Append(q, c)
                  /\ r \in Seq(Chunks) /\ Len(r) = Len(q) + 1 /\ r # <<>>
                  /\ \A k \in 1 .. Len(q) : r[k] = q[k]
                  /\ r[Len(r)] = c
                  /\ IsInjective(r)
                  /\ Range(r) = Range(q) \cup {c}
  <1>0. PICK r : r = Append(q, c)
    OBVIOUS
  <1>1. /\ Len(q) \in Nat /\ DOMAIN q = 1 .. Len(q)
        /\ r \in Seq(Chunks) /\ Len(r) = Len(q) + 1
        /\ DOMAIN r = 1 .. (Len(q) + 1)
        /\ \A k \in 1 .. Len(q) : r[k] = q[k]
        /\ r[Len(q) + 1] = c
    BY <1>0
  <1>2. \A k \in 1 .. Len(q) : q[k] # c
    BY <1>1 DEF Range
  <1>3. IsInjective(r)
    BY <1>1, <1>2 DEF IsInjective
  <1>4. Range(r) = Range(q) \cup {c}
    <2>1. \A k \in 1 .. (Len(q) + 1) : k \in 1 .. Len(q) \/ k = Len(q) + 1
      BY <1>1
    <2>2. Len(q) + 1 \in 1 .. (Len(q) + 1) /\ 1 .. Len(q) \subseteq 1 .. (Len(q) + 1)
      BY <1>1
    <2> QED BY <1>1, <2>1, <2>2 DEF Range
  <1>5. r # <<>>
    BY <1>1
  <1> QED BY <1>0, <1>1, <1>3, <1>4, <1>5

-----------------------------------------------------------------------------
(* Where the chunks are after each action *)

\* No chunk changes its place.
NoMove ==
    \A c \in Chunks, k \in Kinds, x \in Owners : At(c, k, x)' <=> At(c, k, x)

\* Chunk m goes to place k of x, and no other chunk moves.
Moved(m, k, x) ==
    \A c \in Chunks, k2 \in Kinds, x2 \in Owners :
        At(c, k2, x2)' <=> IF c = m THEN k2 = k /\ x2 = x ELSE At(c, k2, x2)

\* When no chunk moves, no chunk is at two places.
LEMMA NoMoveKeeps ==
    ASSUME Exclusive, NoMove
    PROVE  Exclusive' /\ \A c \in Chunks : Placed(c)' <=> Placed(c)
  BY DEF Exclusive, NoMove, Placed

\* Nor when one moves, away from where it was.
LEMMA MovedKeeps ==
    ASSUME Exclusive, NEW m \in Chunks, NEW k \in Kinds, NEW x \in Owners,
           Moved(m, k, x)
    PROVE  Exclusive' /\ \A c \in Chunks : Placed(c)' <=> Placed(c) \/ c = m
  BY DEF Exclusive, Moved, Placed

\* alloc returns NULL: a reallocation puts its old block back.
LEMMA AtAllocFails ==
    ASSUME TypeInv, Exclusive, NEW t \in Threads,
           pc[t] \in {"alloc_start", "alloc_create"}, AllocFails(t), fl' = fl
    PROVE  IF old[t] = NULL THEN NoMove ELSE Moved(old[t], "held", NULL)
  <1>t. TypeOK /\ Control(t)
    BY DEF TypeInv
  <1>1. CASE old[t] = NULL
    <2>1. NoMove
      BY <1>1, <1>t, NullFact DEF NoMove, At, AllocFails, Goto, TypeOK, Carries
    <2> QED BY <1>1, <2>1
  <1>2. CASE old[t] # NULL
    <2>1. old[t] \in Chunks /\ At(old[t], "old", t)
      BY <1>2, <1>t DEF TypeOK, At
    <2>2. \A k2 \in Kinds, x2 \in Owners :
              At(old[t], k2, x2) => k2 = "old" /\ x2 = t
      BY <2>1 DEF Exclusive, Kinds, Owners
    <2>3. ASSUME NEW c \in Chunks, NEW k2 \in Kinds, NEW x2 \in Owners
          PROVE  At(c, k2, x2)' <=> IF c = old[t] THEN k2 = "held" /\ x2 = NULL
                                    ELSE At(c, k2, x2)
      BY <1>2, <2>1, <2>2, <1>t, NullFact DEF At, AllocFails, Goto, TypeOK,
         Carries
    <2> QED BY <1>2, <2>3 DEF Moved
  <1> QED BY <1>1, <1>2

\* alloc returns a chunk: to the client, or into new while old goes to cur.
LEMMA AtAllocSucceeds ==
    ASSUME TypeInv, Exclusive, NEW t \in Threads,
           pc[t] \in {"alloc_unlock", "alloc_account"}, cur[t] # NULL,
           AllocSucceeds(t, cur[t]), fl' = fl
    PROVE  IF old[t] = NULL THEN Moved(cur[t], "held", NULL)
           ELSE \A c \in Chunks, k2 \in Kinds, x2 \in Owners :
                  At(c, k2, x2)' <=> IF c = cur[t] THEN k2 = "new" /\ x2 = t
                                     ELSE IF c = old[t] THEN k2 = "cur" /\ x2 = t
                                     ELSE At(c, k2, x2)
  <1>t. TypeOK /\ Control(t)
    BY DEF TypeInv
  <1>1. cur[t] \in Chunks /\ At(cur[t], "cur", t)
    BY <1>t DEF TypeOK, At, Carries
  <1>2. \A k2 \in Kinds, x2 \in Owners :
            At(cur[t], k2, x2) => k2 = "cur" /\ x2 = t
    BY <1>1 DEF Exclusive, Kinds, Owners
  <1>3. new[t] = NULL
    BY <1>t DEF Control, FreeLabels
  <1>4. CASE old[t] = NULL
    <2>1. ASSUME NEW c \in Chunks, NEW k2 \in Kinds, NEW x2 \in Owners
          PROVE  At(c, k2, x2)' <=> IF c = cur[t] THEN k2 = "held" /\ x2 = NULL
                                    ELSE At(c, k2, x2)
      BY <1>1, <1>2, <1>4, <1>t, NullFact DEF At, AllocSucceeds, Goto, TypeOK,
           Carries
    <2> QED BY <1>4, <2>1 DEF Moved
  <1>5. CASE old[t] # NULL
    <2>1. old[t] \in Chunks /\ At(old[t], "old", t)
      BY <1>5, <1>t DEF TypeOK, At
    <2>2. \A k2 \in Kinds, x2 \in Owners :
              At(old[t], k2, x2) => k2 = "old" /\ x2 = t
      BY <2>1 DEF Exclusive, Kinds, Owners
    <2>3. ASSUME NEW c \in Chunks, NEW k2 \in Kinds, NEW x2 \in Owners
          PROVE  At(c, k2, x2)' <=>
                    IF c = cur[t] THEN k2 = "new" /\ x2 = t
                    ELSE IF c = old[t] THEN k2 = "cur" /\ x2 = t
                    ELSE At(c, k2, x2)
      BY <1>1, <1>2, <1>3, <1>5, <2>1, <2>2, <1>t, NullFact DEF At,
           AllocSucceeds, Goto, TypeOK, Carries
    <2> QED BY <1>5, <2>3
  <1> QED BY <1>4, <1>5

\* A thread's own steps between two moves.
LEMMA AtQuiet ==
    ASSUME TypeInv, NEW t \in Threads, UNCHANGED <<held, cur, old, new, fl>>,
           pc[t] \in Carries <=> pc'[t] \in Carries,
           \A u \in Threads \ {t} : pc'[u] = pc[u]
    PROVE  NoMove
  BY DEF NoMove, At

\* A chunk of malloc's comes into the hands of t.
LEMMA AtAllocCreate ==
    ASSUME TypeInv, OwnInv, NEW t \in Threads, NEW c \in Chunks,
           AllocCreate(t, c)
    PROVE  Moved(c, "cur", t) /\ open
  <1>t. TypeOK /\ Control(t)
    BY DEF TypeInv
  <1>1. pc[t] = "alloc_create" /\ c \notin live
    BY DEF AllocCreate
  <1>2. open
    BY <1>1 DEF OwnInv, LiveInv
  <1>3. ~Placed(c)
    BY <1>1, <1>2 DEF OwnInv, LiveInv
  <1>4. ASSUME NEW d \in Chunks, NEW k2 \in Kinds, NEW x2 \in Owners
        PROVE  At(d, k2, x2)' <=> IF d = c THEN k2 = "cur" /\ x2 = t
                                  ELSE At(d, k2, x2)
    <2>1. ~At(c, k2, x2)
      BY <1>3 DEF Placed
    <2> QED
      BY <1>t, <1>1, <2>1 DEF At, AllocCreate, callVars, Goto, TypeOK, Carries
  <1> QED BY <1>2, <1>4 DEF Moved

\* The client gives a block to free or to realloc.
LEMMA AtFreeCall ==
    ASSUME TypeInv, Exclusive, NEW t \in Threads, NEW c \in Chunks,
           FreeCall(t, c)
    PROVE  Moved(c, "cur", t)
  <1>t. TypeOK /\ Control(t)
    BY DEF TypeInv
  <1>1. \A k2 \in Kinds, x2 \in Owners : At(c, k2, x2) => k2 = "held" /\ x2 = NULL
    BY DEF FreeCall, Exclusive, Kinds, Owners, At
  <1>2. ASSUME NEW d \in Chunks, NEW k2 \in Kinds, NEW x2 \in Owners
        PROVE  At(d, k2, x2)' <=> IF d = c THEN k2 = "cur" /\ x2 = t
                                  ELSE At(d, k2, x2)
    BY <1>t, <1>1 DEF At, FreeCall, callVars, Goto, TypeOK, Carries
  <1> QED BY <1>2 DEF Moved

\* The old block of a reallocation goes from the client to old.
LEMMA AtReallocMove ==
    ASSUME TypeInv, Exclusive, NEW t \in Threads, NEW c \in Chunks,
           NEW n \in Requests, ReallocMove(t, c, n)
    PROVE  Moved(c, "old", t)
  <1>t. TypeOK /\ Control(t)
    BY DEF TypeInv
  <1>0. old[t] = NULL
    BY <1>t DEF ReallocMove, Control
  <1>1. \A k2 \in Kinds, x2 \in Owners : At(c, k2, x2) => k2 = "held" /\ x2 = NULL
    BY DEF ReallocMove, Exclusive, Kinds, Owners, At
  <1>2. ASSUME NEW d \in Chunks, NEW k2 \in Kinds, NEW x2 \in Owners
        PROVE  At(d, k2, x2)' <=> IF d = c THEN k2 = "old" /\ x2 = t
                                  ELSE At(d, k2, x2)
    BY <1>t, <1>0, <1>1, NullFact DEF At, ReallocMove, Goto, TypeOK, Carries
  <1> QED BY <1>2 DEF Moved

\* The chunk popped is the head of the list, by PopInv and ListInv.
LEMMA PopHead ==
    ASSUME TypeInv, MutualExclusion, OwnInv, NEW t \in Threads, AllocPop(t)
    PROVE  /\ pos[t] \in UsedSets /\ fl[pos[t]] # <<>>
           /\ cur[t] = fl[pos[t]][1] /\ cur[t] \in Range(fl[pos[t]])
           /\ ~Closing(pos[t])
  <1>t. TypeOK /\ Control(t)
    BY DEF TypeInv
  <1> DEFINE s == pos[t]
             q == fl[s]
  <1>1. pc[t] = "alloc_pop" /\ s \in UsedSets /\ cur[t] # NULL
    BY <1>t DEF AllocPop, Control
  <1>2. cur[t] = chunk_head[s]
    BY <1>1 DEF OwnInv, PopInv
  <1>3. ~Closing(s)
    BY <1>1 DEF MutualExclusion, Inside, Closing, Critical
  <1>4. q # <<>> /\ cur[t] = q[1]
    BY <1>1, <1>2, <1>3 DEF OwnInv, ListInv
  <1>5. q \in Seq(Chunks)
    BY <1>1, <1>t DEF TypeOK
  <1>6. 1 \in DOMAIN q
    BY <1>4, <1>5
  <1> QED BY <1>1, <1>3, <1>4, <1>6 DEF Range

\* The popped chunk goes from the list to cur.
LEMMA AtAllocPop ==
    ASSUME TypeInv, MutualExclusion, OwnInv, NEW t \in Threads, AllocPop(t)
    PROVE  Moved(cur[t], "cur", t) /\ NoRepeats'
  <1>t. TypeOK /\ Control(t)
    BY DEF TypeInv
  <1> SUFFICES ASSUME NEW s, s = pos[t], NEW q, q = fl[s]
               PROVE  Moved(cur[t], "cur", t) /\ NoRepeats'
    OBVIOUS
  <1>1. /\ s \in UsedSets /\ q # <<>> /\ cur[t] = q[1] /\ cur[t] \in Range(q)
        /\ q \in Seq(Chunks) /\ IsInjective(q)
    BY PopHead, <1>t DEF TypeOK, OwnInv, NoRepeats
  <1>2. fl' = [fl EXCEPT ![s] = SubSeq(q, 2, Len(q))]
    BY DEF AllocPop
  <1>3. PICK r : /\ Range(r) = Range(q) \ {cur[t]} /\ IsInjective(r)
                 /\ fl' = [fl EXCEPT ![s] = r]
    BY <1>1, <1>2, TailFacts
  <1>4. cur[t] \in Chunks /\ At(cur[t], "list", s)
    BY <1>1, <1>t, NullFact DEF TypeOK, At, Control, AllocPop
  <1>5. \A k2 \in Kinds, x2 \in Owners :
            At(cur[t], k2, x2) => k2 = "list" /\ x2 = s
    BY <1>1, <1>4 DEF OwnInv, Exclusive, Kinds, Owners
  <1>6. /\ pc[t] = "alloc_pop" /\ pc' = [pc EXCEPT ![t] = "alloc_unlock"]
        /\ UNCHANGED <<held, cur, old, new>>
    BY DEF AllocPop, callVars, Goto
  <1>7. \A x \in UsedSets : fl'[x] = IF x = s THEN r ELSE fl[x]
    BY <1>1, <1>3, <1>t DEF TypeOK
  <1>8. ASSUME NEW d \in Chunks, NEW k2 \in Kinds, NEW x2 \in Owners
        PROVE  At(d, k2, x2)' <=> IF d = cur[t] THEN k2 = "cur" /\ x2 = t
                                  ELSE At(d, k2, x2)
    <2>1. CASE k2 = "list"
      <3>1. x2 \in UsedSets => (d \in Range(fl'[x2])
               <=> d \in Range(fl[x2]) /\ ~(x2 = s /\ d = cur[t]))
        BY <1>3, <1>7
      <3>2. d = cur[t] /\ x2 \in UsedSets /\ x2 # s => d \notin Range(fl[x2])
        BY <1>5, <2>1 DEF At
      <3> QED BY <2>1, <3>1, <3>2 DEF At
    <2>2. CASE k2 # "list"
      <3>1. d = cur[t] => ~At(d, k2, x2)
        BY <1>5, <2>2
      <3> QED BY <2>2, <3>1, <1>6, <1>t DEF At, TypeOK, Carries
    <2> QED BY <2>1, <2>2
  <1>9. NoRepeats'
    BY <1>3, <1>7 DEF OwnInv, NoRepeats
  <1> QED BY <1>8, <1>9 DEF Moved

\* The freed chunk goes from cur to the end of the list.
LEMMA AtFreeTail ==
    ASSUME TypeInv, OwnInv, NEW t \in Threads, FreeTail(t)
    PROVE  /\ Moved(cur[t], "list", pos[t]) /\ NoRepeats'
           /\ cur[t] \in Chunks /\ pos[t] \in UsedSets
           /\ \A s \in UsedSets : cur[t] \notin Range(fl[s])
  <1>t. TypeOK /\ Control(t)
    BY DEF TypeInv
  <1> SUFFICES ASSUME NEW s, s = pos[t], NEW q, q = fl[s]
               PROVE  /\ Moved(cur[t], "list", s) /\ NoRepeats'
                      /\ cur[t] \in Chunks /\ s \in UsedSets
                      /\ \A x \in UsedSets : cur[t] \notin Range(fl[x])
    OBVIOUS
  <1>1. /\ s \in UsedSets /\ cur[t] \in Chunks /\ q \in Seq(Chunks)
        /\ IsInjective(q) /\ At(cur[t], "cur", t)
    BY <1>t DEF FreeTail, Control, FreeLabels, TypeOK, OwnInv, NoRepeats, At,
         Carries
  <1>3. \A k2 \in Kinds, x2 \in Owners :
            At(cur[t], k2, x2) => k2 = "cur" /\ x2 = t
    BY <1>1 DEF OwnInv, Exclusive, Kinds, Owners
  <1>4. \A x \in UsedSets : cur[t] \notin Range(fl[x])
    BY <1>3 DEF At, Kinds, Owners
  <1>a. cur[t] \notin Range(q)
    BY <1>1, <1>4
  <1>2. fl' = [fl EXCEPT ![s] = Append(q, cur[t])]
    BY DEF FreeTail
  <1>5. PICK r : /\ Range(r) = Range(q) \cup {cur[t]} /\ IsInjective(r)
                 /\ fl' = [fl EXCEPT ![s] = r]
    <2>1. \E r : /\ r = Append(q, cur[t])
                 /\ Range(r) = Range(q) \cup {cur[t]} /\ IsInjective(r)
      <3> SUFFICES ASSUME NEW c, c = cur[t]
                   PROVE  \E r : /\ r = Append(q, c)
                                 /\ Range(r) = Range(q) \cup {c} /\ IsInjective(r)
        OBVIOUS
      <3>1. q \in Seq(Chunks) /\ IsInjective(q) /\ c \in Chunks /\ c \notin Range(q)
        BY <1>1, <1>a
      <3> QED BY <3>1, AppendFacts
    <2> QED BY <1>2, <2>1
  <1>6. /\ pc[t] = "free_tail" /\ pc' = [pc EXCEPT ![t] = "free_unlock"]
        /\ UNCHANGED <<held, cur, old, new>>
    BY DEF FreeTail, callVars, Goto
  <1>7. \A x \in UsedSets : fl'[x] = IF x = s THEN r ELSE fl[x]
    BY <1>1, <1>5, <1>t DEF TypeOK
  <1>8. ASSUME NEW d \in Chunks, NEW k2 \in Kinds, NEW x2 \in Owners
        PROVE  At(d, k2, x2)' <=> IF d = cur[t] THEN k2 = "list" /\ x2 = s
                                  ELSE At(d, k2, x2)
    <2>1. CASE k2 = "list"
      <3>1. x2 \in UsedSets => (d \in Range(fl'[x2])
               <=> d \in Range(fl[x2]) \/ (x2 = s /\ d = cur[t]))
        BY <1>5, <1>7
      <3> QED BY <1>1, <1>4, <2>1, <3>1 DEF At
    <2>2. CASE k2 # "list"
      <3>1. d = cur[t] /\ At(d, k2, x2) => k2 = "cur" /\ x2 = t
        BY <1>3, <2>2
      <3> QED BY <2>2, <3>1, <1>6, <1>t DEF At, TypeOK, Carries
    <2> QED BY <2>1, <2>2
  <1>9. NoRepeats'
    BY <1>5, <1>7 DEF OwnInv, NoRepeats
  <1> QED BY <1>1, <1>4, <1>8, <1>9 DEF Moved

\* free returns from a thread whose chunk is on a list or about to go back to
\* malloc: cur lets go of it, and a reallocation hands out its new block.
LEMMA AtFreeReturns ==
    ASSUME TypeInv, Exclusive, NEW t \in Threads, FreeReturns(t),
           pc[t] \in {"free_unlock", "free_destroy"}, UNCHANGED <<old, fl>>
    PROVE  \A c \in Chunks, k2 \in Kinds, x2 \in Owners :
              At(c, k2, x2)' <=>
                  IF c = new[t] THEN k2 = "held" /\ x2 = NULL
                  ELSE IF pc[t] = "free_destroy" /\ c = cur[t] THEN FALSE
                  ELSE At(c, k2, x2)
  <1>t. TypeOK /\ Control(t)
    BY DEF TypeInv
  <1>1. \A k2 \in Kinds, x2 \in Owners : new[t] \in Chunks =>
            (At(new[t], k2, x2) => k2 = "new" /\ x2 = t)
    BY DEF Exclusive, Kinds, Owners, At
  <1>2. \A k2 \in Kinds, x2 \in Owners : pc[t] = "free_destroy" =>
            (At(cur[t], k2, x2) /\ cur[t] \in Chunks => k2 = "cur" /\ x2 = t)
    BY DEF Exclusive, Kinds, Owners, At, Carries
  <1>3. cur[t] \in Chunks
    BY <1>t DEF TypeOK, Control, FreeLabels
  <1>4. ASSUME NEW c \in Chunks, NEW k2 \in Kinds, NEW x2 \in Owners
        PROVE  At(c, k2, x2)' <=>
                  IF c = new[t] THEN k2 = "held" /\ x2 = NULL
                  ELSE IF pc[t] = "free_destroy" /\ c = cur[t] THEN FALSE
                  ELSE At(c, k2, x2)
    <2>1. CASE pc[t] = "free_unlock"
      BY <1>1, <1>3, <1>t, <2>1, NullFact DEF At, FreeReturns, Goto, TypeOK,
           Carries
    <2>2. CASE pc[t] = "free_destroy"
      BY <1>1, <1>2, <1>3, <1>t, <2>2, NullFact DEF At, FreeReturns, Goto,
           TypeOK, Carries
    <2> QED BY <2>1, <2>2
  <1> QED BY <1>4

-----------------------------------------------------------------------------
(* The pointers *)

\* Thread u has linked its chunk into set s and not yet made it the tail.
Tailer(u, s) == pc[u] = "free_tail" /\ pos[u] = s

\* A step that leaves set s alone keeps its pointers right.
LEMMA ListFrame ==
    ASSUME TypeOK, NEW s \in UsedSets, ListInv(s),
           fl'[s] = fl[s], chunk_head'[s] = chunk_head[s],
           chunk_tail'[s] = chunk_tail[s],
           \A c \in Range(fl[s]) : next'[c] = next[c],
           \A u \in Threads : Tailer(u, s)' <=> Tailer(u, s),
           \A u \in Threads : Tailer(u, s) => cur'[u] = cur[u]
    PROVE  ListInv(s)'
  <1> DEFINE q == fl[s]
  <1>1. q \in Seq(Chunks)
    BY DEF TypeOK
  <1>2. /\ \A k \in 1 .. (Len(q) - 1) : k \in DOMAIN q
        /\ q # <<>> => Len(q) \in DOMAIN q
    BY <1>1
  <1>3. \A k \in DOMAIN q : next'[q[k]] = next[q[k]]
    BY DEF Range
  <1>4. Closing(s)' <=> Closing(s)
    BY DEF Closing, Tailer
  <1>5. \A k \in 1 .. (Len(fl'[s]) - 1) : next'[fl'[s][k]] = fl'[s][k + 1]
    BY <1>2, <1>3 DEF ListInv
  <1> QED
    BY <1>2, <1>3, <1>4, <1>5 DEF ListInv, Tailer

\* So does a step of a thread that is not inside a set and touches no pointer.
LEMMA ListsQuiet ==
    ASSUME TypeOK, OwnInv, NEW t \in Threads,
           UNCHANGED <<fl, chunk_head, chunk_tail, next>>,
           pc[t] # "free_tail", pc'[t] # "free_tail", pc'[t] # "alloc_pop",
           \A u \in Threads \ {t} :
               pc'[u] = pc[u] /\ pos'[u] = pos[u] /\ cur'[u] = cur[u]
    PROVE  NoRepeats' /\ PopInv' /\ \A s \in UsedSets : ListInv(s)'
  <1>1. ASSUME NEW s \in UsedSets PROVE ListInv(s)'
    <2>1. /\ \A u \in Threads : Tailer(u, s)' <=> Tailer(u, s)
          /\ \A u \in Threads : Tailer(u, s) => cur'[u] = cur[u]
      BY DEF Tailer
    <2> QED BY <2>1, ListFrame DEF OwnInv
  <1>2. NoRepeats'
    BY DEF OwnInv, NoRepeats
  <1>3. PopInv'
    BY DEF OwnInv, PopInv
  <1> QED BY <1>1, <1>2, <1>3

\* The links of a list after its head is taken.
LEMMA ListAllocPop ==
    ASSUME TypeInv, MutualExclusion, OwnInv, NEW t \in Threads, AllocPop(t)
    PROVE  PopInv' /\ \A s \in UsedSets : ListInv(s)'
  <1>t. TypeOK /\ Control(t)
    BY DEF TypeInv
  <1> SUFFICES ASSUME NEW s, s = pos[t], NEW q, q = fl[s]
               PROVE  PopInv' /\ \A x \in UsedSets : ListInv(x)'
    OBVIOUS
  <1>1. /\ s \in UsedSets /\ q # <<>> /\ cur[t] = q[1] /\ cur[t] \in Range(q)
        /\ ~Closing(s) /\ q \in Seq(Chunks) /\ IsInjective(q)
    <2>1. /\ s \in UsedSets /\ q # <<>> /\ cur[t] = q[1] /\ cur[t] \in Range(q)
          /\ ~Closing(s) /\ q \in Seq(Chunks) /\ IsInjective(q)
      BY PopHead, <1>t DEF TypeOK, OwnInv, NoRepeats
    <2> QED BY <2>1
  <1>l. Len(q) \in Nat /\ Len(q) >= 1
    BY <1>1
  <1>2. PICK r : /\ r \in Seq(Chunks) /\ Len(r) = Len(q) - 1
                 /\ \A k \in 1 .. Len(r) : r[k] = q[k + 1]
                 /\ fl' = [fl EXCEPT ![s] = r]
    <2>1. fl' = [fl EXCEPT ![s] = SubSeq(q, 2, Len(q))]
      BY DEF AllocPop
    <2> QED BY <1>1, <2>1, TailFacts
  <1>3. /\ pc[t] = "alloc_pop" /\ pc' = [pc EXCEPT ![t] = "alloc_unlock"]
        /\ UNCHANGED <<next, cur, pos>>
        /\ chunk_head' = [chunk_head EXCEPT ![s] = next[q[1]]]
        /\ chunk_tail' = IF next[q[1]] = NULL
                         THEN [chunk_tail EXCEPT ![s] = NULL] ELSE chunk_tail
    BY <1>1 DEF AllocPop, callVars, Goto
  <1>4. ~ \E u \in Threads : u # t /\ pc[u] \in Critical /\ pos[u] = s
    BY <1>1, <1>3 DEF MutualExclusion, Inside, Critical
  <1>5. PopInv'
    <2> SUFFICES ASSUME NEW u \in Threads, pc'[u] = "alloc_pop"
                 PROVE  cur'[u] = chunk_head'[pos'[u]]
      BY DEF PopInv
    <2>1. u # t /\ pc[u] = "alloc_pop"
      BY <1>3, <1>t DEF TypeOK
    <2>2. pos[u] # s
      BY <2>1, <1>4 DEF Critical
    <2> QED
      BY <1>3, <2>1, <2>2, <1>t DEF OwnInv, PopInv, TypeOK
  <1>6. ListInv(s)'
    <2>1. /\ fl'[s] = r /\ chunk_head'[s] = next[q[1]]
          /\ chunk_tail'[s] = IF next[q[1]] = NULL THEN NULL ELSE chunk_tail[s]
      BY <1>1, <1>2, <1>3, <1>t DEF TypeOK
    <2>2. ListInv(s)
      BY <1>1 DEF OwnInv
    <2>3. /\ \A k \in 1 .. (Len(q) - 1) : next[q[k]] = q[k + 1]
          /\ chunk_tail[s] = q[Len(q)] /\ next[q[Len(q)]] = NULL
      BY <1>1, <2>2 DEF ListInv
    <2>4. ~ \E u \in Threads : Tailer(u, s)'
      BY <1>3, <1>4, <1>t DEF Tailer, TypeOK, Critical
    <2>5. \A k \in 1 .. (Len(r) - 1) : next'[r[k]] = r[k + 1]
      <3> SUFFICES ASSUME NEW k \in 1 .. (Len(r) - 1) PROVE next[r[k]] = r[k + 1]
        BY <1>3
      <3>1. k + 1 \in 1 .. (Len(q) - 1) /\ k \in 1 .. Len(r) /\ k + 1 \in 1 .. Len(r)
        BY <1>1, <1>2
      <3> QED BY <3>1, <1>2, <2>3
    <2>6. CASE Len(q) = 1
      <3>1. r = <<>> /\ Len(r) = 0 /\ next[q[1]] = NULL
        BY <1>2, <2>3, <2>6
      <3> QED BY <2>1, <2>4, <2>5, <3>1 DEF ListInv, Tailer
    <2>7. CASE Len(q) # 1
      <3>1. Len(q) > 1
        BY <1>l, <2>7, AboveOne, Zenon
      <3>2. Len(r) >= 1 /\ Len(r) \in 1 .. Len(r) /\ 1 \in 1 .. Len(r)
        BY <1>l, <1>2, <3>1
      <3>3. /\ r # <<>> /\ r[1] = q[2] /\ r[Len(r)] = q[Len(q)]
            /\ next[q[1]] = q[2]
        <4>1. r # <<>>
          BY <3>2
        <4>2. r[1] = q[2] /\ r[Len(r)] = q[Len(r) + 1] /\ Len(r) + 1 = Len(q)
          BY <1>l, <1>2, <3>2
        <4>3. next[q[1]] = q[2]
          <5>1. 1 \in 1 .. (Len(q) - 1)
            BY <1>l, <3>1
          <5> QED BY <2>3, <5>1
        <4> QED BY <4>1, <4>2, <4>3
      <3>4. q[2] \in Chunks
        BY <1>1, <3>1
      <3> QED BY <1>3, <2>1, <2>3, <2>4, <2>5, <3>3, <3>4, NullFact
             DEF ListInv, Tailer
    <2> QED BY <2>6, <2>7
  <1>7. ASSUME NEW s2 \in UsedSets, s2 # s PROVE ListInv(s2)'
    <2>1. /\ fl'[s2] = fl[s2] /\ chunk_head'[s2] = chunk_head[s2]
          /\ chunk_tail'[s2] = chunk_tail[s2]
      BY <1>1, <1>2, <1>3, <1>7, <1>t DEF TypeOK
    <2>2. \A u \in Threads : Tailer(u, s2)' <=> Tailer(u, s2)
      BY <1>3, <1>t DEF Tailer, TypeOK
    <2> QED BY <1>3, <1>t, <2>1, <2>2, ListFrame DEF OwnInv
  <1> QED BY <1>5, <1>6, <1>7

\* A step inside set s leaves the other sets, and their threads, alone.
LEMMA OtherSets ==
    ASSUME TypeInv, MutualExclusion, OwnInv, NEW t \in Threads,
           NEW s \in UsedSets, Inside(t, s),
           pc'[t] # "alloc_pop", pos'[t] = s,
           \A u \in Threads \ {t} :
               pc'[u] = pc[u] /\ pos'[u] = pos[u] /\ cur'[u] = cur[u],
           \A x \in UsedSets \ {s} :
               /\ fl'[x] = fl[x] /\ chunk_head'[x] = chunk_head[x]
               /\ chunk_tail'[x] = chunk_tail[x]
               /\ \A c \in Range(fl[x]) : next'[c] = next[c]
    PROVE  /\ PopInv' /\ \A x \in UsedSets \ {s} : ListInv(x)'
           /\ \A u \in Threads \ {t} : ~Tailer(u, s) /\ ~Tailer(u, s)'
           /\ pc[t] # "free_tail" => ~Closing(s)
  <1>t. TypeOK /\ Control(t)
    BY DEF TypeInv
  <1>1. \A u \in Threads \ {t} : ~Inside(u, s)
    BY DEF MutualExclusion
  <1>2. \A u \in Threads \ {t} : ~Tailer(u, s) /\ ~Tailer(u, s)'
    BY <1>1 DEF Tailer, Inside, Critical
  <1>3. PopInv'
    <2> SUFFICES ASSUME NEW u \in Threads, pc'[u] = "alloc_pop"
                 PROVE  cur'[u] = chunk_head'[pos'[u]]
      BY DEF PopInv
    <2>1. u # t /\ pc[u] = "alloc_pop" /\ pos'[u] = pos[u] /\ cur'[u] = cur[u]
      OBVIOUS
    <2>2. pos[u] # s
      BY <2>1, <1>1 DEF Critical, Inside
    <2>3. pos[u] \in UsedSets
      BY <2>1 DEF TypeInv, Control
    <2> QED
      BY <2>1, <2>2, <2>3 DEF OwnInv, PopInv
  <1>4. ASSUME NEW x \in UsedSets \ {s} PROVE ListInv(x)'
    <2>1. /\ \A u \in Threads : Tailer(u, x)' <=> Tailer(u, x)
          /\ \A u \in Threads : Tailer(u, x) => cur'[u] = cur[u]
      BY DEF Tailer, Inside
    <2> QED BY <1>t, <2>1, ListFrame DEF OwnInv
  <1> QED BY <1>2, <1>3, <1>4 DEF Closing, Tailer

\* The freed chunk is linked behind the tail, and is not the tail yet.
LEMMA ListFreeLink ==
    ASSUME TypeInv, MutualExclusion, OwnInv, NEW t \in Threads, FreeLink(t)
    PROVE  PopInv' /\ NoRepeats' /\ \A s \in UsedSets : ListInv(s)'
  <1>t. TypeOK /\ Control(t)
    BY DEF TypeInv
  <1> SUFFICES ASSUME NEW s, s = pos[t], NEW q, q = fl[s], NEW c, c = cur[t]
               PROVE  PopInv' /\ NoRepeats' /\ \A x \in UsedSets : ListInv(x)'
    OBVIOUS
  <1>1. /\ pc[t] = "free_link" /\ pc' = [pc EXCEPT ![t] = "free_tail"]
        /\ fl' = fl /\ cur' = cur /\ pos' = pos
    BY DEF FreeLink, callVars, Goto
  <1>2. s \in UsedSets /\ c \in Chunks /\ Inside(t, s)
    BY <1>1, <1>t DEF Control, FreeLabels, TypeOK, Inside, Critical
  <1>3. q \in Seq(Chunks) /\ IsInjective(q)
    BY <1>2, <1>t DEF TypeOK, OwnInv, NoRepeats
  <1>4. ~Closing(s)
    BY <1>1, <1>2 DEF MutualExclusion, Closing, Inside, Critical
  <1>5. ListInv(s)
    BY <1>2 DEF OwnInv
  <1>6. chunk_head[s] = NULL <=> q = <<>>
    <2>1. q # <<>> => q[1] \in Chunks
      BY <1>3
    <2> QED BY <1>4, <1>5, <2>1, NullFact DEF ListInv
  <1>7. q # <<>> => /\ chunk_tail[s] = q[Len(q)] /\ q[Len(q)] \in Range(q)
                    /\ q[Len(q)] \in Chunks
    <2>1. q # <<>> => Len(q) \in DOMAIN q /\ q[Len(q)] \in Chunks
      BY <1>3
    <2> QED BY <1>5, <2>1 DEF ListInv, Range
  <1>8. ASSUME NEW x \in UsedSets \ {s}
        PROVE  /\ fl'[x] = fl[x] /\ chunk_head'[x] = chunk_head[x]
               /\ chunk_tail'[x] = chunk_tail[x]
               /\ \A d \in Range(fl[x]) : next'[d] = next[d]
    <2>1. q # <<>> => q[Len(q)] \notin Range(fl[x])
      <3>1. q # <<>> => At(q[Len(q)], "list", s)
        BY <1>7, <1>2 DEF At
      <3>2. q[Len(q)] \in Range(fl[x]) => At(q[Len(q)], "list", x)
        BY DEF At
      <3> QED BY <1>7, <1>2, <3>1, <3>2 DEF OwnInv, Exclusive, Kinds, Owners
    <2>2. CASE q = <<>>
      BY <1>1, <1>2, <1>6, <1>t, <2>2 DEF FreeLink, TypeOK
    <2>3. CASE q # <<>>
      <3>1. /\ next' = [next EXCEPT ![q[Len(q)]] = c]
            /\ UNCHANGED <<chunk_head, chunk_tail>>
        BY <1>6, <1>7, <2>3 DEF FreeLink
      <3> QED BY <1>1, <1>t, <2>1, <2>3, <3>1 DEF TypeOK
    <2> QED BY <2>2, <2>3
  <1>9. /\ PopInv' /\ \A x \in UsedSets \ {s} : ListInv(x)'
        /\ \A u \in Threads \ {t} : ~Tailer(u, s)'
    <2>1. pc'[t] # "alloc_pop" /\ \A u \in Threads \ {t} : pc'[u] = pc[u]
      BY <1>1, <1>t DEF TypeOK
    <2> QED BY <1>1, <1>2, <1>8, <2>1, OtherSets
  <1>10. ListInv(s)'
    <2>1. \A u \in Threads : Tailer(u, s)' => cur'[u] = c
      BY <1>1, <1>9
    <2>2. Closing(s)'
      BY <1>1, <1>2, <1>t DEF Closing, TypeOK
    <2>3. CASE q = <<>>
      <3>1. chunk_head'[s] = c /\ next' = next
        BY <1>2, <1>6, <1>t, <2>3 DEF FreeLink, TypeOK
      <3>2. fl'[s] = <<>> /\ Len(fl'[s]) = 0
        BY <1>1, <2>3
      <3> QED BY <2>1, <2>2, <3>1, <3>2 DEF ListInv, Tailer
    <2>4. CASE q # <<>>
      <3>1. /\ next' = [next EXCEPT ![q[Len(q)]] = c]
            /\ UNCHANGED <<chunk_head, chunk_tail>>
        BY <1>6, <1>7, <2>4 DEF FreeLink
      <3>2. next'[q[Len(q)]] = c
        BY <1>7, <1>t, <2>4, <3>1 DEF TypeOK
      <3>3. ASSUME NEW k \in 1 .. (Len(q) - 1) PROVE next'[q[k]] = q[k + 1]
        <4>1. q[k] \in Chunks /\ q[k] # q[Len(q)]
          BY <1>3 DEF IsInjective
        <4>2. next[q[k]] = q[k + 1]
          BY <1>5 DEF ListInv
        <4> QED BY <1>t, <3>1, <4>1, <4>2 DEF TypeOK
      <3>4. fl'[s] = q
        BY <1>1
      <3> QED BY <1>5, <2>1, <2>2, <2>4, <3>1, <3>2, <3>3, <3>4 DEF ListInv,
             Tailer
    <2> QED BY <2>3, <2>4
  <1>11. NoRepeats'
    BY <1>1 DEF OwnInv, NoRepeats
  <1> QED BY <1>9, <1>10, <1>11

\* The chunk becomes the tail, and the end of the list.
LEMMA ListFreeTail ==
    ASSUME TypeInv, MutualExclusion, OwnInv, NEW t \in Threads, FreeTail(t)
    PROVE  PopInv' /\ \A s \in UsedSets : ListInv(s)'
  <1>t. TypeOK /\ Control(t)
    BY DEF TypeInv
  <1> SUFFICES ASSUME NEW s, s = pos[t], NEW q, q = fl[s], NEW c, c = cur[t]
               PROVE  PopInv' /\ \A x \in UsedSets : ListInv(x)'
    OBVIOUS
  <1>1. /\ pc[t] = "free_tail" /\ pc' = [pc EXCEPT ![t] = "free_unlock"]
        /\ UNCHANGED <<chunk_head, cur, pos>>
        /\ next' = [next EXCEPT ![c] = NULL]
        /\ chunk_tail' = [chunk_tail EXCEPT ![s] = c]
    BY DEF FreeTail, callVars, Goto
  <1>2. /\ s \in UsedSets /\ c \in Chunks /\ Inside(t, s)
        /\ \A x \in UsedSets : c \notin Range(fl[x])
    BY <1>1, AtFreeTail DEF Inside, Critical
  <1>3. q \in Seq(Chunks) /\ IsInjective(q) /\ c \notin Range(q)
    BY <1>2, <1>t DEF TypeOK, OwnInv, NoRepeats
  <1>4. PICK r : /\ Len(r) = Len(q) + 1 /\ r # <<>>
                 /\ \A k \in 1 .. Len(q) : r[k] = q[k]
                 /\ r[Len(r)] = c
                 /\ fl' = [fl EXCEPT ![s] = r]
    <2>1. fl' = [fl EXCEPT ![s] = Append(q, c)]
      BY DEF FreeTail
    <2>2. \E r : /\ r = Append(q, c) /\ Len(r) = Len(q) + 1 /\ r # <<>>
                 /\ \A k \in 1 .. Len(q) : r[k] = q[k]
                 /\ r[Len(r)] = c
      BY <1>2, <1>3, AppendFacts
    <2> QED BY <2>1, <2>2
  <1>5. ASSUME NEW x \in UsedSets \ {s}
        PROVE  /\ fl'[x] = fl[x] /\ chunk_head'[x] = chunk_head[x]
               /\ chunk_tail'[x] = chunk_tail[x]
               /\ \A d \in Range(fl[x]) : next'[d] = next[d]
    <2>1. fl'[x] = fl[x] /\ chunk_head'[x] = chunk_head[x]
      BY <1>1, <1>4, <1>t DEF TypeOK
    <2>2. chunk_tail'[x] = chunk_tail[x]
      BY <1>1, <1>t DEF TypeOK
    <2>3. ASSUME NEW d \in Range(fl[x]) PROVE next'[d] = next[d]
      <3>1. d # c /\ fl[x] \in Seq(Chunks)
        BY <1>2, <1>t DEF TypeOK
      <3>2. d \in Chunks
        BY <3>1 DEF Range
      <3> QED BY <1>1, <1>t, <3>1, <3>2 DEF TypeOK
    <2> QED BY <2>1, <2>2, <2>3
  <1>6. /\ PopInv' /\ \A x \in UsedSets \ {s} : ListInv(x)'
        /\ \A u \in Threads \ {t} : ~Tailer(u, s)'
    <2>1. pc'[t] # "alloc_pop" /\ \A u \in Threads \ {t} : pc'[u] = pc[u]
      BY <1>1, <1>t DEF TypeOK
    <2> QED BY <1>1, <1>2, <1>5, <2>1, OtherSets
  <1>7. ListInv(s)'
    <2>1. /\ fl'[s] = r /\ chunk_tail'[s] = c /\ next'[c] = NULL
          /\ chunk_head'[s] = chunk_head[s]
      BY <1>1, <1>2, <1>4, <1>t DEF TypeOK
    <2>2. ~ \E u \in Threads : Tailer(u, s)'
      BY <1>1, <1>6, <1>t DEF Tailer, TypeOK
    <2>3. /\ \A k \in 1 .. (Len(q) - 1) : next[q[k]] = q[k + 1]
          /\ q # <<>> => chunk_head[s] = q[1]
          /\ IF q = <<>> THEN chunk_head[s] = c ELSE next[q[Len(q)]] = c
      BY <1>1, <1>2 DEF OwnInv, ListInv
    <2>4. \A k \in 1 .. Len(q) : next'[q[k]] = next[q[k]]
      <3> SUFFICES ASSUME NEW k \in 1 .. Len(q) PROVE next'[q[k]] = next[q[k]]
        OBVIOUS
      <3>1. q[k] \in Chunks /\ q[k] \in Range(q)
        BY <1>3 DEF Range
      <3> QED BY <1>1, <1>3, <1>t, <3>1 DEF TypeOK
    <2>l. Len(q) \in Nat /\ (q = <<>> <=> Len(q) = 0)
      BY <1>3
    <2>5. ASSUME NEW k \in 1 .. (Len(r) - 1) PROVE next'[r[k]] = r[k + 1]
      <3>1. k \in 1 .. Len(q) /\ r[k] = q[k] /\ next'[r[k]] = next[q[k]]
        BY <1>4, <2>4, <2>l
      <3>2. CASE k = Len(q)
        BY <1>4, <2>3, <2>l, <3>1, <3>2
      <3>3. CASE k # Len(q)
        <4>1. k \in 1 .. (Len(q) - 1) /\ k + 1 \in 1 .. Len(q)
          BY <2>l, <3>1, <3>3
        <4> QED BY <1>4, <2>3, <3>1, <4>1
      <3> QED BY <3>2, <3>3
    <2>6. chunk_head[s] = r[1]
      <3>1. CASE q = <<>>
        BY <1>4, <2>3, <2>l, <3>1
      <3>2. CASE q # <<>>
        <4>1. 1 \in 1 .. Len(q)
          BY <2>l, <3>2
        <4> QED BY <1>4, <2>3, <3>2, <4>1
      <3> QED BY <3>1, <3>2
    <2> QED BY <1>4, <2>1, <2>2, <2>5, <2>6 DEF ListInv, Tailer
  <1> QED BY <1>6, <1>7

-----------------------------------------------------------------------------
(* The invariant, action by action *)

\* A step that moves no chunk in or out of the pool's reach keeps LiveInv.
LEMMA LiveSame ==
    ASSUME open, open' = open, LiveInv,
           \A c \in Chunks : (c \in live' <=> Placed(c)') <=> (c \in live <=> Placed(c))
    PROVE  LiveInv'
  BY DEF LiveInv

\* A step of thread t that only takes it to another label.
LEMMA OwnQuiet ==
    ASSUME TypeInv, OwnInv, NEW t \in Threads, open,
           UNCHANGED <<live, open, next, chunk_head, chunk_tail, held, cur, old,
                       new, fl>>,
           pc[t] \in Carries <=> pc'[t] \in Carries,
           pc[t] # "free_tail", pc'[t] # "free_tail", pc'[t] # "alloc_pop",
           \A u \in Threads \ {t} : pc'[u] = pc[u] /\ pos'[u] = pos[u]
    PROVE  OwnInv'
  <1>1. NoMove
    BY AtQuiet
  <1>2. Exclusive' /\ \A c \in Chunks : Placed(c)' <=> Placed(c)
    BY <1>1, NoMoveKeeps DEF OwnInv
  <1>3. NoRepeats' /\ PopInv' /\ \A s \in UsedSets : ListInv(s)'
    BY ListsQuiet DEF TypeInv
  <1>4. LiveInv'
    BY <1>2, LiveSame DEF OwnInv
  <1> QED BY <1>2, <1>3, <1>4 DEF OwnInv

\* A step of thread t, outside the lists, that moves chunk m.
LEMMA OwnMoved ==
    ASSUME TypeInv, OwnInv, NEW t \in Threads, open, open' = open,
           UNCHANGED <<next, chunk_head, chunk_tail, fl>>,
           NEW m \in Chunks, NEW k \in Kinds, NEW x \in Owners, Moved(m, k, x),
           live' = live, Placed(m),
           pc[t] # "free_tail", pc'[t] # "free_tail", pc'[t] # "alloc_pop",
           \A u \in Threads \ {t} :
               pc'[u] = pc[u] /\ pos'[u] = pos[u] /\ cur'[u] = cur[u]
    PROVE  OwnInv'
  <1>1. Exclusive' /\ \A c \in Chunks : Placed(c)' <=> Placed(c)
    BY MovedKeeps DEF OwnInv
  <1>2. NoRepeats' /\ PopInv' /\ \A s \in UsedSets : ListInv(s)'
    BY ListsQuiet DEF TypeInv
  <1>3. LiveInv'
    BY <1>1, LiveSame DEF OwnInv
  <1> QED BY <1>1, <1>2, <1>3 DEF OwnInv

\* The client calls.
LEMMA OwnCall ==
    ASSUME TypeInv, OwnInv, NEW t \in Threads, Call(t)
    PROVE  OwnInv'
  <1>t. TypeOK /\ Control(t)
    BY DEF TypeInv
  <1>1. CASE \E n \in Requests : AllocCall(t, n)
    <2>1. /\ open /\ pc[t] = "idle" /\ pc' = [pc EXCEPT ![t] = "alloc_start"]
          /\ UNCHANGED <<live, open, next, chunk_head, chunk_tail, held, cur,
                         old, new, fl, pos>>
      BY <1>1 DEF AllocCall, Goto, setVars
    <2> QED BY <2>1, <1>t, OwnQuiet DEF TypeOK, Carries
  <1>2. CASE \E c \in Chunks, n \in Requests : ReallocInPlace(t, c, n)
    <2>1. /\ open /\ pc[t] = "idle"
          /\ UNCHANGED <<live, open, next, chunk_head, chunk_tail, held, cur,
                         old, new, fl, pc, pos>>
      BY <1>2 DEF ReallocInPlace, setVars
    <2> QED BY <2>1, OwnQuiet
  <1>3. CASE \E c \in Chunks : FreeCall(t, c)
    <2>1. PICK c \in Chunks : FreeCall(t, c)
      BY <1>3
    <2>2. /\ open /\ pc[t] = "idle" /\ pc' = [pc EXCEPT ![t] = "free_start"]
          /\ UNCHANGED <<live, open, next, chunk_head, chunk_tail, fl, pos>>
          /\ cur' = [cur EXCEPT ![t] = c] /\ c \in held
      BY <2>1 DEF FreeCall, Goto, setVars, callVars
    <2>3. Moved(c, "cur", t) /\ Placed(c)
      BY <2>1, <2>2, AtFreeCall DEF OwnInv, Placed, At, Kinds, Owners
    <2>4. /\ pc[t] # "free_tail" /\ pc'[t] # "free_tail" /\ pc'[t] # "alloc_pop"
          /\ \A u \in Threads \ {t} :
                pc'[u] = pc[u] /\ pos'[u] = pos[u] /\ cur'[u] = cur[u]
      BY <2>2, <1>t DEF TypeOK
    <2> QED BY <2>2, <2>3, <2>4, OwnMoved DEF Kinds, Owners
  <1>4. CASE \E c \in Chunks, n \in Requests : ReallocMove(t, c, n)
    <2>1. PICK c \in Chunks, n \in Requests : ReallocMove(t, c, n)
      BY <1>4
    <2>2. /\ open /\ pc[t] = "idle" /\ pc' = [pc EXCEPT ![t] = "alloc_start"]
          /\ UNCHANGED <<live, open, next, chunk_head, chunk_tail, fl, pos, cur>>
          /\ c \in held
      BY <2>1 DEF ReallocMove, Goto, setVars
    <2>3. Moved(c, "old", t) /\ Placed(c)
      BY <2>1, <2>2, AtReallocMove DEF OwnInv, Placed, At, Kinds, Owners
    <2>4. /\ pc[t] # "free_tail" /\ pc'[t] # "free_tail" /\ pc'[t] # "alloc_pop"
          /\ \A u \in Threads \ {t} :
                pc'[u] = pc[u] /\ pos'[u] = pos[u] /\ cur'[u] = cur[u]
      BY <2>2, <1>t DEF TypeOK
    <2> QED BY <2>2, <2>3, <2>4, OwnMoved DEF Kinds, Owners
  <1> QED BY <1>1, <1>2, <1>3, <1>4 DEF Call

\* alloc returns NULL.
LEMMA OwnAllocFails ==
    ASSUME TypeInv, OwnInv, NEW t \in Threads, open,
           pc[t] \in {"alloc_start", "alloc_create"}, AllocFails(t),
           UNCHANGED <<live, open, next, chunk_head, chunk_tail, fl>>
    PROVE  OwnInv'
  <1>t. TypeOK /\ Control(t)
    BY DEF TypeInv
  <1>1. IF old[t] = NULL THEN NoMove ELSE Moved(old[t], "held", NULL)
    BY AtAllocFails DEF OwnInv
  <1>2. /\ pc[t] # "free_tail" /\ pc'[t] # "free_tail" /\ pc'[t] # "alloc_pop"
        /\ \A u \in Threads \ {t} :
              pc'[u] = pc[u] /\ pos'[u] = pos[u] /\ cur'[u] = cur[u]
    BY <1>t DEF AllocFails, Goto, TypeOK
  <1>3. CASE old[t] = NULL
    <2>1. Exclusive' /\ \A c \in Chunks : Placed(c)' <=> Placed(c)
      BY <1>1, <1>3, NoMoveKeeps DEF OwnInv
    <2>2. NoRepeats' /\ PopInv' /\ \A s \in UsedSets : ListInv(s)'
      BY <1>2, <1>t, ListsQuiet
    <2>3. LiveInv'
      BY <2>1, LiveSame DEF OwnInv
    <2> QED BY <2>1, <2>2, <2>3 DEF OwnInv
  <1>4. CASE old[t] # NULL
    <2>1. old[t] \in Chunks
      BY <1>4, <1>t DEF TypeOK
    <2>2. Placed(old[t])
      BY <2>1 DEF Placed, At, Kinds, Owners
    <2> QED BY <1>1, <1>2, <1>4, <2>1, <2>2, OwnMoved DEF Kinds, Owners
  <1> QED BY <1>3, <1>4

\* alloc returns the chunk in its hands.
LEMMA OwnAllocSucceeds ==
    ASSUME TypeInv, OwnInv, NEW t \in Threads, open,
           pc[t] \in {"alloc_unlock", "alloc_account"}, cur[t] # NULL,
           AllocSucceeds(t, cur[t]),
           UNCHANGED <<live, open, next, chunk_head, chunk_tail, fl>>
    PROVE  OwnInv'
  <1>t. TypeOK /\ Control(t)
    BY DEF TypeInv
  <1>1. cur[t] \in Chunks /\ At(cur[t], "cur", t)
    BY <1>t DEF TypeOK, At, Carries
  <1>2. Placed(cur[t])
    BY <1>1 DEF Placed, Kinds, Owners
  <1>3. /\ pc[t] # "free_tail" /\ pc'[t] # "free_tail" /\ pc'[t] # "alloc_pop"
        /\ \A u \in Threads \ {t} :
              pc'[u] = pc[u] /\ pos'[u] = pos[u] /\ cur'[u] = cur[u]
    BY <1>t DEF AllocSucceeds, Goto, TypeOK
  <1>4. CASE old[t] = NULL
    <2>1. Moved(cur[t], "held", NULL)
      BY <1>4, AtAllocSucceeds DEF OwnInv
    <2> QED BY <1>1, <1>2, <1>3, <2>1, OwnMoved DEF Kinds, Owners
  <1>5. CASE old[t] # NULL
    <2>1. \A c \in Chunks, k2 \in Kinds, x2 \in Owners :
            At(c, k2, x2)' <=> IF c = cur[t] THEN k2 = "new" /\ x2 = t
                               ELSE IF c = old[t] THEN k2 = "cur" /\ x2 = t
                               ELSE At(c, k2, x2)
      BY <1>5, AtAllocSucceeds DEF OwnInv
    <2>2. Exclusive'
      BY <2>1 DEF OwnInv, Exclusive
    <2>3. Placed(old[t])
      BY DEF Placed, At, Kinds, Owners
    <2>4. ASSUME NEW c \in Chunks PROVE Placed(c)' <=> Placed(c)
      <3>1. "new" \in Kinds /\ "cur" \in Kinds /\ t \in Owners
        BY DEF Kinds, Owners
      <3> QED BY <1>2, <2>1, <2>3, <3>1 DEF Placed
    <2>5. NoRepeats' /\ PopInv' /\ \A s \in UsedSets : ListInv(s)'
      BY <1>3, <1>t, ListsQuiet
    <2>6. LiveInv'
      BY <2>4, LiveSame DEF OwnInv
    <2> QED BY <2>2, <2>5, <2>6 DEF OwnInv
  <1> QED BY <1>4, <1>5

\* AllocCreate leaves each chunk at one place, and the lists linked.
LEMMA OwnAllocCreate ==
    ASSUME TypeInv, OwnInv, NEW t \in Threads, NEW c \in Chunks,
           AllocCreate(t, c)
    PROVE  OwnInv'
  <1>t. TypeOK /\ Control(t)
    BY DEF TypeInv
  <1>1. Moved(c, "cur", t) /\ open
    BY AtAllocCreate
  <1>2. /\ pc[t] = "alloc_create" /\ pc' = [pc EXCEPT ![t] = "alloc_account"]
        /\ cur' = [cur EXCEPT ![t] = c] /\ c \notin live
        /\ live' = live \cup {c} /\ next' = [next EXCEPT ![c] = NULL]
        /\ UNCHANGED <<open, chunk_head, chunk_tail, fl, pos>>
    BY DEF AllocCreate, Goto, setVars, callVars
  <1>3. /\ pc'[t] = "alloc_account"
        /\ \A u \in Threads \ {t} :
              pc'[u] = pc[u] /\ pos'[u] = pos[u] /\ cur'[u] = cur[u]
    BY <1>2, <1>t DEF TypeOK
  <1>4. "cur" \in Kinds /\ t \in Owners
    BY DEF Kinds, Owners
  <1>5. Exclusive' /\ \A d \in Chunks : Placed(d)' <=> Placed(d) \/ d = c
    BY <1>1, <1>4, MovedKeeps DEF OwnInv
  <1>6. LiveInv'
    BY <1>1, <1>2, <1>5 DEF OwnInv, LiveInv
  <1>7. ~Placed(c)
    BY <1>1, <1>2 DEF OwnInv, LiveInv
  <1>8. ASSUME NEW s \in UsedSets PROVE ListInv(s)'
    <2>1. c \notin Range(fl[s])
      BY <1>7 DEF Placed, At, Kinds, Owners
    <2>2. \A d \in Range(fl[s]) : next'[d] = next[d]
      <3> SUFFICES ASSUME NEW d \in Range(fl[s]) PROVE next'[d] = next[d]
        OBVIOUS
      <3>1. fl[s] \in Seq(Chunks)
        BY <1>t DEF TypeOK
      <3>2. d \in Chunks /\ d # c
        BY <2>1, <3>1 DEF Range
      <3> QED BY <1>2, <1>t, <3>2 DEF TypeOK
    <2>3. /\ \A u \in Threads : Tailer(u, s)' <=> Tailer(u, s)
          /\ \A u \in Threads : Tailer(u, s) => cur'[u] = cur[u]
      BY <1>2, <1>3 DEF Tailer
    <2> QED BY <1>2, <1>t, <2>2, <2>3, ListFrame DEF OwnInv
  <1>9. PopInv'
    BY <1>2, <1>3 DEF OwnInv, PopInv
  <1>10. NoRepeats'
    BY <1>2 DEF OwnInv, NoRepeats
  <1> QED BY <1>5, <1>6, <1>8, <1>9, <1>10 DEF OwnInv

\* The head is read; nothing moves.
LEMMA OwnAllocPeek ==
    ASSUME TypeInv, OwnInv, NEW t \in Threads, open, AllocPeek(t)
    PROVE  OwnInv'
  <1>t. TypeOK /\ Control(t)
    BY DEF TypeInv
  <1>1. /\ pc[t] = "alloc_peek"
        /\ cur' = [cur EXCEPT ![t] = chunk_head[pos[t]]]
        /\ pc' = [pc EXCEPT ![t] = IF chunk_head[pos[t]] = NULL
                                   THEN "alloc_unlock" ELSE "alloc_pop"]
        /\ UNCHANGED <<live, open, next, chunk_head, chunk_tail, fl, pos, held,
                       old, new>>
    BY DEF AllocPeek, Goto, setVars, callVars
  <1>2. /\ pc'[t] \in {"alloc_unlock", "alloc_pop"}
        /\ pc'[t] = "alloc_unlock" => cur'[t] = NULL
        /\ cur'[t] = chunk_head[pos[t]]
        /\ \A u \in Threads \ {t} :
              pc'[u] = pc[u] /\ pos'[u] = pos[u] /\ cur'[u] = cur[u]
    BY <1>1, <1>t DEF TypeOK
  <1>3. NoMove
    BY <1>1, <1>2, NullFact DEF NoMove, At, Carries
  <1>4. Exclusive' /\ \A c \in Chunks : Placed(c)' <=> Placed(c)
    BY <1>3, NoMoveKeeps DEF OwnInv
  <1>5. LiveInv'
    BY <1>1, <1>4, LiveSame DEF OwnInv
  <1>6. PopInv'
    BY <1>1, <1>2 DEF OwnInv, PopInv
  <1>7. ASSUME NEW s \in UsedSets PROVE ListInv(s)'
    <2>1. /\ \A u \in Threads : Tailer(u, s)' <=> Tailer(u, s)
          /\ \A u \in Threads : Tailer(u, s) => cur'[u] = cur[u]
      BY <1>1, <1>2 DEF Tailer
    <2> QED BY <1>1, <1>t, <2>1, ListFrame DEF OwnInv
  <1>8. NoRepeats'
    BY <1>1 DEF OwnInv, NoRepeats
  <1> QED BY <1>4, <1>5, <1>6, <1>7, <1>8 DEF OwnInv

\* AllocUnlock leaves each chunk at one place, and the lists linked.
LEMMA OwnAllocUnlock ==
    ASSUME TypeInv, OwnInv, NEW t \in Threads, open, AllocUnlock(t)
    PROVE  OwnInv'
  <1>t. TypeOK /\ Control(t)
    BY DEF TypeInv
  <1>1. /\ pc[t] = "alloc_unlock"
        /\ UNCHANGED <<live, open, next, chunk_head, chunk_tail, fl>>
    BY DEF AllocUnlock, listVars
  <1>2. CASE cur[t] # NULL
    BY <1>1, <1>2, OwnAllocSucceeds DEF AllocUnlock
  <1>3. CASE cur[t] = NULL
    <2>1. /\ pc' = [pc EXCEPT ![t] = "alloc_create"]
          /\ UNCHANGED <<held, cur, pos, old, new>>
      BY <1>3 DEF AllocUnlock, Goto
    <2>2. /\ pc'[t] = "alloc_create"
          /\ \A u \in Threads \ {t} :
                pc'[u] = pc[u] /\ pos'[u] = pos[u] /\ cur'[u] = cur[u]
      BY <2>1, <1>t DEF TypeOK
    <2>3. NoMove
      BY <1>1, <1>3, <2>1, <2>2, NullFact DEF NoMove, At, Carries
    <2>4. Exclusive' /\ \A c \in Chunks : Placed(c)' <=> Placed(c)
      BY <2>3, NoMoveKeeps DEF OwnInv
    <2>5. LiveInv'
      BY <1>1, <2>4, LiveSame DEF OwnInv
    <2>6. NoRepeats' /\ PopInv' /\ \A s \in UsedSets : ListInv(s)'
      BY <1>1, <1>t, <2>2, ListsQuiet
    <2> QED BY <2>4, <2>5, <2>6 DEF OwnInv
  <1> QED BY <1>2, <1>3

\* AllocPop leaves each chunk at one place, and the lists linked.
LEMMA OwnAllocPop ==
    ASSUME TypeInv, MutualExclusion, OwnInv, NEW t \in Threads, open, AllocPop(t)
    PROVE  OwnInv'
  <1>1. /\ Moved(cur[t], "cur", t) /\ NoRepeats' /\ PopInv'
        /\ \A s \in UsedSets : ListInv(s)'
    BY AtAllocPop, ListAllocPop
  <1>2. "cur" \in Kinds /\ t \in Owners
    BY DEF Kinds, Owners
  <1>3. cur[t] \in Chunks /\ Placed(cur[t])
    <2>1. cur[t] \in Chunks
      BY DEF AllocPop, TypeInv, Control, TypeOK
    <2> QED BY <2>1, PopHead DEF Placed, At, Kinds, Owners
  <1>4. Exclusive' /\ \A d \in Chunks : Placed(d)' <=> Placed(d) \/ d = cur[t]
    BY <1>1, <1>2, <1>3, MovedKeeps DEF OwnInv
  <1>5. LiveInv'
    BY <1>3, <1>4, LiveSame DEF OwnInv, AllocPop
  <1> QED BY <1>1, <1>4, <1>5 DEF OwnInv

\* FreeTail leaves each chunk at one place, and the lists linked.
LEMMA OwnFreeTail ==
    ASSUME TypeInv, MutualExclusion, OwnInv, NEW t \in Threads, open, FreeTail(t)
    PROVE  OwnInv'
  <1>1. /\ Moved(cur[t], "list", pos[t]) /\ NoRepeats' /\ PopInv'
        /\ \A s \in UsedSets : ListInv(s)'
        /\ cur[t] \in Chunks /\ pos[t] \in UsedSets
    BY AtFreeTail, ListFreeTail
  <1>2. "list" \in Kinds /\ "cur" \in Kinds /\ pos[t] \in Owners /\ t \in Owners
    BY <1>1 DEF Kinds, Owners
  <1>3. Placed(cur[t])
    BY <1>2 DEF Placed, At, FreeTail, Carries
  <1>4. Exclusive' /\ \A d \in Chunks : Placed(d)' <=> Placed(d) \/ d = cur[t]
    BY <1>1, <1>2, MovedKeeps DEF OwnInv
  <1>5. LiveInv'
    BY <1>3, <1>4, LiveSame DEF OwnInv, FreeTail
  <1> QED BY <1>1, <1>4, <1>5 DEF OwnInv

\* FreeLink leaves each chunk at one place, and the lists linked.
LEMMA OwnFreeLink ==
    ASSUME TypeInv, MutualExclusion, OwnInv, NEW t \in Threads, open, FreeLink(t)
    PROVE  OwnInv'
  <1>1. NoRepeats' /\ PopInv' /\ \A s \in UsedSets : ListInv(s)'
    BY ListFreeLink
  <1>2. NoMove
    <2>1. /\ pc[t] = "free_link" /\ pc' = [pc EXCEPT ![t] = "free_tail"]
          /\ UNCHANGED <<held, cur, old, new, fl>>
      BY DEF FreeLink, Goto, callVars
    <2> QED BY <2>1, AtQuiet DEF TypeInv, TypeOK, Carries
  <1>3. Exclusive' /\ \A c \in Chunks : Placed(c)' <=> Placed(c)
    BY <1>2, NoMoveKeeps DEF OwnInv
  <1>4. LiveInv'
    BY <1>3, LiveSame DEF OwnInv, FreeLink
  <1> QED BY <1>1, <1>3, <1>4 DEF OwnInv

\* free returns; a chunk given back to malloc is nowhere after.
LEMMA OwnFreeReturns ==
    ASSUME TypeInv, OwnInv, NEW t \in Threads, open, open' = open,
           FreeReturns(t), pc[t] \in {"free_unlock", "free_destroy"},
           live' = live \ (IF pc[t] = "free_destroy" THEN {cur[t]} ELSE {}),
           UNCHANGED <<next, chunk_head, chunk_tail, old, fl>>
    PROVE  OwnInv'
  <1>t. TypeOK /\ Control(t)
    BY DEF TypeInv
  <1>1. \A c \in Chunks, k2 \in Kinds, x2 \in Owners :
          At(c, k2, x2)' <=>
              IF c = new[t] THEN k2 = "held" /\ x2 = NULL
              ELSE IF pc[t] = "free_destroy" /\ c = cur[t] THEN FALSE
              ELSE At(c, k2, x2)
    BY AtFreeReturns DEF OwnInv
  <1>2. Exclusive'
    BY <1>1 DEF OwnInv, Exclusive
  <1>3. new[t] \in Chunks => Placed(new[t]) /\ ~(pc[t] = "free_destroy" /\ cur[t] = new[t])
    BY DEF Placed, At, Kinds, Owners, OwnInv, Exclusive, Carries
  <1>4. "held" \in Kinds /\ NULL \in Owners
    BY DEF Kinds, Owners
  <1>5. ASSUME NEW c \in Chunks
        PROVE  Placed(c)' <=> Placed(c) /\ ~(pc[t] = "free_destroy" /\ c = cur[t])
    <2>1. CASE c = new[t]
      BY <1>1, <1>3, <1>4, <2>1 DEF Placed
    <2>2. CASE c # new[t]
      BY <1>1, <2>2 DEF Placed
    <2> QED BY <2>1, <2>2
  <1>6. LiveInv'
    BY <1>5 DEF OwnInv, LiveInv
  <1>7. /\ pc[t] # "free_tail" /\ pc'[t] # "free_tail" /\ pc'[t] # "alloc_pop"
        /\ \A u \in Threads \ {t} :
              pc'[u] = pc[u] /\ pos'[u] = pos[u] /\ cur'[u] = cur[u]
    BY <1>t DEF FreeReturns, Goto, TypeOK
  <1>8. NoRepeats' /\ PopInv' /\ \A s \in UsedSets : ListInv(s)'
    BY <1>7, <1>t, ListsQuiet
  <1> QED BY <1>2, <1>6, <1>8 DEF OwnInv

\* AllocStep leaves each chunk at one place, and the lists linked.
LEMMA OwnAllocStep ==
    ASSUME TypeInv, MutualExclusion, OwnInv, NEW t \in Threads, AllocStep(t)
    PROVE  OwnInv'
  <1>t. TypeOK /\ Control(t)
    BY DEF TypeInv
  <1>o. open
    BY DEF AllocStep, OwnInv, LiveInv, AllocRefused, AllocStart, AllocLock,
           AllocPeek, AllocPop, AllocUnlock, AllocCreate, AllocCreateFails,
           AllocAccount
  <1>1. CASE AllocRefused(t) \/ AllocCreateFails(t)
    BY <1>1, <1>o, OwnAllocFails DEF AllocRefused, AllocCreateFails, setVars
  <1>2. CASE AllocStart(t)
    <2>1. /\ pc[t] = "alloc_start"
          /\ \/ pc' = [pc EXCEPT ![t] = "alloc_lock"]
             \/ pc' = [pc EXCEPT ![t] = "alloc_create"]
          /\ \A u \in Threads \ {t} : pos'[u] = pos[u]
          /\ UNCHANGED <<live, open, next, chunk_head, chunk_tail, held, cur,
                         old, new, fl>>
      BY <1>2, <1>t DEF AllocStart, Goto, setVars, TypeOK
    <2> QED BY <1>o, <1>t, <2>1, OwnQuiet DEF TypeOK, Carries
  <1>3. CASE AllocLock(t)
    <2>1. /\ pc[t] = "alloc_lock" /\ pc' = [pc EXCEPT ![t] = "alloc_peek"]
          /\ UNCHANGED <<live, open, next, chunk_head, chunk_tail, held, cur,
                         old, new, fl, pos>>
      BY <1>3 DEF AllocLock, Goto, listVars, callVars
    <2> QED BY <1>o, <1>t, <2>1, OwnQuiet DEF TypeOK, Carries
  <1>4. CASE AllocPeek(t)
    BY <1>4, <1>o, OwnAllocPeek
  <1>5. CASE AllocPop(t)
    BY <1>5, <1>o, OwnAllocPop
  <1>6. CASE AllocUnlock(t)
    BY <1>6, <1>o, OwnAllocUnlock
  <1>7. CASE \E c \in Chunks : AllocCreate(t, c)
    BY <1>7, OwnAllocCreate
  <1>8. CASE AllocAccount(t)
    BY <1>8, <1>o, <1>t, OwnAllocSucceeds DEF AllocAccount, Control, setVars
  <1> QED
    BY <1>1, <1>2, <1>3, <1>4, <1>5, <1>6, <1>7, <1>8 DEF AllocStep

\* FreeStep leaves each chunk at one place, and the lists linked.
LEMMA OwnFreeStep ==
    ASSUME TypeInv, MutualExclusion, OwnInv, NEW t \in Threads, FreeStep(t)
    PROVE  OwnInv'
  <1>t. TypeOK /\ Control(t)
    BY DEF TypeInv
  <1>o. open
    BY DEF FreeStep, OwnInv, LiveInv, FreeStart, FreeAdopt, FreeLock, FreeLink,
           FreeTail, FreeUnlock, FreeAccount, FreeDestroy
  <1>1. CASE FreeStart(t)
    <2>1. /\ pc[t] = "free_start"
          /\ \/ pc' = [pc EXCEPT ![t] = "free_account"]
             \/ pc' = [pc EXCEPT ![t] = "free_lock"]
             \/ pc' = [pc EXCEPT ![t] = "free_adopt"]
          /\ \A u \in Threads \ {t} : pos'[u] = pos[u]
          /\ UNCHANGED <<live, open, next, chunk_head, chunk_tail, held, cur,
                         old, new, fl>>
      BY <1>1, <1>t DEF FreeStart, Goto, setVars, TypeOK
    <2> QED BY <1>o, <1>t, <2>1, OwnQuiet DEF TypeOK, Carries
  <1>2. CASE FreeAdopt(t) \/ FreeLock(t) \/ FreeAccount(t)
    <2>1. /\ pc[t] \in {"free_adopt", "free_lock", "free_account"}
          /\ \/ pc' = [pc EXCEPT ![t] = "free_lock"]
             \/ pc' = [pc EXCEPT ![t] = "free_link"]
             \/ pc' = [pc EXCEPT ![t] = "free_destroy"]
          /\ UNCHANGED <<live, open, next, chunk_head, chunk_tail, held, cur,
                         old, new, fl, pos>>
      BY <1>2 DEF FreeAdopt, FreeLock, FreeAccount, Goto, setVars, listVars,
           callVars
    <2> QED BY <1>o, <1>t, <2>1, OwnQuiet DEF TypeOK, Carries
  <1>3. CASE FreeLink(t)
    BY <1>3, <1>o, OwnFreeLink
  <1>4. CASE FreeTail(t)
    BY <1>4, <1>o, OwnFreeTail
  <1>5. CASE FreeUnlock(t)
    <2>1. /\ FreeReturns(t) /\ pc[t] = "free_unlock" /\ live' = live
          /\ UNCHANGED <<open, next, chunk_head, chunk_tail, old, fl>>
      BY <1>5 DEF FreeUnlock, listVars
    <2> QED BY <1>o, <2>1, OwnFreeReturns
  <1>6. CASE FreeDestroy(t)
    <2>1. /\ FreeReturns(t) /\ pc[t] = "free_destroy" /\ live' = live \ {cur[t]}
          /\ UNCHANGED <<open, next, chunk_head, chunk_tail, old, fl>>
      BY <1>6 DEF FreeDestroy, setVars
    <2> QED BY <1>o, <2>1, OwnFreeReturns
  <1> QED BY <1>1, <1>2, <1>3, <1>4, <1>5, <1>6 DEF FreeStep

\* mem_pool_destroy moves nothing.
LEMMA OwnStill ==
    ASSUME OwnInv, UNCHANGED <<next, chunk_head, chunk_tail, held, pc, cur, pos,
                               old, new, fl>>,
           \/ open' = open /\ live' = live
           \/ open' = FALSE /\ \A t \in Threads : pc[t] = "idle"
    PROVE  OwnInv'
  <1>1. NoMove
    BY DEF NoMove, At
  <1>2. Exclusive' /\ \A c \in Chunks : Placed(c)' <=> Placed(c)
    BY <1>1, NoMoveKeeps DEF OwnInv
  <1>3. LiveInv'
    BY <1>2 DEF OwnInv, LiveInv
  <1>4. NoRepeats' /\ PopInv'
    BY DEF OwnInv, NoRepeats, PopInv
  <1>5. \A s \in UsedSets : ListInv(s)'
    BY DEF OwnInv, ListInv, Closing
  <1> QED BY <1>2, <1>3, <1>4, <1>5 DEF OwnInv

\* No step leaves OwnInv.
LEMMA OwnNext ==
    ASSUME TypeInv, MutualExclusion, OwnInv, [Next]_vars
    PROVE  OwnInv'
  <1>1. CASE \E t \in Threads : Call(t) \/ AllocStep(t) \/ FreeStep(t)
    BY <1>1, OwnCall, OwnAllocStep, OwnFreeStep
  <1>2. CASE Destroy
    BY <1>2, OwnStill DEF Destroy, setVars
  <1>3. CASE UNCHANGED vars
    BY <1>3, OwnStill DEF vars, setVars
  <1> QED BY <1>1, <1>2, <1>3 DEF Next, Destroyed

\* The pool mem_pool_create returns has each chunk in one list.
LEMMA OwnInit == Init => OwnInv
  <1> SUFFICES ASSUME Init PROVE OwnInv
    OBVIOUS
  <1>1. /\ held = {} /\ live = InitChunks /\ open = TRUE /\ fl = InitList
        /\ \A t \in Threads : pc[t] = "idle" /\ old[t] = NULL /\ new[t] = NULL
    BY DEF Init
  <1>2. \A c \in Chunks, k \in Kinds, x \in Owners :
          At(c, k, x) <=> k = "list" /\ x \in UsedSets /\ c \in Range(InitList[x])
    BY <1>1, NullFact DEF At, Carries
  <1>3. \A s1, s2 \in UsedSets :
          s1 # s2 => Range(InitList[s1]) \cap Range(InitList[s2]) = {}
    BY PoolAssumption DEF PoolAssumption
  <1>4. Exclusive
    BY <1>2, <1>3 DEF Exclusive
  <1>5. "list" \in Kinds /\ UsedSets \subseteq Owners
    BY DEF Kinds, Owners
  <1>6. \A c \in Chunks : Placed(c) <=> c \in InitChunks
    BY <1>2, <1>5 DEF Placed, InitChunks
  <1>7. LiveInv
    BY <1>1, <1>6 DEF LiveInv
  <1>8. NoRepeats
    BY <1>1, PoolAssumption DEF NoRepeats, PoolAssumption
  <1>9. PopInv
    BY <1>1 DEF PopInv
  <1>10. ASSUME NEW s \in UsedSets PROVE ListInv(s)
    <2> SUFFICES ASSUME NEW q, q = InitList[s] PROVE ListInv(s)
      OBVIOUS
    <2>1. /\ q \in Seq(Chunks) /\ IsInjective(q) /\ fl[s] = q
          /\ chunk_head[s] = (IF q = <<>> THEN NULL ELSE Head(q))
          /\ chunk_tail[s] = (IF q = <<>> THEN NULL ELSE Last(q))
      BY PoolAssumption DEF PoolAssumption, Init
    <2>2. DOMAIN q = 1 .. Len(q) /\ Len(q) \in Nat
      BY <2>1
    <2>3. ASSUME NEW k \in DOMAIN q
          PROVE  next[q[k]] = IF k = Len(q) THEN NULL ELSE q[k + 1]
      <3>1. q[k] \in Range(q) /\ q[k] \in Chunks
        BY <2>1 DEF Range
      <3>2. q[k] \in InitChunks /\ HomeSet(q[k]) = s
        BY <2>1, <3>1, HomeFacts, <1>3 DEF InitChunks, HomeSet
      <3>3. next[q[k]] = SuccIn(q, q[k])
        BY <3>1, <3>2 DEF Init
      <3>4. \A j \in DOMAIN q : q[j] = q[k] => j = k
        BY <2>1 DEF IsInjective
      <3>5. (CHOOSE j \in DOMAIN q : q[j] = q[k]) = k
        BY <3>4
      <3> QED BY <3>3, <3>5 DEF SuccIn
    <2>4. \A k \in 1 .. (Len(q) - 1) : next[q[k]] = q[k + 1]
      BY <2>2, <2>3
    <2>5. q # <<>> => /\ Len(q) \in DOMAIN q /\ Head(q) = q[1]
                      /\ Last(q) = q[Len(q)]
      BY <2>1, <2>2 DEF Last
    <2>6. q # <<>> => next[q[Len(q)]] = NULL
      BY <2>3, <2>5
    <2> QED BY <1>1, <2>1, <2>4, <2>5, <2>6 DEF ListInv
  <1> QED BY <1>4, <1>7, <1>8, <1>9, <1>10 DEF OwnInv

\* The three invariants hold for good.
LEMMA Ownership == Spec => [](TypeInv /\ MutualExclusion /\ OwnInv)
  <1>1. TypeInv /\ MutualExclusion /\ OwnInv /\ [Next]_vars => OwnInv'
    BY OwnNext
  <1> QED
    BY <1>1, OwnInit, TypeInvariant, MutualExclusionHolds, PTL DEF Spec

-----------------------------------------------------------------------------
(* What the pool promises *)

\* The chunks in the hands of a thread are at its cur, old or new.
LEMMA HandsAreAt ==
    ASSUME TypeOK, NEW t \in Threads, NEW c
    PROVE  c \in InHands(t) <=> /\ c \in Chunks
                                /\ \E k \in {"cur", "old", "new"} : At(c, k, t)
  BY NullFact DEF InHands, At, TypeOK

\* No chunk is handed out twice: the blocks the client holds, those on their
\* way in or out, and the free lists never share a chunk.
THEOREM NoDoubleAllocationHolds == Spec => []NoDoubleAllocation
  <1>1. ASSUME TypeInv, OwnInv PROVE NoDoubleAllocation
    <2>t. TypeOK /\ \A t \in Threads : Control(t)
      BY <1>1 DEF TypeInv
    <2>e. Exclusive /\ NoRepeats
      BY <1>1 DEF OwnInv
    <2>1. ASSUME NEW c, NEW s \in UsedSets, c \in Range(fl[s])
          PROVE  c \in Chunks /\ At(c, "list", s)
      <3>1. fl[s] \in Seq(Chunks)
        BY <2>t DEF TypeOK
      <3> QED BY <2>1, <3>1 DEF Range, At
    <2>2. ASSUME NEW c \in held PROVE c \in Chunks /\ At(c, "held", NULL)
      BY <2>t DEF TypeOK, At
    <2>3. ASSUME NEW s \in UsedSets
          PROVE  /\ IsInjective(fl[s])
                 /\ Range(fl[s]) \cap held = {}
                 /\ \A t \in Threads : Range(fl[s]) \cap InHands(t) = {}
                 /\ \A s2 \in UsedSets \ {s} : Range(fl[s]) \cap Range(fl[s2]) = {}
      <3>1. IsInjective(fl[s])
        BY <2>e DEF NoRepeats
      <3>2. Range(fl[s]) \cap held = {}
        BY <2>1, <2>2, <2>e DEF Exclusive, Kinds, Owners
      <3>3. \A t \in Threads : Range(fl[s]) \cap InHands(t) = {}
        BY <2>1, <2>t, <2>e, HandsAreAt DEF Exclusive, Kinds, Owners
      <3>4. \A s2 \in UsedSets \ {s} : Range(fl[s]) \cap Range(fl[s2]) = {}
        BY <2>1, <2>e DEF Exclusive, Kinds, Owners
      <3> QED BY <3>1, <3>2, <3>3, <3>4
    <2>4. ASSUME NEW t \in Threads
          PROVE  /\ held \cap InHands(t) = {}
                 /\ \A t2 \in Threads \ {t} : InHands(t) \cap InHands(t2) = {}
                 /\ old[t] # NULL => /\ old[t] # new[t]
                                     /\ pc[t] \in Carries => old[t] # cur[t]
                 /\ new[t] # NULL => (pc[t] \in Carries => new[t] # cur[t])
      <3>1. held \cap InHands(t) = {}
        BY <2>2, <2>t, <2>e, HandsAreAt DEF Exclusive, Kinds, Owners
      <3>2. \A t2 \in Threads \ {t} : InHands(t) \cap InHands(t2) = {}
        <4> SUFFICES ASSUME NEW t2 \in Threads \ {t}, NEW c \in InHands(t),
                            c \in InHands(t2)
                     PROVE  FALSE
          OBVIOUS
        <4>1. PICK k1 \in {"cur", "old", "new"} : At(c, k1, t) /\ c \in Chunks
          BY <2>t, HandsAreAt
        <4>2. PICK k2 \in {"cur", "old", "new"} : At(c, k2, t2)
          BY <2>t, HandsAreAt
        <4> QED BY <4>1, <4>2, <2>e DEF Exclusive, Kinds, Owners
      <3>3. old[t] # NULL => /\ old[t] # new[t]
                             /\ pc[t] \in Carries => old[t] # cur[t]
        <4> SUFFICES ASSUME old[t] # NULL
                     PROVE  old[t] # new[t] /\ (pc[t] \in Carries => old[t] # cur[t])
          OBVIOUS
        <4>1. old[t] \in Chunks /\ At(old[t], "old", t)
          BY <2>t DEF TypeOK, At
        <4>2. ~At(old[t], "new", t) /\ ~At(old[t], "cur", t)
          BY <4>1, <2>e DEF Exclusive, Kinds, Owners
        <4> QED BY <4>2 DEF At
      <3>4. new[t] # NULL => (pc[t] \in Carries => new[t] # cur[t])
        <4> SUFFICES ASSUME new[t] # NULL, pc[t] \in Carries
                     PROVE  new[t] # cur[t]
          OBVIOUS
        <4>1. new[t] \in Chunks /\ At(new[t], "new", t)
          BY <2>t DEF TypeOK, At
        <4>2. ~At(new[t], "cur", t)
          BY <4>1, <2>e DEF Exclusive, Kinds, Owners
        <4> QED BY <4>2 DEF At
      <3> QED BY <3>1, <3>2, <3>3, <3>4
    <2> QED BY <2>3, <2>4 DEF NoDoubleAllocation
  <1> QED BY <1>1, Ownership, PTL

\* No chunk leaks and none is kept after free: while the pool is open, malloc's
\* chunks are those with the client, in a thread's hands and on a free list.
THEOREM NothingLostHolds == Spec => []NothingLost
  <1>1. ASSUME TypeInv, OwnInv PROVE NothingLost
    <2> SUFFICES ASSUME open
                 PROVE  live = held \cup (UNION {InHands(t) : t \in Threads})
                                    \cup (UNION {Range(fl[s]) : s \in UsedSets})
      BY DEF NothingLost
    <2>t. TypeOK
      BY <1>1 DEF TypeInv
    <2>1. \A c \in Chunks : c \in live <=> Placed(c)
      BY <1>1 DEF OwnInv, LiveInv
    <2>2. \A s \in UsedSets : Range(fl[s]) \subseteq Chunks
      <3> SUFFICES ASSUME NEW s \in UsedSets PROVE Range(fl[s]) \subseteq Chunks
        OBVIOUS
      <3>1. fl[s] \in Seq(Chunks)
        BY <2>t DEF TypeOK
      <3> QED BY <3>1 DEF Range
    <2>3. ASSUME NEW c \in Chunks
          PROVE  Placed(c) <=> \/ c \in held
                               \/ \E t \in Threads : c \in InHands(t)
                               \/ \E s \in UsedSets : c \in Range(fl[s])
      <3>1. c \in held <=> At(c, "held", NULL)
        BY DEF At
      <3>2. \A s \in UsedSets : c \in Range(fl[s]) <=> At(c, "list", s)
        BY DEF At
      <3>3. \A t \in Threads :
              c \in InHands(t) <=> At(c, "cur", t) \/ At(c, "old", t) \/ At(c, "new", t)
        BY <2>t, HandsAreAt
      <3>4. ASSUME Placed(c)
            PROVE  \/ At(c, "held", NULL)
                   \/ \E t \in Threads : At(c, "cur", t) \/ At(c, "old", t) \/ At(c, "new", t)
                   \/ \E s \in UsedSets : At(c, "list", s)
        BY <3>4 DEF Placed, At
      <3>5. ASSUME \/ At(c, "held", NULL)
                   \/ \E t \in Threads : At(c, "cur", t) \/ At(c, "old", t) \/ At(c, "new", t)
                   \/ \E s \in UsedSets : At(c, "list", s)
            PROVE  Placed(c)
        BY <3>5 DEF Placed, Kinds, Owners
      <3> QED BY <3>1, <3>2, <3>3, <3>4, <3>5
    <2>4. /\ live \subseteq Chunks /\ held \subseteq Chunks
          /\ \A t \in Threads : InHands(t) \subseteq Chunks
      BY <2>t, HandsAreAt DEF TypeOK
    <2> DEFINE hands == UNION {InHands(t) : t \in Threads}
               lists == UNION {Range(fl[s]) : s \in UsedSets}
               all == held \cup hands \cup lists
    <2>5. \A c : c \in all <=> \/ c \in held
                               \/ \E t \in Threads : c \in InHands(t)
                               \/ \E s \in UsedSets : c \in Range(fl[s])
      <3>1. \A c : c \in hands <=> \E t \in Threads : c \in InHands(t)
        BY Zenon
      <3>2. \A c : c \in lists <=> \E s \in UsedSets : c \in Range(fl[s])
        BY Zenon
      <3> HIDE DEF hands, lists
      <3> QED BY <3>1, <3>2
    <2> HIDE DEF all
    <2>6. \A c \in Chunks : Placed(c) <=> c \in all
      <3> SUFFICES ASSUME NEW c \in Chunks PROVE Placed(c) <=> c \in all
        OBVIOUS
      <3>1. Placed(c) <=> \/ c \in held
                          \/ \E t \in Threads : c \in InHands(t)
                          \/ \E s \in UsedSets : c \in Range(fl[s])
        BY <2>3
      <3>2. c \in all <=> \/ c \in held
                          \/ \E t \in Threads : c \in InHands(t)
                          \/ \E s \in UsedSets : c \in Range(fl[s])
        BY <2>5
      <3> QED BY <3>1, <3>2
    <2>7. all \subseteq Chunks
      BY <2>2, <2>4, <2>5
    <2>8. live = all
      BY <2>1, <2>4, <2>6, <2>7
    <2> QED BY <2>8 DEF all
  <1> QED BY <1>1, Ownership, PTL

\* While no thread is inside a set, its head, tail and next pointers spell out
\* its list, so mem_set_destroy and the next pop find what was freed.
THEOREM ListWellFormedHolds == Spec => []ListWellFormed
  <1>1. ASSUME MutualExclusion, OwnInv PROVE ListWellFormed
    <2> SUFFICES ASSUME NEW s \in UsedSets, ~lock[s], NEW q, q = fl[s]
                 PROVE  IF q = <<>> THEN chunk_head[s] = NULL /\ chunk_tail[s] = NULL
                        ELSE /\ chunk_head[s] = q[1]
                             /\ chunk_tail[s] = q[Len(q)]
                             /\ \A k \in 1 .. (Len(q) - 1) : next[q[k]] = q[k + 1]
                             /\ next[q[Len(q)]] = NULL
      BY DEF ListWellFormed
    <2>1. ~Closing(s)
      BY <1>1 DEF MutualExclusion, Inside, Critical, Closing
    <2> QED BY <1>1, <2>1 DEF OwnInv, ListInv
  <1> QED BY <1>1, Ownership, PTL
-----------------------------------------------------------------------------
(* Blocks fit *)

\* What mem_pool_realloc takes a block of this size to hold.
Room(n) == IF n <= MEDIUM_MAX_SIZE THEN n ELSE mem_align_size(n, ALIGN_SIZE)

Fits(c) == want[c] <= Room(size[c])

\* The client's, also while a reallocation of it is under way.
Given(c) == c \in held \/ \E t \in Threads : old[t] = c \/ new[t] = c

\* What thread t has found out of the chunk in its hands.
Working(t) ==
    /\ pc[t] = "alloc_unlock" /\ cur[t] # NULL => set_pos[cur[t]] = pos[t]
    /\ pc[t] = "alloc_account" => size[cur[t]] = AlignSize(t)
    /\ pc[t] = "free_adopt" => size[cur[t]] = ChunkSize(pos[t])
    /\ pc[t] \in {"free_lock", "free_link", "free_tail"} => set_pos[cur[t]] = pos[t]

FitInv ==
    /\ \A c \in Chunks : set_pos[c] \in UsedSets => size[c] = ChunkSize(set_pos[c])
    /\ \A s \in UsedSets : \A c \in Range(fl[s]) : set_pos[c] = s
    /\ \A c \in Chunks : Given(c) => Fits(c)
    /\ \A t \in Threads : Working(t)

\* A request is not larger than the chunks of its class.
LEMMA RequestFits ==
    ASSUME NEW n \in Nat, n > 0, n <= MEDIUM_MAX_SIZE
    PROVE  n <= ChunkSize(mem_pool_get_set_by_size(n))
  <1> DEFINE p == mem_pool_get_set_by_size(n)
  <1>1. CASE n <= TINY_MAX_SIZE
    <2>1. p = ((n + 15) \div 16) - 1
      BY <1>1 DEF mem_pool_get_set_by_size, mem_align_size, TINY_MIN_SIZE, TINY_MAX_SIZE
    <2>2. p \in 0 .. 63 /\ n <= 16 + p * 16
      BY <1>1, <2>1 DEF TINY_MAX_SIZE
    <2> HIDE DEF p
    <2>3. n <= ChunkSize(p)
      BY <2>2 DEF ChunkSize, SET_BOUNDARY, TINY_MIN_SIZE, TINY_STEP
    <2> QED BY <2>3 DEF p
  <1>2. CASE n > TINY_MAX_SIZE
    <2>1. p = ((n + 1023) \div 1024) + 62
      BY <1>2 DEF mem_pool_get_set_by_size, mem_align_size, TINY_MAX_SIZE
    <2>2. p \in 64 .. 126 /\ n <= 2048 + (p - 64) * 1024
      BY <1>2, <2>1 DEF TINY_MAX_SIZE, MEDIUM_MAX_SIZE
    <2> HIDE DEF p
    <2>3. n <= ChunkSize(p)
      BY <2>2 DEF ChunkSize, SET_BOUNDARY, MEDIUM_MIN_SIZE, MEDIUM_STEP
    <2> QED BY <2>3 DEF p
  <1> QED BY <1>1, <1>2 DEF TINY_MAX_SIZE

\* A class is a multiple of ALIGN_SIZE: only large blocks are rounded up.
LEMMA RoomFacts ==
    ASSUME NEW n \in Nat
    PROVE  /\ Room(n) \in Nat /\ n <= Room(n)
           /\ n <= MEDIUM_MAX_SIZE => Room(n) = n
           /\ \A s \in UsedSets : n = ChunkSize(s) => mem_align_size(n, ALIGN_SIZE) = n
  <1>1. /\ mem_align_size(n, ALIGN_SIZE) \in Nat
        /\ n <= mem_align_size(n, ALIGN_SIZE)
    BY DEF mem_align_size, ALIGN_SIZE
  <1>2. ASSUME NEW s \in UsedSets, n = ChunkSize(s)
        PROVE  mem_align_size(n, ALIGN_SIZE) = n
    <2>1. \E m \in Nat : n = 16 * m
      <3>1. CASE s < SET_BOUNDARY
        <4>1. n = 16 * (1 + s) /\ 1 + s \in Nat
          BY <1>2, <3>1, SetFacts DEF ChunkSize, SET_BOUNDARY, TINY_MIN_SIZE, TINY_STEP
        <4> QED BY <4>1
      <3>2. CASE ~(s < SET_BOUNDARY)
        <4>1. n = 16 * (128 + (s - 64) * 64) /\ 128 + (s - 64) * 64 \in Nat
          BY <1>2, <3>2, SetFacts DEF ChunkSize, SET_BOUNDARY, MEDIUM_MIN_SIZE, MEDIUM_STEP
        <4> QED BY <4>1
      <3> QED BY <3>1, <3>2
    <2>2. PICK m \in Nat : n = 16 * m
      BY <2>1
    <2>3. (16 * m + 15) \div 16 = m
      OBVIOUS
    <2> QED BY <2>2, <2>3 DEF mem_align_size, ALIGN_SIZE
  <1> QED BY <1>1, <1>2 DEF Room, MEDIUM_MAX_SIZE

\* What steps that leave the sizes and homes of chunks alone have in common.
LEMMA FitKeep ==
    ASSUME TypeInv, FitInv, NEW t \in Threads, UNCHANGED <<size, set_pos>>,
           \A u \in Threads \ {t} : /\ pc'[u] = pc[u] /\ cur'[u] = cur[u]
                                    /\ pos'[u] = pos[u] /\ req'[u] = req[u],
           Working(t)',
           \A s \in UsedSets : \A c \in Range(fl'[s]) : c \in Range(fl[s]) \/ set_pos[c] = s,
           \A c \in Chunks : Given(c)' => (Given(c) /\ want'[c] = want[c]) \/ Fits(c)'
    PROVE  FitInv'
  <1>1. \A c \in Chunks : (set_pos[c] \in UsedSets => size[c] = ChunkSize(set_pos[c]))'
    BY DEF FitInv
  <1>2. \A s \in UsedSets : \A c \in Range(fl'[s]) : set_pos'[c] = s
    BY DEF FitInv
  <1>3. \A c \in Chunks : Given(c)' => Fits(c)'
    BY DEF FitInv, Fits
  <1>4. \A u \in Threads : Working(u)'
    BY DEF FitInv, Working, AlignSize
  <1> QED BY <1>1, <1>2, <1>3, <1>4 DEF FitInv

\* Call gives nobody a block too small.
LEMMA FitCall ==
    ASSUME TypeInv, OwnInv, FitInv, NEW t \in Threads, Call(t)
    PROVE  FitInv'
  <1>t. TypeOK
    BY DEF TypeInv
  <1>1. ASSUME NEW n \in Requests, AllocCall(t, n) PROVE FitInv'
    <2>1. /\ UNCHANGED <<size, set_pos, cur, pos, held, old, new, want, fl>>
          /\ pc' = [pc EXCEPT ![t] = "alloc_start"]
          /\ req' = [req EXCEPT ![t] = n]
      BY <1>1 DEF AllocCall, Goto
    <2>2. /\ pc'[t] = "alloc_start"
          /\ \A u \in Threads \ {t} : pc'[u] = pc[u] /\ req'[u] = req[u]
      BY <1>t, <2>1 DEF TypeOK
    <2>3. Working(t)'
      BY <2>2 DEF Working
    <2>4. \A c \in Chunks : Given(c)' => Given(c) /\ want'[c] = want[c]
      BY <2>1 DEF Given
    <2> QED BY <2>1, <2>2, <2>3, <2>4, FitKeep
  <1>2. ASSUME NEW c \in Chunks, FreeCall(t, c) PROVE FitInv'
    <2>1. /\ UNCHANGED <<size, set_pos, req, pos, old, new, fl>>
          /\ pc' = [pc EXCEPT ![t] = "free_start"]
          /\ cur' = [cur EXCEPT ![t] = c]
          /\ held' = held \ {c} /\ want' = [want EXCEPT ![c] = 0]
      BY <1>2 DEF FreeCall, Goto, callVars
    <2>2. /\ pc'[t] = "free_start"
          /\ \A u \in Threads \ {t} : pc'[u] = pc[u] /\ cur'[u] = cur[u]
      BY <1>t, <2>1 DEF TypeOK
    <2>3. Working(t)'
      BY <2>2 DEF Working
    <2>4. ASSUME NEW d \in Chunks, Given(d)'
          PROVE  (Given(d) /\ want'[d] = want[d]) \/ Fits(d)'
      <3>1. CASE d = c
        <4>1. want'[d] = 0 /\ size'[d] \in Nat
          BY <1>t, <2>1, <3>1 DEF TypeOK
        <4> QED BY <4>1, RoomFacts DEF Fits
      <3>2. CASE d # c
        BY <1>t, <2>1, <2>4, <3>2 DEF Given, TypeOK
      <3> QED BY <3>1, <3>2
    <2> QED BY <2>1, <2>2, <2>3, <2>4, FitKeep
  <1>3. ASSUME NEW c \in Chunks, NEW n \in Requests, ReallocInPlace(t, c, n)
        PROVE  FitInv'
    <2>1. /\ UNCHANGED <<size, set_pos, pc, req, cur, pos, held, old, new, fl>>
          /\ want' = [want EXCEPT ![c] = n] /\ c \in held
          /\ mem_align_size(size[c], ALIGN_SIZE) >= n
      BY <1>3 DEF ReallocInPlace
    <2>2. Working(t)'
      BY <2>1 DEF FitInv, Working, AlignSize
    <2>3. ASSUME NEW d \in Chunks, Given(d)'
          PROVE  (Given(d) /\ want'[d] = want[d]) \/ Fits(d)'
      <3>1. CASE d = c
        <4>1. /\ want'[d] = n /\ size[d] \in Nat /\ size'[d] = size[d] /\ size[d] > 0
              /\ n \in Nat
          BY <1>t, <2>1, <3>1, RequestFacts DEF TypeOK, TypeInv, Sized
        <4>2. CASE size[d] <= MEDIUM_MAX_SIZE
          <5>1. \E s \in UsedSets : size[d] = ChunkSize(s)
            BY <4>1, <4>2 DEF TypeInv, Sized
          <5>2. mem_align_size(size[d], ALIGN_SIZE) = size[d]
            BY <4>1, <5>1, RoomFacts
          <5> QED BY <2>1, <3>1, <4>1, <4>2, <5>2, RoomFacts DEF Fits
        <4>3. CASE size[d] > MEDIUM_MAX_SIZE
          <5>1. Room(size[d]) = mem_align_size(size[d], ALIGN_SIZE)
            BY <4>1, <4>3 DEF Room, MEDIUM_MAX_SIZE
          <5>2. Room(size[d]) \in Nat
            BY <4>1, RoomFacts
          <5> QED BY <2>1, <3>1, <4>1, <5>1, <5>2 DEF Fits
        <4> QED BY <4>1, <4>2, <4>3 DEF MEDIUM_MAX_SIZE
      <3>2. CASE d # c
        BY <1>t, <2>1, <2>3, <3>2 DEF Given, TypeOK
      <3> QED BY <3>1, <3>2
    <2> QED BY <2>1, <2>2, <2>3, FitKeep
  <1>4. ASSUME NEW c \in Chunks, NEW n \in Requests, ReallocMove(t, c, n)
        PROVE  FitInv'
    <2>1. /\ UNCHANGED <<size, set_pos, cur, pos, new, want, fl>>
          /\ pc' = [pc EXCEPT ![t] = "alloc_start"]
          /\ req' = [req EXCEPT ![t] = n]
          /\ old' = [old EXCEPT ![t] = c]
          /\ c \in held /\ held' = held \ {c}
      BY <1>4 DEF ReallocMove, Goto
    <2>2. /\ pc'[t] = "alloc_start"
          /\ \A u \in Threads \ {t} : pc'[u] = pc[u] /\ req'[u] = req[u] /\ old'[u] = old[u]
          /\ old'[t] = c
      BY <1>t, <2>1 DEF TypeOK
    <2>3. Working(t)'
      BY <2>2 DEF Working
    <2>4. \A d \in Chunks : Given(d)' => Given(d) /\ want'[d] = want[d]
      BY <2>1, <2>2 DEF Given
    <2> QED BY <2>1, <2>2, <2>3, <2>4, FitKeep
  <1> QED BY <1>1, <1>2, <1>3, <1>4 DEF Call

\* The steps of an allocation that fails give the old block back as it was.
LEMMA FitAllocFails ==
    ASSUME TypeInv, FitInv, NEW t \in Threads, AllocFails(t),
           UNCHANGED <<size, set_pos, fl>>
    PROVE  FitInv'
  <1>t. TypeOK
    BY DEF TypeInv
  <1>1. /\ pc' = [pc EXCEPT ![t] = "idle"]
        /\ held' = IF old[t] = NULL THEN held ELSE held \cup {old[t]}
        /\ old' = [old EXCEPT ![t] = NULL]
        /\ req' = [req EXCEPT ![t] = 0]
        /\ cur' = [cur EXCEPT ![t] = NULL]
        /\ pos' = [pos EXCEPT ![t] = OUTSET]
        /\ UNCHANGED <<new, want>>
    BY DEF AllocFails, Goto
  <1>2. /\ pc'[t] = "idle" /\ old'[t] = NULL
        /\ \A u \in Threads \ {t} : /\ pc'[u] = pc[u] /\ cur'[u] = cur[u]
                                    /\ pos'[u] = pos[u] /\ req'[u] = req[u]
                                    /\ old'[u] = old[u]
    BY <1>t, <1>1 DEF TypeOK
  <1>3. Working(t)'
    BY <1>2 DEF Working
  <1>4. \A d \in Chunks : Given(d)' => Given(d) /\ want'[d] = want[d]
    BY <1>1, <1>2, NullFact DEF Given
  <1> QED BY <1>2, <1>3, <1>4, FitKeep

\* The block handed out holds what was asked for.
LEMMA FitAllocSucceeds ==
    ASSUME TypeInv, FitInv, NEW t \in Threads, AllocSucceeds(t, cur[t]),
           cur[t] \in Chunks, req[t] <= size[cur[t]],
           UNCHANGED <<size, set_pos, fl>>
    PROVE  FitInv'
  <1>t. TypeOK
    BY DEF TypeInv
  <1> DEFINE c == cur[t]
  <1>1. /\ want' = [want EXCEPT ![c] = req[t]]
        /\ req' = [req EXCEPT ![t] = 0]
        /\ pos' = [pos EXCEPT ![t] = OUTSET]
        /\ cur' = [cur EXCEPT ![t] = old[t]]
        /\ old' = [old EXCEPT ![t] = NULL]
        /\ \/ held' = held \cup {c} /\ new' = new /\ pc' = [pc EXCEPT ![t] = "idle"]
           \/ /\ new' = [new EXCEPT ![t] = c] /\ held' = held
              /\ pc' = [pc EXCEPT ![t] = "free_start"]
    BY DEF AllocSucceeds, Goto
  <1> HIDE DEF c
  <1>2. /\ pc'[t] \in {"idle", "free_start"} /\ old'[t] = NULL
        /\ \A u \in Threads \ {t} : /\ pc'[u] = pc[u] /\ cur'[u] = cur[u]
                                    /\ pos'[u] = pos[u] /\ req'[u] = req[u]
                                    /\ old'[u] = old[u] /\ new'[u] = new[u]
        /\ new'[t] \in {new[t], c}
    BY <1>t, <1>1 DEF TypeOK
  <1>3. Working(t)'
    BY <1>2 DEF Working
  <1>4. ASSUME NEW d \in Chunks, Given(d)'
        PROVE  (Given(d) /\ want'[d] = want[d]) \/ Fits(d)'
    <2>1. CASE d = c
      <3>1. /\ want'[d] = req[t] /\ req[t] \in Nat /\ size'[d] = size[d]
            /\ size[d] \in Nat /\ req[t] <= size[d]
        BY <1>t, <1>1, <2>1 DEF TypeOK, c
      <3> QED BY <3>1, RoomFacts DEF Fits
    <2>2. CASE d # c
      <3>1. want'[d] = want[d]
        BY <1>t, <1>1, <2>2 DEF TypeOK
      <3>2. Given(d)
        BY <1>1, <1>2, <1>4, <2>2, NullFact DEF Given
      <3> QED BY <3>1, <3>2
    <2> QED BY <2>1, <2>2
  <1> QED BY <1>2, <1>3, <1>4, FitKeep

\* A step that moves t on and gives nothing out.
LEMMA FitQuiet ==
    ASSUME TypeInv, FitInv, NEW t \in Threads,
           UNCHANGED <<size, set_pos, req, held, old, new, want>>,
           pc' = [pc EXCEPT ![t] = pc'[t]],
           cur' = [cur EXCEPT ![t] = cur'[t]],
           pos' = [pos EXCEPT ![t] = pos'[t]],
           \A s \in UsedSets : \A c \in Range(fl'[s]) : c \in Range(fl[s]) \/ set_pos[c] = s,
           Working(t)'
    PROVE  FitInv'
  <1>1. \A u \in Threads \ {t} : /\ pc'[u] = pc[u] /\ cur'[u] = cur[u]
                                 /\ pos'[u] = pos[u] /\ req'[u] = req[u]
    BY DEF TypeInv, TypeOK
  <1>2. \A c \in Chunks : Given(c)' => Given(c) /\ want'[c] = want[c]
    BY DEF Given
  <1> QED BY <1>1, <1>2, FitKeep

\* AllocStep gives nobody a block too small.
LEMMA FitAllocStep ==
    ASSUME TypeInv, MutualExclusion, OwnInv, FitInv, NEW t \in Threads, AllocStep(t),
           TypeInv'
    PROVE  FitInv'
  <1>t. TypeOK /\ Control(t)
    BY DEF TypeInv
  <1>w. Working(t)
    BY DEF FitInv
  <1>1. CASE AllocRefused(t) \/ AllocCreateFails(t)
    BY <1>1, FitAllocFails DEF AllocRefused, AllocCreateFails
  <1>2. CASE AllocStart(t)
    <2>1. /\ UNCHANGED <<size, set_pos, req, held, cur, old, new, want, fl>>
          /\ \/ pc' = [pc EXCEPT ![t] = "alloc_lock"]
             \/ pc' = [pc EXCEPT ![t] = "alloc_create"]
          /\ pos' = [pos EXCEPT ![t] = pos'[t]]
      BY <1>2, <1>t DEF AllocStart, Goto, TypeOK
    <2>2. pc'[t] \in {"alloc_lock", "alloc_create"} /\ pc' = [pc EXCEPT ![t] = pc'[t]]
          /\ cur' = [cur EXCEPT ![t] = cur'[t]]
      BY <1>t, <2>1 DEF TypeOK
    <2>3. Working(t)'
      BY <2>2 DEF Working
    <2> QED BY <2>1, <2>2, <2>3, FitQuiet
  <1>3. CASE AllocLock(t)
    <2>1. /\ UNCHANGED <<size, set_pos, req, pos, held, cur, old, new, want, fl>>
          /\ pc' = [pc EXCEPT ![t] = "alloc_peek"]
      BY <1>3 DEF AllocLock, Goto, listVars, callVars
    <2>2. pc'[t] = "alloc_peek" /\ pc' = [pc EXCEPT ![t] = pc'[t]]
          /\ cur' = [cur EXCEPT ![t] = cur'[t]] /\ pos' = [pos EXCEPT ![t] = pos'[t]]
      BY <1>t, <2>1 DEF TypeOK
    <2>3. Working(t)'
      BY <2>2 DEF Working
    <2> QED BY <2>1, <2>2, <2>3, FitQuiet
  <1>4. CASE AllocPeek(t)
    <2>1. /\ UNCHANGED <<size, set_pos, req, pos, held, old, new, want, fl>>
          /\ cur' = [cur EXCEPT ![t] = chunk_head[pos[t]]]
          /\ pc' = [pc EXCEPT ![t] = IF chunk_head[pos[t]] = NULL
                                     THEN "alloc_unlock" ELSE "alloc_pop"]
      BY <1>4 DEF AllocPeek, Goto, callVars
    <2>2. /\ pc'[t] \in {"alloc_unlock", "alloc_pop"}
          /\ pc'[t] = "alloc_unlock" => cur'[t] = NULL
          /\ pc' = [pc EXCEPT ![t] = pc'[t]]
          /\ cur' = [cur EXCEPT ![t] = cur'[t]] /\ pos' = [pos EXCEPT ![t] = pos'[t]]
      BY <1>t, <2>1 DEF TypeOK
    <2>3. Working(t)'
      BY <2>2 DEF Working
    <2> QED BY <2>1, <2>2, <2>3, FitQuiet
  <1>5. CASE AllocPop(t)
    <2> DEFINE s == pos[t]
    <2>1. /\ UNCHANGED <<size, set_pos, req, pos, held, cur, old, new, want>>
          /\ pc' = [pc EXCEPT ![t] = "alloc_unlock"]
          /\ fl' = [fl EXCEPT ![s] = SubSeq(@, 2, Len(@))]
      BY <1>5 DEF AllocPop, Goto, callVars
    <2>2. pc'[t] = "alloc_unlock" /\ pc' = [pc EXCEPT ![t] = pc'[t]]
          /\ cur' = [cur EXCEPT ![t] = cur'[t]] /\ pos' = [pos EXCEPT ![t] = pos'[t]]
          /\ cur'[t] = cur[t] /\ pos'[t] = pos[t]
      BY <1>t, <2>1 DEF TypeOK
    <2>3. s \in UsedSets /\ fl[s] # <<>> /\ cur[t] \in Range(fl[s])
      BY <1>5, PopHead
    <2>4. Working(t)'
      BY <2>1, <2>2, <2>3 DEF FitInv, Working
    <2>5. \A u \in UsedSets : Range(fl'[u]) \subseteq Range(fl[u])
      <3>1. fl[s] \in Seq(Chunks) /\ Len(fl[s]) \in Nat /\ Len(fl[s]) >= 1
        BY <1>t, <2>3 DEF TypeOK
      <3>2. fl'[s] = SubSeq(fl[s], 2, Len(fl[s])) /\ \A u \in UsedSets \ {s} : fl'[u] = fl[u]
        BY <1>t, <2>1, <2>3 DEF TypeOK
      <3>3. Range(fl'[s]) \subseteq Range(fl[s])
        <4>1. /\ DOMAIN fl'[s] = 1 .. (Len(fl[s]) - 1)
              /\ \A k \in DOMAIN fl'[s] : fl'[s][k] = fl[s][k + 1] /\ k + 1 \in DOMAIN fl[s]
          BY <3>1, <3>2
        <4> QED BY <4>1 DEF Range
      <3> QED BY <3>2, <3>3
    <2> QED BY <2>1, <2>2, <2>4, <2>5, FitQuiet
  <1>6. CASE AllocUnlock(t)
    <2>0. pc[t] = "alloc_unlock" /\ UNCHANGED <<size, set_pos, fl>>
      BY <1>6 DEF AllocUnlock, listVars
    <2>1. CASE cur[t] # NULL
      <3>1. cur[t] \in Chunks /\ pos[t] \in UsedSets /\ set_pos[cur[t]] = pos[t]
        BY <1>t, <1>w, <2>0, <2>1 DEF TypeOK, Control, Working
      <3>2. /\ req[t] \in Nat /\ req[t] > 0
            /\ req[t] <= MEDIUM_MAX_SIZE /\ pos[t] = mem_pool_get_set_by_size(req[t])
        BY <1>t, <2>0, <3>1, SetFacts DEF TypeOK, Control, AllocLabels
      <3>3. req[t] <= size[cur[t]]
        BY <3>1, <3>2, RequestFits DEF FitInv
      <3> QED BY <1>6, <2>0, <2>1, <3>1, <3>3, FitAllocSucceeds DEF AllocUnlock
    <2>2. CASE cur[t] = NULL
      <3>1. /\ pc' = [pc EXCEPT ![t] = "alloc_create"]
            /\ UNCHANGED <<held, req, cur, pos, old, new, want>>
        BY <1>6, <2>2 DEF AllocUnlock, Goto
      <3>2. pc'[t] = "alloc_create" /\ pc' = [pc EXCEPT ![t] = pc'[t]]
            /\ cur' = [cur EXCEPT ![t] = cur'[t]] /\ pos' = [pos EXCEPT ![t] = pos'[t]]
        BY <1>t, <3>1 DEF TypeOK
      <3>3. Working(t)'
        BY <3>2 DEF Working
      <3> QED BY <2>0, <3>1, <3>2, <3>3, FitQuiet
    <2> QED BY <2>1, <2>2
  <1>7. ASSUME NEW c \in Chunks, AllocCreate(t, c) PROVE FitInv'
    <2>1. /\ pc[t] = "alloc_create" /\ c \notin live
          /\ size' = [size EXCEPT ![c] = AlignSize(t)]
          /\ set_pos' = [set_pos EXCEPT ![c] = OUTSET]
          /\ cur' = [cur EXCEPT ![t] = c]
          /\ pc' = [pc EXCEPT ![t] = "alloc_account"]
          /\ UNCHANGED <<held, req, pos, old, new, want, fl>>
      BY <1>7 DEF AllocCreate, Goto, callVars
    <2>2. open
      BY <2>1 DEF OwnInv, LiveInv
    <2>3. ~Placed(c)
      BY <2>1, <2>2 DEF OwnInv, LiveInv
    <2>4. /\ c \notin held
          /\ \A u \in Threads : /\ old[u] # c /\ new[u] # c
                                /\ pc[u] \in Carries => cur[u] # c
          /\ \A s \in UsedSets : c \notin Range(fl[s])
      BY <2>3 DEF Placed, At, Kinds, Owners
    <2>5. /\ pc'[t] = "alloc_account" /\ cur'[t] = c /\ size'[c] = AlignSize(t)
          /\ set_pos'[c] = OUTSET
          /\ \A u \in Threads \ {t} : pc'[u] = pc[u] /\ cur'[u] = cur[u]
          /\ \A d \in Chunks \ {c} : size'[d] = size[d] /\ set_pos'[d] = set_pos[d]
      BY <1>t, <2>1 DEF TypeOK
    <2>6. \A d \in Chunks : (set_pos[d] \in UsedSets => size[d] = ChunkSize(set_pos[d]))'
      BY <2>5, SetFacts DEF FitInv
    <2>7. \A s \in UsedSets : \A d \in Range(fl'[s]) : set_pos'[d] = s
      <3>1. \A s \in UsedSets : Range(fl[s]) \subseteq Chunks
        BY <1>t DEF TypeOK, Range
      <3> QED BY <2>1, <2>4, <2>5, <3>1 DEF FitInv
    <2>8. \A d \in Chunks : Given(d)' => Fits(d)'
      BY <2>1, <2>4, <2>5 DEF FitInv, Given, Fits
    <2>9. ASSUME NEW u \in Threads PROVE Working(u)'
      <3>1. CASE u = t
        BY <2>1, <2>5, <3>1 DEF Working, AlignSize
      <3>2. CASE u # t
        <4>1. Working(u)
          BY DEF FitInv
        <4>2. /\ pc[u] \in {"alloc_account", "free_adopt", "free_lock", "free_link",
                            "free_tail"}
                    => cur[u] \in Chunks \ {c}
              /\ pc[u] = "alloc_unlock" /\ cur[u] # NULL => cur[u] \in Chunks \ {c}
          BY <1>t, <2>4 DEF Carries, TypeInv, TypeOK, Control, FreeLabels
        <4> QED BY <2>1, <2>5, <3>2, <4>1, <4>2 DEF Working, AlignSize
      <3> QED BY <3>1, <3>2
    <2> QED BY <2>6, <2>7, <2>8, <2>9 DEF FitInv
  <1>8. CASE AllocAccount(t)
    <2>1. /\ pc[t] = "alloc_account" /\ AllocSucceeds(t, cur[t])
          /\ UNCHANGED <<size, set_pos, fl>>
      BY <1>8 DEF AllocAccount
    <2>2. cur[t] \in Chunks /\ req[t] \in Nat /\ req[t] > 0
      BY <1>t, <2>1 DEF TypeOK, Control, AllocLabels
    <2>3. size[cur[t]] = IF pos[t] = OUTSET THEN req[t] ELSE ChunkSize(pos[t])
      BY <1>w, <2>1 DEF Working, AlignSize
    <2>4. req[t] <= size[cur[t]]
      <3>1. CASE pos[t] = OUTSET
        BY <2>2, <2>3, <3>1
      <3>2. CASE pos[t] # OUTSET
        <4>1. req[t] <= MEDIUM_MAX_SIZE /\ pos[t] = mem_pool_get_set_by_size(req[t])
          BY <1>t, <2>1, <3>2 DEF Control, AllocLabels
        <4> QED BY <2>2, <2>3, <3>2, <4>1, RequestFits
      <3> QED BY <3>1, <3>2
    <2> QED BY <2>1, <2>2, <2>4, FitAllocSucceeds
  <1> QED BY <1>1, <1>2, <1>3, <1>4, <1>5, <1>6, <1>7, <1>8 DEF AllocStep

\* free gives the client no block but the new one of a reallocation.
LEMMA FitFreeReturns ==
    ASSUME TypeInv, FitInv, NEW t \in Threads, FreeReturns(t),
           UNCHANGED <<size, set_pos, fl, req, old, want>>
    PROVE  FitInv'
  <1>t. TypeOK
    BY DEF TypeInv
  <1>1. /\ pc' = [pc EXCEPT ![t] = "idle"]
        /\ held' = IF new[t] = NULL THEN held ELSE held \cup {new[t]}
        /\ new' = [new EXCEPT ![t] = NULL]
        /\ cur' = [cur EXCEPT ![t] = NULL]
        /\ pos' = [pos EXCEPT ![t] = OUTSET]
    BY DEF FreeReturns, Goto
  <1>2. /\ pc'[t] = "idle" /\ new'[t] = NULL
        /\ \A u \in Threads \ {t} : /\ pc'[u] = pc[u] /\ cur'[u] = cur[u]
                                    /\ pos'[u] = pos[u] /\ req'[u] = req[u]
                                    /\ new'[u] = new[u]
    BY <1>t, <1>1 DEF TypeOK
  <1>3. Working(t)'
    BY <1>2 DEF Working
  <1>4. \A d \in Chunks : Given(d)' => Given(d) /\ want'[d] = want[d]
    BY <1>1, <1>2, NullFact DEF Given
  <1> QED BY <1>2, <1>3, <1>4, FitKeep

\* The set a chunk is sent to is its set_pos, or the one of its size.
LEMMA FitFreeStart ==
    ASSUME TypeInv, FitInv, NEW t \in Threads, FreeStart(t)
    PROVE  FitInv'
  <1>t. TypeOK /\ Control(t)
    BY DEF TypeInv
  <1>1. /\ pc[t] = "free_start" /\ cur[t] \in Chunks
        /\ size[cur[t]] \in Nat /\ size[cur[t]] > 0
        /\ set_pos[cur[t]] \in UsedSets \cup {OUTSET}
    BY <1>t, NullFact DEF FreeStart, TypeOK, Control, FreeLabels, TypeInv, Sized, Created
  <1>2. UNCHANGED <<size, set_pos, req, held, cur, old, new, want, fl>>
    BY DEF FreeStart
  <1>3. /\ pc' = [pc EXCEPT ![t] = pc'[t]] /\ pos' = [pos EXCEPT ![t] = pos'[t]]
        /\ \/ pc'[t] = "free_account"
           \/ pc'[t] = "free_lock" /\ pos'[t] = set_pos[cur[t]]
           \/ /\ pc'[t] = "free_adopt" /\ size[cur[t]] <= MEDIUM_MAX_SIZE
              /\ pos'[t] = mem_pool_get_set_by_align_size(size[cur[t]])
    BY <1>t DEF FreeStart, Goto, TypeOK
  <1>4. cur' = [cur EXCEPT ![t] = cur'[t]]
    BY <1>t, <1>2 DEF TypeOK
  <1>5. Working(t)'
    <2>1. CASE pc'[t] # "free_adopt"
      BY <1>2, <1>3, <2>1 DEF Working
    <2>2. CASE pc'[t] = "free_adopt"
      <3>1. PICK s \in UsedSets : size[cur[t]] = ChunkSize(s)
        BY <1>1, <1>3, <2>2 DEF TypeInv, Sized
      <3>2. pos'[t] = s
        BY <1>3, <2>2, <3>1, ClassFacts
      <3> QED BY <1>2, <2>2, <3>1, <3>2 DEF Working
    <2> QED BY <2>1, <2>2
  <1> QED BY <1>2, <1>3, <1>4, <1>5, FitQuiet

\* A chunk that is adopted is in one thread's hands, and on no list.
LEMMA FitFreeAdopt ==
    ASSUME TypeInv, OwnInv, FitInv, NEW t \in Threads, FreeAdopt(t)
    PROVE  FitInv'
  <1>t. TypeOK /\ Control(t)
    BY DEF TypeInv
  <1> DEFINE c == cur[t]
  <1>1. /\ pc[t] = "free_adopt"
        /\ set_pos' = [set_pos EXCEPT ![c] = pos[t]]
        /\ pc' = [pc EXCEPT ![t] = "free_lock"]
        /\ UNCHANGED <<size, held, cur, req, pos, old, new, want, fl>>
    BY DEF FreeAdopt, Goto, listVars, callVars
  <1>2. c \in Chunks /\ pos[t] \in UsedSets /\ size[c] = ChunkSize(pos[t])
    BY <1>t, <1>1 DEF TypeOK, Control, FreeLabels, FitInv, Working
  <1>3. At(c, "cur", t)
    BY <1>1 DEF At, Carries
  <1>4. /\ \A s \in UsedSets : c \notin Range(fl[s])
        /\ \A u \in Threads \ {t} : pc[u] \in Carries => cur[u] # c
    BY <1>2, <1>3 DEF OwnInv, Exclusive, At, Kinds, Owners
  <1> HIDE DEF c
  <1>5. /\ pc'[t] = "free_lock" /\ set_pos'[c] = pos[t]
        /\ \A u \in Threads \ {t} : pc'[u] = pc[u]
        /\ \A d \in Chunks \ {c} : set_pos'[d] = set_pos[d]
    BY <1>t, <1>1, <1>2 DEF TypeOK
  <1>6. \A d \in Chunks : (set_pos[d] \in UsedSets => size[d] = ChunkSize(set_pos[d]))'
    BY <1>1, <1>2, <1>5 DEF FitInv
  <1>7. \A s \in UsedSets : \A d \in Range(fl'[s]) : set_pos'[d] = s
    <2>1. \A s \in UsedSets : Range(fl[s]) \subseteq Chunks
      BY <1>t DEF TypeOK, Range
    <2> QED BY <1>1, <1>4, <1>5, <2>1 DEF FitInv
  <1>8. \A d \in Chunks : Given(d)' => Fits(d)'
    BY <1>1 DEF FitInv, Given, Fits
  <1>9. ASSUME NEW u \in Threads PROVE Working(u)'
    <2>1. CASE u = t
      BY <1>1, <1>5, <2>1 DEF Working, c
    <2>2. CASE u # t
      <3>1. Working(u)
        BY DEF FitInv
      <3>2. /\ pc[u] \in {"free_lock", "free_link", "free_tail"}
                  => cur[u] \in Chunks \ {c}
            /\ pc[u] = "alloc_unlock" /\ cur[u] # NULL => cur[u] \in Chunks \ {c}
        BY <1>t, <1>4, <2>2 DEF Carries, TypeInv, TypeOK, Control, FreeLabels
      <3> QED BY <1>1, <1>5, <2>2, <3>1, <3>2 DEF Working, AlignSize
    <2> QED BY <2>1, <2>2
  <1> QED BY <1>6, <1>7, <1>8, <1>9 DEF FitInv

\* FreeStep gives nobody a block too small.
LEMMA FitFreeStep ==
    ASSUME TypeInv, OwnInv, FitInv, NEW t \in Threads, FreeStep(t)
    PROVE  FitInv'
  <1>t. TypeOK /\ Control(t)
    BY DEF TypeInv
  <1>1. CASE FreeStart(t)
    BY <1>1, FitFreeStart
  <1>2. CASE FreeAdopt(t)
    BY <1>2, FitFreeAdopt
  <1>3. CASE FreeLock(t) \/ FreeLink(t) \/ FreeAccount(t)
    <2>1. /\ UNCHANGED <<size, set_pos, req, pos, held, cur, old, new, want, fl>>
          /\ \/ pc[t] = "free_lock" /\ pc' = [pc EXCEPT ![t] = "free_link"]
             \/ pc[t] = "free_link" /\ pc' = [pc EXCEPT ![t] = "free_tail"]
             \/ pc' = [pc EXCEPT ![t] = "free_destroy"]
      BY <1>3 DEF FreeLock, FreeLink, FreeAccount, Goto, listVars, callVars
    <2>2. /\ pc' = [pc EXCEPT ![t] = pc'[t]]
          /\ cur' = [cur EXCEPT ![t] = cur'[t]] /\ pos' = [pos EXCEPT ![t] = pos'[t]]
          /\ \/ pc[t] \in {"free_lock", "free_link"} /\ pc'[t] \in {"free_link", "free_tail"}
             \/ pc'[t] = "free_destroy"
      BY <1>t, <2>1 DEF TypeOK
    <2>3. Working(t)'
      BY <2>1, <2>2 DEF FitInv, Working
    <2> QED BY <2>1, <2>2, <2>3, FitQuiet
  <1>4. CASE FreeTail(t)
    <2> DEFINE s == pos[t]
               c == cur[t]
    <2>1. /\ UNCHANGED <<size, set_pos, req, pos, held, cur, old, new, want>>
          /\ pc[t] = "free_tail" /\ pc' = [pc EXCEPT ![t] = "free_unlock"]
          /\ fl' = [fl EXCEPT ![s] = Append(@, c)]
      BY <1>4 DEF FreeTail, Goto, callVars
    <2>2. /\ pc'[t] = "free_unlock" /\ pc' = [pc EXCEPT ![t] = pc'[t]]
          /\ cur' = [cur EXCEPT ![t] = cur'[t]] /\ pos' = [pos EXCEPT ![t] = pos'[t]]
      BY <1>t, <2>1 DEF TypeOK
    <2>3. Working(t)'
      BY <2>2 DEF Working
    <2>4. s \in UsedSets /\ c \in Chunks /\ set_pos[c] = s
      BY <1>t, <2>1 DEF TypeOK, Control, FreeLabels, FitInv, Working
    <2>5. \A u \in UsedSets : \A d \in Range(fl'[u]) : d \in Range(fl[u]) \/ set_pos[d] = u
      <3> HIDE DEF s, c
      <3>1. fl[s] \in Seq(Chunks)
        BY <1>t, <2>4 DEF TypeOK
      <3>2. fl'[s] = Append(fl[s], c) /\ \A u \in UsedSets \ {s} : fl'[u] = fl[u]
        BY <1>t, <2>1, <2>4 DEF TypeOK
      <3>3. \A d \in Range(fl'[s]) : d \in Range(fl[s]) \/ d = c
        BY <2>4, <3>1, <3>2 DEF Range
      <3> QED BY <2>4, <3>2, <3>3
    <2> QED BY <2>1, <2>2, <2>3, <2>5, FitQuiet
  <1>5. CASE FreeUnlock(t) \/ FreeDestroy(t)
    <2>1. FreeReturns(t) /\ UNCHANGED <<size, set_pos, fl, req, old, want>>
      BY <1>5 DEF FreeUnlock, FreeDestroy, listVars
    <2> QED BY <2>1, FitFreeReturns
  <1> QED BY <1>1, <1>2, <1>3, <1>4, <1>5 DEF FreeStep

\* No step leaves FitInv.
LEMMA FitNext ==
    ASSUME TypeInv, MutualExclusion, OwnInv, FitInv, [Next]_vars, TypeInv'
    PROVE  FitInv'
  <1>1. CASE \E t \in Threads : Call(t) \/ AllocStep(t) \/ FreeStep(t)
    BY <1>1, FitCall, FitAllocStep, FitFreeStep
  <1>2. CASE Destroy \/ UNCHANGED vars
    <2>1. UNCHANGED <<size, set_pos, held, pc, req, cur, pos, old, new, want, fl>>
      BY <1>2 DEF Destroy, vars
    <2> QED BY <2>1 DEF FitInv, Given, Fits, Working, AlignSize
  <1> QED BY <1>1, <1>2 DEF Next, Destroyed

\* No block is out yet when mem_pool_create returns.
LEMMA FitInit == Init => FitInv
  <1> SUFFICES ASSUME Init PROVE FitInv
    OBVIOUS
  <1>1. /\ size = [c \in Chunks |->
                     IF c \in InitChunks THEN ChunkSize(HomeSet(c)) ELSE 0]
        /\ set_pos = [c \in Chunks |->
                        IF c \in InitChunks THEN HomeSet(c) ELSE OUTSET]
        /\ held = {} /\ pc = [t \in Threads |-> "idle"]
        /\ old = [t \in Threads |-> NULL] /\ new = [t \in Threads |-> NULL]
        /\ fl = InitList
    BY DEF Init
  <1>2. \A c \in Chunks : set_pos[c] \in UsedSets => size[c] = ChunkSize(set_pos[c])
    BY <1>1, SetFacts
  <1>3. ASSUME NEW s \in UsedSets, NEW c \in Range(fl[s]) PROVE set_pos[c] = s
    <2>1. c \in InitChunks /\ c \in Range(InitList[s])
      BY <1>1, <1>3 DEF InitChunks
    <2> QED BY <1>1, <2>1, HomeFacts
  <1>4. \A c \in Chunks : ~Given(c)
    BY <1>1, NullFact DEF Given
  <1>5. \A t \in Threads : Working(t)
    BY <1>1 DEF Working
  <1> QED BY <1>2, <1>3, <1>4, <1>5 DEF FitInv

\* FitInv holds for good.
LEMMA FitHolds == Spec => []FitInv
  <1>1. TypeInv /\ MutualExclusion /\ OwnInv /\ FitInv /\ [Next]_vars /\ TypeInv' => FitInv'
    BY FitNext
  <1> QED BY <1>1, FitInit, Ownership, PTL DEF Spec

\* A free list holds chunks of its class only, and a block holds what was asked
\* for, whichever of the ways of alloc, free and realloc it came.
THEOREM BlockFitsHolds == Spec => []BlockFits
  <1>1. ASSUME TypeInv, FitInv PROVE BlockFits
    <2>t. TypeOK
      BY <1>1 DEF TypeInv
    <2>1. ASSUME NEW s \in UsedSets, NEW c \in Range(fl[s])
          PROVE  size[c] = ChunkSize(s) /\ set_pos[c] = s
      <3>1. c \in Chunks
        BY <2>t DEF TypeOK, Range
      <3> QED BY <1>1, <3>1 DEF FitInv
    <2>2. ASSUME NEW c \in held
          PROVE  IF size[c] <= MEDIUM_MAX_SIZE THEN want[c] <= size[c]
                 ELSE want[c] <= mem_align_size(size[c], ALIGN_SIZE)
      <3>1. c \in Chunks /\ Given(c)
        BY <2>t DEF TypeOK, Given
      <3> QED BY <1>1, <3>1 DEF FitInv, Fits, Room
    <2> QED BY <2>1, <2>2 DEF BlockFits
  <1> QED BY <1>1, FitHolds, Ownership, PTL
-----------------------------------------------------------------------------
(* max_size is outgrown by less than a block per thread *)

\* Past the check of used_size, and not yet back: t may still add to it.
Adds(t) == pc[t] \in AllocLabels \ {"alloc_start"}

Adding == {t \in Threads : Adds(t)}

Limit == MaxSize + Cardinality(Threads) * MaxBlock

\* Each thread that may still add a block leaves room for it below the limit.
RoomLeft ==
    /\ used_size <= InitUsed \/ used_size < Limit
    /\ Adding # {} => used_size + Cardinality(Adding) * MaxBlock < Limit

\* As many threads may add as there are, each at most MaxBlock.
LEMMA AddingFacts ==
    /\ IsFiniteSet(Adding) /\ Cardinality(Adding) \in Nat
    /\ Cardinality(Adding) <= Cardinality(Threads) /\ Cardinality(Threads) \in Nat
    /\ MaxSize \in Nat /\ MaxBlock \in Nat /\ Limit \in Nat
    /\ \A n \in Nat : n * MaxBlock \in Nat
  <1>1. IsFiniteSet(Threads) /\ MaxSize \in Nat /\ MaxBlock \in Nat
    BY PoolAssumption
  <1>2. Adding \subseteq Threads
    BY DEF Adding
  <1>3. /\ IsFiniteSet(Adding) /\ Cardinality(Adding) \in Nat
        /\ Cardinality(Adding) <= Cardinality(Threads) /\ Cardinality(Threads) \in Nat
    BY <1>1, <1>2, FS_Subset, FS_CardinalityType
  <1> HIDE DEF Adding
  <1>4. \A n \in Nat : n * MaxBlock \in Nat
    BY <1>1
  <1> QED BY <1>1, <1>3, <1>4 DEF Limit

\* Less used and less still to add is less in all.
LEMMA Below ==
    ASSUME NEW u \in Int, NEW v \in Int, NEW x \in Nat, NEW y \in Nat, NEW l \in Nat,
           v <= u, y <= x, u + x < l
    PROVE  v + y < l
  OBVIOUS

\* used_size does not grow, and nobody comes to add.
LEMMA RoomStays ==
    ASSUME TypeInv, RoomLeft, used_size' \in Int, used_size' <= used_size,
           \A u \in Threads : Adds(u)' => Adds(u)
    PROVE  RoomLeft'
  <1>1. Adding' \subseteq Adding
    BY DEF Adding
  <1>2. /\ Cardinality(Adding) \in Nat /\ Cardinality(Adding') \in Nat
        /\ Cardinality(Adding') <= Cardinality(Adding)
        /\ MaxBlock \in Nat /\ Limit \in Nat
    BY <1>1, AddingFacts, FS_Subset, FS_CardinalityType
  <1>3. used_size \in Int
    BY DEF TypeInv, TypeOK
  <1>4. InitUsed \in Nat
    BY InitUsedAssumption
  <1> DEFINE a == Cardinality(Adding)
             b == Cardinality(Adding')
  <1>5. Adding' # {} => Adding # {}
    BY <1>1
  <1>6. /\ RoomLeft <=> /\ used_size <= InitUsed \/ used_size < Limit
                        /\ Adding # {} => used_size + a * MaxBlock < Limit
        /\ RoomLeft' <=> /\ used_size' <= InitUsed \/ used_size' < Limit
                         /\ Adding' # {} => used_size' + b * MaxBlock < Limit
    BY DEF RoomLeft
  <1> HIDE DEF a, b, Adding, Limit, RoomLeft
  <1>7. a \in Nat /\ b \in Nat /\ b <= a
    BY <1>2 DEF a, b
  <1>8. a * MaxBlock \in Nat /\ b * MaxBlock \in Nat /\ b * MaxBlock <= a * MaxBlock
    BY <1>2, <1>7
  <1>9. used_size' <= InitUsed \/ used_size' < Limit
    BY <1>2, <1>3, <1>4, <1>6
  <1>10. ASSUME Adding' # {} PROVE used_size' + b * MaxBlock < Limit
    <2>1. used_size + a * MaxBlock < Limit
      BY <1>5, <1>6, <1>10
    <2>2. Limit \in Nat /\ used_size' <= used_size
      BY <1>2
    <2> QED BY <1>3, <1>8, <2>1, <2>2, Below
  <1> QED BY <1>6, <1>9, <1>10

\* A request that passes the check finds the pool below max_size.
LEMMA RoomAtStart ==
    ASSUME TypeInv, RoomLeft, NEW t \in Threads, AllocStart(t)
    PROVE  RoomLeft'
  <1>t. TypeOK /\ Control(t)
    BY DEF TypeInv
  <1>1. /\ used_size' = used_size /\ pc[t] = "alloc_start"
        /\ ~(used_size + req[t] > MaxSize) /\ req[t] # 0
    BY DEF AllocStart, Refused
  <1>2. used_size \in Int /\ req[t] \in Nat
    BY <1>t DEF TypeOK
  <1>3. used_size < MaxSize
    BY <1>1, <1>2, AddingFacts
  <1>4. /\ Cardinality(Adding') \in Nat /\ Cardinality(Adding') <= Cardinality(Threads)
        /\ Cardinality(Threads) \in Nat /\ MaxBlock \in Nat /\ MaxSize \in Nat
    <2>1. Adding' \subseteq Threads
      BY DEF Adding
    <2> QED BY <2>1, PoolAssumption, FS_Subset, FS_CardinalityType
  <1> DEFINE b == Cardinality(Adding')
             n == Cardinality(Threads)
             x == b * MaxBlock
             y == n * MaxBlock
  <1>5. x \in Nat /\ y \in Nat /\ x <= y
    <2> HIDE DEF b, n
    <2>1. b \in Nat /\ n \in Nat /\ b <= n
      BY <1>4 DEF b, n
    <2> QED BY <1>4, <2>1
  <1>6. Limit = MaxSize + y
    BY DEF Limit
  <1> HIDE DEF x, y
  <1>7. used_size' < Limit /\ used_size' + x < Limit
    BY <1>1, <1>2, <1>3, <1>4, <1>5, <1>6
  <1> QED BY <1>7 DEF RoomLeft, x

\* The block added is one the request is served with.
LEMMA BlockBound ==
    ASSUME TypeInv, FitInv, NEW t \in Threads, pc[t] = "alloc_account"
    PROVE  cur[t] \in Chunks /\ size[cur[t]] \in Nat /\ size[cur[t]] <= MaxBlock
  <1>t. TypeOK /\ Control(t)
    BY DEF TypeInv
  <1>1. cur[t] \in Chunks /\ size[cur[t]] \in Nat /\ req[t] \in Requests /\ req[t] > 0
    BY <1>t DEF TypeOK, Control, AllocLabels
  <1>2. size[cur[t]] = IF pos[t] = OUTSET THEN req[t] ELSE ChunkSize(pos[t])
    BY DEF FitInv, Working, AlignSize
  <1>3. IF req[t] <= MEDIUM_MAX_SIZE THEN pos[t] = mem_pool_get_set_by_size(req[t])
                                     ELSE pos[t] = OUTSET
    BY <1>t DEF Control, AllocLabels
  <1>4. IF req[t] <= MEDIUM_MAX_SIZE
        THEN /\ mem_pool_get_set_by_size(req[t]) \in UsedSets
             /\ ChunkSize(mem_pool_get_set_by_size(req[t])) <= MaxBlock
        ELSE req[t] <= MaxBlock
    BY <1>1, PoolAssumption
  <1> QED BY <1>1, <1>2, <1>3, <1>4, SetFacts

\* A block that is added was left room for.
LEMMA RoomAtAccount ==
    ASSUME TypeInv, FitInv, RoomLeft, NEW t \in Threads, AllocAccount(t)
    PROVE  RoomLeft'
  <1>t. TypeOK
    BY DEF TypeInv
  <1>1. /\ pc[t] = "alloc_account" /\ used_size' = used_size + size[cur[t]]
        /\ \/ pc' = [pc EXCEPT ![t] = "idle"]
           \/ pc' = [pc EXCEPT ![t] = "free_start"]
    BY DEF AllocAccount, AllocSucceeds, Goto
  <1>2. /\ used_size \in Int /\ size[cur[t]] \in Nat /\ size[cur[t]] <= MaxBlock
    BY <1>t, <1>1, BlockBound DEF TypeOK
  <1>3. t \in Adding /\ Adding' = Adding \ {t}
    BY <1>t, <1>1 DEF Adding, Adds, AllocLabels, TypeOK
  <1>4. /\ Cardinality(Adding') = Cardinality(Adding) - 1
        /\ Cardinality(Adding) \in Nat /\ MaxBlock \in Nat /\ Limit \in Nat
    BY <1>3, AddingFacts, FS_RemoveElement
  <1>5. used_size + Cardinality(Adding) * MaxBlock < Limit
    BY <1>3 DEF RoomLeft
  <1> DEFINE a == Cardinality(Adding)
             x == (a - 1) * MaxBlock
  <1>6. a \in Nat /\ a # 0
    BY <1>3, AddingFacts, FS_EmptySet
  <1> HIDE DEF a
  <1>7. x \in Nat /\ a * MaxBlock = x + MaxBlock
    <2>1. a - 1 \in Nat
      BY <1>6
    <2> QED BY <1>4, <1>6, <2>1
  <1>8. used_size + a * MaxBlock < Limit
    BY <1>5 DEF a
  <1>9. x = Cardinality(Adding') * MaxBlock
    BY <1>4 DEF a
  <1> HIDE DEF x
  <1>10. used_size' + x < Limit /\ used_size' < Limit
    BY <1>1, <1>2, <1>4, <1>7, <1>8
  <1> QED BY <1>9, <1>10 DEF RoomLeft, Limit

\* No step leaves RoomLeft.
LEMMA RoomNext ==
    ASSUME TypeInv, FitInv, RoomLeft, [Next]_vars
    PROVE  RoomLeft'
  <1>t. TypeOK
    BY DEF TypeInv
  <1>u. used_size \in Int
    BY <1>t DEF TypeOK
  <1>1. ASSUME NEW t \in Threads, Call(t) PROVE RoomLeft'
    <2>1. /\ used_size' = used_size
          /\ pc' = pc \/ \E l \in {"alloc_start", "free_start"} : pc' = [pc EXCEPT ![t] = l]
      BY <1>1 DEF Call, AllocCall, FreeCall, ReallocInPlace, ReallocMove, Goto
    <2>2. \A u \in Threads : Adds(u)' => Adds(u)
      BY <1>t, <2>1 DEF Adds, AllocLabels, TypeOK
    <2> QED BY <1>u, <2>1, <2>2, RoomStays
  <1>2. ASSUME NEW t \in Threads, AllocStep(t) PROVE RoomLeft'
    <2>1. CASE AllocStart(t)
      BY <2>1, RoomAtStart
    <2>2. CASE AllocAccount(t)
      BY <2>2, RoomAtAccount
    <2>3. CASE \/ AllocRefused(t) \/ AllocLock(t) \/ AllocPeek(t) \/ AllocPop(t)
               \/ AllocUnlock(t) \/ (\E c \in Chunks : AllocCreate(t, c))
               \/ AllocCreateFails(t)
      <3>1. /\ used_size' = used_size
            /\ \/ Adds(t)
               \/ pc' = [pc EXCEPT ![t] = "idle"]
            /\ \E l \in Labels : pc' = [pc EXCEPT ![t] = l]
        BY <2>3 DEF AllocRefused, AllocLock, AllocPeek, AllocPop, AllocUnlock,
           AllocCreate, AllocCreateFails, AllocFails, AllocSucceeds, Goto, Adds,
           AllocLabels, Labels
      <3>2. \A u \in Threads : Adds(u)' => Adds(u)
        BY <1>t, <3>1 DEF Adds, AllocLabels, TypeOK
      <3> QED BY <1>u, <3>1, <3>2, RoomStays
    <2> QED BY <1>2, <2>1, <2>2, <2>3 DEF AllocStep
  <1>3. ASSUME NEW t \in Threads, FreeStep(t) PROVE RoomLeft'
    <2>1. \E l \in {"idle"} \cup FreeLabels : pc' = [pc EXCEPT ![t] = l]
      BY <1>3 DEF FreeStep, FreeStart, FreeAdopt, FreeLock, FreeLink, FreeTail,
         FreeUnlock, FreeAccount, FreeDestroy, FreeReturns, Goto, FreeLabels
    <2>2. \A u \in Threads : Adds(u)' => Adds(u)
      BY <1>t, <2>1 DEF Adds, AllocLabels, FreeLabels, TypeOK
    <2>3. used_size' \in Int /\ used_size' <= used_size
      <3>1. CASE FreeAccount(t)
        <4>1. used_size' = used_size - size[cur[t]] /\ pc[t] = "free_account"
          BY <3>1 DEF FreeAccount
        <4>2. cur[t] \in Chunks
          BY <1>t, <4>1 DEF TypeInv, Control, FreeLabels, TypeOK
        <4>3. size[cur[t]] \in Nat
          BY <1>t, <4>2 DEF TypeOK
        <4> QED BY <1>u, <4>1, <4>3
      <3>2. CASE ~FreeAccount(t)
        <4>1. used_size' = used_size
          BY <1>3, <3>2 DEF FreeStep, FreeStart, FreeAdopt, FreeLock, FreeLink, FreeTail,
             FreeUnlock, FreeDestroy
        <4> QED BY <1>u, <4>1
      <3> QED BY <3>1, <3>2
    <2> QED BY <2>2, <2>3, RoomStays
  <1>4. CASE Destroy \/ UNCHANGED vars
    <2>1. used_size' = used_size /\ pc' = pc
      BY <1>4 DEF Destroy, vars
    <2> QED BY <1>u, <2>1, RoomStays DEF Adds
  <1> QED BY <1>1, <1>2, <1>3, <1>4 DEF Next, Destroyed

\* Nobody adds when mem_pool_create returns.
LEMMA RoomInit == Init => RoomLeft
  <1> SUFFICES ASSUME Init PROVE RoomLeft
    OBVIOUS
  <1>1. used_size = InitUsed /\ \A t \in Threads : pc[t] = "idle"
    BY DEF Init
  <1>2. Adding = {}
    BY <1>1 DEF Adding, Adds, AllocLabels
  <1>3. InitUsed \in Nat
    BY InitUsedAssumption
  <1> QED BY <1>1, <1>2, <1>3 DEF RoomLeft

\* Many threads may pass the check of used_size before one of them adds to it, and
\* still the pool outgrows max_size by less than a block for each.
THEOREM OvershootBound == Spec => []Overshoot
  <1>1. TypeInv /\ FitInv /\ RoomLeft /\ [Next]_vars => RoomLeft'
    BY RoomNext
  <1>2. RoomLeft => Overshoot
    BY DEF RoomLeft, Overshoot, Limit
  <1> QED BY <1>1, <1>2, RoomInit, FitHolds, Ownership, PTL DEF Spec

-----------------------------------------------------------------------------
(* Destroying the pool *)

\* The order of the natural numbers is well founded.
Less == {ss \in Nat \X Nat : ss[1] < ss[2]}

\* A set of natural numbers has a least member.
LEMMA LeastNatural ==
    ASSUME NEW S \in SUBSET Nat, S # {}
    PROVE  \E x \in S : \A y \in S : x <= y
  <1>1. IsWellFoundedOn(Less, Nat)
    BY NatLessThanWellFounded DEF Less, OpToRel
  <1>2. \E x \in S : \A y \in S : ~(<<y, x>> \in Less)
    BY <1>1, WFMin
  <1>3. \A x, y \in Nat : ~(<<y, x>> \in Less) => x <= y
    BY DEF Less
  <1> QED BY <1>2, <1>3

Steps == 0 .. Cardinality(Chunks)

\* The equation of the walk of mem_set_destroy along set s.
Walks(h, s) ==
    h = [k \in 0 .. Cardinality(Chunks) |->
           IF k = 0 THEN chunk_head[s]
           ELSE IF h[k - 1] = NULL THEN NULL ELSE next[h[k - 1]]]

\* The walk, read step by step.
LEMMA WalksAt ==
    ASSUME NEW h, NEW s, Walks(h, s)
    PROVE  /\ DOMAIN h = Steps
           /\ \A k \in Steps : h[k] = IF k = 0 THEN chunk_head[s]
                                      ELSE IF h[k - 1] = NULL THEN NULL ELSE next[h[k - 1]]
  BY Zenon DEF Walks, Steps

\* No two walks differ: they would first at some least step.
LEMMA WalksUnique ==
    ASSUME NEW f, NEW g, NEW s, Walks(f, s), Walks(g, s), NEW n \in Steps
    PROVE  f[n] = g[n]
  <1>0. Cardinality(Chunks) \in Nat
    BY PoolAssumption, FS_CardinalityType
  <1> DEFINE Bad == {k \in Steps : f[k] # g[k]}
  <1> SUFFICES ASSUME Bad # {} PROVE FALSE
    OBVIOUS
  <1>1. Bad \in SUBSET Nat
    BY <1>0 DEF Steps
  <1>2. PICK k \in Bad : \A j \in Bad : k <= j
    <2> HIDE DEF Bad
    <2> QED BY <1>1, LeastNatural
  <1>3. k \in Steps /\ f[k] # g[k]
    OBVIOUS
  <1>4. /\ f[k] = IF k = 0 THEN chunk_head[s]
                  ELSE IF f[k - 1] = NULL THEN NULL ELSE next[f[k - 1]]
        /\ g[k] = IF k = 0 THEN chunk_head[s]
                  ELSE IF g[k - 1] = NULL THEN NULL ELSE next[g[k - 1]]
    BY <1>3, WalksAt
  <1>5. k # 0
    BY <1>3, <1>4
  <1>6. k - 1 \in Steps /\ k - 1 \notin Bad
    <2> HIDE DEF Bad
    <2> QED BY <1>0, <1>2, <1>3, <1>5 DEF Steps
  <1>7. f[k - 1] = g[k - 1]
    BY <1>6
  <1> QED BY <1>3, <1>4, <1>7

\* A list has no more elements than there are chunks.
LEMMA ListLength ==
    ASSUME NEW q \in Seq(Chunks), IsInjective(q)
    PROVE  /\ Len(q) \in Nat /\ Cardinality(Chunks) \in Nat
           /\ Len(q) <= Cardinality(Chunks) /\ IsFiniteSet(Range(q))
           /\ Cardinality(Range(q)) = Len(q)
  <1>0. IsFiniteSet(Chunks) /\ Cardinality(Chunks) \in Nat
    BY PoolAssumption, FS_CardinalityType
  <1>1. Len(q) \in Nat /\ DOMAIN q = 1 .. Len(q) /\ Range(q) \subseteq Chunks
    BY DEF Range
  <1> DEFINE f == [i \in 1 .. Len(q) |-> q[i]]
  <1>2. f \in [1 .. Len(q) -> Range(q)] /\ \A i \in 1 .. Len(q) : f[i] = q[i]
    BY <1>1 DEF Range
  <1>3. /\ \A i, j \in 1 .. Len(q) : f[i] = f[j] => i = j
        /\ \A c \in Range(q) : \E i \in 1 .. Len(q) : f[i] = c
    BY <1>1 DEF IsInjective, Range
  <1> HIDE DEF f
  <1>4. ExistsBijection(1 .. Len(q), Range(q))
    BY <1>2, <1>3 DEF ExistsBijection, Bijection, Injection, Surjection, IsInjective
  <1>5. IsFiniteSet(1 .. Len(q)) /\ Cardinality(1 .. Len(q)) = Len(q)
    <2>1. IsFiniteSet(1 .. Len(q))
          /\ Cardinality(1 .. Len(q)) = IF 1 > Len(q) THEN 0 ELSE Len(q) - 1 + 1
      BY <1>1, FS_Interval
    <2> QED BY <1>1, <2>1
  <1>6. IsFiniteSet(Range(q)) /\ Cardinality(Range(q)) <= Cardinality(Chunks)
    BY <1>0, <1>1, FS_Subset
  <1>7. Cardinality(Range(q)) = Len(q)
    BY <1>4, <1>5, <1>6, FS_CountingElements, FS_Bijection
  <1> QED BY <1>0, <1>1, <1>6, <1>7

\* The walk meets the chunks of the list, whose pointers are in order.
LEMMA ReachableIs ==
    ASSUME TypeInv, OwnInv, NEW s \in UsedSets, ~Closing(s)
    PROVE  Reachable(s) = Range(fl[s])
  <1>0. PICK q : q = fl[s]
    OBVIOUS
  <1>1. q \in Seq(Chunks) /\ IsInjective(q)
    BY <1>0 DEF TypeInv, TypeOK, OwnInv, NoRepeats
  <1>2. /\ \A k \in 1 .. (Len(q) - 1) : next[q[k]] = q[k + 1]
        /\ q # <<>> => chunk_head[s] = q[1] /\ next[q[Len(q)]] = NULL
        /\ q = <<>> => chunk_head[s] = NULL
    BY <1>0 DEF OwnInv, ListInv
  <1>3. /\ Len(q) \in Nat /\ Cardinality(Chunks) \in Nat /\ Len(q) <= Cardinality(Chunks)
        /\ \A k \in 1 .. Len(q) : q[k] \in Chunks
        /\ q = <<>> <=> Len(q) = 0
    BY <1>1, ListLength
  <1> DEFINE g == [k \in Steps |-> IF k < Len(q) THEN q[k + 1] ELSE NULL]
  <1>4. ASSUME NEW k \in Steps
        PROVE  g[k] = IF k = 0 THEN chunk_head[s]
                      ELSE IF g[k - 1] = NULL THEN NULL ELSE next[g[k - 1]]
    <2>0. k \in Nat /\ (k # 0 => k - 1 \in Steps)
      BY <1>3 DEF Steps
    <2>1. CASE k = 0
      <3>1. g[k] = IF 0 < Len(q) THEN q[1] ELSE NULL
        BY <2>1
      <3> QED BY <1>2, <1>3, <2>1, <3>1
    <2>2. CASE k # 0 /\ k < Len(q)
      <3>1. g[k] = q[k + 1] /\ g[k - 1] = q[k]
        BY <2>0, <2>2, <1>3
      <3>2. k \in 1 .. (Len(q) - 1) /\ k \in 1 .. Len(q)
        BY <2>0, <2>2, <1>3
      <3>3. q[k] # NULL /\ next[q[k]] = q[k + 1]
        BY <3>2, <1>2, <1>3, NullFact
      <3> HIDE DEF g
      <3> QED BY <2>2, <3>1, <3>3
    <2>3. CASE k # 0 /\ k = Len(q)
      <3>1. g[k] = NULL /\ g[k - 1] = q[k]
        BY <2>0, <2>3, <1>3
      <3>2. q[k] # NULL /\ next[q[k]] = NULL
        BY <2>0, <2>3, <1>2, <1>3, NullFact
      <3> HIDE DEF g
      <3> QED BY <2>3, <3>1, <3>2
    <2>4. CASE k # 0 /\ k > Len(q)
      <3>1. g[k] = NULL /\ g[k - 1] = NULL
        BY <2>0, <2>4, <1>3
      <3> HIDE DEF g
      <3> QED BY <2>4, <3>1
    <2> HIDE DEF g
    <2> QED BY <1>3, <2>0, <2>1, <2>2, <2>3, <2>4
  <1>5. Walks(g, s)
    <2>1. g = [k \in Steps |-> g[k]]
      OBVIOUS
    <2> HIDE DEF g
    <2> QED BY <1>4, <2>1, Zenon DEF Walks, Steps
  <1> DEFINE f == CHOOSE h : Walks(h, s)
  <1>6. Walks(f, s)
    <2> HIDE DEF g
    <2> QED BY <1>5
  <1>7. Reachable(s) = Range(f) \ {NULL}
    BY DEF Reachable, Walks
  <1>8. DOMAIN f = Steps /\ \A k \in Steps : f[k] = g[k]
    <2> HIDE DEF f, g
    <2> QED BY <1>5, <1>6, WalksAt, WalksUnique
  <1> HIDE DEF f
  <1>9. ASSUME NEW c \in Range(f) \ {NULL} PROVE c \in Range(q)
    <2>1. PICK k \in Steps : c = f[k]
      BY <1>8 DEF Range
    <2>2. k < Len(q) /\ c = q[k + 1] /\ k \in Nat
      BY <1>3, <1>8, <2>1 DEF Steps
    <2>3. k + 1 \in 1 .. Len(q)
      BY <1>3, <2>2
    <2> QED BY <1>1, <2>2, <2>3 DEF Range
  <1>10. ASSUME NEW c \in Range(q) PROVE c \in Range(f) \ {NULL}
    <2>1. PICK k \in 1 .. Len(q) : c = q[k]
      BY <1>1 DEF Range
    <2>2. k - 1 \in Steps /\ k - 1 < Len(q) /\ (k - 1) + 1 = k
      BY <1>3 DEF Steps
    <2>3. f[k - 1] = c
      BY <1>8, <2>1, <2>2
    <2> QED BY <1>3, <1>8, <2>1, <2>2, <2>3, NullFact DEF Range
  <1> QED BY <1>0, <1>7, <1>9, <1>10

\* mem_set_destroy takes the chunks of every list and leaves the client its own.
LEMMA DestroyNow ==
    ASSUME TypeInv, OwnInv, Destroy
    PROVE  live' = held'
  <1>t. TypeOK /\ \A t \in Threads : Control(t)
    BY DEF TypeInv
  <1>o. open /\ Exclusive /\ \A c \in Chunks : c \in live <=> Placed(c)
    BY DEF Destroy, OwnInv, LiveInv
  <1>1. /\ \A t \in Threads : pc[t] = "idle"
        /\ live' = live \ UNION {Reachable(s) : s \in UsedSets} /\ held' = held
    BY DEF Destroy
  <1>2. \A s \in UsedSets : Reachable(s) = Range(fl[s])
    BY <1>1, ReachableIs DEF Closing
  <1>3. live' = live \ UNION {Range(fl[s]) : s \in UsedSets}
    BY <1>1, <1>2
  <1>4. \A t \in Threads : old[t] = NULL /\ new[t] = NULL /\ pc[t] \notin Carries
    BY <1>t, <1>1 DEF Control, Carries, FreeLabels
  <1>5. live \subseteq Chunks /\ held \subseteq Chunks
    BY <1>t DEF TypeOK
  <1>6. ASSUME NEW c \in Chunks, NEW k \in Kinds, NEW x \in Owners, At(c, k, x)
        PROVE  c \in held \/ \E s \in UsedSets : c \in Range(fl[s])
    BY <1>4, <1>6, NullFact DEF At
  <1>7. ASSUME NEW c \in live' PROVE c \in held
    <2>1. c \in Chunks /\ c \in live /\ \A s \in UsedSets : c \notin Range(fl[s])
      BY <1>3, <1>5, <1>7
    <2> QED BY <2>1, <1>o, <1>6 DEF Placed
  <1>8. ASSUME NEW c \in held PROVE c \in live'
    <2>1. "held" \in Kinds /\ "list" \in Kinds /\ NULL \in Owners /\ UsedSets \subseteq Owners
      BY DEF Kinds, Owners
    <2>2. c \in Chunks /\ At(c, "held", NULL)
      BY <1>5 DEF At
    <2>3. c \in live
      BY <1>o, <2>1, <2>2 DEF Placed
    <2>4. ASSUME NEW s \in UsedSets PROVE c \notin Range(fl[s])
      <3> SUFFICES ASSUME c \in Range(fl[s]) PROVE FALSE
        OBVIOUS
      <3>1. At(c, "list", s)
        BY DEF At
      <3> QED BY <1>o, <2>1, <2>2, <3>1 DEF Exclusive
    <2> QED BY <1>3, <2>3, <2>4
  <1> QED BY <1>1, <1>7, <1>8

\* A step of a thread needs the pool open, and leaves it open.
LEMMA StepOpen ==
    ASSUME LiveInv, NEW t \in Threads, Call(t) \/ AllocStep(t) \/ FreeStep(t)
    PROVE  open /\ open' = open
  <1>1. CASE Call(t)
    BY <1>1 DEF Call, AllocCall, FreeCall, ReallocInPlace, ReallocMove
  <1>2. CASE AllocStep(t)
    <2>1. pc[t] # "idle" /\ open' = open
      BY <1>2 DEF AllocStep, AllocRefused, AllocStart, AllocLock, AllocPeek, AllocPop,
         AllocUnlock, AllocCreate, AllocCreateFails, AllocAccount
    <2> QED BY <2>1 DEF LiveInv
  <1>3. CASE FreeStep(t)
    <2>1. pc[t] # "idle" /\ open' = open
      BY <1>3 DEF FreeStep, FreeStart, FreeAdopt, FreeLock, FreeLink, FreeTail,
         FreeUnlock, FreeAccount, FreeDestroy
    <2> QED BY <2>1 DEF LiveInv
  <1> QED BY <1>1, <1>2, <1>3

\* mem_pool_destroy follows the pointers of each set to every chunk but those the
\* client holds, whatever threads did to the lists before.
THEOREM DestroyLeavesHeldHolds == Spec => []DestroyLeavesHeld
  <1>1. Init => DestroyLeavesHeld
    BY DEF Init, DestroyLeavesHeld
  <1>2. TypeInv /\ OwnInv /\ DestroyLeavesHeld /\ [Next]_vars => DestroyLeavesHeld'
    <2> SUFFICES ASSUME TypeInv, OwnInv, DestroyLeavesHeld, [Next]_vars
                 PROVE  DestroyLeavesHeld'
      OBVIOUS
    <2>1. CASE \E t \in Threads : Call(t) \/ AllocStep(t) \/ FreeStep(t)
      <3>1. open' = open /\ open
        BY <2>1, StepOpen DEF OwnInv
      <3> QED BY <3>1 DEF DestroyLeavesHeld
    <2>2. CASE Destroy
      BY <2>2, DestroyNow DEF DestroyLeavesHeld
    <2>3. CASE UNCHANGED vars
      BY <2>3 DEF DestroyLeavesHeld, vars
    <2> QED BY <2>1, <2>2, <2>3 DEF Next, Destroyed
  <1> QED BY <1>1, <1>2, Ownership, PTL DEF Spec

-----------------------------------------------------------------------------
(* Sums *)

\* One for each unit of the weights: their sum, as the size of a set.
Units(S, w, b) == {u \in S \X (1 .. b) : u[2] <= w[u[1]]}

\* No element has no unit.
LEMMA UnitsEmpty ==
    ASSUME NEW w, NEW b
    PROVE  Cardinality(Units({}, w, b)) = 0
  <1>1. Units({}, w, b) = {}
    BY DEF Units
  <1> QED BY <1>1, FS_EmptySet

\* Finitely many weights have finitely many units.
LEMMA UnitsFinite ==
    ASSUME NEW S, IsFiniteSet(S), NEW w, NEW b \in Nat
    PROVE  IsFiniteSet(Units(S, w, b)) /\ Cardinality(Units(S, w, b)) \in Nat
  <1>1. IsFiniteSet(1 .. b)
    BY FS_Interval
  <1>2. IsFiniteSet(S \X (1 .. b))
    BY <1>1, FS_Product
  <1>3. Units(S, w, b) \in SUBSET (S \X (1 .. b))
    BY DEF Units
  <1>4. IsFiniteSet(Units(S, w, b))
    BY <1>2, <1>3, FS_Subset
  <1> QED BY <1>4, FS_CardinalityType

\* One element more has its weight more units.
LEMMA UnitsAdd ==
    ASSUME NEW S, IsFiniteSet(S), NEW x, x \notin S, NEW w, NEW b \in Nat, w[x] \in 0 .. b
    PROVE  Cardinality(Units(S \cup {x}, w, b)) = Cardinality(Units(S, w, b)) + w[x]
  <1> DEFINE A == Units(S, w, b)
             B == {x} \X (1 .. w[x])
  <1>1. IsFiniteSet(1 .. w[x]) /\ Cardinality(1 .. w[x]) = w[x] /\ w[x] \in Nat
    <2>1. w[x] \in Int /\ w[x] \in Nat
      OBVIOUS
    <2>2. PICK k \in Nat : k = w[x]
      BY <2>1
    <2>3. IsFiniteSet(1 .. k) /\ Cardinality(1 .. k) = IF 1 > k THEN 0 ELSE k - 1 + 1
      <3>1. 1 \in Int /\ k \in Int
        OBVIOUS
      <3>2. IsFiniteSet(1 .. k)
        BY <3>1, FS_Interval
      <3>3. Cardinality(1 .. k) = IF 1 > k THEN 0 ELSE k - 1 + 1
        BY <3>1, FS_Interval
      <3> QED BY <3>2, <3>3
    <2>4. (IF 1 > k THEN 0 ELSE k - 1 + 1) = k
      OBVIOUS
    <2>5. Cardinality(1 .. k) = k
      BY <2>3, <2>4
    <2> QED BY <2>2, <2>3, <2>5
  <1>2. IsFiniteSet({x}) /\ Cardinality({x}) = 1
    BY FS_Singleton
  <1>3. IsFiniteSet(B) /\ Cardinality(B) = w[x]
    <2>1. IsFiniteSet(B) /\ Cardinality(B) = Cardinality({x}) * Cardinality(1 .. w[x])
      BY <1>1, <1>2, FS_Product
    <2>2. 1 * w[x] = w[x]
      BY <1>1
    <2> QED BY <1>1, <1>2, <2>1, <2>2
  <1>4. IsFiniteSet(A) /\ Cardinality(A) \in Nat
    BY UnitsFinite
  <1>5. Units(S \cup {x}, w, b) = A \cup B
    BY DEF Units
  <1>6. A \cap B = {}
    BY DEF Units
  <1>7. Cardinality(A \cup B) = Cardinality(A) + Cardinality(B) - Cardinality(A \cap B)
    BY <1>3, <1>4, FS_Union
  <1>8. Cardinality(A \cap B) = 0
    BY <1>6, FS_EmptySet
  <1>9. Cardinality(A \cup B) = Cardinality(A) + w[x] - 0
    BY <1>3, <1>7, <1>8
  <1>10. Cardinality(A) + w[x] - 0 = Cardinality(A) + w[x]
    BY <1>1, <1>4
  <1> QED BY <1>5, <1>9, <1>10

\* The sum of the weights over a finite set, whatever order it is taken in.
SumOf(w, S) == MapThenSumSet(LAMBDA c : w[c], S)

\* A sum over a finite set is the number of its units.
LEMMA SumIsUnits ==
    ASSUME NEW S, IsFiniteSet(S), NEW b \in Nat, NEW w, \A n \in S : w[n] \in 0 .. b
    PROVE  SumOf(w, S) = Cardinality(Units(S, w, b))
  <1> DEFINE c(s) == CHOOSE x \in s : TRUE
             Eq(h) == h = [s \in SUBSET S |-> IF s = {} THEN 0 ELSE w[c(s)] + h[s \ {c(s)}]]
             f == CHOOSE h : Eq(h)
             f0 == [s \in SUBSET S |-> Cardinality(Units(s, w, b))]
  <1>1. SumOf(w, S) = f[S]
    BY DEF SumOf, MapThenSumSet, MapThenFoldSet
  <1>2. ASSUME NEW s \in SUBSET S, s # {}
        PROVE  /\ c(s) \in s /\ s \ {c(s)} \in SUBSET S
               /\ Cardinality(Units(s, w, b)) = w[c(s)] + Cardinality(Units(s \ {c(s)}, w, b))
    <2>1. c(s) \in s
      BY <1>2
    <2> HIDE DEF c
    <2>2. w[c(s)] \in 0 .. b /\ c(s) \in S
      BY <2>1
    <2>3. IsFiniteSet(s \ {c(s)})
      BY FS_Subset
    <2>4. s = (s \ {c(s)}) \cup {c(s)}
      BY <2>1
    <2>5. Cardinality(Units(s \ {c(s)}, w, b)) \in Nat
      BY <2>3, UnitsFinite
    <2>6. Cardinality(Units((s \ {c(s)}) \cup {c(s)}, w, b)) = Cardinality(Units(s \ {c(s)}, w, b)) + w[c(s)]
      BY <2>2, <2>3, UnitsAdd
    <2>7. Cardinality(Units(s, w, b)) = Cardinality(Units(s \ {c(s)}, w, b)) + w[c(s)]
      BY <2>4, <2>6
    <2>8. Cardinality(Units(s \ {c(s)}, w, b)) + w[c(s)] = w[c(s)] + Cardinality(Units(s \ {c(s)}, w, b))
      BY <2>2, <2>5
    <2> QED BY <2>1, <2>2, <2>7, <2>8
  <1>3. Eq(f0)
    <2>1. ASSUME NEW s \in SUBSET S
          PROVE  f0[s] = IF s = {} THEN 0 ELSE w[c(s)] + f0[s \ {c(s)}]
      <3>1. CASE s = {}
        BY <3>1, UnitsEmpty
      <3>2. CASE s # {}
        <4> HIDE DEF c
        <4> QED BY <1>2, <3>2
      <3> QED BY <3>1, <3>2
    <2>2. f0 = [s \in SUBSET S |-> f0[s]]
      OBVIOUS
    <2> HIDE DEF f0, c
    <2> QED BY <2>1, <2>2, Zenon
  <1>4. Eq(f)
    <2> HIDE DEF f0, c
    <2> QED BY <1>3
  <1>5. ASSUME NEW s \in SUBSET S
        PROVE  f[s] = IF s = {} THEN 0 ELSE w[c(s)] + f[s \ {c(s)}]
    <2> HIDE DEF f, c
    <2> QED BY <1>4
  <1> HIDE DEF f, c
  <1>6. {s \in SUBSET S : f[s] # Cardinality(Units(s, w, b))} = {}
    <2> DEFINE Bad == {s \in SUBSET S : f[s] # Cardinality(Units(s, w, b))}
    <2> SUFFICES ASSUME Bad # {} PROVE FALSE
      OBVIOUS
    <2>1. Bad \subseteq FiniteSubsetsOf(S)
      <3>1. \A s \in SUBSET S : IsFiniteSet(s)
        BY FS_Subset
      <3> QED BY <3>1 DEF FiniteSubsetsOf
    <2>2. PICK s \in Bad : \A t \in Bad : ~(<<t, s>> \in StrictSubsetOrdering(S))
      <3> HIDE DEF Bad
      <3> QED BY <2>1, FS_StrictSubsetOrderingWellFounded, WFMin
    <2>3. CASE s = {}
      BY <1>5, <2>3, UnitsEmpty
    <2>4. CASE s # {}
      <3> DEFINE t == s \ {c(s)}
      <3>1. c(s) \in s /\ t \in SUBSET S /\ t # s
        BY <1>2, <2>4
      <3>2. <<t, s>> \in StrictSubsetOrdering(S)
        BY <3>1 DEF StrictSubsetOrdering
      <3>3. f[t] = Cardinality(Units(t, w, b))
        BY <2>2, <3>1, <3>2
      <3> QED BY <1>2, <1>5, <2>4, <3>3
    <2> QED BY <2>3, <2>4
  <1> QED BY <1>1, <1>6

\* Weights that agree on a set have the same units there.
LEMMA UnitsAgree ==
    ASSUME NEW S, NEW w, NEW w2, NEW b, \A n \in S : w[n] = w2[n]
    PROVE  Units(S, w, b) = Units(S, w2, b)
  BY DEF Units

\* Finitely many weights have a bound.
LEMMA Bounded ==
    ASSUME NEW S, IsFiniteSet(S), NEW w, \A n \in S : w[n] \in Nat
    PROVE  \E b \in Nat : \A n \in S : w[n] \in 0 .. b
  <1> DEFINE Bad == {s \in SUBSET S : ~\E b \in Nat : \A n \in s : w[n] \in 0 .. b}
  <1>1. Bad = {}
    <2> SUFFICES ASSUME Bad # {} PROVE FALSE
      OBVIOUS
    <2>1. Bad \subseteq FiniteSubsetsOf(S)
      <3>1. \A s \in SUBSET S : IsFiniteSet(s)
        BY FS_Subset
      <3> QED BY <3>1 DEF FiniteSubsetsOf
    <2>2. PICK s \in Bad : \A t \in Bad : ~(<<t, s>> \in StrictSubsetOrdering(S))
      <3> HIDE DEF Bad
      <3> QED BY <2>1, FS_StrictSubsetOrderingWellFounded, WFMin
    <2>3. PICK x \in s : TRUE
      <3>1. s = {} => \A n \in s : w[n] \in 0 .. 0
        OBVIOUS
      <3> QED BY <3>1
    <2>4. s \ {x} \in SUBSET S /\ <<s \ {x}, s>> \in StrictSubsetOrdering(S)
      BY <2>3 DEF StrictSubsetOrdering
    <2>5. PICK b \in Nat : \A n \in s \ {x} : w[n] \in 0 .. b
      BY <2>2, <2>4
    <2>6. PICK m \in Nat : m = w[x]
      BY <2>3
    <2>7. \A n \in s : w[n] \in 0 .. (b + m)
      <3> HIDE DEF Bad
      <3>1. \A n \in s : n = x \/ n \in s \ {x}
        OBVIOUS
      <3>2. m \in 0 .. (b + m) /\ \A i \in 0 .. b : i \in 0 .. (b + m)
        OBVIOUS
      <3> QED BY <2>5, <2>6, <3>1, <3>2
    <2>8. b + m \in Nat
      OBVIOUS
    <2> QED BY <2>7, <2>8
  <1> QED BY <1>1

\* A sum of natural numbers is one.
LEMMA SumType ==
    ASSUME NEW S, IsFiniteSet(S), NEW w, \A n \in S : w[n] \in Nat
    PROVE  SumOf(w, S) \in Nat
  <1>1. PICK b \in Nat : \A n \in S : w[n] \in 0 .. b
    BY Bounded
  <1> QED BY <1>1, SumIsUnits, UnitsFinite

\* Nothing sums to nothing.
LEMMA SumEmpty ==
    ASSUME NEW w
    PROVE  SumOf(w, {}) = 0
  <1>1. IsFiniteSet({}) /\ \A n \in {} : w[n] \in 0 .. 0
    BY FS_EmptySet
  <1> QED BY <1>1, SumIsUnits, UnitsEmpty

\* One element more has its weight more.
LEMMA SumAdd ==
    ASSUME NEW S, IsFiniteSet(S), NEW x, x \notin S, NEW w,
           \A n \in S : w[n] \in Nat, w[x] \in Nat
    PROVE  SumOf(w, S \cup {x}) = SumOf(w, S) + w[x]
  <1>1. IsFiniteSet(S \cup {x}) /\ \A n \in S \cup {x} : w[n] \in Nat
    BY FS_AddElement
  <1>2. PICK b \in Nat : \A n \in S \cup {x} : w[n] \in 0 .. b
    BY <1>1, Bounded
  <1>3. SumOf(w, S \cup {x}) = Cardinality(Units(S \cup {x}, w, b))
    BY <1>1, <1>2, SumIsUnits
  <1>4. SumOf(w, S) = Cardinality(Units(S, w, b))
    BY <1>2, SumIsUnits
  <1>5. w[x] \in 0 .. b
    BY <1>2
  <1> QED BY <1>3, <1>4, <1>5, UnitsAdd

\* One element less has its weight less.
LEMMA SumRemove ==
    ASSUME NEW S, IsFiniteSet(S), NEW x \in S, NEW w, \A n \in S : w[n] \in Nat
    PROVE  SumOf(w, S \ {x}) = SumOf(w, S) - w[x]
  <1>1. IsFiniteSet(S \ {x}) /\ x \notin S \ {x} /\ (S \ {x}) \cup {x} = S
    BY FS_Subset
  <1>2. SumOf(w, (S \ {x}) \cup {x}) = SumOf(w, S \ {x}) + w[x]
    BY <1>1, SumAdd
  <1>3. SumOf(w, S \ {x}) \in Nat /\ w[x] \in Nat
    BY <1>1, SumType
  <1>4. SumOf(w, S) = SumOf(w, S \ {x}) + w[x]
    BY <1>1, <1>2
  <1> QED BY <1>3, <1>4

\* Weights that agree on a set have the same sum.
LEMMA SumAgree ==
    ASSUME NEW S, IsFiniteSet(S), NEW w, NEW w2,
           \A n \in S : w[n] \in Nat /\ w2[n] = w[n]
    PROVE  SumOf(w2, S) = SumOf(w, S)
  <1>1. PICK b \in Nat : \A n \in S : w[n] \in 0 .. b
    BY Bounded
  <1>2. SumOf(w, S) = Cardinality(Units(S, w, b)) /\ SumOf(w2, S) = Cardinality(Units(S, w2, b))
    BY <1>1, SumIsUnits
  <1> QED BY <1>2, UnitsAgree

\* Elements of one weight add it as often as they are.
LEMMA SumConstant ==
    ASSUME NEW X, IsFiniteSet(X), NEW Y, IsFiniteSet(Y), X \cap Y = {}, NEW w, NEW v \in Nat,
           \A n \in X : w[n] \in Nat, \A n \in Y : w[n] = v
    PROVE  SumOf(w, X \cup Y) = SumOf(w, X) + v * Cardinality(Y)
  <1>1. IsFiniteSet(X \cup Y) /\ \A n \in X \cup Y : w[n] \in Nat
    BY FS_Union
  <1>2. PICK b \in Nat : \A n \in X \cup Y : w[n] \in 0 .. b
    BY <1>1, Bounded
  <1>3. SumOf(w, X \cup Y) = Cardinality(Units(X \cup Y, w, b)) /\ SumOf(w, X) = Cardinality(Units(X, w, b))
    BY <1>1, <1>2, SumIsUnits
  <1> DEFINE A == Units(X, w, b)
             B == Y \X (1 .. v)
  <1>4. Units(X \cup Y, w, b) = A \cup B
    <2>1. \A n \in Y : v \in 0 .. b
      BY <1>2
    <2>2. ASSUME NEW u \in Units(X \cup Y, w, b) PROVE u \in A \cup B
      BY <2>1 DEF Units
    <2>3. ASSUME NEW u \in B PROVE u \in Units(X \cup Y, w, b)
      <3>1. u[1] \in Y /\ u[2] \in 1 .. v /\ u = <<u[1], u[2]>> /\ w[u[1]] = v
        OBVIOUS
      <3>2. u[2] \in 1 .. b /\ u[2] <= w[u[1]]
        BY <2>1, <3>1
      <3> QED BY <3>1, <3>2 DEF Units
    <2>4. A \subseteq Units(X \cup Y, w, b)
      BY DEF Units
    <2> QED BY <2>2, <2>3, <2>4
  <1>5. A \cap B = {}
    BY DEF Units
  <1>6. IsFiniteSet(1 .. v) /\ Cardinality(1 .. v) = v
    <2>1. IsFiniteSet(1 .. v) /\ Cardinality(1 .. v) = IF 1 > v THEN 0 ELSE v - 1 + 1
      BY FS_Interval
    <2>2. (IF 1 > v THEN 0 ELSE v - 1 + 1) = v
      OBVIOUS
    <2> QED BY <2>1, <2>2
  <1>7. IsFiniteSet(B) /\ Cardinality(B) = v * Cardinality(Y)
    <2>1. IsFiniteSet(B) /\ Cardinality(B) = Cardinality(Y) * Cardinality(1 .. v)
      BY <1>6, FS_Product
    <2>2. Cardinality(Y) \in Nat
      BY FS_CardinalityType
    <2> HIDE DEF B
    <2>3. Cardinality(Y) * v = v * Cardinality(Y)
      BY <2>2
    <2> QED BY <1>6, <2>1, <2>3
  <1>8. IsFiniteSet(A) /\ Cardinality(A) \in Nat
    <2>1. \A n \in X : w[n] \in 0 .. b
      BY <1>2
    <2> QED BY UnitsFinite
  <1> HIDE DEF A, B
  <1>9. Cardinality(A \cup B) = Cardinality(A) + Cardinality(B) - Cardinality(A \cap B)
    BY <1>7, <1>8, FS_Union
  <1>10. Cardinality(A \cap B) = 0 /\ Cardinality(B) \in Nat
    BY <1>5, <1>7, FS_EmptySet, FS_CardinalityType
  <1>11. Cardinality(A \cup B) = Cardinality(A) + Cardinality(B)
    BY <1>8, <1>9, <1>10
  <1> QED BY <1>3, <1>4, <1>7, <1>11 DEF A

-----------------------------------------------------------------------------
(* The counters *)

\* Thread t has a block of malloc's that used_size does not have, or no longer.
Waits(t) == pc[t] \in {"alloc_account", "free_destroy"}

Uncounted == {cur[t] : t \in {u \in Threads : Waits(u)}}
Counted   == live \ Uncounted

\* The chunks that belong to a set.
Members(s) == {c \in live : set_pos[c] = s}

CountInv ==
    open => /\ used_size = IdleSize + SumOf(size, Counted)
            /\ \A s \in UsedSets : chunk_count[s] = Cardinality(Members(s))

\* A chunk that is on its way from malloc, to it, or to its first set, has no
\* set yet.
Homeless == {"alloc_account", "free_adopt", "free_account", "free_destroy"}

HomeInv == \A t \in Threads : pc[t] \in Homeless => set_pos[cur[t]] = OUTSET

\* A chunk in the hands of a thread is malloc's, and in no other thread's.
LEMMA OneHand ==
    ASSUME TypeInv, OwnInv, open, NEW t \in Threads, pc[t] \in Carries, cur[t] # NULL
    PROVE  /\ cur[t] \in Chunks /\ cur[t] \in live
           /\ \A u \in Threads : pc[u] \in Carries /\ cur[u] = cur[t] => u = t
  <1>1. cur[t] \in Chunks /\ At(cur[t], "cur", t)
    BY DEF TypeInv, TypeOK, At
  <1>2. "cur" \in Kinds /\ Threads \subseteq Owners
    BY DEF Kinds, Owners
  <1>3. cur[t] \in live
    BY <1>1, <1>2 DEF OwnInv, LiveInv, Placed
  <1>4. ASSUME NEW u \in Threads, pc[u] \in Carries, cur[u] = cur[t] PROVE u = t
    <2>1. At(cur[t], "cur", u)
      BY <1>4 DEF At
    <2> QED BY <1>1, <1>2, <2>1 DEF OwnInv, Exclusive
  <1> QED BY <1>1, <1>3, <1>4

\* The same at each of the labels where a chunk is certain.
LEMMA CarriedIs ==
    ASSUME TypeInv, OwnInv, open, NEW t \in Threads,
           pc[t] \in Homeless \cup {"free_start"}
    PROVE  /\ cur[t] \in Chunks /\ cur[t] \in live /\ cur[t] # NULL
           /\ \A u \in Threads : pc[u] \in Carries /\ cur[u] = cur[t] => u = t
  <1>1. cur[t] # NULL
    BY DEF TypeInv, Control, Homeless, FreeLabels
  <1>2. pc[t] \in Carries
    BY DEF Homeless, Carries
  <1> QED BY <1>1, <1>2, OneHand

\* Finitely many chunks, each of a size.
LEMMA CountFacts ==
    ASSUME TypeInv
    PROVE  /\ IsFiniteSet(live) /\ IsFiniteSet(Counted) /\ Counted \subseteq Chunks
           /\ \A c \in Chunks : size[c] \in Nat
           /\ SumOf(size, Counted) \in Nat /\ IdleSize \in Nat
           /\ \A s : IsFiniteSet(Members(s))
  <1>1. live \subseteq Chunks /\ \A c \in Chunks : size[c] \in Nat
    BY DEF TypeInv, TypeOK
  <1>2. IsFiniteSet(Chunks) /\ IdleSize \in Nat
    BY PoolAssumption
  <1>3. Counted \subseteq live /\ \A s : Members(s) \subseteq live
    BY DEF Counted, Members
  <1>4. IsFiniteSet(live)
    BY <1>1, <1>2, FS_Subset
  <1>5. IsFiniteSet(Counted) /\ \A s : IsFiniteSet(Members(s))
    BY <1>3, <1>4, FS_Subset
  <1> QED BY <1>1, <1>2, <1>3, <1>4, <1>5, SumType

-----------------------------------------------------------------------------
(* The steps that touch the counters or what they count *)

\* A step that touches neither.
LEMMA CountQuiet ==
    ASSUME CountInv, open, open' = open,
           UNCHANGED <<live, size, set_pos, used_size, chunk_count>>,
           Uncounted' = Uncounted
    PROVE  CountInv'
  <1>1. Counted' = Counted
    BY DEF Counted
  <1>2. \A s : Members(s)' = Members(s)
    BY DEF Members
  <1> QED BY <1>1, <1>2 DEF CountInv

\* What thread t does, as seen from Uncounted.
LEMMA UncountedSame ==
    ASSUME NEW t \in Threads, ~Waits(t), ~Waits(t)',
           \A u \in Threads \ {t} : pc'[u] = pc[u] /\ cur'[u] = cur[u]
    PROVE  Uncounted' = Uncounted
  <1>1. \A u \in Threads : Waits(u)' <=> Waits(u)
    BY DEF Waits
  <1>2. \A u \in Threads : Waits(u) => cur'[u] = cur[u]
    OBVIOUS
  <1> QED BY <1>1, <1>2 DEF Uncounted

\* Thread t comes to wait with a chunk.
LEMMA UncountedMore ==
    ASSUME NEW t \in Threads, ~Waits(t), Waits(t)',
           \A u \in Threads \ {t} : pc'[u] = pc[u] /\ cur'[u] = cur[u]
    PROVE  Uncounted' = Uncounted \cup {cur'[t]}
  <1>1. \A u \in Threads \ {t} : (Waits(u)' <=> Waits(u)) /\ cur'[u] = cur[u]
    BY DEF Waits
  <1>2. ASSUME NEW c \in Uncounted' PROVE c \in Uncounted \cup {cur'[t]}
    BY <1>1 DEF Uncounted
  <1>3. ASSUME NEW c \in Uncounted \cup {cur'[t]} PROVE c \in Uncounted'
    BY <1>1 DEF Uncounted
  <1> QED BY <1>2, <1>3

\* Thread t does not wait with its chunk any more.
LEMMA UncountedLess ==
    ASSUME NEW t \in Threads, Waits(t), ~Waits(t)',
           \A u \in Threads \ {t} : pc'[u] = pc[u] /\ cur'[u] = cur[u],
           \A u \in Threads : Waits(u) /\ cur[u] = cur[t] => u = t
    PROVE  Uncounted' = Uncounted \ {cur[t]}
  <1>1. \A u \in Threads \ {t} : (Waits(u)' <=> Waits(u)) /\ cur'[u] = cur[u]
    BY DEF Waits
  <1>2. ASSUME NEW c \in Uncounted' PROVE c \in Uncounted \ {cur[t]}
    BY <1>1 DEF Uncounted
  <1>3. ASSUME NEW c \in Uncounted \ {cur[t]} PROVE c \in Uncounted'
    BY <1>1 DEF Uncounted
  <1> QED BY <1>2, <1>3

\* A new chunk is not counted before AllocAccount.
LEMMA CountAllocCreate ==
    ASSUME TypeInv, CountInv, open, NEW t \in Threads, NEW c \in Chunks, AllocCreate(t, c)
    PROVE  CountInv'
  <1>t. TypeOK
    BY DEF TypeInv
  <1>1. /\ pc[t] = "alloc_create" /\ c \notin live /\ live' = live \cup {c}
        /\ size' = [size EXCEPT ![c] = AlignSize(t)]
        /\ set_pos' = [set_pos EXCEPT ![c] = OUTSET]
        /\ cur' = [cur EXCEPT ![t] = c] /\ pc' = [pc EXCEPT ![t] = "alloc_account"]
        /\ UNCHANGED <<chunk_count, used_size, open>>
    BY DEF AllocCreate, Goto, setVars
  <1>2. /\ pc'[t] = "alloc_account" /\ cur'[t] = c
        /\ \A u \in Threads \ {t} : pc'[u] = pc[u] /\ cur'[u] = cur[u]
        /\ \A d \in Chunks \ {c} : size'[d] = size[d] /\ set_pos'[d] = set_pos[d]
        /\ set_pos'[c] = OUTSET
    BY <1>t, <1>1 DEF TypeOK
  <1>3. Uncounted' = Uncounted \cup {c}
    <2>1. ~Waits(t) /\ Waits(t)'
      BY <1>1, <1>2 DEF Waits
    <2> QED BY <1>2, <2>1, UncountedMore
  <1>4. Counted' = Counted /\ c \notin Counted
    BY <1>1, <1>3 DEF Counted
  <1>5. SumOf(size', Counted) = SumOf(size, Counted)
    <2>1. \A n \in Counted : size[n] \in Nat /\ size'[n] = size[n]
      BY <1>2, <1>4, CountFacts
    <2> QED BY <2>1, CountFacts, SumAgree
  <1>6. ASSUME NEW s \in UsedSets PROVE Members(s)' = Members(s)
    BY <1>t, <1>1, <1>2, SetFacts DEF Members, TypeOK
  <1> QED BY <1>1, <1>4, <1>5, <1>6 DEF CountInv

\* AllocAccount counts the chunk AllocCreate got.
LEMMA CountAllocAccount ==
    ASSUME TypeInv, OwnInv, CountInv, open, NEW t \in Threads, AllocAccount(t)
    PROVE  CountInv'
  <1>t. TypeOK
    BY DEF TypeInv
  <1> DEFINE c == cur[t]
  <1>1. /\ pc[t] = "alloc_account" /\ used_size' = used_size + size[c]
        /\ cur' = [cur EXCEPT ![t] = old[t]]
        /\ \E l \in {"idle", "free_start"} : pc' = [pc EXCEPT ![t] = l]
        /\ UNCHANGED <<live, size, set_pos, chunk_count, open>>
    BY DEF AllocAccount, AllocSucceeds, Goto, setVars
  <1>2. /\ c \in Chunks /\ c \in live
        /\ \A u \in Threads : pc[u] \in Carries /\ cur[u] = c => u = t
    BY <1>1, CarriedIs DEF Homeless
  <1>3. /\ pc'[t] \in {"idle", "free_start"}
        /\ \A u \in Threads \ {t} : pc'[u] = pc[u] /\ cur'[u] = cur[u]
    BY <1>t, <1>1 DEF TypeOK
  <1>4. Uncounted' = Uncounted \ {c} /\ c \in Uncounted
    <2>1. Waits(t) /\ ~Waits(t)' /\ \A u \in Threads : Waits(u) => pc[u] \in Carries
      BY <1>1, <1>3 DEF Waits, Carries
    <2>2. Uncounted' = Uncounted \ {c}
      BY <1>2, <1>3, <2>1, UncountedLess
    <2> QED BY <2>1, <2>2 DEF Uncounted
  <1> HIDE DEF c
  <1>5. Counted' = Counted \cup {c} /\ c \notin Counted
    BY <1>1, <1>2, <1>4 DEF Counted
  <1>6. SumOf(size, Counted \cup {c}) = SumOf(size, Counted) + size[c]
    <2>1. \A n \in Counted : size[n] \in Nat
      BY CountFacts
    <2> QED BY <1>2, <1>5, <2>1, CountFacts, SumAdd
  <1>7. used_size' = IdleSize + SumOf(size, Counted \cup {c})
    <2>1. used_size = IdleSize + SumOf(size, Counted)
      BY DEF CountInv
    <2>2. IdleSize \in Nat /\ SumOf(size, Counted) \in Nat /\ size[c] \in Nat
      BY <1>2, CountFacts
    <2> QED BY <1>1, <1>6, <2>1, <2>2
  <1>8. ASSUME NEW s \in UsedSets PROVE Members(s)' = Members(s)
    BY <1>1 DEF Members
  <1> QED BY <1>1, <1>5, <1>7, <1>8 DEF CountInv

\* FreeAccount stops counting the chunk that is to go.
LEMMA CountFreeAccount ==
    ASSUME TypeInv, OwnInv, CountInv, open, NEW t \in Threads, FreeAccount(t)
    PROVE  CountInv'
  <1>t. TypeOK
    BY DEF TypeInv
  <1> DEFINE c == cur[t]
  <1>1. /\ pc[t] = "free_account" /\ used_size' = used_size - size[c]
        /\ cur' = cur /\ pc' = [pc EXCEPT ![t] = "free_destroy"]
        /\ UNCHANGED <<live, size, set_pos, chunk_count, open>>
    BY DEF FreeAccount, Goto, setVars
  <1>2. /\ c \in Chunks /\ c \in live
        /\ \A u \in Threads : pc[u] \in Carries /\ cur[u] = c => u = t
    BY <1>1, CarriedIs DEF Homeless
  <1>3. /\ pc'[t] = "free_destroy" /\ cur'[t] = c
        /\ \A u \in Threads \ {t} : pc'[u] = pc[u] /\ cur'[u] = cur[u]
    BY <1>t, <1>1 DEF TypeOK
  <1>4. Uncounted' = Uncounted \cup {c} /\ c \notin Uncounted
    <2>1. ~Waits(t) /\ Waits(t)' /\ \A u \in Threads : Waits(u) => pc[u] \in Carries
      BY <1>1, <1>3 DEF Waits, Carries
    <2>2. Uncounted' = Uncounted \cup {c}
      BY <1>3, <2>1, UncountedMore
    <2> QED BY <1>2, <2>1, <2>2 DEF Uncounted
  <1> HIDE DEF c
  <1>5. Counted' = Counted \ {c} /\ c \in Counted
    BY <1>1, <1>2, <1>4 DEF Counted
  <1>6. SumOf(size, Counted \ {c}) = SumOf(size, Counted) - size[c]
    <2>1. \A n \in Counted : size[n] \in Nat
      BY CountFacts
    <2> QED BY <1>5, <2>1, CountFacts, SumRemove
  <1>7. used_size' = IdleSize + SumOf(size, Counted \ {c})
    <2>1. used_size = IdleSize + SumOf(size, Counted)
      BY DEF CountInv
    <2>2. IdleSize \in Nat /\ SumOf(size, Counted) \in Nat /\ size[c] \in Nat
      BY <1>2, CountFacts
    <2> QED BY <1>1, <1>6, <2>1, <2>2
  <1>8. ASSUME NEW s \in UsedSets PROVE Members(s)' = Members(s)
    BY <1>1 DEF Members
  <1> QED BY <1>1, <1>5, <1>7, <1>8 DEF CountInv

\* A chunk that goes back to malloc is not counted any more, and is in no set.
LEMMA CountFreeDestroy ==
    ASSUME TypeInv, OwnInv, HomeInv, CountInv, open, NEW t \in Threads, FreeDestroy(t)
    PROVE  CountInv'
  <1>t. TypeOK
    BY DEF TypeInv
  <1> DEFINE c == cur[t]
  <1>1. /\ pc[t] = "free_destroy" /\ live' = live \ {c}
        /\ cur' = [cur EXCEPT ![t] = NULL] /\ pc' = [pc EXCEPT ![t] = "idle"]
        /\ UNCHANGED <<size, set_pos, chunk_count, used_size, open>>
    BY DEF FreeDestroy, FreeReturns, Goto, setVars
  <1>2. /\ c \in Chunks /\ c \in live
        /\ \A u \in Threads : pc[u] \in Carries /\ cur[u] = c => u = t
    BY <1>1, CarriedIs DEF Homeless
  <1>3. /\ pc'[t] = "idle"
        /\ \A u \in Threads \ {t} : pc'[u] = pc[u] /\ cur'[u] = cur[u]
    BY <1>t, <1>1 DEF TypeOK
  <1>4. Uncounted' = Uncounted \ {c} /\ c \in Uncounted
    <2>1. Waits(t) /\ ~Waits(t)' /\ \A u \in Threads : Waits(u) => pc[u] \in Carries
      BY <1>1, <1>3 DEF Waits, Carries
    <2>2. Uncounted' = Uncounted \ {c}
      BY <1>2, <1>3, <2>1, UncountedLess
    <2> QED BY <2>1, <2>2 DEF Uncounted
  <1>5. set_pos[c] = OUTSET
    BY <1>1 DEF HomeInv, Homeless
  <1> HIDE DEF c
  <1>6. Counted' = Counted
    BY <1>1, <1>4 DEF Counted
  <1>7. ASSUME NEW s \in UsedSets PROVE Members(s)' = Members(s)
    BY <1>1, <1>5, SetFacts DEF Members
  <1> QED BY <1>1, <1>6, <1>7 DEF CountInv

\* An adopted chunk is one more of its set.
LEMMA CountFreeAdopt ==
    ASSUME TypeInv, OwnInv, HomeInv, CountInv, open, NEW t \in Threads, FreeAdopt(t)
    PROVE  CountInv'
  <1>t. TypeOK /\ Control(t)
    BY DEF TypeInv
  <1>0. pc[t] = "free_adopt"
    BY DEF FreeAdopt
  <1>s. PICK s \in UsedSets : s = pos[t]
    BY <1>t, <1>0 DEF Control
  <1> DEFINE c == cur[t]
  <1>1. /\ pc[t] = "free_adopt" /\ set_pos' = [set_pos EXCEPT ![c] = s]
        /\ chunk_count' = [chunk_count EXCEPT ![s] = @ + 1]
        /\ cur' = cur /\ pc' = [pc EXCEPT ![t] = "free_lock"]
        /\ UNCHANGED <<live, size, used_size, open>>
    BY <1>s DEF FreeAdopt, Goto, callVars
  <1>2. c \in Chunks /\ c \in live /\ s \in UsedSets
    BY <1>1, CarriedIs DEF Homeless
  <1>3. /\ pc'[t] = "free_lock"
        /\ \A u \in Threads \ {t} : pc'[u] = pc[u] /\ cur'[u] = cur[u]
    BY <1>t, <1>1 DEF TypeOK
  <1>4. Uncounted' = Uncounted
    <2>1. ~Waits(t) /\ ~Waits(t)'
      BY <1>1, <1>3 DEF Waits
    <2> QED BY <1>3, <2>1, UncountedSame
  <1>5. set_pos[c] = OUTSET
    BY <1>1 DEF HomeInv, Homeless
  <1> HIDE DEF c
  <1>6. Counted' = Counted
    BY <1>1, <1>4 DEF Counted
  <1>7. /\ set_pos'[c] = s /\ \A d \in Chunks \ {c} : set_pos'[d] = set_pos[d]
        /\ chunk_count'[s] = chunk_count[s] + 1
        /\ \A u \in UsedSets \ {s} : chunk_count'[u] = chunk_count[u]
        /\ live \subseteq Chunks
    BY <1>t, <1>1, <1>2 DEF TypeOK
  <1>8. ASSUME NEW u \in UsedSets \ {s} PROVE Members(u)' = Members(u)
    BY <1>1, <1>2, <1>5, <1>7, SetFacts DEF Members
  <1>9. Members(s)' = Members(s) \cup {c} /\ c \notin Members(s)
    <2>1. Members(s)' = {d \in live : set_pos'[d] = s}
      BY <1>1 DEF Members
    <2>2. OUTSET # s
      BY SetFacts
    <2> QED BY <1>2, <1>5, <1>7, <2>1, <2>2 DEF Members
  <1>10. Cardinality(Members(s)') = Cardinality(Members(s)) + 1
    BY <1>9, CountFacts, FS_AddElement
  <1>11. ASSUME NEW u \in UsedSets PROVE chunk_count'[u] = Cardinality(Members(u)')
    <2>1. chunk_count[u] = Cardinality(Members(u))
      BY DEF CountInv
    <2>2. CASE u = s
      BY <1>7, <1>10, <2>1, <2>2
    <2>3. CASE u # s
      BY <1>7, <1>8, <2>1, <2>3
    <2> QED BY <2>2, <2>3
  <1> QED BY <1>1, <1>6, <1>11 DEF CountInv

-----------------------------------------------------------------------------
(* The chunks without a set *)

\* A step of thread t that leaves the chunks in other hands alone.
LEMMA HomeKeep ==
    ASSUME HomeInv, NEW t \in Threads,
           \A u \in Threads \ {t} :
              /\ pc'[u] = pc[u] /\ cur'[u] = cur[u]
              /\ pc[u] \in Homeless /\ set_pos[cur[u]] = OUTSET => set_pos'[cur[u]] = OUTSET,
           pc'[t] \in Homeless => set_pos'[cur'[t]] = OUTSET
    PROVE  HomeInv'
  BY DEF HomeInv

\* A call has no chunk that is homeless.
LEMMA HomeCall ==
    ASSUME TypeInv, HomeInv, NEW t \in Threads, Call(t)
    PROVE  HomeInv'
  <1>t. TypeOK
    BY DEF TypeInv
  <1>1. /\ set_pos' = set_pos
        /\ \/ pc' = pc /\ cur' = cur
           \/ /\ \E l \in {"alloc_start", "free_start"} : pc' = [pc EXCEPT ![t] = l]
              /\ \E c : cur' = [cur EXCEPT ![t] = c]
           \/ /\ \E l \in {"alloc_start", "free_start"} : pc' = [pc EXCEPT ![t] = l]
              /\ cur' = cur
    BY DEF Call, AllocCall, FreeCall, ReallocInPlace, ReallocMove, Goto
  <1>2. CASE pc' = pc /\ cur' = cur
    BY <1>1, <1>2 DEF HomeInv
  <1>3. CASE ~(pc' = pc /\ cur' = cur)
    <2>1. /\ \A u \in Threads \ {t} : pc'[u] = pc[u] /\ cur'[u] = cur[u]
          /\ pc'[t] \in {"alloc_start", "free_start"}
      BY <1>t, <1>1, <1>3 DEF TypeOK
    <2>2. pc'[t] \notin Homeless
      BY <2>1 DEF Homeless
    <2> QED BY <1>1, <2>1, <2>2, HomeKeep
  <1> QED BY <1>2, <1>3

\* A chunk of malloc's comes without a set.
LEMMA HomeAllocStep ==
    ASSUME TypeInv, OwnInv, HomeInv, open, NEW t \in Threads, AllocStep(t)
    PROVE  HomeInv'
  <1>t. TypeOK
    BY DEF TypeInv
  <1>1. CASE \E c \in Chunks : AllocCreate(t, c)
    <2>1. PICK c \in Chunks : AllocCreate(t, c)
      BY <1>1
    <2>2. /\ set_pos' = [set_pos EXCEPT ![c] = OUTSET]
          /\ cur' = [cur EXCEPT ![t] = c] /\ pc' = [pc EXCEPT ![t] = "alloc_account"]
      BY <2>1 DEF AllocCreate, Goto
    <2>3. /\ set_pos'[c] = OUTSET /\ \A d : set_pos[d] = OUTSET /\ d \in Chunks => set_pos'[d] = OUTSET
          /\ cur'[t] = c
          /\ \A u \in Threads \ {t} : pc'[u] = pc[u] /\ cur'[u] = cur[u]
      BY <1>t, <2>2 DEF TypeOK
    <2>4. \A u \in Threads : pc[u] \in Homeless => cur[u] \in Chunks
      BY CarriedIs
    <2> QED BY <2>3, <2>4, HomeKeep
  <1>2. CASE ~\E c \in Chunks : AllocCreate(t, c)
    <2>1. /\ set_pos' = set_pos
          /\ \E l \in Labels \ Homeless : pc' = [pc EXCEPT ![t] = l]
          /\ cur' = cur \/ \E c : cur' = [cur EXCEPT ![t] = c]
      BY <1>2 DEF AllocStep, AllocRefused, AllocStart, AllocLock, AllocPeek, AllocPop, AllocUnlock,
         AllocCreateFails, AllocAccount, AllocFails, AllocSucceeds, Goto, callVars, Homeless, Labels
    <2>2. /\ \A u \in Threads \ {t} : pc'[u] = pc[u] /\ cur'[u] = cur[u]
          /\ pc'[t] \notin Homeless
      BY <1>t, <2>1 DEF TypeOK
    <2> QED BY <2>1, <2>2, HomeKeep
  <1> QED BY <1>1, <1>2

\* A chunk leaves the homeless when it is adopted, before others see it.
LEMMA HomeFreeStep ==
    ASSUME TypeInv, OwnInv, FitInv, HomeInv, open, NEW t \in Threads, FreeStep(t)
    PROVE  HomeInv'
  <1>t. TypeOK /\ Control(t)
    BY DEF TypeInv
  <1>1. CASE FreeStart(t)
    <2>1. /\ pc[t] = "free_start" /\ set_pos' = set_pos /\ cur' = cur
          /\ \/ size[cur[t]] > MEDIUM_MAX_SIZE
             \/ set_pos[cur[t]] > OUTSET /\ pc' = [pc EXCEPT ![t] = "free_lock"]
             \/ set_pos[cur[t]] = OUTSET
          /\ \E l \in Labels : pc' = [pc EXCEPT ![t] = l]
      BY <1>1 DEF FreeStart, Goto, Labels
    <2>2. cur[t] \in Chunks
      BY <2>1, CarriedIs
    <2>3. \A u \in Threads \ {t} : pc'[u] = pc[u]
      BY <1>t, <2>1 DEF TypeOK
    <2>4. ASSUME pc'[t] \in Homeless PROVE set_pos[cur[t]] = OUTSET
      <3>1. CASE size[cur[t]] > MEDIUM_MAX_SIZE
        <4> SUFFICES ASSUME set_pos[cur[t]] \in UsedSets PROVE FALSE
          BY <1>t, <2>2 DEF TypeOK
        <4>1. size[cur[t]] = ChunkSize(set_pos[cur[t]])
          BY <2>2 DEF FitInv
        <4>2. size[cur[t]] \in Nat /\ size[cur[t]] <= MEDIUM_MAX_SIZE
          BY <4>1, ClassFacts
        <4>3. MEDIUM_MAX_SIZE \in Nat
          BY DEF MEDIUM_MAX_SIZE
        <4> QED BY <3>1, <4>2, <4>3
      <3>2. CASE set_pos[cur[t]] > OUTSET /\ pc' = [pc EXCEPT ![t] = "free_lock"]
        BY <1>t, <2>4, <3>2 DEF TypeOK, Homeless
      <3> QED BY <2>1, <3>1, <3>2
    <2> QED BY <2>1, <2>3, <2>4, HomeKeep
  <1>2. CASE FreeAdopt(t)
    <2>1. /\ pc[t] = "free_adopt" /\ set_pos' = [set_pos EXCEPT ![cur[t]] = pos[t]]
          /\ cur' = cur /\ pc' = [pc EXCEPT ![t] = "free_lock"]
      BY <1>2 DEF FreeAdopt, Goto, callVars
    <2>2. \A u \in Threads : pc[u] \in Carries /\ cur[u] = cur[t] => u = t
      BY <2>1, CarriedIs DEF Homeless
    <2>3. \A u \in Threads \ {t} : pc[u] \in Homeless => cur[u] # cur[t] /\ cur[u] \in Chunks
      <3>1. \A u \in Threads : pc[u] \in Homeless => pc[u] \in Carries
        BY DEF Homeless, Carries
      <3> QED BY <2>2, <3>1, CarriedIs
    <2>4. pc'[t] \notin Homeless /\ \A u \in Threads \ {t} : pc'[u] = pc[u]
      BY <1>t, <2>1 DEF TypeOK, Homeless
    <2>5. \A d \in Chunks : d # cur[t] => set_pos'[d] = set_pos[d]
      BY <1>t, <2>1 DEF TypeOK
    <2> QED BY <2>1, <2>3, <2>4, <2>5, HomeKeep
  <1>3. CASE FreeAccount(t)
    <2>1. /\ pc[t] = "free_account" /\ set_pos' = set_pos
          /\ cur' = cur /\ pc' = [pc EXCEPT ![t] = "free_destroy"]
      BY <1>3 DEF FreeAccount, Goto
    <2>2. set_pos[cur[t]] = OUTSET
      BY <2>1 DEF HomeInv, Homeless
    <2>3. \A u \in Threads \ {t} : pc'[u] = pc[u]
      BY <1>t, <2>1 DEF TypeOK
    <2> QED BY <2>1, <2>2, <2>3, HomeKeep
  <1>4. CASE \/ FreeLock(t) \/ FreeLink(t) \/ FreeTail(t) \/ FreeUnlock(t) \/ FreeDestroy(t)
    <2>1. /\ set_pos' = set_pos
          /\ \E l \in Labels \ Homeless : pc' = [pc EXCEPT ![t] = l]
          /\ cur' = cur \/ \E c : cur' = [cur EXCEPT ![t] = c]
      BY <1>4 DEF FreeLock, FreeLink, FreeTail, FreeUnlock, FreeDestroy, FreeReturns, Goto,
         callVars, Homeless, Labels
    <2>2. /\ \A u \in Threads \ {t} : pc'[u] = pc[u] /\ cur'[u] = cur[u]
          /\ pc'[t] \notin Homeless
      BY <1>t, <2>1 DEF TypeOK
    <2> QED BY <2>1, <2>2, HomeKeep
  <1> QED BY <1>1, <1>2, <1>3, <1>4 DEF FreeStep

\* No step leaves HomeInv.
LEMMA HomeNext ==
    ASSUME TypeInv, OwnInv, FitInv, HomeInv, [Next]_vars
    PROVE  HomeInv'
  <1>1. CASE \E t \in Threads : Call(t) \/ AllocStep(t) \/ FreeStep(t)
    <2>1. PICK t \in Threads : Call(t) \/ AllocStep(t) \/ FreeStep(t)
      BY <1>1
    <2>2. open
      BY <2>1, StepOpen DEF OwnInv
    <2> QED BY <2>1, <2>2, HomeCall, HomeAllocStep, HomeFreeStep
  <1>2. CASE Destroy \/ UNCHANGED vars
    <2>1. UNCHANGED <<set_pos, pc, cur>>
      BY <1>2 DEF Destroy, vars
    <2> QED BY <2>1 DEF HomeInv
  <1> QED BY <1>1, <1>2 DEF Next, Destroyed

-----------------------------------------------------------------------------
(* The counters, step by step *)

\* A step that leaves the counters and what they count alone.
LEMMA CountStill ==
    ASSUME TypeInv, CountInv, open, open' = open, NEW t \in Threads,
           UNCHANGED <<live, size, set_pos, used_size, chunk_count>>,
           ~Waits(t), NEW l, l \notin {"alloc_account", "free_destroy"},
           pc' = [pc EXCEPT ![t] = l] \/ pc' = pc,
           cur' = cur \/ \E c : cur' = [cur EXCEPT ![t] = c]
    PROVE  CountInv'
  <1>1. /\ \A u \in Threads \ {t} : pc'[u] = pc[u] /\ cur'[u] = cur[u]
        /\ ~Waits(t)'
    BY DEF TypeInv, TypeOK, Waits
  <1>2. Uncounted' = Uncounted
    BY <1>1, UncountedSame
  <1> QED BY <1>2, CountQuiet

\* No step leaves CountInv.
LEMMA CountNext ==
    ASSUME TypeInv, OwnInv, HomeInv, CountInv, [Next]_vars
    PROVE  CountInv'
  <1> DEFINE Plain == Labels \ {"alloc_account", "free_destroy"}
  <1>1. ASSUME NEW t \in Threads, Call(t) PROVE CountInv'
    <2>1. open /\ open' = open
      BY <1>1, StepOpen DEF OwnInv
    <2>2. /\ UNCHANGED <<live, size, set_pos, used_size, chunk_count>>
          /\ ~Waits(t)
          /\ \E l \in Plain : pc' = [pc EXCEPT ![t] = l] \/ pc' = pc
          /\ cur' = cur \/ \E c : cur' = [cur EXCEPT ![t] = c]
      BY <1>1 DEF Call, AllocCall, FreeCall, ReallocInPlace, ReallocMove, Goto, setVars, Waits, Labels
    <2> QED BY <2>1, <2>2, CountStill
  <1>2. ASSUME NEW t \in Threads, AllocStep(t) PROVE CountInv'
    <2>1. open /\ open' = open
      BY <1>2, StepOpen DEF OwnInv
    <2>2. CASE (\E c \in Chunks : AllocCreate(t, c)) \/ AllocAccount(t)
      BY <2>1, <2>2, CountAllocCreate, CountAllocAccount
    <2>3. CASE \/ AllocRefused(t) \/ AllocStart(t) \/ AllocLock(t) \/ AllocPeek(t)
               \/ AllocPop(t) \/ AllocUnlock(t) \/ AllocCreateFails(t)
      <3>1. /\ UNCHANGED <<live, size, set_pos, used_size, chunk_count>>
            /\ ~Waits(t)
            /\ \E l \in Plain : pc' = [pc EXCEPT ![t] = l] \/ pc' = pc
            /\ cur' = cur \/ \E c : cur' = [cur EXCEPT ![t] = c]
        BY <2>3 DEF AllocRefused, AllocStart, AllocLock, AllocPeek, AllocPop, AllocUnlock,
           AllocCreateFails, AllocFails, AllocSucceeds, Goto, setVars, listVars, callVars, Waits, Labels
      <3> QED BY <2>1, <3>1, CountStill
    <2> QED BY <1>2, <2>2, <2>3 DEF AllocStep
  <1>3. ASSUME NEW t \in Threads, FreeStep(t) PROVE CountInv'
    <2>1. open /\ open' = open
      BY <1>3, StepOpen DEF OwnInv
    <2>2. CASE FreeAdopt(t) \/ FreeAccount(t) \/ FreeDestroy(t)
      BY <2>1, <2>2, CountFreeAdopt, CountFreeAccount, CountFreeDestroy
    <2>3. CASE \/ FreeStart(t) \/ FreeLock(t) \/ FreeLink(t) \/ FreeTail(t) \/ FreeUnlock(t)
      <3>1. /\ UNCHANGED <<live, size, set_pos, used_size, chunk_count>>
            /\ ~Waits(t)
            /\ \E l \in Plain : pc' = [pc EXCEPT ![t] = l] \/ pc' = pc
            /\ cur' = cur \/ \E c : cur' = [cur EXCEPT ![t] = c]
        BY <2>3 DEF FreeStart, FreeLock, FreeLink, FreeTail, FreeUnlock, FreeReturns,
           Goto, setVars, listVars, callVars, Waits, Labels
      <3> QED BY <2>1, <3>1, CountStill
    <2> QED BY <1>3, <2>2, <2>3 DEF FreeStep
  <1>4. CASE Destroy
    BY <1>4 DEF Destroy, CountInv
  <1>5. CASE UNCHANGED vars
    <2>1. /\ UNCHANGED <<live, size, set_pos, used_size, chunk_count, pc, cur, open>>
      BY <1>5 DEF vars, setVars
    <2>2. Uncounted' = Uncounted
      BY <2>1 DEF Uncounted, Waits
    <2> QED BY <2>1, <2>2, CountQuiet DEF CountInv
  <1> QED BY <1>1, <1>2, <1>3, <1>4, <1>5 DEF Next, Destroyed

-----------------------------------------------------------------------------
(* What mem_pool_create counts *)

\* The chunks mem_pool_create makes for the sets of A.
Made(A) == UNION {Range(InitList[s]) : s \in A}

\* used_size after mem_pool_create, set by set, is the sizes of the chunks.
LEMMA MadeSum ==
    ASSUME NEW w, \A s \in UsedSets : \A c \in Range(InitList[s]) : w[c] = ChunkSize(s)
    PROVE  InitUsed = IdleSize + SumOf(w, Made(UsedSets))
  <1>0. IsFiniteSet(UsedSets)
    <2>1. UsedSets \subseteq 0 .. 126
      BY SetFacts
    <2>2. 0 \in Int /\ 126 \in Int
      OBVIOUS
    <2>3. IsFiniteSet(0 .. 126)
      BY <2>2, FS_Interval, Zenon
    <2> QED BY <2>1, <2>3, FS_Subset
  <1> DEFINE c(S) == CHOOSE x \in S : TRUE
             Eq(h) == h = [S \in SUBSET UsedSets |->
                             IF S = {} THEN 0
                             ELSE ChunkSize(c(S)) * Len(InitList[c(S)]) + h[S \ {c(S)}]]
             f == CHOOSE h : Eq(h)
             f0 == [S \in SUBSET UsedSets |-> SumOf(w, Made(S))]
  <1>1. InitUsed = IdleSize + f[UsedSets]
    BY DEF InitUsed, MapThenSumSet, MapThenFoldSet
  <1>m. ASSUME NEW S \in SUBSET UsedSets
        PROVE  IsFiniteSet(Made(S)) /\ \A n \in Made(S) : w[n] \in Nat
    <2>1. \A s \in UsedSets : Range(InitList[s]) \subseteq Chunks
      BY InitListFacts
    <2>2. Made(S) \subseteq Chunks
      BY <2>1 DEF Made
    <2>3. IsFiniteSet(Made(S))
      BY <2>2, PoolAssumption, FS_Subset
    <2>4. ASSUME NEW n \in Made(S) PROVE w[n] \in Nat
      <3>1. PICK s \in UsedSets : n \in Range(InitList[s])
        BY DEF Made
      <3> QED BY <3>1, ClassFacts
    <2> QED BY <2>3, <2>4
  <1>2. ASSUME NEW S \in SUBSET UsedSets, S # {}
        PROVE  /\ c(S) \in S /\ S \ {c(S)} \in SUBSET UsedSets
               /\ SumOf(w, Made(S)) = ChunkSize(c(S)) * Len(InitList[c(S)])
                                        + SumOf(w, Made(S \ {c(S)}))
    <2>1. c(S) \in S
      BY <1>2
    <2> HIDE DEF c
    <2> DEFINE x == c(S)
               R == Range(InitList[x])
               T == Made(S \ {x})
    <2>2. x \in UsedSets /\ S \ {x} \in SUBSET UsedSets
      BY <2>1
    <2>3. /\ InitList[x] \in Seq(Chunks) /\ IsInjective(InitList[x])
          /\ \A s \in UsedSets : x # s => R \cap Range(InitList[s]) = {}
      BY <2>2, InitListFacts
    <2>4. IsFiniteSet(R) /\ Cardinality(R) = Len(InitList[x]) /\ Len(InitList[x]) \in Nat
      BY <2>3, ListLength
    <2>5. Made(S) = T \cup R
      BY <2>1 DEF Made
    <2>6. T \cap R = {}
      BY <2>2, <2>3 DEF Made
    <2>7. IsFiniteSet(T) /\ \A n \in T : w[n] \in Nat
      BY <1>m, <2>2
    <2>8. ChunkSize(x) \in Nat /\ \A n \in R : w[n] = ChunkSize(x)
      BY <2>2, ClassFacts
    <2> HIDE DEF x, R, T
    <2>9. SumOf(w, T \cup R) = SumOf(w, T) + ChunkSize(x) * Cardinality(R)
      BY <2>4, <2>6, <2>7, <2>8, SumConstant
    <2>10. SumOf(w, T) \in Nat
      BY <2>7, SumType
    <2>11. ChunkSize(x) * Len(InitList[x]) \in Nat
      BY <2>4, <2>8
    <2>12. SumOf(w, T) + ChunkSize(x) * Len(InitList[x]) = ChunkSize(x) * Len(InitList[x]) + SumOf(w, T)
      BY <2>10, <2>11
    <2>13. SumOf(w, Made(S)) = ChunkSize(x) * Len(InitList[x]) + SumOf(w, T)
      BY <2>4, <2>5, <2>9, <2>12
    <2> QED BY <2>1, <2>2, <2>13 DEF x, T
  <1>3. Eq(f0)
    <2>0. Made({}) = {}
      BY DEF Made
    <2>1. ASSUME NEW S \in SUBSET UsedSets
          PROVE  f0[S] = IF S = {} THEN 0
                         ELSE ChunkSize(c(S)) * Len(InitList[c(S)]) + f0[S \ {c(S)}]
      <3>1. CASE S = {}
        BY <2>0, <3>1, SumEmpty
      <3>2. CASE S # {}
        <4> HIDE DEF c
        <4> QED BY <1>2, <3>2
      <3> QED BY <3>1, <3>2
    <2>2. f0 = [S \in SUBSET UsedSets |-> f0[S]]
      OBVIOUS
    <2> HIDE DEF f0, c
    <2> QED BY <2>1, <2>2, Zenon
  <1>4. Eq(f)
    <2> HIDE DEF f0, c
    <2> QED BY <1>3
  <1>5. ASSUME NEW S \in SUBSET UsedSets
        PROVE  f[S] = IF S = {} THEN 0
                      ELSE ChunkSize(c(S)) * Len(InitList[c(S)]) + f[S \ {c(S)}]
    <2> HIDE DEF f, c
    <2> QED BY <1>4
  <1> HIDE DEF f, c
  <1>6. {S \in SUBSET UsedSets : f[S] # SumOf(w, Made(S))} = {}
    <2> DEFINE Bad == {S \in SUBSET UsedSets : f[S] # SumOf(w, Made(S))}
    <2> SUFFICES ASSUME Bad # {} PROVE FALSE
      OBVIOUS
    <2>1. Bad \subseteq FiniteSubsetsOf(UsedSets)
      <3>1. \A S \in SUBSET UsedSets : IsFiniteSet(S)
        BY <1>0, FS_Subset
      <3> QED BY <3>1 DEF FiniteSubsetsOf
    <2>2. PICK S \in Bad : \A T \in Bad : ~(<<T, S>> \in StrictSubsetOrdering(UsedSets))
      <3> HIDE DEF Bad
      <3> QED BY <1>0, <2>1, FS_StrictSubsetOrderingWellFounded, WFMin
    <2>3. CASE S = {}
      <3>1. Made({}) = {}
        BY DEF Made
      <3> QED BY <1>5, <2>3, <3>1, SumEmpty
    <2>4. CASE S # {}
      <3> DEFINE T == S \ {c(S)}
      <3>1. c(S) \in S /\ T \in SUBSET UsedSets /\ T # S
        BY <1>2, <2>4
      <3>2. <<T, S>> \in StrictSubsetOrdering(UsedSets)
        BY <3>1 DEF StrictSubsetOrdering
      <3>3. f[T] = SumOf(w, Made(T))
        BY <2>2, <3>1, <3>2
      <3> QED BY <1>2, <1>5, <2>4, <3>3
    <2> QED BY <2>3, <2>4
  <1>7. f[UsedSets] = SumOf(w, Made(UsedSets))
    BY <1>6
  <1> QED BY <1>1, <1>7

\* Both hold of the pool mem_pool_create returns.
LEMMA CountInit == Init => HomeInv /\ CountInv
  <1> SUFFICES ASSUME Init PROVE HomeInv /\ CountInv
    OBVIOUS
  <1>1. /\ live = InitChunks /\ used_size = InitUsed
        /\ size = [c \in Chunks |-> IF c \in InitChunks THEN ChunkSize(HomeSet(c)) ELSE 0]
        /\ set_pos = [c \in Chunks |-> IF c \in InitChunks THEN HomeSet(c) ELSE OUTSET]
        /\ chunk_count = [s \in UsedSets |-> Len(InitList[s])]
        /\ \A t \in Threads : pc[t] = "idle"
    BY DEF Init
  <1>2. HomeInv
    BY <1>1 DEF HomeInv, Homeless
  <1>3. Counted = InitChunks
    BY <1>1 DEF Counted, Uncounted, Waits
  <1>4. ASSUME NEW s \in UsedSets, NEW c \in Range(InitList[s])
        PROVE  c \in InitChunks /\ c \in Chunks /\ size[c] = ChunkSize(s) /\ set_pos[c] = s
    <2>1. c \in InitChunks
      BY <1>4 DEF InitChunks
    <2> QED BY <1>1, <1>4, <2>1, HomeFacts
  <1>5. InitUsed = IdleSize + SumOf(size, InitChunks)
    <2>1. Made(UsedSets) = InitChunks
      BY DEF Made, InitChunks
    <2> QED BY <1>4, <2>1, MadeSum
  <1>6. ASSUME NEW s \in UsedSets PROVE chunk_count[s] = Cardinality(Members(s))
    <2>1. Members(s) = Range(InitList[s])
      <3>1. ASSUME NEW c \in Members(s) PROVE c \in Range(InitList[s])
        <4>1. c \in InitChunks /\ set_pos[c] = s
          BY <1>1, <3>1 DEF Members
        <4> QED BY <1>1, <4>1, HomeFacts
      <3>2. ASSUME NEW c \in Range(InitList[s]) PROVE c \in Members(s)
        BY <1>1, <1>4, <3>2 DEF Members
      <3> QED BY <3>1, <3>2
    <2>2. InitList[s] \in Seq(Chunks) /\ IsInjective(InitList[s])
      BY InitListFacts
    <2>3. Cardinality(Range(InitList[s])) = Len(InitList[s])
      BY <2>2, ListLength
    <2> QED BY <1>1, <2>1, <2>3
  <1>7. CountInv
    BY <1>1, <1>3, <1>5, <1>6 DEF CountInv
  <1> QED BY <1>2, <1>7

\* And for good.
LEMMA CountHolds == Spec => [](HomeInv /\ CountInv)
  <1>1. TypeInv /\ OwnInv /\ FitInv /\ HomeInv /\ [Next]_vars => HomeInv'
    BY HomeNext
  <1>2. TypeInv /\ OwnInv /\ HomeInv /\ CountInv /\ [Next]_vars => CountInv'
    BY CountNext
  <1> QED BY <1>1, <1>2, CountInit, FitHolds, Ownership, PTL DEF Spec

\* The atomic counters are the memory there is, but for the blocks between malloc or
\* free and the operation next to it, and max_size is outgrown by less than a block
\* per thread.
THEOREM AccountingHolds == Spec => []Accounting
  <1>1. CountInv => CountersExact
    <2> SUFFICES ASSUME CountInv PROVE CountersExact
      OBVIOUS
    <2>1. Uncounted = {cur[t] : t \in {u \in Threads : pc[u] \in {"alloc_account", "free_destroy"}}}
      BY DEF Uncounted, Waits
    <2>2. SumOf(size, Counted) = MapThenSumSet(LAMBDA c : size[c], live \ Uncounted)
      BY DEF SumOf, Counted
    <2> QED BY <2>1, <2>2 DEF CountInv, CountersExact, Members
  <1>2. CountersExact /\ Overshoot => Accounting
    BY DEF Accounting
  <1> QED BY <1>1, <1>2, CountHolds, OvershootBound, PTL
=============================================================================
