-------------------------- MODULE SetSearchProofs --------------------------
(***************************************************************************)
(* Proofs about the size classes and the binary search over them, for      *)
(* every set of request sizes.                                             *)
(*                                                                         *)
(* The argument is the usual one for a binary search: the set the closed   *)
(* form names stays within i .. j (Located), and the span i .. j at least  *)
(* halves with every probe (Halved).                                       *)
(***************************************************************************)
EXTENDS SetSearch, TLAPS

\* Set p is of the half of the table that serves size n, and n lies between
\* the chunk size of p and that of its neighbour below.
InClass(n, p) ==
    \/ n <= 1024 /\ p \in 0 .. 63 /\ n <= 16 + p * 16 /\ n > p * 16
    \/ /\ n > 1024 /\ p \in 64 .. 126
       /\ n <= 2048 + (p - 64) * 1024
       /\ n > 1024 + (p - 64) * 1024

\* What mem_pool_get_set_by_size returns for a request the pool has a set
\* for: an index of the half of the table the request belongs to, whose
\* class is the one interval of the half that holds the size.
LEMMA SetOfSize ==
    ASSUME NEW n \in Nat, Pooled(n)
    PROVE  InClass(n, mem_pool_get_set_by_size(n))
  <1> DEFINE p == mem_pool_get_set_by_size(n)
  <1> USE DEF Pooled, TINY_MAX_SIZE, MEDIUM_MAX_SIZE
  <1>1. CASE n <= TINY_MAX_SIZE
    <2>1. p = ((n + 15) \div 16) - 1
      BY <1>1 DEF mem_pool_get_set_by_size, mem_align_size, TINY_MIN_SIZE
    <2>2. p \in 0 .. 63 /\ n <= 16 + p * 16 /\ n > p * 16
      BY <1>1, <2>1
    <2> QED BY <1>1, <2>2 DEF InClass
  <1>2. CASE n > TINY_MAX_SIZE
    <2>1. p = ((n + 1023) \div 1024) + 62
      BY <1>2 DEF mem_pool_get_set_by_size, mem_align_size
    <2>2. /\ p \in 64 .. 126
          /\ n <= 2048 + (p - 64) * 1024
          /\ n > 1024 + (p - 64) * 1024
      BY <1>2, <2>1
    <2> QED BY <1>2, <2>2 DEF InClass
  <1> QED BY <1>1, <1>2

\* The chunk sizes grow with the index.
LEMMA ChunkSizeMonotone ==
    ASSUME NEW a \in SetIndex, NEW b \in SetIndex, a < b
    PROVE  ChunkSize(a) < ChunkSize(b)
  BY DEF ChunkSize, SetIndex, SETSIZE, SET_BOUNDARY, TINY_MIN_SIZE, TINY_STEP,
         MEDIUM_MIN_SIZE, MEDIUM_STEP

\* The set mem_pool_free files a chunk of a class into is the set of that
\* class (lines 310-311): a chunk never migrates to another size class.
THEOREM ChunkReturnsToItsSet ==
    \A k \in SetIndex : mem_pool_get_set_by_align_size(ChunkSize(k)) = k
  BY DEF mem_pool_get_set_by_align_size, ChunkSize, SetIndex, SETSIZE,
         SET_BOUNDARY, TINY_MIN_SIZE, TINY_STEP, TINY_MAX_SIZE,
         MEDIUM_MIN_SIZE, MEDIUM_STEP

-----------------------------------------------------------------------------
Low  == IF size <= TINY_MAX_SIZE THEN 0 ELSE SET_BOUNDARY
High == IF size <= TINY_MAX_SIZE THEN SET_BOUNDARY - 1 ELSE SETSIZE - 1

\* While the loop runs, i .. j lies in the half of the table the size belongs
\* to, and it still holds the set the closed form names.
Located ==
    pc = "loop"
        => /\ size <= MEDIUM_MAX_SIZE
           /\ i \in Low .. (High + 1)
           /\ j \in (Low - 1) .. High
           /\ size # 0 => mem_pool_get_set_by_size(size) \in i .. j

\* The span left after each number of probes.
Halved ==
    /\ pc = "start" => probes = 0
    /\ pc = "loop"  => /\ probes = 0 => j - i + 1 <= 64
                       /\ probes = 1 => j - i + 1 <= 32
                       /\ probes = 2 => j - i + 1 <= 16
                       /\ probes = 3 => j - i + 1 <= 8
                       /\ probes = 4 => j - i + 1 <= 4
                       /\ probes = 5 => j - i + 1 <= 2
                       /\ probes = 6 => j - i + 1 <= 1
                       /\ probes = 7 => j - i + 1 <= 0

\* The inductive invariant.
SearchInv == TypeOK /\ Located /\ Halved /\ SevenProbes /\ SearchAgrees

\* The test of an iteration: size n belongs to the set at mid.
Hit(n, mid) ==
    /\ n <= ChunkSize(mid)
    /\ n > ChunkSize(mid) - (IF n <= TINY_MAX_SIZE THEN TINY_STEP
                                                 ELSE MEDIUM_STEP)

\* One probe keeps the set looked for in the span: the heart of the search.
LEMMA ProbeNarrows ==
    ASSUME NEW n \in Nat, Pooled(n), NEW mid \in SetIndex,
           n <= TINY_MAX_SIZE <=> mid < SET_BOUNDARY
    PROVE  /\ Hit(n, mid) => mem_pool_get_set_by_size(n) = mid
           /\ ~Hit(n, mid) /\ ChunkSize(mid) > n
                => mem_pool_get_set_by_size(n) < mid
           /\ ~Hit(n, mid) /\ ChunkSize(mid) <= n
                => mem_pool_get_set_by_size(n) > mid
  <1>1. InClass(n, mem_pool_get_set_by_size(n))
    BY SetOfSize
  <1>2. mem_pool_get_set_by_size(n) \in Nat /\ mid \in 0 .. 126
    BY <1>1 DEF InClass, SetIndex, SETSIZE
  <1>3. CASE n <= TINY_MAX_SIZE
    BY <1>1, <1>2, <1>3 DEF InClass, Hit, ChunkSize, SET_BOUNDARY,
         TINY_MIN_SIZE, TINY_STEP, TINY_MAX_SIZE
  <1>4. CASE n > TINY_MAX_SIZE
    BY <1>1, <1>2, <1>4 DEF InClass, Hit, ChunkSize, SET_BOUNDARY,
         MEDIUM_MIN_SIZE, MEDIUM_STEP, TINY_MAX_SIZE
  <1> QED BY <1>3, <1>4 DEF TINY_MAX_SIZE

LEMMA SearchInductive == Spec => []SearchInv
  <1> USE SizesAssumption
  <1>1. Init => SearchInv
    BY DEF Init, SearchInv, TypeOK, Located, Halved, SevenProbes, SearchAgrees,
           SETSIZE, SetIndex, OUTSET
  <1>2. SearchInv /\ [Next]_vars => SearchInv'
    <2> SUFFICES ASSUME SearchInv, [Next]_vars
                 PROVE  SearchInv'
      OBVIOUS
    <2> USE DEF SearchInv
    <2>0. size \in Nat
      BY DEF TypeOK
    <2>1. CASE TooLarge
      BY <2>0, <2>1 DEF TooLarge, TypeOK, Located, Halved, SevenProbes,
                  SearchAgrees, Pooled, MEDIUM_MAX_SIZE
    <2>2. CASE Bounds
      <3>1. size # 0 => mem_pool_get_set_by_size(size) \in Low .. High
        <4> SUFFICES ASSUME size # 0
                     PROVE  mem_pool_get_set_by_size(size) \in Low .. High
          OBVIOUS
        <4>1. InClass(size, mem_pool_get_set_by_size(size))
          BY <2>0, <2>2, SetOfSize DEF Bounds, Pooled
        <4> QED
          BY <2>0, <4>1 DEF InClass, Low, High, SETSIZE, SET_BOUNDARY,
               TINY_MAX_SIZE
      <3>2. i' = Low /\ j' = High /\ Low' = Low /\ High' = High
        BY <2>2 DEF Bounds, Low, High
      <3>3. TypeOK' /\ Located'
        BY <2>0, <2>2, <3>1, <3>2 DEF Bounds, TypeOK, Located, Low, High,
             SETSIZE, SET_BOUNDARY
      <3>4. Halved' /\ SevenProbes' /\ SearchAgrees'
        BY <2>2, <3>2 DEF Bounds, Halved, SevenProbes, SearchAgrees, TypeOK,
             Low, High, SETSIZE, SET_BOUNDARY
      <3> QED BY <3>3, <3>4
    <2>3. CASE Probe
      <3> DEFINE mid == (i + j) \div 2
                 hit == Hit(size, mid)
      <3>1. /\ i \in Int /\ j \in Int /\ i <= j
            /\ mid \in i .. j
            /\ mid \in Low .. High
            /\ Low' = Low /\ High' = High
        BY <2>0, <2>3 DEF Probe, TypeOK, Located, Low, High, SETSIZE,
             SET_BOUNDARY
      <3>2. mid \in SetIndex /\ (size <= TINY_MAX_SIZE <=> mid < SET_BOUNDARY)
        BY <3>1 DEF Low, High, SetIndex, SETSIZE, SET_BOUNDARY
      <3>3. size # 0 =>
              /\ hit => mem_pool_get_set_by_size(size) = mid
              /\ ~hit /\ ChunkSize(mid) > size
                    => mem_pool_get_set_by_size(size) < mid
              /\ ~hit /\ ChunkSize(mid) <= size
                    => mem_pool_get_set_by_size(size) > mid
        <4> SUFFICES ASSUME size # 0
                     PROVE  /\ hit => mem_pool_get_set_by_size(size) = mid
                            /\ ~hit /\ ChunkSize(mid) > size
                                  => mem_pool_get_set_by_size(size) < mid
                            /\ ~hit /\ ChunkSize(mid) <= size
                                  => mem_pool_get_set_by_size(size) > mid
          OBVIOUS
        <4>1. Pooled(size)
          BY <2>0, <2>3 DEF Probe, Located, Pooled
        <4> HIDE DEF mid
        <4> QED BY <2>0, <4>1, <3>2, ProbeNarrows
      <3>4. /\ pc = "loop" /\ probes' = probes + 1 /\ size' = size
            /\ \/ hit /\ pc' = "done" /\ ret' = mid /\ i' = i /\ j' = j
               \/ ~hit /\ ChunkSize(mid) > size /\ j' = mid - 1
                    /\ pc' = pc /\ i' = i /\ ret' = ret
               \/ ~hit /\ ChunkSize(mid) <= size /\ i' = mid + 1
                    /\ pc' = pc /\ j' = j /\ ret' = ret
        BY <2>3 DEF Probe, Hit, Step
      <3>5. /\ pc' = "loop" => j' - i' + 1 <= (j - i + 1) \div 2
            /\ probes \in 0 .. 6
        BY <3>1, <3>4 DEF Halved, SevenProbes, TypeOK
      <3>6. Halved' /\ SevenProbes'
        BY <3>1, <3>4, <3>5 DEF Halved, SevenProbes, TypeOK
      <3>7. TypeOK'
        <4> HIDE DEF hit
        <4> QED
          BY <3>1, <3>2, <3>4, <3>5 DEF TypeOK, SetIndex, SETSIZE, OUTSET
      <3>8. SearchAgrees'
        <4> HIDE DEF mid
        <4> QED
          BY <2>0, <3>3, <3>4 DEF SearchAgrees, Pooled
      <3>9. Located'
        <4>1. CASE size = 0
          <5> HIDE DEF mid, hit
          <5> QED
            BY <4>1, <3>1, <3>4 DEF Located, Low, High, SETSIZE, SET_BOUNDARY,
               TINY_MAX_SIZE
        <4>2. CASE size # 0
          <5>1. mem_pool_get_set_by_size(size) \in i .. j
            BY <4>2, <3>4 DEF Located
          <5> HIDE DEF mid, hit
          <5>2. pc' = "loop" => mem_pool_get_set_by_size(size) \in i' .. j'
            BY <4>2, <5>1, <3>1, <3>3, <3>4 DEF SETSIZE
          <5>3. pc' = "loop" => i' \in Low .. (High + 1)
                                /\ j' \in (Low - 1) .. High
            BY <3>1, <3>4 DEF Located, Low, High, SETSIZE, SET_BOUNDARY
          <5> QED
            BY <5>2, <5>3, <3>1, <3>4 DEF Located
        <4> QED BY <4>1, <4>2
      <3> QED BY <3>6, <3>7, <3>8, <3>9
    <2>4. CASE Exhausted
      <3>1. size = 0
        BY <2>0, <2>4 DEF Exhausted, Located, TypeOK, SETSIZE
      <3>2. ret' \in SetIndex
        BY <2>0, <2>4, <3>1 DEF Exhausted, Located, TypeOK, Low, High, SetIndex,
             SETSIZE, SET_BOUNDARY, TINY_MAX_SIZE
      <3> QED
        BY <2>4, <3>1, <3>2 DEF Exhausted, TypeOK, Located, Halved,
             SevenProbes, SearchAgrees, Pooled
    <2>5. CASE UNCHANGED vars
      BY <2>5 DEF vars, TypeOK, Located, Halved, SevenProbes, SearchAgrees,
           Low, High
    <2> QED
      BY <2>1, <2>2, <2>3, <2>4, <2>5 DEF Next, Returned
  <1> QED
    BY <1>1, <1>2, PTL DEF Spec

\* The search returns the set the closed form of mem_pool.h names, so
\* replacing the one by the other in mem_pool_alloc changed nothing.
THEOREM SearchMatchesClosedForm == Spec => []SearchAgrees
  <1>1. SearchInv => SearchAgrees
    BY DEF SearchInv
  <1> QED BY <1>1, SearchInductive, PTL

\* No search reads more than seven entries of set_table.
THEOREM SearchBound == Spec => []SevenProbes
  <1>1. SearchInv => SevenProbes
    BY DEF SearchInv
  <1> QED BY <1>1, SearchInductive, PTL

\* The set the search returns is the smallest one that holds the request.
THEOREM SearchIsBestFit == Spec => []BestFit
  <1>1. SearchInv => BestFit
    <2> SUFFICES ASSUME SearchInv, pc = "done", Pooled(size)
                 PROVE  /\ ret \in SetIndex
                        /\ size <= ChunkSize(ret)
                        /\ \A k \in SetIndex : size <= ChunkSize(k) => ret <= k
      BY DEF BestFit
    <2>1. ret = mem_pool_get_set_by_size(size)
      BY DEF SearchInv, SearchAgrees
    <2>2. InClass(size, ret) /\ size \in Nat
      BY <2>1, SetOfSize, SizesAssumption DEF SearchInv, TypeOK
    <2>3. ret \in SetIndex /\ size <= ChunkSize(ret)
      BY <2>2 DEF InClass, SetIndex, ChunkSize, SETSIZE, SET_BOUNDARY,
           TINY_MIN_SIZE, TINY_STEP, MEDIUM_MIN_SIZE, MEDIUM_STEP
    <2>4. ASSUME NEW k \in SetIndex, size <= ChunkSize(k) PROVE ret <= k
      BY <2>2, <2>3, <2>4 DEF InClass, SetIndex, ChunkSize, SETSIZE,
           SET_BOUNDARY, TINY_MIN_SIZE, TINY_STEP, MEDIUM_MIN_SIZE, MEDIUM_STEP
    <2> QED BY <2>3, <2>4
  <1> QED BY <1>1, SearchInductive, PTL
=============================================================================
