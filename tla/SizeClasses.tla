---------------------------- MODULE SizeClasses ----------------------------
(***************************************************************************)
(* The size classes of the memory pool (mem_pool.h, mem_pool.c): which of  *)
(* the SETSIZE sets serves a request, and how large the chunks of a set    *)
(* are.  All sizes are bytes.  The pool keeps 64 tiny sets (16, 32, ...,   *)
(* 1024) and 63 medium sets (2048, 3072, ..., 65536).  Requests above      *)
(* MEDIUM_MAX_SIZE have no set.                                            *)
(*                                                                         *)
(* The C code works on uint32_t.  The operators below are exact as long as *)
(* size + b does not wrap, which every size in the models satisfies.       *)
(***************************************************************************)
EXTENDS Integers

TINY_MIN_SIZE   == 16
TINY_MAX_SIZE   == 1024
TINY_STEP       == 16
MEDIUM_MIN_SIZE == 2048
MEDIUM_MAX_SIZE == 65536
MEDIUM_STEP     == 1024
SETSIZE         == 127
ALIGN_SIZE      == 16
SET_BOUNDARY    == 64
OUTSET          == -1

\* Positions of set_table.
SetIndex == 0 .. (SETSIZE - 1)

\* The request sizes that mem_pool_alloc serves from a set: it refuses 0 and
\* takes larger ones from malloc.
Pooled(size) == size > 0 /\ size <= MEDIUM_MAX_SIZE

\* (size + (b - 1)) & ~(b - 1): b is a power of two, so the mask rounds down
\* to a multiple of b.
mem_align_size(size, b) == ((size + (b - 1)) \div b) * b

\* Mutant: the medium classes start one step too low.
ChunkSize_LowMedium(i) ==
    IF i < SET_BOUNDARY
    THEN TINY_MIN_SIZE + i * TINY_STEP
    ELSE MEDIUM_MIN_SIZE + (i - SET_BOUNDARY - 1) * MEDIUM_STEP

\* chunk_size of set_table[i]: the running value of the two loops of
\* mem_pool_create.
ChunkSize(i) ==
    IF i < SET_BOUNDARY
    THEN TINY_MIN_SIZE + i * TINY_STEP
    ELSE MEDIUM_MIN_SIZE + (i - SET_BOUNDARY) * MEDIUM_STEP

\* Mutant: the alignment of the medium half is forgotten.
mem_pool_get_set_by_size_NoAlign(size) ==
    IF size <= TINY_MAX_SIZE
    THEN (mem_align_size(size, TINY_MIN_SIZE) \div 16) - 1
    ELSE (size \div 1024) + 62

\* Set of a request.  >> 4 and >> 10 are divisions by 16 and 1024.
mem_pool_get_set_by_size(size) ==
    IF size <= TINY_MAX_SIZE
    THEN (mem_align_size(size, TINY_MIN_SIZE) \div 16) - 1
    ELSE (mem_align_size(size, TINY_MAX_SIZE) \div 1024) + 62

\* Set of a chunk whose size already is the size of a class.
mem_pool_get_set_by_align_size(align_size) ==
    IF align_size <= TINY_MAX_SIZE
    THEN (align_size \div 16) - 1
    ELSE (align_size \div 1024) + 62
=============================================================================
