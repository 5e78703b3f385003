----------------------------- MODULE MCMemPool -----------------------------
(***************************************************************************)
(* Instances of MemPool: two threads on the smallest and the largest set,  *)
(* with requests for either and for a block above them all.                *)
(***************************************************************************)
EXTENDS MemPool

CONSTANTS c1, c2, c3

MCUsedSets == {0, 126}
MCInitList == (0 :> <<c1>>) @@ (126 :> <<>>)

\* 65545 and 65550 round up to the same multiple of ALIGN_SIZE.
MCRequests      == {10, 65530, 65545}
MCLargeRequests == {65545, 65550}

\* One medium block may be out before the pool is full; with 16 bytes in the
\* lists and one medium block out, it is over FREE_BOUNDARY.
MCMaxSize  == 70000
MCMaxBlock == 65550
=============================================================================
