---------------------------- MODULE MCSetSearch ----------------------------
(***************************************************************************)
(* Instances of SetSearch.  The search is run for every size from 0 to two *)
(* past MEDIUM_MAX_SIZE, so each class is met at both of its ends.         *)
(***************************************************************************)
EXTENDS SetSearch

MCSizes == 0 .. (MEDIUM_MAX_SIZE + 2)
=============================================================================
