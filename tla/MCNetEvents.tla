---------------------------- MODULE MCNetEvents ----------------------------
(***************************************************************************)
(* An instance of NetEvents: three descriptors in the table; 3 is epoll's  *)
(* own, 4 is beyond the table.  Two handlers: one descriptor may have the  *)
(* same one for both events, or one each.                                  *)
(***************************************************************************)
EXTENDS NetEvents, TLC

CONSTANT GARBAGE

MCFds == {0, 1, 2, 4}
MCLeftover == {GARBAGE}

\* The handlers are interchangeable, and the properties are invariants.
MCSymmetry == Permutations(Procs)
=============================================================================
