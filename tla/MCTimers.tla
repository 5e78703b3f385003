------------------------------ MODULE MCTimers ------------------------------
(***************************************************************************)
(* Instances of Timers: seconds of two milliseconds, so that a deadline  *)
(* may lie in the next second, be reached by a carry, or be recurred to.   *)
(***************************************************************************)
EXTENDS Timers, TLC

MCDelays == {1, 2, 3}

\* Addresses are interchangeable, and the properties are invariants.
MCSymmetry == Permutations(Timers)
=============================================================================
