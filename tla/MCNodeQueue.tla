---------------------------- MODULE MCNodeQueue ----------------------------
(***************************************************************************)
(* Instances of NodeQueue with three threads: two consumers compete for    *)
(* head_lock while a producer links a node.  Two nodes besides the dummy   *)
(* can be in the queue, in a push, or in a consumer's hands.  length is    *)
(* counted modulo 1: nothing reads it.                                     *)
(***************************************************************************)
EXTENDS NodeQueue

MCBoth == {"queue", "list"}
MCList == {"list"}
=============================================================================
