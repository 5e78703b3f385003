-------------------------------- MODULE Fifo --------------------------------
(***************************************************************************)
(* What queue.c and list.c promise their callers: a first-in first-out     *)
(* queue of nodes, shared by threads.  A call of dequeue takes the oldest  *)
(* node; it answers EMPTY only at a moment at which the queue is empty,    *)
(* and may answer BUSY, when it does not wait, at any moment.  C returns   *)
(* NULL for both; the model tells them apart to say when each may happen.  *)
(***************************************************************************)
EXTENDS Sequences, SequencesExt

CONSTANTS
    Threads,           \* the callers
    Nodes,             \* the nodes they put in and take out
    NONE, EMPTY, BUSY  \* no answer yet, and the two answers that are no node

VARIABLES
    items,  \* the queue, oldest node first
    ret     \* the answer of each thread's last dequeue

vars == <<items, ret>>

Init == items = <<>> /\ ret = [t \in Threads |-> NONE]

Answer(t, r) == ret[t] = NONE /\ ret' = [ret EXCEPT ![t] = r]

Push(n) == n \notin Range(items) /\ items' = Append(items, n) /\ UNCHANGED ret

Take(t) == items # <<>> /\ Answer(t, Head(items)) /\ items' = Tail(items)

Empty(t) == items = <<>> /\ Answer(t, EMPTY) /\ UNCHANGED items

Busy(t) == Answer(t, BUSY) /\ UNCHANGED items

Call(t) == ret' = [ret EXCEPT ![t] = NONE] /\ UNCHANGED items

Next ==
    \/ \E n \in Nodes : Push(n)
    \/ \E t \in Threads : Take(t) \/ Empty(t) \/ Busy(t) \/ Call(t)

Spec == Init /\ [][Next]_vars
=============================================================================
