----------------------------- MODULE NodeQueue -----------------------------
(***************************************************************************)
(* The two-lock queues of the repository: queue.c (enqueue, dequeue,       *)
(* dequeue_blocking) and list.c (list_tail_push_node, list_head_pop_node,  *)
(* list_head_pop_node_blocking).  Both link nodes behind a dummy: head is  *)
(* the node taken last, and the oldest node of the queue is head->next.    *)
(* Producers hold tail_lock, consumers head_lock, so one of each kind may  *)
(* run at a time, and they meet in the next pointer of the last node and   *)
(* in length.                                                              *)
(*                                                                         *)
(* The two files differ in one thing: enqueue clears node->next before it  *)
(* links the node, list_tail_push_node after it has made it the tail.      *)
(*                                                                         *)
(* A step of a thread contains at most one access to memory the other kind *)
(* may touch.  prev (queue.c) is written and never read; it is left out.   *)
(***************************************************************************)
EXTENDS Integers, Sequences, SequencesExt

CONSTANTS
    Threads,           \* the threads that use the queue
    Nodes,             \* the nodes, with the dummy queue_init allocates
    Dummy,
    NULL,
    NONE, EMPTY, BUSY, \* answers of a call of dequeue, see Fifo
    Kinds,             \* the files modelled: "queue", "list" or both
    CleanNodes,        \* TRUE: clients of list.c clear next before a push
    LengthMod          \* length counts modulo this number, 2^32 in the code

ASSUME QueueAssumption ==
    /\ Dummy \in Nodes /\ NULL \notin Nodes
    /\ {NONE, EMPTY, BUSY} \cap Nodes = {}
    /\ NONE # EMPTY /\ NONE # BUSY /\ EMPTY # BUSY
    /\ Kinds \subseteq {"queue", "list"}
    /\ CleanNodes \in BOOLEAN
    /\ LengthMod \in Nat \ {0}

VARIABLES
    kind,        \* the file this behaviour runs
    next,        \* node->next
    head, tail, length, head_lock, tail_lock,   \* of the queue
    client,      \* the nodes that are the client's
    pc, node,    \* where each thread is, and the node it holds
    tmp,         \* the value of length a thread has loaded
    ret,         \* the answer of its last dequeue
    items        \* history: the nodes linked and not taken, oldest first

vars == <<kind, next, head, tail, length, head_lock, tail_lock, client, pc,
          node, tmp, ret, items>>

\* A node comes from malloc or from the pool with anything in its next field;
\* queue_init and list_init clear only the dummy's.
Init ==
    /\ kind \in Kinds
    /\ next \in {f \in [Nodes -> Nodes \cup {NULL}] : f[Dummy] = NULL}
    /\ head = Dummy /\ tail = Dummy
    /\ length = 0
    /\ head_lock = FALSE /\ tail_lock = FALSE
    /\ client = Nodes \ {Dummy}
    /\ pc = [t \in Threads |-> "idle"]
    /\ node = [t \in Threads |-> NULL]
    /\ tmp = [t \in Threads |-> 0]
    /\ ret = [t \in Threads |-> NONE]
    /\ items = <<>>

Goto(t, label) == pc' = [pc EXCEPT ![t] = label]

-----------------------------------------------------------------------------
(* enqueue and list_tail_push_node *)

\* A client pushes a node of its own.  The node popped last still is the
\* dummy, so a client may not use it again before the next pop.
PushCall(t, n) ==
    /\ pc[t] = "idle"
    /\ n \in client /\ n # head
    /\ client' = client \ {n}
    /\ node' = [node EXCEPT ![t] = n]
    /\ next' = IF kind = "list" /\ CleanNodes
               THEN [next EXCEPT ![n] = NULL] ELSE next
    /\ Goto(t, "push_lock")
    /\ UNCHANGED <<kind, head, tail, length, head_lock, tail_lock, tmp, ret,
                   items>>

\* Mutant: producers share the lock.
PushLock_Shared(t) ==
    /\ pc[t] = "push_lock"
    /\ tail_lock' = TRUE
    /\ Goto(t, "push_link")
    /\ UNCHANGED <<kind, next, head, tail, length, head_lock, client, node, tmp,
                   ret, items>>

PushLock(t) ==
    /\ pc[t] = "push_lock"
    /\ ~tail_lock
    /\ tail_lock' = TRUE
    /\ Goto(t, "push_link")
    /\ UNCHANGED <<kind, next, head, tail, length, head_lock, client, node, tmp,
                   ret, items>>

\* Mutant: enqueue links the node before it clears its next pointer, as
\* list.c does.
PushLink_ClearsLate(t) ==
    /\ pc[t] = "push_link"
    /\ next' = [next EXCEPT ![tail] = node[t]]
    /\ items' = Append(items, node[t])
    /\ Goto(t, "push_tail")
    /\ UNCHANGED <<kind, head, tail, length, head_lock, tail_lock, client, node,
                   tmp, ret>>

\* tail->next = node: from here on consumers see the node.
PushLink(t) ==
    /\ pc[t] = "push_link"
    /\ next' = IF kind = "queue"
               THEN [next EXCEPT ![node[t]] = NULL, ![tail] = node[t]]
               ELSE [next EXCEPT ![tail] = node[t]]
    /\ items' = Append(items, node[t])
    /\ Goto(t, "push_tail")
    /\ UNCHANGED <<kind, head, tail, length, head_lock, tail_lock, client, node,
                   tmp, ret>>

PushTail(t) ==
    /\ pc[t] = "push_tail"
    /\ tail' = node[t]
    /\ Goto(t, IF kind = "queue" THEN "push_load" ELSE "push_clear")
    /\ UNCHANGED <<kind, next, head, length, head_lock, tail_lock, client, node,
                   tmp, ret, items>>

PushClear(t) ==
    /\ pc[t] = "push_clear"
    /\ next' = [next EXCEPT ![node[t]] = NULL]
    /\ Goto(t, "push_load")
    /\ UNCHANGED <<kind, head, tail, length, head_lock, tail_lock, client, node,
                   tmp, ret, items>>

\* ++length, not atomic: a load and a store, with a consumer's in between.
PushLoad(t) ==
    /\ pc[t] = "push_load"
    /\ tmp' = [tmp EXCEPT ![t] = length]
    /\ Goto(t, "push_store")
    /\ UNCHANGED <<kind, next, head, tail, length, head_lock, tail_lock, client,
                   node, ret, items>>

PushStore(t) ==
    /\ pc[t] = "push_store"
    /\ length' = (tmp[t] + 1) % LengthMod
    /\ tmp' = [tmp EXCEPT ![t] = 0]
    /\ Goto(t, "push_unlock")
    /\ UNCHANGED <<kind, next, head, tail, head_lock, tail_lock, client, node,
                   ret, items>>

PushUnlock(t) ==
    /\ pc[t] = "push_unlock"
    /\ tail_lock' = FALSE
    /\ node' = [node EXCEPT ![t] = NULL]
    /\ Goto(t, "idle")
    /\ UNCHANGED <<kind, next, head, tail, length, head_lock, client, tmp, ret,
                   items>>

-----------------------------------------------------------------------------
(* dequeue, dequeue_blocking and their twins in list.c *)

PopCall(t, label) ==
    /\ pc[t] = "idle"
    /\ ret' = [ret EXCEPT ![t] = NONE]
    /\ Goto(t, label)
    /\ UNCHANGED <<kind, next, head, tail, length, head_lock, tail_lock, client,
                   node, tmp, items>>

\* Mutant: dequeue waits for the lock.
PopTry_Waits(t) ==
    /\ pc[t] = "pop_try"
    /\ ~head_lock
    /\ head_lock' = TRUE
    /\ Goto(t, "pop_read")
    /\ UNCHANGED <<kind, next, head, tail, length, tail_lock, client, node, tmp,
                   ret, items>>

\* dequeue answers at once when another consumer holds the lock.
PopTry(t) ==
    /\ pc[t] = "pop_try"
    /\ \/ /\ head_lock
          /\ ret' = [ret EXCEPT ![t] = BUSY]
          /\ Goto(t, "idle")
          /\ UNCHANGED head_lock
       \/ /\ ~head_lock
          /\ head_lock' = TRUE
          /\ Goto(t, "pop_read")
          /\ UNCHANGED ret
    /\ UNCHANGED <<kind, next, head, tail, length, tail_lock, client, node, tmp,
                   items>>

\* Mutant: consumers share the lock.
PopLock_Shared(t) ==
    /\ pc[t] = "pop_lock"
    /\ head_lock' = TRUE
    /\ Goto(t, "pop_read")
    /\ UNCHANGED <<kind, next, head, tail, length, tail_lock, client, node, tmp,
                   ret, items>>

PopLock(t) ==
    /\ pc[t] = "pop_lock"
    /\ ~head_lock
    /\ head_lock' = TRUE
    /\ Goto(t, "pop_read")
    /\ UNCHANGED <<kind, next, head, tail, length, tail_lock, client, node, tmp,
                   ret, items>>

\* node = head->next.  NULL means that the queue is empty now.
PopRead(t) ==
    /\ pc[t] = "pop_read"
    /\ node' = [node EXCEPT ![t] = next[head]]
    /\ IF next[head] = NULL
       THEN ret' = [ret EXCEPT ![t] = EMPTY] /\ Goto(t, "pop_load")
       ELSE Goto(t, "pop_take") /\ UNCHANGED ret
    /\ UNCHANGED <<kind, next, head, tail, length, head_lock, tail_lock, client,
                   tmp, items>>

\* head = node: the node is the new dummy, and the call's answer.
PopTake(t) ==
    /\ pc[t] = "pop_take"
    /\ head' = node[t]
    /\ ret' = [ret EXCEPT ![t] = node[t]]
    /\ items' = IF items = <<>> THEN items ELSE Tail(items)
    /\ Goto(t, "pop_load")
    /\ UNCHANGED <<kind, next, tail, length, head_lock, tail_lock, client, node,
                   tmp>>

\* --length, also when nothing was taken.
PopLoad(t) ==
    /\ pc[t] = "pop_load"
    /\ tmp' = [tmp EXCEPT ![t] = length]
    /\ Goto(t, "pop_store")
    /\ UNCHANGED <<kind, next, head, tail, length, head_lock, tail_lock, client,
                   node, ret, items>>

\* Mutant: length is allowed to go below zero.
PopStore_NoWrap(t) ==
    /\ pc[t] = "pop_store"
    /\ length' = tmp[t] - 1
    /\ tmp' = [tmp EXCEPT ![t] = 0]
    /\ Goto(t, "pop_unlock")
    /\ UNCHANGED <<kind, next, head, tail, head_lock, tail_lock, client, node,
                   ret, items>>

PopStore(t) ==
    /\ pc[t] = "pop_store"
    /\ length' = (tmp[t] + LengthMod - 1) % LengthMod
    /\ tmp' = [tmp EXCEPT ![t] = 0]
    /\ Goto(t, "pop_unlock")
    /\ UNCHANGED <<kind, next, head, tail, head_lock, tail_lock, client, node,
                   ret, items>>

PopUnlock(t) ==
    /\ pc[t] = "pop_unlock"
    /\ head_lock' = FALSE
    /\ client' = client \cup ({node[t]} \ {NULL})
    /\ node' = [node EXCEPT ![t] = NULL]
    /\ Goto(t, "idle")
    /\ UNCHANGED <<kind, next, head, tail, length, tail_lock, tmp, ret, items>>

-----------------------------------------------------------------------------
PushStep(t) ==
    \/ PushLock(t) \/ PushLink(t) \/ PushTail(t) \/ PushClear(t)
    \/ PushLoad(t) \/ PushStore(t) \/ PushUnlock(t)

PopStep(t) ==
    \/ PopTry(t) \/ PopLock(t) \/ PopRead(t) \/ PopTake(t)
    \/ PopLoad(t) \/ PopStore(t) \/ PopUnlock(t)

Call(t) ==
    \/ \E n \in Nodes : PushCall(t, n)
    \/ \E label \in {"pop_try", "pop_lock"} : PopCall(t, label)

Next == \E t \in Threads : Call(t) \/ PushStep(t) \/ PopStep(t)

Spec == Init /\ [][Next]_vars

\* A consumer inside an operation keeps running, whatever becomes of the
\* producers.  The spin locks are not fair.
FairSpec == Spec /\ \A t \in Threads : WF_vars(PopStep(t))

-----------------------------------------------------------------------------
(* Properties *)

PushLabels == {"push_lock", "push_link", "push_tail", "push_clear", "push_load",
               "push_store", "push_unlock"}
PopLabels  == {"pop_try", "pop_lock", "pop_read", "pop_take", "pop_load",
               "pop_store", "pop_unlock"}

\* Where a thread has taken a lock.
HasTailLock == PushLabels \ {"push_lock"}
HasHeadLock == PopLabels \ {"pop_try", "pop_lock"}

\* The variables stay in their types.
TypeOK ==
    /\ kind \in Kinds
    /\ next \in [Nodes -> Nodes \cup {NULL}]
    /\ head \in Nodes /\ tail \in Nodes
    /\ length \in 0 .. (LengthMod - 1)
    /\ head_lock \in BOOLEAN /\ tail_lock \in BOOLEAN
    /\ client \subseteq Nodes
    /\ pc \in [Threads -> {"idle"} \cup PushLabels \cup PopLabels]
    /\ node \in [Threads -> Nodes \cup {NULL}]
    /\ tmp \in [Threads -> 0 .. (LengthMod - 1)]
    /\ ret \in [Threads -> Nodes \cup {NONE, EMPTY, BUSY}]
    /\ items \in Seq(Nodes)

\* Producers and consumers together implement the queue of Fifo: nodes come out
\* once, in the order they were linked, a consumer finds nothing only while the
\* queue is empty, and a node of the queue is not pushed again.
FifoQueue == INSTANCE Fifo WITH items <- items, ret <- ret
ImplementsFifo == FifoQueue!Spec

\* The pointers spell out the queue at every moment, also while a node is being
\* linked: next leads from head over the items to NULL, and tail is the last
\* node of this chain, except between the two stores of a push, whose node it
\* then is.  (A consumer may have gone past tail meanwhile.)
LinksSpellItems ==
    LET chain == <<head>> \o items
    IN  /\ \A k \in 1 .. Len(items) : next[chain[k]] = chain[k + 1]
        /\ next[chain[Len(chain)]] = NULL
        /\ \/ tail = chain[Len(chain)]
           \/ \E t \in Threads :
                 pc[t] = "push_tail" /\ node[t] = chain[Len(chain)]

\* Nodes and locks have one owner.  A node belongs to one side: what the client
\* may write to is not in the queue, nor in the hands of another push; only the
\* dummy is both the client's and the queue's.  A push that waits for tail_lock
\* may hold the node that is still tail, taken before the push that follows it
\* stored tail; the one that has the lock may not, or it would link the node to
\* itself.  A lock that is taken is taken by a thread inside its call: none
\* stays behind, also when dequeue found the queue empty (queue.c:38).
NoSharing ==
    LET pushing(t) == pc[t] \in {"push_lock", "push_link"}
    IN  /\ client \cap Range(items) = {}
        /\ \A t \in Threads : pushing(t) =>
              /\ node[t] \notin client \cup Range(items) \cup {head}
              /\ \A u \in Threads \ {t} : pushing(u) => node[t] # node[u]
        /\ \A t \in Threads : pc[t] = "push_link" => node[t] # tail
        /\ tail_lock => \E t \in Threads : pc[t] \in HasTailLock
        /\ head_lock => \E t \in Threads : pc[t] \in HasHeadLock

\* dequeue does not wait: whatever the other threads do with the locks, it
\* answers.
TryReturns == \A t \in Threads : pc[t] = "pop_try" ~> pc[t] = "idle"

\* test/test_list.c pushes nodes fresh from malloc while other threads pop: a
\* consumer must only take the oldest node that was pushed.
TakesOldest ==
    \A t \in Threads :
        pc[t] = "pop_take" => items # <<>> /\ node[t] = Head(items)
=============================================================================
