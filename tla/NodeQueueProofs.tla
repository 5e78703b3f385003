-------------------------- MODULE NodeQueueProofs --------------------------
(***************************************************************************)
(* Proofs about the two-lock queues, for any threads, nodes and any number *)
(* of them in the queue: the pointers spell out the queue at every step,   *)
(* nobody shares a node or leaves a lock behind, and the queue implements  *)
(* Fifo.  They hold where the clients of list.c push nodes with a cleared  *)
(* next pointer.                                                           *)
(***************************************************************************)
EXTENDS NodeQueue, SequenceTheorems, TLAPS

\* What list.c relies on and queue.c does not.
CleanPushes == CleanNodes \/ "list" \notin Kinds

-----------------------------------------------------------------------------
(* The inductive invariant *)

\* The locks exclude.
Mutex ==
    /\ \A t \in Threads : pc[t] \in HasTailLock => tail_lock
    /\ \A t \in Threads : pc[t] \in HasHeadLock => head_lock
    /\ \A t, u \in Threads :
          \/ pc[t] \in HasTailLock /\ pc[u] \in HasTailLock
          \/ pc[t] \in HasHeadLock /\ pc[u] \in HasHeadLock
          => t = u

LastNode == IF items = <<>> THEN head ELSE items[Len(items)]

\* next leads from head over the items to NULL.
Linked ==
    /\ next[head] = IF items = <<>> THEN NULL ELSE items[1]
    /\ \A k \in 1 .. Len(items) :
          next[items[k]] = IF k = Len(items) THEN NULL ELSE items[k + 1]

\* No node is in the queue twice.
Distinct ==
    /\ \A j, k \in 1 .. Len(items) : items[j] = items[k] => j = k
    /\ \A k \in 1 .. Len(items) : items[k] # head

\* A producer that has linked its node made it the last, and tail lags behind
\* only until the store that follows.
Producing ==
    /\ \A t \in Threads : pc[t] \in {"push_tail", "push_clear"} => node[t] = LastNode
    /\ tail = LastNode \/ \E t \in Threads : pc[t] = "push_tail"

\* A consumer that has found a node holds the oldest; one that has taken it holds
\* the dummy.
Consuming ==
    \A t \in Threads :
        /\ pc[t] \in {"pop_try", "pop_lock", "pop_read", "pop_take"} => ret[t] = NONE
        /\ pc[t] = "pop_take" => items # <<>> /\ node[t] = items[1]
        /\ pc[t] \in {"pop_load", "pop_store", "pop_unlock"} => node[t] \in {head, NULL}

Pushing(t) == pc[t] \in {"push_lock", "push_link"}

\* A node on its way into the queue is nobody else's.
Private ==
    /\ \A k \in 1 .. Len(items) : items[k] \notin client
    /\ \A t \in Threads : Pushing(t) =>
          /\ node[t] \in Nodes \ client /\ node[t] # head
          /\ \A k \in 1 .. Len(items) : items[k] # node[t]
          /\ kind = "list" => next[node[t]] = NULL
    /\ \A t, u \in Threads : (Pushing(t) /\ Pushing(u) /\ t # u) => node[t] # node[u]

QInv ==
    /\ TypeOK
    /\ kind = "list" => CleanNodes
    /\ Mutex /\ Linked /\ Distinct /\ Producing /\ Consuming /\ Private

LEMMA QInit == ASSUME CleanPushes, Init PROVE QInv
  <1>1. /\ kind \in Kinds /\ next[Dummy] = NULL /\ head = Dummy /\ tail = Dummy
        /\ length = 0 /\ head_lock = FALSE /\ tail_lock = FALSE
        /\ client = Nodes \ {Dummy} /\ items = <<>>
        /\ pc = [t \in Threads |-> "idle"] /\ node = [t \in Threads |-> NULL]
        /\ tmp = [t \in Threads |-> 0] /\ ret = [t \in Threads |-> NONE]
        /\ next \in [Nodes -> Nodes \cup {NULL}]
    BY DEF Init
  <1>2. 0 \in 0 .. (LengthMod - 1)
    BY QueueAssumption
  <1>3. TypeOK
    <2>1. /\ pc \in [Threads -> {"idle"} \cup PushLabels \cup PopLabels]
          /\ node \in [Threads -> Nodes \cup {NULL}]
          /\ ret \in [Threads -> Nodes \cup {NONE, EMPTY, BUSY}]
      BY <1>1
    <2>2. tmp \in [Threads -> 0 .. (LengthMod - 1)] /\ length \in 0 .. (LengthMod - 1)
      BY <1>1, <1>2
    <2>3. kind \in Kinds /\ head \in Nodes /\ tail \in Nodes /\ client \subseteq Nodes
      BY <1>1, QueueAssumption
    <2>4. head_lock \in BOOLEAN /\ tail_lock \in BOOLEAN
      BY <1>1
    <2>5. next \in [Nodes -> Nodes \cup {NULL}] /\ items \in Seq(Nodes)
      BY <1>1
    <2> QED BY <2>1, <2>2, <2>3, <2>4, <2>5 DEF TypeOK
  <1>4. kind = "list" => CleanNodes
    BY <1>1 DEF CleanPushes
  <1>5. Mutex /\ Linked /\ Distinct /\ Producing /\ Consuming /\ Private
    BY <1>1 DEF Mutex, Linked, Distinct, Producing, Consuming, Private, LastNode,
       HasTailLock, HasHeadLock, PushLabels, PopLabels, Pushing
  <1> QED BY <1>3, <1>4, <1>5 DEF QInv

-----------------------------------------------------------------------------
(* Steps that leave the pointers and the items alone *)

\* What holds of the pointers holds as long as nobody moves them.
LEMMA PointersKept ==
    ASSUME QInv, UNCHANGED <<kind, next, head, tail, items>>
    PROVE  /\ Linked' /\ Distinct' /\ LastNode' = LastNode
           /\ (kind = "list" => CleanNodes)'
  BY DEF QInv, Linked, Distinct, LastNode

\* length stays below the number it is counted modulo.
LEMMA Modulo ==
    /\ 0 \in 0 .. (LengthMod - 1)
    /\ \A i \in 0 .. (LengthMod - 1) :
          /\ (i + 1) % LengthMod \in 0 .. (LengthMod - 1)
          /\ (i + LengthMod - 1) % LengthMod \in 0 .. (LengthMod - 1)
  BY QueueAssumption

LEMMA PushLockKeeps ==
    ASSUME QInv, NEW t \in Threads, PushLock(t) PROVE QInv'
  <1>t. TypeOK /\ Mutex /\ Producing /\ Consuming /\ Private
    BY DEF QInv
  <1>1. /\ UNCHANGED <<kind, next, head, tail, length, head_lock, client, node,
                       tmp, ret, items>>
        /\ pc[t] = "push_lock" /\ tail_lock = FALSE /\ tail_lock' = TRUE
        /\ \A u \in Threads : pc'[u] = IF u = t THEN "push_link" ELSE pc[u]
        /\ pc' = [pc EXCEPT ![t] = "push_link"]
    BY <1>t DEF PushLock, Goto, TypeOK
  <1>2. TypeOK'
    BY <1>1, <1>t DEF TypeOK, PushLabels, PopLabels
  <1>3. Mutex'
    BY <1>1, <1>t DEF Mutex, HasTailLock, HasHeadLock, PushLabels, PopLabels
  <1>4. Producing' /\ Consuming' /\ Private'
    BY <1>1, <1>t DEF Producing, Consuming, Private, Pushing, LastNode
  <1> QED BY <1>1, <1>2, <1>3, <1>4, PointersKept DEF QInv

LEMMA PushLoadKeeps ==
    ASSUME QInv, NEW t \in Threads, PushLoad(t) PROVE QInv'
  <1>t. TypeOK /\ Mutex /\ Producing /\ Consuming /\ Private
    BY DEF QInv
  <1>1. /\ UNCHANGED <<kind, next, head, tail, length, head_lock, tail_lock,
                       client, node, ret, items>>
        /\ pc[t] = "push_load" /\ tmp' = [tmp EXCEPT ![t] = length]
        /\ \A u \in Threads : pc'[u] = IF u = t THEN "push_store" ELSE pc[u]
        /\ pc' = [pc EXCEPT ![t] = "push_store"]
    BY <1>t DEF PushLoad, Goto, TypeOK
  <1>2. TypeOK'
    BY <1>1, <1>t DEF TypeOK, PushLabels, PopLabels
  <1>3. Mutex'
    BY <1>1, <1>t DEF Mutex, HasTailLock, HasHeadLock, PushLabels, PopLabels
  <1>4. Producing' /\ Consuming' /\ Private'
    BY <1>1, <1>t DEF Producing, Consuming, Private, Pushing, LastNode
  <1> QED BY <1>1, <1>2, <1>3, <1>4, PointersKept DEF QInv

LEMMA PushStoreKeeps ==
    ASSUME QInv, NEW t \in Threads, PushStore(t) PROVE QInv'
  <1>t. TypeOK /\ Mutex /\ Producing /\ Consuming /\ Private
    BY DEF QInv
  <1>1. /\ UNCHANGED <<kind, next, head, tail, head_lock, tail_lock, client, node,
                       ret, items>>
        /\ pc[t] = "push_store" /\ length' = (tmp[t] + 1) % LengthMod
        /\ tmp' = [tmp EXCEPT ![t] = 0]
        /\ \A u \in Threads : pc'[u] = IF u = t THEN "push_unlock" ELSE pc[u]
        /\ pc' = [pc EXCEPT ![t] = "push_unlock"]
    BY <1>t DEF PushStore, Goto, TypeOK
  <1>2. TypeOK'
    BY <1>1, <1>t, Modulo DEF TypeOK, PushLabels, PopLabels
  <1>3. Mutex'
    BY <1>1, <1>t DEF Mutex, HasTailLock, HasHeadLock, PushLabels, PopLabels
  <1>4. Producing' /\ Consuming' /\ Private'
    BY <1>1, <1>t DEF Producing, Consuming, Private, Pushing, LastNode
  <1> QED BY <1>1, <1>2, <1>3, <1>4, PointersKept DEF QInv

LEMMA PushUnlockKeeps ==
    ASSUME QInv, NEW t \in Threads, PushUnlock(t) PROVE QInv'
  <1>t. TypeOK /\ Mutex /\ Producing /\ Consuming /\ Private
    BY DEF QInv
  <1>1. /\ UNCHANGED <<kind, next, head, tail, length, head_lock, client, tmp,
                       ret, items>>
        /\ pc[t] = "push_unlock" /\ tail_lock' = FALSE
        /\ node' = [node EXCEPT ![t] = NULL]
        /\ \A u \in Threads : pc'[u] = IF u = t THEN "idle" ELSE pc[u]
        /\ pc' = [pc EXCEPT ![t] = "idle"]
    BY <1>t DEF PushUnlock, Goto, TypeOK
  <1>2. TypeOK'
    BY <1>1, <1>t DEF TypeOK, PushLabels, PopLabels
  <1>3. Mutex'
    BY <1>1, <1>t DEF Mutex, HasTailLock, HasHeadLock, PushLabels, PopLabels
  <1>4. Producing' /\ Consuming' /\ Private'
    BY <1>1, <1>t DEF Producing, Consuming, Private, Pushing, LastNode
  <1> QED BY <1>1, <1>2, <1>3, <1>4, PointersKept DEF QInv

LEMMA PopCallKeeps ==
    ASSUME QInv, NEW t \in Threads, NEW label \in {"pop_try", "pop_lock"},
           PopCall(t, label)
    PROVE  QInv'
  <1>t. TypeOK /\ Mutex /\ Producing /\ Consuming /\ Private
    BY DEF QInv
  <1>1. /\ UNCHANGED <<kind, next, head, tail, length, head_lock, tail_lock,
                       client, node, tmp, items>>
        /\ pc[t] = "idle" /\ ret' = [ret EXCEPT ![t] = NONE]
        /\ \A u \in Threads : pc'[u] = IF u = t THEN label ELSE pc[u]
        /\ pc' = [pc EXCEPT ![t] = label]
    BY <1>t DEF PopCall, Goto, TypeOK
  <1>2. TypeOK'
    BY <1>1, <1>t DEF TypeOK, PushLabels, PopLabels
  <1>3. Mutex'
    BY <1>1, <1>t DEF Mutex, HasTailLock, HasHeadLock, PushLabels, PopLabels
  <1>4. \A u \in Threads : ret'[u] = IF u = t THEN NONE ELSE ret[u]
    BY <1>1, <1>t DEF TypeOK
  <1>5. Producing' /\ Private'
    BY <1>1, <1>t DEF Producing, Private, Pushing, LastNode
  <1>6. Consuming'
    BY <1>1, <1>4, <1>t DEF Consuming
  <1> QED BY <1>1, <1>2, <1>3, <1>5, <1>6, PointersKept DEF QInv

LEMMA PopLockKeeps ==
    ASSUME QInv, NEW t \in Threads, PopLock(t) PROVE QInv'
  <1>t. TypeOK /\ Mutex /\ Producing /\ Consuming /\ Private
    BY DEF QInv
  <1>1. /\ UNCHANGED <<kind, next, head, tail, length, tail_lock, client, node,
                       tmp, ret, items>>
        /\ pc[t] = "pop_lock" /\ head_lock = FALSE /\ head_lock' = TRUE
        /\ \A u \in Threads : pc'[u] = IF u = t THEN "pop_read" ELSE pc[u]
        /\ pc' = [pc EXCEPT ![t] = "pop_read"]
    BY <1>t DEF PopLock, Goto, TypeOK
  <1>2. TypeOK'
    BY <1>1, <1>t DEF TypeOK, PushLabels, PopLabels
  <1>3. Mutex'
    BY <1>1, <1>t DEF Mutex, HasTailLock, HasHeadLock, PushLabels, PopLabels
  <1>4. Producing' /\ Consuming' /\ Private'
    BY <1>1, <1>t DEF Producing, Consuming, Private, Pushing, LastNode
  <1> QED BY <1>1, <1>2, <1>3, <1>4, PointersKept DEF QInv

LEMMA PopReadKeeps ==
    ASSUME QInv, NEW t \in Threads, PopRead(t) PROVE QInv'
  <1>t. TypeOK /\ Mutex /\ Producing /\ Consuming /\ Private
    BY DEF QInv
  <1>1. /\ UNCHANGED <<kind, next, head, tail, length, head_lock, tail_lock,
                       client, tmp, items>>
        /\ pc[t] = "pop_read" /\ node' = [node EXCEPT ![t] = next[head]]
        /\ ret' = IF next[head] = NULL THEN [ret EXCEPT ![t] = EMPTY] ELSE ret
        /\ \A u \in Threads : pc'[u] = IF u # t THEN pc[u]
                                      ELSE IF next[head] = NULL THEN "pop_load"
                                      ELSE "pop_take"
        /\ pc' = [pc EXCEPT ![t] = IF next[head] = NULL THEN "pop_load" ELSE "pop_take"]
    BY <1>t DEF PopRead, Goto, TypeOK
  <1>2. TypeOK'
    BY <1>1, <1>t DEF TypeOK, PushLabels, PopLabels
  <1>3. Mutex'
    BY <1>1, <1>t DEF Mutex, HasTailLock, HasHeadLock, PushLabels, PopLabels
  <1>4. next[head] = IF items = <<>> THEN NULL ELSE items[1]
    BY DEF QInv, Linked
  <1>5. \A u \in Threads :
           /\ node'[u] = IF u = t THEN next[head] ELSE node[u]
           /\ ret'[u] = IF u = t /\ next[head] = NULL THEN EMPTY ELSE ret[u]
    BY <1>1, <1>t DEF TypeOK
  <1>6. next[head] # NULL => items # <<>> /\ next[head] = items[1]
    BY <1>4
  <1>7. Producing' /\ Private'
    BY <1>1, <1>5, <1>t DEF Producing, Private, Pushing, LastNode
  <1>8. Consuming'
    BY <1>1, <1>5, <1>6, <1>t DEF Consuming
  <1> QED BY <1>1, <1>2, <1>3, <1>7, <1>8, PointersKept DEF QInv

LEMMA PopLoadKeeps ==
    ASSUME QInv, NEW t \in Threads, PopLoad(t) PROVE QInv'
  <1>t. TypeOK /\ Mutex /\ Producing /\ Consuming /\ Private
    BY DEF QInv
  <1>1. /\ UNCHANGED <<kind, next, head, tail, length, head_lock, tail_lock,
                       client, node, ret, items>>
        /\ pc[t] = "pop_load" /\ tmp' = [tmp EXCEPT ![t] = length]
        /\ \A u \in Threads : pc'[u] = IF u = t THEN "pop_store" ELSE pc[u]
        /\ pc' = [pc EXCEPT ![t] = "pop_store"]
    BY <1>t DEF PopLoad, Goto, TypeOK
  <1>2. TypeOK'
    BY <1>1, <1>t DEF TypeOK, PushLabels, PopLabels
  <1>3. Mutex'
    BY <1>1, <1>t DEF Mutex, HasTailLock, HasHeadLock, PushLabels, PopLabels
  <1>4. Producing' /\ Consuming' /\ Private'
    BY <1>1, <1>t DEF Producing, Consuming, Private, Pushing, LastNode
  <1> QED BY <1>1, <1>2, <1>3, <1>4, PointersKept DEF QInv

LEMMA PopStoreKeeps ==
    ASSUME QInv, NEW t \in Threads, PopStore(t) PROVE QInv'
  <1>t. TypeOK /\ Mutex /\ Producing /\ Consuming /\ Private
    BY DEF QInv
  <1>1. /\ UNCHANGED <<kind, next, head, tail, head_lock, tail_lock, client, node,
                       ret, items>>
        /\ pc[t] = "pop_store" /\ length' = (tmp[t] + LengthMod - 1) % LengthMod
        /\ tmp' = [tmp EXCEPT ![t] = 0]
        /\ \A u \in Threads : pc'[u] = IF u = t THEN "pop_unlock" ELSE pc[u]
        /\ pc' = [pc EXCEPT ![t] = "pop_unlock"]
    BY <1>t DEF PopStore, Goto, TypeOK
  <1>2. TypeOK'
    BY <1>1, <1>t, Modulo DEF TypeOK, PushLabels, PopLabels
  <1>3. Mutex'
    BY <1>1, <1>t DEF Mutex, HasTailLock, HasHeadLock, PushLabels, PopLabels
  <1>4. Producing' /\ Consuming' /\ Private'
    BY <1>1, <1>t DEF Producing, Consuming, Private, Pushing, LastNode
  <1> QED BY <1>1, <1>2, <1>3, <1>4, PointersKept DEF QInv

\* dequeue gives up, or has the lock.
LEMMA PopTryKeeps ==
    ASSUME QInv, NEW t \in Threads, PopTry(t) PROVE QInv'
  <1>t. TypeOK /\ Mutex /\ Producing /\ Consuming /\ Private
    BY DEF QInv
  <1>1. /\ UNCHANGED <<kind, next, head, tail, length, tail_lock, client, node, tmp,
                       items>>
        /\ pc[t] = "pop_try"
        /\ \/ /\ head_lock' = head_lock /\ ret' = [ret EXCEPT ![t] = BUSY]
              /\ pc' = [pc EXCEPT ![t] = "idle"]
           \/ /\ head_lock = FALSE /\ head_lock' = TRUE /\ ret' = ret
              /\ pc' = [pc EXCEPT ![t] = "pop_read"]
    BY <1>t DEF PopTry, Goto, TypeOK
  <1>2. CASE pc' = [pc EXCEPT ![t] = "idle"]
    <2>0. "idle" # "pop_read" /\ pc'[t] = "idle"
      BY <1>2, <1>t DEF TypeOK
    <2>1. /\ head_lock' = head_lock /\ ret' = [ret EXCEPT ![t] = BUSY]
          /\ \A u \in Threads : pc'[u] = IF u = t THEN "idle" ELSE pc[u]
          /\ \A u \in Threads \ {t} : ret'[u] = ret[u]
      BY <1>1, <1>2, <2>0, <1>t DEF TypeOK
    <2>2. TypeOK'
      BY <1>1, <1>2, <2>1, <1>t DEF TypeOK
    <2>3. Mutex'
      BY <1>1, <2>1, <1>t DEF Mutex, HasTailLock, HasHeadLock, PushLabels, PopLabels
    <2>4. Producing' /\ Private'
      BY <1>1, <2>1, <1>t DEF Producing, Private, Pushing, LastNode
    <2>5. Consuming'
      BY <1>1, <2>1, <1>t DEF Consuming
    <2> QED BY <1>1, <2>2, <2>3, <2>4, <2>5, PointersKept DEF QInv
  <1>3. CASE pc' = [pc EXCEPT ![t] = "pop_read"]
    <2>0. "idle" # "pop_read" /\ pc'[t] = "pop_read"
      BY <1>3, <1>t DEF TypeOK
    <2>1. /\ head_lock = FALSE /\ head_lock' = TRUE /\ ret' = ret
          /\ \A u \in Threads : pc'[u] = IF u = t THEN "pop_read" ELSE pc[u]
      BY <1>1, <1>3, <2>0, <1>t DEF TypeOK
    <2>2. TypeOK'
      BY <1>1, <1>3, <2>1, <1>t DEF TypeOK, PopLabels
    <2>3. Mutex'
      BY <1>1, <2>1, <1>t DEF Mutex, HasTailLock, HasHeadLock, PushLabels, PopLabels
    <2>4. Producing' /\ Consuming' /\ Private'
      BY <1>1, <2>1, <1>t DEF Producing, Consuming, Private, Pushing, LastNode
    <2> QED BY <1>1, <2>2, <2>3, <2>4, PointersKept DEF QInv
  <1> QED BY <1>1, <1>2, <1>3

-----------------------------------------------------------------------------
(* A push *)

\* The last node of the queue: the dummy, or the item linked last.
LEMMA LastIsInQueue ==
    ASSUME QInv
    PROVE  /\ LastNode \in Nodes /\ next[LastNode] = NULL
           /\ Len(items) \in Nat /\ (items = <<>> <=> Len(items) = 0)
           /\ items = <<>> => LastNode = head
           /\ items # <<>> => /\ LastNode = items[Len(items)]
                              /\ Len(items) \in 1 .. Len(items)
           /\ \A k \in 1 .. Len(items) : items[k] \in Nodes
           /\ \A t \in Threads : Pushing(t) => node[t] # LastNode
  <1>1. items \in Seq(Nodes) /\ head \in Nodes
    BY DEF QInv, TypeOK
  <1>2. Len(items) \in Nat /\ (items = <<>> <=> Len(items) = 0)
    BY <1>1, EmptySeq
  <1>3. \A k \in 1 .. Len(items) : items[k] \in Nodes
    BY <1>1
  <1>4. /\ items = <<>> => LastNode = head
        /\ items # <<>> => LastNode = items[Len(items)] /\ Len(items) \in 1 .. Len(items)
    BY <1>2 DEF LastNode
  <1>5. next[LastNode] = NULL
    BY <1>4 DEF QInv, Linked
  <1>6. \A t \in Threads : Pushing(t) => node[t] # LastNode
    BY <1>4 DEF QInv, Private
  <1> QED BY <1>1, <1>2, <1>3, <1>4, <1>5, <1>6

LEMMA PushCallKeeps ==
    ASSUME QInv, NEW t \in Threads, NEW n \in Nodes, PushCall(t, n)
    PROVE  QInv'
  <1>t. /\ TypeOK /\ Mutex /\ Linked /\ Distinct /\ Producing /\ Consuming /\ Private
        /\ kind = "list" => CleanNodes
    BY DEF QInv
  <1>1. /\ UNCHANGED <<kind, head, tail, length, head_lock, tail_lock, tmp, ret, items>>
        /\ pc[t] = "idle" /\ n \in client /\ n # head /\ client' = client \ {n}
        /\ node' = [node EXCEPT ![t] = n]
        /\ next' = IF kind = "list" THEN [next EXCEPT ![n] = NULL] ELSE next
        /\ pc' = [pc EXCEPT ![t] = "push_lock"]
    BY <1>t DEF PushCall, Goto
  <1>2. \A u \in Threads : /\ pc'[u] = IF u = t THEN "push_lock" ELSE pc[u]
                           /\ node'[u] = IF u = t THEN n ELSE node[u]
    BY <1>1, <1>t DEF TypeOK
  <1>3. \A m \in Nodes : /\ m # n => next'[m] = next[m]
                         /\ kind = "list" => next'[n] = NULL
    BY <1>1, <1>t DEF TypeOK
  <1>4. \A k \in 1 .. Len(items) : items[k] \in Nodes /\ items[k] # n
    BY <1>1, <1>t, LastIsInQueue DEF Private
  <1>5. TypeOK'
    BY <1>1, <1>t DEF TypeOK, PushLabels
  <1>6. Mutex'
    BY <1>1, <1>2, <1>t DEF Mutex, HasTailLock, HasHeadLock, PushLabels, PopLabels
  <1>7. Linked' /\ Distinct'
    BY <1>1, <1>3, <1>4, <1>t DEF Linked, Distinct, TypeOK
  <1>8. Producing'
    BY <1>1, <1>2, <1>t DEF Producing, LastNode
  <1>9. Consuming'
    BY <1>1, <1>2, <1>t DEF Consuming
  <1>10. Private'
    <2>1. \A u \in Threads : Pushing(u)' <=> u = t \/ Pushing(u)
      BY <1>1, <1>2 DEF Pushing
    <2>2. \A u \in Threads : Pushing(u) => node[u] # n /\ u # t
      BY <1>1, <1>t DEF Private, Pushing
    <2>3. \A k \in 1 .. Len(items)' : items'[k] \notin client'
      BY <1>1, <1>t DEF Private
    <2>4. \A u \in Threads : Pushing(u)' =>
            /\ node'[u] \in Nodes \ client' /\ node'[u] # head'
            /\ \A k \in 1 .. Len(items)' : items'[k] # node'[u]
            /\ kind' = "list" => next'[node'[u]] = NULL
      BY <2>1, <2>2, <1>1, <1>2, <1>3, <1>4, <1>t DEF Private
    <2>5. \A u, v \in Threads :
            (Pushing(u)' /\ Pushing(v)' /\ u # v) => node'[u] # node'[v]
      BY <2>1, <2>2, <1>2, <1>t DEF Private
    <2> QED BY <2>3, <2>4, <2>5 DEF Private
  <1> QED BY <1>1, <1>t, <1>5, <1>6, <1>7, <1>8, <1>9, <1>10 DEF QInv

\* The producer with the lock finds tail in step with the last node.
LEMMA TailIsLast ==
    ASSUME QInv, NEW t \in Threads, pc[t] = "push_link"
    PROVE  tail = LastNode
  BY DEF QInv, Producing, Mutex, HasTailLock, PushLabels

LEMMA PushLinkKeeps ==
    ASSUME QInv, NEW t \in Threads, PushLink(t) PROVE QInv'
  <1> DEFINE n == node[t]
             l == LastNode
             L == Len(items)
  <1>t. /\ TypeOK /\ Mutex /\ Linked /\ Distinct /\ Producing /\ Consuming /\ Private
        /\ kind = "list" => CleanNodes
    BY DEF QInv
  <1>1. /\ UNCHANGED <<kind, head, tail, length, head_lock, tail_lock, client, node,
                       tmp, ret>>
        /\ pc[t] = "push_link" /\ items' = Append(items, n)
        /\ next' = IF kind = "queue" THEN [next EXCEPT ![n] = NULL, ![tail] = n]
                   ELSE [next EXCEPT ![tail] = n]
        /\ pc' = [pc EXCEPT ![t] = "push_tail"]
    BY DEF PushLink, Goto
  <1>2. /\ l \in Nodes /\ n \in Nodes \ client /\ n # l /\ n # head /\ tail = l
        /\ \A k \in 1 .. L : items[k] # n
        /\ kind = "list" => next[n] = NULL
    BY <1>1, <1>t, LastIsInQueue, TailIsLast DEF Private, Pushing
  <1>3. kind \in {"queue", "list"}
    BY <1>t, QueueAssumption DEF TypeOK
  <1>4. \A m \in Nodes : next'[m] = IF m = l THEN n ELSE IF m = n THEN NULL ELSE next[m]
    BY <1>1, <1>2, <1>3, <1>t DEF TypeOK
  <1>5. /\ L \in Nat /\ Len(items') = L + 1 /\ items' # <<>> /\ items' \in Seq(Nodes)
        /\ \A k \in 1 .. L : items'[k] = items[k]
        /\ items'[L + 1] = n
    BY <1>1, <1>2, <1>t, LastIsInQueue, AppendProperties DEF TypeOK
  <1>6. \A u \in Threads : pc'[u] = IF u = t THEN "push_tail" ELSE pc[u]
    BY <1>1, <1>t DEF TypeOK
  <1>7. LastNode' = n
    BY <1>5 DEF LastNode
  <1>8. TypeOK'
    BY <1>1, <1>2, <1>5, <1>t DEF TypeOK, PushLabels
  <1>9. Mutex'
    BY <1>1, <1>6, <1>t DEF Mutex, HasTailLock, HasHeadLock, PushLabels, PopLabels
  <1>10. Linked'
    <2>1. next'[head] = items'[1]
      <3>1. CASE items = <<>>
        BY <3>1, <1>1, <1>4, <1>5, <1>t, LastIsInQueue DEF TypeOK
      <3>2. CASE items # <<>>
        BY <3>2, <1>2, <1>4, <1>5, <1>t, LastIsInQueue DEF TypeOK, Linked, Distinct
      <3> QED BY <3>1, <3>2
    <2>2. ASSUME NEW k \in 1 .. L + 1
          PROVE  next'[items'[k]] = IF k = L + 1 THEN NULL ELSE items'[k + 1]
      <3>1. CASE k = L + 1
        BY <3>1, <1>2, <1>4, <1>5
      <3>2. CASE k = L
        <4>1. items # <<>> /\ items[L] = l /\ items'[L] = items[L]
          BY <3>2, <1>5, LastIsInQueue
        <4> QED BY <3>2, <4>1, <1>2, <1>4, <1>5
      <3>3. CASE k # L /\ k # L + 1
        <4>1. k \in 1 .. L /\ k + 1 \in 1 .. L /\ L \in 1 .. L /\ items # <<>>
          BY <3>3, <1>5, LastIsInQueue
        <4>2. items[k] # l /\ items[k] # n /\ items[k] \in Nodes
          BY <4>1, <3>3, <1>2, <1>t, LastIsInQueue DEF Distinct
        <4> QED BY <3>3, <4>1, <4>2, <1>4, <1>5, <1>t DEF Linked
      <3> QED BY <3>1, <3>2, <3>3
    <2>3. head' = head /\ Len(items') = L + 1 /\ items' # <<>>
      BY <1>1, <1>5
    <2> QED BY <2>1, <2>2, <2>3 DEF Linked
  <1>11. Distinct'
    <2>1. \A j, k \in 1 .. L + 1 : items'[j] = items'[k] => j = k
      BY <1>2, <1>5, <1>t DEF Distinct
    <2>2. \A k \in 1 .. L + 1 : items'[k] # head
      BY <1>2, <1>5, <1>t DEF Distinct
    <2> QED BY <2>1, <2>2, <1>1, <1>5 DEF Distinct
  <1>12. Producing'
    <2>1. \A u \in Threads : pc'[u] \in {"push_tail", "push_clear"} => u = t
      BY <1>1, <1>6, <1>t DEF Mutex, HasTailLock, PushLabels
    <2> QED BY <2>1, <1>1, <1>6, <1>7 DEF Producing
  <1>13. Consuming'
    <2>1. items # <<>> => items'[1] = items[1]
      BY <1>5, LastIsInQueue
    <2> QED BY <2>1, <1>1, <1>5, <1>6, <1>t DEF Consuming
  <1>14. Private'
    <2>1. \A u \in Threads : Pushing(u)' <=> u # t /\ Pushing(u)
      BY <1>1, <1>6 DEF Pushing
    <2>2. \A u \in Threads : Pushing(u)' => node[u] # n /\ node[u] # l
      BY <2>1, <1>1, <1>t, LastIsInQueue DEF Private, Pushing
    <2>3. \A k \in 1 .. L + 1 : items'[k] \notin client
      BY <1>2, <1>5, <1>t DEF Private
    <2>4. \A u \in Threads : Pushing(u)' =>
            /\ node[u] \in Nodes \ client /\ node[u] # head
            /\ \A k \in 1 .. L + 1 : items'[k] # node[u]
            /\ kind = "list" => next'[node[u]] = NULL
      BY <2>1, <2>2, <1>2, <1>4, <1>5, <1>t DEF Private
    <2>5. \A u, v \in Threads :
            (Pushing(u)' /\ Pushing(v)' /\ u # v) => node[u] # node[v]
      BY <2>1, <1>t DEF Private
    <2> QED BY <2>3, <2>4, <2>5, <1>1, <1>5 DEF Private
  <1> QED
    BY <1>1, <1>t, <1>8, <1>9, <1>10, <1>11, <1>12, <1>13, <1>14 DEF QInv
LEMMA PushTailKeeps ==
    ASSUME QInv, NEW t \in Threads, PushTail(t) PROVE QInv'
  <1>t. TypeOK /\ Mutex /\ Producing /\ Consuming /\ Private
    BY DEF QInv
  <1>1. /\ UNCHANGED <<kind, next, head, length, head_lock, tail_lock, client, node,
                       tmp, ret, items>>
        /\ pc[t] = "push_tail" /\ tail' = node[t]
        /\ pc' = [pc EXCEPT ![t] = IF kind = "queue" THEN "push_load" ELSE "push_clear"]
    BY DEF PushTail, Goto
  <1>2. \A u \in Threads : pc'[u] = IF u # t THEN pc[u]
                                    ELSE IF kind = "queue" THEN "push_load"
                                    ELSE "push_clear"
    BY <1>1, <1>t DEF TypeOK
  <1>3. node[t] = LastNode /\ LastNode \in Nodes
    BY <1>1, <1>t, LastIsInQueue DEF Producing
  <1>4. Linked' /\ Distinct' /\ LastNode' = LastNode
    BY <1>1 DEF QInv, Linked, Distinct, LastNode
  <1>5. TypeOK'
    BY <1>1, <1>3, <1>t DEF TypeOK, PushLabels
  <1>6. Mutex'
    BY <1>1, <1>2, <1>t DEF Mutex, HasTailLock, HasHeadLock, PushLabels, PopLabels
  <1>7. Producing'
    BY <1>1, <1>2, <1>3, <1>4, <1>t DEF Producing
  <1>8. Consuming' /\ Private'
    BY <1>1, <1>2, <1>t DEF Consuming, Private, Pushing
  <1>9. (kind = "list" => CleanNodes)'
    BY <1>1 DEF QInv
  <1> QED BY <1>4, <1>5, <1>6, <1>7, <1>8, <1>9 DEF QInv

\* list.c clears a pointer that is NULL already: nobody can have linked a node
\* behind this one, nor pushed it again, while the producer holds the lock.
LEMMA PushClearKeeps ==
    ASSUME QInv, NEW t \in Threads, PushClear(t) PROVE QInv'
  <1>t. TypeOK /\ Mutex /\ Producing /\ Consuming /\ Private
    BY DEF QInv
  <1>1. /\ UNCHANGED <<kind, head, tail, length, head_lock, tail_lock, client, node,
                       tmp, ret, items>>
        /\ pc[t] = "push_clear" /\ next' = [next EXCEPT ![node[t]] = NULL]
        /\ pc' = [pc EXCEPT ![t] = "push_load"]
    BY DEF PushClear, Goto
  <1>2. \A u \in Threads : pc'[u] = IF u = t THEN "push_load" ELSE pc[u]
    BY <1>1, <1>t DEF TypeOK
  <1>3. node[t] = LastNode /\ LastNode \in Nodes /\ next[LastNode] = NULL
    BY <1>1, <1>t, LastIsInQueue DEF Producing
  <1>4. next' = next
    <2>1. next \in [Nodes -> Nodes \cup {NULL}]
      BY <1>t DEF TypeOK
    <2> QED BY <1>1, <1>3, <2>1
  <1>5. Linked' /\ Distinct' /\ LastNode' = LastNode
    BY <1>1, <1>4 DEF QInv, Linked, Distinct, LastNode
  <1>6. TypeOK'
    BY <1>1, <1>4, <1>t DEF TypeOK, PushLabels
  <1>7. Mutex'
    BY <1>1, <1>2, <1>t DEF Mutex, HasTailLock, HasHeadLock, PushLabels, PopLabels
  <1>8. Producing'
    BY <1>1, <1>2, <1>5, <1>t DEF Producing
  <1>9. Consuming' /\ Private'
    BY <1>1, <1>2, <1>4, <1>t DEF Consuming, Private, Pushing
  <1>10. (kind = "list" => CleanNodes)'
    BY <1>1 DEF QInv
  <1> QED BY <1>5, <1>6, <1>7, <1>8, <1>9, <1>10 DEF QInv

-----------------------------------------------------------------------------
(* A pop *)

LEMMA PopTakeKeeps ==
    ASSUME QInv, NEW t \in Threads, PopTake(t) PROVE QInv'
  <1> DEFINE L == Len(items)
  <1>t. /\ TypeOK /\ Mutex /\ Linked /\ Distinct /\ Producing /\ Consuming /\ Private
        /\ kind = "list" => CleanNodes
    BY DEF QInv
  <1>1. /\ UNCHANGED <<kind, next, tail, length, head_lock, tail_lock, client, node,
                       tmp>>
        /\ pc[t] = "pop_take" /\ head' = node[t]
        /\ ret' = [ret EXCEPT ![t] = node[t]]
        /\ items # <<>> => items' = Tail(items)
        /\ pc' = [pc EXCEPT ![t] = "pop_load"]
    BY DEF PopTake, Goto
  <1>2. items # <<>> /\ head' = items[1]
    BY <1>1, <1>t DEF Consuming
  <1>3. /\ L \in Nat /\ L # 0 /\ items' \in Seq(Nodes) /\ Len(items') = L - 1
        /\ \A k \in 1 .. L - 1 : items'[k] = items[k + 1]
        /\ (items' = <<>>) <=> (L = 1)
    <2>1. items \in Seq(Nodes) /\ items' = Tail(items)
      BY <1>1, <1>2, <1>t DEF TypeOK
    <2>2. L \in Nat /\ L # 0
      BY <1>2, LastIsInQueue
    <2>3. /\ items' \in Seq(Nodes) /\ Len(items') = L - 1
          /\ \A k \in 1 .. L - 1 : items'[k] = items[k + 1]
      BY <1>2, <2>1, HeadTailProperties
    <2>4. (items' = <<>>) <=> (Len(items') = 0)
      BY <2>3, EmptySeq
    <2> QED BY <2>2, <2>3, <2>4
  <1>4. head' \in Nodes /\ LastNode' = LastNode
    <2>1. head' \in Nodes
      BY <1>2, <1>3, LastIsInQueue
    <2>2. CASE L = 1
      <3>1. items' = <<>>
        BY <2>2, <1>3
      <3>2. LastNode' = items[1]
        BY <3>1, <1>2 DEF LastNode
      <3>3. LastNode = items[1]
        BY <2>2, <1>2 DEF LastNode
      <3> QED BY <2>1, <3>2, <3>3
    <2>3. CASE L # 1
      <3>1. items' # <<>> /\ L - 1 \in 1 .. L - 1
        BY <2>3, <1>3
      <3>2. items'[L - 1] = items[L]
        BY <3>1, <1>3
      <3>3. LastNode' = items'[L - 1]
        BY <3>1, <1>3 DEF LastNode
      <3>4. LastNode = items[L]
        BY <1>2 DEF LastNode
      <3> QED BY <2>1, <3>2, <3>3, <3>4
    <2> QED BY <2>1, <2>2, <2>3
  <1>5. \A u \in Threads : /\ pc'[u] = IF u = t THEN "pop_load" ELSE pc[u]
                           /\ u # t => ret'[u] = ret[u]
    BY <1>1, <1>t DEF TypeOK
  <1>6. TypeOK'
    <2>1. node[t] \in Nodes
      BY <1>1, <1>4
    <2> QED BY <2>1, <1>1, <1>3, <1>t DEF TypeOK, PopLabels
  <1>7. Mutex'
    BY <1>1, <1>5, <1>t DEF Mutex, HasTailLock, HasHeadLock, PushLabels, PopLabels
  <1>8. Linked'
    <2>1. next[items[1]] = IF L = 1 THEN NULL ELSE items'[1]
      <3>1. 1 \in 1 .. L
        BY <1>3
      <3> QED BY <3>1, <1>3, <1>t DEF Linked
    <2>2. ASSUME NEW k \in 1 .. L - 1
          PROVE  next[items'[k]] = IF k = L - 1 THEN NULL ELSE items'[k + 1]
      <3>1. k + 1 \in 1 .. L /\ items'[k] = items[k + 1]
        BY <1>3
      <3>2. k # L - 1 => items'[k + 1] = items[k + 1 + 1]
        BY <1>3
      <3> QED BY <3>1, <3>2, <1>3, <1>t DEF Linked
    <2>3. head' = items[1] /\ next' = next /\ Len(items') = L - 1
      BY <1>1, <1>2, <1>3
    <2> QED BY <2>1, <2>2, <2>3, <1>3 DEF Linked
  <1>9. Distinct'
    <2>1. \A j, k \in 1 .. L - 1 : items'[j] = items'[k] => j = k
      BY <1>3, <1>t DEF Distinct
    <2>2. \A k \in 1 .. L - 1 : items'[k] # items[1]
      BY <1>3, <1>t DEF Distinct
    <2> QED BY <2>1, <2>2, <1>2, <1>3 DEF Distinct
  <1>10. Producing'
    BY <1>1, <1>4, <1>5, <1>t DEF Producing
  <1>11. Consuming'
    <2>1. \A u \in Threads : u # t => pc[u] \notin HasHeadLock
      BY <1>1, <1>t DEF Mutex, HasHeadLock, PopLabels
    <2>2. \A u \in Threads : u # t =>
            pc'[u] \notin {"pop_take", "pop_load", "pop_store", "pop_unlock"}
      BY <2>1, <1>5 DEF HasHeadLock, PopLabels
    <2> QED BY <2>2, <1>1, <1>5, <1>t DEF Consuming
  <1>12. Private'
    <2>1. \A u \in Threads : Pushing(u)' <=> Pushing(u)
      BY <1>1, <1>5 DEF Pushing
    <2>2. \A k \in 1 .. L - 1 : \E j \in 1 .. L : items'[k] = items[j]
      BY <1>3
    <2>3. \A k \in 1 .. L - 1 : items'[k] \notin client
      BY <2>2, <1>t DEF Private
    <2>4. 1 \in 1 .. L
      BY <1>3
    <2>5. \A u \in Threads : Pushing(u) =>
            /\ node[u] \in Nodes \ client /\ node[u] # items[1]
            /\ \A k \in 1 .. L - 1 : items'[k] # node[u]
            /\ kind = "list" => next[node[u]] = NULL
      BY <2>2, <2>4, <1>t DEF Private
    <2>6. \A u, v \in Threads :
            (Pushing(u) /\ Pushing(v) /\ u # v) => node[u] # node[v]
      BY <1>t DEF Private
    <2> QED BY <2>1, <2>3, <2>5, <2>6, <1>1, <1>2, <1>3 DEF Private
  <1> QED BY <1>1, <1>t, <1>6, <1>7, <1>8, <1>9, <1>10, <1>11, <1>12 DEF QInv

LEMMA PopUnlockKeeps ==
    ASSUME QInv, NEW t \in Threads, PopUnlock(t) PROVE QInv'
  <1>t. TypeOK /\ Mutex /\ Distinct /\ Producing /\ Consuming /\ Private
    BY DEF QInv
  <1>1. /\ UNCHANGED <<kind, next, head, tail, length, tail_lock, tmp, ret, items>>
        /\ pc[t] = "pop_unlock" /\ head_lock' = FALSE
        /\ client' = client \cup ({node[t]} \ {NULL})
        /\ node' = [node EXCEPT ![t] = NULL]
        /\ pc' = [pc EXCEPT ![t] = "idle"]
    BY DEF PopUnlock, Goto
  <1>2. \A u \in Threads : /\ pc'[u] = IF u = t THEN "idle" ELSE pc[u]
                           /\ u # t => node'[u] = node[u]
    BY <1>1, <1>t DEF TypeOK
  <1>3. client' \subseteq client \cup {head} /\ client' \subseteq Nodes
    BY <1>1, <1>t DEF Consuming, TypeOK
  <1>4. TypeOK'
    BY <1>1, <1>3, <1>t DEF TypeOK
  <1>5. Mutex'
    BY <1>1, <1>2, <1>t DEF Mutex, HasTailLock, HasHeadLock, PushLabels, PopLabels
  <1>6. Producing' /\ Consuming'
    BY <1>1, <1>2, <1>t DEF Producing, Consuming, LastNode
  <1>7. Private'
    <2>1. \A u \in Threads : Pushing(u)' => u # t /\ Pushing(u)
      BY <1>1, <1>2 DEF Pushing
    <2> QED BY <2>1, <1>1, <1>2, <1>3, <1>t DEF Private, Distinct
  <1> QED BY <1>1, <1>4, <1>5, <1>6, <1>7, PointersKept DEF QInv

-----------------------------------------------------------------------------

LEMMA QNext ==
    ASSUME QInv, [Next]_vars PROVE QInv'
  <1>1. CASE UNCHANGED vars
    <2>1. UNCHANGED <<kind, next, head, tail, length, head_lock, tail_lock, client,
                      pc, node, tmp, ret, items>>
      BY <1>1 DEF vars
    <2>2. TypeOK' /\ Mutex' /\ Producing' /\ Consuming' /\ Private'
      BY <2>1 DEF QInv, TypeOK, Mutex, Producing, Consuming, Private, Pushing, LastNode
    <2> QED BY <2>1, <2>2, PointersKept DEF QInv
  <1>2. CASE \E t \in Threads : Call(t)
    BY <1>2, PushCallKeeps, PopCallKeeps DEF Call
  <1>3. CASE \E t \in Threads : PushStep(t)
    BY <1>3, PushLockKeeps, PushLinkKeeps, PushTailKeeps, PushClearKeeps,
       PushLoadKeeps, PushStoreKeeps, PushUnlockKeeps DEF PushStep
  <1>4. CASE \E t \in Threads : PopStep(t)
    BY <1>4, PopTryKeeps, PopLockKeeps, PopReadKeeps, PopTakeKeeps, PopLoadKeeps,
       PopStoreKeeps, PopUnlockKeeps DEF PopStep
  <1> QED BY <1>1, <1>2, <1>3, <1>4 DEF Next

LEMMA QInvariant == ASSUME CleanPushes PROVE Spec => []QInv
  <1>1. Init => QInv
    BY QInit
  <1>2. QInv /\ [Next]_vars => QInv'
    BY QNext
  <1> QED BY <1>1, <1>2, PTL DEF Spec

\* Type correctness of the queue and its threads.
THEOREM QueueTypeCorrect == ASSUME CleanPushes PROVE Spec => []TypeOK
  <1>1. QInv => TypeOK
    BY DEF QInv
  <1> QED BY <1>1, QInvariant, PTL

\* The pointers of the queue spell out what was linked and not yet taken, also in the
\* midst of a push.
THEOREM LinksSpellItemsHolds == ASSUME CleanPushes PROVE Spec => []LinksSpellItems
  <1>1. QInv => LinksSpellItems
    <2> SUFFICES ASSUME QInv PROVE LinksSpellItems
      OBVIOUS
    <2> DEFINE chain == <<head>> \o items
    <2>t. TypeOK /\ Linked /\ Producing
      BY DEF QInv
    <2>1. /\ Len(items) \in Nat /\ Len(chain) = Len(items) + 1 /\ chain[1] = head
          /\ \A k \in 1 .. Len(items) : chain[k + 1] = items[k]
      BY <2>t DEF TypeOK
    <2>2. chain[Len(chain)] = LastNode
      BY <2>1, LastIsInQueue
    <2>3. next[LastNode] = NULL
      BY LastIsInQueue
    <2>4. ASSUME NEW k \in 1 .. Len(items)
          PROVE  next[chain[k]] = chain[k + 1]
      <3>1. CASE k = 1
        BY <3>1, <2>1, <2>t, LastIsInQueue DEF Linked
      <3>2. CASE k # 1
        <4>1. k - 1 \in 1 .. Len(items) /\ k - 1 # Len(items) /\ (k - 1) + 1 = k
          BY <3>2, <2>1
        <4>2. chain[k] = items[k - 1] /\ chain[k + 1] = items[k]
          BY <4>1, <2>1
        <4> QED BY <4>1, <4>2, <2>t DEF Linked
      <3> QED BY <3>1, <3>2
    <2>5. \/ tail = LastNode
          \/ \E t \in Threads : pc[t] = "push_tail" /\ node[t] = LastNode
      BY <2>t DEF Producing
    <2> HIDE DEF chain
    <2>6. /\ \A k \in 1 .. Len(items) : next[chain[k]] = chain[k + 1]
          /\ next[chain[Len(chain)]] = NULL
          /\ \/ tail = chain[Len(chain)]
             \/ \E t \in Threads :
                   pc[t] = "push_tail" /\ node[t] = chain[Len(chain)]
      BY <2>2, <2>3, <2>4, <2>5
    <2> QED BY <2>6 DEF LinksSpellItems, chain
  <1> QED BY <1>1, QInvariant, PTL

\* The range of the items, by index.
LEMMA ItemsRange ==
    ASSUME QInv
    PROVE  \A x : x \in Range(items) <=> \E k \in 1 .. Len(items) : x = items[k]
  BY DEF QInv, TypeOK, Range

-----------------------------------------------------------------------------
(* Every taken lock has a thread that took it *)

LocksHeld ==
    /\ tail_lock => \E t \in Threads : pc[t] \in HasTailLock
    /\ head_lock => \E t \in Threads : pc[t] \in HasHeadLock

LEMMA LocksHeldStep ==
    ASSUME TypeOK, LocksHeld, [Next]_vars PROVE LocksHeld'
  <1> USE DEF HasTailLock, HasHeadLock, PushLabels, PopLabels
  <1>1. CASE UNCHANGED vars
    BY <1>1 DEF vars, LocksHeld
  <1>2. ASSUME NEW t \in Threads, NEW label, pc' = [pc EXCEPT ![t] = label]
        PROVE  \A u \in Threads : pc'[u] = IF u = t THEN label ELSE pc[u]
    BY <1>2 DEF TypeOK
  <1>3. ASSUME NEW t \in Threads, Call(t) PROVE LocksHeld'
    <2>1. PICK label : /\ pc[t] = "idle" /\ UNCHANGED <<tail_lock, head_lock>>
                       /\ pc' = [pc EXCEPT ![t] = label]
      BY <1>3 DEF Call, PushCall, PopCall, Goto
    <2> QED BY <1>2, <2>1 DEF LocksHeld
  <1>4. ASSUME NEW t \in Threads, PushStep(t) PROVE LocksHeld'
    <2>1. CASE PushLock(t)
      <3>1. /\ pc[t] = "push_lock" /\ UNCHANGED head_lock
            /\ pc' = [pc EXCEPT ![t] = "push_link"]
        BY <2>1 DEF PushLock, Goto
      <3>2. \A u \in Threads : pc'[u] = IF u = t THEN "push_link" ELSE pc[u]
        BY <1>2, <3>1
      <3>3. pc'[t] \in HasTailLock
        BY <3>2
      <3>4. \A u \in Threads : pc[u] \in HasHeadLock => pc'[u] \in HasHeadLock
        BY <3>1, <3>2
      <3> QED BY <3>1, <3>3, <3>4 DEF LocksHeld
    <2>2. CASE PushUnlock(t)
      <3>1. /\ pc[t] = "push_unlock" /\ tail_lock' = FALSE /\ UNCHANGED head_lock
            /\ pc' = [pc EXCEPT ![t] = "idle"]
        BY <2>2 DEF PushUnlock, Goto
      <3> QED BY <1>2, <3>1 DEF LocksHeld
    <2>3. CASE \/ PushLink(t) \/ PushTail(t) \/ PushClear(t)
               \/ PushLoad(t) \/ PushStore(t)
      <3>1. PICK label \in HasTailLock :
               /\ pc[t] \in HasTailLock /\ UNCHANGED <<tail_lock, head_lock>>
               /\ pc' = [pc EXCEPT ![t] = label]
        BY <2>3 DEF PushLink, PushTail, PushClear, PushLoad, PushStore, Goto
      <3> QED BY <1>2, <3>1 DEF LocksHeld
    <2> QED BY <1>4, <2>1, <2>2, <2>3 DEF PushStep
  <1>5. ASSUME NEW t \in Threads, PopStep(t) PROVE LocksHeld'
    <2>1. CASE PopTry(t) \/ PopLock(t)
      BY <1>2, <2>1 DEF LocksHeld, PopTry, PopLock, Goto
    <2>2. CASE PopUnlock(t)
      <3>1. /\ pc[t] = "pop_unlock" /\ head_lock' = FALSE /\ UNCHANGED tail_lock
            /\ pc' = [pc EXCEPT ![t] = "idle"]
        BY <2>2 DEF PopUnlock, Goto
      <3> QED BY <1>2, <3>1 DEF LocksHeld
    <2>3. CASE PopRead(t) \/ PopTake(t) \/ PopLoad(t) \/ PopStore(t)
      <3>1. PICK label \in HasHeadLock :
               /\ pc[t] \in HasHeadLock /\ UNCHANGED <<tail_lock, head_lock>>
               /\ pc' = [pc EXCEPT ![t] = label]
        BY <2>3 DEF PopRead, PopTake, PopLoad, PopStore, Goto
      <3> QED BY <1>2, <3>1 DEF LocksHeld
    <2> QED BY <1>5, <2>1, <2>2, <2>3 DEF PopStep
  <1> QED BY <1>1, <1>3, <1>4, <1>5 DEF Next

\* No two parties can write to a node, and no call leaves a lock behind.
THEOREM NoSharingHolds == ASSUME CleanPushes PROVE Spec => []NoSharing
  <1>1. ASSUME QInv, LocksHeld PROVE NoSharing
    <2>t. Private
      BY <1>1 DEF QInv
    <2>1. client \cap Range(items) = {}
      BY <1>1, <2>t, ItemsRange DEF Private
    <2>2. \A t \in Threads : Pushing(t) =>
            /\ node[t] \notin client \cup Range(items) \cup {head}
            /\ \A u \in Threads \ {t} : Pushing(u) => node[t] # node[u]
      BY <1>1, <2>t, ItemsRange DEF Private
    <2>3. \A t \in Threads : pc[t] = "push_link" => node[t] # tail
      BY <1>1, TailIsLast, LastIsInQueue DEF Pushing
    <2> QED BY <1>1, <2>1, <2>2, <2>3 DEF NoSharing, Pushing, LocksHeld
  <1>2. Init => LocksHeld
    BY DEF Init, LocksHeld
  <1>3. QInv /\ LocksHeld /\ [Next]_vars => LocksHeld'
    BY LocksHeldStep DEF QInv
  <1> QED BY <1>1, <1>2, <1>3, QInvariant, PTL DEF Spec

-----------------------------------------------------------------------------
(* The queue implements Fifo *)

LEMMA FifoStep ==
    ASSUME QInv, [Next]_vars
    PROVE  [FifoQueue!Next]_(FifoQueue!vars)
  <1>t. TypeOK /\ Linked /\ Consuming /\ Private
    BY DEF QInv
  <1>1. CASE UNCHANGED <<items, ret>>
    BY <1>1 DEF FifoQueue!vars
  <1>2. ASSUME NEW t \in Threads, PushLink(t)
        PROVE  FifoQueue!Next
    <2>1. pc[t] = "push_link" /\ items' = Append(items, node[t]) /\ ret' = ret
      BY <1>2 DEF PushLink
    <2>2. node[t] \in Nodes /\ node[t] \notin Range(items)
      BY <2>1, <1>t, ItemsRange DEF Private, Pushing
    <2>3. FifoQueue!Push(node[t])
      BY <2>1, <2>2 DEF FifoQueue!Push, FifoQueue!Range, Range
    <2> QED BY <2>2, <2>3 DEF FifoQueue!Next
  <1>3. ASSUME NEW t \in Threads, PopTake(t)
        PROVE  FifoQueue!Next
    <2>1. /\ items # <<>> /\ node[t] = items[1] /\ ret[t] = NONE
          /\ items' = Tail(items) /\ ret' = [ret EXCEPT ![t] = node[t]]
      BY <1>3, <1>t DEF PopTake, Consuming
    <2>2. node[t] = Head(items)
      BY <2>1, <1>t DEF TypeOK
    <2>3. FifoQueue!Take(t)
      BY <2>1, <2>2 DEF FifoQueue!Take, FifoQueue!Answer
    <2> QED BY <2>3 DEF FifoQueue!Next
  <1>4. ASSUME NEW t \in Threads, PopRead(t)
        PROVE  FifoQueue!Next \/ UNCHANGED <<items, ret>>
    <2>1. /\ items' = items /\ ret[t] = NONE
          /\ next[head] = NULL => ret' = [ret EXCEPT ![t] = EMPTY]
          /\ next[head] # NULL => ret' = ret
      BY <1>4, <1>t DEF PopRead, Consuming
    <2>2. next[head] = NULL => items = <<>>
      <3>1. items # <<>> => items[1] \in Nodes /\ next[head] = items[1]
        BY <1>t, LastIsInQueue DEF Linked
      <3> QED BY <3>1, QueueAssumption
    <2>3. next[head] = NULL => FifoQueue!Empty(t)
      BY <2>1, <2>2 DEF FifoQueue!Empty, FifoQueue!Answer
    <2> QED BY <2>1, <2>3 DEF FifoQueue!Next
  <1>5. ASSUME NEW t \in Threads, PopTry(t)
        PROVE  FifoQueue!Next \/ UNCHANGED <<items, ret>>
    <2>1. /\ items' = items /\ ret[t] = NONE
          /\ ret' = ret \/ ret' = [ret EXCEPT ![t] = BUSY]
      BY <1>5, <1>t DEF PopTry, Consuming
    <2>2. ret' = [ret EXCEPT ![t] = BUSY] => FifoQueue!Busy(t)
      BY <2>1 DEF FifoQueue!Busy, FifoQueue!Answer
    <2> QED BY <2>1, <2>2 DEF FifoQueue!Next
  <1>6. ASSUME NEW t \in Threads, NEW label, PopCall(t, label)
        PROVE  FifoQueue!Next
    <2>1. FifoQueue!Call(t)
      BY <1>6 DEF PopCall, FifoQueue!Call
    <2> QED BY <2>1 DEF FifoQueue!Next
  <1>7. ASSUME NEW t \in Threads, Call(t)
        PROVE  FifoQueue!Next \/ UNCHANGED <<items, ret>>
    BY <1>6, <1>7 DEF Call, PushCall
  <1>8. ASSUME NEW t \in Threads, PushStep(t)
        PROVE  FifoQueue!Next \/ UNCHANGED <<items, ret>>
    BY <1>2, <1>8 DEF PushStep, PushLock, PushTail, PushClear, PushLoad, PushStore,
       PushUnlock
  <1>9. ASSUME NEW t \in Threads, PopStep(t)
        PROVE  FifoQueue!Next \/ UNCHANGED <<items, ret>>
    BY <1>3, <1>4, <1>5, <1>9 DEF PopStep, PopLock, PopLoad, PopStore, PopUnlock
  <1>10. CASE UNCHANGED vars
    BY <1>10, <1>1 DEF vars
  <1> QED BY <1>1, <1>7, <1>8, <1>9, <1>10 DEF Next

\* queue.c and list.c are queues: each node comes out once and in the order the nodes
\* were linked, whatever the threads do, and a consumer is told that there is none
\* only while there is none.
THEOREM ImplementsFifoHolds == ASSUME CleanPushes PROVE Spec => ImplementsFifo
  <1>1. Init => FifoQueue!Init
    BY DEF Init, FifoQueue!Init
  <1>2. QInv /\ [Next]_vars => [FifoQueue!Next]_(FifoQueue!vars)
    BY FifoStep
  <1> QED BY <1>1, <1>2, QInvariant, PTL DEF Spec, ImplementsFifo, FifoQueue!Spec
=============================================================================
