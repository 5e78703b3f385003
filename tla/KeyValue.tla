------------------------------ MODULE KeyValue ------------------------------
(***************************************************************************)
(* The key-value store (keyvalue.c): a table of red-black trees over the   *)
(* hashes of the keys, with a memory budget, on top of the memory pool.    *)
(* It has no locks; one thread uses it.  A call of key_value_set is        *)
(* modelled in the steps the code takes, because it may stop half-way when *)
(* the pool has no memory, and because rebalancing is a loop.              *)
(*                                                                         *)
(* What the pool gives out is counted by what it is given out for: nodes,  *)
(* and the values data blocks hold.  A call that returns at once without   *)
(* changing anything is a stuttering step.  expire is written and never    *)
(* read; it is left out.                                                   *)
(***************************************************************************)
EXTENDS RbTree, SizeClasses, FiniteSets, FiniteSetsExt

CONSTANTS
    Keys,
    Hash,            \* generate_hash: the integer each key is hashed to
    Vals,
    ValLen,          \* the length of each value in bytes
    MaxLen,          \* bound on that length, a uint32_t
    ValsOf,          \* the values a key is set to
    KEY_VALUE_SIZE,  \* the number of buckets
    MaxMemory,       \* max_memory, in bytes
    GARBAGE,         \* an uninitialised pointer
    SentinelLinks    \* what the sentinel's left and right may hold

ASSUME KeyValueAssumption ==
    /\ Hash \in [Keys -> Nat] /\ Nodes = {Hash[k] : k \in Keys}
    /\ MaxLen \in Nat /\ ValLen \in [Vals -> 1 .. MaxLen]
    /\ ValsOf \in [Keys -> SUBSET Vals]
    /\ KEY_VALUE_SIZE \in Nat \ {0} /\ MaxMemory \in Nat
    /\ NULL \notin Keys \cup Vals
    /\ GARBAGE \notin Nodes \cup {SENTINEL, NULL}
    /\ SentinelLinks \subseteq {NULL, GARBAGE}

VARIABLES
    table,          \* key_value_table
    links,          \* the sentinel's left and right, never initialised
    data,           \* node->data
    count, used_memory,
    nodes_out, data_out,  \* blocks the pool has given out and not taken back
    pc,
    key, val,       \* the arguments of the call
    cur,            \* temp of the walk, or the node being rebalanced
    old,            \* old_data
    pos             \* the bucket key_value_destroy is at

storeVars == <<table, links, data, count, used_memory>>
callVars  == <<key, val, old>>
vars == <<storeVars, nodes_out, data_out, pc, callVars, cur, pos>>

Positions == 0 .. (KEY_VALUE_SIZE - 1)
Pos(h) == h % KEY_VALUE_SIZE

\* key_value_init.  All trees share the sentinel, of which only the colour is
\* set.
Init ==
    /\ table = [p \in Positions |-> Empty]
    /\ links \in SentinelLinks
    /\ data = [n \in Nodes |-> NULL]
    /\ count = 0 /\ used_memory = 0
    /\ nodes_out = 0 /\ data_out = [v \in Vals |-> 0]
    /\ pc = "idle"
    /\ key = NULL /\ val = NULL /\ old = NULL
    /\ cur = NULL /\ pos = 0

\* mem_chunk_get_data_size of the block a value is in: its size class, or what was
\* asked for when no class is so large.
BlockSize(v) ==
    IF Pooled(ValLen[v]) THEN ChunkSize(mem_pool_get_set_by_size(ValLen[v]))
    ELSE ValLen[v]

Goto(label) == pc' = label

Tree == table[Pos(Hash[key])]
SetTree(T) == table' = [table EXCEPT ![Pos(Hash[key])] = T]

-----------------------------------------------------------------------------
(* key_value_set *)

OverBudget(v) == used_memory + ValLen[v] > MaxMemory

\* The budget has room for the value and the pool for the node.
Set(k, v) ==
    /\ pc = "idle"
    /\ ~OverBudget(v)
    /\ key' = k /\ val' = v
    /\ nodes_out' = nodes_out + 1
    /\ Goto("data")
    /\ UNCHANGED <<storeVars, data_out, cur, old, pos>>

\* Mutant: the node goes back twice.
NoData_FreesTwice ==
    /\ pc = "data"
    /\ nodes_out' = nodes_out - 2
    /\ key' = NULL /\ val' = NULL
    /\ Goto("idle")
    /\ UNCHANGED <<storeVars, data_out, cur, old, pos>>

\* The pool has no block for the value: the node goes back.
NoData ==
    /\ pc = "data"
    /\ nodes_out' = nodes_out - 1
    /\ key' = NULL /\ val' = NULL
    /\ Goto("idle")
    /\ UNCHANGED <<storeVars, data_out, cur, old, pos>>

GetData ==
    /\ pc = "data"
    /\ data_out' = [data_out EXCEPT ![val] = @ + 1]
    /\ Goto("insert")
    /\ UNCHANGED <<storeVars, nodes_out, callVars, cur, pos>>

\* rbtree_insert
InsertRoot ==
    /\ pc = "insert"
    /\ Tree.root = SENTINEL
    /\ SetTree(PlantRoot(Tree, Hash[key]))
    /\ data' = [data EXCEPT ![Hash[key]] = val]
    /\ Goto("account")
    /\ UNCHANGED <<links, count, used_memory, nodes_out, data_out, callVars, cur,
                   pos>>

InsertBelow ==
    /\ pc = "insert"
    /\ Tree.root # SENTINEL
    /\ cur' = Tree.root
    /\ Goto("descend")
    /\ UNCHANGED <<storeVars, nodes_out, data_out, callVars, pos>>

\* key_value_rbtree_insert_value
NextNode(n) == Tree.child[Toward(Hash[key], n)][n]

Descend ==
    /\ pc = "descend"
    /\ cur # Hash[key]
    /\ NextNode(cur) # SENTINEL
    /\ cur' = NextNode(cur)
    /\ UNCHANGED <<storeVars, nodes_out, data_out, pc, callVars, pos>>

AttachLeaf ==
    /\ pc = "descend"
    /\ cur # Hash[key]
    /\ NextNode(cur) = SENTINEL
    /\ SetTree(Attach(Tree, Hash[key], cur))
    /\ data' = [data EXCEPT ![Hash[key]] = val]
    /\ cur' = Hash[key]
    /\ Goto("balance")
    /\ UNCHANGED <<links, count, used_memory, nodes_out, data_out, callVars, pos>>

\* Mutant: the node found keeps its old value.
Overwrite_KeepsData ==
    /\ pc = "descend"
    /\ cur = Hash[key]
    /\ old' = val
    /\ cur' = NULL
    /\ Goto("account")
    /\ UNCHANGED <<storeVars, nodes_out, data_out, key, val, pos>>

\* A node with the hash of the key: it takes over the new data.
Overwrite ==
    /\ pc = "descend"
    /\ cur = Hash[key]
    /\ old' = data[cur]
    /\ data' = [data EXCEPT ![cur] = val]
    /\ cur' = NULL
    /\ Goto("account")
    /\ UNCHANGED <<table, links, count, used_memory, nodes_out, data_out, key,
                   val, pos>>

BalanceRecolor ==
    /\ pc = "balance"
    /\ Unbalanced(Tree, cur) /\ Tree.red[Uncle(Tree, cur)]
    /\ SetTree(Recolor(Tree, cur))
    /\ cur' = Grandparent(Tree, cur)
    /\ UNCHANGED <<links, data, count, used_memory, nodes_out, data_out, pc,
                   callVars, pos>>

BalanceRotate ==
    /\ pc = "balance"
    /\ Unbalanced(Tree, cur) /\ ~Tree.red[Uncle(Tree, cur)]
    /\ SetTree(BlackenRoot(Straighten(Tree, cur)))
    /\ cur' = NULL
    /\ Goto("account")
    /\ UNCHANGED <<links, data, count, used_memory, nodes_out, data_out, callVars,
                   pos>>

Balanced ==
    /\ pc = "balance"
    /\ ~Unbalanced(Tree, cur)
    /\ SetTree(BlackenRoot(Tree))
    /\ cur' = NULL
    /\ Goto("account")
    /\ UNCHANGED <<links, data, count, used_memory, nodes_out, data_out, callVars,
                   pos>>

\* Mutant: the old value's memory is not credited.
Account_NoCredit ==
    /\ pc = "account"
    /\ used_memory' = used_memory + BlockSize(val)
    /\ IF old = NULL
       THEN count' = count + 1 /\ UNCHANGED <<nodes_out, data_out>>
       ELSE /\ nodes_out' = nodes_out - 1
            /\ data_out' = [data_out EXCEPT ![old] = @ - 1]
            /\ UNCHANGED count
    /\ key' = NULL /\ val' = NULL /\ old' = NULL
    /\ Goto("idle")
    /\ UNCHANGED <<table, links, data, cur, pos>>

\* Mutant: the node that was not inserted stays allocated.
Account_KeepsNode ==
    /\ pc = "account"
    /\ used_memory' =
          used_memory + BlockSize(val) - (IF old = NULL THEN 0 ELSE BlockSize(old))
    /\ IF old = NULL
       THEN count' = count + 1 /\ UNCHANGED <<nodes_out, data_out>>
       ELSE /\ data_out' = [data_out EXCEPT ![old] = @ - 1]
            /\ UNCHANGED <<nodes_out, count>>
    /\ key' = NULL /\ val' = NULL /\ old' = NULL
    /\ Goto("idle")
    /\ UNCHANGED <<table, links, data, cur, pos>>

\* The new value is charged and counted; of an overwrite the old value is credited
\* and freed, with the node that was not needed.
Account ==
    /\ pc = "account"
    /\ used_memory' =
          used_memory + BlockSize(val) - (IF old = NULL THEN 0 ELSE BlockSize(old))
    /\ IF old = NULL
       THEN count' = count + 1 /\ UNCHANGED <<nodes_out, data_out>>
       ELSE /\ nodes_out' = nodes_out - 1
            /\ data_out' = [data_out EXCEPT ![old] = @ - 1]
            /\ UNCHANGED count
    /\ key' = NULL /\ val' = NULL /\ old' = NULL
    /\ Goto("idle")
    /\ UNCHANGED <<table, links, data, cur, pos>>

-----------------------------------------------------------------------------
(* key_value_get *)

\* The node a walk from the root finds for a hash, or the sentinel.
Find(h) ==
    LET T == table[Pos(h)]
        f[n \in Places \cup {NULL}] ==
            IF n \in Nodes \ {h} THEN f[T.child[Toward(h, n)][n]] ELSE n
    IN  f[T.root]

key_value_get(k) ==
    IF Find(Hash[k]) = SENTINEL THEN NULL ELSE data[Find(Hash[k])]

-----------------------------------------------------------------------------
(* key_value_destroy: rbtree_destroy on each bucket frees leaf after leaf. *)

Destroy ==
    /\ pc = "idle"
    /\ pos' = 0
    /\ cur' = table[0].root
    /\ Goto("destroy")
    /\ UNCHANGED <<storeVars, nodes_out, data_out, callVars>>

Child(d, n) == IF n = SENTINEL THEN links ELSE table[pos].child[d][n]

\* Down to the left if there is something, else to the right.  The sentinel is
\* the root of an empty tree, and its links lead anywhere.
DestroyDown ==
    /\ pc = "destroy"
    /\ cur \in Nodes \cup {SENTINEL}
    /\ \/ /\ Child("left", cur) # SENTINEL
          /\ cur' = Child("left", cur)
       \/ /\ Child("left", cur) = SENTINEL
          /\ Child("right", cur) # SENTINEL
          /\ cur' = Child("right", cur)
    /\ UNCHANGED <<storeVars, nodes_out, data_out, pc, callVars, pos>>

\* A leaf is cut off its parent and freed with its value.
DestroyLeaf ==
    /\ pc = "destroy"
    /\ cur \in Nodes
    /\ \A d \in Side : Child(d, cur) = SENTINEL
    /\ LET T == table[pos]
           p == T.parent[cur]
       IN  /\ table' = IF p = NULL THEN table
                       ELSE [table EXCEPT
                               ![pos].child[SideOf(T, cur)][p] = SENTINEL]
           /\ cur' = p
    /\ nodes_out' = nodes_out - 1
    /\ data_out' = [data_out EXCEPT ![data[cur]] = @ - 1]
    /\ data' = [data EXCEPT ![cur] = NULL]
    /\ UNCHANGED <<links, count, used_memory, pc, callVars, pos>>

\* NULL, above the root or behind a zeroed sentinel, ends a bucket.
DestroyNext ==
    /\ pc = "destroy"
    /\ cur = NULL
    /\ IF pos = KEY_VALUE_SIZE - 1
       THEN Goto("destroyed") /\ UNCHANGED <<pos, cur>>
       ELSE /\ pos' = pos + 1
            /\ cur' = table[pos + 1].root
            /\ UNCHANGED pc
    /\ UNCHANGED <<storeVars, nodes_out, data_out, callVars>>

-----------------------------------------------------------------------------
SetStep ==
    \/ NoData \/ GetData \/ InsertRoot \/ InsertBelow \/ Descend \/ AttachLeaf
    \/ Overwrite \/ BalanceRecolor \/ BalanceRotate \/ Balanced \/ Account

Destroyed == pc \in {"destroy", "destroyed"}

DestroyStep == DestroyDown \/ DestroyLeaf \/ DestroyNext

Next ==
    \/ \E k \in Keys : \E v \in ValsOf[k] : Set(k, v)
    \/ SetStep \/ Destroy \/ DestroyStep

Spec == Init /\ [][Next]_vars

-----------------------------------------------------------------------------
(* Properties *)

\* The variables stay in their types.
TypeOK ==
    /\ table \in [Positions -> Trees]
    /\ links \in SentinelLinks
    /\ data \in [Nodes -> Vals \cup {NULL}]
    /\ count \in Nat /\ used_memory \in Nat
    /\ nodes_out \in Nat /\ data_out \in [Vals -> Nat]
    /\ pc \in {"idle", "data", "insert", "descend", "balance", "account",
               "destroy", "destroyed"}
    /\ key \in Keys \cup {NULL} /\ val \in Vals \cup {NULL}
    /\ old \in Vals \cup {NULL}
    /\ cur \in Nodes \cup {SENTINEL, NULL, GARBAGE}
    /\ pos \in Positions

\* Whatever the order of insertions, every bucket is a red-black tree between
\* calls: its height stays logarithmic and a walk finds every key.
BucketsRedBlack ==
    pc = "idle" => \A p \in Positions :
        /\ IsSearchTree(table[p]) /\ IsRedBlack(table[p])
        /\ RootHasNoParent(table[p])
        /\ \A n \in Members(table[p]) : Pos(n) = p

\* The store implements the map of KvMap: a set takes effect when the node is
\* attached or takes over the value, one that fails has no effect, and no step of
\* the rebalancing hides a key.
Map == INSTANCE KvMap WITH
           map     <- [k \in Keys |-> IF Destroyed THEN NULL ELSE key_value_get(k)],
           open    <- ~Destroyed,
           applied <- pc \in {"balance", "account"}
ImplementsMap == Map!Spec

\* rbtree_delete takes any node out of any of these trees, and another out of
\* what is left, and leaves a red-black tree of the others; the sentinel, whose
\* parent it sets, stays black.  (No file of the repository calls it yet.)
DeleteKeepsTree ==
    LET without(T, n) ==
            LET D == rbtree_delete(T, n)
            IN  /\ Members(D) = Members(T) \ {n}
                /\ IsSearchTree(D) /\ IsRedBlack(D)
    IN  pc = "idle" =>
            \A p \in Positions : \A n \in Members(table[p]) :
                /\ without(table[p], n)
                /\ LET D == rbtree_delete(table[p], n)
                   IN  \A m \in Members(D) : without(D, m)

\* Between calls the pool has given out one node and one block per stored value,
\* also after calls that overwrote a value or failed half-way, and nothing once
\* key_value_destroy is done.
NothingLeaks ==
    pc \in {"idle", "destroyed"} =>
        LET stored == IF pc = "destroyed" THEN {}
                      ELSE UNION {Members(table[p]) : p \in Positions}
        IN  /\ nodes_out = Cardinality(stored)
            /\ \A v \in Vals :
                  data_out[v] = Cardinality({n \in stored : data[n] = v})

\* count and used_memory are those of what is stored, and in budget: that is checked
\* with the length of a value and charged with the size of its block, so the store
\* is over by less than one step of the size classes.
AccountExact ==
    /\ pc = "idle" =>
          LET stored == UNION {Members(table[p]) : p \in Positions}
          IN  /\ count = Cardinality(stored)
              /\ used_memory = MapThenSumSet(LAMBDA n : BlockSize(data[n]), stored)
    /\ used_memory < MaxMemory
          + Max({BlockSize(v) - ValLen[v] : v \in Vals} \cup {0}) + 1

\* test/test_keyvalue.c destroys a store in which most of the buckets are empty:
\* rbtree_destroy only follows pointers someone has set.
DestroyStaysInTree == cur # GARBAGE
=============================================================================
