# Distor: specifications

Distor is a distributed key-value cache in C. The repository holds the parts a
server is made of: a memory pool for threads, lock-based queues, an event hub
(timers and descriptors over epoll), a red-black tree with a key-value store on
top, a log server, and a configuration reader. This directory models those parts
in TLA+, checks the models with TLC on small instances, and proves with TLAPS, for
all instances, nearly every safety property that TLC checks.

## Inventory

| Part (source) | State | Operations | Hard behaviour |
|---|---|---|---|
| Size classes (`mem_pool.h`, `mem_pool.c:205-238`) | none; `set_table` is constant after creation | class of a request, class of a chunk, binary search | boundaries of 128 classes in two halves of different step |
| Memory pool (`mem_pool.c`) | chunks, one free list per class with a spin lock, `used_size`, `chunk_count` | create, alloc, calloc, realloc, free, destroy | threads on the same list; unlocked check of `used_size`; stale `next`; failure in the middle of a realloc |
| Spin lock (`splock.h`) | one byte | lock, try, unlock | unfair |
| Node queues (`queue.c`, `list.c`) | nodes behind a dummy, `head`, `tail`, two locks, `length` | push, pop, blocking pop | a producer and a consumer run at once and meet in one `next` pointer; ownership of the dummy |
| Hub, time events (`hub.c:155-297`, `334-394`) | doubly linked list of timers, id counter, time of the last pass | create, get, delete, process, compute the wait | handlers that create or delete timers while the list is walked; clock set back |
| Hub, net events (`hub.c:86-153`, `299-332`, `hub_epoll.c`) | table by descriptor, `maxfd`, interest of epoll, ready array | create, delete, get, wait, dispatch | handlers that change descriptors that are still to be dispatched |
| Red-black tree (`rbtree.c`) | nodes with parent, children, colour; sentinel | insert, delete, rotate | rebalancing |
| Key-value store (`keyvalue.c`, `utils.c`) | 32-bucket table of trees, `used_memory`, `count` | init, set, get, destroy | hash collisions, the memory budget, failed allocations |
| Log (`log.c`) | the runtime: names, level, hub; log file, listening socket, connections | create and destroy the runtime, start, accept, read; clients connect and write | descriptors of refused or closed clients; a client that is slow or gone in the midst of a read; a creation that fails half-way |
| Configuration (`configure_handler.c`) | list of sections of items | load, get, destroy | half-built items and sections |
| Socket wrappers (`net_api.c`) | none | one system call each | none of its own |

How they meet. Every structure is allocated from the memory pool, which is the
one part that many threads share by design. Queues are shared by producer and
consumer threads. The hub is single-threaded: its handlers are callbacks that
run inside the loop and may call every operation of the hub, so its hard
interleavings are those of a loop and the callbacks it makes. The log server is
a client of the hub, and is made from what the configuration says; its clients
are other processes. The key-value store is a client of the tree and of the pool.

What makes each part correct:

* size classes: the class found is the smallest that fits; a chunk returns to
  the class it came from; the search ends;
* pool: a block has one owner, no chunk is lost or freed twice, lists stay well
  formed, a block is as long as was asked, counters are exact, locks are
  released;
* queues: they are FIFO queues to their callers; a node is on one side at a time;
* time events: a timer fires not before its deadline, fires once unless it asks
  for more, and the loop sleeps no longer than to the nearest deadline;
* net events: epoll's interest is what the table says, `maxfd` is the largest
  descriptor in use, only registered handlers are called;
* tree and store: the tree is a search tree with the red-black shape, also after
  deletions; the store is a map, its budget is kept and its memory given back;
* log: an event reaches the connection it was reported for, every accepted client
  is watched, a client that is there is not dropped and one that is gone is;
* configuration: what was written under a section and key is what is read, and a
  load or a creation that fails gives its memory back.

## Modules

| Module | What it is | Status |
|---|---|---|
| `SizeClasses` | the arithmetic of the size classes, as operators on integers | complete |
| `SetSearch` | the binary search over `set_table`, one step per loop iteration | complete |
| `SetSearchProofs` | theorems about both | complete |
| `MemPool` | the pool with its threads; builds on `SizeClasses` | all calls; creation is the initial state |
| `MemPoolProofs` | theorems about `MemPool` | all its safety properties |
| `Fifo` | what a queue promises: an abstract first-in first-out queue | complete |
| `NodeQueue` | `queue.c` and `list.c`, shown to implement `Fifo` | complete |
| `NodeQueueProofs` | theorems about `NodeQueue` | all its safety properties, the refinement included |
| `Timers` | the hub's time events and its loop | complete but for `beforeProc` |
| `TimersProofs` | theorems about `Timers` | all its safety properties |
| `NetEvents` | the hub's net events, over epoll | complete but for the descriptor `evtsize` |
| `NetEventsProofs` | theorems about `NetEvents` | all its safety properties |
| `LogServer` | the log server and its clients, on `NetEvents` | complete but for the contents of messages |
| `Configure` | loading a configuration file, looking up, destroying | complete |
| `LogProgram` | from the file over the runtime to the server: `Configure` and `LogServer` composed | complete |
| `LogProgramProofs` | theorems about `Configure`, `LogServer` and `LogProgram`, on `NetEventsProofs` | all their safety properties |
| `RbTree` | the red-black tree: insertion, deletion and rotations, as operators | complete but for two callbacks |
| `RbTreeProofs` | theorems about the operators of `RbTree` | insertion, deletion and rotations |
| `KvMap` | what the store promises: an abstract map | complete |
| `KeyValue` | the key-value store, on `RbTree` and `SizeClasses`, shown to implement `KvMap` | set, get, destroy |
| `KeyValueProofs` | theorems about `KeyValue`, on `RbTreeProofs` | all its safety properties, the refinement included |
| `MC*` | the instances TLC checks, with a configuration per run | |

Modules follow the source in the names of fields, locals and functions. A
variable or label of a model that the code does not have is marked: `fl`, `want`,
`items`, `due`, `owed`, `own`, `last`, `probes`, `reported`, `unmade`, `blocks`, `held` of
the runtime, and the counters of the store's pool record history or spell out data
the code spreads over pointers; `pc`, `lpc`, `rpc` and `stage` are program counters.
A definition whose name ends in what a bug would do (`PopTry_Waits`), with a comment
that begins "Mutant:", is not part of a specification: it stands before the
definition it replaces, when it is tried whether a property notices.

### How models and code correspond

**SizeClasses, SetSearch.** The operators have the names of the macros and inline
functions. `SetSearch` takes one step per iteration of the `while` loop.

**MemPool.** One action per access to memory another thread may write. Of a call
of `mem_pool_alloc` these are: the read of `used_size` (`AllocStart`, or
`AllocRefused`), the compare-and-swap of the set's lock (`AllocLock`), the look at
`chunk_head` (`AllocPeek`), the pop (`AllocPop`), the release (`AllocUnlock`), the
call of malloc (`AllocCreate`, `AllocCreateFails`), and the atomic addition
(`AllocAccount`). `mem_pool_free` is split likewise. `ReallocInPlace` and
`ReallocMove` are the two ways of `mem_pool_realloc`; the second runs an
allocation and then a free with the old block in the thread's hands (`old`,
`new`). `mem_pool_calloc` differs from alloc by a `memset` and is the same call.
`prev` is written and never read, and left out. Locks are unfair: `AllocLock` is
enabled whenever the lock is free.

**NodeQueue.** One action per access of `enqueue`, `dequeue`, `dequeue_blocking`
and their twins in `list.c`. The two files differ in one place: `queue.c` clears
the new node's `next` before it links the node, `list.c` after. `kind` selects the
file at the start. `length` is incremented in two halves (`PushLoad`, `PushStore`)
because two locks do not protect one counter; nothing reads it, so no property
speaks of it. A client obeys the protocol the code leaves unsaid: a node it popped
stays the queue's dummy until the next pop, and is not pushed before.

**Timers.** `ev` holds the fields of each `hubTimeEvent`, by its address. A timer's
deadline is kept the way the code keeps it, in seconds and milliseconds without a
carry; `MS` is the number of milliseconds to a second, 1000 in the code and 2 in
the runs, where each kind of carry and borrow occurs within a few ticks. The walk
of `process_time_event` takes one action per iteration (`WalkNew`, `WalkDue`,
`WalkOn`, `WalkEnds`) and one per return of a handler (`HandlerRecurs`,
`HandlerReturns`, `HandlerFreed`). While a handler runs, clients call the hub.
Reading through NULL or from freed memory ends a behaviour (`derailed`, `freed`):
nothing is known of what follows. These are the two ways the walk loses its place
in the list: at a timer a handler made in this pass (`hub.c:271-273`), and after a
handler that deleted its own (`hub.c:287`). `WalkContract` says that there is no
third; `own` remembers that the handler that runs has done the latter. `Tick` lets
time pass at any point.

**NetEvents.** `mode`, `rnetProc`, `wnetProc` are the columns of `net_events`.
`open`, `watched` and `interest` are the kernel's: the open descriptors, the
descriptors in the interest set of epoll, and the events each is watched for.
`epoll_ctl` fails when the operation the code chose does not fit the kernel's set;
such a call, and one the table refuses, changes nothing and is no action of its
own. `rdy_events` is a function from descriptors to what is not yet dispatched,
since epoll reports a descriptor once and promises no order. Clients deregister a
descriptor before they close it, as `log.c` and `test/test_hub.c` do. The time
events are the label `time`.

**LogServer.** The hub is `NetEvents`, extended: each step of the server that calls
the hub is the conjunction of the hub's step and what the server does besides, so
`log_accept_handler` and `log_read_handler` take the place of the arbitrary handlers
of `NetEvents`. A descriptor is given out as the kernel does, the lowest that is
free; `holds` says what each is open for, and `reported` keeps what it was open for
when its event was reported. Connections are numbered in the order they are made,
and accepted in that order. Bytes are counted: a write of `net_writen` adds, a read
of `net_readn` takes what there is up to what is still asked for, one read a step, so
that clients write and hang up in between. `accept` may fail for no reason
(`AcceptFails`); the hub refuses a descriptor beyond its table (`RegisterRefused`),
and the handler returns with the connection open and unserved. A client hangs up in
order or by a reset.

**Configure, LogProgram.** A line of the file is a record of one of four kinds, which
is what `string_strip` and `string_split_key_value` make of it. `load_configure_file`
takes a step per line, and one for each way a line's allocations may fail
(`NoSection`, `NoItem`). The code checks the wrong variable after it creates a section
(`configure_handler.c:173`), reads list heads it never set, and finds a section by the
length of its name alone: the model does the same, with memory of the pool zeroed as
that of a new process is. `log_runtime_create` takes a step per look-up; each may fail,
and each may end the program, since `get_configure_item` writes to the string literals
it is given (`Faults`). A value is stored without a zero of its own, in a block of the
pool that is zeroed behind it, unless the value fills it: then the string that `strlen`
measures may go on (`Text`, `Filling`, `RUNON`). The zero for the end of a copy is
written one byte too far (`log.c:56`, `65`), behind the block if the copy fills it; what
it overwrites is not modelled. `config_fp` is opened and on no path closed, whether the
load succeeds or fails. The server is started after the configuration handler is
destroyed, the last order in which it can be, so that an answer kept by reference
would be noticed. With `test/test.conf` the runtime is not created: its level is a
word, and `get_log_level` takes a single letter.

**RbTree, KeyValue, KvMap.** A node is named by its hash: the address it has can not
be told. `left` and `right` are fields of one function, so that each operator
stands for a piece of code and its mirror image. `key_value_set` takes a step per
allocation, per level of the descent, and per round of the rebalancing loop.
`rbtree_delete`, which the store does not call, is one operator from trees to trees, its
loop a function over the rounds: at most as many as the tree has nodes, which the proof
of deletion shows to be enough for the loop to end; the sentinel's parent field, which the code borrows, is
a field of the tree it is given. Of the pool the store only sees that a request may
fail; `nodes_out` and `data_out` count what the pool has given out. `SentinelLinks` is
what the sentinel's `left` and `right` may hold: nobody sets them. `expire` is written
and never read, and left out; values are copied with `strncpy`, which stops at a zero
byte: values are opaque here, so the model does not show that a value with a zero byte
is cut. In the refinement, the map holds for each key what `key_value_get` answers; a
set takes effect when the node is attached or takes over the value, and is in effect
through the rebalancing. Two keys of one hash are one key to the store, and to `KvMap`.

## Runs

| Run | Module, configuration | Question | States, time |
|---|---|---|---|
| `size_classes` | `MCSetSearch.cfg` | does the search end, in seven probes, at the smallest fitting class, which is also the one the closed form names? | 0.5 million (65,539 sizes), seconds |
| `pool` | `MCMemPool.cfg` | two threads, three chunks: is every block owned once, as long as asked, none lost, are lists and counters right, do locks come back? | 0.4 million, 2 min |
| `pool_realloc` | `MCMemPoolRealloc.cfg` | *violation*: does a reallocated block hold what was asked? | seconds |
| `queue` | `MCNodeQueue.cfg` | three threads: do both queues implement `Fifo`, does each node and each lock have one owner, and does `dequeue` always answer? | 0.6 million, 2-4 min |
| `queue_list` | `MCNodeQueueList.cfg` | *violation*: with nodes fresh from malloc, does a pop take the oldest node? | seconds |
| `timers` | `MCTimers.cfg` | three timers: are list, pass and wait right while handlers change the list and the clock is set back, and is there no way but the two known ones for the walk to lose its place? | 1.2 million, 2-3 min |
| `timers_new` | `MCTimersNew.cfg` | *violation*: is a timer created during the pass skipped? | seconds |
| `timers_early` | `MCTimersEarly.cfg` | *violation*: does a handler never run before its time? | seconds |
| `net` | `MCNetEvents.cfg` | three descriptors: do table, kernel and `maxfd` agree, and is every reported event served? | 0.6 million, 1-2 min |
| `store` | `MCKeyValue.cfg` | ten keys: are trees red-black, also when nodes are deleted, does the store implement `KvMap`, is memory accounted for and given back? | 0.4 million, 2-3 min |
| `store_destroy` | `MCKeyValueDestroy.cfg` | *violation*: does `rbtree_destroy` only follow pointers that were set? | seconds |
| `log` | `MCLogProgram.cfg` | 1113 files, then three clients: is the runtime what the file says, what is leaked when something fails, do events reach the file they were reported for, is every client watched, and only and all of the gone closed? | 0.1 million, 1-2 min |

A *violation* run checks one property that a comment, a test or the header states
and that the code does not keep; TLC's counterexample is the evidence. What the
five show:

* `pool_realloc`: `mem_pool_realloc` rounds the old size up to 16 before it
  compares; a large block has no such slack.
* `queue_list`: `list_tail_push_node` makes a node visible before its `next` is
  cleared.
* `timers_new`: the branch of `process_time_event` that is to skip a timer created
  in this pass follows and deletes the timer after it.
* `timers_early`: `process_events` borrows a second from the timer itself, at each
  pass.
* `store_destroy`: an empty bucket starts at the sentinel, whose children were
  never set.

### Bounds, and why they are enough

* `size_classes`: none to speak of; every size the pool takes from a set, and
  those just above.
* `pool`: two threads are enough for every race on one list (both at the lock, one
  inside and one waiting, both past the check of `used_size`); three chunks let a
  list hold two while the third is in use or on its way. The sets 0 and 126 are
  the two ends of the classes, the third request is above all of them. `MaxSize`
  is chosen so that the pool becomes full and passes `FREE_BOUNDARY` with two
  blocks out. Of the theorems about the pool none needs these bounds.
* `queue`: three threads: two consumers compete for `head_lock` while a producer is
  between any two of its stores. Two nodes besides the dummy give the empty queue,
  the queue of one, and the queue whose producer and consumer do not meet.
  `LengthMod` stands for 2^32; it is 1 in the run, because nothing reads `length` and
  its values would only multiply the states. The theorems hold for each.
* `timers`: three timers are the least with a first, a middle and a last, and with
  a nearest one the search misses. `MaxId` lets an address be used again.
  The delays leave a deadline's milliseconds where they are (2, a multiple of `MS`) or
  move them, past a second or not (1, 3); with 2, the loop borrows a second from a
  timer that was created and never reset, which is the one `timers_early` finds.
  `MaxNow` spans three seconds, `MaxBack` allows one set-back, from each of them.
  Timers are interchangeable (symmetry).
* `net`: three descriptors are the least for which `maxfd` has to be searched
  beyond the next lower one. Descriptor 3 is epoll's own; 4 is beyond the table.
  Two handlers distinguish a descriptor that has one for both events from one with
  two; they are interchangeable (symmetry).
* `log`: every file of up to three lines of ten kinds (three section names, two of
  one length; two values for the name of the log file, one of which fills its block, and
  two for the socket; a level; a line that is skipped and one that is bad), and
  two longer ones: `test/test.conf`, and one a runtime can be made of. The server is
  the same whatever the file, so that the one that leads to it is enough. Descriptors
  0, 1 and 2 are in the table, 4 is beyond: with the listener's, two connections are
  admitted and the third is refused unless one of them has gone and its number is
  given out again. A client has one byte under way (`MaxPending`) and the server asks
  for two (`ReadSize`), so a read is full, short or empty. The theorems about the
  server need none of this.
* `store`: eight hashes in a bucket are the least for which rebalancing recolours and
  then rotates further up; a second bucket shows what is shared, the sentinel. Two
  of the ten keys have one hash. Values are of a size that leaves
  slack in its class, or larger than any class (65537), where the block is exactly as
  long as the value; `MaxLen` bounds them for the type of the counters. `MaxMemory` is reached before all keys are in. Deletion is tried on
  every tree the store comes to, of each node, and of each other node after it.
  The theorems about the store need none of this.

Deadlock is checked except where the system may stop: the timers' clock and ids
are bounded and a walk may end in freed memory; a destroyed store is final; the log
program may give up, and ends when its clients have all come and gone.
(The destroyed pool stutters explicitly.)

### Fairness

Fairness is assumed only where liveness is checked.

* `MemPool`, `NodeQueue`: weak fairness of the steps of each thread inside a call,
  in `NodeQueue` of those that pop: a thread that runs keeps running. No thread is
  assumed to make a call, and the spin lock is not assumed fair: a thread that waits
  for it may starve, so the liveness properties ask for what an unfair lock gives. A
  taken lock is given back, and some thread is outside the pool again and again
  (`KeepsGoing`); a try-lock is answered (`TryReturns`).
* `LogProgram`: weak fairness of the server's steps together, once it runs:
  `hub_main` is a loop in one thread. Clients need not do anything, and may keep
  the server busy for ever: nothing is assumed of which event it takes first. That a
  client which hung up is still found out (`HungUpClosed`) rests on the rounds: a
  round serves all that was reported before the next one is asked for.

For the hub alone no liveness is stated: two recurring timers whose handlers take
longer than a millisecond keep `process_time_event` in its loop for ever, and nothing
promises otherwise. What a pass and a round owe is stated as safety instead
(`PassServesDue`, `RoundServesReported`): they do not end before it is done.
`SetSearch` needs no fairness either: that the search ends is that it ends within
seven probes (`SevenProbes`).

## Proofs

TLAPS proves, for every value of the constants that satisfies the assumptions:

| Theorem | Module | States |
|---|---|---|
| `ChunkReturnsToItsSet` | `SetSearchProofs` | the set a freed chunk goes to is the set its size was asked of |
| `SearchMatchesClosedForm`, `SearchBound`, `SearchIsBestFit` | `SetSearchProofs` | search and closed form agree, in seven probes, on the smallest class that fits |
| `TypeCorrect` | `MemPoolProofs` | types |
| `MutualExclusionHolds` | `MemPoolProofs` | one thread inside a list, and the lock is taken exactly then |
| `NoDoubleAllocationHolds` | `MemPoolProofs` | no chunk is in two places |
| `NothingLostHolds` | `MemPoolProofs` | malloc's chunks are exactly those held, in hands, or listed |
| `ListWellFormedHolds` | `MemPoolProofs` | head, tail and next spell the free list |
| `BlockFitsHolds` | `MemPoolProofs` | a block holds what was asked, a list chunks of its class |
| `DestroyLeavesHeldHolds` | `MemPoolProofs` | the walks of `mem_pool_destroy` give back all but what the client holds |
| `AccountingHolds` | `MemPoolProofs` | `used_size` and `chunk_count` are exact, `max_size` is outgrown by less than a block per thread |
| `QueueTypeCorrect`, `LinksSpellItemsHolds`, `NoSharingHolds` | `NodeQueueProofs` | types and pointers of the queues; ownership of nodes and locks |
| `ImplementsFifoHolds` | `NodeQueueProofs` | the queues implement `Fifo` |
| `WalkContractHolds`, `PassServesDueHolds` | `TimersProofs` | the walk loses its place only at a timer made in the pass or by a handler that deletes its own timer; a pass serves all that was due |
| `TimersTypeCorrect`, `ListSpellsTimersHolds`, `WaitInTimeHolds` | `TimersProofs` | types; the list is the timers by their ids; the loop does not sleep past the first deadline |
| `NetTypeCorrect`, `InterestMatchesTableHolds`, `MaxFdExactHolds`, `CallsRegisteredHolds`, `RoundServesReportedHolds` | `NetEventsProofs` | all safety properties of the net events |
| `LogImplementsHub` | `LogProgramProofs` | the log server is a client of the hub as `NetEvents` assumes |
| `LogTypeCorrect`, `EventsMatchFileHolds`, `ClientsWatchedHolds`, `ClosesOnlyTheGoneHolds` | `LogProgramProofs` | all safety properties of the server, one of them of steps |
| `ProgramImplementsServer`, `ServerPropertiesHold` | `LogProgramProofs` | the program runs the server or leaves it alone, and has its properties |
| `ProgramTypeCorrect` | `LogProgramProofs` | types of the program; no count of blocks goes below zero |
| `RuntimeFromFileHolds` | `LogProgramProofs` | a lookup answers with the last setting of the file, and the runtime is what `[log]` says, and more where a value fills its block |
| `OnlyKnownLeaksHolds` | `LogProgramProofs` | which blocks a destroyed or failed configuration, and a failed `log_runtime_create`, leave out, and that the file stays open |
| `TypeCorrect` | `KeyValueProofs` | types |
| `RedBlack` | `KeyValueProofs` | between calls every bucket is a red-black search tree |
| `LeakFree`, `Accounted` | `KeyValueProofs` | nothing leaks; `count` and `used_memory` are exact, the budget is kept |
| `Refinement` | `KeyValueProofs` | the store implements `KvMap` |
| `DeleteKeeps` | `RbTreeProofs` | `rbtree_delete` makes of any red-black tree one without the deleted node |
| `DeletionSound` | `KeyValueProofs` | so it does of every tree of the store, and of what it leaves |

**The search.** The invariant says that the class sought lies within the span
`low .. high` and bounds the span by the probes made, one case per iteration.

**The pool.** Invariants, each proved inductive relative to those before.
`TypeInv` adds to the types what each program counter knows of the thread's locals
(`Control`). With it, `MutualExclusion` is inductive. `OwnInv` is the conjunction of
`Exclusive` (a chunk has at most one owner, where owners are: the client, a
thread's `cur`, `old` or `new`, a list), `LiveInv` (owned is live), `NoRepeats` (no
list holds a chunk twice), `PopInv` (a thread about to pop holds the head of the
list, which is why mutual exclusion is needed) and `ListInv` (the pointers of a
list, with the one exception between the two stores of `FreeLink` and `FreeTail`).
The three are needed together: a pop takes what the pointers lead to, so that
nothing is lost depends on the lists' form, and the form on no chunk being in two
lists. Most actions either move no chunk or move exactly one (`NoMove`, `Moved`),
and two lemmas deal with all of them at once. `FitInv` follows the size and the class
of a chunk from malloc through the thread's hands to a list and back: it rests on
`Exclusive`, since the step of one thread must not touch the chunk of another, and on
the arithmetic of the classes for a chunk of a class to hold what was asked of it.
`RoomLeft` bounds `used_size` by counting: whoever is past the check and has not yet
added may add a block, and the sum of these stays below the limit. `CountInv` says
that `used_size` is the sum of the sizes of malloc's chunks but for those a thread is
about to add or has just taken off, and `HomeInv` that those have no set yet. The walk
of `mem_set_destroy` is a recursive function over the chunks: along a list that
`ListInv` spells out, the positions of the list are a solution of its equation, and
the only one, since two would differ first at some chunk nearest to the tail
(`ReachableIs`).

**The queues.** `QInv` conjoins the types with `Mutex`, `Linked` (from `head` the
`next` pointers spell the items), `Distinct`, `Producing` and `Consuming` (what a thread at each label knows of
its node, and that `tail` lags behind only until a producer's next store) and `Private` (the nodes of client, queue and pushes are disjoint).
Consumers hold another lock than producers: `Linked` is what both rely on when the
queue has a single node. From it every step of a thread is a step of `Fifo` under the
refinement mapping or changes nothing of it. `CleanPushes` is assumed: that clients of
`list.c` hand in nodes with a cleared `next`, which the run `queue_list` shows to be
needed. That a taken lock is taken by a thread inside its call (`LocksHeld`) is
inductive by itself: only the steps that take or give back a lock matter.

**The timers.** `TInv` says of each timer that `next` and `prev` are the timers with the
nearest ids above and below (`Ordered`), and of the walk that what it owes is due, in
the list, and not behind it (`Pass`): the walk goes up in ids, and after a handler it
starts again. So invariance needs no sequence. `Contract` adds what a step that leaves
the list must have met: an id above `maxid`, or a handler's own timer deleted. That the list *is* a sequence is then a
fact about one state: the timers, finite in number, have an order by ids, the pointers
lead along it, and `ListFrom` solves its equation with it and with nothing else. `Ranges`
bounds the fields, the milliseconds below two seconds, since a delay is added without a
carry. `Deadlines` says that the time a timer is set to is not past its deadline: the
borrow of `ComputeWait` takes away and never adds, which is why the loop wakes in
time, for the timer its search chose and any that is not earlier (`WaitBound`).

**Net events.** `NetInv` adds to the five properties that a registered mode has a
client's handler (`Handlers`) and that whatever a handler is owed is still to be
dispatched and will be served (`OwedWaits`). `maxfd` is a maximum, `Max` of a set:
that it exists is derived from the well-foundedness of the natural numbers.

**The log server.** `LogImplementsHub` comes first: a step of the server is a step of
`NetEvents` or leaves its variables alone, so `NetInv` holds in the server. `LogInv`
adds what the kernel holds open for whom (`Descriptors`), what is registered (`Watching`),
where the server is when the hub is in a handler (`Control`), and what each step of a
handler knows of the descriptor it is about to use. That events match their file is
inductive because the one handler that closes a descriptor closes its own, whose event
was taken, so that a number that is given out again has no event waiting.

**The configuration and the runtime.** `LookInv` relates the list in memory to the file:
there is an order-preserving one-to-one map from the sections to the headers read
(`Ordered`), names agree along it (`Named`), and the first item of a section with a key
has the value of the last line that sets it under that header (`Tells`). A new header is
the last one, and an item goes to the section of the last header, so a line changes what
is told under one header and one key. `BlockInv` says that the blocks given out are the
reachable ones and one for each header: the section's own block, which no destroy frees. Both ask that no section went without a block (`Complete`), as the
properties do. Of the program, `RuntimeStages` says that the configuration does not
change once a runtime is being made, so that what was taken from it (`RuntimeTold`) stays
what the file says; `RuntimeBlocks` counts the runtime's blocks at each place.

**The tree and the store.** The models describe a tree by recursive walks (`Below`,
`BlackHeight`, `Members`), about which nothing can be proved by induction. The proofs
describe it by a witness: `sub` gives each place the nodes at and below it, `bh` its black
height, and each is tied to a node's children only. An operation is correct when it turns
witnesses into witnesses, and a rotation changes `sub` at two nodes (`Rotated`). That a witness
agrees with the recursive walk follows once: places where the two differ would
have a lowest one, and there they agree. `HasShape`, `HasColors` and `HasPath` hide the
witnesses, and are what the invariant of the store speaks of. It (`Inv`) conjoins the types with
`TreesInv` (each bucket is a search tree of what is stored in it, red under red at most
where a round of the rebalancing is), `CallInv` (where a call is in its tree),
`DestroyInv`, `BlocksInv` (one node and one block for each stored value, and those a
call holds) and `AccountInv`. All were checked with TLC as invariants before they were
proved. `used_memory` is a fold over the stored nodes; it is turned into the size of a
set with one element for each unit of memory (`SumIsUnits`), where a value that is set
or freed adds or removes elements. For the refinement, a step of a call maps to a step
of the map when the node is in the tree (`balance` of an insert, or the data replaced),
and `key_value_get` finds it since the search path to a key is unique in a search tree.

**Deletion.** `rbtree_delete` takes a node with at most one child out of its place, which
is a search tree of the others (`SpliceShape`). If the deleted node has two children this
is the next key, which then takes its place: the same tree under another name
(`RenameShape`), the order of which is right because no key lies between the two
(`SuccessorIsNext`). Where the shared sentinel rises, its borrowed parent field leads to
the node above. If a black node was taken out, one is lacking below some node `p` on side
`d`, and nothing else is wrong but perhaps the colour of what hangs there (`IsShort`). A
red sibling is turned away (`BlackSiblingKeeps`); then a round ends the loop
(`FixEndKeeps`) or `p` is lacking as a whole, which is the same one level up
(`RoundKeeps`). The nodes outside the part that is short get fewer with each such round,
and after a red sibling the next round is the last (`Pending`), so that after as many
rounds as there are nodes the loop has ended (`PendingEnds`), and blackening the node it
ended at completes the colours (`FixupKeeps`). A root with at most one child is a case of its own (`RootDeleted`).

The proofs assume what the modules name: `SizesAssumption`, `PoolAssumption` (chunks of
the initial lists are distinct, every request maps to a used set, threads and chunks are
finitely many, as memory is), `InitUsedAssumption` (the initial sum is a number: its
fold is out of the provers' reach), `QueueAssumption`, `TimersAssumption` (timers are
finitely many), `NetAssumption`, `LogAssumption`, `ProgramAssumption` (files are
sequences of lines), `RbTreeAssumption`, `KeyValueAssumption` (lengths of
values are numbers up to `MaxLen`). TLC evaluates each on every run.

**Only model-checked.** All liveness (out of the prover's reach): `KeepsGoing`,
`TryReturns`, `HungUpClosed`. Every safety property of the runs that pass is proved. The
arithmetic of `NodeQueue`'s `length`, which nothing reads, has no property.

## Not modelled

* what log messages contain: `record_log`, the format of a line, and the framing, in
  which a client writes 256 bytes and the server reads 255. No text of the repository
  says how messages are to be told apart;
* the TCP wrappers of `net_api.c` and the two insertion callbacks of the tree that
  only tests use: they are not called by the library and keep no state;
* the descriptor `evtsize`, which `hub_create_net_event` admits one past the
  arrays; `NetAssumption` excludes it, because what a store behind an array does is
  not known;
* the failure paths of `mem_pool_create` (`mem_pool.c:201`) and `key_value_init`, and
  the creation and deletion of the hub: creation is the initial state;
* the debug table of the pool, compiled out by default; `hub_select`, a header
  without an implementation; `beforeProc`, which nothing sets; `old/`, which the
  Makefile does not build and whose queue and list are the files modelled.

## Plan

The order in which the modules were written: the pool first, because everything
allocates from it and threads race in it; then the queues, the other shared
structure; then the hub and the store, which are sequential but call back; then
what is built on them, the configuration and the log. What is left:

1. `MemPool`: creation as a sequence of steps, with `mem_pool_destroy` called on a
   half-made table.
2. `Timers` and `NetEvents` as one loop: `process_events` with both, and a log server
   with timers. The properties of each do not speak of the other; what the
   composition could show is how long an event waits for a pass.
3. `NodeQueue`: clients that give a popped node back too early, as an assumption to
   be dropped, and `length` with its lost updates.
4. Should the store come to delete keys: a delete action of `KeyValue` and `KvMap`, on
   `DeleteKeeps`. The root's parent field, which a deletion may leave naming the deleted
   node, then breaks `RootHasNoParent`, on which the proofs of insertion rely.
