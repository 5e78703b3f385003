------------------------------- MODULE Timers -------------------------------
(***************************************************************************)
(* The time events of the hub (hub.c): a doubly linked list of timers, the *)
(* pass of process_time_event over it, and the wait process_events derives *)
(* from it.  The hub has one thread; what interleaves is the loop, the     *)
(* clock, and the handlers the loop calls, which may create and delete any *)
(* timer, their own too, while the loop holds a pointer into the list.     *)
(*                                                                         *)
(* Time is counted in milliseconds, MS of them to a second (1000 in C).    *)
(* A timer holds its deadline in seconds and milliseconds, as the code     *)
(* does.  A read through NULL or of freed memory ends the behaviour: what  *)
(* the program does from there on is not known.                            *)
(***************************************************************************)
EXTENDS Integers, FiniteSets, FiniteSetsExt, Sequences, SequencesExt

CONSTANTS
    Timers,    \* the addresses malloc can return for a hubTimeEvent
    NULL,
    MS,        \* milliseconds to the second
    PERM,      \* EVT_PERM, which is also the delay of a timer that recurs
    Delays,    \* the delays timers are created with
    Start,     \* the time at which the hub is created
    MaxNow,    \* bound on the clock and on deadlines
    MaxId,     \* bound on the timers created
    MaxBack    \* bound on the times the clock is set back

ASSUME TimersAssumption ==
    /\ NULL \notin Timers /\ IsFiniteSet(Timers)
    /\ MS \in Nat /\ PERM \in Nat /\ 0 < PERM /\ PERM < MS
    /\ Delays \subseteq Nat
    /\ Start \in Nat /\ MaxNow \in Nat /\ MS <= Start /\ Start <= MaxNow
    /\ MaxId \in Nat /\ MaxBack \in Nat

VARIABLES
    live,           \* the addresses of timers that are allocated
    ev,             \* the fields of each hubTimeEvent
    time_event_head, time_event_tail, time_event_id, last_time, stop,  \* evtHub
    now, back,      \* the clock, and how often it was set back
    pc,             \* where the loop is
    te, maxid,      \* locals of process_time_event
    wait,           \* what is left of epoll_wait's timeout, -1 for none
    due,            \* history: the deadline each timer was given
    owed,           \* history: timers due at the start of the pass, not yet run
    own             \* history: the handler that runs has deleted its own timer

hubVars   == <<time_event_head, time_event_tail, time_event_id>>
clockVars == <<now, back>>
vars == <<live, ev, hubVars, last_time, stop, clockVars, pc, te, maxid, wait,
          due, owed, own>>

\* get_current_time
Sec(time)  == time \div MS
Msec(time) == time % MS

\* What is kept of memory that is not allocated.
Unallocated == [id |-> 0, seconds |-> 0, milliseconds |-> 0,
                next |-> NULL, prev |-> NULL]

Init ==
    /\ live = {}
    /\ ev = [t \in Timers |-> Unallocated]
    /\ time_event_head = NULL /\ time_event_tail = NULL /\ time_event_id = 0
    /\ last_time = Sec(Start)
    /\ stop = TRUE
    /\ now = Start /\ back = 0
    /\ pc = "stopped"
    /\ te = NULL /\ maxid = 0
    /\ wait = -1
    /\ due = [t \in Timers |-> 0]
    /\ owed = {}
    /\ own = FALSE

-----------------------------------------------------------------------------
(* The clock *)

Running == pc \notin {"derailed", "freed"}

\* A millisecond passes, at any point of the loop.
Tick ==
    /\ Running
    /\ now < MaxNow
    /\ now' = now + 1
    /\ wait' = IF pc = "wait" /\ wait > 0 THEN wait - 1 ELSE wait
    /\ UNCHANGED <<live, ev, hubVars, last_time, stop, back, pc, te, maxid, due,
                   owed, own>>

\* The clock is set back.  Deadlines are clock times: the pass at hand owes
\* nothing any more.
SetBack(time) ==
    /\ Running
    /\ back < MaxBack
    /\ MS <= time /\ time < now
    /\ now' = time
    /\ back' = back + 1
    /\ owed' = {}
    /\ UNCHANGED <<live, ev, hubVars, last_time, stop, pc, te, maxid, wait, due,
                   own>>

-----------------------------------------------------------------------------
(* Calls of the hub's clients: before hub_main, from net handlers and from   *)
(* the handlers of timers.                                                   *)

ClientRuns == pc \in {"stopped", "net", "handler"}

\* Mutant: the whole delay is added to the milliseconds.
CreateTimeEvent_NoSeconds(t, delay) ==
    /\ ClientRuns
    /\ t \notin live
    /\ time_event_id < MaxId /\ now + delay <= MaxNow
    /\ live' = live \cup {t}
    /\ LET fields == [id           |-> time_event_id + 1,
                      seconds      |-> Sec(now),
                      milliseconds |-> Msec(now) + delay,
                      next         |-> NULL,
                      prev         |-> time_event_tail]
       IN  IF time_event_tail = NULL
           THEN /\ ev' = [ev EXCEPT ![t] = fields]
                /\ time_event_head' = t
           ELSE /\ ev' = [ev EXCEPT ![t] = fields, ![time_event_tail].next = t]
                /\ UNCHANGED time_event_head
    /\ time_event_tail' = t
    /\ time_event_id' = time_event_id + 1
    /\ due' = [due EXCEPT ![t] = now + delay]
    /\ UNCHANGED <<last_time, stop, clockVars, pc, te, maxid, wait, owed, own>>

\* hub_create_time_event.  The milliseconds are added without a carry.
CreateTimeEvent(t, delay) ==
    /\ ClientRuns
    /\ t \notin live
    /\ time_event_id < MaxId /\ now + delay <= MaxNow
    /\ live' = live \cup {t}
    /\ LET fields == [id           |-> time_event_id + 1,
                      seconds      |-> Sec(now) + (delay \div MS),
                      milliseconds |-> Msec(now) + (delay % MS),
                      next         |-> NULL,
                      prev         |-> time_event_tail]
       IN  IF time_event_tail = NULL
           THEN /\ ev' = [ev EXCEPT ![t] = fields]
                /\ time_event_head' = t
           ELSE /\ ev' = [ev EXCEPT ![t] = fields, ![time_event_tail].next = t]
                /\ UNCHANGED time_event_head
    /\ time_event_tail' = t
    /\ time_event_id' = time_event_id + 1
    /\ due' = [due EXCEPT ![t] = now + delay]
    /\ UNCHANGED <<last_time, stop, clockVars, pc, te, maxid, wait, owed, own>>

\* Mutant: deleting the last timer leaves tail where it was.
Unlink_KeepsTail(t) ==
    LET n == ev[t].next
        p == ev[t].prev
    IN  /\ ev' = [e \in Timers |->
                    IF e = t THEN Unallocated
                    ELSE [ev[e] EXCEPT !.prev = IF e = n THEN p ELSE @,
                                       !.next = IF e = p THEN n ELSE @]]
        /\ time_event_head' = IF p = NULL THEN n ELSE time_event_head
        /\ UNCHANGED time_event_tail

\* Mutant: deleting the first timer leaves head where it was.
Unlink_KeepsHead(t) ==
    LET n == ev[t].next
        p == ev[t].prev
    IN  /\ ev' = [e \in Timers |->
                    IF e = t THEN Unallocated
                    ELSE [ev[e] EXCEPT !.prev = IF e = n THEN p ELSE @,
                                       !.next = IF e = p THEN n ELSE @]]
        /\ time_event_tail' = IF n = NULL THEN p ELSE time_event_tail
        /\ UNCHANGED time_event_head

\* The pointers of hub_delete_time_event.
Unlink(t) ==
    LET n == ev[t].next
        p == ev[t].prev
    IN  /\ ev' = [e \in Timers |->
                    IF e = t THEN Unallocated
                    ELSE [ev[e] EXCEPT !.prev = IF e = n THEN p ELSE @,
                                       !.next = IF e = p THEN n ELSE @]]
        /\ time_event_tail' = IF n = NULL THEN p ELSE time_event_tail
        /\ time_event_head' = IF p = NULL THEN n ELSE time_event_head

\* hub_delete_time_event, for a timer hub_get_Time_event finds by its id.
Delete(t) ==
    /\ Unlink(t)
    /\ live' = live \ {t}
    /\ owed' = owed \ {t}
    /\ due' = [due EXCEPT ![t] = 0]
    /\ UNCHANGED time_event_id

DeleteTimeEvent(t) ==
    /\ ClientRuns
    /\ t \in live
    /\ Delete(t)
    /\ own' = (own \/ (pc = "handler" /\ t = te))
    /\ UNCHANGED <<last_time, stop, clockVars, pc, te, maxid, wait>>

\* hub_stop
Stop ==
    /\ ClientRuns
    /\ stop' = TRUE
    /\ UNCHANGED <<live, ev, hubVars, last_time, clockVars, pc, te, maxid, wait,
                   due, owed, own>>

-----------------------------------------------------------------------------
(* The loop *)

\* hub_main forgets a hub_stop that came before it.
HubMain ==
    /\ pc = "stopped"
    /\ stop' = FALSE
    /\ pc' = "compute"
    /\ UNCHANGED <<live, ev, hubVars, last_time, clockVars, te, maxid, wait, due,
                   owed, own>>

Earlier(t, u) ==
    \/ ev[t].seconds < ev[u].seconds
    \/ /\ ev[t].seconds = ev[u].seconds
       /\ ev[t].milliseconds < ev[u].milliseconds

\* The list from t on, k timers of it at most.
ListFrom[k \in 0 .. Cardinality(Timers)] ==
    [t \in Timers \cup {NULL} |->
        IF t = NULL \/ k = 0 THEN <<>> ELSE <<t>> \o ListFrom[k - 1][ev[t].next]]

List == ListFrom[Cardinality(Timers)][time_event_head]

\* Mutant: the search compares with the timer before, and forgets the head.
search_nearest_time_event_Neighbour ==
    LET better == {k \in 2 .. Len(List) : Earlier(List[k], List[k - 1])}
    IN  List[IF better = {} THEN 1 ELSE Max(better)]

\* The minimum stays the head's: the last timer that is earlier than the head,
\* and not the earliest.
search_nearest_time_event ==
    LET better == {k \in 2 .. Len(List) : Earlier(List[k], List[1])}
    IN  List[IF better = {} THEN 1 ELSE Max(better)]

\* The first half of process_events: the wait up to the timer chosen.  Borrowing
\* a second for the milliseconds takes it from the timer itself.
ComputeWait ==
    /\ pc = "compute"
    /\ ~stop
    /\ IF time_event_head = NULL
       THEN wait' = -1 /\ UNCHANGED ev
       ELSE LET t      == search_nearest_time_event
                borrow == ev[t].milliseconds < Msec(now)
                secs   == IF borrow THEN ev[t].seconds - 1 ELSE ev[t].seconds
                msecs  == IF borrow THEN ev[t].milliseconds + MS - Msec(now)
                                    ELSE ev[t].milliseconds - Msec(now)
            IN  /\ ev' = [ev EXCEPT ![t].seconds = secs]
                /\ wait' = MS * Max({0, secs - Sec(now)}) + msecs
    /\ pc' = "wait"
    /\ UNCHANGED <<live, hubVars, last_time, stop, clockVars, te, maxid, due,
                   owed, own>>

\* epoll_wait returns: the time is up, or descriptors are ready and their
\* handlers run.
Wake ==
    /\ pc = "wait"
    /\ pc' = "net"
    /\ wait' = -1
    /\ UNCHANGED <<live, ev, hubVars, last_time, stop, clockVars, te, maxid, due,
                   owed, own>>

Due(t) ==
    \/ Sec(now) > ev[t].seconds
    \/ Sec(now) = ev[t].seconds /\ Msec(now) > ev[t].milliseconds

\* Mutant: the walk starts where the loop over a clock set back has ended.
StartPass_NoHead ==
    /\ pc = "net"
    /\ last_time' = Sec(now)
    /\ LET setBack == Sec(now) < last_time
       IN  /\ ev' = IF setBack
                    THEN [t \in Timers |-> IF t \in live
                            THEN [ev[t] EXCEPT !.seconds = 0] ELSE ev[t]]
                    ELSE ev
           /\ te' = IF setBack THEN NULL ELSE time_event_head
           /\ due' = IF setBack THEN [t \in Timers |-> 0] ELSE due
           /\ owed' = IF setBack THEN live ELSE {t \in live : Due(t)}
    /\ maxid' = time_event_id
    /\ pc' = "walk"
    /\ own' = FALSE
    /\ UNCHANGED <<live, hubVars, stop, clockVars, wait>>

\* process_time_event up to its walk.  If the clock was set back, to an earlier
\* second than that of the last pass, every timer is made due.
StartPass ==
    /\ pc = "net"
    /\ last_time' = Sec(now)
    /\ LET setBack == Sec(now) < last_time
       IN  /\ ev' = IF setBack
                    THEN [t \in Timers |-> IF t \in live
                            THEN [ev[t] EXCEPT !.seconds = 0] ELSE ev[t]]
                    ELSE ev
           /\ due' = IF setBack THEN [t \in Timers |-> 0] ELSE due
           /\ owed' = IF setBack THEN live ELSE {t \in live : Due(t)}
    /\ te' = time_event_head
    /\ maxid' = time_event_id
    /\ pc' = "walk"
    /\ own' = FALSE
    /\ UNCHANGED <<live, hubVars, stop, clockVars, wait>>

\* A timer made in this pass was to be skipped.  The walk goes to the timer after
\* it, deletes that one, and reads it, or dereferences NULL at once.
WalkNew ==
    /\ pc = "walk"
    /\ te # NULL
    /\ ev[te].id > maxid
    /\ te' = ev[te].next
    /\ pc' = "derailed"
    /\ IF ev[te].next = NULL
       THEN UNCHANGED <<live, ev, hubVars, owed, due>>
       ELSE Delete(ev[te].next)
    /\ UNCHANGED <<last_time, stop, clockVars, maxid, wait, own>>

WalkDue ==
    /\ pc = "walk"
    /\ te # NULL
    /\ ev[te].id <= maxid
    /\ Due(te)
    /\ pc' = "handler"
    /\ UNCHANGED <<live, ev, hubVars, last_time, stop, clockVars, te, maxid, wait,
                   due, owed, own>>

WalkOn ==
    /\ pc = "walk"
    /\ te # NULL
    /\ ev[te].id <= maxid
    /\ ~Due(te)
    /\ te' = ev[te].next
    /\ UNCHANGED <<live, ev, hubVars, last_time, stop, clockVars, pc, maxid, wait,
                   due, owed, own>>

WalkEnds ==
    /\ pc = "walk"
    /\ te = NULL
    /\ pc' = "compute"
    /\ maxid' = 0
    /\ UNCHANGED <<live, ev, hubVars, last_time, stop, clockVars, te, wait, due,
                   owed, own>>

\* The handler returns EVT_PERM: the timer recurs, PERM milliseconds from now.
HandlerRecurs ==
    /\ pc = "handler"
    /\ te \in live
    /\ now + PERM <= MaxNow
    /\ ev' = [ev EXCEPT ![te].seconds = Sec(now + PERM),
                        ![te].milliseconds = Msec(now + PERM)]
    /\ due' = [due EXCEPT ![te] = now + PERM]
    /\ owed' = owed \ {te}
    /\ te' = time_event_head
    /\ pc' = "walk"
    /\ own' = FALSE
    /\ UNCHANGED <<live, hubVars, last_time, stop, clockVars, maxid, wait>>

\* Mutant: the walk goes on from the timer that was just deleted.
HandlerReturns_GoesOn ==
    /\ pc = "handler"
    /\ te \in live
    /\ Delete(te)
    /\ pc' = "walk"
    /\ own' = FALSE
    /\ UNCHANGED <<te, last_time, stop, clockVars, maxid, wait>>

\* It returns anything else: the timer is deleted, and the walk starts again.
HandlerReturns ==
    /\ pc = "handler"
    /\ te \in live
    /\ Delete(te)
    /\ te' = time_event_head'
    /\ pc' = "walk"
    /\ own' = FALSE
    /\ UNCHANGED <<last_time, stop, clockVars, maxid, wait>>

\* The handler has deleted its own timer: the loop reads or writes freed memory.
HandlerFreed ==
    /\ pc = "handler"
    /\ te \notin live
    /\ pc' = "freed"
    /\ UNCHANGED <<live, ev, hubVars, last_time, stop, clockVars, te, maxid, wait,
                   due, owed, own>>

\* hub_main returns.
Leave ==
    /\ pc = "compute"
    /\ stop
    /\ pc' = "stopped"
    /\ UNCHANGED <<live, ev, hubVars, last_time, stop, clockVars, te, maxid, wait,
                   due, owed, own>>

-----------------------------------------------------------------------------
Client ==
    \/ \E t \in Timers, delay \in Delays : CreateTimeEvent(t, delay)
    \/ \E t \in Timers : DeleteTimeEvent(t)
    \/ Stop

Loop ==
    \/ HubMain \/ ComputeWait \/ Wake \/ StartPass \/ WalkNew \/ WalkDue
    \/ WalkOn \/ WalkEnds \/ HandlerRecurs \/ HandlerReturns \/ HandlerFreed
    \/ Leave

Next == Client \/ Loop \/ Tick \/ \E time \in 0 .. MaxNow : SetBack(time)

Spec == Init /\ [][Next]_vars

-----------------------------------------------------------------------------
(* Properties *)

Labels == {"stopped", "compute", "wait", "net", "walk", "handler", "derailed",
           "freed"}

\* The variables stay in their types.
TypeOK ==
    /\ live \subseteq Timers
    /\ ev \in [Timers -> [id : 0 .. MaxId, seconds : Int,
                          milliseconds : 0 .. (2 * MS - 2),
                          next : Timers \cup {NULL}, prev : Timers \cup {NULL}]]
    /\ time_event_head \in Timers \cup {NULL}
    /\ time_event_tail \in Timers \cup {NULL}
    /\ time_event_id \in 0 .. MaxId /\ maxid \in 0 .. MaxId
    /\ last_time \in Nat /\ stop \in BOOLEAN
    /\ now \in 0 .. MaxNow /\ back \in 0 .. MaxBack
    /\ pc \in Labels
    /\ te \in Timers \cup {NULL}
    /\ wait \in Int /\ wait >= -1
    /\ due \in [Timers -> 0 .. MaxNow]
    /\ owed \subseteq Timers
    /\ own \in BOOLEAN

\* Whatever handlers create and delete, the list leads in both directions over
\* exactly the timers that exist, in the order of their ids.
ListSpellsTimers ==
    /\ ToSet(List) = live
    /\ IF List = <<>> THEN time_event_tail = NULL
       ELSE /\ time_event_tail = Last(List)
            /\ ev[time_event_head].prev = NULL
            /\ ev[time_event_tail].next = NULL
    /\ \A k \in 2 .. Len(List) :
          /\ ev[List[k]].prev = List[k - 1]
          /\ ev[List[k - 1]].id < ev[List[k]].id

InPass == pc \in {"walk", "handler", "derailed", "freed"}

\* What process_time_event (hub.c:269-295) asks of the handlers it calls: from
\* its first step to its last it holds a timer of the list or the list's end,
\* unless a timer that a handler made in this pass is still there (and the walk
\* met it), or the handler that runs has deleted the timer it runs for.  To
\* delete other timers, the next one too, never costs it its place.
WalkContract ==
    InPass =>
        \/ te \in live
        \/ pc = "walk" /\ te = NULL
        \/ pc = "derailed" /\ \E t \in live : ev[t].id > maxid
        \/ pc \in {"handler", "freed"} /\ own

\* A pass does not end before every timer that was due when it began has run or
\* been deleted; after the clock was set back these are all timers.
PassServesDue == pc = "compute" => owed = {}

\* The loop sleeps less than two seconds past the deadline of the first timer,
\* and, of two timers, past the deadline of either.  (Of three it may oversleep
\* the nearest by any time: see search_nearest_time_event.)
WaitInTime ==
    pc = "wait" =>
        /\ wait = -1 <=> live = {}
        /\ \A t \in live :
              t = time_event_head \/ Cardinality(live) <= 2 =>
                  wait <= Max({0, due[t] - now}) + 2 * MS - 2

\* hub.c:270 says of a timer whose id is above maxid that it is skipped: the walk
\* survives a handler that creates one.
NewTimersSkipped == pc # "derailed"

\* hub.h:45-46 calls seconds and milliseconds the time the timer is set to: its
\* handler does not run before the time it was created for.
NotEarly == pc = "walk" /\ te \in live /\ ev[te].id <= maxid /\ Due(te) => now >= due[te]
=============================================================================
