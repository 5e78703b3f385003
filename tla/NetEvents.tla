----------------------------- MODULE NetEvents -----------------------------
(***************************************************************************)
(* The net events of the hub (hub.c over hub_epoll.c): a table of the      *)
(* descriptors the hub's clients registered, the interest set the kernel   *)
(* keeps for the hub's epoll instance, and the round in which the events   *)
(* epoll_wait reported are dispatched to handlers.  Handlers are clients:  *)
(* while events wait to be dispatched they open, register, deregister and  *)
(* close descriptors, also those the waiting events are about.             *)
(*                                                                         *)
(* rdy_events is kept as the function from descriptors to what was         *)
(* reported and not yet dispatched; epoll reports a descriptor once and in *)
(* no promised order, so any of them may be next.  data, the argument of   *)
(* the handlers, is left out.                                              *)
(***************************************************************************)
EXTENDS Integers, FiniteSets, FiniteSetsExt

CONSTANTS
    Fds,       \* the descriptors the program can have open, but epoll's own;
               \* without evtsize, which hub_create_net_event admits although
               \* it is one beyond the arrays
    evtsize,   \* the size of the hub's arrays
    Procs,     \* the handlers
    NULL,
    Leftover   \* what malloc can leave in a handler that was never set

ASSUME NetAssumption ==
    /\ Fds \subseteq Nat /\ IsFiniteSet(Fds) /\ evtsize \in Nat \ {0}
    /\ evtsize \notin Fds
    /\ NULL \notin Procs /\ Leftover \cap Procs = {}

VARIABLES
    mode, rnetProc, wnetProc,   \* net_events[fd]
    maxfd,
    rdy_events,      \* the events of this round that are not yet dispatched
    open,            \* kernel: the open descriptors
    watched,         \* kernel: those in the interest set of epoll
    interest,        \* kernel: the events each of these is watched for
    pc,              \* where the loop is
    fd, proc,        \* the descriptor and the handler being served
    owed             \* history: reported events that a handler waits for

table  == <<mode, rnetProc, wnetProc, maxfd>>
kernel == <<open, watched, interest>>
vars == <<table, rdy_events, kernel, pc, fd, proc, owed>>

Modes == {"read", "write"}   \* EVT_READ, EVT_WRITE; EVT_NONE is {}

\* The descriptors hub_create_net_event admits.
Table == {f \in Fds : f <= evtsize}

Nothing == [f \in Table |-> {}]

Init ==
    /\ mode = Nothing
    /\ rnetProc \in [Table -> Leftover] /\ wnetProc = rnetProc
    /\ maxfd = -1
    /\ rdy_events = Nothing
    /\ open = {} /\ watched = {}
    /\ interest = Nothing
    /\ pc = "time"
    /\ fd = -1 /\ proc = NULL
    /\ owed = {}

-----------------------------------------------------------------------------
(* Calls of the hub's clients: from handlers of net events, from timers, and *)
(* before hub_main.                                                          *)

ClientRuns == pc \in {"time", "handler"}

\* No handler waits for these events of f any more.
Settle(f, ms) == owed' = owed \ ({f} \X ms)

\* A new file gets the lowest free descriptor.
Open ==
    /\ ClientRuns
    /\ Fds # open
    /\ open' = open \cup {Min(Fds \ open)}
    /\ UNCHANGED <<table, rdy_events, watched, interest, pc, fd, proc, owed>>

\* Clients deregister a descriptor before they close it.
Close(f) ==
    /\ ClientRuns
    /\ f \in open
    /\ f \in Table => mode[f] = {}
    /\ open' = open \ {f}
    /\ UNCHANGED <<table, rdy_events, watched, interest, pc, fd, proc, owed>>

\* Mutant: the events watched for are the new ones only.
evt_event_add_NoMerge(f, ms) ==
    /\ f \in open
    /\ mode[f] = {} <=> f \notin watched
    /\ watched' = watched \cup {f}
    /\ interest' = [interest EXCEPT ![f] = ms]

\* epoll_ctl adds f or modifies its entry, as the table says; it fails when the
\* interest set says otherwise.
evt_event_add(f, ms) ==
    /\ f \in open
    /\ mode[f] = {} <=> f \notin watched
    /\ watched' = watched \cup {f}
    /\ interest' = [interest EXCEPT ![f] = ms \cup mode[f]]

\* Mutant: maxfd follows the last descriptor registered.
hub_create_net_event_LastFd(f, ms, p) ==
    /\ ClientRuns
    /\ evt_event_add(f, ms)
    /\ mode' = [mode EXCEPT ![f] = @ \cup ms]
    /\ rnetProc' = [rnetProc EXCEPT ![f] = IF "read" \in ms THEN p ELSE @]
    /\ wnetProc' = [wnetProc EXCEPT ![f] = IF "write" \in ms THEN p ELSE @]
    /\ maxfd' = f
    /\ Settle(f, {"write"})
    /\ UNCHANGED <<rdy_events, open, pc, fd, proc>>

\* A call that epoll_ctl fails, or for a descriptor beyond the table, changes
\* nothing.  (With the new handler f may have the same one for both events: its
\* writer may go unserved.)
hub_create_net_event(f, ms, p) ==
    /\ ClientRuns
    /\ evt_event_add(f, ms)
    /\ mode' = [mode EXCEPT ![f] = @ \cup ms]
    /\ rnetProc' = [rnetProc EXCEPT ![f] = IF "read" \in ms THEN p ELSE @]
    /\ wnetProc' = [wnetProc EXCEPT ![f] = IF "write" \in ms THEN p ELSE @]
    /\ maxfd' = Max({f, maxfd})
    /\ Settle(f, {"write"})
    /\ UNCHANGED <<rdy_events, open, pc, fd, proc>>

\* epoll_ctl modifies or deletes the entry of f, if it has one.
evt_event_del(f, left) ==
    /\ watched' = IF left = {} THEN watched \ {f} ELSE watched
    /\ interest' = IF f \in watched THEN [interest EXCEPT ![f] = left]
                   ELSE interest

\* Mutant: the search for the next descriptor runs past the first.
NextMaxfd_PastZero(f) == Max({-2} \cup {i \in Table : i < f /\ mode[i] # {}})

NextMaxfd(f) == Max({-1} \cup {i \in Table : i < f /\ mode[i] # {}})

\* Mutant: the handlers of the modes that were not deleted are cleared.
hub_delete_net_event_ClearsOthers(f, ms) ==
    /\ ClientRuns
    /\ f <= maxfd
    /\ LET left == mode[f] \ ms
       IN  /\ mode' = [mode EXCEPT ![f] = left]
           /\ rnetProc' = [rnetProc EXCEPT ![f] =
                             IF "read" \notin ms THEN NULL ELSE @]
           /\ wnetProc' = [wnetProc EXCEPT ![f] =
                             IF "write" \notin ms THEN NULL ELSE @]
           /\ maxfd' = IF left = {} /\ f = maxfd THEN NextMaxfd(f) ELSE maxfd
           /\ evt_event_del(f, left)
    /\ Settle(f, ms)
    /\ UNCHANGED <<rdy_events, open, pc, fd, proc>>

hub_delete_net_event(f, ms) ==
    /\ ClientRuns
    /\ f <= maxfd
    /\ LET left == mode[f] \ ms
       IN  /\ mode' = [mode EXCEPT ![f] = left]
           /\ rnetProc' = [rnetProc EXCEPT ![f] =
                             IF "read" \notin left THEN NULL ELSE @]
           /\ wnetProc' = [wnetProc EXCEPT ![f] =
                             IF "write" \notin left THEN NULL ELSE @]
           /\ maxfd' = IF left = {} /\ f = maxfd THEN NextMaxfd(f) ELSE maxfd
           /\ evt_event_del(f, left)
    /\ Settle(f, ms)
    /\ UNCHANGED <<rdy_events, open, pc, fd, proc>>

-----------------------------------------------------------------------------
(* A round of the loop: process_net_event *)

\* What epoll can report of f: events watched for, and errors and hang-ups,
\* which it reports always and evt_multipexer_loop turns into EVT_WRITE.
Reportable(f) == IF f \in watched THEN SUBSET (interest[f] \cup {"write"})
                 ELSE {{}}

\* The handler that waits for what is reported of f: the reader if there is one,
\* else the writer, if it is not the reader too.
Served(f, ms) ==
    IF "read" \in ms \cap mode[f] THEN {<<f, "read">>}
    ELSE IF "write" \in ms \cap mode[f] /\ rnetProc[f] # wnetProc[f]
    THEN {<<f, "write">>} ELSE {}

\* epoll_wait returns with events.  (When its time is up without any, the round
\* is empty.)
evt_multipexer_loop ==
    /\ pc = "time"
    /\ \E reported \in [Table -> SUBSET Modes] :
          /\ \A f \in Table : reported[f] \in Reportable(f)
          /\ Cardinality({f \in Table : reported[f] # {}}) \in 1 .. evtsize
          /\ rdy_events' = reported
          /\ owed' = UNION {Served(f, reported[f]) : f \in Table}
    /\ pc' = "dispatch"
    /\ UNCHANGED <<table, kernel, fd, proc>>

\* The event is taken from the array, and f is looked up.
Take(f) ==
    /\ pc = "dispatch"
    /\ rdy_events[f] # {}
    /\ rdy_events' = [rdy_events EXCEPT ![f] = {}]
    /\ UNCHANGED <<table, kernel>>

CallReader(f) ==
    /\ Take(f)
    /\ "read" \in mode[f] \cap rdy_events[f]
    /\ pc' = "handler"
    /\ fd' = f /\ proc' = rnetProc[f]
    /\ owed' = owed \ {<<f, "read">>}

\* The writer is called when the reader is not, and is not the reader.
CallWriter(f) ==
    /\ Take(f)
    /\ "read" \notin mode[f] \cap rdy_events[f]
    /\ "write" \in mode[f] \cap rdy_events[f]
    /\ rnetProc[f] # wnetProc[f]
    /\ pc' = "handler"
    /\ fd' = f /\ proc' = wnetProc[f]
    /\ owed' = owed \ {<<f, "write">>}

\* Nobody is called for what is no longer registered.
SkipEvent(f) ==
    /\ Take(f)
    /\ "read" \notin mode[f] \cap rdy_events[f]
    /\ "write" \in mode[f] \cap rdy_events[f] => rnetProc[f] = wnetProc[f]
    /\ UNCHANGED <<pc, fd, proc, owed>>

HandlerReturns ==
    /\ pc = "handler"
    /\ pc' = "dispatch"
    /\ fd' = -1 /\ proc' = NULL
    /\ UNCHANGED <<table, rdy_events, kernel, owed>>

\* Mutant: the loop stops one event early.
RoundEnds_Early ==
    /\ pc = "dispatch"
    /\ Cardinality({f \in Table : rdy_events[f] # {}}) <= 1
    /\ rdy_events' = Nothing
    /\ pc' = "time"
    /\ UNCHANGED <<table, kernel, fd, proc, owed>>

RoundEnds ==
    /\ pc = "dispatch"
    /\ rdy_events = Nothing
    /\ pc' = "time"
    /\ UNCHANGED <<table, rdy_events, kernel, fd, proc, owed>>

-----------------------------------------------------------------------------
Client ==
    \/ Open
    \/ \E f \in Fds : Close(f)
    \/ \E f \in Table, ms \in (SUBSET Modes) \ {{}} :
          \/ \E p \in Procs : hub_create_net_event(f, ms, p)
          \/ hub_delete_net_event(f, ms)

Round ==
    \/ evt_multipexer_loop
    \/ \E f \in Table : CallReader(f) \/ CallWriter(f) \/ SkipEvent(f)
    \/ HandlerReturns \/ RoundEnds

Next == Client \/ Round

Spec == Init /\ [][Next]_vars

-----------------------------------------------------------------------------
(* Properties *)

\* The variables stay in their types.
TypeOK ==
    /\ mode \in [Table -> SUBSET Modes]
    /\ rnetProc \in [Table -> Procs \cup Leftover \cup {NULL}]
    /\ wnetProc \in [Table -> Procs \cup Leftover \cup {NULL}]
    /\ maxfd \in Table \cup {-1}
    /\ rdy_events \in [Table -> SUBSET Modes]
    /\ open \subseteq Fds /\ watched \subseteq Table
    /\ interest \in [Table -> SUBSET Modes]
    /\ pc \in {"time", "dispatch", "handler"}
    /\ fd \in Table \cup {-1} /\ proc \in Procs \cup Leftover \cup {NULL}
    /\ owed \subseteq Table \X Modes

\* The kernel watches what the table says: hub_create_net_event and
\* hub_delete_net_event choose between adding, modifying and deleting by the
\* table alone, in whatever order modes come and go.
InterestMatchesTable ==
    /\ \A f \in Table : interest[f] = mode[f]
    /\ watched = {f \in Table : mode[f] # {}}
    /\ watched \subseteq open

\* maxfd is the highest registered descriptor: hub_delete_net_event and
\* hub_get_net_event refuse what is above it.
MaxFdExact == maxfd = Max({-1} \cup {f \in Table : mode[f] # {}})

\* A handler that is called was given for an event of that descriptor: not NULL
\* from a registration taken back, not what the memory of the table held before.
CallsRegistered == pc = "handler" => proc \in Procs

\* When a round ends, every reported event was dispatched, whatever the handlers
\* called before it did to other descriptors.
RoundServesReported == pc = "time" => owed = {}
=============================================================================
