-------------------------- MODULE LogProgramProofs --------------------------
(***************************************************************************)
(* Proofs about the log server and the program that runs it, for any       *)
(* connections, descriptors and table size.                                *)
(*                                                                         *)
(* The server's steps are steps of the hub's net events, so what is proved *)
(* of the hub holds of the server; an event reaches the file it was        *)
(* reported for; accepted clients are watched; and the server closes only  *)
(* a connection whose client is gone.  The program runs the server after   *)
(* it has read its configuration: what is proved of the server holds in    *)
(* the program, for any file.  The sections in memory are those of the     *)
(* headers read, in their order, and the first item with a key is the last *)
(* line that sets it (LookInv): so a lookup answers with what the file     *)
(* says, and the runtime is what [log] says.  The blocks given out are the *)
(* reachable ones and one for each header (BlockInv): so these are all     *)
(* that stays out at the end.                                              *)
(***************************************************************************)
EXTENDS LogProgram, NetEventsProofs, FiniteSetTheorems

-----------------------------------------------------------------------------
(* The inductive invariant *)

InHandler == {"accept", "register", "read", "drop", "close", "return"}

\* The server is in a handler when the hub is.
Control ==
    /\ (lpc \in InHandler) <=> (pc = "handler")
    /\ lpc \in {"stopped", "failed", "listening"} => pc = "time"
    /\ pc # "handler" => proc = NULL
    /\ pc = "handler" => fd \in Table /\ rdy_events[fd] = {}

\* What the kernel has open, and for what.
Descriptors ==
    /\ \A f \in Fds : f \in open <=> holds[f] # NULL
    /\ \A f, g \in Fds : holds[f] # NULL /\ holds[f] = holds[g] => f = g
    /\ \A c \in Conns : conn[c] = "accepted" <=> \E f \in Fds : holds[f] = c
    /\ \A c \in Conns : client[c] = "gone" => conn[c] = "closed"

\* What the descriptor is that a step of a handler is about to use.
Turn ==
    /\ lpc = "stopped" => \A f \in Fds : holds[f] = NULL
    /\ lpc = "listening" => listen_fd \in Fds /\ holds[listen_fd] = LISTENER
    /\ lpc = "register" => /\ cfd \in Fds /\ holds[cfd] \in Conns
                           /\ cfd \in Table => mode[cfd] = {}
    /\ lpc \in {"read", "drop", "close"} => holds[fd] \in Conns
    /\ lpc = "read" => holds[fd] = reported[fd]
    /\ lpc = "close" => mode[fd] = {}

\* The descriptors the hub watches: connections are read, the listener accepts.
Watching ==
    \A f \in Table :
        /\ mode[f] \in {{}, {"read"}}
        /\ holds[f] \in Conns =>
              \/ (mode[f] = {"read"} /\ rnetProc[f] = log_read_handler)
              \/ (lpc = "register" /\ f = cfd)
              \/ (lpc = "close" /\ f = fd)
        /\ holds[f] = LISTENER =>
              \/ (mode[f] = {"read"} /\ rnetProc[f] = log_accept_handler)
              \/ lpc = "listening"

\* There is something to read of c, or nothing any more.
Stirred(c) == pending[c] > 0 \/ client[c] # "up"

\* What waits to be dispatched still concerns the file it was reported for.
Waiting ==
    \A f \in Table : rdy_events[f] # {} =>
        /\ holds[f] = reported[f] /\ reported[f] # NULL
        /\ holds[f] \in Conns => Stirred(holds[f])

\* The client of c has closed its end and all it sent is read, or a read failed.
Finished(c) == client[c] = "reset" \/ (client[c] = "closed" /\ pending[c] = 0)

Reading ==
    /\ (lpc = "read" /\ nbytes = 0) => Stirred(holds[fd])
    /\ lpc \in {"drop", "close"} => Finished(holds[fd])

LogInv ==
    /\ LogTypeOK /\ Control /\ Descriptors /\ Turn /\ Watching /\ Waiting /\ Reading

FullInv == NetInv /\ LogInv
-----------------------------------------------------------------------------
(* The server's steps are steps of the hub *)

\* The invariant holds at first.
LEMMA LogStart == LogInit => LogInv
  <1> SUFFICES ASSUME LogInit PROVE LogInv
    OBVIOUS
  <1>1. /\ lpc = "stopped" /\ listen_fd = -1 /\ cfd = -1 /\ nbytes = 0
        /\ conn = [c \in Conns |-> "none"] /\ client = [c \in Conns |-> "up"]
        /\ pending = [c \in Conns |-> 0]
        /\ holds = [f \in Fds |-> NULL] /\ reported = [f \in Fds |-> NULL]
    BY DEF LogInit
  <1>2. /\ pc = "time" /\ proc = NULL /\ open = {}
        /\ mode = Nothing /\ rdy_events = Nothing
    BY DEF LogInit, Init
  <1>3. \A f \in Table : mode[f] = {} /\ rdy_events[f] = {} /\ f \in Fds
    BY <1>2 DEF Nothing, Table
  <1>4. LogTypeOK
    BY <1>1, LogAssumption DEF LogTypeOK
  <1>5. Control /\ Turn /\ Reading
    BY <1>1, <1>2 DEF Control, Turn, Reading, InHandler
  <1>6. Descriptors
    BY <1>1, <1>2, LogAssumption DEF Descriptors
  <1>7. Watching /\ Waiting
    BY <1>1, <1>3, LogAssumption DEF Watching, Waiting
  <1> QED BY <1>4, <1>5, <1>6, <1>7 DEF LogInv

\* Clients leave the hub alone.
LEMMA ClientsLeaveHub ==
    ASSUME Clients
    PROVE  UNCHANGED <<vars, lpc, listen_fd, cfd, nbytes, holds, reported>>
  BY DEF Clients, Connect, Write, HangUp

\* A step of the server is a step of the hub or leaves it alone.
LEMMA TakesHubSteps ==
    ASSUME FullInv, [LogNext]_allVars
    PROVE  [Next]_vars
  <1>1. CASE Clients
    BY <1>1, ClientsLeaveHub
  <1>2. CASE Start
    <2>1. CASE RegisterListener
      <3>1. /\ hub_create_net_event(listen_fd, {"read"}, log_accept_handler)
            /\ {"read"} \in (SUBSET Modes) \ {{}}
            /\ listen_fd \in Table /\ log_accept_handler \in Procs
        BY <2>1, LogAssumption DEF RegisterListener, Modes
      <3> QED BY <3>1 DEF Next, Client
    <2> QED BY <1>2, <2>1 DEF Start, StartFails, Listen, Next, Client
  <1>3. CASE Wait \/ (\E f \in Table : Dispatch(f)) \/ Return \/ NextRound
    BY <1>3 DEF Wait, Dispatch, Return, NextRound, Next, Round
  <1>4. CASE AcceptStep
    <2>1. CASE Register
      <3>1. /\ hub_create_net_event(cfd, {"read"}, log_read_handler)
            /\ {"read"} \in (SUBSET Modes) \ {{}}
            /\ cfd \in Table /\ log_read_handler \in Procs
        BY <2>1, LogAssumption DEF Register, Modes
      <3> QED BY <3>1 DEF Next, Client
    <2> QED
      BY <1>4, <2>1 DEF AcceptStep, Accept, AcceptFails, RegisterRefused, Next,
         Client
  <1>5. CASE ReadStep
    <2>1. CASE Drop
      <3>1. /\ hub_delete_net_event(fd, Modes)
            /\ Modes \in (SUBSET Modes) \ {{}} /\ fd \in Table
        BY <2>1 DEF Drop, Modes, FullInv, LogInv, Control, InHandler
      <3> QED BY <3>1 DEF Next, Client
    <2>2. CASE CloseClient
      <3>1. Close(fd) /\ fd \in Fds
        BY <2>2 DEF CloseClient, Close, FullInv, NetInv, TypeOK
      <3> QED BY <3>1 DEF Next, Client
    <2> QED
      BY <1>5, <2>1, <2>2 DEF ReadStep, ReadSome, ReadDry, ReadFails
  <1>6. CASE UNCHANGED allVars
    BY <1>6 DEF allVars
  <1> QED
    BY <1>1, <1>2, <1>3, <1>4, <1>5, <1>6 DEF LogNext, Serve

\* The types of the hub's variables the steps of the server rely on.
LEMMA HubTypes ==
    ASSUME NetInv
    PROVE  /\ mode \in [Table -> SUBSET Modes]
           /\ rdy_events \in [Table -> SUBSET Modes]
           /\ \A f \in Table : interest[f] = mode[f]
           /\ \A f \in Table : mode[f] # {} => f \in open
           /\ open \subseteq Fds /\ Table \subseteq Fds
           /\ pc = "time" => \A f \in Table : rdy_events[f] = {}
  BY DEF NetInv, TypeOK, InterestMatchesTable, Table, Nothing

-----------------------------------------------------------------------------
(* Every step keeps the invariant *)

\* What clients do keeps the invariant.
LEMMA ClientsKeep ==
    ASSUME NetInv, LogInv, Clients
    PROVE  LogInv'
  <1>0. UNCHANGED <<mode, rnetProc, rdy_events, open, pc, fd, proc, lpc, listen_fd,
                    cfd, nbytes, holds, reported>>
    BY ClientsLeaveHub DEF vars, table, kernel
  <1>t. LogTypeOK /\ Control /\ Descriptors /\ Turn /\ Watching /\ Waiting /\ Reading
    BY DEF LogInv
  <1>1. Control' /\ Turn' /\ Watching'
    BY <1>0, <1>t DEF Control, Turn, Watching
  <1>2. PICK c \in Conns :
          \/ Connect(c)
          \/ \E n \in 1 .. MaxPending : Write(c, n)
          \/ \E how \in {"closed", "reset"} : HangUp(c, how)
    BY DEF Clients
  <1>3. CASE Connect(c)
    <2>1. /\ conn' = [conn EXCEPT ![c] = "queued"] /\ conn[c] = "none"
          /\ client' = client /\ pending' = pending
      BY <1>3 DEF Connect, IsFirst
    <2>2. LogTypeOK'
      BY <2>1, <1>0, <1>t DEF LogTypeOK
    <2>3. Descriptors'
      BY <2>1, <1>0, <1>t DEF Descriptors, LogTypeOK
    <2>4. Waiting' /\ Reading'
      BY <2>1, <1>0, <1>t DEF Waiting, Reading, Stirred, Finished
    <2> QED BY <1>1, <2>2, <2>3, <2>4 DEF LogInv
  <1>4. CASE \E n \in 1 .. MaxPending : Write(c, n)
    <2>1. PICK n \in 1 .. MaxPending : Write(c, n)
      BY <1>4
    <2>2. /\ pending' = [pending EXCEPT ![c] = @ + n]
          /\ pending[c] + n <= MaxPending /\ client[c] = "up"
          /\ conn' = conn /\ client' = client
      BY <2>1 DEF Write, Connected
    <2>3. LogTypeOK'
      BY <2>2, <1>0, <1>t, LogAssumption DEF LogTypeOK
    <2>4. Descriptors'
      BY <2>2, <1>0, <1>t DEF Descriptors
    <2>5. \A d \in Conns : /\ Stirred(d) => Stirred(d)'
                           /\ Finished(d) => Finished(d)'
      BY <2>2, <1>t, LogAssumption DEF Stirred, Finished, LogTypeOK
    <2>6. Waiting' /\ Reading'
      BY <2>5, <1>0, <1>t DEF Waiting, Reading, Turn
    <2> QED BY <1>1, <2>3, <2>4, <2>6 DEF LogInv
  <1>5. CASE \E how \in {"closed", "reset"} : HangUp(c, how)
    <2>1. PICK how \in {"closed", "reset"} : HangUp(c, how)
      BY <1>5
    <2>2. /\ client' = [client EXCEPT ![c] = how] /\ client[c] = "up"
          /\ conn' = conn /\ pending' = pending
      BY <2>1 DEF HangUp, Connected
    <2>3. LogTypeOK'
      BY <2>2, <1>0, <1>t DEF LogTypeOK
    <2>4. Descriptors'
      BY <2>2, <1>0, <1>t DEF Descriptors, LogTypeOK
    <2>5. \A d \in Conns : /\ Stirred(d) => Stirred(d)'
                           /\ Finished(d) => Finished(d)'
      BY <2>2, <1>t DEF Stirred, Finished, LogTypeOK
    <2>6. Waiting' /\ Reading'
      BY <2>5, <1>0, <1>t DEF Waiting, Reading, Turn
    <2> QED BY <1>1, <2>3, <2>4, <2>6 DEF LogInv
  <1> QED BY <1>2, <1>3, <1>4, <1>5

\* The least of some natural numbers is below each.
LEMMA MinIsLower ==
    ASSUME NEW S \in SUBSET Nat, S # {}
    PROVE  Min(S) \in S /\ \A x \in S : Min(S) <= x
  BY LeastNatural DEF Min

\* A new file: the lowest free descriptor, which nothing watches or waits for.
LEMMA NewDescriptor ==
    ASSUME NetInv, LogInv, Open, NEW f, f = Min(Fds \ open)
    PROVE  /\ f \in Fds /\ f \notin open /\ holds[f] = NULL
           /\ open' = open \cup {f}
           /\ f \in Table => mode[f] = {} /\ rdy_events[f] = {}
  <1>1. Fds \ open \in SUBSET Nat /\ Fds \ open # {}
    BY NetAssumption, HubTypes DEF Open
  <1>2. f \in Fds \ open
    BY <1>1, MinIsLeast
  <1>3. holds[f] = NULL
    BY <1>2 DEF LogInv, Descriptors
  <1>4. open' = open \cup {f}
    BY DEF Open
  <1>5. f \in Table => mode[f] = {}
    BY <1>2, HubTypes
  <1>6. f \in Table => rdy_events[f] = {}
    BY <1>3 DEF LogInv, Waiting
  <1> QED BY <1>2, <1>3, <1>4, <1>5, <1>6

\* So does opening the listening socket,
LEMMA ListenKeeps ==
    ASSUME NetInv, LogInv, Listen
    PROVE  LogInv'
  <1>t. LogTypeOK /\ Control /\ Descriptors /\ Turn /\ Watching /\ Waiting /\ Reading
    BY DEF LogInv
  <1>1. /\ UNCHANGED <<mode, rnetProc, rdy_events, pc, fd, proc, cfd, nbytes, conn,
                       client, pending, reported>>
        /\ lpc = "stopped" /\ lpc' = "listening"
        /\ Open /\ listen_fd' = Min(Fds \ open)
        /\ holds' = [holds EXCEPT ![listen_fd'] = LISTENER]
    BY DEF Listen, Open, Goto, peers, table
  <1>2. /\ listen_fd' \in Fds /\ holds[listen_fd'] = NULL
        /\ open' = open \cup {listen_fd'}
        /\ listen_fd' \in Table =>
              mode[listen_fd'] = {} /\ rdy_events[listen_fd'] = {}
    BY <1>1, NewDescriptor
  <1>3. pc = "time" /\ \A f \in Table : rdy_events[f] = {}
    BY <1>1, <1>t, HubTypes DEF Control
  <1>4. \A f \in Fds : holds[f] = NULL
    BY <1>1, <1>t DEF Turn
  <1>5. \A f \in Fds : holds'[f] = IF f = listen_fd' THEN LISTENER ELSE NULL
    BY <1>1, <1>2, <1>4, <1>t DEF LogTypeOK
  <1>6. LogTypeOK'
    BY <1>1, <1>2, <1>t DEF LogTypeOK
  <1>7. Control' /\ Turn' /\ Reading'
    BY <1>1, <1>2, <1>5, <1>t DEF Control, Turn, Reading, InHandler
  <1>8. Descriptors'
    BY <1>1, <1>2, <1>4, <1>5, <1>t, LogAssumption DEF Descriptors
  <1>9. Watching'
    BY <1>1, <1>5, <1>t, HubTypes, LogAssumption DEF Watching
  <1>10. Waiting'
    BY <1>1, <1>3 DEF Waiting
  <1> QED BY <1>6, <1>7, <1>8, <1>9, <1>10 DEF LogInv

\* starting the server,
LEMMA StartKeeps ==
    ASSUME NetInv, LogInv, Start
    PROVE  LogInv'
  <1>t. LogTypeOK /\ Control /\ Descriptors /\ Turn /\ Watching /\ Waiting /\ Reading
    BY DEF LogInv
  <1>1. CASE StartFails
    <2>1. /\ UNCHANGED <<mode, rnetProc, rdy_events, open, pc, fd, proc, listen_fd,
                         cfd, nbytes, conn, client, pending, holds, reported>>
          /\ lpc = "stopped" /\ lpc' = "failed"
      BY <1>1 DEF StartFails, Goto, peers, vars, table, kernel
    <2> QED
      BY <2>1, <1>t DEF LogInv, LogTypeOK, Control, Descriptors, Turn, Watching, Waiting,
         Reading, Stirred, Finished, InHandler
  <1>2. CASE RegisterListener
    <2>1. /\ UNCHANGED <<rdy_events, open, pc, fd, proc, listen_fd, cfd, nbytes, conn,
                         client, pending, holds, reported>>
          /\ lpc = "listening" /\ lpc' = "serving" /\ listen_fd \in Table
          /\ mode' = [mode EXCEPT ![listen_fd] = @ \cup {"read"}]
          /\ rnetProc' = [rnetProc EXCEPT ![listen_fd] = log_accept_handler]
      BY <1>2 DEF RegisterListener, hub_create_net_event, Goto, peers
    <2>2. holds[listen_fd] = LISTENER
      BY <2>1, <1>t DEF Turn
    <2>3. \A f \in Table :
             /\ mode'[f] = IF f = listen_fd THEN mode[f] \cup {"read"} ELSE mode[f]
             /\ rnetProc'[f] = IF f = listen_fd THEN log_accept_handler ELSE rnetProc[f]
             /\ f \in Fds
      BY <2>1, HubTypes DEF NetInv, TypeOK
    <2>4. Watching'
      BY <2>1, <2>2, <2>3, <1>t, LogAssumption DEF Watching, Descriptors
    <2> QED
      BY <2>1, <2>4, <1>t DEF LogInv, LogTypeOK, Control, Descriptors, Turn, Waiting,
         Reading, Stirred, Finished, InHandler
  <1> QED BY <1>1, <1>2, ListenKeeps DEF Start

\* waiting for events,
LEMMA WaitKeeps ==
    ASSUME NetInv, LogInv, Wait
    PROVE  LogInv'
  <1>t. LogTypeOK /\ Control /\ Descriptors /\ Turn /\ Watching /\ Waiting /\ Reading
    BY DEF LogInv
  <1>1. /\ UNCHANGED <<mode, rnetProc, watched, open, fd, proc, lpc, listen_fd, cfd,
                       nbytes, conn, client, pending, holds>>
        /\ lpc = "serving" /\ pc = "time" /\ pc' = "dispatch"
        /\ rdy_events' = [f \in Table |-> IF f \in watched THEN Ready(f) ELSE {}]
        /\ reported' = [f \in Fds |-> IF f \in Table /\ rdy_events'[f] # {}
                                     THEN holds[f] ELSE NULL]
    BY DEF Wait, evt_multipexer_loop, peers, table, kernel
  <1>2. \A f \in Table : rdy_events'[f] # {} =>
            f \in watched /\ Ready(f) # {} /\ f \in Fds
    BY <1>1, HubTypes
  <1>3. \A f \in watched : f \in Fds /\ holds[f] # NULL
    BY <1>t DEF NetInv, InterestMatchesTable, TypeOK, Descriptors
  <1>4. \A f \in Table : rdy_events'[f] # {} =>
            /\ holds'[f] = reported'[f] /\ reported'[f] # NULL
            /\ holds[f] \in Conns => Stirred(holds[f])
    BY <1>1, <1>2, <1>3, LogAssumption DEF Ready, Stirred
  <1>5. LogTypeOK'
    BY <1>1, <1>t DEF LogTypeOK
  <1>6. Control' /\ Descriptors' /\ Turn' /\ Watching'
    BY <1>1, <1>t DEF Control, Descriptors, Turn, Watching, InHandler
  <1>7. Waiting'
    BY <1>1, <1>4 DEF Waiting, Stirred
  <1>8. Reading'
    BY <1>1 DEF Reading
  <1> QED BY <1>5, <1>6, <1>7, <1>8 DEF LogInv

\* calling the handler of one,
LEMMA DispatchKeeps ==
    ASSUME NetInv, LogInv, NEW f \in Table, Dispatch(f)
    PROVE  LogInv'
  <1>t. LogTypeOK /\ Control /\ Descriptors /\ Turn /\ Watching /\ Waiting /\ Reading
    BY DEF LogInv
  <1>1. /\ UNCHANGED <<mode, rnetProc, watched, open, listen_fd, cfd, conn, client,
                       pending, holds, reported>>
        /\ pc = "dispatch" /\ rdy_events[f] # {} /\ nbytes' = 0
        /\ rdy_events' = [rdy_events EXCEPT ![f] = {}]
        /\ lpc' = IF proc' = log_accept_handler THEN "accept"
                  ELSE IF proc' = log_read_handler THEN "read" ELSE "serving"
    BY DEF Dispatch, CallReader, CallWriter, SkipEvent, Take, Goto, peers, table,
       kernel
  <1>2. /\ proc = NULL /\ lpc = "serving"
        /\ NULL \notin {log_accept_handler, log_read_handler}
    <2>1. lpc \notin InHandler /\ lpc \notin {"stopped", "failed", "listening"}
      BY <1>1, <1>t DEF Control
    <2> QED
      BY <1>1, <2>1, <1>t, NetAssumption, LogAssumption DEF Control, LogTypeOK, InHandler
  <1>3. \/ /\ pc' = "handler" /\ fd' = f /\ proc' = rnetProc[f]
           /\ mode[f] = {"read"} /\ proc' \in {log_accept_handler, log_read_handler}
        \/ pc' = "dispatch" /\ proc' = NULL
    <2>1. CASE CallReader(f)
      <3>1. "read" \in mode[f] /\ pc' = "handler" /\ fd' = f /\ proc' = rnetProc[f]
        BY <2>1 DEF CallReader
      <3>2. rnetProc[f] \in Procs
        BY <3>1 DEF NetInv, Handlers
      <3> QED BY <3>1, <3>2, <1>t, LogAssumption DEF Watching
    <2>2. CASE CallWriter(f)
      <3>1. "write" \in mode[f]
        BY <2>2 DEF CallWriter
      <3> QED BY <3>1, <1>t DEF Watching
    <2>3. CASE SkipEvent(f)
      BY <2>3, <1>1, <1>2 DEF SkipEvent
    <2> QED BY <2>1, <2>2, <2>3 DEF Dispatch
  <1>4. \A g \in Table : rdy_events'[g] = IF g = f THEN {} ELSE rdy_events[g]
    BY <1>1, HubTypes
  <1>5. holds[f] = reported[f] /\ holds[f] # NULL /\ f \in Fds
    BY <1>1, <1>t, HubTypes DEF Waiting
  <1>6. Control'
    BY <1>1, <1>2, <1>3, <1>4 DEF Control, InHandler
  <1>7. lpc' = "read" => /\ holds[fd'] \in Conns /\ holds[fd'] = reported[fd']
                         /\ Stirred(holds[fd'])
    <2> SUFFICES ASSUME lpc' = "read" PROVE holds[f] \in Conns /\ fd' = f
      BY <1>1, <1>5, <1>t DEF Waiting
    <2>1. rnetProc[f] = log_read_handler /\ mode[f] = {"read"} /\ fd' = f
      BY <1>1, <1>2, <1>3
    <2>2. holds[f] # LISTENER
      BY <2>1, <1>2, <1>t, LogAssumption DEF Watching
    <2> QED BY <2>1, <2>2, <1>5, <1>t DEF LogTypeOK
  <1>8. lpc' \in {"accept", "read", "serving"}
    BY <1>1
  <1>9. LogTypeOK'
    BY <1>1, <1>8, <1>t, LogAssumption DEF LogTypeOK
  <1>10. Turn' /\ Reading'
    BY <1>1, <1>7, <1>8 DEF Turn, Reading, Stirred
  <1>11. Descriptors'
    BY <1>1, <1>t DEF Descriptors
  <1>12. Watching'
    BY <1>1, <1>2, <1>t DEF Watching
  <1>13. Waiting'
    BY <1>1, <1>4, <1>t DEF Waiting, Stirred
  <1> QED BY <1>6, <1>9, <1>10, <1>11, <1>12, <1>13 DEF LogInv

\* coming back from it or to the next round,
LEMMA RoundKeeps ==
    ASSUME NetInv, LogInv, Return \/ NextRound
    PROVE  LogInv'
  <1>t. LogTypeOK /\ Control /\ Descriptors /\ Turn /\ Watching /\ Waiting /\ Reading
    BY DEF LogInv
  <1>1. CASE Return
    <2>1. /\ UNCHANGED <<mode, rnetProc, rdy_events, open, listen_fd, conn, client,
                         pending, holds, reported>>
          /\ lpc = "return" /\ lpc' = "serving" /\ cfd' = -1 /\ nbytes' = 0
          /\ pc' = "dispatch" /\ proc' = NULL
      BY <1>1 DEF Return, HandlerReturns, Goto, peers, table, kernel
    <2>2. LogTypeOK'
      BY <2>1, <1>t, LogAssumption DEF LogTypeOK
    <2>3. Control' /\ Descriptors' /\ Turn' /\ Reading'
      BY <2>1, <1>t DEF Control, Descriptors, Turn, Reading, InHandler
    <2>4. Watching' /\ Waiting'
      BY <2>1, <1>t DEF Watching, Waiting, Stirred
    <2> QED BY <2>2, <2>3, <2>4 DEF LogInv
  <1>2. CASE NextRound
    <2>1. /\ UNCHANGED <<mode, rnetProc, open, fd, proc, lpc, listen_fd, cfd, nbytes,
                         conn, client, pending, holds>>
          /\ lpc = "serving" /\ pc = "dispatch" /\ pc' = "time"
          /\ \A f \in Table : rdy_events'[f] = {}
          /\ reported' = [f \in Fds |-> NULL]
      BY <1>2 DEF NextRound, RoundEnds, Nothing, peers, table, kernel
    <2>2. LogTypeOK'
      BY <2>1, <1>t DEF LogTypeOK
    <2>3. Control' /\ Descriptors' /\ Turn' /\ Reading'
      BY <2>1, <1>t DEF Control, Descriptors, Turn, Reading, InHandler
    <2>4. Watching' /\ Waiting'
      BY <2>1, <1>t DEF Watching, Waiting
    <2> QED BY <2>2, <2>3, <2>4 DEF LogInv
  <1> QED BY <1>1, <1>2

\* accepting a client,
LEMMA AcceptKeeps ==
    ASSUME NetInv, LogInv, NEW c \in Conns, Accept(c)
    PROVE  LogInv'
  <1>t. LogTypeOK /\ Control /\ Descriptors /\ Turn /\ Watching /\ Waiting /\ Reading
    BY DEF LogInv
  <1>1. /\ UNCHANGED <<mode, rnetProc, rdy_events, pc, fd, proc, listen_fd, nbytes,
                       client, pending, reported>>
        /\ lpc = "accept" /\ lpc' = "register" /\ conn[c] = "queued"
        /\ Open /\ cfd' = Min(Fds \ open)
        /\ holds' = [holds EXCEPT ![cfd'] = c]
        /\ conn' = [conn EXCEPT ![c] = "accepted"]
    BY DEF Accept, IsFirst, Open, Goto, peers, table
  <1>2. /\ cfd' \in Fds /\ holds[cfd'] = NULL
        /\ open' = open \cup {cfd'}
        /\ cfd' \in Table => mode[cfd'] = {} /\ rdy_events[cfd'] = {}
    BY <1>1, NewDescriptor
  <1>3. \A f \in Fds : holds'[f] = IF f = cfd' THEN c ELSE holds[f]
    BY <1>1, <1>2, <1>t DEF LogTypeOK
  <1>4. \A d \in Conns : conn'[d] = IF d = c THEN "accepted" ELSE conn[d]
    BY <1>1, <1>t DEF LogTypeOK
  <1>5. \A f \in Fds : holds[f] # c
    BY <1>1, <1>t DEF Descriptors
  <1>6. LogTypeOK'
    BY <1>1, <1>2, <1>t DEF LogTypeOK
  <1>7. Control' /\ Reading'
    BY <1>1, <1>t DEF Control, Reading, InHandler
  <1>8. Turn'
    BY <1>1, <1>2, <1>3 DEF Turn
  <1>9. Descriptors'
    <2>1. \A f \in Fds : f \in open' <=> holds'[f] # NULL
      BY <1>2, <1>3, <1>t, LogAssumption DEF Descriptors
    <2>2. \A f, g \in Fds : holds'[f] # NULL /\ holds'[f] = holds'[g] => f = g
      BY <1>3, <1>5, <1>t DEF Descriptors
    <2>3. \A d \in Conns : conn'[d] = "accepted" <=> \E f \in Fds : holds'[f] = d
      <3> SUFFICES ASSUME NEW d \in Conns
                   PROVE  conn'[d] = "accepted" <=> \E f \in Fds : holds'[f] = d
        OBVIOUS
      <3>1. CASE d = c
        BY <3>1, <1>2, <1>3, <1>4
      <3>2. CASE d # c
        <4>1. holds[cfd'] # d
          BY <1>2, LogAssumption
        <4> QED BY <3>2, <4>1, <1>3, <1>4, <1>t DEF Descriptors
      <3> QED BY <3>1, <3>2
    <2>4. \A d \in Conns : client'[d] = "gone" => conn'[d] = "closed"
      BY <1>1, <1>4, <1>t DEF Descriptors
    <2> QED BY <2>1, <2>2, <2>3, <2>4 DEF Descriptors
  <1>10. Table \subseteq Fds
    BY HubTypes
  <1>11. Watching'
    BY <1>1, <1>3, <1>10, <1>t, LogAssumption DEF Watching
  <1>12. Waiting'
    BY <1>1, <1>2, <1>3, <1>10, <1>t DEF Waiting, Stirred
  <1> QED BY <1>6, <1>7, <1>8, <1>9, <1>11, <1>12 DEF LogInv

\* having it watched,
LEMMA RegisterKeeps ==
    ASSUME NetInv, LogInv, Register
    PROVE  LogInv'
  <1>t. LogTypeOK /\ Control /\ Descriptors /\ Turn /\ Watching /\ Waiting /\ Reading
    BY DEF LogInv
  <1>1. /\ UNCHANGED <<rdy_events, open, pc, fd, proc, listen_fd, cfd, nbytes, conn,
                       client, pending, holds, reported>>
        /\ lpc = "register" /\ lpc' = "return" /\ cfd \in Table
        /\ mode' = [mode EXCEPT ![cfd] = @ \cup {"read"}]
        /\ rnetProc' = [rnetProc EXCEPT ![cfd] = log_read_handler]
    BY DEF Register, hub_create_net_event, Goto, peers
  <1>2. \A f \in Table :
           /\ mode'[f] = IF f = cfd THEN {"read"} ELSE mode[f]
           /\ rnetProc'[f] = IF f = cfd THEN log_read_handler ELSE rnetProc[f]
    BY <1>1, <1>t, HubTypes DEF NetInv, TypeOK, Turn
  <1>3. holds[cfd] \in Conns
    BY <1>1, <1>t DEF Turn
  <1>4. LogTypeOK' /\ Control' /\ Descriptors' /\ Turn' /\ Reading'
    BY <1>1, <1>t DEF LogTypeOK, Control, Descriptors, Turn, Reading, InHandler
  <1>5. Watching'
    BY <1>1, <1>2, <1>3, <1>t, LogAssumption DEF Watching
  <1>6. Waiting'
    BY <1>1, <1>t DEF Waiting, Stirred
  <1> QED BY <1>4, <1>5, <1>6 DEF LogInv

\* all that the handler of the listener does,
LEMMA AcceptStepKeeps ==
    ASSUME NetInv, LogInv, AcceptStep
    PROVE  LogInv'
  <1>1. CASE AcceptFails \/ RegisterRefused
    <2>t. LogTypeOK /\ Control /\ Descriptors /\ Turn /\ Watching /\ Waiting /\ Reading
      BY DEF LogInv
    <2>1. /\ UNCHANGED <<mode, rnetProc, rdy_events, open, pc, fd, proc, listen_fd,
                         cfd, nbytes, conn, client, pending, holds, reported>>
          /\ lpc \in {"accept", "register"} /\ lpc' = "return"
          /\ lpc = "register" => cfd \notin Table
      BY <1>1 DEF AcceptFails, RegisterRefused, Goto, peers, vars, table, kernel
    <2>2. LogTypeOK' /\ Control' /\ Descriptors' /\ Turn' /\ Reading'
      BY <2>1, <2>t DEF LogTypeOK, Control, Descriptors, Turn, Reading, InHandler
    <2>3. Watching' /\ Waiting'
      BY <2>1, <2>t DEF Watching, Waiting, Stirred
    <2> QED BY <2>2, <2>3 DEF LogInv
  <1> QED BY <1>1, AcceptKeeps, RegisterKeeps DEF AcceptStep

\* reading a piece of what was sent,
LEMMA ReadSomeKeeps ==
    ASSUME NetInv, LogInv, ReadSome
    PROVE  LogInv'
  <1>t. LogTypeOK /\ Control /\ Descriptors /\ Turn /\ Watching /\ Waiting /\ Reading
    BY DEF LogInv
  <1> DEFINE c == holds[fd]
             n == Min({pending[c], ReadSize - nbytes})
  <1>1. /\ UNCHANGED <<mode, rnetProc, rdy_events, open, pc, fd, proc, listen_fd,
                       cfd, conn, client, holds, reported>>
        /\ lpc = "read" /\ n > 0 /\ lpc' \in {"return", "read"}
        /\ pending' = [pending EXCEPT ![c] = @ - n] /\ nbytes' = nbytes + n
        /\ lpc' = IF nbytes' = ReadSize THEN "return" ELSE "read"
    BY DEF ReadSome, Goto, vars, table, kernel
  <1>2. c \in Conns /\ c = reported[fd] /\ fd \in Table /\ rdy_events[fd] = {}
    BY <1>1, <1>t DEF Turn, Control, InHandler
  <1>3. /\ pending[c] \in 0 .. MaxPending /\ ReadSize \in Nat
        /\ nbytes \in 0 .. ReadSize /\ MaxPending \in Nat
    BY <1>2, <1>t, LogAssumption DEF LogTypeOK
  <1>4. n \in {pending[c], ReadSize - nbytes} /\ n <= pending[c] /\ n <= ReadSize - nbytes
    <2>1. {pending[c], ReadSize - nbytes} \in SUBSET Nat
      BY <1>3
    <2> QED BY <2>1, MinIsLower
  <1>5. \A d \in Conns : pending'[d] = IF d = c THEN pending[c] - n ELSE pending[d]
    BY <1>1, <1>2, <1>t DEF LogTypeOK
  <1>6. LogTypeOK'
    <2>1. nbytes' \in 0 .. ReadSize /\ pending[c] - n \in 0 .. MaxPending
      BY <1>1, <1>3, <1>4
    <2>2. pending' \in [Conns -> 0 .. MaxPending]
      BY <2>1, <1>1, <1>t DEF LogTypeOK
    <2> QED BY <2>1, <2>2, <1>1, <1>t DEF LogTypeOK
  <1>7. Control' /\ Descriptors' /\ Turn' /\ Watching'
    BY <1>1, <1>2, <1>t DEF Control, Descriptors, Turn, Watching, InHandler
  <1>8. Waiting'
    <2> SUFFICES ASSUME NEW f \in Table, rdy_events[f] # {}
                 PROVE  /\ holds[f] = reported[f] /\ reported[f] # NULL
                        /\ holds[f] \in Conns => Stirred(holds[f])'
      BY <1>1 DEF Waiting
    <2>1. f # fd /\ f \in Fds /\ fd \in Fds
      BY <1>2, HubTypes
    <2>2. c # NULL
      BY <1>2, LogAssumption
    <2>3. holds[f] # c
      BY <2>1, <2>2, <1>t DEF Descriptors
    <2> QED BY <2>3, <1>1, <1>5, <1>t DEF Waiting, Stirred
  <1>9. Reading'
    BY <1>1, <1>3, <1>4 DEF Reading
  <1> QED BY <1>6, <1>7, <1>8, <1>9 DEF LogInv

\* the end of reading,
LEMMA ReadEndsKeep ==
    ASSUME NetInv, LogInv, ReadDry \/ ReadFails
    PROVE  LogInv'
  <1>t. LogTypeOK /\ Control /\ Descriptors /\ Turn /\ Watching /\ Waiting /\ Reading
    BY DEF LogInv
  <1>1. /\ UNCHANGED <<mode, rnetProc, rdy_events, open, pc, fd, proc, listen_fd,
                       cfd, nbytes, conn, client, pending, holds, reported>>
        /\ lpc = "read" /\ lpc' \in {"drop", "return"}
    BY DEF ReadDry, ReadFails, Goto, peers, vars, table, kernel
  <1>2. holds[fd] \in Conns /\ fd \in Fds
    BY <1>1, <1>t, HubTypes DEF Turn, Control, InHandler
  <1>3. client[holds[fd]] # "gone"
    BY <1>2, <1>t DEF Descriptors
  <1>4. lpc' = "drop" => Finished(holds[fd])
    <2>1. CASE ReadFails
      BY <2>1 DEF ReadFails, Finished
    <2>2. CASE ReadDry
      <3>1. /\ client[holds[fd]] # "reset" /\ pending[holds[fd]] = 0
            /\ lpc' = "drop" => nbytes = 0
        BY <2>2 DEF ReadDry, Goto
      <3> QED BY <3>1, <1>1, <1>2, <1>3, <1>t DEF Reading, Stirred, Finished, LogTypeOK
    <2> QED BY <2>1, <2>2
  <1>5. Reading'
    BY <1>1, <1>4 DEF Reading, Finished
  <1>6. LogTypeOK' /\ Control' /\ Descriptors' /\ Turn'
    BY <1>1, <1>t DEF LogTypeOK, Control, Descriptors, Turn, InHandler
  <1>7. Watching' /\ Waiting'
    BY <1>1, <1>t DEF Watching, Waiting, Stirred
  <1> QED BY <1>5, <1>6, <1>7 DEF LogInv

\* giving a client up,
LEMMA DropKeeps ==
    ASSUME NetInv, LogInv, Drop
    PROVE  LogInv'
  <1>t. LogTypeOK /\ Control /\ Descriptors /\ Turn /\ Watching /\ Waiting /\ Reading
    BY DEF LogInv
  <1>1. /\ UNCHANGED <<rdy_events, open, pc, fd, proc, listen_fd, cfd, nbytes, conn,
                       client, pending, holds, reported>>
        /\ lpc = "drop" /\ lpc' = "close"
        /\ mode' = [mode EXCEPT ![fd] = mode[fd] \ Modes]
        /\ rnetProc' = [rnetProc EXCEPT ![fd] =
                           IF "read" \notin mode[fd] \ Modes THEN NULL ELSE @]
    BY DEF Drop, hub_delete_net_event, Goto, peers
  <1>2. fd \in Table /\ fd \in Fds /\ holds[fd] \in Conns
    BY <1>1, <1>t, HubTypes DEF Turn, Control, InHandler
  <1>3. \A f \in Table : /\ mode'[f] = IF f = fd THEN {} ELSE mode[f]
                         /\ f # fd => rnetProc'[f] = rnetProc[f]
    BY <1>1, <1>2, HubTypes DEF NetInv, TypeOK
  <1>4. LogTypeOK' /\ Control' /\ Descriptors'
    BY <1>1, <1>t DEF LogTypeOK, Control, Descriptors, InHandler
  <1>5. Turn' /\ Reading'
    BY <1>1, <1>2, <1>3, <1>t DEF Turn, Reading, Finished
  <1>6. Watching'
    BY <1>1, <1>2, <1>3, <1>t, LogAssumption DEF Watching
  <1>7. Waiting'
    BY <1>1, <1>t DEF Waiting, Stirred
  <1> QED BY <1>4, <1>5, <1>6, <1>7 DEF LogInv

\* and closing it.
LEMMA CloseKeeps ==
    ASSUME NetInv, LogInv, CloseClient
    PROVE  LogInv'
  <1>t. LogTypeOK /\ Control /\ Descriptors /\ Turn /\ Watching /\ Waiting /\ Reading
    BY DEF LogInv
  <1> DEFINE c == holds[fd]
  <1>1. /\ UNCHANGED <<mode, rnetProc, rdy_events, pc, fd, proc, listen_fd, cfd,
                       nbytes, reported>>
        /\ lpc = "close" /\ lpc' = "return" /\ open' = open \ {fd}
        /\ holds' = [holds EXCEPT ![fd] = NULL]
        /\ conn' = [conn EXCEPT ![c] = "closed"]
        /\ client' = [client EXCEPT ![c] = "gone"]
        /\ pending' = [pending EXCEPT ![c] = 0]
    BY DEF CloseClient, Close, Goto, table
  <1>2. /\ fd \in Table /\ fd \in Fds /\ c \in Conns /\ mode[fd] = {}
        /\ rdy_events[fd] = {} /\ c # NULL
    BY <1>1, <1>t, HubTypes, LogAssumption DEF Turn, Control, InHandler
  <1>3. \A f \in Fds : holds'[f] = IF f = fd THEN NULL ELSE holds[f]
    BY <1>1, <1>t DEF LogTypeOK
  <1>4. \A d \in Conns :
           /\ conn'[d] = IF d = c THEN "closed" ELSE conn[d]
           /\ client'[d] = IF d = c THEN "gone" ELSE client[d]
           /\ pending'[d] = IF d = c THEN 0 ELSE pending[d]
    BY <1>1, <1>t DEF LogTypeOK
  <1>5. \A f \in Fds : holds[f] = c => f = fd
    BY <1>2, <1>t DEF Descriptors
  <1>6. LogTypeOK'
    <2>1. 0 \in 0 .. MaxPending
      BY LogAssumption
    <2>2. /\ conn' \in [Conns -> {"none", "queued", "accepted", "closed"}]
          /\ client' \in [Conns -> {"up", "closed", "reset", "gone"}]
          /\ pending' \in [Conns -> 0 .. MaxPending]
          /\ holds' \in [Fds -> Conns \cup {LISTENER, NULL}]
      BY <2>1, <1>1, <1>t DEF LogTypeOK
    <2> QED BY <2>2, <1>1, <1>t DEF LogTypeOK
  <1>7. Control' /\ Turn' /\ Reading'
    BY <1>1, <1>t DEF Control, Turn, Reading, InHandler
  <1>8. Descriptors'
    <2>1. \A f \in Fds : f \in open' <=> holds'[f] # NULL
      BY <1>1, <1>3, <1>t DEF Descriptors
    <2>2. \A f, g \in Fds : holds'[f] # NULL /\ holds'[f] = holds'[g] => f = g
      BY <1>3, <1>t DEF Descriptors
    <2>3. \A d \in Conns : conn'[d] = "accepted" <=> \E f \in Fds : holds'[f] = d
      <3> SUFFICES ASSUME NEW d \in Conns
                   PROVE  conn'[d] = "accepted" <=> \E f \in Fds : holds'[f] = d
        OBVIOUS
      <3>0. d # NULL
        BY LogAssumption
      <3>1. CASE d = c
        BY <3>0, <3>1, <1>3, <1>4, <1>5
      <3>2. CASE d # c
        BY <3>0, <3>2, <1>3, <1>4, <1>t DEF Descriptors
      <3> QED BY <3>1, <3>2
    <2>4. \A d \in Conns : client'[d] = "gone" => conn'[d] = "closed"
      BY <1>4, <1>t DEF Descriptors
    <2> QED BY <2>1, <2>2, <2>3, <2>4 DEF Descriptors
  <1>9. Table \subseteq Fds
    BY HubTypes
  <1>10. Watching'
    BY <1>1, <1>2, <1>3, <1>9, <1>t, LogAssumption DEF Watching
  <1>11. Waiting'
    <2> SUFFICES ASSUME NEW f \in Table, rdy_events[f] # {}
                 PROVE  /\ holds'[f] = reported[f] /\ reported[f] # NULL
                        /\ holds'[f] \in Conns => Stirred(holds[f])'
      BY <1>1, <1>2, <1>3, <1>9 DEF Waiting, Stirred
    <2>1. f # fd /\ f \in Fds
      BY <1>2, <1>9
    <2>2. holds[f] # c /\ holds'[f] = holds[f]
      BY <2>1, <1>3, <1>5
    <2> QED BY <2>2, <1>4, <1>t DEF Waiting, Stirred
  <1> QED BY <1>6, <1>7, <1>8, <1>10, <1>11 DEF LogInv

\* Every step keeps the invariant.
LEMMA LogInvKept ==
    ASSUME FullInv, [LogNext]_allVars
    PROVE  LogInv'
  <1>0. NetInv /\ LogInv
    BY DEF FullInv
  <1>1. CASE Clients
    BY <1>0, <1>1, ClientsKeep
  <1>2. CASE Start
    BY <1>0, <1>2, StartKeeps
  <1>3. CASE Serve
    <2>1. CASE Wait
      BY <1>0, <2>1, WaitKeeps
    <2>2. CASE \E f \in Table : Dispatch(f)
      BY <1>0, <2>2, DispatchKeeps
    <2>3. CASE Return \/ NextRound
      BY <1>0, <2>3, RoundKeeps
    <2>4. CASE AcceptStep
      BY <1>0, <2>4, AcceptStepKeeps
    <2>5. CASE ReadStep
      BY <1>0, <2>5, ReadSomeKeeps, ReadEndsKeep, DropKeeps, CloseKeeps DEF ReadStep
    <2> QED BY <1>3, <2>1, <2>2, <2>3, <2>4, <2>5 DEF Serve
  <1>4. CASE UNCHANGED allVars
    <2>1. LogTypeOK /\ Control /\ Descriptors /\ Turn /\ Watching /\ Waiting /\ Reading
      BY <1>0 DEF LogInv
    <2>2. UNCHANGED <<mode, rnetProc, rdy_events, open, pc, fd, proc, lpc, listen_fd,
                      cfd, nbytes, conn, client, pending, holds, reported>>
      BY <1>4 DEF allVars, vars, table, kernel, logVars
    <2>3. LogTypeOK' /\ Control' /\ Descriptors' /\ Turn'
      BY <2>1, <2>2 DEF LogTypeOK, Control, Descriptors, Turn, InHandler
    <2>4. Watching' /\ Waiting' /\ Reading'
      BY <2>1, <2>2 DEF Watching, Waiting, Reading, Stirred, Finished
    <2> QED BY <2>3, <2>4 DEF LogInv
  <1> QED BY <1>1, <1>2, <1>3, <1>4 DEF LogNext

\* The invariants of the hub and of the server hold of the server.
LEMMA LogInvariant == LogSpec => []FullInv
  <1>1. LogInit => FullInv
    BY LogStart, NetInit DEF LogInit, FullInv
  <1>2. FullInv /\ [LogNext]_allVars => FullInv'
    BY LogInvKept, TakesHubSteps, NetNext DEF FullInv
  <1> QED BY <1>1, <1>2, PTL DEF LogSpec

-----------------------------------------------------------------------------

\* The log server is a client of the hub's net events: each of its behaviours is one
\* of the hub's, so what the hub promises its clients holds in the server.
THEOREM LogImplementsHub == LogSpec => Spec
  <1>1. LogInit => Init
    BY DEF LogInit
  <1>2. FullInv /\ [LogNext]_allVars => [Next]_vars
    BY TakesHubSteps
  <1> QED BY <1>1, <1>2, LogInvariant, PTL DEF LogSpec, Spec

\* Type correctness of the server and of its clients.
THEOREM LogTypeCorrect == LogSpec => []LogTypeOK
  <1>1. FullInv => LogTypeOK
    BY DEF FullInv, LogInv
  <1> QED BY <1>1, LogInvariant, PTL

\* No event reaches a file other than the one it was reported for, though
\* descriptors are closed and given out again while events wait.
THEOREM EventsMatchFileHolds == LogSpec => []EventsMatchFile
  <1>1. FullInv => EventsMatchFile
    BY DEF FullInv, LogInv, Waiting, Turn, EventsMatchFile
  <1> QED BY <1>1, LogInvariant, PTL

\* Every accepted connection is watched, but for the descriptors the hub's table has
\* no room for.
THEOREM ClientsWatchedHolds == LogSpec => []ClientsWatched
  <1>1. FullInv => ClientsWatched
    <2> SUFFICES ASSUME FullInv PROVE ClientsWatched
      OBVIOUS
    <2>1. NetInv /\ Descriptors /\ Watching
      BY DEF FullInv, LogInv
    <2>2. \A f \in Table : holds[f] \in Conns =>
            \/ interest[f] = {"read"} /\ rnetProc[f] = log_read_handler
            \/ lpc = "register" /\ f = cfd
            \/ lpc = "close" /\ f = fd
      BY <2>1, HubTypes DEF Watching
    <2> QED BY <2>1, <2>2 DEF ClientsWatched, Descriptors
  <1> QED BY <1>1, LogInvariant, PTL

\* The server never closes a connection whose client is there or has sent what was
\* not read, unless reading failed.
THEOREM ClosesOnlyTheGoneHolds == LogSpec => ClosesOnlyTheGone
  <1> DEFINE A == \A c \in Conns :
                    conn[c] = "accepted" /\ conn'[c] = "closed" =>
                        \/ client[c] = "reset"
                        \/ client[c] = "closed" /\ pending[c] = 0
  <1>1. FullInv /\ [LogNext]_allVars => [A]_allVars
    <2> SUFFICES ASSUME FullInv, LogNext, NEW c \in Conns,
                        conn[c] = "accepted", conn'[c] = "closed"
                 PROVE  Finished(c)
      BY DEF Finished
    <2>1. LogTypeOK /\ Turn /\ Reading
      BY DEF FullInv, LogInv
    <2>2. CASE CloseClient
      <3>1. lpc = "close" /\ conn' = [conn EXCEPT ![holds[fd]] = "closed"]
        BY <2>2 DEF CloseClient
      <3>2. c = holds[fd]
        BY <3>1, <2>1 DEF LogTypeOK
      <3> QED BY <3>1, <3>2, <2>1 DEF Reading
    <2>3. CASE \E d \in Conns : Accept(d) \/ Connect(d)
      BY <2>3, <2>1 DEF Accept, Connect, LogTypeOK
    <2>4. CASE conn' = conn
      BY <2>4
    <2>5. CASE Clients
      BY <2>5, <2>3, <2>4 DEF Clients, Write, HangUp
    <2>6. CASE Start
      BY <2>6, <2>4 DEF Start, StartFails, Listen, RegisterListener
    <2>7. CASE Serve
      BY <2>7, <2>2, <2>3, <2>4 DEF Serve, Wait, Dispatch, Return, NextRound,
         AcceptStep, AcceptFails, Register, RegisterRefused, ReadStep, ReadSome,
         ReadDry, ReadFails, Drop
    <2> QED BY <2>5, <2>6, <2>7 DEF LogNext
  <1> QED BY <1>1, LogInvariant, PTL DEF LogSpec, ClosesOnlyTheGone
-----------------------------------------------------------------------------
(* The program *)

\* A step of the program is one of the server, or leaves it alone.
LEMMA ProgramStep ==
    ASSUME ProgramNext PROVE [LogNext]_allVars
  <1>1. CASE Load \/ Unload
    BY <1>1 DEF Load, Unload
  <1>2. CASE log_runtime_create
    BY <1>2 DEF log_runtime_create, Begin, TakeFile, TakeSocket, TakeLevel, CreateHub,
       CreateFails, Faults, Step
  <1> QED BY <1>1, <1>2 DEF ProgramNext

\* The program's steps are the server's, or leave the server alone: neither a
\* configuration that is bad nor a runtime that is given up starts or disturbs it.
THEOREM ProgramImplementsServer == ProgramSpec => LogSpec
  <1>1. ProgramInit => LogInit
    BY DEF ProgramInit
  <1>2. [ProgramNext]_programVars => [LogNext]_allVars
    BY ProgramStep DEF programVars
  <1> QED BY <1>1, <1>2, PTL DEF ProgramSpec, LogSpec

\* In the program as in the server alone, events reach their files, clients are
\* watched, and only those that are gone are closed.
THEOREM ServerPropertiesHold ==
    ProgramSpec => []EventsMatchFile /\ []ClientsWatched /\ ClosesOnlyTheGone
  BY ProgramImplementsServer, EventsMatchFileHolds, ClientsWatchedHolds,
     ClosesOnlyTheGoneHolds, PTL
-----------------------------------------------------------------------------
(* The blocks of the runtime *)

\* What log_runtime_create holds at each place, for log_runtime_destroy to free.
RuntimeBlocks ==
    /\ rpc = "idle" => held = 0
    /\ rpc \in {"idle", "file"} => log_file = NULL /\ log_sock = NULL
    /\ rpc = "file" => held = 1
    /\ rpc = "socket" => log_file # NULL /\ log_sock = NULL /\ held = 2
    /\ rpc \in {"level", "hub"} => log_file # NULL /\ log_sock # NULL /\ held = 3
    /\ rpc = "failed" => held = IF log_sock = NULL THEN 0 ELSE 1

\* Every step keeps that.
LEMMA RuntimeBlocksKept ==
    ASSUME RuntimeBlocks, [ProgramNext]_programVars
    PROVE  RuntimeBlocks'
  <1>0. NULL \notin Values /\ RUNON # NULL
    BY ProgramAssumption DEF C!ConfigureAssumption
  <1>1. CASE UNCHANGED runtimeVars
    BY <1>1 DEF runtimeVars, RuntimeBlocks
  <1>2. CASE Begin
    BY <1>2 DEF Begin, Step, RuntimeBlocks
  <1>3. CASE TakeFile
    BY <1>3, <1>0 DEF TakeFile, Text, Step, RuntimeBlocks
  <1>4. CASE TakeSocket
    BY <1>4, <1>0 DEF TakeSocket, Text, Step, RuntimeBlocks
  <1>5. CASE TakeLevel \/ CreateHub \/ Faults
    BY <1>5 DEF TakeLevel, CreateHub, Faults, Step, RuntimeBlocks
  <1>6. CASE CreateFails
    BY <1>6 DEF CreateFails, Step, RuntimeBlocks
  <1> QED
    BY <1>1, <1>2, <1>3, <1>4, <1>5, <1>6 DEF ProgramNext, Load, Unload, Running,
       log_runtime_create, programVars

-----------------------------------------------------------------------------
(* The configuration: types *)

\* Configure counts as this module does.
LEMMA SameCount == \A S : C!Cardinality(S) = Cardinality(S)
  BY DEF C!Cardinality, Cardinality

Item == [key : Keys, value : Values]
Section == [name : Names, items : Seq(Item)]

\* A file is a sequence of lines of the three kinds.
LEMMA FileFacts ==
    ASSUME C!TypeOK
    PROVE  /\ file \in Seq(C!Lines) /\ Len(file) \in Nat /\ line \in Nat /\ line <= Len(file)
           /\ sections \in Seq(Section) /\ Len(sections) \in Nat
           /\ \A i \in 1 .. Len(file) :
                 /\ file[i].kind = "section" => file[i].name \in Names
                 /\ file[i].kind = "item" => file[i].key \in Keys /\ file[i].value \in Values
  <1>1. file \in Seq(C!Lines)
    BY ProgramAssumption DEF C!ConfigureAssumption, C!TypeOK
  <1>2. \A l \in C!Lines : /\ l.kind = "section" => l.name \in Names
                           /\ l.kind = "item" => l.key \in Keys /\ l.value \in Values
    BY DEF C!Lines
  <1>3. sections \in Seq(Section)
    BY DEF C!TypeOK, Section, Item
  <1>4. line \in 0 .. Len(file)
    BY DEF C!TypeOK
  <1>5. \A i \in 1 .. Len(file) : file[i] \in C!Lines
    BY <1>1
  <1> QED BY <1>1, <1>2, <1>3, <1>4, <1>5

\* What is certain at the beginning, and of the sections later.
LoadInv ==
    /\ stage = "open" => line = 0 /\ sections = <<>> /\ blocks = 0 /\ unmade = {}
    /\ cur_section => sections # <<>>
    /\ stage \in {"load", "loaded"} => C!Reachable <= blocks
    /\ IsFiniteSet(C!Items)

\* Lines are read of an open file, and it stays open.
FileInv == line > 0 \/ stage = "load" => config_fp

\* A line is read.
LEMMA LineFacts ==
    ASSUME C!TypeOK, NEW k, C!Line(k)
    PROVE  /\ line' = line + 1 /\ line + 1 \in 1 .. Len(file) /\ file' = file
           /\ file[line + 1].kind = k /\ stage = "load"
           /\ line' \in 0 .. Len(file)
  BY FileFacts DEF C!Line

-----------------------------------------------------------------------------
(* The items that can be reached *)

\* The reachable items are finite in number, and are counted.
LEMMA ItemsCount ==
    ASSUME IsFiniteSet(C!Items)
    PROVE  /\ Cardinality(C!Items) \in Nat
           /\ C!Reachable = 1 + Len(sections) + 3 * Cardinality(C!Items)
  <1>1. C!Cardinality(C!Items) = Cardinality(C!Items)
    BY SameCount
  <1>2. C!Reachable = 1 + Len(sections) + 3 * C!Cardinality(C!Items)
    BY DEF C!Reachable
  <1> QED BY <1>1, <1>2, FS_CardinalityType

\* The same after a step.
LEMMA ItemsCountNext ==
    IsFiniteSet(C!Items)' =>
        /\ Cardinality(C!Items') \in Nat
        /\ C!Reachable' = 1 + Len(sections') + 3 * Cardinality(C!Items')
  <1>1. IsFiniteSet(C!Items) => /\ Cardinality(C!Items) \in Nat
                                /\ C!Reachable = 1 + Len(sections) + 3 * Cardinality(C!Items)
    BY ItemsCount
  <1>2. IsFiniteSet(C!Items)' => (/\ Cardinality(C!Items) \in Nat
                                  /\ C!Reachable = 1 + Len(sections) + 3 * Cardinality(C!Items))'
    BY <1>1, PTL
  <1> QED BY <1>2

\* Without sections there are no items.
LEMMA ItemsNone ==
    ASSUME sections = <<>>
    PROVE  C!Items = {} /\ C!Reachable = 1 /\ IsFiniteSet(C!Items)
  <1>1. C!Items = {}
    BY DEF C!Items
  <1>2. Cardinality(C!Items) = 0 /\ IsFiniteSet(C!Items)
    BY <1>1, FS_EmptySet
  <1>3. Len(sections) = 0
    OBVIOUS
  <1>4. C!Reachable = 1 + Len(sections) + 3 * Cardinality(C!Items)
    BY <1>2, ItemsCount
  <1> QED BY <1>1, <1>2, <1>3, <1>4

\* A new section has none, and is one more.
LEMMA ItemsNewSection ==
    ASSUME sections \in Seq(Section), NEW s \in Section, s.items = <<>>,
           sections' = Append(sections, s), IsFiniteSet(C!Items)
    PROVE  C!Items' = C!Items /\ C!Reachable' = C!Reachable + 1
  <1>1. /\ DOMAIN sections = 1 .. Len(sections) /\ Len(sections) \in Nat
        /\ DOMAIN sections' = 1 .. (Len(sections) + 1) /\ Len(sections') = Len(sections) + 1
        /\ \A i \in 1 .. Len(sections) : sections'[i] = sections[i]
        /\ sections'[Len(sections) + 1] = s
    OBVIOUS
  <1>2. DOMAIN s.items = {}
    OBVIOUS
  <1>3. ASSUME NEW p \in C!Items' PROVE p \in C!Items
    <2>1. PICK i \in DOMAIN sections' : p \in {i} \X DOMAIN sections'[i].items
      BY <1>3 DEF C!Items
    <2>2. i # Len(sections) + 1
      BY <1>1, <1>2, <2>1
    <2>3. i \in DOMAIN sections
      BY <1>1, <2>1, <2>2
    <2> QED BY <1>1, <2>1, <2>3 DEF C!Items
  <1>4. ASSUME NEW p \in C!Items PROVE p \in C!Items'
    <2>1. PICK i \in DOMAIN sections : p \in {i} \X DOMAIN sections[i].items
      BY <1>4 DEF C!Items
    <2>2. i \in DOMAIN sections' /\ sections'[i] = sections[i]
      BY <1>1
    <2> QED BY <2>1, <2>2 DEF C!Items
  <1>5. C!Items' = C!Items
    BY <1>3, <1>4
  <1>6. Cardinality(C!Items) \in Nat
    BY ItemsCount
  <1> HIDE DEF C!Items
  <1>8. C!Reachable' = 1 + Len(sections') + 3 * Cardinality(C!Items)
    BY <1>5, ItemsCountNext
  <1>9. C!Reachable = 1 + Len(sections) + 3 * Cardinality(C!Items)
    BY ItemsCount
  <1> QED BY <1>1, <1>5, <1>6, <1>8, <1>9

\* The sections with item i in front of those of the last one.
WithItem(i) == [sections EXCEPT ![Len(sections)].items = <<i>> \o @]

\* A new item of the last section is one more, in front of those there are.
LEMMA ItemsNewItem ==
    ASSUME sections \in Seq(Section), sections # <<>>, NEW i \in Item,
           sections' = WithItem(i), IsFiniteSet(C!Items)
    PROVE  IsFiniteSet(C!Items)' /\ C!Reachable' = C!Reachable + 3
  <1> DEFINE n == Len(sections)
             q == sections[n].items
  <1>1. n \in DOMAIN sections /\ DOMAIN sections' = DOMAIN sections /\ n \in Nat /\ Len(sections') = n
    BY DEF WithItem
  <1>s. sections[n] \in Section
    BY <1>1
  <1>2. q \in Seq(Item) /\ Len(q) \in Nat /\ DOMAIN q = 1 .. Len(q)
    <2>1. q \in Seq(Item)
      <3> HIDE DEF n
      <3> QED BY <1>s DEF Section
    <2> HIDE DEF q
    <2> QED BY <2>1
  <1>3. sections'[n].items = <<i>> \o q
    <2>1. sections'[n] = [sections[n] EXCEPT !.items = <<i>> \o @]
      BY <1>1 DEF WithItem
    <2> HIDE DEF n
    <2> QED BY <1>s, <2>1 DEF Section
  <1>4. \A k \in DOMAIN sections : k # n => sections'[k] = sections[k]
    BY DEF WithItem
  <1>5. DOMAIN sections'[n].items = 1 .. (Len(q) + 1)
    BY <1>2, <1>3
  <1> HIDE DEF q
  <1>n. PICK m \in Nat : m = n
    BY <1>1
  <1> HIDE DEF n
  <1>6. PICK l \in Nat : l = Len(q)
    BY <1>2
  <1>7. C!Items' = C!Items \cup {<<m, l + 1>>}
    <2>1. ASSUME NEW p \in C!Items' PROVE p \in C!Items \cup {<<m, l + 1>>}
      <3>1. PICK k \in DOMAIN sections : p \in {k} \X DOMAIN sections'[k].items
        BY <1>1, <2>1 DEF C!Items
      <3>2. CASE k # m
        BY <1>n, <1>4, <3>1, <3>2 DEF C!Items
      <3>3. CASE k = m
        <4>1. p[1] = m /\ p = <<p[1], p[2]>> /\ p[2] \in 1 .. (l + 1)
          BY <1>n, <1>5, <1>6, <3>1, <3>3
        <4>2. CASE p[2] = l + 1
          BY <4>1, <4>2
        <4>3. CASE p[2] # l + 1
          <5>1. p[2] \in DOMAIN sections[m].items
            BY <1>2, <1>6, <1>n, <4>1, <4>3 DEF q
          <5>2. p \in {m} \X DOMAIN sections[m].items
            BY <4>1, <5>1
          <5> QED BY <1>1, <1>n, <5>2 DEF C!Items
        <4> QED BY <4>2, <4>3
      <3> QED BY <3>2, <3>3
    <2>2. ASSUME NEW p \in C!Items PROVE p \in C!Items'
      <3>1. PICK k \in DOMAIN sections : p \in {k} \X DOMAIN sections[k].items
        BY <2>2 DEF C!Items
      <3>2. DOMAIN sections[k].items \subseteq DOMAIN sections'[k].items
        <4>1. CASE k # n
          BY <1>4, <4>1
        <4>2. CASE k = n
          <5>1. sections[k].items = q
            BY <4>2 DEF q
          <5> QED BY <1>2, <1>5, <4>2, <5>1
        <4> QED BY <4>1, <4>2
      <3> QED BY <1>1, <3>1, <3>2 DEF C!Items
    <2>3. <<m, l + 1>> \in C!Items'
      <3>1. l + 1 \in DOMAIN sections'[m].items
        BY <1>5, <1>6, <1>n
      <3>2. m \in DOMAIN sections'
        BY <1>1, <1>n
      <3> QED BY <3>1, <3>2 DEF C!Items
    <2> QED BY <2>1, <2>2, <2>3
  <1>8. <<m, l + 1>> \notin C!Items
    <2> SUFFICES ASSUME <<m, l + 1>> \in C!Items PROVE FALSE
      OBVIOUS
    <2>1. l + 1 \in DOMAIN sections[m].items
      BY DEF C!Items
    <2>2. l + 1 \in 1 .. l
      BY <1>2, <1>6, <1>n, <2>1 DEF q
    <2> QED BY <2>2
  <1>9. IsFiniteSet(C!Items)' /\ Cardinality(C!Items') = Cardinality(C!Items) + 1
    BY <1>7, <1>8, FS_AddElement
  <1>10. Cardinality(C!Items) \in Nat
    BY ItemsCount
  <1>11. C!Reachable' = 1 + Len(sections') + 3 * Cardinality(C!Items')
    BY <1>9, ItemsCountNext
  <1>12. C!Reachable = 1 + Len(sections) + 3 * Cardinality(C!Items)
    BY ItemsCount
  <1>13. Len(sections') = Len(sections) /\ Len(sections) \in Nat
    BY <1>1 DEF n
  <1> QED BY <1>9, <1>10, <1>11, <1>12, <1>13

\* The types after a step of the loader, from what it changes.
LEMMA ConfTypes ==
    ASSUME file' \in Files, line' \in 0 .. Len(file'), sections' \in Seq(Section),
           section_tail' \in BOOLEAN, cur_section' \in BOOLEAN, blocks' \in Nat,
           stage' \in {"open", "load", "loaded", "failed", "destroyed"}, unmade' \subseteq 1 .. line',
           config_fp' \in BOOLEAN
    PROVE  C!TypeOK'
  BY DEF C!TypeOK, Section, Item

\* The file is open or not.
LEMMA FileType ==
    ASSUME C!TypeOK, C!Load \/ C!configure_handler_destroy
    PROVE  config_fp' \in BOOLEAN
  BY DEF C!TypeOK, C!Load, C!OpenFails, C!Open, C!SkipLine, C!NewSection, C!NoSection,
     C!NewItem, C!NoItem, C!Misplaced, C!EndOfFile, C!Line, C!configure_handler_destroy

\* The types before it.
LEMMA ConfTyped ==
    ASSUME C!TypeOK
    PROVE  /\ file \in Files /\ line \in 0 .. Len(file) /\ line \in Nat /\ sections \in Seq(Section)
           /\ section_tail \in BOOLEAN /\ cur_section \in BOOLEAN /\ blocks \in Nat
           /\ stage \in {"open", "load", "loaded", "failed", "destroyed"} /\ unmade \subseteq 1 .. line
           /\ unmade \subseteq 1 .. (line + 1) /\ Len(sections) \in Nat
  <1>1. file \in Seq(C!Lines)
    BY FileFacts
  <1>2. /\ file \in Files /\ line \in 0 .. Len(file) /\ sections \in Seq(Section)
        /\ section_tail \in BOOLEAN /\ cur_section \in BOOLEAN /\ blocks \in Nat
        /\ stage \in {"open", "load", "loaded", "failed", "destroyed"} /\ unmade \subseteq 1 .. line
    BY DEF C!TypeOK, Section, Item
  <1>3. line \in Nat
    BY <1>1, <1>2
  <1>4. 1 .. line \subseteq 1 .. (line + 1)
    BY <1>3
  <1> QED BY <1>2, <1>3, <1>4

\* The blocks of the loader are natural numbers, the reachable ones at least one.
LEMMA ReachableType ==
    ASSUME C!TypeOK, LoadInv
    PROVE  C!Reachable \in Nat /\ C!Reachable >= 1
  <1>1. IsFiniteSet(C!Items) /\ Len(sections) \in Nat
    BY ConfTyped DEF LoadInv
  <1>2. /\ Cardinality(C!Items) \in Nat
        /\ C!Reachable = 1 + Len(sections) + 3 * Cardinality(C!Items)
    BY <1>1, ItemsCount
  <1> QED BY <1>1, <1>2

\* What LoadInv needs after a step that leaves the state of the start.
LEMMA LoadLater ==
    ASSUME stage' # "open", cur_section' => sections' # <<>>,
           stage' \in {"load", "loaded"} => C!Reachable' <= blocks', IsFiniteSet(C!Items)'
    PROVE  LoadInv'
  BY DEF LoadInv

\* Steps that leave the sections alone.
LEMMA SectionsStay ==
    ASSUME sections' = sections
    PROVE  C!Items' = C!Items /\ C!Reachable' = C!Reachable /\ (IsFiniteSet(C!Items)' <=> IsFiniteSet(C!Items))
  <1>1. C!Items' = C!Items
    BY DEF C!Items
  <1>2. C!Reachable' = C!Reachable
    <2> HIDE DEF C!Items
    <2> QED BY <1>1 DEF C!Reachable
  <1> QED BY <1>1, <1>2

\* The sections are lost.
LEMMA SectionsGo ==
    sections' = <<>> => C!Items' = {} /\ C!Reachable' = 1 /\ IsFiniteSet(C!Items)'
  <1>1. sections = <<>> => C!Items = {} /\ C!Reachable = 1 /\ IsFiniteSet(C!Items)
    BY ItemsNone
  <1>2. (sections = <<>>)' => (C!Items = {} /\ C!Reachable = 1 /\ IsFiniteSet(C!Items))'
    BY <1>1, PTL
  <1> QED BY <1>2

\* A new section is reachable behind the others, or alone.
LEMMA LoadNewSection ==
    ASSUME C!TypeOK, LoadInv, C!NewSection
    PROVE  C!TypeOK' /\ LoadInv' /\ (section_tail \/ sections = <<>> => C!Reachable' = C!Reachable + 1)
  <1>t. /\ file \in Files /\ line \in Nat /\ sections \in Seq(Section) /\ blocks \in Nat
        /\ unmade \subseteq 1 .. (line + 1)
    BY ConfTyped
  <1>1. /\ line' = line + 1 /\ line + 1 \in 1 .. Len(file) /\ file' = file
        /\ file[line + 1].kind = "section" /\ stage = "load" /\ line' \in 0 .. Len(file)
    BY LineFacts DEF C!NewSection
  <1> DEFINE s == [name |-> file[line + 1].name, items |-> <<>>]
  <1>2. /\ sections' = Append(IF section_tail THEN sections ELSE <<>>, s)
        /\ section_tail' = TRUE /\ cur_section' = TRUE /\ blocks' = blocks + 2
        /\ UNCHANGED <<stage, unmade>>
    BY <1>1 DEF C!NewSection
  <1>3. s \in Section /\ s.items = <<>>
    <2>1. file[line + 1].name \in Names
      BY <1>1, FileFacts
    <2> QED BY <2>1 DEF Section
  <1> HIDE DEF s
  <1>4. sections' \in Seq(Section) /\ sections' # <<>>
    BY <1>t, <1>2, <1>3
  <1>5. C!TypeOK'
    <2>1. config_fp' \in BOOLEAN
      BY FileType DEF C!Load
    <2> QED BY <1>t, <1>1, <1>2, <1>4, <2>1, ConfTypes
  <1>6. CASE section_tail \/ sections = <<>>
    <2>1. sections' = Append(sections, s)
      BY <1>2, <1>6
    <2>2. C!Items' = C!Items /\ C!Reachable' = C!Reachable + 1
      BY <1>t, <1>3, <2>1, ItemsNewSection DEF LoadInv
    <2>3. C!Reachable' <= blocks'
      <3>1. C!Reachable <= blocks /\ C!Reachable \in Nat
        BY <1>1, ReachableType DEF LoadInv
      <3> QED BY <1>t, <1>2, <2>2, <3>1
    <2>4. IsFiniteSet(C!Items)'
      BY <2>2 DEF LoadInv
    <2> QED BY <1>1, <1>2, <1>4, <1>5, <2>2, <2>3, <2>4, LoadLater
  <1>7. CASE ~section_tail /\ sections # <<>>
    <2>1. sections' = <<s>>
      BY <1>2, <1>7
    <2>2. DOMAIN s.items = {} /\ DOMAIN sections' = {1} /\ sections'[1] = s /\ Len(sections') = 1
      BY <1>3, <2>1
    <2>3. C!Items' = {}
      BY <2>2 DEF C!Items
    <2>4. IsFiniteSet(C!Items)' /\ Cardinality(C!Items') = 0
      BY <2>3, FS_EmptySet
    <2>5. C!Reachable' = 2
      BY <2>2, <2>4, ItemsCountNext
    <2>6. C!Reachable' <= blocks'
      BY <1>t, <1>2, <2>5
    <2> QED BY <1>1, <1>2, <1>4, <1>5, <1>7, <2>4, <2>6, LoadLater
  <1> QED BY <1>6, <1>7

\* A section that got no block: the others stay or are lost.
LEMMA LoadNoSection ==
    ASSUME C!TypeOK, LoadInv, C!NoSection
    PROVE  C!TypeOK' /\ LoadInv'
  <1>t. /\ file \in Files /\ line \in Nat /\ sections \in Seq(Section) /\ blocks \in Nat
        /\ unmade \subseteq 1 .. (line + 1)
    BY ConfTyped
  <1>1. /\ line' = line + 1 /\ line + 1 \in 1 .. Len(file) /\ file' = file
        /\ stage = "load" /\ line' \in 0 .. Len(file)
    BY LineFacts DEF C!NoSection
  <1>2. /\ blocks' \in {blocks, blocks + 1}
        /\ sections' = IF section_tail THEN sections ELSE <<>>
        /\ section_tail' = FALSE /\ cur_section' = FALSE
        /\ unmade' = unmade \cup {line + 1} /\ UNCHANGED stage
    BY <1>1 DEF C!NoSection
  <1>3. sections' \in Seq(Section)
    BY <1>t, <1>2
  <1>4. C!TypeOK'
    <2>1. unmade' \subseteq 1 .. line' /\ blocks' \in Nat
      BY <1>t, <1>1, <1>2
    <2>2. config_fp' \in BOOLEAN
      BY FileType DEF C!Load
    <2> QED BY <1>t, <1>1, <1>2, <1>3, <2>1, <2>2, ConfTypes
  <1>5. C!Reachable <= blocks /\ C!Reachable \in Nat /\ C!Reachable >= 1
    BY <1>1, ReachableType DEF LoadInv
  <1>6. C!Reachable' <= blocks' /\ IsFiniteSet(C!Items)'
    <2>1. CASE sections' = sections
      <3>1. C!Reachable' = C!Reachable /\ IsFiniteSet(C!Items)'
        BY <2>1, SectionsStay DEF LoadInv
      <3> QED BY <1>t, <1>2, <1>5, <3>1
    <2>2. CASE sections' = <<>>
      <3>1. C!Reachable' = 1 /\ IsFiniteSet(C!Items)'
        BY <2>2, SectionsGo
      <3> QED BY <1>t, <1>2, <1>5, <3>1
    <2> QED BY <1>2, <2>1, <2>2
  <1> QED BY <1>1, <1>2, <1>4, <1>6, LoadLater

\* A new item is three more reachable blocks.
LEMMA LoadNewItem ==
    ASSUME C!TypeOK, LoadInv, C!NewItem
    PROVE  /\ C!TypeOK' /\ LoadInv' /\ C!Reachable' = C!Reachable + 3
           /\ sections' = WithItem([key |-> file[line + 1].key, value |-> file[line + 1].value])
           /\ [key |-> file[line + 1].key, value |-> file[line + 1].value] \in Item
           /\ sections # <<>>
  <1>t. /\ file \in Files /\ line \in Nat /\ sections \in Seq(Section) /\ blocks \in Nat
        /\ unmade \subseteq 1 .. (line + 1)
    BY ConfTyped
  <1>1. /\ line' = line + 1 /\ line + 1 \in 1 .. Len(file) /\ file' = file
        /\ file[line + 1].kind = "item" /\ stage = "load" /\ line' \in 0 .. Len(file)
    BY LineFacts DEF C!NewItem
  <1> DEFINE i == [key |-> file[line + 1].key, value |-> file[line + 1].value]
  <1>2. /\ cur_section /\ sections' = WithItem(i) /\ blocks' = blocks + 3
        /\ UNCHANGED <<section_tail, cur_section, stage, unmade>>
    BY <1>1 DEF C!NewItem, WithItem
  <1>3. i \in Item
    <2>1. file[line + 1].key \in Keys /\ file[line + 1].value \in Values
      BY <1>1, FileFacts
    <2> QED BY <2>1 DEF Item
  <1> HIDE DEF i
  <1>4. sections # <<>>
    BY <1>2 DEF LoadInv
  <1>5. IsFiniteSet(C!Items)' /\ C!Reachable' = C!Reachable + 3
    BY <1>t, <1>2, <1>3, <1>4, ItemsNewItem DEF LoadInv
  <1>6. sections' \in Seq(Section) /\ sections' # <<>>
    <2> DEFINE n == Len(sections)
    <2>1. n \in 1 .. Len(sections) /\ sections[n] \in Section
      BY <1>t, <1>4
    <2>2. [sections[n] EXCEPT !.items = <<i>> \o @] \in Section
      <3> HIDE DEF n
      <3>1. PICK q \in Seq(Item) : q = sections[n].items
        BY <2>1 DEF Section
      <3>2. <<i>> \o q \in Seq(Item)
        BY <1>3
      <3>3. PICK r \in Seq(Item) : r = <<i>> \o q
        BY <3>2
      <3>4. [sections[n] EXCEPT !.items = r] \in Section
        BY <2>1 DEF Section
      <3> QED BY <3>1, <3>3, <3>4
    <2>3. sections' = [sections EXCEPT ![n] = [sections[n] EXCEPT !.items = <<i>> \o @]]
      BY <1>2 DEF WithItem
    <2> DEFINE s == [sections[n] EXCEPT !.items = <<i>> \o @]
    <2>4. sections' = [sections EXCEPT ![n] = s] /\ s \in Section
      BY <2>2, <2>3
    <2> HIDE DEF s, n
    <2> QED BY <1>t, <1>4, <2>1, <2>4
  <1>7. C!TypeOK'
    <2>1. config_fp' \in BOOLEAN
      BY FileType DEF C!Load
    <2> QED BY <1>t, <1>1, <1>2, <1>6, <2>1, ConfTypes, ConfTyped
  <1>8. C!Reachable' <= blocks'
    <2>1. C!Reachable <= blocks /\ C!Reachable \in Nat
      BY <1>1, ReachableType DEF LoadInv
    <2> QED BY <1>t, <1>2, <1>5, <2>1
  <1>9. LoadInv'
    BY <1>1, <1>2, <1>5, <1>6, <1>8, LoadLater
  <1> QED BY <1>2, <1>3, <1>4, <1>5, <1>7, <1>9 DEF i

\* The other steps of the loader leave the sections alone, or drop them.
LEMMA LoadOther ==
    ASSUME C!TypeOK, LoadInv,
           \/ C!OpenFails \/ C!Open \/ C!SkipLine \/ C!NoItem \/ C!Misplaced \/ C!EndOfFile
           \/ C!configure_handler_destroy
    PROVE  C!TypeOK' /\ LoadInv'
  <1>t. /\ file \in Files /\ line \in 0 .. Len(file) /\ line \in Nat /\ sections \in Seq(Section)
        /\ section_tail \in BOOLEAN /\ cur_section \in BOOLEAN /\ blocks \in Nat
        /\ unmade \subseteq 1 .. line /\ unmade \subseteq 1 .. (line + 1)
    BY ConfTyped
  <1>r. C!Reachable \in Nat
    BY ReachableType
  <1>f. config_fp' \in BOOLEAN
    BY FileType DEF C!Load
  <1>1. CASE C!OpenFails \/ C!Open \/ C!EndOfFile
    <2>1. /\ UNCHANGED <<file, line, sections, section_tail, cur_section, unmade>>
          /\ stage' \in {"failed", "load", "loaded"}
          /\ \/ stage' = "failed" /\ blocks' = blocks
             \/ stage = "open" /\ blocks' = 1
             \/ stage = "load" /\ blocks' = blocks
      BY <1>1 DEF C!OpenFails, C!Open, C!EndOfFile
    <2>2. C!TypeOK'
      BY <1>t, <1>f, <2>1, ConfTypes
    <2>3. C!Reachable' = C!Reachable /\ IsFiniteSet(C!Items)'
      BY <2>1, SectionsStay DEF LoadInv
    <2>4. stage = "open" => C!Reachable = 1
      BY ItemsNone DEF LoadInv
    <2>5. stage' \in {"load", "loaded"} => C!Reachable' <= blocks'
      BY <1>r, <2>1, <2>3, <2>4 DEF LoadInv
    <2>6. LoadInv'
      BY <2>1, <2>3, <2>5 DEF LoadInv
    <2> QED BY <2>2, <2>6
  <1>2. CASE C!SkipLine \/ C!NoItem
    <2>1. \E k : C!Line(k)
      BY <1>2 DEF C!SkipLine, C!NoItem
    <2>2. line' = line + 1 /\ file' = file /\ stage = "load" /\ line' \in 0 .. Len(file) /\ line + 1 \in 1 .. (line + 1)
      BY <1>t, <2>1, LineFacts
    <2>3. /\ UNCHANGED <<sections, section_tail, cur_section, blocks, stage>>
          /\ unmade' = unmade \/ unmade' = unmade \cup {line + 1}
      BY <1>2, <2>2 DEF C!SkipLine, C!NoItem
    <2>4. C!TypeOK'
      <3>1. unmade' \subseteq 1 .. line'
        BY <1>t, <2>2, <2>3
      <3> QED BY <1>t, <1>f, <2>2, <2>3, <3>1, ConfTypes
    <2>5. C!Reachable' = C!Reachable /\ IsFiniteSet(C!Items)'
      BY <2>3, SectionsStay DEF LoadInv
    <2>6. LoadInv'
      BY <2>2, <2>3, <2>5 DEF LoadInv
    <2> QED BY <2>4, <2>6
  <1>3. CASE C!Misplaced
    <2>1. \E k : C!Line(k)
      BY <1>3 DEF C!Misplaced
    <2>2. line' = line + 1 /\ file' = file /\ stage = "load" /\ line' \in 0 .. Len(file)
      BY <1>t, <2>1, LineFacts
    <2>3. /\ ~cur_section /\ blocks' = blocks - C!Reachable /\ sections' = <<>> /\ stage' = "failed"
          /\ UNCHANGED <<section_tail, cur_section, unmade>>
      BY <1>3 DEF C!Misplaced
    <2>4. blocks' \in Nat
      <3>1. C!Reachable <= blocks
        BY <2>2 DEF LoadInv
      <3> QED BY <1>t, <1>r, <2>3, <3>1
    <2>5. C!TypeOK'
      <3>1. sections' \in Seq(Section)
        BY <2>3
      <3> QED BY <1>t, <1>f, <2>2, <2>3, <2>4, <3>1, ConfTypes
    <2>6. IsFiniteSet(C!Items)'
      BY <2>3, SectionsGo
    <2>7. LoadInv'
      BY <2>3, <2>6, LoadLater
    <2> QED BY <2>5, <2>7
  <1>4. CASE C!configure_handler_destroy
    <2>1. /\ stage = "loaded" /\ blocks' = blocks - C!Reachable /\ sections' = <<>>
          /\ section_tail' = FALSE /\ cur_section' = FALSE /\ stage' = "destroyed"
          /\ UNCHANGED <<file, line, unmade>>
      BY <1>4 DEF C!configure_handler_destroy
    <2>2. blocks' \in Nat
      <3>1. C!Reachable <= blocks
        BY <2>1 DEF LoadInv
      <3> QED BY <1>t, <1>r, <2>1, <3>1
    <2>3. C!TypeOK'
      <3>1. sections' \in Seq(Section)
        BY <2>1
      <3> QED BY <1>t, <1>f, <2>1, <2>2, <3>1, ConfTypes
    <2>4. IsFiniteSet(C!Items)'
      BY <2>1, SectionsGo
    <2>5. LoadInv'
      BY <2>1, <2>4, LoadLater
    <2> QED BY <2>3, <2>5
  <1> QED BY <1>1, <1>2, <1>3, <1>4

-----------------------------------------------------------------------------
(* The blocks of the configuration *)

\* The headers are lines that were read.
LEMMA HeadersType ==
    ASSUME C!TypeOK
    PROVE  /\ C!Headers \subseteq 1 .. line /\ line + 1 \notin C!Headers
           /\ IsFiniteSet(C!Headers) /\ Cardinality(C!Headers) \in Nat
  <1>1. line \in Nat
    BY ConfTyped
  <1>2. C!Headers \subseteq 1 .. line
    BY DEF C!Headers
  <1>3. IsFiniteSet(1 .. line)
    <2>1. 1 \in Int /\ line \in Int
      BY <1>1
    <2> QED BY <2>1, FS_Interval, Zenon
  <1>4. IsFiniteSet(C!Headers) /\ Cardinality(C!Headers) \in Nat
    BY <1>2, <1>3, FS_Subset, FS_CardinalityType
  <1>5. line + 1 \notin 1 .. line
    BY <1>1
  <1> QED BY <1>2, <1>4, <1>5

\* A section's line is one header more.
LEMMA HeadersMore ==
    ASSUME C!TypeOK, C!Line("section")
    PROVE  /\ C!Headers' = C!Headers \cup {line + 1}
           /\ Cardinality(C!Headers') = Cardinality(C!Headers) + 1
  <1>1. /\ line' = line + 1 /\ file' = file /\ file[line + 1].kind = "section" /\ line \in Nat
    BY LineFacts, ConfTyped
  <1>2. 1 .. (line + 1) = 1 .. line \cup {line + 1}
    BY <1>1
  <1>3. C!Headers' = C!Headers \cup {line + 1}
    BY <1>1, <1>2 DEF C!Headers
  <1> QED BY <1>3, HeadersType, FS_AddElement

\* Another line is none.
LEMMA HeadersSame ==
    ASSUME C!TypeOK, NEW k, k # "section", C!Line(k)
    PROVE  C!Headers' = C!Headers
  <1>1. /\ line' = line + 1 /\ file' = file /\ file[line + 1].kind = k /\ line \in Nat
    BY LineFacts, ConfTyped
  <1>2. 1 .. (line + 1) = 1 .. line \cup {line + 1}
    BY <1>1
  <1> QED BY <1>1, <1>2 DEF C!Headers

\* Every section got its blocks.
Complete == C!Headers \cap unmade = {}

BlockInv ==
    Complete =>
        /\ stage \in {"load", "loaded"} =>
              /\ blocks = C!Reachable + Cardinality(C!Headers)
              /\ section_tail \/ sections = <<>>
        /\ stage \in {"destroyed", "failed"} => blocks = Cardinality(C!Headers)

\* With the file half read, every section has its own block besides the reachable
\* ones.
LEMMA BlockNext ==
    ASSUME C!TypeOK, LoadInv, BlockInv, C!Load \/ C!configure_handler_destroy
    PROVE  BlockInv'
  <1>t. /\ blocks \in Nat /\ C!Reachable \in Nat /\ line \in Nat
        /\ Cardinality(C!Headers) \in Nat /\ unmade \subseteq 1 .. line
    BY ConfTyped, ReachableType, HeadersType
  <1>1. CASE C!OpenFails \/ C!Open \/ C!EndOfFile
    <2>1. /\ UNCHANGED <<file, line, sections, section_tail, unmade>>
          /\ \/ stage = "open" /\ stage' = "failed" /\ blocks' = blocks
             \/ stage = "open" /\ stage' = "load" /\ blocks' = 1
             \/ stage = "load" /\ stage' = "loaded" /\ blocks' = blocks
      BY <1>1 DEF C!OpenFails, C!Open, C!EndOfFile
    <2>2. C!Headers' = C!Headers /\ C!Reachable' = C!Reachable /\ (Complete' <=> Complete)
      BY <2>1, SectionsStay DEF C!Headers, Complete
    <2>3. CASE stage = "open"
      <3>1. line = 0 /\ sections = <<>> /\ blocks = 0
        BY <2>3 DEF LoadInv
      <3>2. C!Headers = {}
        <4>1. C!Headers \subseteq 1 .. line
          BY HeadersType
        <4> QED BY <3>1, <4>1
      <3>3. Cardinality(C!Headers) = 0 /\ C!Reachable = 1
        BY <3>1, <3>2, ItemsNone, FS_EmptySet
      <3> QED BY <2>1, <2>2, <2>3, <3>1, <3>3 DEF BlockInv
    <2>4. CASE stage = "load"
      BY <2>1, <2>2, <2>4 DEF BlockInv
    <2> QED BY <2>1, <2>3, <2>4
  <1>2. CASE C!SkipLine \/ C!NoItem
    <2>1. \E k : k # "section" /\ C!Line(k)
      BY <1>2 DEF C!SkipLine, C!NoItem
    <2>2. C!Headers' = C!Headers /\ stage = "load" /\ line' = line + 1
      BY <2>1, HeadersSame, LineFacts
    <2>3. /\ UNCHANGED <<sections, section_tail, blocks, stage>>
          /\ unmade' = unmade \/ unmade' = unmade \cup {line + 1}
      BY <1>2, <2>2 DEF C!SkipLine, C!NoItem
    <2>4. C!Reachable' = C!Reachable
      BY <2>3, SectionsStay
    <2>5. Complete' => Complete
      BY <2>2, <2>3 DEF Complete
    <2> QED BY <2>2, <2>3, <2>4, <2>5 DEF BlockInv
  <1>3. CASE C!Misplaced
    <2>1. \E k : k # "section" /\ C!Line(k)
      BY <1>3 DEF C!Misplaced
    <2>2. C!Headers' = C!Headers /\ stage = "load"
      BY <2>1, HeadersSame, LineFacts
    <2>3. blocks' = blocks - C!Reachable /\ stage' = "failed" /\ unmade' = unmade
      BY <1>3 DEF C!Misplaced
    <2>4. Complete' <=> Complete
      BY <2>2, <2>3 DEF Complete
    <2> QED BY <1>t, <2>2, <2>3, <2>4 DEF BlockInv
  <1>4. CASE C!configure_handler_destroy
    <2>1. /\ stage = "loaded" /\ stage' = "destroyed" /\ blocks' = blocks - C!Reachable
          /\ UNCHANGED <<file, line, unmade>>
      BY <1>4 DEF C!configure_handler_destroy
    <2>2. C!Headers' = C!Headers /\ (Complete' <=> Complete)
      BY <2>1 DEF C!Headers, Complete
    <2> QED BY <1>t, <2>1, <2>2 DEF BlockInv
  <1>5. CASE C!NewSection
    <2>1. C!Line("section") /\ stage = "load"
      BY <1>5, LineFacts DEF C!NewSection
    <2>2. /\ C!Headers' = C!Headers \cup {line + 1}
          /\ Cardinality(C!Headers') = Cardinality(C!Headers) + 1
      BY <2>1, HeadersMore
    <2>3. /\ section_tail' = TRUE /\ blocks' = blocks + 2 /\ UNCHANGED <<stage, unmade>>
      BY <1>5 DEF C!NewSection
    <2>4. Complete' => Complete
      BY <2>2, <2>3 DEF Complete
    <2>5. section_tail \/ sections = <<>> => C!Reachable' = C!Reachable + 1
      BY <1>5, LoadNewSection
    <2> QED BY <1>t, <2>1, <2>2, <2>3, <2>4, <2>5 DEF BlockInv
  <1>6. CASE C!NoSection
    <2>1. C!Line("section")
      BY <1>6 DEF C!NoSection
    <2>2. C!Headers' = C!Headers \cup {line + 1} /\ line' = line + 1
      BY <2>1, HeadersMore, LineFacts
    <2>3. unmade' = unmade \cup {line + 1}
      BY <1>6, <2>2 DEF C!NoSection
    <2>4. ~Complete'
      BY <2>2, <2>3 DEF Complete
    <2> QED BY <2>4 DEF BlockInv
  <1>7. CASE C!NewItem
    <2>1. C!Line("item")
      BY <1>7 DEF C!NewItem
    <2>2. C!Headers' = C!Headers /\ stage = "load"
      BY <2>1, HeadersSame, LineFacts
    <2>3. blocks' = blocks + 3 /\ UNCHANGED <<section_tail, stage, unmade>>
      BY <1>7 DEF C!NewItem
    <2>4. C!Reachable' = C!Reachable + 3 /\ sections # <<>>
      BY <1>7, LoadNewItem
    <2>5. Complete' <=> Complete
      BY <2>2, <2>3 DEF Complete
    <2> QED BY <1>t, <2>2, <2>3, <2>4, <2>5 DEF BlockInv
  <1> QED BY <1>1, <1>2, <1>3, <1>4, <1>5, <1>6, <1>7 DEF C!Load

-----------------------------------------------------------------------------
(* What a lookup finds *)

\* The first of these items with the key has the value of the last line that sets
\* it in the section of header h, if there is any.
Tells(its, h, key) ==
    \/ (\A j \in DOMAIN its : its[j].key # key) /\ C!Settings(h, key) = {}
    \/ \E j \in DOMAIN its, i \in C!Settings(h, key) :
          /\ its[j].key = key /\ its[j].value = file[i].value
          /\ \A m \in DOMAIN its : its[m].key = key => j <= m
          /\ \A n \in C!Settings(h, key) : n <= i

\* The sections are those of the headers, in their order, as p has them.
Ordered(p) ==
    /\ p \in [1 .. Len(sections) -> C!Headers]
    /\ \A h \in C!Headers : \E k \in 1 .. Len(sections) : p[k] = h
    /\ \A j, k \in 1 .. Len(sections) : j < k => p[j] < p[k]

Named(p) == \A k \in 1 .. Len(sections) : sections[k].name = file[p[k]].name

Telling(p) ==
    \A k \in 1 .. Len(sections) : \A key \in Keys : Tells(sections[k].items, p[k], key)

LookInv ==
    Complete /\ stage \in {"open", "load", "loaded"}
        => \E p : Ordered(p) /\ Named(p) /\ Telling(p)

\* What another line does to the settings of a header there was.
LEMMA SettingsNext ==
    ASSUME C!TypeOK, NEW k, C!Line(k), NEW h \in C!Headers, NEW key,
           C!Headers' = C!Headers \/ C!Headers' = C!Headers \cup {line + 1},
           unmade' = unmade \/ unmade' = unmade \cup {line + 1}
    PROVE  /\ C!Settings(h, key)' \subseteq C!Settings(h, key) \cup {line + 1}
           /\ C!Settings(h, key) \subseteq C!Settings(h, key)'
           /\ line + 1 \notin C!Settings(h, key)
           /\ line + 1 \in C!Settings(h, key)' <=>
                 /\ line + 1 \notin unmade' /\ k = "item" /\ file[line + 1].key = key
                 /\ C!Headers' \cap (h + 1 .. line + 1) = {}
           /\ C!Settings(h, key) \subseteq 1 .. line
  <1>1. /\ line' = line + 1 /\ file' = file /\ file[line + 1].kind = k /\ line \in Nat
        /\ unmade \subseteq 1 .. line /\ h \in 1 .. line
    BY LineFacts, ConfTyped, HeadersType
  <1>2. C!Settings(h, key)' = {i \in (1 .. (line + 1)) \ unmade' :
                                 /\ file[i].kind = "item" /\ file[i].key = key
                                 /\ h < i /\ C!Headers' \cap (h + 1 .. i) = {}}
    BY <1>1 DEF C!Settings
  <1>3. C!Settings(h, key) = {i \in (1 .. line) \ unmade :
                                 /\ file[i].kind = "item" /\ file[i].key = key
                                 /\ h < i /\ C!Headers \cap (h + 1 .. i) = {}}
    BY DEF C!Settings
  <1>4. ASSUME NEW i \in 1 .. line
        PROVE  /\ i \in unmade' <=> i \in unmade
               /\ C!Headers' \cap (h + 1 .. i) = C!Headers \cap (h + 1 .. i)
               /\ i \in 1 .. (line + 1) /\ i # line + 1
    BY <1>1
  <1>5. 1 .. (line + 1) = 1 .. line \cup {line + 1} /\ h < line + 1 /\ line + 1 \in 1 .. (line + 1)
    BY <1>1
  <1>6. ASSUME NEW i \in C!Settings(h, key)' PROVE i \in C!Settings(h, key) \cup {line + 1}
    BY <1>2, <1>3, <1>4, <1>5, <1>6
  <1>7. ASSUME NEW i \in C!Settings(h, key) PROVE i \in C!Settings(h, key)'
    BY <1>2, <1>3, <1>4, <1>7
  <1>8. line + 1 \notin 1 .. line
    BY <1>1
  <1>9. line + 1 \in C!Settings(h, key)' <=>
                 /\ line + 1 \notin unmade' /\ k = "item" /\ file[line + 1].key = key
                 /\ C!Headers' \cap (h + 1 .. line + 1) = {}
    BY <1>1, <1>2, <1>5
  <1> QED BY <1>3, <1>6, <1>7, <1>8, <1>9

\* A line that sets nothing where its section had something to take.
LEMMA SettingsStay ==
    ASSUME C!TypeOK, NEW k, C!Line(k), NEW h \in C!Headers, NEW key,
           C!Headers' = C!Headers \/ C!Headers' = C!Headers \cup {line + 1},
           unmade' = unmade \/ unmade' = unmade \cup {line + 1},
           k # "item" \/ line + 1 \in unmade' \/ file[line + 1].key # key
             \/ C!Headers' \cap (h + 1 .. line + 1) # {}
    PROVE  C!Settings(h, key)' = C!Settings(h, key)
  BY SettingsNext

\* Sections and settings stay: so do the answers.
LEMMA LookSame ==
    ASSUME sections' = sections, file' = file, C!Headers' = C!Headers,
           \A h \in C!Headers, key \in Keys : C!Settings(h, key)' = C!Settings(h, key),
           NEW p, Ordered(p), Named(p), Telling(p)
    PROVE  Ordered(p)' /\ Named(p)' /\ Telling(p)'
  <1>1. Ordered(p)'
    BY DEF Ordered
  <1>2. Named(p)'
    BY DEF Named
  <1>3. Telling(p)'
    <2> SUFFICES ASSUME NEW k \in 1 .. Len(sections), NEW key \in Keys
                 PROVE  Tells(sections[k].items, p[k], key)'
      BY DEF Telling
    <2>1. Tells(sections[k].items, p[k], key) /\ p[k] \in C!Headers
      BY DEF Telling, Ordered
    <2>2. C!Settings(p[k], key)' = C!Settings(p[k], key)
      BY <2>1
    <2> QED BY <2>1, <2>2 DEF Tells
  <1> QED BY <1>1, <1>2, <1>3

\* A new section is the last, and has no items.
LEMMA LookNewSection ==
    ASSUME C!TypeOK, C!Line("section"), C!Headers' = C!Headers \cup {line + 1}, unmade' = unmade,
           NEW s, s.name = file[line + 1].name, s.items = <<>>,
           sections' = Append(sections, s), NEW p, Ordered(p), Named(p), Telling(p)
    PROVE  \E q : Ordered(q)' /\ Named(q)' /\ Telling(q)'
  <1>1. /\ sections \in Seq(Section) /\ Len(sections) \in Nat /\ line \in Nat
        /\ file' = file /\ line' = line + 1
    BY ConfTyped, LineFacts
  <1>h. C!Headers \subseteq 1 .. line /\ line + 1 \notin C!Headers
    BY HeadersType
  <1>n. PICK n \in Nat : n = Len(sections)
    BY <1>1
  <1>2. /\ Len(sections') = n + 1 /\ \A k \in 1 .. n : sections'[k] = sections[k]
        /\ sections'[n + 1] = s
    BY <1>1, <1>n
  <1>o. /\ p \in [1 .. n -> C!Headers]
        /\ \A h \in C!Headers : \E k \in 1 .. n : p[k] = h
        /\ \A j, k \in 1 .. n : j < k => p[j] < p[k]
    BY <1>n DEF Ordered
  <1>l. PICK l \in Nat : l = line + 1
    BY <1>1
  <1>q. PICK q : q = [k \in 1 .. (n + 1) |-> IF k = n + 1 THEN l ELSE p[k]]
    OBVIOUS
  <1>3. /\ \A k \in 1 .. n : q[k] = p[k] /\ k \in 1 .. (n + 1) /\ q[k] \in C!Headers
        /\ q[n + 1] = line + 1 /\ n + 1 \in 1 .. (n + 1)
        /\ \A k \in 1 .. (n + 1) : k = n + 1 \/ k \in 1 .. n
        /\ DOMAIN q = 1 .. (n + 1) /\ q = [k \in 1 .. (n + 1) |-> q[k]]
    <2>1. /\ n + 1 \in 1 .. (n + 1)
          /\ \A k \in 1 .. (n + 1) : k = n + 1 \/ k \in 1 .. n
          /\ \A k \in 1 .. n : k \in 1 .. (n + 1) /\ k # n + 1
      OBVIOUS
    <2>2. DOMAIN q = 1 .. (n + 1) /\ q = [k \in 1 .. (n + 1) |-> q[k]]
      BY <1>q, Zenon
    <2>3. q[n + 1] = line + 1
      BY <1>l, <1>q, <2>1
    <2>4. ASSUME NEW k \in 1 .. n PROVE q[k] = p[k] /\ q[k] \in C!Headers
      BY <1>o, <1>q, <2>1
    <2> QED BY <2>1, <2>2, <2>3, <2>4
  <1>4. Ordered(q)'
    <2>1. q \in [1 .. (n + 1) -> C!Headers']
      BY <1>3
    <2>2. ASSUME NEW h \in C!Headers' PROVE \E k \in 1 .. (n + 1) : q[k] = h
      BY <1>o, <1>3, <2>2
    <2>3. ASSUME NEW j \in 1 .. (n + 1), NEW k \in 1 .. (n + 1), j < k PROVE q[j] < q[k]
      <3>1. j \in 1 .. n
        BY <1>n, <2>3
      <3>2. CASE k \in 1 .. n
        BY <1>o, <1>3, <2>3, <3>1, <3>2
      <3>3. CASE k = n + 1
        <4>1. q[j] \in 1 .. line
          BY <1>h, <1>3, <3>1
        <4>2. q[k] = line + 1
          BY <1>3, <3>3
        <4> QED BY <1>1, <4>1, <4>2
      <3> QED BY <1>3, <3>2, <3>3
    <2> QED BY <1>2, <2>1, <2>2, <2>3 DEF Ordered
  <1>5. Named(q)'
    <2>1. ASSUME NEW k \in 1 .. (n + 1) PROVE sections'[k].name = file[q[k]].name
      <3>1. CASE k = n + 1
        BY <1>2, <1>3, <3>1
      <3>2. CASE k \in 1 .. n
        BY <1>n, <1>2, <1>3, <3>2 DEF Named
      <3> QED BY <1>3, <3>1, <3>2
    <2> QED BY <1>1, <1>2, <2>1 DEF Named
  <1>6. Telling(q)'
    <2>1. ASSUME NEW k \in 1 .. (n + 1), NEW key \in Keys
          PROVE  Tells(sections[k].items, q[k], key)'
      <3>1. CASE k = n + 1
        <4>1. sections'[k].items = <<>> /\ q[k] = line + 1
          BY <1>2, <1>3, <3>1
        <4>2. C!Settings(q[k], key)' = {}
          BY <1>1, <4>1 DEF C!Settings
        <4> QED BY <4>1, <4>2 DEF Tells
      <3>2. CASE k \in 1 .. n
        <4>1. Tells(sections[k].items, p[k], key) /\ sections'[k] = sections[k] /\ q[k] = p[k]
              /\ p[k] \in C!Headers
          BY <1>n, <1>2, <1>3, <3>2 DEF Telling
        <4>2. C!Settings(p[k], key)' = C!Settings(p[k], key)
          BY <4>1, SettingsStay
        <4> QED BY <1>1, <4>1, <4>2 DEF Tells
      <3> QED BY <1>3, <3>1, <3>2
    <2> QED BY <1>2, <2>1 DEF Telling
  <1> QED BY <1>4, <1>5, <1>6

\* The places in a sequence with one item in front.
LEMMA InFront ==
    ASSUME NEW q \in Seq(Item), NEW i \in Item, NEW r, r = <<i>> \o q
    PROVE  /\ Len(q) \in Nat /\ DOMAIN q = 1 .. Len(q) /\ DOMAIN r = 1 .. (Len(q) + 1)
           /\ r[1] = i
           /\ \A j \in DOMAIN q : j + 1 \in DOMAIN r /\ r[j + 1] = q[j]
           /\ \A m \in DOMAIN r : m = 1 \/ (m - 1 \in DOMAIN q /\ r[m] = q[m - 1])
  OBVIOUS

\* What WithItem changes.
LEMMA WithItemFacts ==
    ASSUME sections \in Seq(Section), sections # <<>>, NEW i \in Item, sections' = WithItem(i)
    PROVE  /\ Len(sections) \in Nat /\ Len(sections) \in 1 .. Len(sections)
           /\ Len(sections') = Len(sections)
           /\ sections[Len(sections)].items \in Seq(Item)
           /\ sections'[Len(sections)].items = <<i>> \o sections[Len(sections)].items
           /\ \A k \in 1 .. Len(sections) : sections'[k].name = sections[k].name
           /\ \A k \in 1 .. Len(sections) : k # Len(sections) => sections'[k] = sections[k]
  <1> DEFINE n == Len(sections)
  <1>1. n \in 1 .. n /\ n \in Nat /\ Len(sections') = n /\ DOMAIN sections = 1 .. n
    BY DEF WithItem
  <1>s. sections[n] \in Section
    BY <1>1
  <1>2. sections'[n] = [sections[n] EXCEPT !.items = <<i>> \o @]
    BY <1>1 DEF WithItem
  <1>3. \A k \in 1 .. n : k # n => sections'[k] = sections[k]
    BY <1>1 DEF WithItem
  <1> HIDE DEF n
  <1>4. sections'[n].items = <<i>> \o sections[n].items /\ sections'[n].name = sections[n].name
    BY <1>s, <1>2 DEF Section
  <1>5. sections[n].items \in Seq(Item)
    BY <1>s DEF Section
  <1>6. \A k \in 1 .. n : sections'[k].name = sections[k].name
    BY <1>3, <1>4
  <1> QED BY <1>1, <1>3, <1>4, <1>5, <1>6 DEF n

\* The last section is that of the last header.
LEMMA LastHeader ==
    ASSUME C!TypeOK, sections # <<>>, NEW p, Ordered(p)
    PROVE  /\ \A k \in 1 .. Len(sections) : p[k] \in C!Headers
           /\ \A h \in C!Headers : h <= p[Len(sections)]
           /\ \A k \in 1 .. Len(sections) : k # Len(sections) => p[k] < p[Len(sections)]
  <1>1. PICK n \in Nat : n = Len(sections)
    BY ConfTyped
  <1>2. n \in 1 .. n
    BY ConfTyped, <1>1
  <1>3. /\ p \in [1 .. n -> C!Headers]
        /\ \A h \in C!Headers : \E k \in 1 .. n : p[k] = h
        /\ \A j, k \in 1 .. n : j < k => p[j] < p[k]
    BY <1>1 DEF Ordered
  <1>4. ASSUME NEW k \in 1 .. n, k # n PROVE p[k] < p[n]
    BY <1>2, <1>3, <1>4
  <1>5. ASSUME NEW h \in C!Headers PROVE h <= p[n]
    <2>1. PICK k \in 1 .. n : p[k] = h
      BY <1>3
    <2>2. h \in Int
      BY HeadersType
    <2>3. p[n] \in Int
      <3>1. p[n] \in C!Headers
        BY <1>2, <1>3
      <3> QED BY <3>1, HeadersType
    <2> QED BY <1>4, <2>1, <2>2, <2>3
  <1> QED BY <1>1, <1>3, <1>4, <1>5

\* An item goes to the section of the last header, and is what that says from now on.
LEMMA LookNewItem ==
    ASSUME C!TypeOK, C!Line("item"), C!Headers' = C!Headers, unmade' = unmade,
           sections # <<>>, NEW i \in Item, i.key = file[line + 1].key,
           i.value = file[line + 1].value, sections' = WithItem(i),
           NEW p, Ordered(p), Named(p), Telling(p)
    PROVE  Ordered(p)' /\ Named(p)' /\ Telling(p)'
  <1>t. sections \in Seq(Section) /\ line \in Nat /\ unmade \subseteq 1 .. line
    BY ConfTyped
  <1>l. file' = file /\ line' = line + 1 /\ file[line + 1].kind = "item"
    BY LineFacts
  <1>n. PICK n \in Nat : n = Len(sections)
    BY ConfTyped
  <1>q. PICK q : q = sections[n].items
    OBVIOUS
  <1>w. /\ n \in 1 .. n /\ Len(sections') = n /\ q \in Seq(Item) /\ sections'[n].items = <<i>> \o q
        /\ \A k \in 1 .. n : sections'[k].name = sections[k].name
        /\ \A k \in 1 .. n : k # n => sections'[k] = sections[k]
    BY <1>t, <1>n, <1>q, WithItemFacts
  <1>h. /\ \A k \in 1 .. n : p[k] \in C!Headers
        /\ \A h \in C!Headers : h <= p[n]
        /\ \A k \in 1 .. n : k # n => p[k] < p[n]
    BY <1>n, LastHeader
  <1>1. Ordered(p)'
    BY <1>n, <1>w DEF Ordered
  <1>2. Named(p)'
    BY <1>n, <1>w, <1>l DEF Named
  <1>3. ASSUME NEW k \in 1 .. n, NEW key \in Keys, k # n
        PROVE  Tells(sections[k].items, p[k], key)'
    <2>1. Tells(sections[k].items, p[k], key) /\ sections'[k] = sections[k] /\ p[k] \in C!Headers
      BY <1>n, <1>w, <1>h, <1>3 DEF Telling
    <2>2. C!Headers' \cap (p[k] + 1 .. line + 1) # {}
      <3>1. p[n] \in C!Headers' /\ p[k] \in 1 .. line /\ p[n] \in 1 .. line /\ p[k] < p[n]
        BY <1>w, <1>h, <1>3, HeadersType
      <3>2. p[n] \in p[k] + 1 .. line + 1
        BY <1>t, <3>1
      <3> QED BY <3>1, <3>2
    <2>3. C!Settings(p[k], key)' = C!Settings(p[k], key)
      BY <2>1, <2>2, SettingsStay
    <2> QED BY <1>l, <2>1, <2>3 DEF Tells
  <1>4. ASSUME NEW key \in Keys PROVE Tells(sections[n].items, p[n], key)'
    <2>p. p[n] \in C!Headers /\ p[n] \in 1 .. line
      BY <1>w, <1>h, HeadersType
    <2>h. C!Headers' \cap (p[n] + 1 .. line + 1) = {}
      <3> SUFFICES ASSUME NEW h \in C!Headers, h \in p[n] + 1 .. line + 1 PROVE FALSE
        OBVIOUS
      <3>1. h <= p[n]
        BY <1>h
      <3> QED BY <1>t, <2>p, <3>1
    <2>r. PICK r : r = sections'[n].items
      OBVIOUS
    <2>f. /\ Len(q) \in Nat /\ DOMAIN q = 1 .. Len(q) /\ DOMAIN r = 1 .. (Len(q) + 1)
          /\ r[1] = i
          /\ \A j \in DOMAIN q : j + 1 \in DOMAIN r /\ r[j + 1] = q[j]
          /\ \A m \in DOMAIN r : m = 1 \/ (m - 1 \in DOMAIN q /\ r[m] = q[m - 1])
      BY <1>w, <2>r, InFront
    <2>1. CASE key = i.key
      <3>1. /\ C!Settings(p[n], key)' \subseteq C!Settings(p[n], key) \cup {line + 1}
            /\ line + 1 \in C!Settings(p[n], key)' <=>
                 /\ line + 1 \notin unmade' /\ "item" = "item" /\ file[line + 1].key = key
                 /\ C!Headers' \cap (p[n] + 1 .. line + 1) = {}
            /\ C!Settings(p[n], key) \subseteq 1 .. line
        BY <2>p, SettingsNext
      <3>2. line + 1 \in C!Settings(p[n], key)'
        BY <1>t, <2>h, <2>1, <3>1
      <3>3. \A m \in C!Settings(p[n], key)' : m <= line + 1
        BY <1>t, <3>1
      <3>4. 1 \in DOMAIN r /\ \A m \in DOMAIN r : 1 <= m
        BY <2>f
      <3>5. r[1].key = key /\ r[1].value = file'[line + 1].value
        BY <1>l, <2>f, <2>1
      <3> QED BY <2>r, <3>2, <3>3, <3>4, <3>5 DEF Tells
    <2>2. CASE key # i.key
      <3>1. C!Settings(p[n], key)' = C!Settings(p[n], key)
        BY <2>p, <2>2, SettingsStay
      <3>2. Tells(q, p[n], key)
        BY <1>n, <1>w, <1>q DEF Telling
      <3>3. CASE (\A j \in DOMAIN q : q[j].key # key) /\ C!Settings(p[n], key) = {}
        <4>1. \A j \in DOMAIN r : r[j].key # key
          BY <2>f, <2>2, <3>3
        <4> QED BY <2>r, <3>1, <3>3, <4>1 DEF Tells
      <3>4. ASSUME NEW j \in DOMAIN q, NEW s \in C!Settings(p[n], key),
                   q[j].key = key /\ q[j].value = file[s].value,
                   \A m \in DOMAIN q : q[m].key = key => j <= m,
                   \A t \in C!Settings(p[n], key) : t <= s
            PROVE  Tells(sections[n].items, p[n], key)'
        <4>1. j + 1 \in DOMAIN r /\ r[j + 1].key = key /\ r[j + 1].value = file'[s].value
          BY <1>l, <2>f, <3>4
        <4>2. ASSUME NEW m \in DOMAIN r, r[m].key = key PROVE j + 1 <= m
          <5>1. m # 1
            BY <2>f, <2>2, <4>2
          <5>2. m - 1 \in DOMAIN q /\ r[m] = q[m - 1]
            BY <2>f, <5>1
          <5>3. j <= m - 1
            BY <3>4, <4>2, <5>2
          <5> QED BY <2>f, <5>3
        <4>3. s \in C!Settings(p[n], key)' /\ \A t \in C!Settings(p[n], key)' : t <= s
          BY <3>1, <3>4
        <4> QED BY <2>r, <4>1, <4>2, <4>3 DEF Tells
      <3> QED BY <3>2, <3>3, <3>4 DEF Tells
    <2> QED BY <2>1, <2>2
  <1>5. Telling(p)'
    BY <1>w, <1>3, <1>4 DEF Telling
  <1> QED BY <1>1, <1>2, <1>5

\* The stages in which there is something to look up.
LEMMA LookStages ==
    ASSUME C!TypeOK, LookInv, Complete, stage \in {"open", "load"}
    PROVE  \E p : Ordered(p) /\ Named(p) /\ Telling(p)
  BY DEF LookInv

\* The sections stay those of the headers, and their first items the last settings.
LEMMA LookNext ==
    ASSUME C!TypeOK, LoadInv, BlockInv, LookInv, C!Load \/ C!configure_handler_destroy
    PROVE  LookInv'
  <1>t. sections \in Seq(Section) /\ line \in Nat
    BY ConfTyped
  <1>1. CASE C!OpenFails \/ C!Misplaced \/ C!configure_handler_destroy
    <2>1. stage' \in {"failed", "destroyed"}
      BY <1>1 DEF C!OpenFails, C!Misplaced, C!configure_handler_destroy
    <2> QED BY <2>1 DEF LookInv
  <1>2. CASE C!Open \/ C!EndOfFile
    <2>1. UNCHANGED <<file, line, sections, unmade>> /\ stage \in {"open", "load"}
      BY <1>2 DEF C!Open, C!EndOfFile
    <2>2. C!Headers' = C!Headers /\ (Complete' <=> Complete)
      BY <2>1 DEF C!Headers, Complete
    <2>3. ASSUME NEW h, NEW key PROVE C!Settings(h, key)' = C!Settings(h, key)
      BY <2>1, <2>2 DEF C!Settings
    <2>4. ASSUME Complete' PROVE \E p : Ordered(p)' /\ Named(p)' /\ Telling(p)'
      <3>1. PICK p : Ordered(p) /\ Named(p) /\ Telling(p)
        BY <2>1, <2>2, <2>4, LookStages
      <3>2. Ordered(p)' /\ Named(p)' /\ Telling(p)'
        BY <2>1, <2>2, <2>3, <3>1, LookSame
      <3> QED BY <3>2
    <2> QED BY <2>4 DEF LookInv
  <1>3. CASE C!SkipLine \/ C!NoItem
    <2>1. PICK k : /\ k # "section" /\ C!Line(k) /\ UNCHANGED sections
                   /\ \/ k # "item" /\ unmade' = unmade
                      \/ unmade' = unmade \cup {line'}
      BY <1>3 DEF C!SkipLine, C!NoItem
    <2>2. C!Headers' = C!Headers /\ stage = "load" /\ line' = line + 1 /\ file' = file
      BY <2>1, HeadersSame, LineFacts
    <2>3. Complete' => Complete
      BY <2>1, <2>2 DEF Complete
    <2>4. ASSUME NEW h \in C!Headers, NEW key \in Keys
          PROVE  C!Settings(h, key)' = C!Settings(h, key)
      BY <2>1, <2>2, SettingsStay
    <2>5. ASSUME Complete' PROVE \E p : Ordered(p)' /\ Named(p)' /\ Telling(p)'
      <3>1. PICK p : Ordered(p) /\ Named(p) /\ Telling(p)
        BY <2>2, <2>3, <2>5, LookStages
      <3>2. Ordered(p)' /\ Named(p)' /\ Telling(p)'
        BY <2>1, <2>2, <2>4, <3>1, LookSame
      <3> QED BY <3>2
    <2> QED BY <2>5 DEF LookInv
  <1>4. CASE C!NewSection
    <2>1. C!Line("section") /\ stage = "load" /\ line' = line + 1 /\ file' = file
      BY <1>4, LineFacts DEF C!NewSection
    <2>2. C!Headers' = C!Headers \cup {line + 1}
      BY <2>1, HeadersMore
    <2>3. unmade' = unmade
      BY <1>4 DEF C!NewSection
    <2>4. Complete' => Complete
      BY <2>2, <2>3 DEF Complete
    <2>s. PICK s : s = [name |-> file[line + 1].name, items |-> <<>>]
      OBVIOUS
    <2>5. sections' = Append(IF section_tail THEN sections ELSE <<>>, s)
      BY <1>4, <2>1, <2>s DEF C!NewSection
    <2>6. s.name = file[line + 1].name /\ s.items = <<>>
      BY <2>s
    <2>7. ASSUME Complete' PROVE \E p : Ordered(p)' /\ Named(p)' /\ Telling(p)'
      <3>1. PICK p : Ordered(p) /\ Named(p) /\ Telling(p)
        BY <2>1, <2>4, <2>7, LookStages
      <3>2. section_tail \/ sections = <<>>
        BY <2>1, <2>4, <2>7 DEF BlockInv
      <3>3. sections' = Append(sections, s)
        BY <2>5, <3>2
      <3> QED BY <2>1, <2>2, <2>3, <2>6, <3>1, <3>3, LookNewSection
    <2> QED BY <2>7 DEF LookInv
  <1>5. CASE C!NoSection
    <2>1. C!Line("section") /\ line' = line + 1
      BY <1>5, LineFacts DEF C!NoSection
    <2>2. C!Headers' = C!Headers \cup {line + 1}
      BY <2>1, HeadersMore
    <2>3. unmade' = unmade \cup {line + 1}
      BY <1>5, <2>1 DEF C!NoSection
    <2>4. ~Complete'
      BY <2>2, <2>3 DEF Complete
    <2> QED BY <2>4 DEF LookInv
  <1>6. CASE C!NewItem
    <2>1. C!Line("item") /\ stage = "load"
      BY <1>6, LineFacts DEF C!NewItem
    <2>2. C!Headers' = C!Headers
      BY <2>1, HeadersSame
    <2>3. unmade' = unmade
      BY <1>6 DEF C!NewItem
    <2>4. Complete' => Complete
      BY <2>2, <2>3 DEF Complete
    <2>i. PICK i : i = [key |-> file[line + 1].key, value |-> file[line + 1].value]
      OBVIOUS
    <2>5. sections' = WithItem(i) /\ i \in Item /\ sections # <<>>
      BY <1>6, <2>i, LoadNewItem
    <2>6. i.key = file[line + 1].key /\ i.value = file[line + 1].value
      BY <2>i
    <2>7. ASSUME Complete' PROVE \E p : Ordered(p)' /\ Named(p)' /\ Telling(p)'
      <3>1. PICK p : Ordered(p) /\ Named(p) /\ Telling(p)
        BY <2>1, <2>4, <2>7, LookStages
      <3>2. Ordered(p)' /\ Named(p)' /\ Telling(p)'
        BY <2>1, <2>2, <2>3, <2>5, <2>6, <3>1, LookNewItem
      <3> QED BY <3>2
    <2> QED BY <2>7 DEF LookInv
  <1> QED BY <1>1, <1>2, <1>3, <1>4, <1>5, <1>6 DEF C!Load

\* Before anything is read there is nothing to look up.
LEMMA LookInit ==
    ASSUME line = 0, sections = <<>>
    PROVE  LookInv
  <1>1. C!Headers = {}
    BY DEF C!Headers
  <1>2. PICK p : p = [k \in 1 .. 0 |-> 0]
    OBVIOUS
  <1>3. Len(sections) = 0 /\ 1 .. 0 = {}
    OBVIOUS
  <1>4. Ordered(p)
    <2>1. p \in [1 .. 0 -> {}]
      BY <1>2, <1>3
    <2> QED BY <1>1, <1>3, <2>1 DEF Ordered
  <1>5. Named(p) /\ Telling(p)
    BY <1>3 DEF Named, Telling
  <1> QED BY <1>4, <1>5 DEF LookInv

\* Configure's least and greatest are this module's.
LEMMA SameBounds == \A S : C!Min(S) = Min(S) /\ C!Max(S) = Max(S)
  BY DEF C!Min, Min, C!Max, Max

\* The least of a set of integers, to Configure.
LEMMA LeastIs ==
    ASSUME NEW S \in SUBSET Int, NEW x \in S, \A y \in S : x <= y
    PROVE  C!Min(S) = x
  <1>1. \E y \in S : \A z \in S : y =< z
    OBVIOUS
  <1>2. Min(S) \in S /\ \A z \in S : Min(S) =< z
    BY <1>1 DEF Min
  <1>3. Min(S) = x
    <2>1. PICK m \in S : m = Min(S)
      BY <1>2
    <2>2. m \in Int /\ x \in Int /\ m <= x /\ x <= m
      BY <1>2, <2>1
    <2> QED BY <2>1, <2>2
  <1>4. C!Min(S) = Min(S)
    BY SameBounds
  <1> QED BY <1>3, <1>4

\* The greatest of a set of integers, to Configure.
LEMMA GreatestIs ==
    ASSUME NEW S \in SUBSET Int, NEW x \in S, \A y \in S : y <= x
    PROVE  C!Max(S) = x
  <1>1. \E y \in S : \A z \in S : y >= z
    OBVIOUS
  <1>2. Max(S) \in S /\ \A z \in S : Max(S) >= z
    BY <1>1 DEF Max
  <1>3. Max(S) = x
    <2>1. PICK m \in S : m = Max(S)
      BY <1>2
    <2>2. m \in Int /\ x \in Int /\ m <= x /\ x <= m
      BY <1>2, <2>1
    <2> QED BY <2>1, <2>2
  <1>4. C!Max(S) = Max(S)
    BY SameBounds
  <1> QED BY <1>3, <1>4

\* The sections with a name as long as this one, and a section's items with a key.
Fits(name) == {k \in 1 .. Len(sections) : NameLen[sections[k].name] = NameLen[name]}
Hits(k, key) == {j \in 1 .. Len(sections[k].items) : sections[k].items[j].key = key}

\* A lookup goes to the first section that fits, and there to the first item.
LEMMA LookupIs ==
    ASSUME NEW name, NEW key, NEW k \in Nat \ {0}, Fits(name) # {}, C!Min(Fits(name)) = k,
           NEW m \in Nat \ {0}, Hits(k, key) # {} => C!Min(Hits(k, key)) = m
    PROVE  C!get_configure_item(name, key)
               = IF Hits(k, key) = {} THEN NULL ELSE sections[k].items[m].value
  <1> DEFINE found == C!SelectInSeq(sections, LAMBDA s : NameLen[s.name] = NameLen[name])
             item  == C!SelectInSeq(sections[found].items, LAMBDA i : i.key = key)
  <1>1. found = k
    BY DEF C!SelectInSeq, Fits
  <1>2. item = IF Hits(k, key) = {} THEN 0 ELSE m
    <2>1. item = C!SelectInSeq(sections[k].items, LAMBDA i : i.key = key)
      BY <1>1
    <2> HIDE DEF found
    <2>2. C!SelectInSeq(sections[k].items, LAMBDA i : i.key = key)
            = IF Hits(k, key) # {} THEN C!Min(Hits(k, key)) ELSE 0
      BY DEF C!SelectInSeq, Hits
    <2> QED BY <2>1, <2>2
  <1>3. C!get_configure_item(name, key)
          = IF found = 0 THEN ANYTHING
            ELSE IF item = 0 THEN NULL ELSE sections[found].items[item].value
    BY DEF C!get_configure_item
  <1> HIDE DEF found, item
  <1> QED BY <1>1, <1>2, <1>3

\* The items of a section tell what the file says.
LEMMA TellsSaid ==
    ASSUME C!TypeOK, NEW k \in 1 .. Len(sections), NEW h \in C!Headers, NEW key,
           Tells(sections[k].items, h, key)
    PROVE  \/ Hits(k, key) = {} /\ C!Said(h, key) = NULL
           \/ \E m \in Nat \ {0} :
                 /\ Hits(k, key) # {} /\ C!Min(Hits(k, key)) = m
                 /\ C!Said(h, key) = sections[k].items[m].value
  <1>s. sections[k].items \in Seq(Item)
    <2>1. sections[k] \in Section
      BY ConfTyped
    <2> QED BY <2>1 DEF Section
  <1>d. /\ Len(sections[k].items) \in Nat
        /\ DOMAIN sections[k].items = 1 .. Len(sections[k].items)
    BY <1>s
  <1>1. CASE (\A j \in DOMAIN sections[k].items : sections[k].items[j].key # key)
                /\ C!Settings(h, key) = {}
    <2>1. Hits(k, key) = {}
      BY <1>d, <1>1 DEF Hits
    <2>2. C!Said(h, key) = NULL
      BY <1>1 DEF C!Said
    <2> QED BY <2>1, <2>2
  <1>2. ASSUME NEW j \in DOMAIN sections[k].items, NEW i \in C!Settings(h, key),
               sections[k].items[j].key = key /\ sections[k].items[j].value = file[i].value,
               \A m \in DOMAIN sections[k].items : sections[k].items[m].key = key => j <= m,
               \A n \in C!Settings(h, key) : n <= i
        PROVE  /\ j \in Nat \ {0} /\ Hits(k, key) # {} /\ C!Min(Hits(k, key)) = j
               /\ C!Said(h, key) = sections[k].items[j].value
    <2>1. /\ j \in Hits(k, key) /\ \A m \in Hits(k, key) : j <= m
          /\ Hits(k, key) \in SUBSET Int
      BY <1>d, <1>2 DEF Hits
    <2>2. C!Min(Hits(k, key)) = j
      BY <2>1, LeastIs
    <2>3. C!Settings(h, key) \in SUBSET Int
      BY DEF C!Settings
    <2>4. C!Max(C!Settings(h, key)) = i
      BY <1>2, <2>3, GreatestIs
    <2>5. C!Said(h, key) = file[i].value
      BY <2>4 DEF C!Said
    <2> QED BY <1>d, <1>2, <2>1, <2>2, <2>5
  <1> QED BY <1>1, <1>2 DEF Tells

\* A name that can be found: the sections that fit are those of the headers that
\* match, and the first is the one of the name.
LEMMA LookupHolds ==
    ASSUME C!TypeOK, LookInv
    PROVE  C!LookupReturnsLast
  <1> SUFFICES ASSUME stage = "loaded", NEW name \in Names, NEW key \in Keys, C!Findable(name)
               PROVE  C!get_configure_item(name, key) = C!Said(C!Min(C!Matching(name)), key)
    BY DEF C!LookupReturnsLast
  <1>1. Complete /\ C!Matching(name) # {}
    BY DEF C!Findable, Complete
  <1>2. PICK p : Ordered(p) /\ Named(p) /\ Telling(p)
    BY <1>1 DEF LookInv
  <1>n. PICK n \in Nat : n = Len(sections)
    BY ConfTyped
  <1>o. /\ p \in [1 .. n -> C!Headers]
        /\ \A h \in C!Headers : \E k \in 1 .. n : p[k] = h
        /\ \A j, k \in 1 .. n : j < k => p[j] < p[k]
        /\ \A k \in 1 .. n : sections[k].name = file[p[k]].name
    BY <1>2, <1>n DEF Ordered, Named
  <1>h. PICK h : h = C!Min(C!Matching(name))
    OBVIOUS
  <1>m. C!Matching(name) \in SUBSET Nat
    BY HeadersType DEF C!Matching
  <1>3. h \in C!Matching(name) /\ \A g \in C!Matching(name) : h <= g
    <2>1. h = Min(C!Matching(name))
      BY <1>h, SameBounds
    <2> QED BY <1>1, <1>m, <2>1, MinIsLower
  <1>4. PICK k \in 1 .. n : p[k] = h
    BY <1>3, <1>o DEF C!Matching
  <1>5. k \in Fits(name)
    BY <1>3, <1>4, <1>n, <1>o DEF Fits, C!Matching
  <1>6. ASSUME NEW j \in Fits(name) PROVE k <= j
    <2>1. j \in 1 .. n /\ p[j] \in C!Headers
      BY <1>n, <1>o DEF Fits
    <2>2. p[j] \in C!Matching(name)
      BY <2>1, <1>o DEF Fits, C!Matching
    <2>3. h <= p[j] /\ h \in Nat /\ p[j] \in Nat
      BY <1>3, <1>m, <2>2
    <2>4. ~(j < k)
      BY <1>o, <1>4, <2>1, <2>3
    <2> QED BY <1>4, <2>1, <2>4
  <1>7. C!Min(Fits(name)) = k
    <2>1. Fits(name) \in SUBSET Int
      BY DEF Fits
    <2> QED BY <1>5, <1>6, <2>1, LeastIs
  <1>8. Tells(sections[k].items, h, key) /\ h \in C!Headers /\ k \in 1 .. Len(sections)
    BY <1>2, <1>3, <1>4, <1>n DEF Telling, C!Matching
  <1>k. k \in Nat \ {0}
    BY <1>4
  <1>9. CASE Hits(k, key) = {} /\ C!Said(h, key) = NULL
    <2>1. \E m : m \in Nat \ {0}
      OBVIOUS
    <2> QED BY <1>5, <1>7, <1>9, <1>h, <1>k, <2>1, LookupIs
  <1>10. ASSUME NEW m \in Nat \ {0}, Hits(k, key) # {}, C!Min(Hits(k, key)) = m,
                C!Said(h, key) = sections[k].items[m].value
         PROVE  C!get_configure_item(name, key) = C!Said(C!Min(C!Matching(name)), key)
    BY <1>5, <1>7, <1>10, <1>h, <1>k, LookupIs
  <1> QED BY <1>8, <1>9, <1>10, TellsSaid

-----------------------------------------------------------------------------
(* The program's invariant *)

ConfInv == C!TypeOK /\ LoadInv /\ FileInv /\ BlockInv /\ LookInv

\* No step closes the file.
LEMMA FileNext ==
    ASSUME C!TypeOK, LoadInv, FileInv, C!Load \/ C!configure_handler_destroy
    PROVE  FileInv'
  <1>1. CASE C!OpenFails
    BY <1>1 DEF C!OpenFails, LoadInv, FileInv
  <1>2. CASE C!Open
    BY <1>2 DEF C!Open, FileInv
  <1>3. CASE \E k : C!Line(k)
    <2>1. config_fp' = config_fp /\ stage = "load"
      BY <1>3 DEF C!Line
    <2> QED BY <2>1 DEF FileInv
  <1>4. CASE C!EndOfFile \/ C!configure_handler_destroy
    BY <1>4 DEF C!EndOfFile, C!configure_handler_destroy, FileInv
  <1>5. \/ C!OpenFails \/ C!Open \/ (\E k : C!Line(k))
        \/ C!EndOfFile \/ C!configure_handler_destroy
    BY DEF C!Load, C!SkipLine, C!NewSection, C!NoSection, C!NewItem, C!NoItem, C!Misplaced
  <1> QED BY <1>1, <1>2, <1>3, <1>4, <1>5

\* The invariant of the configuration holds at first.
LEMMA ConfInit ==
    ASSUME C!Init
    PROVE  ConfInv
  <1>1. /\ file \in Files /\ line = 0 /\ sections = <<>> /\ section_tail = FALSE
        /\ cur_section = FALSE /\ blocks = 0 /\ stage = "open" /\ unmade = {}
        /\ config_fp = FALSE
    BY DEF C!Init
  <1>2. C!TypeOK
    <2>1. file \in Seq(C!Lines)
      BY <1>1, ProgramAssumption DEF C!ConfigureAssumption
    <2>2. line \in 0 .. Len(file)
      BY <1>1, <2>1
    <2>3. sections \in Seq([name : Names, items : Seq([key : Keys, value : Values])])
      BY <1>1
    <2> QED BY <1>1, <2>2, <2>3 DEF C!TypeOK
  <1>3. LoadInv
    BY <1>1, ItemsNone DEF LoadInv
  <1>4. BlockInv
    BY <1>1 DEF BlockInv
  <1>5. LookInv
    BY <1>1, LookInit
  <1>6. FileInv
    BY <1>1 DEF FileInv
  <1> QED BY <1>2, <1>3, <1>4, <1>5, <1>6 DEF ConfInv

\* Loading and destroying keep it.
LEMMA ConfNext ==
    ASSUME ConfInv, C!Load \/ C!configure_handler_destroy
    PROVE  ConfInv'
  <1>1. C!TypeOK /\ LoadInv /\ FileInv /\ BlockInv /\ LookInv
    BY DEF ConfInv
  <1>2. C!TypeOK' /\ LoadInv'
    <2>1. CASE C!NewSection
      BY <1>1, <2>1, LoadNewSection
    <2>2. CASE C!NoSection
      BY <1>1, <2>2, LoadNoSection
    <2>3. CASE C!NewItem
      BY <1>1, <2>3, LoadNewItem
    <2>4. CASE \/ C!OpenFails \/ C!Open \/ C!SkipLine \/ C!NoItem \/ C!Misplaced \/ C!EndOfFile
               \/ C!configure_handler_destroy
      BY <1>1, <2>4, LoadOther
    <2> QED BY <2>1, <2>2, <2>3, <2>4 DEF C!Load
  <1>3. BlockInv'
    BY <1>1, BlockNext
  <1>4. LookInv'
    BY <1>1, LookNext
  <1>5. FileInv'
    BY <1>1, FileNext
  <1> QED BY <1>2, <1>3, <1>4, <1>5 DEF ConfInv

\* What the file says does not change when its lines, and those that gave nothing,
\* do not.
LEMMA SaidStays ==
    ASSUME UNCHANGED <<file, line, unmade>>
    PROVE  /\ C!Headers' = C!Headers
           /\ \A h, key : C!Settings(h, key)' = C!Settings(h, key)
           /\ \A h, key : C!Said(h, key)' = C!Said(h, key)
           /\ \A name : C!Matching(name)' = C!Matching(name)
           /\ \A name : C!Findable(name)' <=> C!Findable(name)
  <1>1. C!Headers' = C!Headers
    BY DEF C!Headers
  <1>2. ASSUME NEW h, NEW key PROVE C!Settings(h, key)' = C!Settings(h, key)
    BY <1>1 DEF C!Settings
  <1>3. ASSUME NEW h, NEW key PROVE C!Said(h, key)' = C!Said(h, key)
    BY <1>2 DEF C!Said
  <1>4. ASSUME NEW name PROVE C!Matching(name)' = C!Matching(name)
    BY <1>1 DEF C!Matching
  <1>5. ASSUME NEW name PROVE C!Findable(name)' <=> C!Findable(name)
    BY <1>1, <1>4 DEF C!Findable
  <1> QED BY <1>1, <1>2, <1>3, <1>4, <1>5

\* So do steps that leave the configuration alone.
LEMMA ConfSame ==
    ASSUME ConfInv, UNCHANGED confVars
    PROVE  ConfInv'
  <1>0. UNCHANGED <<file, config_fp, line, sections, section_tail, cur_section, blocks,
                    stage, unmade>>
    BY DEF confVars
  <1>1. C!TypeOK /\ LoadInv /\ FileInv /\ BlockInv /\ LookInv
    BY DEF ConfInv
  <1>2. C!TypeOK'
    BY <1>0, <1>1 DEF C!TypeOK
  <1>3. C!Reachable' = C!Reachable /\ (IsFiniteSet(C!Items)' <=> IsFiniteSet(C!Items))
    BY <1>0, SectionsStay
  <1>4. LoadInv'
    BY <1>0, <1>1, <1>3 DEF LoadInv
  <1>5. C!Headers' = C!Headers /\ \A h, key : C!Settings(h, key)' = C!Settings(h, key)
    BY <1>0, SaidStays
  <1>6. Complete' <=> Complete
    BY <1>0, <1>5 DEF Complete
  <1>7. BlockInv'
    BY <1>0, <1>1, <1>3, <1>5, <1>6 DEF BlockInv
  <1>8. LookInv'
    <2> SUFFICES ASSUME Complete', stage' \in {"open", "load", "loaded"}
                 PROVE  \E p : Ordered(p)' /\ Named(p)' /\ Telling(p)'
      BY DEF LookInv
    <2>1. PICK p : Ordered(p) /\ Named(p) /\ Telling(p)
      BY <1>0, <1>1, <1>6 DEF LookInv
    <2>2. Ordered(p)' /\ Named(p)' /\ Telling(p)'
      BY <1>0, <1>5, <2>1, LookSame
    <2> QED BY <2>2
  <1>9. FileInv'
    BY <1>0, <1>1 DEF FileInv
  <1> QED BY <1>2, <1>4, <1>7, <1>8, <1>9 DEF ConfInv

\* While the runtime is created the configuration is there; it is loaded before, and
\* not loaded again after.
RuntimeStages ==
    /\ rpc \in {"file", "socket", "level", "hub"} => stage = "loaded"
    /\ rpc # "idle" => stage \in {"loaded", "destroyed"}

RuntimeTypes ==
    /\ rpc \in {"idle", "file", "socket", "level", "hub", "created", "failed", "fault"}
    /\ log_file \in Values \cup {RUNON, NULL} /\ log_sock \in Values \cup {RUNON, NULL}
    /\ log_level \in Values \cup {NULL}
    /\ held \in 0 .. 3 /\ hubs \in BOOLEAN

\* What the file says of a key of [log].
Told(key) == C!Said(C!Min(C!Matching(LOG)), key)

RuntimeTold ==
    /\ rpc = "idle" => log_file = NULL /\ log_sock = NULL /\ log_level = NULL
    /\ rpc # "failed" /\ C!Findable(LOG) =>
          /\ log_file \in {NULL} \cup Text(Told("file"))
          /\ log_sock \in {NULL} \cup Text(Told("socket"))
          /\ log_level \in {NULL, Told("level")}

ProgramInv ==
    ConfInv /\ RuntimeBlocks /\ RuntimeStages /\ RuntimeTypes /\ RuntimeTold

\* The steps of log_runtime_create and what they leave.
LEMMA CreateFacts ==
    ASSUME log_runtime_create
    PROVE  /\ UNCHANGED confVars /\ UNCHANGED <<file, line, stage, unmade>>
           /\ rpc \in {"idle", "file", "socket", "level", "hub"}
           /\ rpc = "idle" => stage = "loaded"
           /\ rpc' \in {"file", "socket", "level", "hub", "created", "failed", "fault"}
           /\ rpc' = "failed" \/ UNCHANGED <<log_file, log_sock, log_level>>
                \/ TakeFile \/ TakeSocket \/ TakeLevel
  <1>1. UNCHANGED confVars
    BY DEF log_runtime_create, Begin, TakeFile, TakeSocket, TakeLevel, CreateHub,
       CreateFails, Faults, Step
  <1>2. UNCHANGED <<file, line, stage, unmade>>
    BY <1>1 DEF confVars
  <1>3. /\ rpc \in {"idle", "file", "socket", "level", "hub"}
        /\ rpc = "idle" => stage = "loaded"
        /\ rpc' \in {"file", "socket", "level", "hub", "created", "failed", "fault"}
        /\ rpc' = "failed" \/ UNCHANGED <<log_file, log_sock, log_level>>
             \/ TakeFile \/ TakeSocket \/ TakeLevel
    BY DEF log_runtime_create, Begin, CreateHub, CreateFails, Faults, Step, TakeFile,
       TakeSocket, TakeLevel
  <1> QED BY <1>1, <1>2, <1>3

\* An answer that is taken is what the file says.
LEMMA AnswerTold ==
    ASSUME ConfInv, stage = "loaded", C!Findable(LOG), NEW key \in {"file", "socket", "level"}
    PROVE  Answer(key) = Told(key)
  <1>1. C!LookupReturnsLast
    BY LookupHolds DEF ConfInv
  <1>2. LOG \in Names /\ key \in Keys
    BY ProgramAssumption
  <1>3. C!get_configure_item(LOG, key) = C!Said(C!Min(C!Matching(LOG)), key)
    BY <1>1, <1>2 DEF C!LookupReturnsLast
  <1> QED BY <1>3 DEF Answer, Told

\* A step of log_runtime_create takes only what the file says.
LEMMA CreateKeeps ==
    ASSUME ProgramInv, log_runtime_create
    PROVE  RuntimeStages' /\ RuntimeTypes' /\ RuntimeTold'
  <1>0. ConfInv /\ RuntimeBlocks /\ RuntimeStages /\ RuntimeTypes /\ RuntimeTold
    BY DEF ProgramInv
  <1>f. /\ UNCHANGED <<file, line, stage, unmade>>
        /\ rpc \in {"idle", "file", "socket", "level", "hub"}
        /\ rpc = "idle" => stage = "loaded"
        /\ rpc' \in {"file", "socket", "level", "hub", "created", "failed", "fault"}
        /\ rpc' = "failed" \/ UNCHANGED <<log_file, log_sock, log_level>>
             \/ TakeFile \/ TakeSocket \/ TakeLevel
    BY CreateFacts
  <1>1. stage = "loaded"
    BY <1>0, <1>f DEF RuntimeStages
  <1>2. RuntimeStages'
    BY <1>1, <1>f DEF RuntimeStages
  <1>3. RuntimeTypes'
    <2>l. Levels \subseteq Values /\ NULL \notin Values
      BY ProgramAssumption DEF C!ConfigureAssumption
    <2>r. rpc' \in {"idle", "file", "socket", "level", "hub", "created", "failed", "fault"}
      BY <1>f
    <2>1. CASE Begin
      BY <1>0, <2>1, <2>r DEF Begin, RuntimeTypes
    <2>2. CASE TakeFile
      <3>1. held' = 2
        BY <1>0, <2>2 DEF TakeFile, Step, RuntimeBlocks
      <3> QED BY <1>0, <2>2, <2>r, <3>1 DEF TakeFile, Text, RuntimeTypes
    <2>3. CASE TakeSocket
      <3>1. held' = 3
        BY <1>0, <2>3 DEF TakeSocket, Step, RuntimeBlocks
      <3> QED BY <1>0, <2>3, <2>r, <3>1 DEF TakeSocket, Text, RuntimeTypes
    <2>4. CASE TakeLevel
      BY <1>0, <2>4, <2>l, <2>r DEF TakeLevel, IsLevel, RuntimeTypes
    <2>5. CASE CreateHub
      BY <1>0, <2>5, <2>r DEF CreateHub, RuntimeTypes
    <2>6. CASE CreateFails
      <3>1. held' \in 0 .. 3
        <4>1. rpc \in {"file", "socket", "level", "hub"}
          BY <2>6 DEF CreateFails, Step
        <4>2. held' = held - (IF log_file = NULL THEN 1 ELSE 2)
          BY <2>6 DEF CreateFails
        <4> QED BY <1>0, <4>1, <4>2 DEF RuntimeBlocks
      <3> QED BY <1>0, <2>6, <2>r, <3>1 DEF CreateFails, RuntimeTypes
    <2>7. CASE Faults
      BY <1>0, <2>7, <2>r DEF Faults, RuntimeTypes
    <2> QED BY <2>1, <2>2, <2>3, <2>4, <2>5, <2>6, <2>7 DEF log_runtime_create
  <1>4. RuntimeTold'
    <2>1. /\ C!Findable(LOG)' <=> C!Findable(LOG)
          /\ \A key : Told(key)' = Told(key)
      <3>1. /\ C!Findable(LOG)' <=> C!Findable(LOG)
            /\ C!Matching(LOG)' = C!Matching(LOG)
            /\ \A h, key : C!Said(h, key)' = C!Said(h, key)
        BY <1>f, SaidStays
      <3> QED BY <3>1 DEF Told
    <2> SUFFICES ASSUME rpc' # "failed", C!Findable(LOG)
                 PROVE  /\ log_file' \in {NULL} \cup Text(Told("file"))
                        /\ log_sock' \in {NULL} \cup Text(Told("socket"))
                        /\ log_level' \in {NULL, Told("level")}
      BY <1>f, <2>1 DEF RuntimeTold
    <2>2. /\ log_file \in {NULL} \cup Text(Told("file"))
          /\ log_sock \in {NULL} \cup Text(Told("socket"))
          /\ log_level \in {NULL, Told("level")}
      BY <1>0, <1>f DEF RuntimeTold
    <2>3. \A key \in {"file", "socket", "level"} : Answer(key) = Told(key)
      BY <1>0, <1>1, AnswerTold
    <2>4. CASE TakeFile
      BY <2>2, <2>3, <2>4 DEF TakeFile
    <2>5. CASE TakeSocket
      BY <2>2, <2>3, <2>5 DEF TakeSocket
    <2>6. CASE TakeLevel
      BY <2>2, <2>3, <2>6 DEF TakeLevel
    <2> QED BY <1>f, <2>2, <2>4, <2>5, <2>6
  <1> QED BY <1>2, <1>3, <1>4

\* The configuration changes only before the runtime is there, or goes after.
LEMMA LoadKeeps ==
    ASSUME ProgramInv, Load \/ Unload
    PROVE  ConfInv' /\ RuntimeStages' /\ RuntimeTypes' /\ RuntimeTold'
  <1>0. ConfInv /\ RuntimeStages /\ RuntimeTypes /\ RuntimeTold
    BY DEF ProgramInv
  <1>1. C!Load \/ C!configure_handler_destroy
    BY DEF Load, Unload
  <1>2. ConfInv'
    BY <1>0, <1>1, ConfNext
  <1>r. UNCHANGED <<rpc, log_file, log_sock, log_level, held, hubs>>
    BY DEF Load, Unload, runtimeVars
  <1>3. RuntimeTypes'
    BY <1>0, <1>r DEF RuntimeTypes
  <1>4. CASE Load
    <2>1. stage \in {"open", "load"}
      BY <1>4 DEF Load, C!Load, C!OpenFails, C!Open, C!SkipLine, C!NewSection, C!NoSection,
         C!NewItem, C!NoItem, C!Misplaced, C!EndOfFile, C!Line
    <2>2. rpc = "idle"
      BY <1>0, <2>1 DEF RuntimeStages
    <2>3. log_file' = NULL /\ log_sock' = NULL /\ log_level' = NULL /\ rpc' = "idle"
      BY <1>0, <1>r, <2>2 DEF RuntimeTold
    <2> QED BY <1>2, <1>3, <2>3 DEF RuntimeStages, RuntimeTold
  <1>5. CASE Unload
    <2>1. rpc \in {"created", "failed"} /\ stage' = "destroyed" /\ UNCHANGED <<file, line, unmade>>
      BY <1>5 DEF Unload, C!configure_handler_destroy
    <2>2. RuntimeStages'
      BY <1>r, <2>1 DEF RuntimeStages
    <2>3. /\ C!Findable(LOG)' <=> C!Findable(LOG)
          /\ C!Matching(LOG)' = C!Matching(LOG)
          /\ \A h, key : C!Said(h, key)' = C!Said(h, key)
      BY <2>1, SaidStays
    <2>4. \A key : Told(key)' = Told(key)
      BY <2>3 DEF Told
    <2>5. RuntimeTold'
      BY <1>0, <1>r, <2>3, <2>4 DEF RuntimeTold
    <2> QED BY <1>2, <1>3, <2>2, <2>5
  <1> QED BY <1>4, <1>5

\* The other steps, the server's among them, leave both alone.
LEMMA RestKeeps ==
    ASSUME ProgramInv, UNCHANGED <<confVars, runtimeVars>>
    PROVE  ConfInv' /\ RuntimeStages' /\ RuntimeTypes' /\ RuntimeTold'
  <1>0. ConfInv /\ RuntimeStages /\ RuntimeTypes /\ RuntimeTold
    BY DEF ProgramInv
  <1>1. ConfInv'
    BY <1>0, ConfSame
  <1>2. UNCHANGED <<rpc, log_file, log_sock, log_level, held, hubs, file, line, stage, unmade>>
    BY DEF confVars, runtimeVars
  <1>3. RuntimeTypes' /\ RuntimeStages'
    BY <1>0, <1>2 DEF RuntimeTypes, RuntimeStages
  <1>4. /\ C!Findable(LOG)' <=> C!Findable(LOG)
        /\ C!Matching(LOG)' = C!Matching(LOG)
        /\ \A h, key : C!Said(h, key)' = C!Said(h, key)
    BY <1>2, SaidStays
  <1>5. \A key : Told(key)' = Told(key)
    BY <1>4 DEF Told
  <1>6. RuntimeTold'
    BY <1>0, <1>2, <1>4, <1>5 DEF RuntimeTold
  <1> QED BY <1>1, <1>3, <1>6

\* The invariant of the whole program.
LEMMA ProgramInvariant == ProgramSpec => []ProgramInv
  <1>1. ProgramInit => ProgramInv
    <2> SUFFICES ASSUME ProgramInit PROVE ProgramInv
      OBVIOUS
    <2>1. ConfInv
      BY ConfInit DEF ProgramInit
    <2>2. /\ rpc = "idle" /\ log_file = NULL /\ log_sock = NULL /\ log_level = NULL
          /\ held = 0 /\ hubs = FALSE
      BY DEF ProgramInit
    <2>3. RuntimeBlocks /\ RuntimeStages
      BY <2>2 DEF RuntimeBlocks, RuntimeStages
    <2>4. RuntimeTypes
      <3>1. hubs \in BOOLEAN
        BY <2>2
      <3>2. /\ log_file \in Values \cup {RUNON, NULL} /\ log_sock \in Values \cup {RUNON, NULL}
            /\ log_level \in Values \cup {NULL}
        BY <2>2
      <3>3. /\ held \in 0 .. 3
            /\ rpc \in {"idle", "file", "socket", "level", "hub", "created", "failed", "fault"}
        BY <2>2
      <3> QED BY <3>1, <3>2, <3>3 DEF RuntimeTypes
    <2>5. RuntimeTold
      BY <2>2 DEF RuntimeTold
    <2> QED BY <2>1, <2>3, <2>4, <2>5 DEF ProgramInv
  <1>2. ProgramInv /\ [ProgramNext]_programVars => ProgramInv'
    <2> SUFFICES ASSUME ProgramInv, [ProgramNext]_programVars PROVE ProgramInv'
      OBVIOUS
    <2>1. RuntimeBlocks'
      BY RuntimeBlocksKept DEF ProgramInv
    <2>2. CASE Load \/ Unload
      BY <2>1, <2>2, LoadKeeps DEF ProgramInv
    <2>3. CASE log_runtime_create
      <3>1. ConfInv'
        BY <2>3, CreateFacts, ConfSame DEF ProgramInv
      <3> QED BY <2>1, <2>3, <3>1, CreateKeeps DEF ProgramInv
    <2>4. CASE UNCHANGED <<confVars, runtimeVars>>
      BY <2>1, <2>4, RestKeeps DEF ProgramInv
    <2> QED BY <2>2, <2>3, <2>4 DEF ProgramNext, Running, programVars
  <1> QED BY <1>1, <1>2, PTL DEF ProgramSpec

\* The program's variables stay in their types: no count of blocks goes below zero,
\* whichever requests fail.
THEOREM ProgramTypeCorrect == ProgramSpec => []ProgramTypeOK
  <1>1. LogTypeOK /\ ProgramInv => ProgramTypeOK
    BY DEF ProgramInv, ConfInv, RuntimeTypes, ProgramTypeOK
  <1> QED BY <1>1, ProgramImplementsServer, LogTypeCorrect, ProgramInvariant, PTL

\* When the configuration is gone, or could not be loaded, each section's own block
\* is out and nothing else, but a file that was read, which stays open; when the
\* runtime could not be created, the socket's name.
THEOREM OnlyKnownLeaksHolds == ProgramSpec => []OnlyKnownLeaks
  <1>1. ProgramInv => OnlyKnownLeaks
    <2> SUFFICES ASSUME ProgramInv PROVE OnlyKnownLeaks
      OBVIOUS
    <2>1. BlockInv /\ FileInv /\ RuntimeBlocks
      BY DEF ProgramInv, ConfInv
    <2>2. C!Cardinality(C!Headers) = Cardinality(C!Headers)
      BY SameCount
    <2>3. C!OnlySectionsLeak
      BY <2>1, <2>2 DEF BlockInv, FileInv, Complete, C!OnlySectionsLeak
    <2> QED BY <2>1, <2>3 DEF RuntimeBlocks, OnlyKnownLeaks
  <1> QED BY <1>1, ProgramInvariant, PTL

\* A lookup answers with the last setting of the file, and the runtime is what the
\* file says of [log], also when the configuration is gone; only a value that fills
\* its block may be followed by more.
THEOREM RuntimeFromFileHolds == ProgramSpec => []RuntimeFromFile
  <1>1. ProgramInv => RuntimeFromFile
    <2> SUFFICES ASSUME ProgramInv PROVE RuntimeFromFile
      OBVIOUS
    <2>1. C!LookupReturnsLast
      BY LookupHolds DEF ProgramInv, ConfInv
    <2>2. \A key : C!Said(Min(C!Matching(LOG)), key) = Told(key)
      BY SameBounds DEF Told
    <2>3. RuntimeTold
      BY DEF ProgramInv
    <2> QED BY <2>1, <2>2, <2>3 DEF RuntimeTold, RuntimeFromFile
  <1> QED BY <1>1, ProgramInvariant, PTL
=============================================================================
