----------------------------- MODULE LogServer -----------------------------
(***************************************************************************)
(* The log server (log.c): a hub whose only handlers accept clients on a   *)
(* unix socket and read what they send.  It is a client of NetEvents and   *)
(* takes its steps: log_accept_handler opens a descriptor and registers    *)
(* it, log_read_handler deregisters and closes one.  The clients are other *)
(* processes (distor_log); they connect, write and hang up at any time,    *)
(* also between two reads of net_readn.                                    *)
(*                                                                         *)
(* What is sent is counted, not spelled out: the model says when bytes are *)
(* read, and not what record_log writes.  epoll is level-triggered: a      *)
(* round reports every descriptor that can be read then.                   *)
(***************************************************************************)
EXTENDS NetEvents

CONSTANTS
    Conns,       \* the connections clients make, numbered in their order
    log_accept_handler, log_read_handler,
    LISTENER,    \* what the listening socket's descriptor is open for
    ReadSize,    \* what a call of log_read_handler asks net_readn for: 255
    MaxPending   \* what the kernel buffers of a connection

ASSUME LogAssumption ==
    /\ Procs = {log_accept_handler, log_read_handler}
    /\ log_accept_handler # log_read_handler
    /\ Conns \subseteq Nat
    /\ LISTENER \notin Conns /\ NULL \notin Conns \cup {LISTENER}
    /\ ReadSize \in Nat \ {0} /\ MaxPending \in Nat \ {0}

VARIABLES
    lpc,        \* where the server is, within a handler or before hub_main
    listen_fd,
    cfd,        \* the descriptor log_accept_handler has accepted
    nbytes,     \* what net_readn has read in this call
    conn,       \* of each connection: the server's side
    client,     \* and the client's
    pending,    \* the bytes sent and not read
    holds,      \* kernel: what each descriptor is open for
    reported    \* history: what it was open for when its event was reported

peers == <<client, pending>>
logVars == <<lpc, listen_fd, cfd, nbytes, conn, client, pending, holds, reported>>
allVars == <<vars, logVars>>

LogInit ==
    /\ Init
    /\ lpc = "stopped"
    /\ listen_fd = -1 /\ cfd = -1 /\ nbytes = 0
    /\ conn = [c \in Conns |-> "none"]
    /\ client = [c \in Conns |-> "up"]
    /\ pending = [c \in Conns |-> 0]
    /\ holds = [f \in Fds |-> NULL]
    /\ reported = [f \in Fds |-> NULL]

Goto(label) == lpc' = label

\* c is the first connection in this state.
IsFirst(c, state) == conn[c] = state /\ \A d \in Conns : conn[d] = state => c <= d

-----------------------------------------------------------------------------
(* The clients: distor_log_client_create, distor_log with net_writen, and the *)
(* end of a client, which may leave a connection in order or not.             *)

Connect(c) ==
    /\ IsFirst(c, "none")
    /\ lpc \notin {"stopped", "failed"}
    /\ conn' = [conn EXCEPT ![c] = "queued"]
    /\ UNCHANGED <<vars, lpc, listen_fd, cfd, nbytes, client, pending, holds,
                   reported>>

Connected(c) == conn[c] \in {"queued", "accepted"} /\ client[c] = "up"

\* One write of net_writen; it waits for room.
Write(c, n) ==
    /\ Connected(c)
    /\ pending[c] + n <= MaxPending
    /\ pending' = [pending EXCEPT ![c] = @ + n]
    /\ UNCHANGED <<vars, lpc, listen_fd, cfd, nbytes, conn, client, holds,
                   reported>>

\* "closed": what was sent can be read; "reset": a read fails.
HangUp(c, how) ==
    /\ Connected(c)
    /\ client' = [client EXCEPT ![c] = how]
    /\ UNCHANGED <<vars, lpc, listen_fd, cfd, nbytes, conn, pending, holds,
                   reported>>

-----------------------------------------------------------------------------
(* distor_log_start *)

\* fopen or unix_listen fails.
StartFails ==
    /\ lpc = "stopped"
    /\ Goto("failed")
    /\ UNCHANGED <<vars, listen_fd, cfd, nbytes, conn, peers, holds, reported>>

Listen ==
    /\ lpc = "stopped"
    /\ Open
    /\ listen_fd' = Min(Fds \ open)
    /\ holds' = [holds EXCEPT ![listen_fd'] = LISTENER]
    /\ Goto("listening")
    /\ UNCHANGED <<cfd, nbytes, conn, peers, reported>>

\* The hub has room for the listener: it comes before all clients.
RegisterListener ==
    /\ lpc = "listening"
    /\ listen_fd \in Table
    /\ hub_create_net_event(listen_fd, {"read"}, log_accept_handler)
    /\ Goto("serving")
    /\ UNCHANGED <<listen_fd, cfd, nbytes, conn, peers, holds, reported>>

-----------------------------------------------------------------------------
(* hub_main *)

\* What epoll reports of a descriptor: the listener if a connection waits, a
\* connection if there is something to read or the client has hung up, and of
\* the latter that too.
Ready(f) ==
    IF holds[f] = LISTENER
    THEN IF \E c \in Conns : conn[c] = "queued" THEN {"read"} ELSE {}
    ELSE IF client[holds[f]] # "up" THEN Modes
    ELSE IF pending[holds[f]] > 0 THEN {"read"} ELSE {}

Wait ==
    /\ lpc = "serving"
    /\ rdy_events' = [f \in Table |-> IF f \in watched THEN Ready(f) ELSE {}]
    /\ evt_multipexer_loop
    /\ reported' = [f \in Fds |-> IF f \in Table /\ rdy_events'[f] # {}
                                 THEN holds[f] ELSE NULL]
    /\ UNCHANGED <<lpc, listen_fd, cfd, nbytes, conn, peers, holds>>

\* process_net_event calls a handler, or none.
Dispatch(f) ==
    /\ CallReader(f) \/ CallWriter(f) \/ SkipEvent(f)
    /\ Goto(IF proc' = log_accept_handler THEN "accept"
            ELSE IF proc' = log_read_handler THEN "read" ELSE "serving")
    /\ nbytes' = 0
    /\ UNCHANGED <<listen_fd, cfd, conn, peers, holds, reported>>

Return ==
    /\ lpc = "return"
    /\ HandlerReturns
    /\ Goto("serving")
    /\ cfd' = -1 /\ nbytes' = 0
    /\ UNCHANGED <<listen_fd, conn, peers, holds, reported>>

NextRound ==
    /\ lpc = "serving"
    /\ RoundEnds
    /\ reported' = [f \in Fds |-> NULL]
    /\ UNCHANGED <<lpc, listen_fd, cfd, nbytes, conn, peers, holds>>

-----------------------------------------------------------------------------
(* log_accept_handler *)

\* accept takes the connection that waits longest.
Accept(c) ==
    /\ lpc = "accept"
    /\ IsFirst(c, "queued")
    /\ Open
    /\ cfd' = Min(Fds \ open)
    /\ holds' = [holds EXCEPT ![cfd'] = c]
    /\ conn' = [conn EXCEPT ![c] = "accepted"]
    /\ Goto("register")
    /\ UNCHANGED <<listen_fd, nbytes, peers, reported>>

\* accept fails, for want of a descriptor or another reason.  The connection stays
\* in the queue.
AcceptFails ==
    /\ lpc = "accept"
    /\ Goto("return")
    /\ UNCHANGED <<vars, listen_fd, cfd, nbytes, conn, peers, holds, reported>>

\* Mutant: the descriptor is registered for writing.
Register_ForWriting ==
    /\ lpc = "register"
    /\ cfd \in Table
    /\ hub_create_net_event(cfd, {"write"}, log_read_handler)
    /\ Goto("return")
    /\ UNCHANGED <<listen_fd, cfd, nbytes, conn, peers, holds, reported>>

Register ==
    /\ lpc = "register"
    /\ cfd \in Table
    /\ hub_create_net_event(cfd, {"read"}, log_read_handler)
    /\ Goto("return")
    /\ UNCHANGED <<listen_fd, cfd, nbytes, conn, peers, holds, reported>>

\* Mutant: the connection is given the descriptor of one the hub watches.
RegisterRefused_Evicts ==
    /\ lpc = "register"
    /\ cfd \notin Table
    /\ Close(cfd)
    /\ \E f \in watched \ {listen_fd} :
          /\ holds' = [holds EXCEPT ![f] = holds[cfd], ![cfd] = NULL]
          /\ conn' = [conn EXCEPT ![holds[f]] = "closed"]
    /\ Goto("return")
    /\ UNCHANGED <<listen_fd, cfd, nbytes, peers, reported>>

\* The hub refuses a descriptor beyond its table.  The handler returns, and the
\* connection stays open: nobody reads it or closes it any more.
RegisterRefused ==
    /\ lpc = "register"
    /\ cfd \notin Table
    /\ Goto("return")
    /\ UNCHANGED <<vars, listen_fd, cfd, nbytes, conn, peers, holds, reported>>

-----------------------------------------------------------------------------
(* log_read_handler; its loop over read is net_readn *)

\* One call of read takes what there is, up to what is still asked for.
ReadSome ==
    /\ lpc = "read"
    /\ LET c == holds[fd]
           n == Min({pending[c], ReadSize - nbytes})
       IN  /\ client[c] # "reset"
           /\ n > 0
           /\ pending' = [pending EXCEPT ![c] = @ - n]
           /\ nbytes' = nbytes + n
    /\ Goto(IF nbytes' = ReadSize THEN "return" ELSE "read")
    /\ UNCHANGED <<vars, listen_fd, cfd, conn, client, holds, reported>>

\* Mutant: the handler drops a client as soon as there is no more to read.
ReadDry_Drops ==
    /\ lpc = "read"
    /\ client[holds[fd]] # "reset"
    /\ pending[holds[fd]] = 0
    /\ Goto("drop")
    /\ UNCHANGED <<vars, listen_fd, cfd, nbytes, conn, peers, holds, reported>>

\* Mutant: the handler takes nothing read for a client that has not sent yet.
ReadDry_Keeps ==
    /\ lpc = "read"
    /\ client[holds[fd]] # "reset"
    /\ pending[holds[fd]] = 0
    /\ Goto("return")
    /\ UNCHANGED <<vars, listen_fd, cfd, nbytes, conn, peers, holds, reported>>

\* The client has sent no more (EAGAIN), or has closed its end (read returns 0):
\* net_readn returns what it has, and the handler takes 0 for the end.
ReadDry ==
    /\ lpc = "read"
    /\ client[holds[fd]] # "reset"
    /\ pending[holds[fd]] = 0
    /\ Goto(IF nbytes = 0 THEN "drop" ELSE "return")
    /\ UNCHANGED <<vars, listen_fd, cfd, nbytes, conn, peers, holds, reported>>

ReadFails ==
    /\ lpc = "read"
    /\ client[holds[fd]] = "reset"
    /\ Goto("drop")
    /\ UNCHANGED <<vars, listen_fd, cfd, nbytes, conn, peers, holds, reported>>

Drop ==
    /\ lpc = "drop"
    /\ hub_delete_net_event(fd, Modes)
    /\ Goto("close")
    /\ UNCHANGED <<listen_fd, cfd, nbytes, conn, peers, holds, reported>>

\* What the connection held goes with it, and what becomes of its client is left out.
CloseClient ==
    /\ lpc = "close"
    /\ Close(fd)
    /\ holds' = [holds EXCEPT ![fd] = NULL]
    /\ conn' = [conn EXCEPT ![holds[fd]] = "closed"]
    /\ client' = [client EXCEPT ![holds[fd]] = "gone"]
    /\ pending' = [pending EXCEPT ![holds[fd]] = 0]
    /\ Goto("return")
    /\ UNCHANGED <<listen_fd, cfd, nbytes, reported>>

-----------------------------------------------------------------------------
Clients ==
    \E c \in Conns :
        \/ Connect(c)
        \/ \E n \in 1 .. MaxPending : Write(c, n)
        \/ \E how \in {"closed", "reset"} : HangUp(c, how)

AcceptStep ==
    \/ \E c \in Conns : Accept(c)
    \/ AcceptFails \/ Register \/ RegisterRefused

ReadStep == ReadSome \/ ReadDry \/ ReadFails \/ Drop \/ CloseClient

Serve ==
    \/ Wait \/ (\E f \in Table : Dispatch(f)) \/ Return \/ NextRound
    \/ AcceptStep \/ ReadStep

Start == StartFails \/ Listen \/ RegisterListener

LogNext == Clients \/ Start \/ Serve

\* hub_main keeps running.  Clients need not do anything.
LogSpec == LogInit /\ [][LogNext]_allVars

LogFairSpec == LogSpec /\ WF_allVars(Serve)

-----------------------------------------------------------------------------
(* Properties *)

\* The variables stay in their types.
LogTypeOK ==
    /\ lpc \in {"stopped", "failed", "listening", "serving", "accept", "register",
                "read", "drop", "close", "return"}
    /\ listen_fd \in Fds \cup {-1} /\ cfd \in Fds \cup {-1}
    /\ nbytes \in 0 .. ReadSize
    /\ conn \in [Conns -> {"none", "queued", "accepted", "closed"}]
    /\ client \in [Conns -> {"up", "closed", "reset", "gone"}]
    /\ pending \in [Conns -> 0 .. MaxPending]
    /\ holds \in [Fds -> Conns \cup {LISTENER, NULL}]
    /\ reported \in [Fds -> Conns \cup {LISTENER, NULL}]

\* An event is dispatched to what it was reported for: no descriptor is closed and
\* given to a new connection while its event of this round waits.  The hub does not
\* see to that; it is so because log_read_handler closes no descriptor but its own,
\* whose event was taken.
EventsMatchFile ==
    /\ \A f \in Table : rdy_events[f] # {} => holds[f] = reported[f]
    /\ lpc = "read" => holds[fd] = reported[fd] /\ holds[fd] \in Conns

\* A connection the server has accepted and not closed has one descriptor, and the
\* hub watches it for reading, but in the midst of a handler, or when the descriptor
\* is beyond the table: such a connection nobody serves (log.c:131).
ClientsWatched ==
    /\ \A c \in Conns :
          conn[c] = "accepted" <=> \E f \in Fds : holds[f] = c
    /\ \A f, g \in Fds : holds[f] # NULL /\ holds[f] = holds[g] => f = g
    /\ \A f \in Table : holds[f] \in Conns =>
          \/ interest[f] = {"read"} /\ rnetProc[f] = log_read_handler
          \/ lpc = "register" /\ f = cfd
          \/ lpc = "close" /\ f = fd

\* The server closes a connection only when the client has, and all it sent was
\* read, or when a read failed: net_readn's 0 never means that a client that is
\* still there had nothing to send.
ClosesOnlyTheGone ==
    [][\A c \in Conns :
          conn[c] = "accepted" /\ conn'[c] = "closed" =>
              \/ client[c] = "reset"
              \/ client[c] = "closed" /\ pending[c] = 0]_allVars

\* A client that hangs up is found out: its descriptor, if it is in the table, is
\* closed at last, whatever the other clients do.
HungUpClosed ==
    \A c \in Conns :
        (client[c] # "up" /\ \E f \in Table : holds[f] = c) ~> conn[c] = "closed"
=============================================================================
