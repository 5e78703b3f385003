-------------------------- MODULE NetEventsProofs --------------------------
(***************************************************************************)
(* Proofs about the net events of the hub, for any descriptors, handlers   *)
(* and table size: kernel and table agree, maxfd is exact, only handlers   *)
(* that were registered are called, and a round serves what was reported.  *)
(***************************************************************************)
EXTENDS NetEvents, WellFoundedInduction, TLAPS

-----------------------------------------------------------------------------
(* Least and greatest members of sets of integers *)

Less == {ss \in Nat \X Nat : ss[1] < ss[2]}

LEMMA LessIsWellFounded == IsWellFoundedOn(Less, Nat)
  BY NatLessThanWellFounded DEF Less, OpToRel

\* A set of natural numbers has a least member.
LEMMA LeastNatural ==
    ASSUME NEW S \in SUBSET Nat, S # {}
    PROVE  \E x \in S : \A y \in S : x <= y
  <1>1. \E x \in S : \A y \in S : ~(<<y, x>> \in Less)
    BY LessIsWellFounded, WFMin
  <1>2. \A x, y \in Nat : ~(<<y, x>> \in Less) => x <= y
    BY DEF Less
  <1> QED BY <1>1, <1>2

LEMMA MinIsLeast ==
    ASSUME NEW S \in SUBSET Nat, S # {}
    PROVE  Min(S) \in S
  BY LeastNatural DEF Min

\* A set of integers that has a bound has a greatest member, which is its Max.
LEMMA MaxIsGreatest ==
    ASSUME NEW S \in SUBSET Int, S # {}, NEW b \in Int, \A x \in S : x <= b
    PROVE  Max(S) \in S /\ \A x \in S : x <= Max(S)
  <1> DEFINE D == {n \in Nat : \E x \in S : n = b - x}
  <1>0. \A x \in S : b - x \in D
    OBVIOUS
  <1>1. D \in SUBSET Nat /\ D # {}
    BY <1>0
  <1>2. PICK d \in D : \A e \in D : d <= e
    BY <1>1, LeastNatural
  <1>3. PICK m \in S : d = b - m
    OBVIOUS
  <1>4. \A x \in S : m >= x
    <2> TAKE x \in S
    <2>1. b - x \in D
      BY <1>0
    <2>2. b - m <= b - x
      BY <2>1, <1>2, <1>3
    <2> QED BY <2>2
  <1>5. \A y \in S : Max(S) >= y /\ Max(S) \in S
    BY <1>4 DEF Max
  <1> QED BY <1>4, <1>5 DEF Max

-----------------------------------------------------------------------------
(* maxfd *)

\* -1 and the registered descriptors.
Registered(m) == {-1} \cup {f \in Table : m[f] # {}}

LEMMA TableBound == Table \subseteq Nat /\ \A f \in Table : f <= evtsize
  BY NetAssumption DEF Table

LEMMA RegisteredBound ==
    ASSUME NEW m
    PROVE  /\ Registered(m) \in SUBSET Int /\ Registered(m) # {}
           /\ \A x \in Registered(m) : x <= evtsize
  <1>1. \A x \in Registered(m) : x = -1 \/ x \in Table
    BY DEF Registered
  <1>2. -1 \in Registered(m)
    BY DEF Registered
  <1>3. evtsize \in Nat
    BY NetAssumption
  <1>4. \A x \in Registered(m) : x \in Int /\ x <= evtsize
    <2> TAKE x \in Registered(m)
    <2>1. CASE x = -1
      BY <2>1, <1>3
    <2>2. CASE x \in Table
      BY <2>2, TableBound
    <2> QED BY <1>1, <2>1, <2>2
  <1> QED BY <1>2, <1>4

LEMMA RegisteredMax ==
    ASSUME NEW m
    PROVE  /\ Max(Registered(m)) \in Table \cup {-1}
           /\ Max(Registered(m)) \in Registered(m)
           /\ \A x \in Registered(m) : x <= Max(Registered(m))
  <1>1. evtsize \in Int
    BY NetAssumption
  <1>2. /\ Max(Registered(m)) \in Registered(m)
        /\ \A x \in Registered(m) : x <= Max(Registered(m))
    BY <1>1, RegisteredBound, MaxIsGreatest
  <1> QED BY <1>2 DEF Registered

\* A member that bounds the registered descriptors is their maximum.
LEMMA RegisteredMaxIs ==
    ASSUME NEW m, NEW x \in Registered(m), \A y \in Registered(m) : y <= x
    PROVE  x = Max(Registered(m))
  <1>1. Registered(m) \in SUBSET Int
    BY RegisteredBound
  <1>2. Max(Registered(m)) <= x /\ x <= Max(Registered(m))
    BY RegisteredMax
  <1>3. Max(Registered(m)) \in Int /\ x \in Int
    BY <1>1, RegisteredMax
  <1> QED BY <1>2, <1>3

-----------------------------------------------------------------------------
(* The inductive invariant *)

\* A mode that is registered has a handler a client gave.
Handlers ==
    \A f \in Table : /\ "read" \in mode[f] => rnetProc[f] \in Procs
                     /\ "write" \in mode[f] => wnetProc[f] \in Procs

\* An event someone waits for is still to be dispatched, and will be served.
OwedWaits ==
    \A f \in Table :
        /\ <<f, "read">> \in owed => "read" \in mode[f] \cap rdy_events[f]
        /\ <<f, "write">> \in owed => /\ "write" \in mode[f] \cap rdy_events[f]
                                      /\ "read" \notin mode[f] \cap rdy_events[f]
                                      /\ rnetProc[f] # wnetProc[f]

NetInv ==
    /\ TypeOK
    /\ InterestMatchesTable
    /\ maxfd = Max(Registered(mode))
    /\ Handlers
    /\ CallsRegistered
    /\ OwedWaits
    /\ pc = "time" => rdy_events = Nothing

LEMMA NetInit == Init => NetInv
  <1> SUFFICES ASSUME Init PROVE NetInv
    OBVIOUS
  <1>1. mode = Nothing /\ interest = Nothing /\ rdy_events = Nothing
    BY DEF Init
  <1>2. \A f \in Table : mode[f] = {} /\ interest[f] = {} /\ rdy_events[f] = {}
    BY <1>1 DEF Nothing
  <1>3. Nothing \in [Table -> SUBSET Modes]
    BY DEF Nothing
  <1>4. rnetProc \in [Table -> Leftover] /\ wnetProc = rnetProc
    BY DEF Init
  <1>5. TypeOK
    <2>1. /\ rnetProc \in [Table -> Procs \cup Leftover \cup {NULL}]
          /\ wnetProc \in [Table -> Procs \cup Leftover \cup {NULL}]
      BY <1>4
    <2> QED BY <1>1, <1>3, <2>1 DEF Init, TypeOK
  <1>6. InterestMatchesTable
    BY <1>2 DEF Init, InterestMatchesTable
  <1>7. Registered(mode) = {-1}
    BY <1>2 DEF Registered
  <1>8. maxfd = Max(Registered(mode))
    <2>1. maxfd \in Registered(mode) /\ \A y \in Registered(mode) : y <= maxfd
      BY <1>7 DEF Init
    <2> QED BY <2>1, RegisteredMaxIs
  <1>9. Handlers /\ CallsRegistered /\ OwedWaits
    BY <1>2 DEF Init, Handlers, CallsRegistered, OwedWaits
  <1> QED BY <1>1, <1>5, <1>6, <1>8, <1>9 DEF NetInv

LEMMA NetOpenClose ==
    ASSUME NetInv, Open \/ \E f \in Fds : Close(f)
    PROVE  NetInv'
  <1>1. /\ UNCHANGED <<mode, rnetProc, wnetProc, maxfd, rdy_events, watched,
                       interest, pc, fd, proc, owed>>
        /\ open' \subseteq Fds /\ watched \subseteq open'
    <2>1. CASE Open
      <3>1. Fds \ open \in SUBSET Nat /\ Fds \ open # {}
        BY <2>1, NetAssumption DEF Open, NetInv, TypeOK
      <3>2. Min(Fds \ open) \in Fds
        BY <3>1, MinIsLeast
      <3> QED
        BY <2>1, <3>2 DEF Open, NetInv, TypeOK, InterestMatchesTable, table
    <2>2. CASE \E f \in Fds : Close(f)
      BY <2>2 DEF Close, NetInv, TypeOK, InterestMatchesTable, table
    <2> QED BY <2>1, <2>2
  <1> QED
    BY <1>1 DEF NetInv, TypeOK, InterestMatchesTable, Handlers, CallsRegistered,
         OwedWaits

LEMMA NetCreate ==
    ASSUME NetInv, NEW f \in Table, NEW ms \in (SUBSET Modes) \ {{}},
           NEW p \in Procs, hub_create_net_event(f, ms, p)
    PROVE  NetInv'
  <1>t. TypeOK /\ f \in open
    BY DEF NetInv, hub_create_net_event, evt_event_add
  <1>1. /\ mode' = [mode EXCEPT ![f] = @ \cup ms]
        /\ interest' = [interest EXCEPT ![f] = ms \cup mode[f]]
        /\ watched' = watched \cup {f}
        /\ rnetProc' = [rnetProc EXCEPT ![f] = IF "read" \in ms THEN p ELSE @]
        /\ wnetProc' = [wnetProc EXCEPT ![f] = IF "write" \in ms THEN p ELSE @]
        /\ owed' = owed \ ({f} \X {"write"})
        /\ UNCHANGED <<rdy_events, open, pc, fd, proc>>
        /\ maxfd' = Max({f, maxfd})
    BY DEF hub_create_net_event, evt_event_add, Settle
  <1>2. Registered(mode') = Registered(mode) \cup {f}
    <2>1. \A i \in Table : mode'[i] = IF i = f THEN mode[i] \cup ms ELSE mode[i]
      BY <1>1, <1>t DEF TypeOK
    <2>2. ms # {}
      OBVIOUS
    <2>3. \A i \in Table : mode'[i] # {} <=> mode[i] # {} \/ i = f
      BY <2>1, <2>2
    <2> QED BY <2>3 DEF Registered
  <1>3. maxfd' = Max(Registered(mode'))
    <2>1. maxfd \in Int /\ f \in Int
      BY <1>t, TableBound DEF TypeOK
    <2>2. /\ maxfd \in Registered(mode)
          /\ \A y \in Registered(mode) : y <= maxfd
      BY RegisteredMax DEF NetInv
    <2>3. PICK b \in Int : f <= b /\ maxfd <= b
      BY <2>1
    <2>4. /\ Max({f, maxfd}) \in {f, maxfd}
          /\ f <= Max({f, maxfd}) /\ maxfd <= Max({f, maxfd})
      <3> DEFINE S == {f, maxfd}
      <3>1. S \in SUBSET Int /\ S # {} /\ \A x \in S : x <= b
        BY <2>1, <2>3
      <3>2. Max(S) \in S /\ \A x \in S : x <= Max(S)
        BY <3>1, MaxIsGreatest
      <3> QED BY <3>2
    <2>5. Registered(mode) \subseteq Int
      BY RegisteredBound
    <2>6. maxfd' \in Registered(mode') /\ \A y \in Registered(mode') : y <= maxfd'
      <3>1. maxfd' \in {f, maxfd} /\ f <= maxfd' /\ maxfd <= maxfd' /\ maxfd' \in Int
        BY <1>1, <2>1, <2>4
      <3>2. \A y \in Registered(mode') : y = f \/ (y \in Int /\ y <= maxfd)
        BY <1>2, <2>2, <2>5
      <3>3. \A y \in Registered(mode') : y <= maxfd'
        BY <3>1, <3>2, <2>1
      <3> QED BY <3>1, <3>3, <1>2, <2>2
    <2> QED BY <2>6, RegisteredMaxIs
  <1>4. TypeOK'
    <2>1. maxfd' \in Table \cup {-1}
      BY <1>3, RegisteredMax
    <2>2. mode' \in [Table -> SUBSET Modes] /\ interest' \in [Table -> SUBSET Modes]
      BY <1>1, <1>t DEF TypeOK
    <2>3. /\ rnetProc' \in [Table -> Procs \cup Leftover \cup {NULL}]
          /\ wnetProc' \in [Table -> Procs \cup Leftover \cup {NULL}]
      BY <1>1, <1>t DEF TypeOK
    <2> QED BY <1>1, <1>t, <2>1, <2>2, <2>3 DEF TypeOK
  <1>5. InterestMatchesTable'
    <2>1. /\ \A g \in Table : interest[g] = mode[g]
          /\ watched = {g \in Table : mode[g] # {}}
          /\ watched \subseteq open
      BY DEF NetInv, InterestMatchesTable
    <2>2. \A g \in Table : interest'[g] = mode'[g]
      BY <2>1, <1>1, <1>t DEF TypeOK
    <2>3. \A g \in Table : mode'[g] # {} <=> mode[g] # {} \/ g = f
      <3>1. \A g \in Table : mode'[g] = IF g = f THEN mode[g] \cup ms ELSE mode[g]
        BY <1>1, <1>t DEF TypeOK
      <3>2. ms # {}
        OBVIOUS
      <3> QED BY <3>1, <3>2
    <2>4. watched' = {g \in Table : mode'[g] # {}}
      BY <2>1, <2>3, <1>1
    <2> QED BY <2>1, <2>2, <2>4, <1>1, <1>t DEF InterestMatchesTable
  <1>6. Handlers'
    BY <1>1, <1>t DEF NetInv, Handlers, TypeOK
  <1>7. CallsRegistered'
    BY <1>1 DEF NetInv, CallsRegistered
  <1>8. OwedWaits'
    <2> SUFFICES ASSUME NEW g \in Table
                 PROVE  /\ <<g, "read">> \in owed' =>
                              "read" \in mode'[g] \cap rdy_events'[g]
                        /\ <<g, "write">> \in owed' =>
                              /\ "write" \in mode'[g] \cap rdy_events'[g]
                              /\ "read" \notin mode'[g] \cap rdy_events'[g]
                              /\ rnetProc'[g] # wnetProc'[g]
      BY DEF OwedWaits
    <2>1. CASE g # f
      BY <2>1, <1>1, <1>t DEF NetInv, OwedWaits, TypeOK
    <2>2. CASE g = f
      <3>1. <<g, "write">> \notin owed'
        BY <2>2, <1>1
      <3> QED BY <2>2, <3>1, <1>1, <1>t DEF NetInv, OwedWaits, TypeOK
    <2> QED BY <2>1, <2>2
  <1> QED
    BY <1>1, <1>3, <1>4, <1>5, <1>6, <1>7, <1>8 DEF NetInv

LEMMA NetDelete ==
    ASSUME NetInv, NEW f \in Table, NEW ms \in (SUBSET Modes) \ {{}},
           hub_delete_net_event(f, ms)
    PROVE  NetInv'
  <1> DEFINE left == mode[f] \ ms
  <1>t. TypeOK /\ f <= maxfd
    BY DEF NetInv, hub_delete_net_event
  <1>1. /\ mode' = [mode EXCEPT ![f] = left]
        /\ rnetProc' = [rnetProc EXCEPT ![f] = IF "read" \notin left THEN NULL ELSE @]
        /\ wnetProc' = [wnetProc EXCEPT ![f] = IF "write" \notin left THEN NULL ELSE @]
        /\ maxfd' = IF left = {} /\ f = maxfd THEN NextMaxfd(f) ELSE maxfd
        /\ watched' = IF left = {} THEN watched \ {f} ELSE watched
        /\ interest' = IF f \in watched THEN [interest EXCEPT ![f] = left]
                       ELSE interest
        /\ owed' = owed \ ({f} \X ms)
        /\ UNCHANGED <<rdy_events, open, pc, fd, proc>>
    BY DEF hub_delete_net_event, evt_event_del, Settle
  <1>2. left \in SUBSET Modes
    BY <1>t DEF TypeOK
  <1> HIDE DEF left
  <1>3. maxfd' = Max(Registered(mode'))
    <2>1. /\ maxfd \in Registered(mode)
          /\ \A y \in Registered(mode) : y <= maxfd
      BY RegisteredMax DEF NetInv
    <2>2. Registered(mode) \subseteq Int
      BY RegisteredBound
    <2>3. CASE left = {} /\ f = maxfd
      <3> DEFINE below == {-1} \cup {i \in Table : i < f /\ mode[i] # {}}
      <3>1. \A i \in Table : mode'[i] = IF i = f THEN {} ELSE mode[i]
        BY <1>1, <1>t, <2>3 DEF TypeOK
      <3>2. \A i \in Table : mode[i] # {} => i <= f
        BY <2>1, <2>3 DEF Registered
      <3>3. \A i \in Table : mode'[i] # {} <=> i < f /\ mode[i] # {}
        BY <3>1, <3>2, TableBound
      <3>4. below = Registered(mode')
        BY <3>3 DEF Registered
      <3> QED BY <1>1, <2>3, <3>4 DEF NextMaxfd
    <2>4. CASE ~(left = {} /\ f = maxfd)
      <3>1. \A i \in Table : mode'[i] # {} => mode[i] # {}
        BY <1>1, <1>t DEF TypeOK, left
      <3>2. \A y \in Registered(mode') : y <= maxfd
        BY <2>1, <3>1 DEF Registered
      <3>3. maxfd \in Registered(mode')
        BY <2>1, <2>4, <1>1, <1>t DEF Registered, TypeOK
      <3> QED BY <1>1, <2>4, <3>2, <3>3, RegisteredMaxIs
    <2> QED BY <2>3, <2>4
  <1>4. TypeOK'
    <2>1. maxfd' \in Table \cup {-1}
      BY <1>3, RegisteredMax
    <2>2. mode' \in [Table -> SUBSET Modes] /\ interest' \in [Table -> SUBSET Modes]
      BY <1>1, <1>2, <1>t DEF TypeOK
    <2>3. /\ rnetProc' \in [Table -> Procs \cup Leftover \cup {NULL}]
          /\ wnetProc' \in [Table -> Procs \cup Leftover \cup {NULL}]
      BY <1>1, <1>t DEF TypeOK
    <2> QED BY <1>1, <1>t, <2>1, <2>2, <2>3 DEF TypeOK
  <1>5. InterestMatchesTable'
    <2>1. f \in watched <=> mode[f] # {}
      BY DEF NetInv, InterestMatchesTable
    <2>2. CASE f \in watched
      BY <2>2, <1>1, <1>t DEF NetInv, InterestMatchesTable, TypeOK
    <2>3. CASE f \notin watched
      <3>1. mode[f] = {} /\ left = {}
        BY <2>1, <2>3 DEF left
      <3> QED
        BY <2>3, <3>1, <1>1, <1>t DEF NetInv, InterestMatchesTable, TypeOK
    <2> QED BY <2>2, <2>3
  <1>6. Handlers'
    BY <1>1, <1>t DEF NetInv, Handlers, TypeOK, left
  <1>7. CallsRegistered'
    BY <1>1 DEF NetInv, CallsRegistered
  <1>8. OwedWaits'
    <2> SUFFICES ASSUME NEW g \in Table
                 PROVE  /\ <<g, "read">> \in owed' =>
                              "read" \in mode'[g] \cap rdy_events'[g]
                        /\ <<g, "write">> \in owed' =>
                              /\ "write" \in mode'[g] \cap rdy_events'[g]
                              /\ "read" \notin mode'[g] \cap rdy_events'[g]
                              /\ rnetProc'[g] # wnetProc'[g]
      BY DEF OwedWaits
    <2>1. CASE g # f
      BY <2>1, <1>1, <1>t DEF NetInv, OwedWaits, TypeOK
    <2>2. CASE g = f
      <3>1. \A m \in ms : <<g, m>> \notin owed'
        BY <2>2, <1>1
      <3>2. mode'[g] = left /\ rdy_events' = rdy_events
        BY <2>2, <1>1, <1>t DEF TypeOK
      <3>3. ASSUME <<g, "read">> \in owed'
            PROVE  "read" \in mode'[g] \cap rdy_events'[g]
        BY <3>1, <3>2, <3>3, <1>1, <2>2 DEF NetInv, OwedWaits, left
      <3>4. ASSUME <<g, "write">> \in owed'
            PROVE  /\ "write" \in mode'[g] \cap rdy_events'[g]
                   /\ "read" \notin mode'[g] \cap rdy_events'[g]
                   /\ rnetProc'[g] # wnetProc'[g]
        <4>1. /\ "write" \in left /\ "write" \in rdy_events[g]
              /\ "read" \notin left \cap rdy_events[g]
              /\ rnetProc[g] # wnetProc[g] /\ wnetProc[g] \in Procs
          BY <3>1, <3>4, <1>1, <2>2 DEF NetInv, OwedWaits, Handlers, left
        <4>2. /\ rnetProc'[g] = IF "read" \notin left THEN NULL ELSE rnetProc[g]
              /\ wnetProc'[g] = wnetProc[g]
          BY <4>1, <2>2, <1>1, <1>t DEF TypeOK
        <4>3. NULL \notin Procs
          BY NetAssumption
        <4> QED BY <4>1, <4>2, <4>3, <3>2
      <3> QED BY <3>3, <3>4
    <2> QED BY <2>1, <2>2
  <1> QED
    BY <1>1, <1>3, <1>4, <1>5, <1>6, <1>7, <1>8 DEF NetInv

LEMMA NetLoop ==
    ASSUME NetInv, evt_multipexer_loop
    PROVE  NetInv'
  <1>1. PICK reported \in [Table -> SUBSET Modes] :
          /\ rdy_events' = reported
          /\ owed' = UNION {Served(f, reported[f]) : f \in Table}
    BY DEF evt_multipexer_loop
  <1>2. /\ pc' = "dispatch"
        /\ UNCHANGED <<mode, rnetProc, wnetProc, maxfd, open, watched, interest,
                       fd, proc>>
    BY DEF evt_multipexer_loop, table, kernel
  <1>3. \A f \in Table : Served(f, reported[f]) \subseteq {f} \X Modes
    BY DEF Served, Modes
  <1>4. owed' \subseteq Table \X Modes
    BY <1>1, <1>3
  <1>5. \A f \in Table, m \in Modes :
          <<f, m>> \in owed' => <<f, m>> \in Served(f, reported[f])
    BY <1>1, <1>3
  <1>6. TypeOK'
    BY <1>1, <1>2, <1>4 DEF NetInv, TypeOK
  <1>7. OwedWaits'
    <2>1. \A f \in Table :
            /\ <<f, "read">> \in owed' => "read" \in reported[f] \cap mode[f]
            /\ <<f, "write">> \in owed' => /\ "read" \notin reported[f] \cap mode[f]
                                           /\ "write" \in reported[f] \cap mode[f]
                                           /\ rnetProc[f] # wnetProc[f]
      BY <1>5 DEF Served, Modes
    <2> QED BY <2>1, <1>1, <1>2 DEF OwedWaits
  <1> QED
    BY <1>2, <1>6, <1>7 DEF NetInv, InterestMatchesTable, Handlers,
         CallsRegistered

LEMMA NetDispatch ==
    ASSUME NetInv, NEW f \in Table, CallReader(f) \/ CallWriter(f) \/ SkipEvent(f)
    PROVE  NetInv'
  <1>t. TypeOK /\ Handlers /\ OwedWaits
    BY DEF NetInv
  <1>1. /\ rdy_events' = [rdy_events EXCEPT ![f] = {}]
        /\ UNCHANGED <<mode, rnetProc, wnetProc, maxfd, open, watched, interest>>
        /\ pc = "dispatch"
    BY DEF CallReader, CallWriter, SkipEvent, Take, table, kernel
  <1>2. /\ pc' \in {"dispatch", "handler"}
        /\ pc' = "handler" => proc' \in Procs
        /\ fd' \in Table \cup {-1}
        /\ proc' \in Procs \cup Leftover \cup {NULL}
        /\ owed' \subseteq owed
        /\ <<f, "read">> \notin owed' /\ <<f, "write">> \notin owed'
    <2>1. CASE CallReader(f)
      <3>1. /\ <<f, "write">> \notin owed
            /\ proc' \in Procs /\ owed' = owed \ {<<f, "read">>}
            /\ pc' = "handler" /\ fd' = f
        BY <2>1, <1>t DEF CallReader, Handlers, OwedWaits
      <3> QED BY <3>1
    <2>2. CASE CallWriter(f)
      <3>1. /\ <<f, "read">> \notin owed
            /\ proc' \in Procs /\ owed' = owed \ {<<f, "write">>}
            /\ pc' = "handler" /\ fd' = f
        BY <2>2, <1>t DEF CallWriter, Handlers, OwedWaits
      <3> QED BY <3>1
    <2>3. CASE SkipEvent(f)
      <3>1. <<f, "read">> \notin owed /\ <<f, "write">> \notin owed
        BY <2>3, <1>t DEF SkipEvent, OwedWaits
      <3> QED BY <2>3, <3>1, <1>1, <1>t DEF SkipEvent, TypeOK
    <2> QED BY <2>1, <2>2, <2>3
  <1>3. TypeOK'
    BY <1>1, <1>2, <1>t DEF TypeOK
  <1>4. OwedWaits'
    <2> SUFFICES ASSUME NEW g \in Table
                 PROVE  /\ <<g, "read">> \in owed' =>
                              "read" \in mode'[g] \cap rdy_events'[g]
                        /\ <<g, "write">> \in owed' =>
                              /\ "write" \in mode'[g] \cap rdy_events'[g]
                              /\ "read" \notin mode'[g] \cap rdy_events'[g]
                              /\ rnetProc'[g] # wnetProc'[g]
      BY DEF OwedWaits
    <2>1. CASE g = f
      BY <2>1, <1>2
    <2>2. CASE g # f
      BY <2>2, <1>1, <1>2, <1>t DEF OwedWaits, TypeOK
    <2> QED BY <2>1, <2>2
  <1> QED
    BY <1>1, <1>2, <1>3, <1>4 DEF NetInv, InterestMatchesTable, Handlers,
         CallsRegistered

LEMMA NetNext ==
    ASSUME NetInv, [Next]_vars
    PROVE  NetInv'
  <1>1. CASE Client
    BY <1>1, NetOpenClose, NetCreate, NetDelete DEF Client
  <1>2. CASE \E f \in Table : CallReader(f) \/ CallWriter(f) \/ SkipEvent(f)
    BY <1>2, NetDispatch
  <1>3. CASE HandlerReturns \/ RoundEnds
    <2>1. CASE HandlerReturns
      BY <2>1 DEF HandlerReturns, table, kernel, NetInv, TypeOK,
           InterestMatchesTable, Handlers, CallsRegistered, OwedWaits
    <2>2. CASE RoundEnds
      BY <2>2 DEF RoundEnds, table, kernel, NetInv, TypeOK,
           InterestMatchesTable, Handlers, CallsRegistered, OwedWaits
    <2> QED BY <1>3, <2>1, <2>2
  <1>4. CASE UNCHANGED vars
    BY <1>4 DEF vars, table, kernel, NetInv, TypeOK, InterestMatchesTable,
         Handlers, CallsRegistered, OwedWaits
  <1> QED
    BY <1>1, <1>2, <1>3, <1>4, NetLoop DEF Next, Round

LEMMA NetInvariant == Spec => []NetInv
  BY NetInit, NetNext, PTL DEF Spec

-----------------------------------------------------------------------------

\* Type correctness of the hub's table and of the round.
THEOREM NetTypeCorrect == Spec => []TypeOK
  <1>1. NetInv => TypeOK
    BY DEF NetInv
  <1> QED BY <1>1, NetInvariant, PTL

\* epoll watches exactly the registered events of the registered descriptors.
THEOREM InterestMatchesTableHolds == Spec => []InterestMatchesTable
  <1>1. NetInv => InterestMatchesTable
    BY DEF NetInv
  <1> QED BY <1>1, NetInvariant, PTL

\* maxfd is the highest registered descriptor.
THEOREM MaxFdExactHolds == Spec => []MaxFdExact
  <1>1. NetInv => MaxFdExact
    BY DEF NetInv, MaxFdExact, Registered
  <1> QED BY <1>1, NetInvariant, PTL

\* Only handlers that are registered are called.
THEOREM CallsRegisteredHolds == Spec => []CallsRegistered
  <1>1. NetInv => CallsRegistered
    BY DEF NetInv
  <1> QED BY <1>1, NetInvariant, PTL

\* A round serves every reported event that someone still waits for.
THEOREM RoundServesReportedHolds == Spec => []RoundServesReported
  <1>1. NetInv => RoundServesReported
    <2> SUFFICES ASSUME NetInv, pc = "time", NEW e \in owed
                 PROVE  FALSE
      BY DEF RoundServesReported
    <2>1. PICK f \in Table, m \in Modes : e = <<f, m>>
      BY DEF NetInv, TypeOK
    <2>2. rdy_events[f] = {}
      BY DEF NetInv, Nothing
    <2> QED BY <2>1, <2>2 DEF NetInv, OwedWaits, Modes
  <1> QED BY <1>1, NetInvariant, PTL
=============================================================================
