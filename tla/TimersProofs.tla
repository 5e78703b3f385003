---------------------------- MODULE TimersProofs ----------------------------
(***************************************************************************)
(* Proofs about the hub's time events, for any number of timers, any       *)
(* delays and any length of a run: while handlers create and delete timers *)
(* the list stays whole, the walk loses its place in it only in the two    *)
(* cases its contract names, a pass ends only when all that was due has    *)
(* been served, and the loop does not sleep past the first deadline.       *)
(*                                                                         *)
(* That the list is whole is said of each timer and its neighbours, by     *)
(* their ids.  That the sequence a walk along it gives is the timers in    *)
(* the order of their ids is then a fact about one state: the timers have  *)
(* such an order Q, the pointers lead along Q, and ListFrom, the only      *)
(* solution of its equation, gives Q.                                      *)
(***************************************************************************)
EXTENDS Timers, FiniteSetTheorems, NaturalsInduction, WellFoundedInduction, TLAPS

-----------------------------------------------------------------------------
(* The clock *)

\* A time is so many seconds and so many milliseconds.
LEMMA DivMod ==
    ASSUME NEW n \in Nat
    PROVE  /\ n \div MS \in Nat /\ n % MS \in 0 .. (MS - 1)
           /\ n = MS * (n \div MS) + (n % MS)
  <1>1. MS \in Nat /\ MS > 0
    BY TimersAssumption
  <1> QED BY <1>1

\* A millisecond later it is a later millisecond of the same second, or the next second.
LEMMA TickDivMod ==
    ASSUME NEW n \in Nat
    PROVE  \/ (n + 1) \div MS = n \div MS /\ (n + 1) % MS = (n % MS) + 1
           \/ (n + 1) \div MS > n \div MS
  <1> DEFINE q == n \div MS
             r == n % MS
             q2 == (n + 1) \div MS
             r2 == (n + 1) % MS
  <1>1. /\ MS \in Nat /\ MS > 0 /\ q \in Nat /\ q2 \in Nat
        /\ r \in 0 .. (MS - 1) /\ r2 \in 0 .. (MS - 1)
        /\ n = MS * q + r /\ n + 1 = MS * q2 + r2
    BY DivMod, TimersAssumption
  <1> HIDE DEF q, r, q2, r2
  <1>2. MS * (q2 - q) = r + 1 - r2
    BY <1>1
  <1>3. r + 1 - r2 > -MS
    BY <1>1
  <1>4. q2 - q >= 0
    <2> SUFFICES ASSUME q2 - q <= -1 PROVE FALSE
      BY <1>1
    <2>1. MS * (q2 - q) <= MS * (-1)
      BY <1>1
    <2> QED BY <2>1, <1>1, <1>2, <1>3
  <1>5. q2 = q => r2 = r + 1
    BY <1>1, <1>2
  <1> QED BY <1>1, <1>4, <1>5 DEF q, r, q2, r2

\* No second before the first has passed.
LEMMA LateEnough ==
    ASSUME NEW n \in Nat, n >= MS
    PROVE  n \div MS > 0
  <1>1. /\ MS \in Nat /\ MS > 0
        /\ n \div MS \in Nat /\ n % MS \in 0 .. (MS - 1)
        /\ n = MS * (n \div MS) + (n % MS)
    BY DivMod, TimersAssumption
  <1>2. (n \div MS) = 0 => n < MS
    BY <1>1
  <1> QED BY <1>1, <1>2

-----------------------------------------------------------------------------
(* The invariant *)

Link == Timers \cup {NULL}

Fields == [id : Nat, seconds : Int, milliseconds : Int, next : Link, prev : Link]

Types ==
    /\ live \subseteq Timers
    /\ ev \in [Timers -> Fields]
    /\ time_event_head \in Link /\ time_event_tail \in Link
    /\ time_event_id \in Nat
    /\ now \in Nat /\ now >= MS
    /\ te \in Link
    /\ owed \subseteq Timers

Ids ==
    /\ \A t \in live : 1 <= ev[t].id /\ ev[t].id <= time_event_id
    /\ \A t, u \in live : ev[t].id = ev[u].id => t = u

\* next is the timer with the least id above, prev that with the greatest below.
NextIs ==
    \A t \in live :
        /\ ev[t].next = NULL => \A u \in live : ev[u].id <= ev[t].id
        /\ ev[t].next # NULL =>
              /\ ev[t].next \in live
              /\ ev[t].id < ev[ev[t].next].id
              /\ \A u \in live : ev[t].id < ev[u].id => ev[ev[t].next].id <= ev[u].id

PrevIs ==
    \A t \in live :
        /\ ev[t].prev = NULL => \A u \in live : ev[t].id <= ev[u].id
        /\ ev[t].prev # NULL =>
              /\ ev[t].prev \in live
              /\ ev[ev[t].prev].id < ev[t].id
              /\ \A u \in live : ev[u].id < ev[t].id => ev[u].id <= ev[ev[t].prev].id

HeadIs ==
    /\ time_event_head = NULL => live = {}
    /\ time_event_head # NULL =>
          /\ time_event_head \in live
          /\ \A u \in live : ev[time_event_head].id <= ev[u].id

TailIs ==
    /\ time_event_tail = NULL => live = {}
    /\ time_event_tail # NULL =>
          /\ time_event_tail \in live
          /\ \A u \in live : ev[u].id <= ev[time_event_tail].id

Ordered == Ids /\ NextIs /\ PrevIs /\ HeadIs /\ TailIs

\* What is owed is due, and the walk has not gone past it.
Pass ==
    /\ pc \in {"walk", "handler"} => \A u \in owed : u \in live /\ Due(u)
    /\ pc = "walk" => /\ te \in live \cup {NULL}
                      /\ te = NULL => owed = {}
                      /\ te # NULL => \A u \in owed : ev[te].id <= ev[u].id
    /\ pc \in {"stopped", "compute", "wait", "net"} => owed = {}

TInv == Types /\ Ordered /\ (Running => Pass)

-----------------------------------------------------------------------------
(* The list *)

\* The order depends on ids and pointers only.
LEMMA SameLinks ==
    ASSUME Types, Ordered, live' = live, UNCHANGED hubVars,
           \A e \in Timers : /\ ev'[e].id = ev[e].id
                             /\ ev'[e].next = ev[e].next
                             /\ ev'[e].prev = ev[e].prev
    PROVE  Ordered'
  <1>1. live \subseteq Timers /\ NULL \notin Timers
    BY TimersAssumption DEF Types
  <1>2. Ids'
    BY <1>1 DEF Ordered, Ids, hubVars
  <1>3. NextIs'
    BY <1>1 DEF Ordered, NextIs
  <1>4. PrevIs'
    BY <1>1 DEF Ordered, PrevIs
  <1>5. HeadIs'
    BY <1>1 DEF Ordered, HeadIs, hubVars
  <1>6. TailIs'
    BY <1>1 DEF Ordered, TailIs, hubVars
  <1> QED BY <1>2, <1>3, <1>4, <1>5, <1>6 DEF Ordered

\* What the fields are once t is appended.
LEMMA CreateFields ==
    ASSUME Types, Ordered, NEW t \in Timers, NEW delay \in Delays,
           CreateTimeEvent(t, delay)
    PROVE  /\ ev' \in [Timers -> Fields]
           /\ ev'[t].id = time_event_id + 1
           /\ ev'[t].next = NULL /\ ev'[t].prev = time_event_tail
           /\ \A e \in live :
                 /\ e # t
                 /\ ev'[e].id = ev[e].id
                 /\ ev'[e].seconds = ev[e].seconds
                 /\ ev'[e].milliseconds = ev[e].milliseconds
                 /\ ev'[e].prev = ev[e].prev
                 /\ ev'[e].next = IF e = time_event_tail THEN t ELSE ev[e].next
  <1> DEFINE fields == [id           |-> time_event_id + 1,
                        seconds      |-> Sec(now) + (delay \div MS),
                        milliseconds |-> Msec(now) + (delay % MS),
                        next         |-> NULL,
                        prev         |-> time_event_tail]
  <1>1. delay \in Nat
    BY TimersAssumption
  <1>2. fields \in Fields
    <2>1. Sec(now) \in Nat /\ Msec(now) \in Int
      BY DivMod DEF Types, Sec, Msec
    <2>2. delay \div MS \in Nat /\ delay % MS \in Int
      BY <1>1, DivMod
    <2> QED BY <2>1, <2>2 DEF Types, Fields, Link
  <1>3. fields.id = time_event_id + 1 /\ fields.next = NULL
        /\ fields.prev = time_event_tail
    OBVIOUS
  <1>4. t \notin live /\ live \subseteq Timers /\ ev \in [Timers -> Fields]
        /\ NULL \notin Timers
    BY TimersAssumption DEF CreateTimeEvent, Types
  <1>5. CASE time_event_tail = NULL
    <2>1. ev' = [ev EXCEPT ![t] = fields]
      BY <1>5 DEF CreateTimeEvent
    <2>2. live = {}
      BY <1>5 DEF Ordered, TailIs
    <2> HIDE DEF fields
    <2> QED BY <2>1, <2>2, <1>2, <1>3, <1>4
  <1>6. CASE time_event_tail # NULL
    <2>1. ev' = [ev EXCEPT ![t] = fields, ![time_event_tail].next = t]
      BY <1>6 DEF CreateTimeEvent
    <2>2. time_event_tail \in live /\ time_event_tail # t
      BY <1>6, <1>4 DEF Ordered, TailIs
    <2> HIDE DEF fields
    <2>3. /\ ev'[t] = fields
          /\ ev'[time_event_tail] = [ev[time_event_tail] EXCEPT !.next = t]
          /\ \A e \in Timers : e # t /\ e # time_event_tail => ev'[e] = ev[e]
      BY <2>1, <2>2, <1>4
    <2>4. ev' \in [Timers -> Fields]
      <3>1. [ev[time_event_tail] EXCEPT !.next = t] \in Fields
        BY <2>2, <1>4 DEF Fields, Link
      <3>2. \A e \in Timers : ev'[e] \in Fields
        BY <2>3, <3>1, <1>2, <1>4
      <3>3. ev' = [e \in Timers |-> ev'[e]]
        BY <2>1, <1>4
      <3> QED BY <3>2, <3>3
    <2>5. ASSUME NEW e \in live
          PROVE  /\ e # t
                 /\ ev'[e].id = ev[e].id
                 /\ ev'[e].seconds = ev[e].seconds
                 /\ ev'[e].milliseconds = ev[e].milliseconds
                 /\ ev'[e].prev = ev[e].prev
                 /\ ev'[e].next = IF e = time_event_tail THEN t ELSE ev[e].next
      <3>1. e # t /\ e \in Timers /\ ev[e] \in Fields
        BY <1>4
      <3>2. CASE e = time_event_tail
        BY <3>1, <3>2, <2>3 DEF Fields
      <3>3. CASE e # time_event_tail
        BY <3>1, <3>3, <2>3
      <3> QED BY <3>2, <3>3
    <2> QED BY <2>3, <2>4, <2>5, <1>3
  <1> QED BY <1>5, <1>6

\* A new timer has the greatest id and comes last.
LEMMA CreateOrdered ==
    ASSUME Types, Ordered, NEW t \in Timers, NEW delay \in Delays,
           CreateTimeEvent(t, delay)
    PROVE  Ordered'
  <1>1. /\ live' = live \cup {t} /\ t \notin live
        /\ time_event_id' = time_event_id + 1 /\ time_event_tail' = t
        /\ time_event_head' = IF time_event_tail = NULL THEN t ELSE time_event_head
    BY DEF CreateTimeEvent
  <1>2. /\ live \subseteq Timers /\ NULL \notin Timers /\ time_event_id \in Nat
        /\ \A e \in live : ev[e].id \in Nat
    BY TimersAssumption DEF Types, Fields
  <1>3. /\ ev'[t].id = time_event_id + 1
        /\ ev'[t].next = NULL /\ ev'[t].prev = time_event_tail
        /\ \A e \in live :
              /\ e # t
              /\ ev'[e].id = ev[e].id
              /\ ev'[e].prev = ev[e].prev
              /\ ev'[e].next = IF e = time_event_tail THEN t ELSE ev[e].next
    BY CreateFields
  <1>4. \A e \in live : 1 <= ev[e].id /\ ev[e].id <= time_event_id
    BY DEF Ordered, Ids
  <1>5. Ids'
    BY <1>1, <1>2, <1>3 DEF Ordered, Ids
  <1>6. NextIs'
    <2> SUFFICES ASSUME NEW e \in live'
                 PROVE  /\ ev'[e].next = NULL => \A u \in live' : ev'[u].id <= ev'[e].id
                        /\ ev'[e].next # NULL =>
                              /\ ev'[e].next \in live'
                              /\ ev'[e].id < ev'[ev'[e].next].id
                              /\ \A u \in live' : ev'[e].id < ev'[u].id
                                    => ev'[ev'[e].next].id <= ev'[u].id
      BY DEF NextIs
    <2>1. CASE e = t
      BY <2>1, <1>1, <1>2, <1>3, <1>4
    <2>2. CASE e # t /\ e = time_event_tail
      <3>1. e \in live /\ ev'[e].next = t
        BY <2>2, <1>1, <1>3
      <3>2. \A u \in live : ev[u].id <= ev[e].id
        BY <2>2, <3>1, <1>2 DEF Ordered, TailIs
      <3> QED BY <3>1, <3>2, <1>1, <1>2, <1>3, <1>4
    <2>3. CASE e # t /\ e # time_event_tail
      <3>1. e \in live /\ ev'[e].next = ev[e].next
        BY <2>3, <1>1, <1>3
      <3>2. ev[e].next # NULL
        <4>1. time_event_tail \in live /\ \A u \in live : ev[u].id <= ev[time_event_tail].id
          BY <3>1 DEF Ordered, TailIs
        <4>2. ev[e].next = NULL => ev[time_event_tail].id = ev[e].id
          BY <3>1, <4>1, <1>2 DEF Ordered, NextIs
        <4> QED BY <4>1, <4>2, <3>1, <2>3 DEF Ordered, Ids
      <3>3. /\ ev[e].next \in live
            /\ ev[e].id < ev[ev[e].next].id
            /\ \A u \in live : ev[e].id < ev[u].id => ev[ev[e].next].id <= ev[u].id
        BY <3>1, <3>2 DEF Ordered, NextIs
      <3> QED BY <3>1, <3>2, <3>3, <1>1, <1>2, <1>3, <1>4
    <2> QED BY <2>1, <2>2, <2>3
  <1>7. PrevIs'
    <2> SUFFICES ASSUME NEW e \in live'
                 PROVE  /\ ev'[e].prev = NULL => \A u \in live' : ev'[e].id <= ev'[u].id
                        /\ ev'[e].prev # NULL =>
                              /\ ev'[e].prev \in live'
                              /\ ev'[ev'[e].prev].id < ev'[e].id
                              /\ \A u \in live' : ev'[u].id < ev'[e].id
                                    => ev'[u].id <= ev'[ev'[e].prev].id
      BY DEF PrevIs
    <2>1. CASE e = t
      <3>1. ev'[e].prev = time_event_tail
        BY <2>1, <1>3
      <3>2. CASE time_event_tail = NULL
        <4>1. live' = {t}
          BY <3>2, <1>1 DEF Ordered, TailIs
        <4> QED BY <3>1, <3>2, <4>1, <2>1, <1>2, <1>3
      <3>3. CASE time_event_tail # NULL
        <4>1. time_event_tail \in live /\ \A u \in live : ev[u].id <= ev[time_event_tail].id
          BY <3>3 DEF Ordered, TailIs
        <4> QED BY <3>1, <3>3, <4>1, <2>1, <1>1, <1>2, <1>3, <1>4
      <3> QED BY <3>2, <3>3
    <2>2. CASE e # t
      <3>1. e \in live /\ ev'[e].prev = ev[e].prev
        BY <2>2, <1>1, <1>3
      <3>2. CASE ev[e].prev = NULL
        BY <3>1, <3>2, <1>1, <1>2, <1>3, <1>4 DEF Ordered, PrevIs
      <3>3. CASE ev[e].prev # NULL
        <4>1. /\ ev[e].prev \in live
              /\ ev[ev[e].prev].id < ev[e].id
              /\ \A u \in live : ev[u].id < ev[e].id => ev[u].id <= ev[ev[e].prev].id
          BY <3>1, <3>3 DEF Ordered, PrevIs
        <4> QED BY <3>1, <3>3, <4>1, <1>1, <1>2, <1>3, <1>4
      <3> QED BY <3>2, <3>3
    <2> QED BY <2>1, <2>2
  <1>8. HeadIs'
    <2>1. CASE time_event_tail = NULL
      <3>1. live' = {t}
        BY <2>1, <1>1 DEF Ordered, TailIs
      <3> QED BY <2>1, <3>1, <1>1, <1>2, <1>3 DEF HeadIs
    <2>2. CASE time_event_tail # NULL
      <3>1. time_event_head \in live
            /\ \A u \in live : ev[time_event_head].id <= ev[u].id
        BY <2>2 DEF Ordered, HeadIs, TailIs
      <3> QED BY <2>2, <3>1, <1>1, <1>2, <1>3, <1>4 DEF HeadIs
    <2> QED BY <2>1, <2>2
  <1>9. TailIs'
    BY <1>1, <1>2, <1>3, <1>4 DEF TailIs
  <1> QED BY <1>5, <1>6, <1>7, <1>8, <1>9 DEF Ordered

\* What the fields are once t is unlinked.
LEMMA DeleteFields ==
    ASSUME Types, NEW t \in live, Delete(t)
    PROVE  /\ ev' \in [Timers -> Fields]
           /\ \A e \in live \ {t} :
                 /\ ev'[e].id = ev[e].id
                 /\ ev'[e].seconds = ev[e].seconds
                 /\ ev'[e].milliseconds = ev[e].milliseconds
                 /\ ev'[e].prev = IF e = ev[t].next THEN ev[t].prev ELSE ev[e].prev
                 /\ ev'[e].next = IF e = ev[t].prev THEN ev[t].next ELSE ev[e].next
  <1> DEFINE n == ev[t].next
             p == ev[t].prev
             new(e) == [ev[e] EXCEPT !.prev = IF e = n THEN p ELSE @,
                                     !.next = IF e = p THEN n ELSE @]
  <1>1. ev' = [e \in Timers |-> IF e = t THEN Unallocated ELSE new(e)]
    BY DEF Delete, Unlink
  <1>2. t \in Timers /\ live \subseteq Timers /\ \A e \in Timers : ev[e] \in Fields
    BY DEF Types
  <1>3. n \in Link /\ p \in Link
    BY <1>2 DEF Fields
  <1>4. Unallocated \in Fields
    BY DEF Unallocated, Fields, Link
  <1>5. \A e \in Timers :
           /\ new(e) \in Fields
           /\ new(e).id = ev[e].id
           /\ new(e).seconds = ev[e].seconds
           /\ new(e).milliseconds = ev[e].milliseconds
           /\ new(e).prev = IF e = n THEN p ELSE ev[e].prev
           /\ new(e).next = IF e = p THEN n ELSE ev[e].next
    <2> HIDE DEF n, p
    <2> QED BY <1>2, <1>3 DEF Fields
  <1> HIDE DEF new
  <1>6. ev' \in [Timers -> Fields]
    BY <1>1, <1>4, <1>5
  <1>7. \A e \in live \ {t} : ev'[e] = new(e)
    BY <1>1, <1>2
  <1> QED BY <1>2, <1>5, <1>6, <1>7

\* The neighbours of a deleted timer become neighbours.
LEMMA DeleteOrdered ==
    ASSUME Types, Ordered, NEW t \in live, Delete(t)
    PROVE  Ordered'
  <1> DEFINE n == ev[t].next
             p == ev[t].prev
  <1>1. /\ live' = live \ {t} /\ time_event_id' = time_event_id
        /\ time_event_tail' = IF n = NULL THEN p ELSE time_event_tail
        /\ time_event_head' = IF p = NULL THEN n ELSE time_event_head
    BY DEF Delete, Unlink
  <1>2. /\ live \subseteq Timers /\ NULL \notin live /\ time_event_id \in Nat
        /\ \A e \in live : ev[e].id \in Nat
    BY TimersAssumption DEF Types, Fields
  <1>3. \A e \in live \ {t} :
              /\ ev'[e].id = ev[e].id
              /\ ev'[e].prev = IF e = n THEN p ELSE ev[e].prev
              /\ ev'[e].next = IF e = p THEN n ELSE ev[e].next
    BY DeleteFields
  <1>4. /\ n = NULL => \A u \in live : ev[u].id <= ev[t].id
        /\ n # NULL =>
              /\ n \in live
              /\ ev[t].id < ev[n].id
              /\ \A u \in live : ev[t].id < ev[u].id => ev[n].id <= ev[u].id
    BY DEF Ordered, NextIs
  <1>5. /\ p = NULL => \A u \in live : ev[t].id <= ev[u].id
        /\ p # NULL =>
              /\ p \in live
              /\ ev[p].id < ev[t].id
              /\ \A u \in live : ev[u].id < ev[t].id => ev[u].id <= ev[p].id
    BY DEF Ordered, PrevIs
  <1>6. \A u \in live \ {t} : ev[u].id < ev[t].id \/ ev[t].id < ev[u].id
    BY <1>2 DEF Ordered, Ids
  <1> HIDE DEF n, p
  <1>7. Ids'
    BY <1>1, <1>2, <1>3 DEF Ordered, Ids
  <1>8. NextIs'
    <2> SUFFICES ASSUME NEW e \in live \ {t}
                 PROVE  /\ ev'[e].next = NULL => \A u \in live \ {t} : ev'[u].id <= ev'[e].id
                        /\ ev'[e].next # NULL =>
                              /\ ev'[e].next \in live \ {t}
                              /\ ev'[e].id < ev'[ev'[e].next].id
                              /\ \A u \in live \ {t} : ev'[e].id < ev'[u].id
                                    => ev'[ev'[e].next].id <= ev'[u].id
      BY <1>1 DEF NextIs
    <2>0. /\ ev[e].next = NULL => \A u \in live : ev[u].id <= ev[e].id
          /\ ev[e].next # NULL =>
                /\ ev[e].next \in live
                /\ ev[e].id < ev[ev[e].next].id
                /\ \A u \in live : ev[e].id < ev[u].id => ev[ev[e].next].id <= ev[u].id
      BY DEF Ordered, NextIs
    <2>1. CASE e = p
      <3>1. ev'[e].next = n
        BY <2>1, <1>3
      <3>2. p # NULL /\ ev[e].id < ev[t].id
        BY <2>1, <1>2, <1>5
      <3>3. \A u \in live \ {t} : ev[e].id < ev[u].id => ev[t].id < ev[u].id
        BY <2>1, <3>2, <1>2, <1>5, <1>6
      <3>4. CASE n = NULL
        BY <3>1, <3>2, <3>3, <3>4, <1>2, <1>3, <1>4
      <3>5. CASE n # NULL
        <4>1. n \in live \ {t}
          BY <3>5, <1>4, <1>2
        <4> QED BY <3>1, <3>2, <3>3, <3>5, <4>1, <1>2, <1>3, <1>4
      <3> QED BY <3>4, <3>5
    <2>2. CASE e # p
      <3>1. ev'[e].next = ev[e].next
        BY <2>2, <1>3
      <3>2. ev[e].next # t
        <4> SUFFICES ASSUME ev[e].next = t PROVE FALSE
          OBVIOUS
        <4>1. ev[e].id < ev[t].id /\ \A u \in live : ev[e].id < ev[u].id => ev[t].id <= ev[u].id
          BY <2>0, <1>2
        <4>2. p \in live /\ ev[p].id < ev[t].id /\ ev[e].id <= ev[p].id
          BY <4>1, <1>2, <1>5
        <4>3. ev[e].id = ev[p].id
          BY <4>1, <4>2, <1>2
        <4> QED BY <4>2, <4>3, <2>2 DEF Ordered, Ids
      <3> QED BY <2>0, <3>1, <3>2, <1>2, <1>3
    <2> QED BY <2>1, <2>2
  <1>9. PrevIs'
    <2> SUFFICES ASSUME NEW e \in live \ {t}
                 PROVE  /\ ev'[e].prev = NULL => \A u \in live \ {t} : ev'[e].id <= ev'[u].id
                        /\ ev'[e].prev # NULL =>
                              /\ ev'[e].prev \in live \ {t}
                              /\ ev'[ev'[e].prev].id < ev'[e].id
                              /\ \A u \in live \ {t} : ev'[u].id < ev'[e].id
                                    => ev'[u].id <= ev'[ev'[e].prev].id
      BY <1>1 DEF PrevIs
    <2>0. /\ ev[e].prev = NULL => \A u \in live : ev[e].id <= ev[u].id
          /\ ev[e].prev # NULL =>
                /\ ev[e].prev \in live
                /\ ev[ev[e].prev].id < ev[e].id
                /\ \A u \in live : ev[u].id < ev[e].id => ev[u].id <= ev[ev[e].prev].id
      BY DEF Ordered, PrevIs
    <2>1. CASE e = n
      <3>1. ev'[e].prev = p
        BY <2>1, <1>3
      <3>2. n # NULL /\ ev[t].id < ev[e].id
        BY <2>1, <1>2, <1>4
      <3>3. \A u \in live \ {t} : ev[u].id < ev[e].id => ev[u].id < ev[t].id
        BY <2>1, <3>2, <1>2, <1>4, <1>6
      <3>4. CASE p = NULL
        BY <3>1, <3>2, <3>3, <3>4, <1>2, <1>3, <1>5
      <3>5. CASE p # NULL
        <4>1. p \in live \ {t}
          BY <3>5, <1>5, <1>2
        <4> QED BY <3>1, <3>2, <3>3, <3>5, <4>1, <1>2, <1>3, <1>5
      <3> QED BY <3>4, <3>5
    <2>2. CASE e # n
      <3>1. ev'[e].prev = ev[e].prev
        BY <2>2, <1>3
      <3>2. ev[e].prev # t
        <4> SUFFICES ASSUME ev[e].prev = t PROVE FALSE
          OBVIOUS
        <4>1. ev[t].id < ev[e].id /\ \A u \in live : ev[u].id < ev[e].id => ev[u].id <= ev[t].id
          BY <2>0, <1>2
        <4>2. n \in live /\ ev[t].id < ev[n].id /\ ev[n].id <= ev[e].id
          BY <4>1, <1>2, <1>4
        <4>3. ev[e].id = ev[n].id
          BY <4>1, <4>2, <1>2
        <4> QED BY <4>2, <4>3, <2>2 DEF Ordered, Ids
      <3> QED BY <2>0, <3>1, <3>2, <1>2, <1>3
    <2> QED BY <2>1, <2>2
  <1>10. HeadIs'
    <2>0. time_event_head \in live /\ \A u \in live : ev[time_event_head].id <= ev[u].id
      BY DEF Ordered, HeadIs
    <2>1. CASE p = NULL
      <3>1. time_event_head' = n
        BY <2>1, <1>1
      <3>2. \A u \in live \ {t} : ev[t].id < ev[u].id
        BY <2>1, <1>2, <1>5, <1>6
      <3>3. n = NULL => live \ {t} = {}
        BY <3>2, <1>2, <1>4
      <3>4. n # NULL => n \in live \ {t} /\ \A u \in live \ {t} : ev[n].id <= ev[u].id
        BY <3>2, <1>2, <1>4
      <3> QED BY <3>1, <3>3, <3>4, <1>1, <1>2, <1>3 DEF HeadIs
    <2>2. CASE p # NULL
      <3>1. time_event_head' = time_event_head /\ time_event_head # t
        BY <2>0, <2>2, <1>1, <1>2, <1>5
      <3> QED BY <3>1, <2>0, <1>1, <1>2, <1>3 DEF HeadIs
    <2> QED BY <2>1, <2>2
  <1>11. TailIs'
    <2>0. time_event_tail \in live /\ \A u \in live : ev[u].id <= ev[time_event_tail].id
      BY DEF Ordered, TailIs
    <2>1. CASE n = NULL
      <3>1. time_event_tail' = p
        BY <2>1, <1>1
      <3>2. \A u \in live \ {t} : ev[u].id < ev[t].id
        BY <2>1, <1>2, <1>4, <1>6
      <3>3. p = NULL => live \ {t} = {}
        BY <3>2, <1>2, <1>5
      <3>4. p # NULL => p \in live \ {t} /\ \A u \in live \ {t} : ev[u].id <= ev[p].id
        BY <3>2, <1>2, <1>5
      <3> QED BY <3>1, <3>3, <3>4, <1>1, <1>2, <1>3 DEF TailIs
    <2>2. CASE n # NULL
      <3>1. time_event_tail' = time_event_tail /\ time_event_tail # t
        BY <2>0, <2>2, <1>1, <1>2, <1>4
      <3> QED BY <3>1, <2>0, <1>1, <1>2, <1>3 DEF TailIs
    <2> QED BY <2>1, <2>2
  <1> QED BY <1>7, <1>8, <1>9, <1>10, <1>11 DEF Ordered

-----------------------------------------------------------------------------
(* The steps *)

\* The empty list is ordered.
LEMMA InitTInv == Init => TInv
  <1> SUFFICES ASSUME Init PROVE TInv
    OBVIOUS
  <1>1. Unallocated \in Fields
    BY DEF Unallocated, Fields, Link
  <1>2. Types
    BY <1>1, TimersAssumption DEF Init, Types, Link
  <1>3. Ordered
    BY DEF Init, Ordered, Ids, NextIs, PrevIs, HeadIs, TailIs
  <1>4. Pass
    BY DEF Init, Pass
  <1> QED BY <1>2, <1>3, <1>4 DEF TInv

\* What the steps that leave the list alone have in common.
LEMMA ListKept ==
    ASSUME TInv, UNCHANGED <<live, ev, hubVars>>
    PROVE  Ordered'
  BY SameLinks DEF TInv, hubVars

\* What is due stays due while the clock goes on.
LEMMA TickKeepsDue ==
    ASSUME Types, NEW t \in Timers, Due(t), now' = now + 1, ev' = ev
    PROVE  Due(t)'
  <1>1. /\ now \in Nat /\ ev[t].seconds \in Int /\ ev[t].milliseconds \in Int
    BY DEF Types, Fields
  <1>2. /\ Sec(now) \in Nat /\ Msec(now) \in Int
        /\ Sec(now + 1) \in Nat /\ Msec(now + 1) \in Int
    BY <1>1, DivMod DEF Sec, Msec
  <1>3. \/ Sec(now + 1) = Sec(now) /\ Msec(now + 1) = Msec(now) + 1
        \/ Sec(now + 1) > Sec(now)
    BY <1>1, TickDivMod DEF Sec, Msec
  <1>4. Due(t)' <=> \/ Sec(now + 1) > ev[t].seconds
                    \/ Sec(now + 1) = ev[t].seconds /\ Msec(now + 1) > ev[t].milliseconds
    BY DEF Due, Sec, Msec
  <1> HIDE DEF Sec, Msec
  <1> QED BY <1>1, <1>2, <1>3, <1>4 DEF Due

\* The clock makes nothing undue that was due.
LEMMA TickTInv ==
    ASSUME TInv, Tick
    PROVE  TInv'
  <1>1. /\ Types /\ Ordered /\ Pass /\ Running
        /\ UNCHANGED <<live, ev, hubVars, pc, te, owed>> /\ now' = now + 1
    BY DEF Tick, TInv
  <1>2. Types'
    BY <1>1, TimersAssumption DEF Types, hubVars
  <1>3. Ordered'
    BY <1>1, ListKept
  <1>4. \A u \in owed : Due(u) => Due(u)'
    BY <1>1, TickKeepsDue DEF Types
  <1>5. Pass'
    BY <1>1, <1>4 DEF Pass
  <1> QED BY <1>2, <1>3, <1>5 DEF TInv

\* A clock set back owes nothing.
LEMMA SetBackTInv ==
    ASSUME TInv, NEW time \in 0 .. MaxNow, SetBack(time)
    PROVE  TInv'
  <1>1. /\ Types /\ Ordered /\ Pass /\ Running
        /\ UNCHANGED <<live, ev, hubVars, pc, te>>
        /\ now' = time /\ MS <= time /\ owed' = {}
    BY DEF SetBack, TInv
  <1>2. time \in Nat
    BY TimersAssumption
  <1>3. Types'
    BY <1>1, <1>2 DEF Types, hubVars
  <1>4. Ordered'
    BY <1>1, ListKept
  <1>5. Pass'
    BY <1>1 DEF Pass
  <1> QED BY <1>3, <1>4, <1>5 DEF TInv

\* A handler that creates a timer, its own still running.
LEMMA CreateTInv ==
    ASSUME TInv, NEW t \in Timers, NEW delay \in Delays, CreateTimeEvent(t, delay)
    PROVE  TInv'
  <1>1. /\ Types /\ Ordered /\ Pass
        /\ pc \in {"stopped", "net", "handler"}
        /\ live' = live \cup {t} /\ t \notin live
        /\ time_event_id' = time_event_id + 1 /\ time_event_tail' = t
        /\ time_event_head' = IF time_event_tail = NULL THEN t ELSE time_event_head
        /\ UNCHANGED <<clockVars, pc, te, owed>>
    BY DEF CreateTimeEvent, ClientRuns, Running, TInv
  <1>2. Ordered'
    BY <1>1, CreateOrdered
  <1>3. /\ ev' \in [Timers -> Fields]
        /\ \A e \in live : /\ ev'[e].seconds = ev[e].seconds
                           /\ ev'[e].milliseconds = ev[e].milliseconds
    BY <1>1, CreateFields
  <1>4. Types'
    BY <1>1, <1>3 DEF Types, Link, clockVars
  <1>5. \A u \in live : Due(u) => Due(u)'
    BY <1>1, <1>3 DEF Due, clockVars
  <1>6. Pass'
    BY <1>1, <1>5 DEF Pass
  <1> QED BY <1>2, <1>4, <1>6 DEF TInv

\* What a deletion leaves as it was.
LEMMA DeleteTypes ==
    ASSUME Types, NEW t \in live, Delete(t), UNCHANGED clockVars, te' \in Link
    PROVE  /\ Types'
           /\ \A u \in live \ {t} : Due(u) => Due(u)'
  <1>1. /\ live' = live \ {t} /\ owed' = owed \ {t}
        /\ UNCHANGED <<time_event_id, clockVars>>
    BY DEF Delete
  <1>2. /\ ev' \in [Timers -> Fields]
        /\ \A e \in live \ {t} : /\ ev'[e].seconds = ev[e].seconds
                                 /\ ev'[e].milliseconds = ev[e].milliseconds
    BY DeleteFields
  <1>3. time_event_head' \in Link /\ time_event_tail' \in Link
    <2>1. ev[t].next \in Link /\ ev[t].prev \in Link
      BY DEF Types, Fields
    <2> QED BY <2>1 DEF Delete, Unlink, Types
  <1>4. Types'
    BY <1>1, <1>2, <1>3 DEF Types, clockVars
  <1>5. \A u \in live \ {t} : Due(u) => Due(u)'
    BY <1>1, <1>2 DEF Due, clockVars
  <1> QED BY <1>4, <1>5

\* A handler that deletes a timer, its own or another.
LEMMA DeleteTInv ==
    ASSUME TInv, NEW t \in Timers, DeleteTimeEvent(t)
    PROVE  TInv'
  <1>1. /\ Types /\ Ordered /\ Pass
        /\ pc \in {"stopped", "net", "handler"}
        /\ t \in live /\ Delete(t)
        /\ live' = live \ {t} /\ owed' = owed \ {t}
        /\ UNCHANGED <<clockVars, pc, te>>
    BY DEF DeleteTimeEvent, ClientRuns, Running, TInv, Delete
  <1>2. Ordered'
    BY <1>1, DeleteOrdered
  <1>3. Types' /\ \A u \in live \ {t} : Due(u) => Due(u)'
    <2>1. te' \in Link
      BY <1>1 DEF Types
    <2> QED BY <1>1, <2>1, DeleteTypes
  <1>4. Pass'
    BY <1>1, <1>3 DEF Pass
  <1> QED BY <1>2, <1>3, <1>4 DEF TInv

\* The wait changes the seconds of a timer at most.
LEMMA ComputeWaitTInv ==
    ASSUME TInv, ComputeWait
    PROVE  TInv'
  <1>1. /\ Types /\ Ordered /\ Pass
        /\ pc = "compute" /\ pc' = "wait"
        /\ UNCHANGED <<live, hubVars, clockVars, te, owed>>
    BY DEF ComputeWait, Running, TInv
  <1>2. /\ ev' \in [Timers -> Fields]
        /\ \A e \in Timers : /\ ev'[e].id = ev[e].id
                             /\ ev'[e].next = ev[e].next
                             /\ ev'[e].prev = ev[e].prev
    <2>1. ev \in [Timers -> Fields]
      BY <1>1 DEF Types
    <2>2. CASE time_event_head = NULL
      BY <2>1, <2>2 DEF ComputeWait
    <2>3. CASE time_event_head # NULL
      <3> DEFINE t    == search_nearest_time_event
                 secs == IF ev[t].milliseconds < Msec(now) THEN ev[t].seconds - 1
                                                           ELSE ev[t].seconds
      <3>1. ev' = [ev EXCEPT ![t].seconds = secs]
        BY <2>3 DEF ComputeWait
      <3>2. t \in Timers => secs \in Int
        <4> HIDE DEF t
        <4> QED BY <2>1 DEF Fields
      <3> HIDE DEF t, secs
      <3>3. CASE t \in Timers
        <4>1. [ev[t] EXCEPT !.seconds = secs] \in Fields
          BY <2>1, <3>2, <3>3 DEF Fields
        <4>2. ev' = [ev EXCEPT ![t] = [ev[t] EXCEPT !.seconds = secs]]
          BY <3>1
        <4>3. /\ [ev[t] EXCEPT !.seconds = secs].id = ev[t].id
              /\ [ev[t] EXCEPT !.seconds = secs].next = ev[t].next
              /\ [ev[t] EXCEPT !.seconds = secs].prev = ev[t].prev
          BY <2>1, <3>3 DEF Fields
        <4> QED BY <2>1, <3>3, <4>1, <4>2, <4>3
      <3>4. CASE t \notin Timers
        <4>1. ev' = ev
          BY <2>1, <3>1, <3>4
        <4> QED BY <2>1, <4>1
      <3> QED BY <3>3, <3>4
    <2> QED BY <2>2, <2>3
  <1>3. Types'
    BY <1>1, <1>2 DEF Types, hubVars, clockVars
  <1>4. Ordered'
    BY <1>1, <1>2, SameLinks
  <1>5. Pass'
    BY <1>1 DEF Pass
  <1> QED BY <1>3, <1>4, <1>5 DEF TInv

\* The walk starts at the head, with every timer that is due before it.
LEMMA StartPassTInv ==
    ASSUME TInv, StartPass
    PROVE  TInv'
  <1>1. /\ Types /\ Ordered /\ Pass
        /\ pc = "net" /\ pc' = "walk" /\ te' = time_event_head
        /\ UNCHANGED <<live, hubVars, clockVars>>
    BY DEF StartPass, Running, TInv
  <1>2. ev \in [Timers -> Fields] /\ live \subseteq Timers
    BY <1>1 DEF Types
  <1>3. /\ ev' \in [Timers -> Fields]
        /\ \A e \in Timers : /\ ev'[e].id = ev[e].id
                             /\ ev'[e].next = ev[e].next
                             /\ ev'[e].prev = ev[e].prev
        /\ owed' \subseteq live
        /\ \A u \in owed' : Due(u)'
    <2>1. CASE Sec(now) < last_time
      <3>1. /\ ev' = [t \in Timers |-> IF t \in live
                        THEN [ev[t] EXCEPT !.seconds = 0] ELSE ev[t]]
            /\ owed' = live
        BY <2>1 DEF StartPass
      <3>2. \A e \in Timers : /\ [ev[e] EXCEPT !.seconds = 0] \in Fields
                              /\ [ev[e] EXCEPT !.seconds = 0].id = ev[e].id
                              /\ [ev[e] EXCEPT !.seconds = 0].next = ev[e].next
                              /\ [ev[e] EXCEPT !.seconds = 0].prev = ev[e].prev
                              /\ [ev[e] EXCEPT !.seconds = 0].seconds = 0
        BY <1>2 DEF Fields
      <3>3. Sec(now) > 0
        BY <1>1, LateEnough DEF Types, Sec
      <3>4. \A u \in live : Due(u)'
        <4> SUFFICES ASSUME NEW u \in live PROVE Due(u)'
          OBVIOUS
        <4>1. ev'[u].seconds = 0
          BY <1>2, <3>1, <3>2
        <4>2. Sec(now)' > 0
          BY <1>1, <3>3 DEF Sec, clockVars
        <4> QED BY <4>1, <4>2 DEF Due
      <3>5. ev' \in [Timers -> Fields]
        BY <1>2, <3>1, <3>2
      <3> QED BY <1>2, <3>1, <3>2, <3>4, <3>5
    <2>2. CASE ~(Sec(now) < last_time)
      <3>1. ev' = ev /\ owed' = {t \in live : Due(t)}
        BY <2>2 DEF StartPass
      <3>2. \A u \in owed' : Due(u)'
        BY <1>1, <3>1 DEF Due, clockVars
      <3> QED BY <1>2, <3>1, <3>2
    <2> QED BY <2>1, <2>2
  <1>4. Types'
    BY <1>1, <1>3 DEF Types, hubVars, clockVars
  <1>5. Ordered'
    BY <1>1, <1>3, SameLinks
  <1>6. Pass'
    BY <1>1, <1>3, <1>5 DEF Pass, Ordered, HeadIs, hubVars
  <1> QED BY <1>4, <1>5, <1>6 DEF TInv

\* The walk goes over a timer made in this pass, and is lost.
LEMMA WalkNewTInv ==
    ASSUME TInv, WalkNew
    PROVE  TInv'
  <1>1. /\ Types /\ Ordered /\ Pass /\ pc = "walk" /\ te # NULL
        /\ pc' = "derailed" /\ te' = ev[te].next /\ UNCHANGED clockVars
    BY DEF WalkNew, Running, TInv
  <1>2. te \in live
    BY <1>1 DEF Pass
  <1>3. te' \in Link
    BY <1>1, <1>2 DEF Types, Fields
  <1>4. Types' /\ Ordered'
    <2>1. CASE ev[te].next = NULL
      <3>1. UNCHANGED <<live, ev, hubVars, owed>>
        BY <2>1 DEF WalkNew
      <3>2. Types'
        BY <1>1, <1>3, <3>1 DEF Types, hubVars, clockVars
      <3> QED BY <3>1, <3>2, ListKept
    <2>2. CASE ev[te].next # NULL
      <3>1. ev[te].next \in live
        BY <1>1, <1>2, <2>2 DEF Ordered, NextIs
      <3>2. Delete(ev[te].next)
        BY <2>2 DEF WalkNew
      <3> QED BY <1>1, <1>3, <3>1, <3>2, DeleteTypes, DeleteOrdered
    <2> QED BY <2>1, <2>2
  <1> QED BY <1>1, <1>4 DEF TInv, Running

\* A timer that is not due is passed, and was not owed.
LEMMA WalkOnTInv ==
    ASSUME TInv, WalkOn
    PROVE  TInv'
  <1>1. /\ Types /\ Ordered /\ Pass /\ pc = "walk" /\ te # NULL /\ ~Due(te)
        /\ te' = ev[te].next
        /\ UNCHANGED <<live, ev, hubVars, clockVars, pc, owed>>
    BY DEF WalkOn, Running, TInv
  <1>2. /\ te \in live /\ NULL \notin live
        /\ \A e \in live : ev[e].id \in Nat
    BY <1>1, TimersAssumption DEF Pass, Types, Fields
  <1>3. \A u \in owed : u \in live /\ Due(u) /\ ev[te].id < ev[u].id
    <2> SUFFICES ASSUME NEW u \in owed PROVE u \in live /\ Due(u) /\ ev[te].id < ev[u].id
      OBVIOUS
    <2>1. u \in live /\ Due(u) /\ ev[te].id <= ev[u].id
      BY <1>1 DEF Pass
    <2>2. ev[te].id # ev[u].id
      BY <1>1, <1>2, <2>1 DEF Ordered, Ids
    <2> QED BY <1>2, <2>1, <2>2
  <1>4. /\ te' \in live \cup {NULL}
        /\ te' = NULL => owed = {}
        /\ te' # NULL => \A u \in owed : ev[te'].id <= ev[u].id
    BY <1>1, <1>2, <1>3 DEF Ordered, NextIs
  <1>5. Types'
    BY <1>1, <1>4 DEF Types, Link, hubVars, clockVars
  <1>6. Ordered'
    BY <1>1, ListKept
  <1>7. \A u \in owed : Due(u) => Due(u)'
    BY <1>1 DEF Due, clockVars
  <1>8. Pass'
    BY <1>1, <1>3, <1>4, <1>7 DEF Pass
  <1> QED BY <1>5, <1>6, <1>8 DEF TInv

\* A recurring timer is no longer owed; the walk starts again.
LEMMA HandlerRecursTInv ==
    ASSUME TInv, HandlerRecurs
    PROVE  TInv'
  <1> DEFINE s == Sec(now + PERM)
             m == Msec(now + PERM)
  <1>1. /\ Types /\ Ordered /\ Pass /\ pc = "handler" /\ pc' = "walk"
        /\ te \in live /\ te' = time_event_head /\ owed' = owed \ {te}
        /\ ev' = [ev EXCEPT ![te].seconds = s, ![te].milliseconds = m]
        /\ UNCHANGED <<live, hubVars, clockVars>>
    BY DEF HandlerRecurs, Running, TInv
  <1>2. s \in Int /\ m \in Int
    <2>1. now + PERM \in Nat
      BY <1>1, TimersAssumption DEF Types
    <2> QED BY <2>1, DivMod DEF Sec, Msec
  <1>3. ev \in [Timers -> Fields] /\ live \subseteq Timers
    BY <1>1 DEF Types
  <1> HIDE DEF s, m
  <1>4. /\ ev' \in [Timers -> Fields]
        /\ \A e \in Timers : /\ ev'[e].id = ev[e].id
                             /\ ev'[e].next = ev[e].next
                             /\ ev'[e].prev = ev[e].prev
                             /\ e # te => ev'[e] = ev[e]
    <2> DEFINE f == [ev[te] EXCEPT !.seconds = s, !.milliseconds = m]
    <2>1. /\ f \in Fields /\ f.id = ev[te].id /\ f.next = ev[te].next
          /\ f.prev = ev[te].prev
      BY <1>1, <1>2, <1>3 DEF Fields
    <2>2. ev' = [ev EXCEPT ![te] = f]
      BY <1>1, <1>3
    <2> HIDE DEF f
    <2> QED BY <1>1, <1>3, <2>1, <2>2
  <1>5. Types'
    BY <1>1, <1>4 DEF Types, hubVars, clockVars
  <1>6. Ordered'
    BY <1>1, <1>4, SameLinks
  <1>7. \A u \in owed \ {te} : u \in live /\ Due(u)'
    BY <1>1, <1>3, <1>4 DEF Pass, Due, clockVars
  <1>8. Pass'
    BY <1>1, <1>6, <1>7 DEF Pass, Ordered, HeadIs, hubVars
  <1> QED BY <1>5, <1>6, <1>8 DEF TInv

\* A timer that has run is deleted; the walk starts again.
LEMMA HandlerReturnsTInv ==
    ASSUME TInv, HandlerReturns
    PROVE  TInv'
  <1>1. /\ Types /\ Ordered /\ Pass /\ pc = "handler" /\ pc' = "walk"
        /\ te \in live /\ Delete(te) /\ te' = time_event_head'
        /\ live' = live \ {te} /\ owed' = owed \ {te}
        /\ UNCHANGED clockVars
    BY DEF HandlerReturns, Running, TInv, Delete
  <1>2. Ordered'
    BY <1>1, DeleteOrdered
  <1>3. te' \in Link
    <2>1. ev[te].next \in Link /\ time_event_head \in Link
      BY <1>1 DEF Types, Fields
    <2> QED BY <1>1, <2>1 DEF Delete, Unlink
  <1>4. Types' /\ \A u \in live \ {te} : Due(u) => Due(u)'
    BY <1>1, <1>3, DeleteTypes
  <1>5. Pass'
    BY <1>1, <1>2, <1>4 DEF Pass, Ordered, HeadIs
  <1> QED BY <1>2, <1>4, <1>5 DEF TInv

\* The steps that only move the program counter, or leave the walk.
LEMMA QuietTInv ==
    ASSUME TInv, Stop \/ HubMain \/ Wake \/ WalkDue \/ WalkEnds \/ HandlerFreed \/ Leave
    PROVE  TInv'
  <1>1. /\ Types /\ Ordered /\ Pass
        /\ UNCHANGED <<live, ev, hubVars, clockVars, te, owed>>
    BY DEF Stop, ClientRuns, HubMain, Wake, WalkDue, WalkEnds, HandlerFreed, Leave,
           Running, TInv
  <1>2. Types'
    BY <1>1 DEF Types, hubVars, clockVars
  <1>3. Ordered'
    BY <1>1, SameLinks DEF Types
  <1>4. \A u \in owed : Due(u) => Due(u)'
    BY <1>1 DEF Due, clockVars
  <1>5. Running' => Pass'
    BY <1>1, <1>4 DEF Stop, HubMain, Wake, WalkDue, WalkEnds, HandlerFreed, Leave, Pass,
                      Running
  <1> QED BY <1>2, <1>3, <1>5 DEF TInv

\* Every step keeps the order and the promises of the pass.
LEMMA StepTInv == TInv /\ [Next]_vars => TInv'
  <1> SUFFICES ASSUME TInv, [Next]_vars PROVE TInv'
    OBVIOUS
  <1>1. CASE UNCHANGED vars
    <2>1. UNCHANGED <<live, ev, hubVars, clockVars, pc, te, owed>>
      BY <1>1 DEF vars
    <2>2. Types'
      BY <2>1 DEF TInv, Types, hubVars, clockVars
    <2>3. Ordered'
      BY <2>1, ListKept
    <2>4. Running => Pass'
      BY <2>1 DEF TInv, Pass, Due, clockVars
    <2> QED BY <2>1, <2>2, <2>3, <2>4 DEF TInv, Running
  <1>2. CASE Client
    BY <1>2, CreateTInv, DeleteTInv, QuietTInv DEF Client
  <1>3. CASE Loop
    BY <1>3, QuietTInv, ComputeWaitTInv, StartPassTInv, WalkNewTInv, WalkOnTInv,
       HandlerRecursTInv, HandlerReturnsTInv DEF Loop
  <1>4. CASE Tick
    BY <1>4, TickTInv
  <1>5. CASE \E time \in 0 .. MaxNow : SetBack(time)
    BY <1>5, SetBackTInv
  <1> QED BY <1>1, <1>2, <1>3, <1>4, <1>5 DEF Next

\* So they hold in every state.
LEMMA TInvHolds == Spec => []TInv
  BY InitTInv, StepTInv, PTL DEF Spec

\* There are finitely many addresses.
LEMMA FiniteTimers == IsFiniteSet(Timers)
  BY TimersAssumption

-----------------------------------------------------------------------------
(* Greatest members *)

\* The order of the natural numbers is well founded.
Less == {ss \in Nat \X Nat : ss[1] < ss[2]}

\* No infinite descent.
LEMMA LessIsWellFounded == IsWellFoundedOn(Less, Nat)
  BY NatLessThanWellFounded DEF Less, OpToRel

\* A set of natural numbers has a least member.
LEMMA LeastNatural ==
    ASSUME NEW S \in SUBSET Nat, S # {}
    PROVE  \E x \in S : \A y \in S : x <= y
  <1>1. \E x \in S : \A y \in S : ~(<<y, x>> \in Less)
    BY LessIsWellFounded, WFMin
  <1>2. \A x, y \in Nat : ~(<<y, x>> \in Less) => x <= y
    BY DEF Less
  <1> QED BY <1>1, <1>2

\* A set of integers that has a bound has a greatest member, which is its Max.
LEMMA MaxIsGreatest ==
    ASSUME NEW S \in SUBSET Int, S # {}, NEW b \in Int, \A x \in S : x <= b
    PROVE  Max(S) \in S /\ \A x \in S : x <= Max(S)
  <1> DEFINE D == {n \in Nat : \E x \in S : n = b - x}
  <1>0. \A x \in S : b - x \in D
    OBVIOUS
  <1>1. D \in SUBSET Nat /\ D # {}
    BY <1>0
  <1>2. PICK d \in D : \A e \in D : d <= e
    BY <1>1, LeastNatural
  <1>3. PICK m \in S : d = b - m
    OBVIOUS
  <1>4. \A x \in S : m >= x
    <2> TAKE x \in S
    <2>1. b - x \in D
      BY <1>0
    <2>2. b - m <= b - x
      BY <2>1, <1>2, <1>3
    <2> QED BY <2>2
  <1>5. \A y \in S : Max(S) >= y /\ Max(S) \in S
    BY <1>4 DEF Max
  <1> QED BY <1>4, <1>5 DEF Max

\* Of some elements with bounded numbers one has the greatest.
LEMMA GreatestOf ==
    ASSUME NEW L, L # {}, NEW f, NEW b \in Int, \A x \in L : f[x] \in Int /\ f[x] <= b
    PROVE  \E m \in L : \A x \in L : f[x] <= f[m]
  <1> DEFINE S == {f[x] : x \in L}
  <1>1. S \in SUBSET Int /\ S # {} /\ \A x \in S : x <= b
    OBVIOUS
  <1>2. \A x \in L : f[x] \in S
    OBVIOUS
  <1>3. \A y \in S : \E m \in L : y = f[m]
    OBVIOUS
  <1> HIDE DEF S
  <1>4. Max(S) \in S /\ \A x \in S : x <= Max(S)
    BY <1>1, MaxIsGreatest
  <1> QED BY <1>2, <1>3, <1>4

-----------------------------------------------------------------------------
(* The list as a sequence *)

\* Q has the elements of S in the order of their numbers.
Sorted(Q, S, f) ==
    /\ \A i, j \in 1 .. Len(Q) : i < j => f[Q[i]] < f[Q[j]]
    /\ \A x \in S : \E i \in 1 .. Len(Q) : Q[i] = x

\* A greatest element goes to the end of the sequence of the others.
LEMMA SortedAppend ==
    ASSUME NEW L, NEW m \in L, NEW f, \A x \in L : f[x] \in Int,
           \A x \in L \ {m} : f[x] < f[m],
           NEW Q \in Seq(L \ {m}), Sorted(Q, L \ {m}, f)
    PROVE  Append(Q, m) \in Seq(L) /\ Sorted(Append(Q, m), L, f)
  <1>1. Q \in Seq(L) /\ Len(Q) \in Nat
    OBVIOUS
  <1>2. Append(Q, m) \in Seq(L) /\ Len(Append(Q, m)) = Len(Q) + 1
    BY <1>1
  <1>3. /\ \A i \in 1 .. Len(Q) : Append(Q, m)[i] = Q[i] /\ Q[i] \in L \ {m}
        /\ Append(Q, m)[Len(Q) + 1] = m
    BY <1>1
  <1>4. ASSUME NEW i \in 1 .. (Len(Q) + 1), NEW j \in 1 .. (Len(Q) + 1), i < j
        PROVE  f[Append(Q, m)[i]] < f[Append(Q, m)[j]]
    <2>1. i \in 1 .. Len(Q)
      BY <1>1, <1>4
    <2>2. CASE j = Len(Q) + 1
      BY <1>3, <2>1, <2>2
    <2>3. CASE j # Len(Q) + 1
      <3>1. j \in 1 .. Len(Q)
        BY <1>1, <2>3
      <3> QED BY <1>3, <1>4, <2>1, <3>1 DEF Sorted
    <2> QED BY <2>2, <2>3
  <1>5. ASSUME NEW x \in L PROVE \E i \in 1 .. (Len(Q) + 1) : Append(Q, m)[i] = x
    <2>1. CASE x = m
      <3>1. Len(Q) + 1 \in 1 .. (Len(Q) + 1)
        BY <1>1
      <3> QED BY <1>3, <2>1, <3>1
    <2>2. CASE x # m
      <3>1. PICK i \in 1 .. Len(Q) : Q[i] = x
        BY <2>2 DEF Sorted
      <3>2. i \in 1 .. (Len(Q) + 1)
        BY <1>1
      <3> QED BY <1>3, <3>1, <3>2
    <2> QED BY <2>1, <2>2
  <1> QED BY <1>2, <1>4, <1>5 DEF Sorted

\* A finite set has such a sequence: of the subsets without one, a smallest would be
\* the one of a smaller set with its greatest element appended.
LEMMA SortedExists ==
    ASSUME NEW S, IsFiniteSet(S), NEW f, NEW b \in Int,
           \A x \in S : f[x] \in Int /\ f[x] <= b,
           \A x, y \in S : f[x] = f[y] => x = y
    PROVE  \E Q \in Seq(S) : Sorted(Q, S, f)
  <1> DEFINE Bad == {X \in SUBSET S : ~(\E Q \in Seq(X) : Sorted(Q, X, f))}
  <1> SUFFICES ASSUME S \in Bad PROVE FALSE
    OBVIOUS
  <1>1. Bad \subseteq FiniteSubsetsOf(S) /\ Bad # {}
    <2>1. \A X \in SUBSET S : IsFiniteSet(X)
      BY FS_Subset
    <2> QED BY <2>1 DEF FiniteSubsetsOf
  <1>2. IsWellFoundedOn(StrictSubsetOrdering(S), FiniteSubsetsOf(S))
    BY FS_StrictSubsetOrderingWellFounded
  <1>3. PICK L \in Bad : \A X \in Bad : ~(<<X, L>> \in StrictSubsetOrdering(S))
    <2> HIDE DEF Bad
    <2> QED BY <1>1, <1>2, WFMin
  <1>4. L \subseteq S /\ ~(\E Q \in Seq(L) : Sorted(Q, L, f))
    OBVIOUS
  <1>5. L # {}
    <2> SUFFICES ASSUME L = {} PROVE FALSE
      OBVIOUS
    <2>1. <<>> \in Seq(L) /\ Sorted(<<>>, L, f)
      BY DEF Sorted
    <2> QED BY <1>4, <2>1
  <1>6. PICK m \in L : \A x \in L : f[x] <= f[m]
    BY <1>4, <1>5, GreatestOf
  <1>7. L \ {m} \notin Bad
    <2>1. <<L \ {m}, L>> \in StrictSubsetOrdering(S)
      BY <1>4 DEF StrictSubsetOrdering
    <2> HIDE DEF Bad
    <2> QED BY <1>3, <2>1
  <1>8. PICK Q \in Seq(L \ {m}) : Sorted(Q, L \ {m}, f)
    BY <1>4, <1>7
  <1>9. \A x \in L : f[x] \in Int /\ (x # m => f[x] < f[m])
    BY <1>4, <1>6
  <1>10. Append(Q, m) \in Seq(L) /\ Sorted(Append(Q, m), L, f)
    BY <1>8, <1>9, SortedAppend
  <1> QED BY <1>4, <1>10

\* Q is the list of the timers that exist, by their ids.
Spells(Q) ==
    /\ Q \in Seq(live)
    /\ \A i, j \in 1 .. Len(Q) : i < j => ev[Q[i]].id < ev[Q[j]].id
    /\ \A t \in live : \E i \in 1 .. Len(Q) : Q[i] = t

\* Whatever the pointers, the timers have an order by their ids.
LEMMA SpellsExists ==
    ASSUME Types, Ordered
    PROVE  \E Q : Spells(Q)
  <1> DEFINE f == [t \in Timers |-> ev[t].id]
  <1>1. live \subseteq Timers /\ IsFiniteSet(live) /\ time_event_id \in Int
    BY FiniteTimers, FS_Subset DEF Types
  <1>2. \A t \in live : ev[t].id \in Int /\ ev[t].id <= time_event_id
    BY <1>1 DEF Types, Fields, Ordered, Ids
  <1>3. \A t \in live : f[t] = ev[t].id
    BY <1>1
  <1> HIDE DEF f
  <1>4. PICK Q \in Seq(live) : Sorted(Q, live, f)
    <2>1. \A t \in live : f[t] \in Int /\ f[t] <= time_event_id
      BY <1>2, <1>3
    <2>2. \A t, u \in live : f[t] = f[u] => t = u
      BY <1>3 DEF Ordered, Ids
    <2> QED BY <1>1, <2>1, <2>2, SortedExists
  <1>5. \A i \in 1 .. Len(Q) : Q[i] \in live
    OBVIOUS
  <1> QED BY <1>3, <1>4, <1>5 DEF Spells, Sorted

\* In that order no timer comes twice, and places compare as ids do.
LEMMA SpellsFacts ==
    ASSUME Types, Ordered, NEW Q, Spells(Q)
    PROVE  /\ Len(Q) \in Nat /\ Q \in Seq(live)
           /\ \A i \in 1 .. Len(Q) : Q[i] \in live
           /\ \A i, j \in 1 .. Len(Q) : ev[Q[i]].id < ev[Q[j]].id => i < j
           /\ \A i, j \in 1 .. Len(Q) : ev[Q[i]].id <= ev[Q[j]].id => i <= j
           /\ \A i, j \in 1 .. Len(Q) : Q[i] = Q[j] => i = j
  <1>1. Len(Q) \in Nat /\ Q \in Seq(live) /\ \A i \in 1 .. Len(Q) : Q[i] \in live
    BY DEF Spells
  <1>2. \A i \in 1 .. Len(Q) : ev[Q[i]].id \in Int
    BY <1>1 DEF Types, Fields
  <1>3. \A i, j \in 1 .. Len(Q) : i < j => ev[Q[i]].id < ev[Q[j]].id
    BY DEF Spells
  <1>4. \A i, j \in 1 .. Len(Q) : i < j \/ i = j \/ j < i
    BY <1>1
  <1>5. \A i, j \in 1 .. Len(Q) : ev[Q[i]].id <= ev[Q[j]].id => i <= j
    BY <1>1, <1>2, <1>3
  <1>6. \A i, j \in 1 .. Len(Q) : ev[Q[i]].id < ev[Q[j]].id => i < j
    BY <1>1, <1>2, <1>3
  <1>7. \A i, j \in 1 .. Len(Q) : Q[i] = Q[j] => i = j
    BY <1>1, <1>2, <1>3
  <1> QED BY <1>1, <1>5, <1>6, <1>7

\* The pointers lead along that order: the neighbours by id are the neighbours in Q.
LEMMA SpellsLinks ==
    ASSUME Types, Ordered, NEW Q, Spells(Q)
    PROVE  /\ time_event_head = IF Len(Q) = 0 THEN NULL ELSE Q[1]
           /\ time_event_tail = IF Len(Q) = 0 THEN NULL ELSE Q[Len(Q)]
           /\ \A i \in 1 .. Len(Q) :
                 /\ ev[Q[i]].next = IF i = Len(Q) THEN NULL ELSE Q[i + 1]
                 /\ ev[Q[i]].prev = IF i = 1 THEN NULL ELSE Q[i - 1]
  <1>1. /\ Len(Q) \in Nat /\ Q \in Seq(live)
        /\ \A i \in 1 .. Len(Q) : Q[i] \in live
        /\ \A i, j \in 1 .. Len(Q) : ev[Q[i]].id < ev[Q[j]].id => i < j
        /\ \A i, j \in 1 .. Len(Q) : ev[Q[i]].id <= ev[Q[j]].id => i <= j
    BY SpellsFacts
  <1>2. /\ \A i, j \in 1 .. Len(Q) : i < j => ev[Q[i]].id < ev[Q[j]].id
        /\ \A t \in live : \E i \in 1 .. Len(Q) : Q[i] = t
    BY DEF Spells
  <1>3. \A t \in live : ev[t].id \in Int
    BY DEF Types, Fields
  <1>4. NULL \notin live
    BY TimersAssumption DEF Types
  <1>5. ASSUME NEW i \in 1 .. Len(Q)
        PROVE  ev[Q[i]].next = IF i = Len(Q) THEN NULL ELSE Q[i + 1]
    <2>1. /\ ev[Q[i]].next = NULL => \A u \in live : ev[u].id <= ev[Q[i]].id
          /\ ev[Q[i]].next # NULL =>
              /\ ev[Q[i]].next \in live
              /\ ev[Q[i]].id < ev[ev[Q[i]].next].id
              /\ \A u \in live : ev[Q[i]].id < ev[u].id => ev[ev[Q[i]].next].id <= ev[u].id
      BY <1>1 DEF Ordered, NextIs
    <2>2. CASE ev[Q[i]].next = NULL
      <3>1. Q[Len(Q)] \in live /\ Len(Q) \in 1 .. Len(Q)
        BY <1>1
      <3>2. Len(Q) <= i
        BY <1>1, <2>1, <2>2, <3>1
      <3> QED BY <1>1, <2>2, <3>2
    <2>3. CASE ev[Q[i]].next # NULL
      <3>1. PICK j \in 1 .. Len(Q) : Q[j] = ev[Q[i]].next
        BY <1>2, <2>1, <2>3
      <3>2. i < j
        BY <1>1, <2>1, <2>3, <3>1
      <3>3. i + 1 \in 1 .. Len(Q)
        BY <1>1, <3>2
      <3>4. ev[Q[i]].id < ev[Q[i + 1]].id
        <4>1. i < i + 1
          BY <1>1
        <4> QED BY <1>2, <3>3, <4>1, Zenon
      <3>5. ev[Q[j]].id <= ev[Q[i + 1]].id
        BY <1>1, <2>1, <2>3, <3>1, <3>3, <3>4
      <3>6. j <= i + 1
        BY <1>1, <3>3, <3>5
      <3>7. j = i + 1 /\ i # Len(Q)
        BY <1>1, <3>2, <3>3, <3>6
      <3> QED BY <3>1, <3>7
    <2> QED BY <2>2, <2>3
  <1>6. ASSUME NEW i \in 1 .. Len(Q)
        PROVE  ev[Q[i]].prev = IF i = 1 THEN NULL ELSE Q[i - 1]
    <2>1. /\ ev[Q[i]].prev = NULL => \A u \in live : ev[Q[i]].id <= ev[u].id
          /\ ev[Q[i]].prev # NULL =>
              /\ ev[Q[i]].prev \in live
              /\ ev[ev[Q[i]].prev].id < ev[Q[i]].id
              /\ \A u \in live : ev[u].id < ev[Q[i]].id => ev[u].id <= ev[ev[Q[i]].prev].id
      BY <1>1 DEF Ordered, PrevIs
    <2>2. CASE ev[Q[i]].prev = NULL
      <3>1. Q[1] \in live /\ 1 \in 1 .. Len(Q)
        BY <1>1
      <3>2. i <= 1
        BY <1>1, <2>1, <2>2, <3>1
      <3> QED BY <1>1, <2>2, <3>2
    <2>3. CASE ev[Q[i]].prev # NULL
      <3>1. PICK j \in 1 .. Len(Q) : Q[j] = ev[Q[i]].prev
        BY <1>2, <2>1, <2>3
      <3>2. j < i
        BY <1>1, <2>1, <2>3, <3>1
      <3>3. i - 1 \in 1 .. Len(Q)
        BY <1>1, <3>2
      <3>4. ev[Q[i - 1]].id < ev[Q[i]].id
        <4>1. i - 1 < i
          BY <1>1
        <4> QED BY <1>2, <3>3, <4>1, Zenon
      <3>5. ev[Q[i - 1]].id <= ev[Q[j]].id
        BY <1>1, <2>1, <2>3, <3>1, <3>3, <3>4
      <3>6. i - 1 <= j
        BY <1>1, <3>3, <3>5
      <3>7. j = i - 1 /\ i # 1
        BY <1>1, <3>2, <3>3, <3>6
      <3> QED BY <3>1, <3>7
    <2> QED BY <2>2, <2>3
  <1>7. time_event_head = IF Len(Q) = 0 THEN NULL ELSE Q[1]
    <2>1. CASE Len(Q) = 0
      <3>1. live = {}
        BY <1>2, <2>1
      <3> QED BY <2>1, <3>1 DEF Ordered, HeadIs
    <2>2. CASE Len(Q) # 0
      <3>1. 1 \in 1 .. Len(Q) /\ Q[1] \in live
        BY <1>1, <2>2
      <3>2. time_event_head \in live /\ ev[time_event_head].id <= ev[Q[1]].id
        BY <3>1 DEF Ordered, HeadIs
      <3>3. PICK j \in 1 .. Len(Q) : Q[j] = time_event_head
        BY <1>2, <3>2
      <3>4. j <= 1
        BY <1>1, <3>1, <3>2, <3>3
      <3>5. j = 1
        BY <1>1, <3>4
      <3> QED BY <2>2, <3>3, <3>5
    <2> QED BY <2>1, <2>2
  <1>8. time_event_tail = IF Len(Q) = 0 THEN NULL ELSE Q[Len(Q)]
    <2>1. CASE Len(Q) = 0
      <3>1. live = {}
        BY <1>2, <2>1
      <3> QED BY <2>1, <3>1 DEF Ordered, TailIs
    <2>2. CASE Len(Q) # 0
      <3>1. Len(Q) \in 1 .. Len(Q) /\ Q[Len(Q)] \in live
        BY <1>1, <2>2
      <3>2. time_event_tail \in live /\ ev[Q[Len(Q)]].id <= ev[time_event_tail].id
        BY <3>1 DEF Ordered, TailIs
      <3>3. PICK j \in 1 .. Len(Q) : Q[j] = time_event_tail
        BY <1>2, <3>2
      <3>4. Len(Q) <= j
        BY <1>1, <3>1, <3>2, <3>3
      <3>5. j = Len(Q)
        BY <1>1, <3>4
      <3> QED BY <2>2, <3>3, <3>5
    <2> QED BY <2>1, <2>2
  <1> QED BY <1>5, <1>6, <1>7, <1>8

\* What is left of timers that do not exist leads nowhere.
Freed == \A t \in Timers \ live : ev[t].next = NULL

\* There are as many elements in the list as timers.
LEMMA SpellsCount ==
    ASSUME Types, Ordered, NEW Q, Spells(Q)
    PROVE  Len(Q) <= Cardinality(live) /\ Cardinality(live) \in Nat
  <1>1. /\ Len(Q) \in Nat /\ \A i \in 1 .. Len(Q) : Q[i] \in live
        /\ \A i, j \in 1 .. Len(Q) : Q[i] = Q[j] => i = j
    BY SpellsFacts
  <1>2. IsFiniteSet(live) /\ Cardinality(live) \in Nat
    BY FiniteTimers, FS_Subset, FS_CardinalityType DEF Types
  <1> DEFINE f == [i \in 1 .. Len(Q) |-> Q[i]]
  <1>3. f \in Injection(1 .. Len(Q), live)
    <2>1. f \in [1 .. Len(Q) -> live] /\ \A i \in 1 .. Len(Q) : f[i] = Q[i]
      BY <1>1
    <2> HIDE DEF f
    <2> QED BY <1>1, <2>1 DEF Injection, IsInjective
  <1> HIDE DEF f
  <1>4. Cardinality(1 .. Len(Q)) <= Cardinality(live)
    BY <1>2, <1>3, FS_Injection
  <1>5. Cardinality(1 .. Len(Q)) = Len(Q)
    <2>1. Cardinality(1 .. Len(Q)) = IF 1 > Len(Q) THEN 0 ELSE Len(Q) - 1 + 1
      BY <1>1, FS_Interval
    <2> QED BY <1>1, <2>1
  <1> QED BY <1>2, <1>4, <1>5

\* The list has room for all the timers.
LEMMA SpellsLength ==
    ASSUME Types, Ordered, NEW Q, Spells(Q)
    PROVE  Cardinality(Timers) \in Nat /\ Len(Q) <= Cardinality(Timers)
  <1>1. Len(Q) \in Nat /\ Len(Q) <= Cardinality(live) /\ Cardinality(live) \in Nat
    BY SpellsFacts, SpellsCount
  <1>2. Cardinality(Timers) \in Nat /\ Cardinality(live) <= Cardinality(Timers)
    BY FiniteTimers, FS_Subset, FS_CardinalityType DEF Types
  <1> QED BY <1>1, <1>2

\* Sequences of one length with the same elements are equal.
LEMMA SameElements ==
    ASSUME NEW S, NEW p \in Seq(S), NEW q \in Seq(S), Len(p) = Len(q),
           \A j \in 1 .. Len(q) : p[j] = q[j]
    PROVE  p = q
  OBVIOUS

\* An element before a segment.
LEMMA ConsSegment ==
    ASSUME NEW S, NEW Q \in Seq(S), NEW i \in 1 .. Len(Q), NEW m \in i .. Len(Q)
    PROVE  <<Q[i]>> \o SubSeq(Q, i + 1, m) = SubSeq(Q, i, m)
  <1>1. Len(Q) \in Nat /\ \A j \in 1 .. Len(Q) : Q[j] \in S
    OBVIOUS
  <1>2. SubSeq(Q, i + 1, m) \in Seq(S)
    BY <1>1
  <1>3. /\ Len(SubSeq(Q, i + 1, m)) = m - i
        /\ \A j \in 1 .. (m - i) : SubSeq(Q, i + 1, m)[j] = Q[i + j]
    BY <1>1
  <1>4. /\ SubSeq(Q, i, m) \in Seq(S)
        /\ Len(SubSeq(Q, i, m)) = m - i + 1
        /\ \A j \in 1 .. (m - i + 1) : SubSeq(Q, i, m)[j] = Q[i + j - 1]
    BY <1>1
  <1>5. /\ <<Q[i]>> \o SubSeq(Q, i + 1, m) \in Seq(S)
        /\ Len(<<Q[i]>> \o SubSeq(Q, i + 1, m)) = m - i + 1
    BY <1>1, <1>2, <1>3
  <1>6. ASSUME NEW j \in 1 .. (m - i + 1)
        PROVE  (<<Q[i]>> \o SubSeq(Q, i + 1, m))[j] = SubSeq(Q, i, m)[j]
    <2>1. CASE j = 1
      BY <1>1, <1>2, <1>3, <1>4, <2>1
    <2>2. CASE j # 1
      <3>1. (<<Q[i]>> \o SubSeq(Q, i + 1, m))[j] = SubSeq(Q, i + 1, m)[j - 1]
        BY <1>1, <1>2, <1>3, <2>2
      <3>2. SubSeq(Q, i + 1, m)[j - 1] = Q[i + (j - 1)]
        BY <1>1, <1>3, <2>2
      <3> QED BY <1>1, <1>4, <3>1, <3>2
    <2> QED BY <2>1, <2>2
  <1> DEFINE a == <<Q[i]>> \o SubSeq(Q, i + 1, m)
             b == SubSeq(Q, i, m)
  <1>7. /\ a \in Seq(S) /\ b \in Seq(S) /\ Len(b) = m - i + 1 /\ Len(a) = Len(b)
        /\ \A j \in 1 .. (m - i + 1) : a[j] = b[j]
    BY <1>4, <1>5, <1>6
  <1>8. a = b
    <2> HIDE DEF a, b
    <2> QED BY <1>7, SameElements
  <1> QED BY <1>8

\* The equation of ListFrom.
Unfolds(f) ==
    f = [k \in 0 .. Cardinality(Timers) |-> [t \in Timers \cup {NULL} |->
           IF t = NULL \/ k = 0 THEN <<>> ELSE <<t>> \o f[k - 1][ev[t].next]]]

\* If any function solves the equation, ListFrom does.
LEMMA ListFromUnfolds ==
    ASSUME NEW g, Unfolds(g)
    PROVE  Unfolds(ListFrom)
  BY DEF ListFrom, Unfolds

\* The equation for one length and one timer.
LEMMA UnfoldsAt ==
    ASSUME NEW f, Unfolds(f), NEW k \in 0 .. Cardinality(Timers),
           NEW t \in Timers \cup {NULL}
    PROVE  f[k][t] = IF t = NULL \/ k = 0 THEN <<>> ELSE <<t>> \o f[k - 1][ev[t].next]
  <1>1. f[k] = [u \in Timers \cup {NULL} |->
                  IF u = NULL \/ k = 0 THEN <<>> ELSE <<u>> \o f[k - 1][ev[u].next]]
    BY Zenon DEF Unfolds
  <1> QED BY <1>1, Zenon

\* No two functions solve it: they would differ first at some least length.
LEMMA UnfoldsUnique ==
    ASSUME Types, NEW f, NEW g, Unfolds(f), Unfolds(g),
           NEW t \in Link, NEW n \in 0 .. Cardinality(Timers)
    PROVE  f[n][t] = g[n][t]
  <1>0. Cardinality(Timers) \in Nat
    BY FiniteTimers, FS_CardinalityType
  <1> DEFINE Bad == {k \in 0 .. Cardinality(Timers) : \E u \in Link : f[k][u] # g[k][u]}
  <1> SUFFICES ASSUME Bad # {} PROVE FALSE
    OBVIOUS
  <1>1. Bad \in SUBSET Nat
    BY <1>0
  <1>2. PICK k \in Bad : \A j \in Bad : k <= j
    <2> HIDE DEF Bad
    <2> QED BY <1>1, LeastNatural
  <1>3. PICK u \in Link : f[k][u] # g[k][u]
    OBVIOUS
  <1>4. /\ f[k][u] = IF u = NULL \/ k = 0 THEN <<>> ELSE <<u>> \o f[k - 1][ev[u].next]
        /\ g[k][u] = IF u = NULL \/ k = 0 THEN <<>> ELSE <<u>> \o g[k - 1][ev[u].next]
    <2>1. k \in 0 .. Cardinality(Timers) /\ u \in Timers \cup {NULL}
      BY DEF Link
    <2> HIDE DEF Bad
    <2> QED BY <2>1, UnfoldsAt
  <1>5. u # NULL /\ k # 0
    BY <1>3, <1>4
  <1>6. k - 1 \in 0 .. Cardinality(Timers) /\ k - 1 \notin Bad
    <2>1. k \in 0 .. Cardinality(Timers)
      OBVIOUS
    <2> HIDE DEF Bad
    <2> QED BY <1>0, <1>2, <1>5, <2>1
  <1>7. ev[u].next \in Link
    BY <1>5 DEF Types, Fields, Link
  <1>8. f[k - 1][ev[u].next] = g[k - 1][ev[u].next]
    BY <1>6, <1>7
  <1> QED BY <1>3, <1>4, <1>8

\* The timers from t on, at most k of them.
From(Q, t, k) ==
    IF t = NULL \/ k = 0 THEN <<>>
    ELSE IF t \in live
         THEN LET i == CHOOSE i \in 1 .. Len(Q) : Q[i] = t
              IN  SubSeq(Q, i, IF i + k - 1 <= Len(Q) THEN i + k - 1 ELSE Len(Q))
         ELSE <<t>>

\* From a timer of Q on it is a segment of Q.
LEMMA FromIs ==
    ASSUME Types, Ordered, NEW Q, Spells(Q),
           NEW i \in 1 .. Len(Q), NEW k \in Nat, k # 0
    PROVE  From(Q, Q[i], k)
              = SubSeq(Q, i, IF i + k - 1 <= Len(Q) THEN i + k - 1 ELSE Len(Q))
  <1>1. /\ Q[i] \in live /\ Q[i] # NULL
        /\ \A j \in 1 .. Len(Q) : Q[j] = Q[i] => j = i
    BY SpellsFacts, TimersAssumption DEF Types
  <1>2. (CHOOSE j \in 1 .. Len(Q) : Q[j] = Q[i]) = i
    BY <1>1
  <1> QED BY <1>1, <1>2 DEF From

\* It solves the equation: one timer, and the list from the next on.
LEMMA FromStep ==
    ASSUME Types, Ordered, Freed, NEW Q, Spells(Q),
           NEW t \in Timers, NEW k \in Nat, k # 0
    PROVE  From(Q, t, k) = <<t>> \o From(Q, ev[t].next, k - 1)
  <1>0. NULL \notin Timers /\ live \subseteq Timers
    BY TimersAssumption DEF Types
  <1>1. CASE t \notin live
    <2>1. From(Q, ev[t].next, k - 1) = <<>>
      BY <1>1 DEF Freed, From
    <2>2. From(Q, t, k) = <<t>>
      BY <1>0, <1>1 DEF From
    <2> QED BY <2>1, <2>2
  <1>2. CASE t \in live
    <2>1. PICK i \in 1 .. Len(Q) : Q[i] = t
      BY <1>2 DEF Spells
    <2>2. Len(Q) \in Nat /\ Q \in Seq(live)
      BY DEF Spells
    <2> DEFINE m == IF i + k - 1 <= Len(Q) THEN i + k - 1 ELSE Len(Q)
    <2>3. From(Q, t, k) = SubSeq(Q, i, m)
      BY <2>1, FromIs
    <2>4. m \in i .. Len(Q)
      BY <2>2
    <2>5. <<Q[i]>> \o SubSeq(Q, i + 1, m) = SubSeq(Q, i, m)
      <3> HIDE DEF m
      <3> QED BY <2>2, <2>4, ConsSegment
    <2>6. From(Q, ev[t].next, k - 1) = SubSeq(Q, i + 1, m)
      <3>0. ev[t].next = IF i = Len(Q) THEN NULL ELSE Q[i + 1]
        BY <2>1, SpellsLinks
      <3>1. CASE i = Len(Q)
        <4>1. m = i /\ From(Q, ev[t].next, k - 1) = <<>>
          BY <3>0, <3>1, <2>2 DEF From
        <4>2. SubSeq(Q, i + 1, i) = <<>>
          BY <2>2
        <4> HIDE DEF m
        <4> QED BY <4>1, <4>2
      <3>2. CASE k = 1
        <4>1. m = i /\ From(Q, ev[t].next, k - 1) = <<>>
          BY <3>2, <2>2 DEF From
        <4>2. SubSeq(Q, i + 1, i) = <<>>
          BY <2>2
        <4> HIDE DEF m
        <4> QED BY <4>1, <4>2
      <3>3. CASE i # Len(Q) /\ k # 1
        <4>1. i + 1 \in 1 .. Len(Q) /\ k - 1 \in Nat /\ k - 1 # 0
          BY <3>3, <2>2
        <4>2. From(Q, Q[i + 1], k - 1)
                = SubSeq(Q, i + 1, IF (i + 1) + (k - 1) - 1 <= Len(Q)
                                   THEN (i + 1) + (k - 1) - 1 ELSE Len(Q))
          BY <4>1, FromIs
        <4>3. m = IF (i + 1) + (k - 1) - 1 <= Len(Q)
                  THEN (i + 1) + (k - 1) - 1 ELSE Len(Q)
          BY <2>2
        <4> HIDE DEF m
        <4> QED BY <3>0, <3>3, <4>2, <4>3
      <3> QED BY <3>1, <3>2, <3>3
    <2> QED BY <2>1, <2>3, <2>5, <2>6
  <1> QED BY <1>1, <1>2

\* So the walk from the head gives every timer, in the order of the ids.
LEMMA ListIs ==
    ASSUME Types, Ordered, Freed, NEW Q, Spells(Q)
    PROVE  List = Q
  <1> DEFINE n == Cardinality(Timers)
             g == [k \in 0 .. n |-> [t \in Timers \cup {NULL} |-> From(Q, t, k)]]
  <1>0. n \in Nat /\ Len(Q) <= n /\ Len(Q) \in Nat /\ Q \in Seq(live)
    BY SpellsLength DEF Spells
  <1>00. NULL \notin Timers
    BY TimersAssumption
  <1>1. ASSUME NEW t \in Timers \cup {NULL}, NEW k \in 0 .. n
        PROVE  g[k][t] = IF t = NULL \/ k = 0 THEN <<>> ELSE <<t>> \o g[k - 1][ev[t].next]
    <2>1. CASE t = NULL \/ k = 0
      BY <2>1 DEF From
    <2>2. CASE ~(t = NULL \/ k = 0)
      <3>1. t \in Timers /\ k \in Nat /\ k # 0 /\ k - 1 \in 0 .. n
        BY <1>0, <2>2
      <3>2. ev[t].next \in Timers \cup {NULL}
        BY <3>1 DEF Types, Fields, Link
      <3>3. g[k - 1][ev[t].next] = From(Q, ev[t].next, k - 1)
        BY <3>1, <3>2
      <3>4. From(Q, t, k) = <<t>> \o From(Q, ev[t].next, k - 1)
        BY <3>1, FromStep
      <3> QED BY <2>2, <3>3, <3>4
    <2> QED BY <2>1, <2>2
  <1>2. Unfolds(g)
    <2>1. g = [k \in 0 .. n |-> [t \in Timers \cup {NULL} |-> g[k][t]]]
      OBVIOUS
    <2> HIDE DEF g
    <2> QED BY <1>1, <2>1 DEF Unfolds
  <1>3. Unfolds(ListFrom)
    <2> HIDE DEF g
    <2> QED BY <1>2, ListFromUnfolds
  <1>4. time_event_head \in Link /\ n \in 0 .. n
    BY <1>0 DEF Types
  <1>5. ListFrom[n][time_event_head] = g[n][time_event_head]
    <2> HIDE DEF g
    <2> QED BY <1>2, <1>3, <1>4, UnfoldsUnique
  <1>6. g[n][time_event_head] = From(Q, time_event_head, n)
    BY <1>4 DEF Link
  <1>7. From(Q, time_event_head, n) = Q
    <2>1. CASE Len(Q) = 0
      <3>1. time_event_head = NULL
        BY <2>1, SpellsLinks
      <3> QED BY <1>0, <2>1, <3>1 DEF From
    <2>2. CASE Len(Q) # 0
      <3>1. time_event_head = Q[1] /\ 1 \in 1 .. Len(Q) /\ n # 0
        BY <1>0, <2>2, SpellsLinks
      <3>2. From(Q, Q[1], n) = SubSeq(Q, 1, IF 1 + n - 1 <= Len(Q) THEN 1 + n - 1 ELSE Len(Q))
        BY <1>0, <3>1, FromIs
      <3>3. (IF 1 + n - 1 <= Len(Q) THEN 1 + n - 1 ELSE Len(Q)) = Len(Q)
        BY <1>0
      <3>4. SubSeq(Q, 1, Len(Q)) = Q
        BY <1>0
      <3> QED BY <3>1, <3>2, <3>3, <3>4
    <2> QED BY <2>1, <2>2
  <1> QED BY <1>5, <1>6, <1>7 DEF List

-----------------------------------------------------------------------------
(* The ranges of the fields, and the deadlines they stand for *)

\* The bounds of the fields and of the locals.
Ranges ==
    /\ \A t \in Timers : ev[t].id <= MaxId /\ ev[t].milliseconds \in 0 .. (2 * MS - 2)
    /\ time_event_id <= MaxId /\ maxid \in 0 .. MaxId
    /\ last_time \in Nat /\ stop \in BOOLEAN
    /\ now <= MaxNow /\ back \in 0 .. MaxBack
    /\ pc \in Labels
    /\ due \in [Timers -> 0 .. MaxNow]

\* A timer is never set to a time past its deadline; the borrow of ComputeWait only
\* takes from it, and timers made due at once are owed at once.
Deadlines ==
    \A t \in live : ev[t].seconds > 0 => MS * ev[t].seconds + ev[t].milliseconds <= due[t]

TimeInv == Freed /\ Ranges /\ Deadlines

\* What the assumptions say of the constants.
LEMMA MSFacts ==
    /\ MS \in Nat /\ 2 <= MS /\ MaxNow \in Nat /\ MaxId \in Nat
    /\ MaxBack \in Nat /\ Start \in 0 .. MaxNow
  BY TimersAssumption

\* It holds when the hub is created.
LEMMA InitTimeInv == Init => TimeInv
  <1> SUFFICES ASSUME Init PROVE TimeInv
    OBVIOUS
  <1>1. Freed /\ Deadlines
    BY DEF Init, Freed, Deadlines, Unallocated
  <1>2. Sec(Start) \in Nat
    BY MSFacts, DivMod DEF Sec
  <1>3. Ranges
    <2> HIDE DEF Sec
    <2> QED BY MSFacts, <1>2 DEF Init, Ranges, Unallocated, Labels
  <1> QED BY <1>1, <1>3 DEF TimeInv

\* What is kept when links and fields are.
LEMMA SameTimeInv ==
    ASSUME TimeInv, UNCHANGED <<live, ev, time_event_id, due>>,
           maxid' \in 0 .. MaxId, last_time' \in Nat, stop' \in BOOLEAN,
           now' <= MaxNow, back' \in 0 .. MaxBack, pc' \in Labels
    PROVE  TimeInv'
  <1>1. Freed'
    BY DEF TimeInv, Freed
  <1>2. Deadlines'
    BY DEF TimeInv, Deadlines
  <1>3. Ranges'
    BY DEF TimeInv, Ranges
  <1> QED BY <1>1, <1>2, <1>3 DEF TimeInv

\* The clock changes no deadline.
LEMMA ClockTimeInv ==
    ASSUME TInv, TimeInv, Tick \/ \E time \in 0 .. MaxNow : SetBack(time)
    PROVE  TimeInv'
  <1>1. /\ UNCHANGED <<live, ev, time_event_id, due, maxid, last_time, stop, pc>>
        /\ now' <= MaxNow /\ back' \in 0 .. MaxBack
    <2>1. now \in Nat /\ back \in 0 .. MaxBack
      BY DEF TInv, Types, TimeInv, Ranges
    <2>2. CASE Tick
      BY <2>1, <2>2, MSFacts DEF Tick, hubVars
    <2>3. CASE \E time \in 0 .. MaxNow : SetBack(time)
      BY <2>1, <2>3, MSFacts DEF SetBack, hubVars
    <2> QED BY <2>2, <2>3
  <1>2. maxid \in 0 .. MaxId /\ last_time \in Nat /\ stop \in BOOLEAN /\ pc \in Labels
    BY DEF TimeInv, Ranges
  <1> QED BY <1>1, <1>2, SameTimeInv

\* Nor do the steps that change no timer.
LEMMA QuietTimeInv ==
    ASSUME TInv, TimeInv,
           Stop \/ HubMain \/ Wake \/ WalkDue \/ WalkOn \/ WalkEnds \/ HandlerFreed \/ Leave
    PROVE  TimeInv'
  <1>1. /\ maxid \in 0 .. MaxId /\ last_time \in Nat /\ stop \in BOOLEAN /\ pc \in Labels
        /\ now <= MaxNow /\ back \in 0 .. MaxBack
    BY DEF TimeInv, Ranges
  <1>2. UNCHANGED <<live, ev, time_event_id, due, last_time, now, back>>
    BY DEF Stop, HubMain, Wake, WalkDue, WalkOn, WalkEnds, HandlerFreed, Leave, hubVars,
           clockVars
  <1>3. stop' \in BOOLEAN
    BY <1>1 DEF Stop, HubMain, Wake, WalkDue, WalkOn, WalkEnds, HandlerFreed, Leave
  <1>4. pc' \in Labels
    BY <1>1 DEF Stop, HubMain, Wake, WalkDue, WalkOn, WalkEnds, HandlerFreed, Leave, Labels
  <1>5. maxid' \in 0 .. MaxId
    BY <1>1, MSFacts DEF Stop, HubMain, Wake, WalkDue, WalkOn, WalkEnds, HandlerFreed, Leave
  <1> QED BY <1>1, <1>2, <1>3, <1>4, <1>5, SameTimeInv

\* A time set apart from the deadline by no carry.
LEMMA AddDelay ==
    ASSUME NEW n \in Nat, NEW delay \in Nat
    PROVE  /\ MS * (Sec(n) + (delay \div MS)) + (Msec(n) + (delay % MS)) = n + delay
           /\ Msec(n) + (delay % MS) \in 0 .. (2 * MS - 2)
           /\ Sec(n) + (delay \div MS) \in Nat
  <1> DEFINE a == n \div MS
             b == n % MS
             c == delay \div MS
             d == delay % MS
  <1>1. /\ a \in Nat /\ b \in 0 .. (MS - 1) /\ n = MS * a + b
        /\ c \in Nat /\ d \in 0 .. (MS - 1) /\ delay = MS * c + d
    BY DivMod
  <1> HIDE DEF a, b, c, d
  <1>2. MS * (a + c) = MS * a + MS * c
    BY <1>1, MSFacts
  <1>3. MS * a \in Nat /\ MS * c \in Nat
    BY <1>1, MSFacts
  <1>4. MS * (a + c) + (b + d) = n + delay
    BY <1>1, <1>2, <1>3, MSFacts
  <1>5. b + d \in 0 .. (2 * MS - 2) /\ a + c \in Nat
    BY <1>1, MSFacts
  <1> QED BY <1>4, <1>5 DEF a, b, c, d, Sec, Msec

\* The time hub_create_time_event sets, and what it leaves of other memory.
LEMMA CreateTimes ==
    ASSUME Types, Ordered, NEW t \in Timers, NEW delay \in Delays,
           CreateTimeEvent(t, delay)
    PROVE  /\ ev'[t].seconds = Sec(now) + (delay \div MS)
           /\ ev'[t].milliseconds = Msec(now) + (delay % MS)
           /\ \A e \in Timers \ (live \cup {t}) : ev'[e] = ev[e]
  <1> DEFINE fields == [id           |-> time_event_id + 1,
                        seconds      |-> Sec(now) + (delay \div MS),
                        milliseconds |-> Msec(now) + (delay % MS),
                        next         |-> NULL,
                        prev         |-> time_event_tail]
  <1>1. /\ fields.seconds = Sec(now) + (delay \div MS)
        /\ fields.milliseconds = Msec(now) + (delay % MS)
    OBVIOUS
  <1>2. /\ ev \in [Timers -> Fields] /\ t \notin live
        /\ time_event_tail # NULL => time_event_tail \in live
    BY DEF CreateTimeEvent, Types, Ordered, TailIs
  <1>3. \/ ev' = [ev EXCEPT ![t] = fields]
        \/ time_event_tail # NULL /\ ev' = [ev EXCEPT ![t] = fields, ![time_event_tail].next = t]
    BY DEF CreateTimeEvent
  <1> HIDE DEF fields
  <1>4. ev'[t] = fields /\ \A e \in Timers \ (live \cup {t}) : ev'[e] = ev[e]
    BY <1>2, <1>3
  <1> QED BY <1>1, <1>4

\* A new timer is set to its deadline, whatever the carry.
LEMMA CreateTimeInv ==
    ASSUME TInv, TimeInv, NEW t \in Timers, NEW delay \in Delays, CreateTimeEvent(t, delay)
    PROVE  TimeInv'
  <1>0. Types /\ Ordered /\ Freed /\ Ranges /\ Deadlines
    BY DEF TInv, TimeInv
  <1>1. /\ live' = live \cup {t} /\ t \notin live
        /\ time_event_id < MaxId /\ now + delay <= MaxNow
        /\ time_event_id' = time_event_id + 1
        /\ due' = [due EXCEPT ![t] = now + delay]
        /\ UNCHANGED <<last_time, stop, now, back, pc, maxid>>
    BY DEF CreateTimeEvent, clockVars
  <1>2. /\ ev'[t].id = time_event_id + 1
        /\ ev'[t].seconds = Sec(now) + (delay \div MS)
        /\ ev'[t].milliseconds = Msec(now) + (delay % MS)
        /\ \A e \in Timers \ (live \cup {t}) : ev'[e] = ev[e]
        /\ \A e \in live : /\ ev'[e].id = ev[e].id
                           /\ ev'[e].seconds = ev[e].seconds
                           /\ ev'[e].milliseconds = ev[e].milliseconds
    BY <1>0, CreateFields, CreateTimes
  <1>3. now \in Nat /\ delay \in Nat /\ time_event_id \in Nat /\ live \subseteq Timers
    BY <1>0, TimersAssumption DEF Types
  <1>4. /\ MS * ev'[t].seconds + ev'[t].milliseconds = now + delay
        /\ ev'[t].milliseconds \in 0 .. (2 * MS - 2)
    BY <1>2, <1>3, AddDelay
  <1>5. due \in [Timers -> 0 .. MaxNow] /\ now + delay \in 0 .. MaxNow
    BY <1>0, <1>1, <1>3, MSFacts DEF Ranges
  <1>6. due' \in [Timers -> 0 .. MaxNow] /\ due'[t] = now + delay
        /\ \A e \in live : due'[e] = due[e]
    BY <1>1, <1>3, <1>5
  <1>7. Freed'
    BY <1>0, <1>1, <1>2 DEF Freed
  <1>8. Deadlines'
    <2> SUFFICES ASSUME NEW e \in live \cup {t}, ev'[e].seconds > 0
                 PROVE  MS * ev'[e].seconds + ev'[e].milliseconds <= due'[e]
      BY <1>1 DEF Deadlines
    <2>1. CASE e = t
      BY <2>1, <1>3, <1>4, <1>6
    <2>2. CASE e # t
      BY <2>2, <1>0, <1>2, <1>6 DEF Deadlines
    <2> QED BY <2>1, <2>2
  <1>9. Ranges'
    <2>1. ASSUME NEW e \in Timers
          PROVE  ev'[e].id <= MaxId /\ ev'[e].milliseconds \in 0 .. (2 * MS - 2)
      <3>1. CASE e = t
        BY <3>1, <1>1, <1>2, <1>3, <1>4, MSFacts
      <3>2. CASE e # t
        BY <3>2, <1>0, <1>2 DEF Ranges
      <3> QED BY <3>1, <3>2
    <2>2. time_event_id' <= MaxId
      BY <1>1, <1>3, MSFacts
    <2> QED BY <2>1, <2>2, <1>0, <1>1, <1>6 DEF Ranges
  <1> QED BY <1>7, <1>8, <1>9 DEF TimeInv

\* Deletion leaves the deadlines of the other timers.
LEMMA DeleteTimeInv ==
    ASSUME TInv, TimeInv, NEW t \in live, Delete(t),
           UNCHANGED <<last_time, stop, clockVars, maxid>>, pc' \in Labels
    PROVE  TimeInv'
  <1>0. Types /\ Ordered /\ Freed /\ Ranges /\ Deadlines
    BY DEF TInv, TimeInv
  <1>1. /\ live' = live \ {t} /\ due' = [due EXCEPT ![t] = 0]
        /\ UNCHANGED <<time_event_id, last_time, stop, now, back, maxid>>
    BY DEF Delete, clockVars
  <1> DEFINE n == ev[t].next
             p == ev[t].prev
             new(e) == [ev[e] EXCEPT !.prev = IF e = n THEN p ELSE @,
                                     !.next = IF e = p THEN n ELSE @]
  <1>2. ev' = [e \in Timers |-> IF e = t THEN Unallocated ELSE new(e)]
    BY DEF Delete, Unlink
  <1>3. t \in Timers /\ live \subseteq Timers /\ \A e \in Timers : ev[e] \in Fields
    BY <1>0 DEF Types
  <1>4. p = NULL \/ p \in live
    BY <1>0 DEF Ordered, PrevIs
  <1>5. \A e \in Timers :
           /\ new(e).id = ev[e].id
           /\ new(e).seconds = ev[e].seconds
           /\ new(e).milliseconds = ev[e].milliseconds
           /\ e # p => new(e).next = ev[e].next
    <2> HIDE DEF n, p
    <2> QED BY <1>3 DEF Fields
  <1>6. ev'[t] = Unallocated /\ \A e \in Timers \ {t} : ev'[e] = new(e)
    <2> HIDE DEF new
    <2> QED BY <1>2, <1>3
  <1> HIDE DEF new, n, p
  <1>7. /\ Unallocated.next = NULL /\ Unallocated.id = 0 /\ Unallocated.milliseconds = 0
    BY DEF Unallocated
  <1>8. Freed'
    <2> SUFFICES ASSUME NEW e \in Timers \ (live \ {t}) PROVE ev'[e].next = NULL
      BY <1>1 DEF Freed
    <2>1. CASE e = t
      BY <2>1, <1>6, <1>7
    <2>2. CASE e # t
      <3>1. e \in Timers \ live /\ e # p
        BY <2>2, <1>3, <1>4, TimersAssumption
      <3> QED BY <3>1, <2>2, <1>0, <1>5, <1>6 DEF Freed
    <2> QED BY <2>1, <2>2
  <1>9. Deadlines'
    <2> SUFFICES ASSUME NEW e \in live \ {t}, ev'[e].seconds > 0
                 PROVE  MS * ev'[e].seconds + ev'[e].milliseconds <= due'[e]
      BY <1>1 DEF Deadlines
    <2>1. /\ ev'[e].seconds = ev[e].seconds /\ ev'[e].milliseconds = ev[e].milliseconds
          /\ e \in Timers
      BY <1>3, <1>5, <1>6
    <2>2. due'[e] = due[e]
      BY <1>0, <1>1, <2>1 DEF Ranges
    <2> QED BY <2>1, <2>2, <1>0 DEF Deadlines
  <1>10. Ranges'
    <2>1. \A e \in Timers : ev'[e].id <= MaxId /\ ev'[e].milliseconds \in 0 .. (2 * MS - 2)
      <3> TAKE e \in Timers
      <3>1. CASE e = t
        BY <3>1, <1>6, <1>7, MSFacts
      <3>2. CASE e # t
        BY <3>2, <1>0, <1>5, <1>6 DEF Ranges
      <3> QED BY <3>1, <3>2
    <2>2. due' \in [Timers -> 0 .. MaxNow]
      <3>1. due \in [Timers -> 0 .. MaxNow] /\ 0 \in 0 .. MaxNow
        BY <1>0, MSFacts DEF Ranges
      <3> QED BY <1>1, <3>1
    <2> QED BY <2>1, <2>2, <1>0, <1>1 DEF Ranges
  <1> QED BY <1>8, <1>9, <1>10 DEF TimeInv

\* A clock set back makes timers due, and owes nothing to their old deadlines.
LEMMA StartPassTimeInv ==
    ASSUME TInv, TimeInv, StartPass
    PROVE  TimeInv'
  <1>0. Types /\ Freed /\ Ranges /\ Deadlines
    BY DEF TInv, TimeInv
  <1>1. /\ last_time' = Sec(now) /\ maxid' = time_event_id /\ pc' = "walk"
        /\ UNCHANGED <<live, time_event_id, stop, now, back>>
    BY DEF StartPass, hubVars, clockVars
  <1>2. ev \in [Timers -> Fields] /\ live \subseteq Timers
        /\ time_event_id \in Nat /\ Sec(now) \in Nat
    BY <1>0, DivMod DEF Types, Sec
  <1>3. /\ Freed' /\ Deadlines'
        /\ \A t \in Timers : ev'[t].id = ev[t].id /\ ev'[t].milliseconds = ev[t].milliseconds
        /\ due' \in [Timers -> 0 .. MaxNow]
    <2>1. CASE Sec(now) < last_time
      <3>1. /\ ev' = [t \in Timers |-> IF t \in live
                        THEN [ev[t] EXCEPT !.seconds = 0] ELSE ev[t]]
            /\ due' = [t \in Timers |-> 0]
        BY <2>1 DEF StartPass
      <3>2. \A e \in Timers : /\ [ev[e] EXCEPT !.seconds = 0].id = ev[e].id
                              /\ [ev[e] EXCEPT !.seconds = 0].next = ev[e].next
                              /\ [ev[e] EXCEPT !.seconds = 0].milliseconds = ev[e].milliseconds
                              /\ [ev[e] EXCEPT !.seconds = 0].seconds = 0
        BY <1>2 DEF Fields
      <3>3. \A e \in live : ev'[e].seconds = 0
        BY <1>2, <3>1, <3>2
      <3>4. \A e \in Timers : /\ ev'[e].id = ev[e].id
                              /\ ev'[e].next = ev[e].next
                              /\ ev'[e].milliseconds = ev[e].milliseconds
        BY <3>1, <3>2
      <3>5. Freed'
        BY <1>0, <1>1, <3>4 DEF Freed
      <3>6. Deadlines'
        BY <1>1, <3>3 DEF Deadlines
      <3>7. due' \in [Timers -> 0 .. MaxNow]
        BY <3>1, MSFacts
      <3> QED BY <3>4, <3>5, <3>6, <3>7
    <2>2. CASE ~(Sec(now) < last_time)
      <3>1. ev' = ev /\ due' = due
        BY <2>2 DEF StartPass
      <3>2. Freed' /\ Deadlines'
        BY <3>1, <1>0, <1>1 DEF Freed, Deadlines
      <3> QED BY <3>1, <3>2, <1>0 DEF Ranges
    <2> QED BY <2>1, <2>2
  <1>4. Ranges'
    <2>1. maxid' \in 0 .. MaxId
      BY <1>0, <1>1, <1>2, MSFacts DEF Ranges
    <2>2. \A t \in Timers : ev'[t].id <= MaxId /\ ev'[t].milliseconds \in 0 .. (2 * MS - 2)
      BY <1>0, <1>3 DEF Ranges
    <2>3. /\ last_time' \in Nat /\ stop' \in BOOLEAN /\ pc' \in Labels
          /\ now' <= MaxNow /\ back' \in 0 .. MaxBack /\ time_event_id' <= MaxId
      BY <1>0, <1>1, <1>2 DEF Ranges, Labels
    <2> QED BY <2>1, <2>2, <2>3, <1>3 DEF Ranges
  <1> QED BY <1>3, <1>4 DEF TimeInv

\* A timer that recurs gets its new deadline.
LEMMA HandlerRecursTimeInv ==
    ASSUME TInv, TimeInv, HandlerRecurs
    PROVE  TimeInv'
  <1> DEFINE s == Sec(now + PERM)
             m == Msec(now + PERM)
  <1>0. Types /\ Freed /\ Ranges /\ Deadlines
    BY DEF TInv, TimeInv
  <1>1. /\ te \in live /\ now + PERM <= MaxNow /\ pc' = "walk"
        /\ ev' = [ev EXCEPT ![te].seconds = s, ![te].milliseconds = m]
        /\ due' = [due EXCEPT ![te] = now + PERM]
        /\ UNCHANGED <<live, time_event_id, last_time, stop, now, back, maxid>>
    BY DEF HandlerRecurs, hubVars, clockVars
  <1>2. now + PERM \in Nat
    BY <1>0, TimersAssumption DEF Types
  <1>3. s \in Nat /\ m \in 0 .. (MS - 1) /\ now + PERM = MS * s + m
    BY <1>2, DivMod DEF Sec, Msec
  <1>4. ev \in [Timers -> Fields] /\ live \subseteq Timers
    BY <1>0 DEF Types
  <1> HIDE DEF s, m
  <1> DEFINE f == [ev[te] EXCEPT !.seconds = s, !.milliseconds = m]
  <1>5. /\ f.id = ev[te].id /\ f.next = ev[te].next /\ f.seconds = s /\ f.milliseconds = m
    BY <1>1, <1>4 DEF Fields
  <1>6. ev' = [ev EXCEPT ![te] = f]
    BY <1>1, <1>4
  <1> HIDE DEF f
  <1>7. ev'[te] = f /\ \A e \in Timers : e # te => ev'[e] = ev[e]
    BY <1>1, <1>4, <1>6
  <1>8. Freed'
    BY <1>0, <1>1, <1>7 DEF Freed
  <1>9. due \in [Timers -> 0 .. MaxNow] /\ now + PERM \in 0 .. MaxNow
    BY <1>0, <1>1, <1>2, MSFacts DEF Ranges
  <1>10. /\ due' \in [Timers -> 0 .. MaxNow] /\ due'[te] = now + PERM
         /\ \A e \in Timers : e # te => due'[e] = due[e]
    BY <1>1, <1>4, <1>9
  <1>11. Deadlines'
    <2> SUFFICES ASSUME NEW e \in live, ev'[e].seconds > 0
                 PROVE  MS * ev'[e].seconds + ev'[e].milliseconds <= due'[e]
      BY <1>1 DEF Deadlines
    <2>1. CASE e = te
      BY <2>1, <1>2, <1>3, <1>5, <1>7, <1>10
    <2>2. CASE e # te
      BY <2>2, <1>0, <1>4, <1>7, <1>10 DEF Deadlines
    <2> QED BY <2>1, <2>2
  <1>12. Ranges'
    <2>1. \A e \in Timers : ev'[e].id <= MaxId /\ ev'[e].milliseconds \in 0 .. (2 * MS - 2)
      <3> TAKE e \in Timers
      <3>1. CASE e = te
        BY <3>1, <1>0, <1>3, <1>5, <1>7, MSFacts DEF Ranges
      <3>2. CASE e # te
        BY <3>2, <1>0, <1>7 DEF Ranges
      <3> QED BY <3>1, <3>2
    <2> QED BY <2>1, <1>0, <1>1, <1>10 DEF Ranges, Labels
  <1> QED BY <1>8, <1>11, <1>12 DEF TimeInv

-----------------------------------------------------------------------------
(* The wait *)

\* The Max of process_events.
LEMMA MaxZero ==
    ASSUME NEW x \in Int
    PROVE  Max({0, x}) = IF x > 0 THEN x ELSE 0
  <1>1. Max({0, x}) \in {0, x} /\ \A y \in {0, x} : y <= Max({0, x})
    BY MaxIsGreatest, \A y \in {0, x} : y <= (IF x > 0 THEN x ELSE 0)
  <1> QED BY <1>1

\* The timer search_nearest_time_event returns: the head is not earlier, and of two
\* neither is.
LEMMA Nearest ==
    ASSUME Types, Ordered, Freed, time_event_head # NULL
    PROVE  /\ search_nearest_time_event \in live
           /\ ~Earlier(time_event_head, search_nearest_time_event)
           /\ Cardinality(live) <= 2 => \A t \in live : ~Earlier(t, search_nearest_time_event)
  <1>1. PICK Q : Spells(Q)
    BY SpellsExists
  <1>2. List = Q
    BY <1>1, ListIs
  <1>3. /\ Len(Q) \in Nat /\ \A i \in 1 .. Len(Q) : Q[i] \in live
        /\ \A t \in live : \E i \in 1 .. Len(Q) : Q[i] = t
    BY <1>1, SpellsFacts DEF Spells
  <1>4. time_event_head = Q[1] /\ 1 \in 1 .. Len(Q)
    BY <1>1, <1>3, SpellsLinks
  <1>5. Cardinality(live) <= 2 => Len(Q) <= 2
    BY <1>1, <1>3, SpellsCount
  <1>6. \A t, u \in live : ~Earlier(t, t) /\ (Earlier(t, u) => ~Earlier(u, t))
    BY DEF Earlier, Types, Fields
  <1> DEFINE better == {k \in 2 .. Len(Q) : Earlier(Q[k], Q[1])}
             c == IF better = {} THEN 1 ELSE Max(better)
  <1>7. search_nearest_time_event = Q[c]
    BY <1>2 DEF search_nearest_time_event
  <1>8. CASE better = {}
    <2>1. c = 1
      BY <1>8
    <2>2. \A k \in 1 .. Len(Q) : ~Earlier(Q[k], Q[1])
      <3> TAKE k \in 1 .. Len(Q)
      <3>1. CASE k = 1
        BY <3>1, <1>3, <1>6
      <3>2. CASE k # 1
        <4>1. k \in 2 .. Len(Q) /\ k \notin better
          BY <3>2, <1>3, <1>8
        <4> QED BY <4>1
      <3> QED BY <3>1, <3>2
    <2> HIDE DEF c, better
    <2> QED BY <2>1, <2>2, <1>3, <1>4, <1>7
  <1>9. CASE better # {}
    <2>1. better \in SUBSET Int /\ \A k \in better : k <= Len(Q)
      BY <1>3
    <2>2. Max(better) \in better
      <3>1. Len(Q) \in Int
        BY <1>3
      <3> HIDE DEF better
      <3> QED BY <1>9, <2>1, <3>1, MaxIsGreatest
    <2>3. c \in 2 .. Len(Q) /\ Earlier(Q[c], Q[1]) /\ c \in 1 .. Len(Q)
      <3>1. c \in better
        BY <1>9, <2>2
      <3> HIDE DEF c
      <3> QED BY <3>1, <1>3
    <2> HIDE DEF c, better
    <2>4. Q[c] \in live /\ ~Earlier(Q[1], Q[c])
      BY <1>3, <1>4, <1>6, <2>3
    <2>5. ASSUME Len(Q) <= 2 PROVE \A t \in live : ~Earlier(t, Q[c])
      <3> TAKE t \in live
      <3>1. PICK i \in 1 .. Len(Q) : Q[i] = t
        BY <1>3
      <3>2. i = 1 \/ i = c
        BY <1>3, <2>3, <2>5
      <3> QED BY <3>1, <3>2, <2>4, <1>3, <1>6
    <2> QED BY <2>4, <2>5, <1>4, <1>5, <1>7
  <1> QED BY <1>8, <1>9

\* Times of seconds and up to two seconds of milliseconds, in the order of Earlier.
LEMMA NotLater ==
    ASSUME NEW c \in live, NEW t \in live, Types, Ranges, Deadlines, ~Earlier(t, c),
           ev[c].seconds > 0
    PROVE  MS * ev[c].seconds + ev[c].milliseconds <= due[t] + 2 * MS - 2
  <1> DEFINE sc == ev[c].seconds
             mc == ev[c].milliseconds
             st == ev[t].seconds
             mt == ev[t].milliseconds
             d  == due[t]
  <1>1. /\ c \in Timers /\ t \in Timers
        /\ ev[c] \in Fields /\ ev[t] \in Fields
    BY DEF Types
  <1>2. /\ sc \in Int /\ st \in Int
        /\ mc \in 0 .. (2 * MS - 2) /\ mt \in 0 .. (2 * MS - 2) /\ d \in Nat
    BY <1>1, MSFacts DEF Ranges, Fields
  <1>3. st > sc \/ (st = sc /\ mt >= mc)
    BY <1>2 DEF Earlier
  <1>4. st > 0 => MS * st + mt <= d
    BY DEF Deadlines
  <1> HIDE DEF sc, mc, st, mt, d
  <1>5. sc > 0 => MS * sc + mc <= d + 2 * MS - 2
    <2>1. CASE st = sc /\ mt >= mc
      <3>1. MS * st \in Int /\ MS * sc = MS * st
        BY <1>2, <2>1, MSFacts
      <3> QED BY <3>1, <2>1, <1>2, <1>4, MSFacts
    <2>2. CASE st > sc
      <3>1. MS * sc <= MS * st
        BY <1>2, <2>2, MSFacts
      <3>2. MS * sc \in Int /\ MS * st \in Int
        BY <1>2, MSFacts
      <3> QED BY <3>1, <3>2, <2>2, <1>2, <1>4, MSFacts
    <2> QED BY <1>3, <2>1, <2>2
  <1> QED BY <1>5 DEF sc, mc, d

\* The seconds ComputeWait leaves the timer it chose, and the wait it computes.
Borrowed(t) ==
    IF ev[t].milliseconds < Msec(now) THEN ev[t].seconds - 1 ELSE ev[t].seconds

Remaining(t) ==
    IF ev[t].milliseconds < Msec(now) THEN ev[t].milliseconds + MS - Msec(now)
                                      ELSE ev[t].milliseconds - Msec(now)

\* The wait for the timer chosen lasts less than two seconds past the deadline of every
\* timer that is not earlier.
LEMMA WaitBound ==
    ASSUME Types, Ranges, Deadlines, NEW c \in live
    PROVE  /\ Borrowed(c) \in Int /\ Borrowed(c) <= ev[c].seconds
           /\ MS * Max({0, Borrowed(c) - Sec(now)}) + Remaining(c) \in Nat
           /\ \A t \in live : ~Earlier(t, c) =>
                 MS * Max({0, Borrowed(c) - Sec(now)}) + Remaining(c)
                    <= Max({0, due[t] - now}) + 2 * MS - 2
  <1> DEFINE s  == ev[c].seconds
             m  == ev[c].milliseconds
             ns == Sec(now)
             nm == Msec(now)
             b  == Borrowed(c)
             r  == Remaining(c)
             w  == MS * Max({0, b - ns}) + r
  <1>1. c \in Timers /\ ev[c] \in Fields
    BY DEF Types
  <1>2. s \in Int /\ m \in 0 .. (2 * MS - 2)
    BY <1>1 DEF Fields, Ranges
  <1>3. ns \in Nat /\ nm \in 0 .. (MS - 1) /\ now = MS * ns + nm
    BY DivMod DEF Types, Sec, Msec
  <1>4. /\ b = IF m < nm THEN s - 1 ELSE s
        /\ r = IF m < nm THEN m + MS - nm ELSE m - nm
    BY DEF Borrowed, Remaining
  <1>5. ASSUME NEW t \in live PROVE due[t] \in Nat
    BY <1>5, MSFacts DEF Ranges, Types
  <1>6. ASSUME NEW t \in live, ~Earlier(t, c), s > 0
        PROVE  MS * s + m <= due[t] + 2 * MS - 2
    BY <1>6, NotLater
  <1>60. now \in Nat
    BY DEF Types
  <1> HIDE DEF s, m, ns, nm, b, r
  <1>7. b \in Int /\ b <= s /\ r \in 0 .. (2 * MS - 2)
    BY <1>2, <1>3, <1>4, MSFacts
  <1>8. MS * b + r = MS * s + m - nm
    <2>1. CASE m < nm
      <3>1. b = s - 1 /\ r = m + MS - nm
        BY <2>1, <1>4
      <3>2. MS * (s - 1) = MS * s - MS
        BY <1>2, MSFacts
      <3> QED BY <3>1, <3>2, <1>2, <1>3, MSFacts
    <2>2. CASE ~(m < nm)
      <3>1. b = s /\ r = m - nm
        BY <2>2, <1>4
      <3> QED BY <3>1, <1>2, <1>3, MSFacts
    <2> QED BY <2>1, <2>2
  <1>9. Max({0, b - ns}) = IF b - ns > 0 THEN b - ns ELSE 0
    BY <1>3, <1>7, MaxZero
  <1>10. CASE b - ns > 0
    <2>1. w = MS * (b - ns) + r
      BY <1>9, <1>10
    <2>2. MS * (b - ns) = MS * b - MS * ns
      BY <1>3, <1>7, MSFacts
    <2>3. MS * (b - ns) \in Nat /\ MS * b \in Int /\ MS * ns \in Int /\ MS * s \in Int
      BY <1>2, <1>3, <1>7, <1>10, MSFacts
    <2>4. w = MS * s + m - now
      <3> HIDE DEF w
      <3>1. w = MS * b - MS * ns + r
        BY <2>1, <2>2
      <3>2. w = (MS * b + r) - MS * ns
        BY <3>1, <2>3, <1>7
      <3>3. w = (MS * s + m - nm) - MS * ns
        BY <3>2, <1>8
      <3> QED BY <3>3, <2>3, <1>2, <1>3
    <2>5. s > 0
      BY <1>2, <1>3, <1>7, <1>10
    <2> HIDE DEF w
    <2>6. ASSUME NEW t \in live, ~Earlier(t, c)
          PROVE  w <= Max({0, due[t] - now}) + 2 * MS - 2
      <3>1. Max({0, due[t] - now}) >= due[t] - now /\ Max({0, due[t] - now}) \in Int
        BY <1>5, <1>60, MaxZero
      <3>2. MS * s + m <= due[t] + 2 * MS - 2
        BY <2>5, <2>6, <1>6
      <3> QED BY <3>1, <3>2, <2>3, <2>4, <1>2, <1>5, <1>60, MSFacts
    <2>7. w \in Nat
      BY <2>1, <2>3, <1>7, MSFacts
    <2> QED BY <2>6, <2>7, <1>7 DEF w, b, s, r, ns
  <1>11. CASE ~(b - ns > 0)
    <2>1. w = r
      <3>1. w = MS * 0 + r
        BY <1>9, <1>11
      <3> QED BY <3>1, <1>7, MSFacts
    <2> HIDE DEF w
    <2>2. ASSUME NEW t \in live
          PROVE  w <= Max({0, due[t] - now}) + 2 * MS - 2
      <3>1. Max({0, due[t] - now}) >= 0 /\ Max({0, due[t] - now}) \in Int
        BY <1>5, <1>60, MaxZero
      <3> QED BY <3>1, <2>1, <1>7, MSFacts
    <2>3. w \in Nat
      BY <2>1, <1>7, MSFacts
    <2> QED BY <2>2, <2>3, <1>7 DEF w, b, s, r, ns
  <1> QED BY <1>10, <1>11

\* The steps of the walk that delete a timer.
LEMMA WalkDeletesTimeInv ==
    ASSUME TInv, TimeInv, WalkNew \/ HandlerReturns \/ \E t \in Timers : DeleteTimeEvent(t)
    PROVE  TimeInv'
  <1>1. /\ maxid \in 0 .. MaxId /\ last_time \in Nat /\ stop \in BOOLEAN /\ pc \in Labels
        /\ now <= MaxNow /\ back \in 0 .. MaxBack
    BY DEF TimeInv, Ranges
  <1>2. UNCHANGED <<last_time, stop, clockVars, maxid>> /\ pc' \in Labels
    BY <1>1 DEF WalkNew, HandlerReturns, DeleteTimeEvent, Labels
  <1>3. \/ UNCHANGED <<live, ev, hubVars, due>>
        \/ \E t \in live : Delete(t)
    <2>1. CASE WalkNew
      <3>1. te \in live
        BY <2>1 DEF WalkNew, TInv, Pass, Running
      <3>2. ev[te].next = NULL \/ ev[te].next \in live
        BY <3>1 DEF TInv, Ordered, NextIs
      <3> QED BY <2>1, <3>2 DEF WalkNew
    <2>2. CASE HandlerReturns
      BY <2>2 DEF HandlerReturns
    <2>3. CASE \E t \in Timers : DeleteTimeEvent(t)
      BY <2>3 DEF DeleteTimeEvent
    <2> QED BY <2>1, <2>2, <2>3
  <1>4. CASE UNCHANGED <<live, ev, hubVars, due>>
    BY <1>1, <1>2, <1>4, SameTimeInv DEF hubVars, clockVars
  <1>5. CASE \E t \in live : Delete(t)
    BY <1>2, <1>5, DeleteTimeInv
  <1> QED BY <1>3, <1>4, <1>5

\* The borrow takes from the timer chosen, which exists.
LEMMA ComputeWaitTimeInv ==
    ASSUME TInv, TimeInv, ComputeWait
    PROVE  /\ TimeInv'
           /\ pc' = "wait" /\ UNCHANGED <<live, hubVars, now, due>>
           /\ time_event_head = NULL => wait' = -1
           /\ time_event_head # NULL =>
                 wait' = MS * Max({0, Borrowed(search_nearest_time_event) - Sec(now)})
                            + Remaining(search_nearest_time_event)
  <1> DEFINE c == search_nearest_time_event
  <1>0. Types /\ Ordered /\ Freed /\ Ranges /\ Deadlines
    BY DEF TInv, TimeInv
  <1>1. /\ pc' = "wait"
        /\ UNCHANGED <<live, hubVars, last_time, stop, now, back, maxid, due>>
    BY DEF ComputeWait, clockVars
  <1>2. /\ maxid \in 0 .. MaxId /\ last_time \in Nat /\ stop \in BOOLEAN
        /\ now <= MaxNow /\ back \in 0 .. MaxBack
    BY <1>0 DEF Ranges
  <1>3. CASE time_event_head = NULL
    <2>1. wait' = -1 /\ ev' = ev
      BY <1>3 DEF ComputeWait
    <2>2. pc' \in Labels
      BY <1>1 DEF Labels
    <2>3. TimeInv'
      BY <1>1, <1>2, <2>1, <2>2, SameTimeInv DEF hubVars
    <2> QED BY <1>1, <1>3, <2>1, <2>3
  <1>4. CASE time_event_head # NULL
    <2>1. c \in live /\ c \in Timers /\ ev \in [Timers -> Fields]
      BY <1>0, <1>4, Nearest DEF Types
    <2>2. /\ ev' = [ev EXCEPT ![c].seconds = Borrowed(c)]
          /\ wait' = MS * Max({0, Borrowed(c) - Sec(now)}) + Remaining(c)
      BY <1>4 DEF ComputeWait, Borrowed, Remaining
    <2>3. Borrowed(c) \in Int /\ Borrowed(c) <= ev[c].seconds
      BY <1>0, <2>1, WaitBound
    <2> HIDE DEF c
    <2> DEFINE f == [ev[c] EXCEPT !.seconds = Borrowed(c)]
    <2>4. /\ f.id = ev[c].id /\ f.next = ev[c].next /\ f.milliseconds = ev[c].milliseconds
          /\ f.seconds = Borrowed(c)
      BY <2>1 DEF Fields
    <2>5. ev' = [ev EXCEPT ![c] = f]
      BY <2>2
    <2> HIDE DEF f
    <2>6. ev'[c] = f /\ \A e \in Timers : e # c => ev'[e] = ev[e]
      BY <2>1, <2>5
    <2>7. Freed'
      BY <1>0, <1>1, <2>4, <2>6 DEF Freed
    <2>8. Deadlines'
      <3> SUFFICES ASSUME NEW e \in live, ev'[e].seconds > 0
                   PROVE  MS * ev'[e].seconds + ev'[e].milliseconds <= due[e]
        BY <1>1 DEF Deadlines
      <3>1. CASE e = c
        <4> DEFINE s == ev[c].seconds
                   m == ev[c].milliseconds
                   b == Borrowed(c)
                   d == due[c]
        <4>1. ev'[e].seconds = b /\ ev'[e].milliseconds = m /\ due[e] = d /\ b > 0
          BY <3>1, <2>4, <2>6
        <4>2. s > 0 => MS * s + m <= d
          BY <1>0, <3>1 DEF Deadlines
        <4>3. s \in Int /\ b \in Int /\ b <= s /\ m \in Int /\ d \in Int
          BY <1>0, <2>1, <2>3, MSFacts DEF Fields, Ranges
        <4> HIDE DEF s, m, b, d
        <4>4. MS * b <= MS * s /\ MS * b \in Int /\ MS * s \in Int
          BY <4>3, MSFacts
        <4> QED BY <4>1, <4>2, <4>3, <4>4
      <3>2. CASE e # c
        BY <3>2, <1>0, <2>6 DEF Deadlines, Types
      <3> QED BY <3>1, <3>2
    <2>9. Ranges'
      <3>1. \A e \in Timers : ev'[e].id <= MaxId /\ ev'[e].milliseconds \in 0 .. (2 * MS - 2)
        BY <1>0, <2>1, <2>4, <2>6 DEF Ranges
      <3> QED BY <3>1, <1>0, <1>1 DEF Ranges, Labels, hubVars
    <2> QED BY <1>1, <1>4, <2>2, <2>7, <2>8, <2>9 DEF TimeInv, c
  <1> QED BY <1>3, <1>4

\* Every step keeps it.
LEMMA StepTimeInv == TInv /\ TimeInv /\ [Next]_vars => TimeInv'
  <1> SUFFICES ASSUME TInv, TimeInv, [Next]_vars PROVE TimeInv'
    OBVIOUS
  <1>1. CASE UNCHANGED vars
    <2>1. UNCHANGED <<live, ev, time_event_id, due, maxid, last_time, stop, now, back, pc>>
      BY <1>1 DEF vars, hubVars, clockVars
    <2>2. /\ maxid \in 0 .. MaxId /\ last_time \in Nat /\ stop \in BOOLEAN /\ pc \in Labels
          /\ now <= MaxNow /\ back \in 0 .. MaxBack
      BY DEF TimeInv, Ranges
    <2> QED BY <2>1, <2>2, SameTimeInv
  <1>2. CASE Client
    BY <1>2, CreateTimeInv, WalkDeletesTimeInv, QuietTimeInv DEF Client
  <1>3. CASE Loop
    BY <1>3, QuietTimeInv, ComputeWaitTimeInv, StartPassTimeInv, WalkDeletesTimeInv,
       HandlerRecursTimeInv DEF Loop
  <1>4. CASE Tick \/ \E time \in 0 .. MaxNow : SetBack(time)
    BY <1>4, ClockTimeInv
  <1> QED BY <1>1, <1>2, <1>3, <1>4 DEF Next

\* The wait that was computed, while the clock goes on.
WaitInv == wait \in Int /\ wait >= -1 /\ WaitInTime

\* The wait shortens as the clock advances.
LEMMA TickWait ==
    ASSUME Types, Ranges, WaitInv, Tick
    PROVE  WaitInv'
  <1>1. /\ UNCHANGED <<live, pc, due, time_event_head>> /\ now' = now + 1 /\ now \in Nat
        /\ wait' = IF pc = "wait" /\ wait > 0 THEN wait - 1 ELSE wait
    BY DEF Tick, hubVars, Types
  <1>2. wait' \in Int /\ wait' >= -1 /\ (wait' = -1 <=> wait = -1)
    BY <1>1 DEF WaitInv
  <1>3. ASSUME pc = "wait", NEW t \in live, wait <= Max({0, due[t] - now}) + 2 * MS - 2
        PROVE  wait' <= Max({0, due[t] - now'}) + 2 * MS - 2
    <2>1. due[t] \in Nat /\ wait \in Int
      BY MSFacts DEF Ranges, Types, WaitInv
    <2>2. Max({0, due[t] - now}) = IF due[t] - now > 0 THEN due[t] - now ELSE 0
      BY <2>1, <1>1, MaxZero
    <2>3. Max({0, due[t] - now'}) = IF due[t] - now' > 0 THEN due[t] - now' ELSE 0
      BY <2>1, <1>1, MaxZero
    <2> QED BY <2>1, <2>2, <2>3, <1>1, <1>3, MSFacts
  <1>4. WaitInTime'
    <2> SUFFICES ASSUME pc = "wait"
                 PROVE  /\ wait' = -1 <=> live = {}
                        /\ \A t \in live :
                              t = time_event_head \/ Cardinality(live) <= 2 =>
                                  wait' <= Max({0, due[t] - now'}) + 2 * MS - 2
      BY <1>1 DEF WaitInTime
    <2>1. /\ wait = -1 <=> live = {}
          /\ \A t \in live :
                t = time_event_head \/ Cardinality(live) <= 2 =>
                    wait <= Max({0, due[t] - now}) + 2 * MS - 2
      BY DEF WaitInv, WaitInTime
    <2> QED BY <2>1, <1>2, <1>3
  <1> QED BY <1>2, <1>4 DEF WaitInv

\* A clock set back only moves deadlines away.
LEMMA SetBackWait ==
    ASSUME Types, Ranges, WaitInv, NEW time \in 0 .. MaxNow, SetBack(time)
    PROVE  WaitInv'
  <1>1. /\ UNCHANGED <<live, pc, due, time_event_head, wait>>
        /\ now' = time /\ now' < now /\ now \in Nat /\ time \in Nat
    BY MSFacts DEF SetBack, hubVars, Types
  <1>3. ASSUME NEW t \in live, wait <= Max({0, due[t] - now}) + 2 * MS - 2
        PROVE  wait <= Max({0, due[t] - now'}) + 2 * MS - 2
    <2>1. due[t] \in Nat /\ wait \in Int
      BY MSFacts DEF Ranges, Types, WaitInv
    <2>2. Max({0, due[t] - now}) = IF due[t] - now > 0 THEN due[t] - now ELSE 0
      BY <2>1, <1>1, MaxZero
    <2>3. Max({0, due[t] - now'}) = IF due[t] - now' > 0 THEN due[t] - now' ELSE 0
      BY <2>1, <1>1, MaxZero
    <2> QED BY <2>1, <2>2, <2>3, <1>1, <1>3, MSFacts
  <1>4. WaitInTime'
    <2> SUFFICES ASSUME pc = "wait"
                 PROVE  /\ wait = -1 <=> live = {}
                        /\ \A t \in live :
                              t = time_event_head \/ Cardinality(live) <= 2 =>
                                  wait <= Max({0, due[t] - now'}) + 2 * MS - 2
      BY <1>1 DEF WaitInTime
    <2>1. /\ wait = -1 <=> live = {}
          /\ \A t \in live :
                t = time_event_head \/ Cardinality(live) <= 2 =>
                    wait <= Max({0, due[t] - now}) + 2 * MS - 2
      BY DEF WaitInv, WaitInTime
    <2> QED BY <2>1, <1>3
  <1> QED BY <1>1, <1>4 DEF WaitInv

\* The wait is in time when it is computed.
LEMMA ComputeWaitWait ==
    ASSUME TInv, TimeInv, ComputeWait
    PROVE  WaitInv'
  <1>0. Types /\ Ordered /\ Freed /\ Ranges /\ Deadlines
    BY DEF TInv, TimeInv
  <1> DEFINE c == search_nearest_time_event
             w == MS * Max({0, Borrowed(c) - Sec(now)}) + Remaining(c)
  <1>1. /\ pc' = "wait" /\ UNCHANGED <<live, time_event_head, now, due>>
        /\ time_event_head = NULL => wait' = -1
        /\ time_event_head # NULL => wait' = w
    BY ComputeWaitTimeInv DEF hubVars
  <1>2. time_event_head = NULL <=> live = {}
    BY <1>0 DEF Ordered, HeadIs
  <1>3. CASE time_event_head = NULL
    BY <1>1, <1>2, <1>3 DEF WaitInv, WaitInTime
  <1>4. CASE time_event_head # NULL
    <2>1. /\ c \in live /\ ~Earlier(time_event_head, c)
          /\ Cardinality(live) <= 2 => \A t \in live : ~Earlier(t, c)
      BY <1>0, <1>4, Nearest
    <2>2. /\ w \in Nat
          /\ \A t \in live : ~Earlier(t, c) => w <= Max({0, due[t] - now}) + 2 * MS - 2
      <3> HIDE DEF c
      <3> QED BY <1>0, <2>1, WaitBound
    <2> HIDE DEF c, w
    <2>3. \A t \in live : t = time_event_head \/ Cardinality(live) <= 2 => ~Earlier(t, c)
      BY <2>1
    <2>4. wait' \in Nat /\ live # {}
      BY <1>1, <1>2, <1>4, <2>2
    <2>5. wait' # -1 /\ wait' >= -1 /\ wait' \in Int
      BY <2>4
    <2>6. WaitInTime'
      <3> SUFFICES /\ wait' = -1 <=> live = {}
                   /\ \A t \in live :
                         t = time_event_head \/ Cardinality(live) <= 2 =>
                             wait' <= Max({0, due[t] - now}) + 2 * MS - 2
        BY <1>1 DEF WaitInTime
      <3> QED BY <1>1, <1>4, <2>2, <2>3, <2>4, <2>5
    <2> QED BY <2>5, <2>6 DEF WaitInv
  <1> QED BY <1>3, <1>4

\* No other step keeps or begins a wait.
LEMMA OtherWait ==
    ASSUME WaitInv, Client \/ (Loop /\ ~ComputeWait)
    PROVE  WaitInv'
  <1>1. pc' # "wait" /\ (wait' = wait \/ wait' = -1)
    <2>1. CASE Client
      BY <2>1 DEF Client, CreateTimeEvent, DeleteTimeEvent, Stop, ClientRuns
    <2>2. CASE Loop /\ ~ComputeWait
      BY <2>2 DEF Loop, HubMain, Wake, StartPass, WalkNew, WalkDue, WalkOn, WalkEnds,
                  HandlerRecurs, HandlerReturns, HandlerFreed, Leave
    <2> QED BY <2>1, <2>2
  <1> QED BY <1>1 DEF WaitInv, WaitInTime

\* Every step keeps it.
LEMMA StepWait == TInv /\ TimeInv /\ WaitInv /\ [Next]_vars => WaitInv'
  <1> SUFFICES ASSUME TInv, TimeInv, WaitInv, [Next]_vars PROVE WaitInv'
    OBVIOUS
  <1>0. Types /\ Ranges
    BY DEF TInv, TimeInv
  <1>1. CASE UNCHANGED vars
    <2>1. UNCHANGED <<live, time_event_head, due, now, wait, pc>>
      BY <1>1 DEF vars, hubVars, clockVars
    <2> QED BY <2>1 DEF WaitInv, WaitInTime
  <1>2. CASE Client \/ (Loop /\ ~ComputeWait)
    BY <1>2, OtherWait
  <1>3. CASE ComputeWait
    BY <1>3, ComputeWaitWait
  <1>4. CASE Tick
    BY <1>0, <1>4, TickWait
  <1>5. CASE \E time \in 0 .. MaxNow : SetBack(time)
    BY <1>0, <1>5, SetBackWait
  <1> QED BY <1>1, <1>2, <1>3, <1>4, <1>5 DEF Next

\* No one waits at first.
LEMMA InitWait == Init => WaitInv
  BY DEF Init, WaitInv, WaitInTime

\* The three parts together are inductive.
LEMMA TimeInvHolds == Spec => [](TInv /\ TimeInv /\ WaitInv)
  <1>1. Init => TInv /\ TimeInv /\ WaitInv
    BY InitTInv, InitTimeInv, InitWait
  <1>2. TInv /\ TimeInv /\ WaitInv /\ [Next]_vars => (TInv /\ TimeInv /\ WaitInv)'
    BY StepTInv, StepTimeInv, StepWait
  <1> QED BY <1>1, <1>2, PTL DEF Spec

-----------------------------------------------------------------------------
(* The walk's place in the list *)

Contract == own \in BOOLEAN /\ WalkContract

\* Handlers may delete any timer: only their own costs the walk its place.
LEMMA ClientContract ==
    ASSUME Contract, Client
    PROVE  Contract'
  <1>1. /\ pc \in {"stopped", "net", "handler"} /\ UNCHANGED <<pc, te, maxid>>
        /\ own \in BOOLEAN
    BY DEF Client, CreateTimeEvent, DeleteTimeEvent, Stop, ClientRuns, Contract
  <1>2. CASE pc # "handler"
    <2>1. own' \in BOOLEAN
      BY <1>1 DEF Client, CreateTimeEvent, DeleteTimeEvent, Stop
    <2> QED BY <1>1, <1>2, <2>1 DEF Contract, WalkContract, InPass
  <1>3. CASE pc = "handler"
    <2>1. te \in live \/ own
      BY <1>3 DEF Contract, WalkContract, InPass
    <2>2. te \in live' \/ own'
      <3>1. CASE \E t \in Timers, delay \in Delays : CreateTimeEvent(t, delay)
        BY <2>1, <3>1 DEF CreateTimeEvent
      <3>2. CASE \E t \in Timers : DeleteTimeEvent(t)
        BY <2>1, <3>2, <1>3 DEF DeleteTimeEvent, Delete
      <3>3. CASE Stop
        BY <2>1, <3>3 DEF Stop
      <3> QED BY <3>1, <3>2, <3>3 DEF Client
    <2>3. own' \in BOOLEAN
      BY <1>1 DEF Client, CreateTimeEvent, DeleteTimeEvent, Stop
    <2> QED BY <1>1, <1>3, <2>2, <2>3 DEF Contract, WalkContract
  <1> QED BY <1>2, <1>3

\* A walk that follows a new timer leaves that timer behind it.
LEMMA WalkNewContract ==
    ASSUME TInv, Contract, WalkNew
    PROVE  Contract'
  <1>1. /\ Types /\ Ordered /\ te \in live /\ ev[te].id > maxid
        /\ pc' = "derailed" /\ UNCHANGED <<maxid, own>>
    BY DEF TInv, Running, Pass, WalkNew
  <1>2. te \in live' /\ ev'[te].id = ev[te].id
    <2>1. CASE ev[te].next = NULL
      BY <1>1, <2>1 DEF WalkNew
    <2>2. CASE ev[te].next # NULL
      <3>1. /\ ev[te].next \in live /\ ev[te].id < ev[ev[te].next].id
            /\ ev[te].id \in Nat
        BY <1>1, <2>2 DEF Ordered, NextIs, Types, Fields
      <3>2. ev[te].next # te
        BY <3>1
      <3>3. Delete(ev[te].next) /\ live' = live \ {ev[te].next}
        BY <2>2 DEF WalkNew, Delete
      <3> QED BY <1>1, <3>1, <3>2, <3>3, DeleteFields
    <2> QED BY <2>1, <2>2
  <1>3. \E t \in live' : ev'[t].id > maxid'
    BY <1>1, <1>2
  <1> QED BY <1>1, <1>3 DEF Contract, WalkContract

\* The other steps keep the walk's place, or are not in a pass.
LEMMA LoopContract ==
    ASSUME TInv, TInv', Contract, Loop
    PROVE  Contract'
  <1>1. CASE WalkNew
    BY <1>1, WalkNewContract
  <1>2. CASE StartPass \/ WalkOn \/ HandlerRecurs \/ HandlerReturns
    <2>1. pc' = "walk" /\ own' \in BOOLEAN
      BY <1>2 DEF StartPass, WalkOn, HandlerRecurs, HandlerReturns, Contract
    <2>2. WalkContract'
      BY <2>1 DEF TInv, Running, Pass, WalkContract
    <2> QED BY <2>1, <2>2 DEF Contract
  <1>3. CASE WalkDue
    <2>1. te \in live /\ pc' = "handler" /\ UNCHANGED <<live, te, own>>
      BY <1>3 DEF WalkDue, TInv, Running, Pass
    <2> QED BY <2>1 DEF Contract, WalkContract
  <1>4. CASE HandlerFreed
    <2>1. own /\ pc' = "freed" /\ UNCHANGED own
      BY <1>4 DEF HandlerFreed, Contract, WalkContract, InPass
    <2> QED BY <2>1 DEF Contract, WalkContract
  <1>5. CASE HubMain \/ ComputeWait \/ Wake \/ WalkEnds \/ Leave
    <2>1. pc' \in {"compute", "wait", "net", "stopped"} /\ UNCHANGED own
      BY <1>5 DEF HubMain, ComputeWait, Wake, WalkEnds, Leave
    <2> QED BY <2>1 DEF Contract, WalkContract, InPass
  <1> QED BY <1>1, <1>2, <1>3, <1>4, <1>5 DEF Loop

\* Every step keeps the contract.
LEMMA StepContract == TInv /\ TInv' /\ Contract /\ [Next]_vars => Contract'
  <1> SUFFICES ASSUME TInv, TInv', Contract, [Next]_vars PROVE Contract'
    OBVIOUS
  <1>1. CASE UNCHANGED vars \/ Tick \/ \E time \in 0 .. MaxNow : SetBack(time)
    <2>1. UNCHANGED <<live, ev, pc, te, maxid, own>>
      BY <1>1 DEF vars, Tick, SetBack
    <2> QED BY <2>1 DEF Contract, WalkContract, InPass
  <1>2. CASE Client
    BY <1>2, ClientContract
  <1>3. CASE Loop
    BY <1>3, LoopContract
  <1> QED BY <1>1, <1>2, <1>3 DEF Next

\* So it holds in every state.
LEMMA ContractHolds == Spec => []Contract
  <1>1. Init => Contract
    BY DEF Init, Contract, WalkContract, InPass
  <1>2. TInv /\ TInv' /\ Contract /\ [Next]_vars => Contract'
    BY StepContract
  <1> QED BY <1>1, <1>2, TInvHolds, PTL DEF Spec

-----------------------------------------------------------------------------
(* The theorems *)

\* process_time_event loses its place in the list in two cases only: a handler made a
\* timer in this pass that is still there when the walk meets it, or a handler deleted the
\* timer it runs for.  However many other timers handlers delete, it never does.
THEOREM WalkContractHolds == Spec => []WalkContract
  <1>1. Contract => WalkContract
    BY DEF Contract
  <1> QED BY <1>1, ContractHolds, PTL

\* process_time_event returns only when every timer that was due at its start, or
\* every timer after the clock was set back, has run or been deleted.
THEOREM PassServesDueHolds == Spec => []PassServesDue
  <1>1. TInv => PassServesDue
    BY DEF TInv, Running, Pass, PassServesDue
  <1> QED BY <1>1, TInvHolds, PTL

\* The variables of the hub stay in their types: the milliseconds of a timer, added
\* without a carry, stay below two seconds, and the timeout given to epoll_wait is never
\* below -1.
THEOREM TimersTypeCorrect == Spec => []TypeOK
  <1>1. TInv /\ TimeInv /\ WaitInv /\ Contract => TypeOK
    <2> SUFFICES ASSUME Types, Ranges, WaitInv, own \in BOOLEAN PROVE TypeOK
      BY DEF TInv, TimeInv, Contract
    <2>1. ev \in [Timers -> [id : 0 .. MaxId, seconds : Int,
                             milliseconds : 0 .. (2 * MS - 2),
                             next : Timers \cup {NULL}, prev : Timers \cup {NULL}]]
      <3>1. \A t \in Timers : ev[t] \in [id : 0 .. MaxId, seconds : Int,
                             milliseconds : 0 .. (2 * MS - 2),
                             next : Timers \cup {NULL}, prev : Timers \cup {NULL}]
        BY MSFacts DEF Types, Ranges, Fields, Link
      <3> QED BY <3>1 DEF Types
    <2>2. /\ time_event_id \in 0 .. MaxId /\ maxid \in 0 .. MaxId
          /\ last_time \in Nat /\ stop \in BOOLEAN
          /\ now \in 0 .. MaxNow /\ back \in 0 .. MaxBack
          /\ pc \in Labels
          /\ due \in [Timers -> 0 .. MaxNow]
      BY MSFacts DEF Types, Ranges
    <2> QED BY <2>1, <2>2 DEF TypeOK, Types, Link, WaitInv
  <1> QED BY <1>1, TimeInvHolds, ContractHolds, PTL

\* Whatever handlers create and delete, a walk from head along next meets every timer that
\* exists and no other, in the order of the ids, and prev leads back.
THEOREM ListSpellsTimersHolds == Spec => []ListSpellsTimers
  <1>1. TInv /\ TimeInv => ListSpellsTimers
    <2> SUFFICES ASSUME Types, Ordered, Freed PROVE ListSpellsTimers
      BY DEF TInv, TimeInv
    <2>1. PICK Q : Spells(Q)
      BY SpellsExists
    <2>2. List = Q
      BY <2>1, ListIs
    <2>3. /\ Len(Q) \in Nat /\ Q \in Seq(live)
          /\ \A i \in 1 .. Len(Q) : Q[i] \in live
          /\ \A i, j \in 1 .. Len(Q) : i < j => ev[Q[i]].id < ev[Q[j]].id
          /\ \A t \in live : \E i \in 1 .. Len(Q) : Q[i] = t
      BY <2>1, SpellsFacts DEF Spells
    <2>4. /\ time_event_head = IF Len(Q) = 0 THEN NULL ELSE Q[1]
          /\ time_event_tail = IF Len(Q) = 0 THEN NULL ELSE Q[Len(Q)]
          /\ \A i \in 1 .. Len(Q) :
                /\ ev[Q[i]].next = IF i = Len(Q) THEN NULL ELSE Q[i + 1]
                /\ ev[Q[i]].prev = IF i = 1 THEN NULL ELSE Q[i - 1]
      BY <2>1, SpellsLinks
    <2>5. ToSet(Q) = live
      BY <2>3 DEF ToSet
    <2>6. IF Q = <<>> THEN time_event_tail = NULL
          ELSE /\ time_event_tail = Last(Q)
               /\ ev[time_event_head].prev = NULL
               /\ ev[time_event_tail].next = NULL
      <3>1. CASE Len(Q) = 0
        <4>1. Q = <<>>
          BY <3>1, <2>3
        <4> QED BY <3>1, <4>1, <2>4
      <3>2. CASE Len(Q) # 0
        <4>1. Q # <<>> /\ 1 \in 1 .. Len(Q) /\ Len(Q) \in 1 .. Len(Q)
          BY <3>2, <2>3
        <4> QED BY <3>2, <4>1, <2>4 DEF Last
      <3> QED BY <3>1, <3>2
    <2>7. ASSUME NEW k \in 2 .. Len(Q)
          PROVE  ev[Q[k]].prev = Q[k - 1] /\ ev[Q[k - 1]].id < ev[Q[k]].id
      <3>1. k \in 1 .. Len(Q) /\ k - 1 \in 1 .. Len(Q) /\ k - 1 < k /\ k # 1
        BY <2>3
      <3> QED BY <3>1, <2>3, <2>4, Zenon
    <2> QED BY <2>2, <2>5, <2>6, <2>7 DEF ListSpellsTimers
  <1> QED BY <1>1, TimeInvHolds, PTL

\* process_events never asks epoll_wait to sleep two seconds past the deadline of the first
\* timer, nor, of two timers, of either, although search_nearest_time_event may choose the
\* wrong one.
THEOREM WaitInTimeHolds == Spec => []WaitInTime
  <1>1. WaitInv => WaitInTime
    BY DEF WaitInv
  <1> QED BY <1>1, TimeInvHolds, PTL
=============================================================================
