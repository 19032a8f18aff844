-------------------------- MODULE TcpServer_proofs --------------------------
(***************************************************************************)
(* Proofs about TcpServer for any number of I/O loops, connections and     *)
(* descriptors: where a connection is on its way through the two loops,    *)
(* and how the pool shares the connections among its loops.                *)
(***************************************************************************)
EXTENDS TcpServer, SequenceTheorems, FiniteSetTheorems, TLAPS

Loops == 0..MaxThreads

(* What may stand in pendingFunctors_ of a loop.                            *)
Names == {"connectEstablished", "removeConnection", "connectDestroyed"}
Entry == Names \X Nat

Connection ==
    [loop : Loops, state : {"connecting", "connected", "disconnecting", "disconnected"},
     channel : {"none", "watched", "disabled", "removed"}, ups : Nat, downs : Nat]

TypeOK ==
    /\ numThreads \in Loops
    /\ next \in Nat /\ (next < numThreads \/ next = 0)
    /\ conns \in Seq(Connection)
    /\ connections \subseteq DOMAIN conns
    /\ queue \in [Loops -> Seq(Entry)]
    /\ alive \in BOOLEAN

(* The functors about connection i in a queue q, and in all queues Q.       *)
About(i, q) == \E k \in 1..Len(q) : q[k][2] = i
Only(f, i, q) ==
    \E k \in 1..Len(q) : q[k] = <<f, i>> /\ \A j \in 1..Len(q) : q[j][2] = i => j = k

NoneAbout(Q, i) == \A l \in Loops : ~About(i, Q[l])
OneAbout(Q, f, i, l) ==
    /\ l \in Loops
    /\ Only(f, i, Q[l])
    /\ \A m \in Loops \ {l} : ~About(i, Q[m])

(* Q with one more functor in loop l.                                       *)
Queued(Q, l, f, i) == [Q EXCEPT ![l] = Append(@, <<f, i>>)]

(* What the user of a connection heard                                      *)
Told(k, u, d) == k.ups = u /\ k.downs = d

(* The places of a connection k with number i: waiting for                  *)
(* connectEstablished(), up, waiting for removeConnectionInLoop() in the    *)
(* base loop, waiting for connectDestroyed() in its own, and past it.       *)
Waiting(k, held, Q, i) ==
    /\ k.state = "connecting" /\ k.channel = "none" /\ k.loop # base /\ held
    /\ OneAbout(Q, "connectEstablished", i, k.loop) /\ Told(k, 0, 0)
Up(k, held, Q, i) ==
    /\ k.state \in {"connected", "disconnecting"} /\ k.channel = "watched" /\ held
    /\ NoneAbout(Q, i) /\ Told(k, 1, 0)
AtBase(k, held, Q, i) ==
    /\ k.state = "disconnected" /\ k.channel = "disabled" /\ k.loop # base /\ held
    /\ OneAbout(Q, "removeConnection", i, base) /\ Told(k, 1, 1)
Erased(k, held, Q, i) ==
    /\ k.state = "disconnected" /\ k.channel = "disabled" /\ ~held
    /\ OneAbout(Q, "connectDestroyed", i, k.loop) /\ Told(k, 1, 1)
Gone(k, held, Q, i) ==
    /\ k.state = "disconnected" /\ k.channel = "removed" /\ ~held
    /\ NoneAbout(Q, i) /\ Told(k, 1, 1)

(* The sixth place: ~TcpServer() met the connection behind shutdown().      *)
Cut(k) ==
    /\ k.state = "disconnecting" /\ k.channel = "removed" /\ k.loop = base
    /\ Told(k, 1, 0)

PlaceOf(k, held, Q, i) ==
    \/ Waiting(k, held, Q, i) \/ Up(k, held, Q, i) \/ AtBase(k, held, Q, i)
    \/ Erased(k, held, Q, i) \/ Gone(k, held, Q, i)
    \/ Cut(k) /\ ~held /\ NoneAbout(Q, i)

SomeCut == \E i \in DOMAIN conns : Cut(conns[i])

Places ==
    /\ \A i \in DOMAIN conns : PlaceOf(conns[i], i \in connections, queue, i)
    /\ \A i \in Nat \ DOMAIN conns : NoneAbout(queue, i)
    /\ ~alive => connections = {}
    /\ SomeCut => ~alive
    /\ failed = IF SomeCut THEN {"isNoneEvent"} ELSE {}

(* Every I/O loop got turns connections, and those the pool has served in   *)
(* the present turn one more.                                               *)
Turns ==
    /\ \A i \in DOMAIN conns : conns[i].loop \in GetAllLoops
    /\ \E turns \in Nat : \A l \in 1..numThreads :
          Assigned(l) = IF l <= next THEN turns + 1 ELSE turns

-----------------------------------------------------------------------------
(* One queue.                                                               *)

\* queueInLoop() of a functor
LEMMA AppendAbout ==
    ASSUME NEW q \in Seq(Entry), NEW e \in Entry, NEW i
    PROVE  /\ About(i, Append(q, e)) <=> About(i, q) \/ e[2] = i
           /\ ~About(i, q) /\ e[2] = i => Only(e[1], i, Append(q, e))
           /\ \A f : Only(f, i, q) /\ e[2] # i => Only(f, i, Append(q, e))
<1>1. /\ Len(q) \in Nat /\ Len(Append(q, e)) = Len(q) + 1
      /\ \A k \in 1..Len(q) : Append(q, e)[k] = q[k]
      /\ Append(q, e)[Len(q) + 1] = e
  BY AppendProperties, LenProperties
<1>2. 1..Len(Append(q, e)) = 1..Len(q) \cup {Len(q) + 1}
  BY <1>1
<1>3. About(i, Append(q, e)) <=> About(i, q) \/ e[2] = i
  BY <1>1, <1>2 DEF About
<1>4. ASSUME ~About(i, q), e[2] = i PROVE Only(e[1], i, Append(q, e))
  <2>1. e = <<e[1], i>>
    BY <1>4 DEF Entry
  <2> QED
    BY <1>1, <1>2, <1>4, <2>1 DEF About, Only
<1>5. ASSUME NEW f, Only(f, i, q), e[2] # i PROVE Only(f, i, Append(q, e))
  BY <1>1, <1>2, <1>5 DEF Only
<1> QED
  BY <1>3, <1>4, <1>5

\* doPendingFunctors() takes the first one.
LEMMA TailAbout ==
    ASSUME NEW q \in Seq(Entry), q # <<>>, NEW i
    PROVE  /\ About(i, q) <=> About(i, Tail(q)) \/ Head(q)[2] = i
           /\ \A f : Only(f, i, q) /\ Head(q)[2] = i
                 => Head(q) = <<f, i>> /\ ~About(i, Tail(q))
           /\ \A f : Only(f, i, q) /\ Head(q)[2] # i => Only(f, i, Tail(q))
<1>1. /\ Len(q) \in Nat /\ Len(q) > 0 /\ Len(Tail(q)) = Len(q) - 1
      /\ Head(q) = q[1]
      /\ \A k \in 1..Len(Tail(q)) : k + 1 \in 1..Len(q) /\ Tail(q)[k] = q[k + 1]
  BY HeadTailProperties, LenProperties, EmptySeq
<1>2. \A k \in 1..Len(q) : k # 1 => k - 1 \in 1..Len(Tail(q)) /\ Tail(q)[k - 1] = q[k]
  BY <1>1
<1>3. About(i, q) <=> About(i, Tail(q)) \/ Head(q)[2] = i
  <2>1. About(i, Tail(q)) => About(i, q)
    BY <1>1 DEF About
  <2>2. Head(q)[2] = i => About(i, q)
    BY <1>1 DEF About
  <2>3. About(i, q) => About(i, Tail(q)) \/ Head(q)[2] = i
    BY <1>1, <1>2 DEF About
  <2> QED
    BY <2>1, <2>2, <2>3
<1>4. ASSUME NEW f, Only(f, i, q)
      PROVE  /\ Head(q)[2] = i => Head(q) = <<f, i>> /\ ~About(i, Tail(q))
             /\ Head(q)[2] # i => Only(f, i, Tail(q))
  <2>1. PICK k \in 1..Len(q) :
           q[k] = <<f, i>> /\ \A j \in 1..Len(q) : q[j][2] = i => j = k
    BY <1>4 DEF Only
  <2>2. ASSUME Head(q)[2] = i PROVE Head(q) = <<f, i>> /\ ~About(i, Tail(q))
    <3>1. k = 1
      BY <1>1, <2>1, <2>2
    <3>2. \A j \in 1..Len(Tail(q)) : Tail(q)[j][2] # i
      BY <1>1, <2>1, <3>1
    <3> QED
      BY <1>1, <2>1, <3>1, <3>2 DEF About
  <2>3. ASSUME Head(q)[2] # i PROVE Only(f, i, Tail(q))
    <3>1. k # 1
      BY <1>1, <2>1, <2>3
    <3>2. k - 1 \in 1..Len(Tail(q)) /\ Tail(q)[k - 1] = <<f, i>>
      BY <1>2, <2>1, <3>1
    <3>3. \A j \in 1..Len(Tail(q)) : Tail(q)[j][2] = i => j = k - 1
      BY <1>1, <2>1
    <3> QED
      BY <3>2, <3>3 DEF Only
  <2> QED
    BY <2>2, <2>3
<1> QED
  BY <1>3, <1>4

-----------------------------------------------------------------------------
(* All queues.                                                              *)

\* A functor is queued in loop l: the other connections stay where they are.
LEMMA QueuedAbout ==
    ASSUME NEW Q \in [Loops -> Seq(Entry)], NEW l \in Loops, NEW f \in Names, NEW i \in Nat
    PROVE  /\ Queued(Q, l, f, i) \in [Loops -> Seq(Entry)]
           /\ \A k, held, j : j # i /\ PlaceOf(k, held, Q, j)
                 => PlaceOf(k, held, Queued(Q, l, f, i), j)
           /\ \A j : j # i /\ NoneAbout(Q, j) => NoneAbout(Queued(Q, l, f, i), j)
           /\ NoneAbout(Q, i) => OneAbout(Queued(Q, l, f, i), f, i, l)
<1> DEFINE R == Queued(Q, l, f, i)
           e == <<f, i>>
<1>1. e \in Entry /\ e[1] = f /\ e[2] = i
  BY DEF Entry
<1> HIDE DEF e
<1>2. /\ R \in [Loops -> Seq(Entry)] /\ R[l] = Append(Q[l], e)
      /\ \A m \in Loops \ {l} : R[m] = Q[m]
      /\ Q[l] \in Seq(Entry)
  BY <1>1, AppendProperties DEF Queued, e
<1> HIDE DEF R
<1>3. /\ \A j : About(j, R[l]) <=> About(j, Q[l]) \/ e[2] = j
      /\ \A j : ~About(j, Q[l]) /\ e[2] = j => Only(e[1], j, R[l])
      /\ \A j, g : Only(g, j, Q[l]) /\ e[2] # j => Only(g, j, R[l])
  <2>1. /\ \A j : About(j, Append(Q[l], e)) <=> About(j, Q[l]) \/ e[2] = j
        /\ \A j : ~About(j, Q[l]) /\ e[2] = j => Only(e[1], j, Append(Q[l], e))
        /\ \A j, g : Only(g, j, Q[l]) /\ e[2] # j => Only(g, j, Append(Q[l], e))
    BY <1>1, <1>2, AppendAbout, Zenon
  <2> QED
    BY <1>2, <2>1, Zenon
<1>4. ASSUME NEW j, j # i, NoneAbout(Q, j) PROVE NoneAbout(R, j)
  BY <1>1, <1>2, <1>3, <1>4 DEF NoneAbout
<1>5. ASSUME NEW j, NEW g, NEW m, j # i, OneAbout(Q, g, j, m) PROVE OneAbout(R, g, j, m)
  <2>1. Only(g, j, R[m])
    BY <1>1, <1>2, <1>3, <1>5 DEF OneAbout
  <2>2. \A n \in Loops \ {m} : ~About(j, R[n])
    BY <1>1, <1>2, <1>3, <1>5 DEF OneAbout
  <2> QED
    BY <1>5, <2>1, <2>2 DEF OneAbout
<1>6. ASSUME NoneAbout(Q, i) PROVE OneAbout(R, f, i, l)
  BY <1>1, <1>2, <1>3, <1>6 DEF NoneAbout, OneAbout
<1>7. ASSUME NEW k, NEW held, NEW j, j # i, PlaceOf(k, held, Q, j)
      PROVE  PlaceOf(k, held, R, j)
  BY <1>4, <1>5, <1>7 DEF PlaceOf, Waiting, Up, AtBase, Erased, Gone
<1> QED
  BY <1>2, <1>4, <1>6, <1>7 DEF R

\* The first functor of loop l is taken: so do they, and the connection that it
\* was about is about to be in another place.
LEMMA PoppedAbout ==
    ASSUME NEW Q \in [Loops -> Seq(Entry)], NEW l \in Loops, NEW f, NEW i,
           Q[l] # <<>>, Head(Q[l]) = <<f, i>>
    PROVE  /\ Popped(Q, l) \in [Loops -> Seq(Entry)]
           /\ \A k, held, j : j # i /\ PlaceOf(k, held, Q, j)
                 => PlaceOf(k, held, Popped(Q, l), j)
           /\ \A j : NoneAbout(Q, j) => NoneAbout(Popped(Q, l), j)
           /\ ~NoneAbout(Q, i)
           /\ \A g, m : OneAbout(Q, g, i, m)
                 => g = f /\ m = l /\ NoneAbout(Popped(Q, l), i)
<1> DEFINE R == Popped(Q, l)
           e == Head(Q[l])
<1>1. e[1] = f /\ e[2] = i
  OBVIOUS
<1>2. /\ R \in [Loops -> Seq(Entry)] /\ R[l] = Tail(Q[l])
      /\ \A m \in Loops \ {l} : R[m] = Q[m]
      /\ Q[l] \in Seq(Entry)
  BY HeadTailProperties DEF Popped
<1> HIDE DEF R
<1>3. /\ \A j : About(j, Q[l]) <=> About(j, R[l]) \/ e[2] = j
      /\ \A j, g : Only(g, j, Q[l]) /\ e[2] = j => e = <<g, j>> /\ ~About(j, R[l])
      /\ \A j, g : Only(g, j, Q[l]) /\ e[2] # j => Only(g, j, R[l])
  <2>1. /\ \A j : About(j, Q[l]) <=> About(j, Tail(Q[l])) \/ Head(Q[l])[2] = j
        /\ \A j, g : Only(g, j, Q[l]) /\ Head(Q[l])[2] = j
              => Head(Q[l]) = <<g, j>> /\ ~About(j, Tail(Q[l]))
        /\ \A j, g : Only(g, j, Q[l]) /\ Head(Q[l])[2] # j => Only(g, j, Tail(Q[l]))
    BY <1>2, TailAbout, Zenon
  <2> QED
    BY <1>2, <2>1, Zenon
<1> HIDE DEF e
<1>4. ASSUME NEW j, NoneAbout(Q, j) PROVE NoneAbout(R, j)
  BY <1>2, <1>3, <1>4 DEF NoneAbout
<1>5. ASSUME NEW j, NEW g, NEW m, j # i, OneAbout(Q, g, j, m) PROVE OneAbout(R, g, j, m)
  <2>1. Only(g, j, R[m])
    BY <1>1, <1>2, <1>3, <1>5 DEF OneAbout
  <2>2. \A n \in Loops \ {m} : ~About(j, R[n])
    BY <1>1, <1>2, <1>3, <1>5 DEF OneAbout
  <2> QED
    BY <1>5, <2>1, <2>2 DEF OneAbout
<1>6. ~NoneAbout(Q, i)
  BY <1>1, <1>3 DEF NoneAbout
<1>7. ASSUME NEW g, NEW m, OneAbout(Q, g, i, m)
      PROVE  g = f /\ m = l /\ NoneAbout(R, i)
  <2>1. m = l
    BY <1>1, <1>3, <1>7 DEF OneAbout
  <2>2. e = <<g, i>> /\ ~About(i, R[l])
    BY <1>1, <1>3, <1>7, <2>1 DEF OneAbout
  <2>3. g = f
    BY <1>1, <2>2
  <2>4. NoneAbout(R, i)
    BY <1>2, <1>7, <2>1, <2>2 DEF OneAbout, NoneAbout
  <2> QED
    BY <2>1, <2>3, <2>4
<1>8. ASSUME NEW k, NEW held, NEW j, j # i, PlaceOf(k, held, Q, j)
      PROVE  PlaceOf(k, held, R, j)
  BY <1>4, <1>5, <1>8 DEF PlaceOf, Waiting, Up, AtBase, Erased, Gone
<1> QED
  BY <1>2, <1>4, <1>6, <1>7, <1>8 DEF R

-----------------------------------------------------------------------------
(* The steps.                                                               *)

\* conns' is conns but for connection i, which becomes k in the same loop.
Becomes(i, k) ==
    /\ conns' \in Seq(Connection)
    /\ DOMAIN conns' = DOMAIN conns
    /\ conns'[i] = k /\ k.loop = conns[i].loop
    /\ \A j \in DOMAIN conns \ {i} : conns'[j] = conns[j]

\* A handler that changes one connection
LEMMA ConnectionBecomes ==
    ASSUME TypeOK, NEW i \in DOMAIN conns, NEW k \in Connection, k.loop = conns[i].loop,
           conns' = [conns EXCEPT ![i] = k]
    PROVE  Becomes(i, k)
<1>1. conns \in Seq(Connection) /\ DOMAIN conns = 1..Len(conns) /\ Len(conns) \in Nat
  BY LenProperties DEF TypeOK
<1>2. conns' \in [1..Len(conns) -> Connection] /\ conns'[i] = k
  BY <1>1, ElementOfSeq
<1>3. conns' \in Seq(Connection)
  BY <1>1, <1>2, IsASeq
<1> QED
  BY <1>1, <1>2, <1>3 DEF Becomes

\* A connection is a record, its number a natural number.
LEMMA ConnectionType ==
    ASSUME TypeOK, NEW i \in DOMAIN conns
    PROVE  conns[i] \in Connection /\ i \in Nat
<1>1. conns \in Seq(Connection) /\ DOMAIN conns = 1..Len(conns) /\ Len(conns) \in Nat
  BY LenProperties DEF TypeOK
<1> QED
  BY <1>1, ElementOfSeq

\* What the three functions of the life of a connection make of it
LEMMA ConnectionEffect ==
    ASSUME NEW c \in Connection
    PROVE  /\ /\ Established(c) \in Connection /\ Established(c).loop = c.loop
              /\ Established(c).state = "connected" /\ Established(c).channel = "watched"
              /\ Established(c).ups = c.ups + 1 /\ Established(c).downs = c.downs
           /\ /\ Closed(c) \in Connection /\ Closed(c).loop = c.loop
              /\ Closed(c).state = "disconnected" /\ Closed(c).channel = "disabled"
              /\ Closed(c).ups = c.ups /\ Closed(c).downs = c.downs + 1
           /\ /\ Destroyed(c) \in Connection /\ Destroyed(c).loop = c.loop
              /\ Destroyed(c).channel = "removed" /\ Destroyed(c).ups = c.ups
              /\ IF c.state = "connected"
                 THEN Destroyed(c).state = "disconnected" /\ Destroyed(c).downs = c.downs + 1
                 ELSE Destroyed(c).state = c.state /\ Destroyed(c).downs = c.downs
<1> DEFINE E == [c EXCEPT !.state = "connected", !.channel = "watched"]
           C == [c EXCEPT !.state = "disconnected", !.channel = "disabled"]
<1>1. c.ups + 1 \in Nat /\ c.downs + 1 \in Nat
  BY DEF Connection
<1>2. /\ E \in Connection /\ E.loop = c.loop /\ E.ups = c.ups /\ E.downs = c.downs
      /\ E.state = "connected" /\ E.channel = "watched"
  BY DEF Connection
<1>3. /\ C \in Connection /\ C.loop = c.loop /\ C.ups = c.ups /\ C.downs = c.downs
      /\ C.state = "disconnected" /\ C.channel = "disabled"
  BY DEF Connection
<1>4. Established(c) = [E EXCEPT !.ups = c.ups + 1] /\ Closed(c) = [C EXCEPT !.downs = c.downs + 1]
  BY DEF Established, Closed
<1> HIDE DEF E, C
<1>5. /\ Established(c) \in Connection /\ Established(c).loop = c.loop
      /\ Established(c).state = "connected" /\ Established(c).channel = "watched"
      /\ Established(c).ups = c.ups + 1 /\ Established(c).downs = c.downs
  BY <1>1, <1>2, <1>4 DEF Connection
<1>6. /\ Closed(c) \in Connection /\ Closed(c).loop = c.loop
      /\ Closed(c).state = "disconnected" /\ Closed(c).channel = "disabled"
      /\ Closed(c).ups = c.ups /\ Closed(c).downs = c.downs + 1
  BY <1>1, <1>3, <1>4 DEF Connection
<1>7. \A k \in Connection :
         /\ [k EXCEPT !.channel = "removed"] \in Connection
         /\ [k EXCEPT !.channel = "removed"].loop = k.loop
         /\ [k EXCEPT !.channel = "removed"].state = k.state
         /\ [k EXCEPT !.channel = "removed"].channel = "removed"
         /\ [k EXCEPT !.channel = "removed"].ups = k.ups
         /\ [k EXCEPT !.channel = "removed"].downs = k.downs
  BY DEF Connection
<1>8. Destroyed(c) = IF c.state = "connected" THEN [Closed(c) EXCEPT !.channel = "removed"]
                                              ELSE [c EXCEPT !.channel = "removed"]
  BY DEF Destroyed
<1>9. /\ Destroyed(c) \in Connection /\ Destroyed(c).loop = c.loop
      /\ Destroyed(c).channel = "removed" /\ Destroyed(c).ups = c.ups
      /\ IF c.state = "connected"
         THEN Destroyed(c).state = "disconnected" /\ Destroyed(c).downs = c.downs + 1
         ELSE Destroyed(c).state = c.state /\ Destroyed(c).downs = c.downs
  <2>1. CASE c.state = "connected"
    BY <1>6, <1>7, <1>8, <2>1
  <2>2. CASE c.state # "connected"
    BY <1>7, <1>8, <2>2
  <2> QED
    BY <2>1, <2>2
<1> QED
  BY <1>5, <1>6, <1>9

\* The loop that the pool gives out is one of its loops.
LEMMA NextLoop ==
    ASSUME TypeOK
    PROVE  /\ GetNextLoop \in Loops /\ GetNextLoop \in GetAllLoops
           /\ AdvanceNext \in Nat /\ (AdvanceNext < numThreads \/ AdvanceNext = 0)
  BY ServerAssumption DEF TypeOK, Loops, GetNextLoop, GetAllLoops, AdvanceNext, base

\* A step that moves connection i alone keeps every connection in a place.
LEMMA OneMoves ==
    ASSUME TypeOK, Places, NEW i \in DOMAIN conns,
           DOMAIN conns' = DOMAIN conns,
           \A j \in DOMAIN conns \ {i} : conns'[j] = conns[j],
           \A k, held, j : j # i /\ PlaceOf(k, held, queue, j) => PlaceOf(k, held, queue', j),
           \A j : j # i /\ NoneAbout(queue, j) => NoneAbout(queue', j),
           \A j : j # i => (j \in connections' <=> j \in connections),
           PlaceOf(conns'[i], i \in connections', queue', i),
           ~Cut(conns[i]), ~Cut(conns'[i]),
           failed' = failed, alive' = alive, connections' \subseteq connections
    PROVE  Places'
<1>1. \A j \in DOMAIN conns' : PlaceOf(conns'[j], j \in connections', queue', j)
  <2> TAKE j \in DOMAIN conns'
  <2>1. CASE j = i
    BY <2>1
  <2>2. CASE j # i
    <3>1. PlaceOf(conns[j], j \in connections, queue, j)
      BY DEF Places
    <3>2. PlaceOf(conns[j], j \in connections, queue', j)
      BY <2>2, <3>1
    <3>3. conns'[j] = conns[j] /\ (j \in connections' <=> j \in connections)
      BY <2>2
    <3> QED
      BY <3>2, <3>3 DEF PlaceOf
  <2> QED
    BY <2>1, <2>2
<1>2. \A j \in Nat \ DOMAIN conns' : NoneAbout(queue', j)
  BY DEF Places
<1>3. ~alive' => connections' = {}
  BY DEF Places
<1>4. SomeCut' <=> SomeCut
  BY DEF SomeCut, Cut, Told
<1> QED
  BY <1>1, <1>2, <1>3, <1>4 DEF Places, PlaceOf, Waiting, Up, AtBase, Erased, Gone, Cut,
      Told, NoneAbout, OneAbout, Only, About

\* newConnection() puts the connection into its first place.
LEMMA AcceptStep == ASSUME TypeOK, Places, Accept PROVE TypeOK' /\ Places'
<1> DEFINE i == Len(conns) + 1
           l == GetNextLoop
<1>1. /\ conns \in Seq(Connection) /\ DOMAIN conns = 1..Len(conns) /\ Len(conns) \in Nat
      /\ queue \in [Loops -> Seq(Entry)]
  BY LenProperties DEF TypeOK
<1>2. /\ conns' = Append(conns, NewConnection(l)) /\ connections' = connections \cup {i}
      /\ queue' = IF l = base THEN queue
                  ELSE Queued(queue, l, "connectEstablished", i)
      /\ next' = AdvanceNext
      /\ UNCHANGED <<numThreads, alive, failed>> /\ alive
  BY DEF Accept, Queued
<1>3. l \in Loops
  BY NextLoop
<1>4. NewConnection(l) \in Connection
  BY <1>3 DEF NewConnection, Connection
<1>5. /\ conns' \in Seq(Connection) /\ Len(conns') = i
      /\ \A j \in 1..Len(conns) : conns'[j] = conns[j]
      /\ conns'[i] = NewConnection(l)
  BY <1>1, <1>2, <1>4, AppendProperties
<1>6. DOMAIN conns' = DOMAIN conns \cup {i} /\ i \notin DOMAIN conns /\ i \in Nat
  BY <1>1, <1>5, LenProperties
<1>7. NoneAbout(queue, i)
  BY <1>6 DEF Places
<1> HIDE DEF i, l
<1>8. /\ queue' \in [Loops -> Seq(Entry)]
      /\ \A k, held, j : j # i /\ PlaceOf(k, held, queue, j) => PlaceOf(k, held, queue', j)
      /\ \A j : j # i /\ NoneAbout(queue, j) => NoneAbout(queue', j)
  <2>1. CASE l = base
    BY <1>1, <1>2, <2>1
  <2>2. CASE l # base
    <3>1. /\ queue' = Queued(queue, l, "connectEstablished", i)
          /\ "connectEstablished" \in Names
      BY <1>2, <2>2 DEF Names
    <3> QED
      BY <1>1, <1>3, <1>6, <3>1, QueuedAbout
  <2> QED
    BY <2>1, <2>2
<1>9. PlaceOf(conns'[i], i \in connections', queue', i)
  <2>1. CASE l = base
    BY <1>2, <1>5, <1>7, <2>1 DEF PlaceOf, Up, Told, NewConnection
  <2>2. CASE l # base
    <3>1. OneAbout(queue', "connectEstablished", i, l)
      <4>1. /\ queue' = Queued(queue, l, "connectEstablished", i)
            /\ "connectEstablished" \in Names
        BY <1>2, <2>2 DEF Names
      <4> QED
        BY <1>1, <1>3, <1>6, <1>7, <4>1, QueuedAbout
    <3>2. /\ conns'[i].state = "connecting" /\ conns'[i].channel = "none"
          /\ conns'[i].loop = l /\ i \in connections' /\ Told(conns'[i], 0, 0)
      BY <1>2, <1>5, <2>2 DEF NewConnection, Told
    <3> QED
      BY <2>2, <3>1, <3>2 DEF PlaceOf, Waiting
  <2> QED
    BY <2>1, <2>2
<1>10. \A j \in DOMAIN conns' : PlaceOf(conns'[j], j \in connections', queue', j)
  <2> TAKE j \in DOMAIN conns'
  <2>1. CASE j = i
    BY <1>9, <2>1
  <2>2. CASE j # i
    <3>1. j \in DOMAIN conns /\ conns'[j] = conns[j] /\ (j \in connections' <=> j \in connections)
      BY <1>1, <1>2, <1>5, <1>6, <2>2
    <3>2. PlaceOf(conns[j], j \in connections, queue', j)
      BY <1>8, <2>2, <3>1 DEF Places
    <3> QED
      BY <3>1, <3>2 DEF PlaceOf
  <2> QED
    BY <2>1, <2>2
<1>11. \A j \in Nat \ DOMAIN conns' : NoneAbout(queue', j)
  BY <1>6, <1>8 DEF Places
<1>12. TypeOK'
  BY <1>2, <1>5, <1>6, <1>8, NextLoop DEF TypeOK
<1>13. alive' /\ failed' = {} /\ ~SomeCut'
  <2>1. ~SomeCut /\ ~Cut(conns'[i])
    BY <1>2, <1>5 DEF Places, Cut, NewConnection
  <2> QED
    BY <1>1, <1>2, <1>5, <1>6, <2>1 DEF Places, SomeCut, Cut, Told
<1> QED
  BY <1>10, <1>11, <1>12, <1>13 DEF Places, PlaceOf, Waiting, Up, AtBase, Erased, Gone, Cut,
      Told, NoneAbout, OneAbout, Only, About

\* handleClose() takes an open connection to the base loop's queue, or in the
\* base loop out of connections_ at once.
LEMMA CloseStep ==
    ASSUME TypeOK, Places, NEW i \in DOMAIN conns, HandleClose(i)
    PROVE  TypeOK' /\ Places'
<1> DEFINE k == Closed(conns[i])
<1>0. conns[i] \in Connection /\ i \in Nat
  BY ConnectionType
<1>1. /\ conns[i].channel = "watched" /\ UNCHANGED <<numThreads, next, alive>>
      /\ conns' = [conns EXCEPT ![i] = k]
  BY DEF HandleClose
<1>3. i \in connections /\ NoneAbout(queue, i) /\ alive /\ Told(conns[i], 1, 0)
  BY <1>1 DEF Places, PlaceOf, Waiting, Up, AtBase, Erased, Gone, Cut
<1>2. /\ k \in Connection /\ k.state = "disconnected" /\ k.channel = "disabled"
      /\ k.loop = conns[i].loop /\ Told(k, 1, 1) /\ ~Cut(k) /\ ~Cut(conns[i])
  BY <1>0, <1>1, <1>3, ConnectionEffect DEF Told, Cut
<1> HIDE DEF k
<1>9. Becomes(i, k)
  BY <1>1, <1>2, ConnectionBecomes
<1>4. /\ queue \in [Loops -> Seq(Entry)] /\ conns[i].loop \in Loops /\ base \in Loops
  BY <1>0, ServerAssumption DEF TypeOK, Connection, Loops, base
<1>5. CASE conns[i].loop = base
  <2>1. /\ queue' = Queued(queue, base, "connectDestroyed", i)
        /\ connections' = connections \ {i}
        /\ failed' = failed
    BY <1>3, <1>5 DEF HandleClose, RemoveConnectionInLoop, QueueDestroyed, Queued
  <2>2. /\ queue' \in [Loops -> Seq(Entry)]
        /\ \A h, held, j : j # i /\ PlaceOf(h, held, queue, j) => PlaceOf(h, held, queue', j)
        /\ \A j : j # i /\ NoneAbout(queue, j) => NoneAbout(queue', j)
        /\ OneAbout(queue', "connectDestroyed", i, base)
    <3>1. "connectDestroyed" \in Names
      BY DEF Names
    <3> QED
      BY <1>0, <1>3, <1>4, <2>1, <3>1, QueuedAbout
  <2>3. PlaceOf(conns'[i], i \in connections', queue', i)
    BY <1>2, <1>5, <1>9, <2>1, <2>2 DEF PlaceOf, Erased, Becomes
  <2>4. Places'
    BY <1>1, <1>2, <1>9, <2>1, <2>2, <2>3, OneMoves DEF Becomes
  <2> QED
    BY <1>1, <1>9, <2>1, <2>2, <2>4 DEF TypeOK, Becomes
<1>6. CASE conns[i].loop # base
  <2>1. /\ queue' = Queued(queue, base, "removeConnection", i)
        /\ connections' = connections /\ failed' = failed
    BY <1>6 DEF HandleClose, Queued
  <2>2. /\ queue' \in [Loops -> Seq(Entry)]
        /\ \A h, held, j : j # i /\ PlaceOf(h, held, queue, j) => PlaceOf(h, held, queue', j)
        /\ \A j : j # i /\ NoneAbout(queue, j) => NoneAbout(queue', j)
        /\ OneAbout(queue', "removeConnection", i, base)
    <3>1. "removeConnection" \in Names
      BY DEF Names
    <3> QED
      BY <1>0, <1>3, <1>4, <2>1, <3>1, QueuedAbout
  <2>3. PlaceOf(conns'[i], i \in connections', queue', i)
    BY <1>2, <1>3, <1>6, <1>9, <2>1, <2>2 DEF PlaceOf, AtBase, Becomes
  <2>4. Places'
    BY <1>1, <1>2, <1>9, <2>1, <2>2, <2>3, OneMoves DEF Becomes
  <2> QED
    BY <1>1, <1>9, <2>1, <2>2, <2>4 DEF TypeOK, Becomes
<1> QED
  BY <1>5, <1>6

\* shutdown() leaves the connection up.
LEMMA ShutdownStep ==
    ASSUME TypeOK, Places, NEW i \in DOMAIN conns, Shutdown(i)
    PROVE  TypeOK' /\ Places'
<1> DEFINE k == [conns[i] EXCEPT !.state = "disconnecting"]
<1>1. conns[i] \in Connection /\ conns[i].state = "connected"
  BY ConnectionType DEF Shutdown
<1>2. /\ conns' = [conns EXCEPT ![i] = k]
      /\ UNCHANGED <<numThreads, next, connections, queue, alive, failed>>
  BY DEF Shutdown
<1>3. Up(conns[i], i \in connections, queue, i)
  BY <1>1 DEF Places, PlaceOf, Waiting, AtBase, Erased, Gone, Cut
<1>4. /\ k \in Connection /\ k.loop = conns[i].loop /\ ~Cut(k) /\ ~Cut(conns[i])
      /\ Up(k, i \in connections, queue, i)
  BY <1>1, <1>3 DEF Connection, Up, Cut, Told
<1> HIDE DEF k
<1>5. Becomes(i, k)
  BY <1>2, <1>4, ConnectionBecomes
<1>6. PlaceOf(conns'[i], i \in connections', queue', i)
  BY <1>2, <1>4, <1>5 DEF PlaceOf, Becomes
<1>7. Places'
  BY <1>2, <1>4, <1>5, <1>6, OneMoves DEF Becomes
<1> QED
  BY <1>2, <1>5, <1>7 DEF TypeOK, Becomes

\* The functor at the head of a queue says in which place its connection is.
LEMMA FunctorPlace ==
    ASSUME TypeOK, Places, NEW l \in Loops, NEW i \in DOMAIN conns, NEW f, Functor(l, f, i)
    PROVE  /\ Popped(queue, l) \in [Loops -> Seq(Entry)]
           /\ \A k, held, j : j # i /\ PlaceOf(k, held, queue, j)
                 => PlaceOf(k, held, Popped(queue, l), j)
           /\ \A j : NoneAbout(queue, j) => NoneAbout(Popped(queue, l), j)
           /\ NoneAbout(Popped(queue, l), i)
           /\ f = "connectEstablished" =>
                 /\ l = conns[i].loop /\ i \in connections
                 /\ conns[i].state = "connecting" /\ Told(conns[i], 0, 0)
           /\ f = "removeConnection" =>
                 /\ l = base /\ i \in connections /\ conns[i].loop # base
                 /\ conns[i].state = "disconnected" /\ conns[i].channel = "disabled"
                 /\ Told(conns[i], 1, 1)
           /\ f = "connectDestroyed" =>
                 /\ l = conns[i].loop /\ i \notin connections
                 /\ conns[i].state = "disconnected" /\ conns[i].channel = "disabled"
                 /\ Told(conns[i], 1, 1)
<1>1. queue \in [Loops -> Seq(Entry)] /\ queue[l] # <<>> /\ Head(queue[l]) = <<f, i>>
  BY DEF TypeOK, Functor
<1>2. /\ Popped(queue, l) \in [Loops -> Seq(Entry)]
      /\ \A k, held, j : j # i /\ PlaceOf(k, held, queue, j)
            => PlaceOf(k, held, Popped(queue, l), j)
      /\ \A j : NoneAbout(queue, j) => NoneAbout(Popped(queue, l), j)
      /\ ~NoneAbout(queue, i)
      /\ \A g, m : OneAbout(queue, g, i, m)
            => g = f /\ m = l /\ NoneAbout(Popped(queue, l), i)
  BY <1>1, PoppedAbout, Zenon
<1>3. PlaceOf(conns[i], i \in connections, queue, i)
  BY DEF Places
<1> QED
  BY <1>2, <1>3 DEF PlaceOf, Waiting, Up, AtBase, Erased, Gone

\* connectEstablished() finds the connection connecting.
LEMMA EstablishedStep ==
    ASSUME TypeOK, Places, NEW l \in Loops, NEW i \in DOMAIN conns, ConnectEstablished(l, i)
    PROVE  TypeOK' /\ Places'
<1> DEFINE k == Established(conns[i])
<1>0. conns[i] \in Connection
  BY ConnectionType
<1>1. /\ Functor(l, "connectEstablished", i) /\ queue' = Popped(queue, l)
      /\ conns' = [conns EXCEPT ![i] = k]
      /\ failed' = failed \cup IF conns[i].state = "connecting" THEN {} ELSE {"kConnecting"}
      /\ UNCHANGED <<numThreads, next, connections, alive>>
  BY DEF ConnectEstablished
<1>2. /\ queue' \in [Loops -> Seq(Entry)]
      /\ \A h, held, j : j # i /\ PlaceOf(h, held, queue, j) => PlaceOf(h, held, queue', j)
      /\ \A j : NoneAbout(queue, j) => NoneAbout(queue', j)
      /\ NoneAbout(queue', i) /\ conns[i].state = "connecting" /\ i \in connections
      /\ Told(conns[i], 0, 0)
  BY <1>1, FunctorPlace
<1>3. failed' = failed
  BY <1>1, <1>2
<1>4. /\ k \in Connection /\ k.loop = conns[i].loop /\ ~Cut(k) /\ ~Cut(conns[i])
      /\ k.state = "connected" /\ k.channel = "watched" /\ Told(k, 1, 0)
  BY <1>0, <1>2, ConnectionEffect DEF Told, Cut
<1> HIDE DEF k
<1>5. Becomes(i, k)
  BY <1>1, <1>4, ConnectionBecomes
<1>6. PlaceOf(conns'[i], i \in connections', queue', i)
  BY <1>1, <1>2, <1>4, <1>5 DEF PlaceOf, Up, Becomes
<1>7. Places'
  BY <1>1, <1>2, <1>3, <1>4, <1>5, <1>6, OneMoves DEF Becomes
<1> QED
  BY <1>1, <1>2, <1>5, <1>7 DEF TypeOK, Becomes

\* connectDestroyed() takes the connection to its last place.
LEMMA DestroyedStep ==
    ASSUME TypeOK, Places, NEW l \in Loops, NEW i \in DOMAIN conns, ConnectDestroyed(l, i)
    PROVE  TypeOK' /\ Places'
<1> DEFINE k == [conns[i] EXCEPT !.channel = "removed"]
<1>0. conns[i] \in Connection
  BY ConnectionType
<1>1. /\ Functor(l, "connectDestroyed", i) /\ queue' = Popped(queue, l)
      /\ conns' = [conns EXCEPT ![i] = Destroyed(conns[i])]
      /\ failed' = failed \cup RemoveAsserts(conns[i])
      /\ UNCHANGED <<numThreads, next, connections, alive>>
  BY DEF ConnectDestroyed
<1>2. /\ queue' \in [Loops -> Seq(Entry)]
      /\ \A h, held, j : j # i /\ PlaceOf(h, held, queue, j) => PlaceOf(h, held, queue', j)
      /\ \A j : NoneAbout(queue, j) => NoneAbout(queue', j)
      /\ NoneAbout(queue', i) /\ i \notin connections
      /\ conns[i].state = "disconnected" /\ conns[i].channel = "disabled"
      /\ Told(conns[i], 1, 1)
  BY <1>1, FunctorPlace
<1>3. failed' = failed /\ conns' = [conns EXCEPT ![i] = k]
  BY <1>1, <1>2 DEF RemoveAsserts, Destroyed
<1>4. /\ k \in Connection /\ k.loop = conns[i].loop /\ ~Cut(k) /\ ~Cut(conns[i])
      /\ k.state = "disconnected" /\ k.channel = "removed" /\ Told(k, 1, 1)
  BY <1>0, <1>2 DEF Connection, Told, Cut
<1> HIDE DEF k
<1>5. Becomes(i, k)
  BY <1>3, <1>4, ConnectionBecomes
<1>6. PlaceOf(conns'[i], i \in connections', queue', i)
  BY <1>1, <1>2, <1>4, <1>5 DEF PlaceOf, Gone, Becomes
<1>7. Places'
  BY <1>1, <1>2, <1>3, <1>4, <1>5, <1>6, OneMoves DEF Becomes
<1> QED
  BY <1>1, <1>2, <1>5, <1>7 DEF TypeOK, Becomes

\* removeConnectionInLoop() finds the connection in connections_ and queues
\* connectDestroyed() in the connection's own loop.
LEMMA RemoveStep ==
    ASSUME TypeOK, Places, NEW l \in Loops, NEW i \in DOMAIN conns, RunRemoveConnection(l, i)
    PROVE  TypeOK' /\ Places'
<1> DEFINE m == conns[i].loop
           P == Popped(queue, l)
<1>1. /\ Functor(l, "removeConnection", i)
      /\ queue' = Popped(QueueDestroyed(i), l)
      /\ connections' = connections \ {i}
      /\ failed' = failed \cup IF i \in connections /\ alive THEN {} ELSE {"n == 1"}
      /\ UNCHANGED <<numThreads, next, conns, alive>>
  BY DEF RunRemoveConnection, RemoveConnectionInLoop
<1>2. /\ P \in [Loops -> Seq(Entry)]
      /\ \A k, held, j : j # i /\ PlaceOf(k, held, queue, j) => PlaceOf(k, held, P, j)
      /\ \A j : NoneAbout(queue, j) => NoneAbout(P, j)
      /\ NoneAbout(P, i) /\ i \in connections /\ l = base /\ m # base
      /\ conns[i].state = "disconnected" /\ conns[i].channel = "disabled"
      /\ Told(conns[i], 1, 1)
  <2>1. /\ P \in [Loops -> Seq(Entry)] /\ NoneAbout(P, i)
        /\ \A k, held, j : j # i /\ PlaceOf(k, held, queue, j) => PlaceOf(k, held, P, j)
        /\ \A j : NoneAbout(queue, j) => NoneAbout(P, j)
    BY <1>1, FunctorPlace, Zenon
  <2>2. /\ i \in connections /\ l = base /\ m # base
        /\ conns[i].state = "disconnected" /\ conns[i].channel = "disabled"
        /\ Told(conns[i], 1, 1)
    BY <1>1, FunctorPlace, Zenon
  <2> QED
    BY <2>1, <2>2
<1>3. m \in Loops /\ i \in Nat /\ queue \in [Loops -> Seq(Entry)]
  BY ConnectionType DEF Connection, TypeOK
<1>4. queue' = Queued(P, m, "connectDestroyed", i)
  BY <1>1, <1>2, <1>3 DEF QueueDestroyed, Popped, Queued
<1> HIDE DEF P, m
<1>5. /\ queue' \in [Loops -> Seq(Entry)]
      /\ \A k, held, j : j # i /\ PlaceOf(k, held, P, j) => PlaceOf(k, held, queue', j)
      /\ \A j : j # i /\ NoneAbout(P, j) => NoneAbout(queue', j)
      /\ OneAbout(queue', "connectDestroyed", i, m)
  <2>1. "connectDestroyed" \in Names
    BY DEF Names
  <2> QED
    BY <1>2, <1>3, <1>4, <2>1, QueuedAbout
<1>6. failed' = failed
  <2>1. alive
    BY <1>2 DEF Places
  <2> QED
    BY <1>1, <1>2, <2>1
<1>7. PlaceOf(conns'[i], i \in connections', queue', i)
  BY <1>1, <1>2, <1>5 DEF PlaceOf, Erased, m
<1>8. Places'
  <2>1. /\ \A k, held, j : j # i /\ PlaceOf(k, held, queue, j) => PlaceOf(k, held, queue', j)
        /\ \A j : j # i /\ NoneAbout(queue, j) => NoneAbout(queue', j)
    BY <1>2, <1>5
  <2> QED
    BY <1>1, <1>2, <1>6, <1>7, <2>1, OneMoves DEF Cut
<1> QED
  BY <1>1, <1>5, <1>6, <1>8 DEF TypeOK

\* ~TcpServer() takes the connections of the base loop to their last place.
LEMMA DestructStep == ASSUME TypeOK, Places, Destruct PROVE TypeOK' /\ Places'
<1>1. /\ conns' = [i \in DOMAIN conns |->
                     IF i \in connections THEN Destroyed(conns[i]) ELSE conns[i]]
      /\ \A i \in Existing : conns[i].loop = base
      /\ failed' = failed \cup UNION {RemoveAsserts(conns[i]) : i \in connections}
      /\ connections' = {} /\ alive' = FALSE /\ alive
      /\ UNCHANGED <<numThreads, next, queue>>
  BY DEF Destruct
<1>2. conns \in Seq(Connection) /\ DOMAIN conns = 1..Len(conns) /\ Len(conns) \in Nat
  BY LenProperties DEF TypeOK
<1>3. \A i \in DOMAIN conns : conns[i] \in Connection /\ Destroyed(conns[i]) \in Connection
  <2> TAKE i \in DOMAIN conns
  <2>1. conns[i] \in Connection
    BY ConnectionType
  <2> QED
    BY <2>1, ConnectionEffect
<1>4. conns' \in Seq(Connection) /\ DOMAIN conns' = DOMAIN conns
  <2>1. conns' \in [1..Len(conns) -> Connection]
    BY <1>1, <1>2, <1>3
  <2> QED
    BY <1>2, <2>1, IsASeq
<1>5. ~SomeCut /\ failed = {}
  BY <1>1 DEF Places
<1>6. ASSUME NEW i \in connections
      PROVE  /\ i \in DOMAIN conns /\ NoneAbout(queue, i)
             /\ \/ /\ RemoveAsserts(conns[i]) = {}
                   /\ conns'[i].state = "disconnected" /\ conns'[i].channel = "removed"
                   /\ Told(conns'[i], 1, 1)
                \/ RemoveAsserts(conns[i]) = {"isNoneEvent"} /\ Cut(conns'[i])
  <2>1. i \in DOMAIN conns /\ conns[i].loop = base /\ conns[i] \in Connection
    BY <1>1, <1>3 DEF Existing, TypeOK
  <2>2. Up(conns[i], TRUE, queue, i)
    BY <2>1 DEF Places, PlaceOf, Waiting, Up, AtBase, Erased, Gone
  <2>3. conns'[i] = Destroyed(conns[i])
    BY <1>1, <2>1
  <2>4. CASE conns[i].state = "connected"
    BY <2>1, <2>2, <2>3, <2>4, ConnectionEffect DEF Up, RemoveAsserts, Told
  <2>5. CASE conns[i].state = "disconnecting"
    BY <2>1, <2>2, <2>3, <2>5, ConnectionEffect DEF Up, RemoveAsserts, Told, Cut
  <2> QED
    BY <2>1, <2>2, <2>4, <2>5 DEF Up
<1>7. ASSUME NEW i \in DOMAIN conns, i \notin connections
      PROVE  conns'[i] = conns[i] /\ ~Cut(conns'[i])
  BY <1>1, <1>5, <1>7 DEF SomeCut
<1>8. ASSUME NEW i \in DOMAIN conns PROVE PlaceOf(conns'[i], i \in connections', queue', i)
  <2>1. CASE i \in connections
    BY <1>1, <1>6, <2>1 DEF PlaceOf, Gone
  <2>2. CASE i \notin connections
    <3>1. PlaceOf(conns[i], i \in connections, queue, i)
      BY DEF Places
    <3> QED
      BY <1>1, <1>7, <2>2, <3>1 DEF PlaceOf, Waiting, Up, AtBase, Erased, Gone
  <2> QED
    BY <2>1, <2>2
<1>9. SomeCut' <=> \E i \in connections : RemoveAsserts(conns[i]) = {"isNoneEvent"}
  <2>1. \A i \in connections : Cut(conns'[i]) <=> RemoveAsserts(conns[i]) = {"isNoneEvent"}
    BY <1>6 DEF Cut
  <2>2. SomeCut' <=> \E i \in DOMAIN conns : Cut(conns'[i])
    BY <1>4 DEF SomeCut, Cut, Told
  <2> QED
    BY <1>6, <1>7, <2>1, <2>2
<1>10. failed' = IF SomeCut' THEN {"isNoneEvent"} ELSE {}
  <2>1. \A i \in connections : RemoveAsserts(conns[i]) \in {{}, {"isNoneEvent"}}
    BY <1>6
  <2> QED
    BY <1>1, <1>5, <1>9, <2>1
<1>11. \A i \in DOMAIN conns' : PlaceOf(conns'[i], i \in connections', queue', i)
  BY <1>4, <1>8
<1>12. \A i \in Nat \ DOMAIN conns' : NoneAbout(queue', i)
  BY <1>1, <1>4 DEF Places
<1>13. Places'
  BY <1>1, <1>10, <1>11, <1>12 DEF Places, PlaceOf, Waiting, Up, AtBase, Erased, Gone, Cut,
      Told, NoneAbout, OneAbout, Only, About
<1>14. TypeOK'
  BY <1>1, <1>4 DEF TypeOK
<1> QED
  BY <1>13, <1>14

\* What a connection is about is left alone by start(), by a peer that
\* connects, and by accept() at the limit.
LEMMA QuietStep ==
    ASSUME TypeOK, Places,
           UNCHANGED <<numThreads, next, conns, connections, queue, alive, failed>>
    PROVE  TypeOK' /\ Places'
<1>1. TypeOK'
  BY DEF TypeOK
<1>2. /\ \A i \in DOMAIN conns' : PlaceOf(conns'[i], i \in connections', queue', i)
      /\ \A i \in Nat \ DOMAIN conns' : NoneAbout(queue', i)
  BY DEF Places
<1>3. SomeCut' <=> SomeCut
  BY DEF SomeCut, Cut, Told
<1>4. Places'
  BY <1>2, <1>3 DEF Places, PlaceOf, Waiting, Up, AtBase, Erased, Gone, Cut, Told,
      NoneAbout, OneAbout, Only, About
<1> QED
  BY <1>1, <1>4

\* Init: no connection, empty queues
LEMMA InitPlaces == ServerInit => TypeOK /\ Places
<1> SUFFICES ASSUME ServerInit PROVE TypeOK /\ Places
  OBVIOUS
<1>1. /\ conns = <<>> /\ connections = {} /\ queue = [l \in Loops |-> <<>>]
      /\ numThreads \in Loops /\ next = 0 /\ alive = TRUE /\ failed = {}
  BY DEF ServerInit, Loops
<1>2. conns \in Seq(Connection) /\ DOMAIN conns = {} /\ <<>> \in Seq(Entry)
  BY <1>1
<1>3. TypeOK
  BY <1>1, <1>2 DEF TypeOK
<1>4. \A i : NoneAbout(queue, i)
  BY <1>1 DEF NoneAbout, About
<1> QED
  BY <1>1, <1>2, <1>3, <1>4 DEF Places, SomeCut

\* Every step keeps every connection in one of its places.
LEMMA StepPlaces == TypeOK /\ Places /\ [ServerNext]_serverVars => TypeOK' /\ Places'
<1> SUFFICES ASSUME TypeOK, Places, [ServerNext]_serverVars PROVE TypeOK' /\ Places'
  OBVIOUS
<1>1. CASE Start \/ Arrive \/ AcceptExhausted \/ UNCHANGED serverVars
  <2>1. UNCHANGED <<numThreads, next, conns, connections, queue, alive, failed>>
    BY <1>1 DEF Start, Arrive, AcceptExhausted, serverVars
  <2> QED
    BY <2>1, QuietStep
<1>2. CASE Accept
  BY <1>2, AcceptStep
<1>3. CASE Destruct
  BY <1>3, DestructStep
<1>4. CASE \E i \in DOMAIN conns : HandleClose(i) \/ Shutdown(i)
  BY <1>4, CloseStep, ShutdownStep
<1>5. CASE \E l \in DOMAIN queue : LoopStep(l)
  <2>1. DOMAIN queue = Loops
    BY DEF TypeOK
  <2>2. PICK l \in Loops : LoopStep(l)
    BY <1>5, <2>1
  <2>3. PICK i \in DOMAIN conns :
           ConnectEstablished(l, i) \/ RunRemoveConnection(l, i) \/ ConnectDestroyed(l, i)
    BY <2>2 DEF LoopStep
  <2> QED
    BY <2>3, EstablishedStep, RemoveStep, DestroyedStep
<1> QED
  BY <1>1, <1>2, <1>3, <1>4, <1>5 DEF ServerNext

LEMMA PlacesInvariant == ServerSpec => [](TypeOK /\ Places)
<1>1. ServerInit => TypeOK /\ Places
  BY InitPlaces
<1>2. (TypeOK /\ Places) /\ [ServerNext]_serverVars => (TypeOK /\ Places)'
  BY StepPlaces
<1> QED
  BY <1>1, <1>2, PTL DEF ServerSpec

\* A connection that no functor and no entry of connections_ points to has left
\* the poller, is down, and told its user up once and down once, and no
\* assertion on its way has failed: with any number of loops, connections and
\* descriptors, in every order of the functors of the loops, whatever closes
\* and shuts down when.  The exception is a connection of the base loop that
\* ~TcpServer() meets behind shutdown().
THEOREM ServerLifeCycle == ServerSpec => []LifeCycleKept
<1>1. TypeOK /\ Places => LifeCycleKept
  <2> SUFFICES ASSUME TypeOK, Places PROVE LifeCycleKept
    OBVIOUS
  <2>1. ASSUME NEW i \in DOMAIN conns \ Existing
        PROVE  Gone(conns[i], FALSE, queue, i) \/ Cut(conns[i])
    <3>1. i \notin connections
      BY DEF Existing
    <3>2. \A l \in Loops : \A k \in DOMAIN queue[l] : queue[l][k][2] # i
      BY DEF Existing, TypeOK
    <3>3. \A l \in Loops : DOMAIN queue[l] = 1..Len(queue[l])
      BY LenProperties DEF TypeOK
    <3>4. \A l \in Loops : ~About(i, queue[l])
      BY <3>2, <3>3 DEF About
    <3>5. ASSUME NEW f, NEW l, OneAbout(queue, f, i, l) PROVE FALSE
      BY <3>2, <3>3, <3>5 DEF OneAbout, Only
    <3>6. PlaceOf(conns[i], i \in connections, queue, i)
      BY DEF Places
    <3> QED
      BY <3>1, <3>5, <3>6 DEF PlaceOf, Waiting, Up, AtBase, Erased, Gone
  <2>2. \A i \in DOMAIN conns : LeftOpen(i) <=> Cut(conns[i])
    BY DEF Places, SomeCut, Cut, Told, LeftOpen, Heard
  <2>3. \A i \in DOMAIN conns \ Existing :
           \/ conns[i].state = "disconnected" /\ conns[i].channel = "removed" /\ Heard(i, 1, 1)
           \/ LeftOpen(i)
    BY <2>1, <2>2 DEF Gone, Told, Heard
  <2> QED
    BY <2>2, <2>3 DEF LifeCycleKept, Places, SomeCut
<1> QED
  BY <1>1, PlacesInvariant, PTL

-----------------------------------------------------------------------------
(* Round robin.                                                             *)

\* Every step but accept() leaves each connection in the loop it was given.
LEMMA LoopsStay ==
    ASSUME TypeOK, [ServerNext]_serverVars, ~Accept
    PROVE  /\ UNCHANGED <<numThreads, next>>
           /\ DOMAIN conns' = DOMAIN conns
           /\ \A j \in DOMAIN conns : conns'[j].loop = conns[j].loop
<1>0. \A j \in DOMAIN conns : conns[j] \in Connection
  BY ConnectionType
<1>1. CASE Start \/ Arrive \/ AcceptExhausted \/ UNCHANGED serverVars
  BY <1>1 DEF Start, Arrive, AcceptExhausted, serverVars
<1>2. CASE Destruct
  <2>1. /\ conns' = [i \in DOMAIN conns |->
                     IF i \in connections THEN Destroyed(conns[i]) ELSE conns[i]]
        /\ UNCHANGED <<numThreads, next>>
    BY <1>2 DEF Destruct
  <2> QED
    BY <1>0, <2>1, ConnectionEffect
<1>3. ASSUME NEW i \in DOMAIN conns, NEW k, k.loop = conns[i].loop,
             conns' = [conns EXCEPT ![i] = k], UNCHANGED <<numThreads, next>>
      PROVE  /\ UNCHANGED <<numThreads, next>> /\ DOMAIN conns' = DOMAIN conns
             /\ \A j \in DOMAIN conns : conns'[j].loop = conns[j].loop
  <2>1. DOMAIN conns' = DOMAIN conns
    BY <1>3
  <2>2. conns \in [DOMAIN conns -> Connection]
    BY <1>0, LenProperties DEF TypeOK
  <2> QED
    BY <1>3, <2>1, <2>2
<1>4. CASE \E i \in DOMAIN conns : HandleClose(i) \/ Shutdown(i)
  <2>1. PICK i \in DOMAIN conns : HandleClose(i) \/ Shutdown(i)
    BY <1>4
  <2>2. conns[i] \in Connection
    BY <1>0
  <2>3. CASE HandleClose(i)
    <3>1. Closed(conns[i]).loop = conns[i].loop
      BY <2>2, ConnectionEffect
    <3>2. /\ conns' = [conns EXCEPT ![i] = Closed(conns[i])]
          /\ UNCHANGED <<numThreads, next>>
      BY <2>3 DEF HandleClose
    <3> QED
      BY <1>3, <3>1, <3>2
  <2>4. CASE Shutdown(i)
    <3> DEFINE k == [conns[i] EXCEPT !.state = "disconnecting"]
    <3>1. k.loop = conns[i].loop
      BY <2>2 DEF Connection
    <3>2. conns' = [conns EXCEPT ![i] = k] /\ UNCHANGED <<numThreads, next>>
      BY <2>4 DEF Shutdown
    <3> HIDE DEF k
    <3> QED
      BY <1>3, <3>1, <3>2
  <2> QED
    BY <2>1, <2>3, <2>4
<1>5. CASE \E l \in DOMAIN queue : LoopStep(l)
  <2>1. PICK l \in DOMAIN queue, i \in DOMAIN conns :
           ConnectEstablished(l, i) \/ RunRemoveConnection(l, i) \/ ConnectDestroyed(l, i)
    BY <1>5 DEF LoopStep
  <2>2. conns[i] \in Connection
    BY <1>0
  <2>3. CASE ConnectEstablished(l, i)
    <3>1. Established(conns[i]).loop = conns[i].loop
      BY <2>2, ConnectionEffect
    <3>2. /\ conns' = [conns EXCEPT ![i] = Established(conns[i])]
          /\ UNCHANGED <<numThreads, next>>
      BY <2>3 DEF ConnectEstablished
    <3> QED
      BY <1>3, <3>1, <3>2
  <2>4. CASE RunRemoveConnection(l, i)
    BY <2>4 DEF RunRemoveConnection
  <2>5. CASE ConnectDestroyed(l, i)
    <3>1. Destroyed(conns[i]).loop = conns[i].loop
      BY <2>2, ConnectionEffect
    <3>2. /\ conns' = [conns EXCEPT ![i] = Destroyed(conns[i])]
          /\ UNCHANGED <<numThreads, next>>
      BY <2>5 DEF ConnectDestroyed
    <3> QED
      BY <1>3, <3>1, <3>2
  <2> QED
    BY <2>1, <2>3, <2>4, <2>5
<1> QED
  BY <1>1, <1>2, <1>4, <1>5 DEF ServerNext

\* The connections of a loop can be counted.
LEMMA AssignedCounts ==
    ASSUME TypeOK, NEW l
    PROVE  IsFiniteSet({i \in DOMAIN conns : conns[i].loop = l}) /\ Assigned(l) \in Nat
<1>1. DOMAIN conns = 1..Len(conns) /\ Len(conns) \in Nat
  BY LenProperties DEF TypeOK
<1>2. IsFiniteSet(1..Len(conns))
  BY <1>1, FS_Interval
<1>3. {i \in DOMAIN conns : conns[i].loop = l} \subseteq 1..Len(conns)
  BY <1>1
<1>4. IsFiniteSet({i \in DOMAIN conns : conns[i].loop = l})
  BY <1>2, <1>3, FS_Subset
<1> QED
  BY <1>4, FS_CardinalityType DEF Assigned

\* accept() gives the loop whose turn it is one connection more, and the
\* others none.
LEMMA AcceptTurn ==
    ASSUME TypeOK, Accept
    PROVE  /\ next' = AdvanceNext /\ numThreads' = numThreads
           /\ \A j \in DOMAIN conns' :
                 \/ conns'[j].loop = GetNextLoop
                 \/ j \in DOMAIN conns /\ conns'[j].loop = conns[j].loop
           /\ \A m : Assigned(m)' =
                 IF m = GetNextLoop THEN Assigned(m) + 1 ELSE Assigned(m)
<1> DEFINE i == Len(conns) + 1
           l == GetNextLoop
           In(m) == {j \in DOMAIN conns : conns[j].loop = m}
           InNew(m) == {j \in DOMAIN conns' : conns'[j].loop = m}
<1>1. conns \in Seq(Connection) /\ DOMAIN conns = 1..Len(conns) /\ Len(conns) \in Nat
  BY LenProperties DEF TypeOK
<1>2. /\ conns' = Append(conns, NewConnection(l)) /\ next' = AdvanceNext
      /\ numThreads' = numThreads
  BY DEF Accept
<1>3. NewConnection(l) \in Connection /\ NewConnection(l).loop = l
  BY NextLoop DEF NewConnection, Connection
<1>4. /\ conns' \in Seq(Connection) /\ Len(conns') = i
      /\ \A j \in 1..Len(conns) : conns'[j] = conns[j]
      /\ conns'[i].loop = l
  BY <1>1, <1>2, <1>3, AppendProperties
<1>5. DOMAIN conns' = DOMAIN conns \cup {i} /\ i \notin DOMAIN conns
  BY <1>1, <1>4, LenProperties
<1> HIDE DEF i, l
<1>6. ASSUME NEW m PROVE Assigned(m)' = IF m = l THEN Assigned(m) + 1 ELSE Assigned(m)
  <2>1. Assigned(m)' = Cardinality(InNew(m)) /\ Assigned(m) = Cardinality(In(m))
    BY DEF Assigned
  <2>2. IsFiniteSet(In(m)) /\ i \notin In(m)
    BY <1>5, AssignedCounts
  <2>3. CASE m = l
    <3>1. InNew(m) = In(m) \cup {i}
      BY <1>1, <1>4, <1>5, <2>3
    <3>2. Cardinality(In(m) \cup {i}) = Cardinality(In(m)) + 1
      BY <2>2, FS_AddElement
    <3> QED
      BY <2>1, <2>3, <3>1, <3>2
  <2>4. CASE m # l
    <3>1. InNew(m) = In(m)
      BY <1>1, <1>4, <1>5, <2>4
    <3> QED
      BY <2>1, <2>4, <3>1
  <2> QED
    BY <2>3, <2>4
<1>7. \A j \in DOMAIN conns' :
         conns'[j].loop = l \/ (j \in DOMAIN conns /\ conns'[j].loop = conns[j].loop)
  BY <1>1, <1>4, <1>5
<1> QED
  BY <1>2, <1>6, <1>7 DEF l

\* Every step keeps the count of the turns.
LEMMA StepTurns ==
    ASSUME TypeOK, Turns, [ServerNext]_serverVars
    PROVE  Turns'
<1>1. CASE ~Accept
  <2>1. /\ UNCHANGED <<numThreads, next>> /\ DOMAIN conns' = DOMAIN conns
        /\ \A j \in DOMAIN conns : conns'[j].loop = conns[j].loop
    BY <1>1, LoopsStay
  <2>2. \A m : {j \in DOMAIN conns' : conns'[j].loop = m}
                 = {j \in DOMAIN conns : conns[j].loop = m}
    BY <2>1
  <2>3. \A m : Assigned(m)' = Assigned(m)
    BY <2>2 DEF Assigned
  <2>4. GetAllLoops' = GetAllLoops
    BY <2>1 DEF GetAllLoops
  <2>5. PICK turns \in Nat : \A l \in 1..numThreads :
           Assigned(l) = IF l <= next THEN turns + 1 ELSE turns
    BY DEF Turns
  <2>6. \A l \in 1..numThreads' : Assigned(l)' = IF l <= next' THEN turns + 1 ELSE turns
    BY <2>1, <2>3, <2>5
  <2>7. \A j \in DOMAIN conns' : conns'[j].loop \in GetAllLoops'
    BY <2>1, <2>4 DEF Turns
  <2> QED
    BY <2>6, <2>7 DEF Turns
<1>2. CASE Accept
  <2>1. /\ next' = AdvanceNext /\ numThreads' = numThreads
        /\ \A j \in DOMAIN conns' :
              \/ conns'[j].loop = GetNextLoop
              \/ j \in DOMAIN conns /\ conns'[j].loop = conns[j].loop
        /\ \A m : Assigned(m)' = IF m = GetNextLoop THEN Assigned(m) + 1 ELSE Assigned(m)
    BY <1>2, AcceptTurn
  <2>2. \A j \in DOMAIN conns' : conns'[j].loop \in GetAllLoops'
    <3>1. GetAllLoops' = GetAllLoops
      BY <2>1 DEF GetAllLoops
    <3> QED
      BY <2>1, <3>1, NextLoop DEF Turns
  <2>3. numThreads \in Nat /\ next \in Nat /\ (next < numThreads \/ next = 0)
    BY ServerAssumption DEF TypeOK, Loops
  <2>4. \E turns \in Nat : \A l \in 1..numThreads' :
           Assigned(l)' = IF l <= next' THEN turns + 1 ELSE turns
    <3>1. CASE numThreads = 0
      BY <2>1, <3>1
    <3>2. CASE numThreads > 0
      <4>1. PICK turns \in Nat : \A l \in 1..numThreads :
               Assigned(l) = IF l <= next THEN turns + 1 ELSE turns
        BY DEF Turns
      <4>2. GetNextLoop = next + 1
        BY <2>3, <3>2 DEF GetNextLoop
      <4>3. \A l \in 1..numThreads : Assigned(l)' = IF l <= next + 1 THEN turns + 1 ELSE turns
        BY <2>1, <2>3, <4>1, <4>2
      <4>4. CASE next + 1 >= numThreads
        <5>1. next' = 0
          BY <2>1, <4>4 DEF AdvanceNext
        <5>2. \A l \in 1..numThreads' :
                 Assigned(l)' = IF l <= next' THEN (turns + 1) + 1 ELSE turns + 1
          BY <2>1, <2>3, <4>3, <4>4, <5>1
        <5> QED
          BY <5>2
      <4>5. CASE next + 1 < numThreads
        <5>1. next' = next + 1
          BY <2>1, <2>3, <4>5 DEF AdvanceNext
        <5> QED
          BY <2>1, <4>3, <5>1
      <4> QED
        BY <2>3, <4>4, <4>5
    <3> QED
      BY <2>3, <3>1, <3>2
  <2> QED
    BY <2>2, <2>4 DEF Turns
<1> QED
  BY <1>1, <1>2

\* The I/O loops share the connections evenly, for any number of loops: at no
\* time has getNextLoop() given one of them two more than another, nor one to
\* the base loop beside them, and getLoopForHash() answers with one of them.
THEOREM RoundRobin == ServerSpec => []LoopsShared
<1>1. ServerInit => Turns
  <2> SUFFICES ASSUME ServerInit PROVE Turns
    OBVIOUS
  <2>1. conns = <<>> /\ next = 0
    BY DEF ServerInit
  <2>2. DOMAIN conns = {}
    BY <2>1
  <2>3. \A l : Assigned(l) = 0
    <3>1. \A l : {i \in DOMAIN conns : conns[i].loop = l} = {}
      BY <2>2
    <3> QED
      BY <3>1, FS_EmptySet DEF Assigned
  <2>4. \A l \in 1..numThreads : Assigned(l) = IF l <= next THEN 0 + 1 ELSE 0
    BY <2>1, <2>3
  <2> QED
    BY <2>2, <2>4 DEF Turns
<1>2. (TypeOK /\ Places) /\ Turns /\ [ServerNext]_serverVars => Turns'
  BY StepTurns
<1>3. (TypeOK /\ Places) /\ Turns => LoopsShared
  <2> SUFFICES ASSUME TypeOK, Turns PROVE LoopsShared
    OBVIOUS
  <2>1. numThreads \in Nat
    BY ServerAssumption DEF TypeOK, Loops
  <2>2. \A k, l \in GetAllLoops : Assigned(k) <= Assigned(l) + 1
    <3>1. CASE numThreads = 0
      <4>1. Assigned(base) \in Nat
        BY AssignedCounts
      <4> QED
        BY <3>1, <4>1 DEF GetAllLoops
    <3>2. CASE numThreads # 0
      <4>1. PICK turns \in Nat : \A l \in 1..numThreads :
               Assigned(l) = IF l <= next THEN turns + 1 ELSE turns
        BY DEF Turns
      <4> QED
        BY <3>2, <4>1 DEF GetAllLoops
    <3> QED
      BY <3>1, <3>2
  <2>3. \A h \in 0..5 : GetLoopForHash(h) \in GetAllLoops
    BY <2>1 DEF GetLoopForHash, GetAllLoops
  <2> QED
    BY <2>2, <2>3 DEF LoopsShared, Turns
<1> QED
  BY <1>1, <1>2, <1>3, PlacesInvariant, PTL DEF ServerSpec

=============================================================================
