-------------------------- MODULE TcpClient_proofs --------------------------
(***************************************************************************)
(* Proofs about TcpClient and its Connector, for any number of failures    *)
(* and connections, with and without enableRetry().                        *)
(*                                                                         *)
(* The parts of the invariant are operators of the values they speak of:   *)
(* k the connector, r and k.pending the functors of this pass and of the   *)
(* next, cl the client, n and cb the connections and their callbacks, a    *)
(* the active events, at the phase of the loop, u the user thread and o    *)
(* the overlap.                                                            *)
(***************************************************************************)
EXTENDS TcpClient, Integers, SequenceTheorems, TLAPS

startF == <<"startInLoop", 0>>
stopF == <<"stopInLoop", 0>>
resetF == <<"resetChannel", 0>>

Functors == {startF, stopF, resetF} \cup ({"forceClose", "connectDestroyed"} \X Nat)

Faults == {"none", "startInLoop", "connecting", "handleWrite", "removeConnection",
           "destructor", "freed"}

ConnectorType ==
    [connect : BOOLEAN, state : {"disconnected", "connecting", "connected"},
     channel : {"none", "watched", "removed"}, retryDelayMs : Nat,
     retryConnector : BOOLEAN, retryConnectorTimerId : Nat, timers : SUBSET Nat,
     pending : Seq(Functors), sockets : Int, attempts : Nat, fails : Nat,
     fatal : BOOLEAN, fault : Faults]

ClientType ==
    [connect : BOOLEAN, connection : Nat, life : {"alive", "keepConnector", "destroyed"}]

Typed(k, r, cl, n, cb, a, at, u, o) ==
    /\ k \in ConnectorType
    /\ r \in Seq(Functors)
    /\ cl \in ClientType
    /\ n \in Seq({"up", "down", "gone"})
    /\ cb \in Seq({"client", "destruct"}) /\ Len(cb) = Len(n)
    /\ a \subseteq {"timer", "channel", "conn"} \X Nat
    /\ at \in {"poll", "events", "restart", "functors"}
    /\ u \in {"new", "connected", "disconnected", "stopping", "queueing", "stopped"}
    /\ o \in BOOLEAN

(* Functor f is in the queue q; at most once in q.                          *)
In(f, q) == \E j \in 1..Len(q) : q[j] = f
Single(f, q) == \A i, j \in 1..Len(q) : q[i] = f /\ q[j] = f => i = j

(* The same of both queues.                                                 *)
Queued(f, r, p) == In(f, r) \/ In(f, p)
Once(f, r, p) == Single(f, r) /\ Single(f, p) /\ ~(In(f, r) /\ In(f, p))

(* What the phases of the loop leave behind.                                *)
Phases(r, a, at) ==
    /\ at = "functors" <=> r # <<>>
    /\ at \in {"poll", "functors"} => a = {}

(* One attempt or one retry timer or none of both; the channel and the      *)
(* socket go with the attempt.                                              *)
OneAttempt(k) ==
    /\ k.state = "connecting" <=> k.channel = "watched"
    /\ k.sockets = IF k.state = "connecting" THEN 1 ELSE 0
    /\ k.timers # {} => /\ k.state = "disconnected" /\ k.retryConnector
                        /\ k.timers = {k.retryConnectorTimerId}
    /\ \A t \in k.timers : t <= k.attempts

(* resetChannel() is queued exactly while the channel waits for it, and     *)
(* startInLoop() only before the first attempt.                             *)
Awaited(k, r, n, u) ==
    /\ Once(resetF, r, k.pending) /\ (Queued(resetF, r, k.pending) <=> k.channel = "removed")
    /\ Once(startF, r, k.pending)
    /\ u = "new" => ~Queued(startF, r, k.pending)
    /\ (u = "new" \/ Queued(startF, r, k.pending))
          => /\ k.state = "disconnected" /\ k.channel = "none" /\ k.timers = {}
             /\ n = <<>>

(* What the poll reported is still true when it is handled.                 *)
EventsTrue(k, n, a) ==
    /\ <<"channel", 0>> \in a => k.state = "connecting"
    /\ \A t \in Nat : <<"timer", t>> \in a =>
          /\ t <= k.attempts
          /\ k.state = "connecting" => t # k.attempts
          /\ t \in k.timers => k.channel = "none"
    /\ \A i \in Nat : <<"conn", i>> \in a => i \in DOMAIN n /\ n[i] = "up"

(* The connection that is up is the one the client holds.                   *)
OneConnection(k, r, cl, n, cb) ==
    /\ \A i \in DOMAIN n : n[i] = "up" => i = cl.connection
    /\ \A i \in DOMAIN n : n[i] = "up" /\ cb[i] = "client" => cl.life = "alive"
    /\ cl.connection # 0 => k.state = "connected" /\ cl.connection \in DOMAIN n
    /\ cl.connection # 0 /\ cl.life = "alive" =>
          n[cl.connection] = "up" /\ cb[cl.connection] = "client"
    /\ \A i \in Nat : Queued(<<"forceClose", i>>, r, k.pending) =>
          i \in DOMAIN n /\ cb[i] = "destruct"
    /\ \A i \in Nat : Queued(<<"connectDestroyed", i>>, r, k.pending) =>
          i \in DOMAIN n /\ n[i] # "up"

(* The channel of the attempt is gone before its connection can close.      *)
ChannelGone(k, r, cl, a, at) ==
    /\ at = "restart" => /\ k.state = "connected"
                         /\ cl.connection = 0 /\ cl.life = "alive"
    /\ k.state = "connected" /\ k.channel = "removed" =>
          \/ at = "events" /\ <<"conn", cl.connection>> \notin a
          \/ at = "functors" /\ In(resetF, r)

(* A client that is destroyed leaves a connector that starts nothing.       *)
LetGo(k, r, cl) ==
    /\ cl.life = "keepConnector" =>
          /\ ~k.connect /\ cl.connection = 0
          /\ k.channel = "watched" => Queued(stopF, r, k.pending)
    /\ cl.life = "destroyed" =>
          k.state # "connecting" /\ (k.connect => k.state = "connected")

(* stop() without the overlap.                                              *)
Stopped(k, r, cl, at, u, o) ==
    /\ u \in {"stopping", "queueing", "stopped"} /\ ~o => ~cl.connect /\ at # "restart"
    /\ u \in {"queueing", "stopped"} /\ ~o => ~k.connect
    /\ u = "stopped" /\ ~o /\ ~Queued(stopF, r, k.pending) =>
          k.state # "connecting" /\ k.timers = {}

Inv(k, r, cl, n, cb, a, at, u, o) ==
    /\ Typed(k, r, cl, n, cb, a, at, u, o) /\ k.fault = "none"
    /\ Phases(r, a, at) /\ OneAttempt(k) /\ Awaited(k, r, n, u) /\ EventsTrue(k, n, a)
    /\ OneConnection(k, r, cl, n, cb) /\ ChannelGone(k, r, cl, a, at) /\ LetGo(k, r, cl)
    /\ Stopped(k, r, cl, at, u, o)

IInv == Inv(c, running, client, conns, closeCb, active, loopAt, user, overlap)

(* What the destructor of the client finds, and what runs behind it; up is   *)
(* cameUp.                                                                  *)
Hold(k, r, cl, u, up) ==
    /\ cl.connection # 0 /\ k.channel = "removed" => up
    /\ cl.life # "keepConnector" /\ Queued(stopF, r, k.pending) => u = "stopped"
    /\ cl.life = "destroyed" =>
          k.channel = "none" /\ k.timers = {} /\ ~Queued(startF, r, k.pending)

Held == Hold(c, running, client, user, cameUp)

(* The two ways to destroy a client too early.                              *)
Excused ==
    /\ \/ c.fault = "destructor" /\ cameUp
       \/ c.fault = "freed" /\ user = "stopped"
    /\ c.state # "connecting" /\ c.timers = {} /\ c.sockets = 0

\* The invariant in the next state, in its parts
LEMMA Primed ==
    ASSUME Inv(c', running', client', conns', closeCb', active', loopAt', user', overlap')
    PROVE  IInv'
  BY DEF IInv, Inv, Typed, Phases, OneAttempt, Awaited, EventsTrue, OneConnection,
         ChannelGone, LetGo, Stopped, Queued, Once, In, Single, startF, stopF, resetF

-----------------------------------------------------------------------------
(* The queues.                                                              *)

\* queueInLoop()
LEMMA Pushed ==
    ASSUME NEW r \in Seq(Functors), NEW p \in Seq(Functors), NEW g \in Functors
    PROVE  /\ Append(p, g) \in Seq(Functors)
           /\ \A f : Queued(f, r, Append(p, g)) <=> Queued(f, r, p) \/ f = g
           /\ \A f : Once(f, r, p) /\ (f # g \/ ~Queued(f, r, p)) => Once(f, r, Append(p, g))
<1> DEFINE q == Append(p, g)
<1>1. /\ q \in Seq(Functors) /\ Len(p) \in Nat /\ Len(q) = Len(p) + 1
      /\ \A j \in 1..Len(p) : q[j] = p[j]
      /\ q[Len(p) + 1] = g
  BY AppendProperties, LenProperties
<1> HIDE DEF q
<1>2. 1..Len(q) = 1..Len(p) \cup {Len(p) + 1}
  BY <1>1
<1>3. \A f : In(f, q) <=> In(f, p) \/ f = g
  BY <1>1, <1>2 DEF In
<1>4. ASSUME NEW f, Single(f, p), f # g \/ ~In(f, p) PROVE Single(f, q)
  BY <1>1, <1>2, <1>4 DEF In, Single
<1> QED
  BY <1>1, <1>3, <1>4 DEF Queued, Once, q

\* doPendingFunctors() runs the first functor of the pass.
LEMMA Ran ==
    ASSUME NEW r \in Seq(Functors), NEW p \in Seq(Functors), r # <<>>
    PROVE  /\ Tail(r) \in Seq(Functors) /\ Head(r) \in Functors
           /\ Len(Tail(r)) = Len(r) - 1 /\ Len(r) \in Nat /\ Len(r) >= 1
           /\ \A f : In(f, r) <=> In(f, Tail(r)) \/ f = Head(r)
           /\ \A f : Queued(f, r, p) <=> Queued(f, Tail(r), p) \/ f = Head(r)
           /\ \A f : Once(f, r, p) =>
                 Once(f, Tail(r), p) /\ (f = Head(r) => ~Queued(f, Tail(r), p))
<1> DEFINE q == Tail(r)
           g == Head(r)
<1>1. /\ q \in Seq(Functors) /\ g \in Functors
      /\ Len(r) \in Nat /\ Len(r) >= 1 /\ Len(q) = Len(r) - 1
      /\ g = r[1]
      /\ \A j \in 1..Len(q) : j + 1 \in 1..Len(r) /\ q[j] = r[j + 1]
  BY HeadTailProperties, LenProperties, EmptySeq
<1> HIDE DEF q, g
<1>2. \A j \in 1..Len(r) : j # 1 => j - 1 \in 1..Len(q) /\ q[j - 1] = r[j]
  BY <1>1
<1>3. \A f : In(f, r) <=> In(f, q) \/ f = g
  <2> TAKE f
  <2>1. In(f, q) => In(f, r)
    BY <1>1 DEF In
  <2>2. f = g => In(f, r)
    BY <1>1 DEF In
  <2>3. In(f, r) => In(f, q) \/ f = g
    BY <1>1, <1>2 DEF In
  <2> QED
    BY <2>1, <2>2, <2>3
<1>4. ASSUME NEW f, Single(f, r) PROVE Single(f, q) /\ (f = g => ~In(f, q))
  <2>1. Single(f, q)
    BY <1>1, <1>4 DEF Single
  <2>2. ASSUME f = g, In(f, q) PROVE FALSE
    <3>1. PICK j \in 1..Len(q) : q[j] = f
      BY <2>2 DEF In
    <3>2. j + 1 \in 1..Len(r) /\ r[j + 1] = f /\ 1 \in 1..Len(r) /\ r[1] = f /\ j + 1 # 1
      BY <1>1, <2>2, <3>1
    <3> QED
      BY <1>4, <3>2 DEF Single
  <2> QED
    BY <2>1, <2>2
<1> QED
  BY <1>1, <1>3, <1>4 DEF Queued, Once, q, g

\* functors.swap(pendingFunctors_)
LEMMA Swapped ==
    ASSUME NEW p
    PROVE  /\ \A f : ~In(f, <<>>)
           /\ \A f : Queued(f, p, <<>>) <=> Queued(f, <<>>, p)
           /\ \A f : Once(f, <<>>, p) => Once(f, p, <<>>)
  BY DEF In, Single, Queued, Once

-----------------------------------------------------------------------------
(* The Connector's functions.                                               *)

\* An assertion that holds changes nothing.
LEMMA AssertsNothing ==
    ASSUME NEW k \in ConnectorType, NEW which
    PROVE  Asserts(k, TRUE, which) = k
  BY DEF Asserts, ConnectorType

\* The retry delay stays a number.
LEMMA DelayIsNat == \A d \in Nat : Min({d * 2, kMaxRetryDelayMs}) \in Nat
<1> TAKE d \in Nat
<1>1. d * 2 \in Nat /\ kMaxRetryDelayMs \in Nat
  BY DEF kMaxRetryDelayMs
<1>2. \E x \in {d * 2, kMaxRetryDelayMs} : \A y \in {d * 2, kMaxRetryDelayMs} : x <= y
  BY <1>1
<1> QED
  BY <1>1, <1>2 DEF Min

\* retry() by its fields
LEMMA RetryFields ==
    ASSUME NEW k \in ConnectorType
    PROVE  LET d == Retry(k)
           IN  /\ d \in ConnectorType
               /\ d.state = "disconnected" /\ d.sockets = k.sockets - 1
               /\ d.channel = k.channel /\ d.pending = k.pending
               /\ d.attempts = k.attempts /\ d.connect = k.connect /\ d.fault = k.fault
               /\ k.connect => /\ d.timers = k.timers \cup {k.attempts} /\ d.retryConnector
                               /\ d.retryConnectorTimerId = k.attempts
               /\ ~k.connect => /\ d.timers = k.timers /\ d.retryConnector = k.retryConnector
                                /\ d.retryConnectorTimerId = k.retryConnectorTimerId
<1> DEFINE e == [k EXCEPT !.sockets = @ - 1, !.state = "disconnected"]
           m == Min({e.retryDelayMs * 2, kMaxRetryDelayMs})
<1>1. /\ e \in ConnectorType /\ e.state = "disconnected" /\ e.sockets = k.sockets - 1
      /\ e.channel = k.channel /\ e.pending = k.pending
      /\ e.attempts = k.attempts /\ e.connect = k.connect /\ e.fault = k.fault
      /\ e.timers = k.timers /\ e.retryConnector = k.retryConnector
      /\ e.retryConnectorTimerId = k.retryConnectorTimerId
  <2> DEFINE s == k.sockets - 1
  <2>1. s \in Int /\ e = [k EXCEPT !.sockets = s, !.state = "disconnected"]
    BY DEF ConnectorType
  <2> HIDE DEF s, e, m
  <2>2. /\ e \in ConnectorType /\ e.state = "disconnected" /\ e.sockets = s
        /\ e.channel = k.channel /\ e.pending = k.pending
        /\ e.attempts = k.attempts /\ e.connect = k.connect /\ e.fault = k.fault
        /\ e.timers = k.timers /\ e.retryConnector = k.retryConnector
        /\ e.retryConnectorTimerId = k.retryConnectorTimerId
    BY <2>1 DEF ConnectorType
  <2> QED
    BY <2>2 DEF s
<1>2. Retry(k) = IF ~e.connect THEN e
                 ELSE [e EXCEPT !.timers = @ \cup {e.attempts},
                                !.retryConnectorTimerId = e.attempts,
                                !.retryDelayMs = m, !.retryConnector = TRUE]
  BY DEF Retry
<1> HIDE DEF e
<1>3. m \in Nat
  BY <1>1, DelayIsNat DEF ConnectorType
<1> HIDE DEF m
<1>4. CASE k.connect
  <2> DEFINE d == [e EXCEPT !.timers = @ \cup {e.attempts},
                            !.retryConnectorTimerId = e.attempts,
                            !.retryDelayMs = m, !.retryConnector = TRUE]
  <2>1. Retry(k) = d
    BY <1>1, <1>2, <1>4
  <2>2. /\ d \in ConnectorType /\ d.state = e.state /\ d.sockets = e.sockets
        /\ d.channel = e.channel /\ d.pending = e.pending
        /\ d.attempts = e.attempts /\ d.connect = e.connect /\ d.fault = e.fault
        /\ d.timers = e.timers \cup {e.attempts} /\ d.retryConnector
        /\ d.retryConnectorTimerId = e.attempts
    BY <1>1, <1>3 DEF ConnectorType
  <2> HIDE DEF d
  <2> QED
    BY <1>1, <1>4, <2>1, <2>2
<1>5. CASE ~k.connect
  <2>1. Retry(k) = e
    BY <1>1, <1>2, <1>5
  <2> QED
    BY <1>1, <1>5, <2>1
<1> QED
  BY <1>4, <1>5

(* What an attempt that begins, and one that ends, leaves of connector k.   *)
Begins(k, d) ==
    /\ d \in ConnectorType /\ d.fault = "none" /\ OneAttempt(d)
    /\ d.pending = k.pending /\ d.connect = k.connect
    /\ d.state # "connected" /\ d.channel # "removed"
    /\ k.attempts <= d.attempts
    /\ d.state = "connecting" => d.attempts = k.attempts + 1
    /\ ~k.connect => d.state = "disconnected" /\ d.timers = {}

Ends(k, d) ==
    /\ d \in ConnectorType /\ d.fault = "none" /\ OneAttempt(d)
    /\ d.channel = "removed" /\ d.pending = Append(k.pending, resetF)
    /\ d.attempts = k.attempts /\ d.connect = k.connect
    /\ d.timers \subseteq {k.attempts}
    /\ ~k.connect => d.timers = {}

Idle(k) ==
    /\ k \in ConnectorType /\ k.fault = "none" /\ k.state = "disconnected" /\ k.channel = "none"
    /\ k.timers = {} /\ k.sockets = 0

\* connect(2) on a connector that is idle
LEMMA ConnectBegins ==
    ASSUME NEW k, Idle(k), k.connect, NEW errno \in {"progress", "refused", "fatal"}
    PROVE  Begins(k, Connect(k, errno))
<1> DEFINE more == k.attempts + 1
           one == k.sockets + 1
           fails == IF errno = "progress" THEN k.fails ELSE k.fails + 1
           fatal == errno = "fatal"
           d == [k EXCEPT !.attempts = more, !.sockets = one, !.fatal = fatal,
                          !.fails = fails]
<1>1. /\ more \in Nat /\ one = 1 /\ one \in Int /\ fails \in Nat /\ k.attempts \in Nat
      /\ fatal \in BOOLEAN
  BY DEF Idle, ConnectorType
<1>2. Connect(k, errno) =
         CASE errno = "progress" -> Connecting(d)
           [] errno = "refused" -> Retry(d)
           [] errno = "fatal" -> [d EXCEPT !.sockets = @ - 1]
  BY DEF Connect
<1> HIDE DEF more, one, fails, fatal
<1>3. /\ d \in ConnectorType /\ d.fault = "none" /\ d.state = "disconnected" /\ d.channel = "none"
      /\ d.timers = {} /\ d.sockets = 1 /\ d.attempts = more /\ d.pending = k.pending
      /\ d.connect = k.connect
  BY <1>1 DEF Idle, ConnectorType
<1> HIDE DEF d
<1>4. CASE errno = "progress"
  <2> DEFINE e == [d EXCEPT !.state = "connecting", !.channel = "watched"]
  <2>1. Asserts(d, d.channel = "none", "connecting") = d
    <3>1. (d.channel = "none") = TRUE
      BY <1>3
    <3> QED
      BY <1>3, <3>1, AssertsNothing
  <2>2. Connect(k, errno) = e
    BY <1>2, <1>4, <2>1 DEF Connecting
  <2>3. /\ e \in ConnectorType /\ e.fault = "none" /\ e.state = "connecting" /\ e.channel = "watched"
        /\ e.timers = {} /\ e.sockets = 1 /\ e.attempts = more /\ e.pending = k.pending
        /\ e.connect = k.connect
    BY <1>3 DEF ConnectorType
  <2> HIDE DEF e
  <2> QED
    BY <1>1, <2>2, <2>3 DEF Begins, OneAttempt, more
<1>5. CASE errno = "refused"
  <2> DEFINE e == Retry(d)
  <2>1. Connect(k, errno) = e
    BY <1>2, <1>5
  <2>2. /\ e \in ConnectorType /\ e.fault = d.fault /\ e.state = "disconnected"
        /\ e.channel = d.channel /\ e.timers = d.timers \cup {d.attempts}
        /\ e.retryConnector /\ e.retryConnectorTimerId = d.attempts
        /\ e.sockets = d.sockets - 1 /\ e.attempts = d.attempts /\ e.pending = d.pending
        /\ e.connect = d.connect
    BY <1>3, RetryFields
  <2> HIDE DEF e
  <2> QED
    BY <1>1, <1>3, <2>1, <2>2 DEF Begins, OneAttempt, more
<1>6. CASE errno = "fatal"
  <2> DEFINE e == [d EXCEPT !.sockets = 0]
  <2>1. d.sockets - 1 = 0
    BY <1>3
  <2>2. Connect(k, errno) = e
    BY <1>2, <1>6, <2>1
  <2>3. /\ e \in ConnectorType /\ e.fault = d.fault /\ e.state = d.state
        /\ e.channel = d.channel /\ e.timers = d.timers /\ e.sockets = 0
        /\ e.attempts = d.attempts /\ e.pending = d.pending /\ e.connect = d.connect
    <3>1. d \in ConnectorType /\ 0 \in Int
      BY <1>3
    <3> QED
      BY <3>1 DEF ConnectorType
  <2> HIDE DEF e
  <2> QED
    BY <1>1, <1>3, <2>2, <2>3 DEF Begins, OneAttempt, more
<1> QED
  BY <1>4, <1>5, <1>6

\* startInLoop() on a connector that is idle: its assertion holds.
LEMMA StartBegins ==
    ASSUME NEW k, Idle(k), NEW errno \in {"progress", "refused", "fatal"}
    PROVE  Begins(k, StartInLoop(k, errno))
<1> DEFINE d == [k EXCEPT !.retryConnector = FALSE]
<1>1. Asserts(k, k.state = "disconnected", "startInLoop") = k
  <2>1. k \in ConnectorType /\ (k.state = "disconnected") = TRUE
    BY DEF Idle
  <2> QED
    BY <2>1, AssertsNothing
<1>2. StartInLoop(k, errno) = IF d.connect THEN Connect(d, errno) ELSE d
  BY <1>1 DEF StartInLoop
<1>3. /\ Idle(d) /\ d.attempts = k.attempts /\ d.pending = k.pending /\ d.connect = k.connect
      /\ d.attempts \in Nat
  BY DEF Idle, ConnectorType
<1> HIDE DEF d
<1>4. CASE d.connect
  <2>1. Begins(d, Connect(d, errno)) /\ StartInLoop(k, errno) = Connect(d, errno)
    BY <1>2, <1>3, <1>4, ConnectBegins
  <2> QED
    BY <1>3, <2>1 DEF Begins
<1>5. CASE ~d.connect
  <2>1. StartInLoop(k, errno) = d
    BY <1>2, <1>5
  <2> QED
    BY <1>3, <2>1 DEF Begins, Idle, OneAttempt
<1> QED
  BY <1>4, <1>5

\* restart() on a connector whose connection is down and whose channel is gone
LEMMA RestartBegins ==
    ASSUME NEW k \in ConnectorType, k.fault = "none", OneAttempt(k), k.state = "connected",
           k.channel = "none", NEW errno \in {"progress", "refused", "fatal"}
    PROVE  LET d == Restart(k, errno)
           IN  /\ d \in ConnectorType /\ d.fault = "none" /\ OneAttempt(d)
               /\ d.pending = k.pending /\ d.state # "connected" /\ d.channel # "removed"
               /\ k.attempts <= d.attempts
               /\ d.state = "connecting" => d.attempts = k.attempts + 1
<1> DEFINE e == [k EXCEPT !.state = "disconnected", !.connect = TRUE,
                          !.retryDelayMs = kInitRetryDelayMs]
<1>1. Restart(k, errno) = StartInLoop(e, errno)
  BY DEF Restart
<1>2. /\ e \in ConnectorType /\ e.fault = k.fault /\ e.state = "disconnected"
      /\ e.channel = k.channel /\ e.timers = k.timers /\ e.sockets = k.sockets
      /\ e.pending = k.pending /\ e.attempts = k.attempts
  <2>1. kInitRetryDelayMs \in Nat
    BY DEF kInitRetryDelayMs
  <2> QED
    BY <2>1 DEF ConnectorType
<1> HIDE DEF e
<1>3. Idle(e)
  BY <1>2 DEF Idle, OneAttempt
<1> QED
  BY <1>1, <1>2, <1>3, StartBegins DEF Begins

\* removeAndResetChannel() by its fields
LEMMA RemoveFields ==
    ASSUME NEW k \in ConnectorType
    PROVE  LET d == RemoveAndResetChannel(k)
           IN  /\ d \in ConnectorType /\ d.channel = "removed"
               /\ d.pending = Append(k.pending, resetF)
               /\ d.state = k.state /\ d.sockets = k.sockets /\ d.timers = k.timers
               /\ d.attempts = k.attempts /\ d.connect = k.connect /\ d.fault = k.fault
               /\ d.retryConnector = k.retryConnector /\ d.fails = k.fails
               /\ d.retryConnectorTimerId = k.retryConnectorTimerId
<1> DEFINE p == Append(k.pending, resetF)
           e == [k EXCEPT !.channel = "removed"]
           d == [e EXCEPT !.pending = p]
<1>1. e \in ConnectorType /\ e.pending = k.pending
  BY DEF ConnectorType
<1>2. RemoveAndResetChannel(k) = d
  BY <1>1 DEF RemoveAndResetChannel, QueueInLoop, resetF
<1>3. p \in Seq(Functors)
  BY AppendProperties DEF ConnectorType, Functors, resetF
<1> HIDE DEF p
<1>4. /\ d \in ConnectorType /\ d.channel = "removed" /\ d.pending = p
      /\ d.state = k.state /\ d.sockets = k.sockets /\ d.timers = k.timers
      /\ d.attempts = k.attempts /\ d.connect = k.connect /\ d.fault = k.fault
      /\ d.retryConnector = k.retryConnector /\ d.fails = k.fails
      /\ d.retryConnectorTimerId = k.retryConnectorTimerId
  BY <1>3 DEF ConnectorType
<1> HIDE DEF d
<1> QED
  BY <1>2, <1>4 DEF p

\* retry() of an attempt whose channel has just been removed ends it.
LEMMA RetryEnds ==
    ASSUME NEW k \in ConnectorType, k.fault = "none", OneAttempt(k), k.state = "connecting",
           NEW d \in ConnectorType, d.channel = "removed",
           d.pending = Append(k.pending, resetF), d.sockets = k.sockets,
           d.timers = k.timers, d.attempts = k.attempts, d.connect = k.connect,
           d.fault = k.fault
    PROVE  Ends(k, Retry(d)) /\ Retry(d).state = "disconnected"
<1> DEFINE e == Retry(d)
<1>1. /\ e \in ConnectorType /\ e.state = "disconnected" /\ e.sockets = d.sockets - 1
      /\ e.channel = d.channel /\ e.pending = d.pending
      /\ e.attempts = d.attempts /\ e.connect = d.connect /\ e.fault = d.fault
      /\ d.connect => /\ e.timers = d.timers \cup {d.attempts} /\ e.retryConnector
                      /\ e.retryConnectorTimerId = d.attempts
      /\ ~d.connect => e.timers = d.timers
  BY RetryFields
<1> HIDE DEF e
<1>2. k.timers = {} /\ k.sockets = 1 /\ k.attempts \in Nat
  BY DEF OneAttempt, ConnectorType
<1>3. CASE k.connect
  BY <1>1, <1>2, <1>3 DEF Ends, OneAttempt, e
<1>4. CASE ~k.connect
  BY <1>1, <1>2, <1>4 DEF Ends, OneAttempt, e
<1> QED
  BY <1>3, <1>4

\* handleWrite() of an attempt under way: an error leads to retry(), success
\* to a connector without socket and attempt.
LEMMA WriteEnds ==
    ASSUME NEW k \in ConnectorType, k.fault = "none", OneAttempt(k), k.state = "connecting",
           NEW error \in BOOLEAN
    PROVE  /\ Ends(k, HandleWrite(k, error))
           /\ HandleWrite(k, error).state = IF error THEN "disconnected" ELSE "connected"
<1> DEFINE g == RemoveAndResetChannel(k)
           fails == IF error THEN g.fails + 1 ELSE g.fails
           d == [g EXCEPT !.fails = fails]
           e == [d EXCEPT !.state = "connected"]
<1>1. /\ g \in ConnectorType /\ g.channel = "removed"
      /\ g.pending = Append(k.pending, resetF)
      /\ g.state = k.state /\ g.sockets = k.sockets /\ g.timers = k.timers
      /\ g.attempts = k.attempts /\ g.connect = k.connect /\ g.fault = k.fault
  BY RemoveFields
<1>2. HandleWrite(k, error) =
         CASE error -> Retry(d)
           [] ~error -> [e EXCEPT !.sockets = @ - 1]
  BY DEF HandleWrite, Establishes, CloseUnwanted
<1>3. fails \in Nat
  BY <1>1 DEF ConnectorType
<1> HIDE DEF g, fails
<1>4. /\ d \in ConnectorType /\ d.channel = g.channel /\ d.pending = g.pending
      /\ d.sockets = g.sockets /\ d.timers = g.timers /\ d.attempts = g.attempts
      /\ d.connect = g.connect /\ d.fault = g.fault
  BY <1>1, <1>3 DEF ConnectorType
<1> HIDE DEF d
<1>5. CASE error
  <2>1. HandleWrite(k, error) = Retry(d)
    BY <1>2, <1>5
  <2>2. /\ d.channel = "removed" /\ d.pending = Append(k.pending, resetF)
        /\ d.sockets = k.sockets /\ d.timers = k.timers /\ d.attempts = k.attempts
        /\ d.connect = k.connect /\ d.fault = k.fault
    BY <1>1, <1>4
  <2>3. Ends(k, Retry(d)) /\ Retry(d).state = "disconnected"
    BY <1>4, <2>2, RetryEnds
  <2> QED
    BY <1>5, <2>1, <2>3
<1>6. CASE ~error
  <2>1. k.sockets = 1 /\ k.timers = {} /\ k.attempts \in Nat
    BY DEF OneAttempt, ConnectorType
  <2> DEFINE h == [d EXCEPT !.state = "connected", !.sockets = 0]
  <2>2. e \in ConnectorType /\ e.sockets - 1 = 0
    <3>1. d \in ConnectorType
      BY <1>4
    <3>2. e \in ConnectorType /\ e.sockets = d.sockets
      BY <3>1 DEF ConnectorType
    <3> QED
      BY <1>1, <1>4, <2>1, <3>2
  <2>3. HandleWrite(k, error) = h
    BY <1>2, <1>4, <1>6, <2>2 DEF ConnectorType
  <2>4. /\ h \in ConnectorType /\ h.channel = d.channel /\ h.pending = d.pending
        /\ h.sockets = 0 /\ h.timers = d.timers /\ h.attempts = d.attempts
        /\ h.connect = d.connect /\ h.fault = d.fault /\ h.state = "connected"
    <3>1. d \in ConnectorType /\ 0 \in Int
      BY <1>4
    <3> QED
      BY <3>1 DEF ConnectorType
  <2> HIDE DEF h
  <2> QED
    BY <1>1, <1>4, <1>6, <2>1, <2>3, <2>4 DEF Ends, OneAttempt
<1> QED
  BY <1>5, <1>6

\* EPOLLERR: handleError() ends the attempt, and the handleWrite() behind it
\* finds nothing to do.
LEMMA ErrorEnds ==
    ASSUME NEW k \in ConnectorType, k.fault = "none", OneAttempt(k), k.state = "connecting"
    PROVE  LET d == HandleWrite(HandleError(k), TRUE)
           IN  Ends(k, d) /\ d.state = "disconnected"
<1> DEFINE g == RemoveAndResetChannel(k)
           fails == g.fails + 1
           d == [g EXCEPT !.fails = fails]
           h == Retry(d)
<1>1. /\ g \in ConnectorType /\ g.channel = "removed"
      /\ g.pending = Append(k.pending, resetF)
      /\ g.state = k.state /\ g.sockets = k.sockets /\ g.timers = k.timers
      /\ g.attempts = k.attempts /\ g.connect = k.connect /\ g.fault = k.fault
  BY RemoveFields
<1>2. HandleError(k) = h
  BY DEF HandleError
<1>3. fails \in Nat
  BY <1>1 DEF ConnectorType
<1> HIDE DEF g, fails
<1>4. /\ d \in ConnectorType /\ d.channel = g.channel /\ d.pending = g.pending
      /\ d.sockets = g.sockets /\ d.timers = g.timers /\ d.attempts = g.attempts
      /\ d.connect = g.connect /\ d.fault = g.fault
  BY <1>1, <1>3 DEF ConnectorType
<1> HIDE DEF d
<1>5. Ends(k, h) /\ h.state = "disconnected"
  <2>1. /\ d.channel = "removed" /\ d.pending = Append(k.pending, resetF)
        /\ d.sockets = k.sockets /\ d.timers = k.timers /\ d.attempts = k.attempts
        /\ d.connect = k.connect /\ d.fault = k.fault
    BY <1>1, <1>4
  <2> QED
    BY <1>4, <2>1, RetryEnds
<1> HIDE DEF h
<1>6. HandleWrite(h, TRUE) = h
  <2>1. h \in ConnectorType /\ h.fault = "none"
    BY <1>5 DEF Ends
  <2>2. (h.state = "disconnected") = TRUE
    BY <1>5
  <2>3. HandleWrite(h, TRUE) = Asserts(h, h.state = "disconnected", "handleWrite")
    BY <2>2 DEF HandleWrite, Establishes
  <2> QED
    BY <2>1, <2>2, <2>3, AssertsNothing
<1> QED
  BY <1>2, <1>5, <1>6

\* stopInLoop() without an attempt cancels the retry timer, and that is all;
\* else it ends the attempt.
LEMMA StopStops ==
    ASSUME NEW k \in ConnectorType, k.fault = "none", OneAttempt(k)
    PROVE  LET d == StopInLoop(k)
           IN  /\ k.state = "connecting" => Ends(k, d) /\ d.state = "disconnected"
               /\ k.state # "connecting" =>
                     /\ d \in ConnectorType /\ d.fault = "none" /\ OneAttempt(d)
                     /\ d.state = k.state /\ d.channel = k.channel /\ d.pending = k.pending
                     /\ d.attempts = k.attempts /\ d.connect = k.connect /\ d.timers = {}
<1> DEFINE d == CancelRetry(k)
<1>1. /\ d \in ConnectorType /\ d.state = k.state /\ d.channel = k.channel
      /\ d.pending = k.pending /\ d.attempts = k.attempts /\ d.connect = k.connect
      /\ d.timers = {} /\ d.fault = k.fault /\ d.sockets = k.sockets
  <2>1. CASE k.retryConnector
    <3> DEFINE t == k.timers \ {k.retryConnectorTimerId}
    <3>1. t = {} /\ t \in SUBSET Nat
      BY DEF OneAttempt
    <3>2. d = [k EXCEPT !.timers = t]
      BY <2>1 DEF CancelRetry
    <3> HIDE DEF t, d
    <3> QED
      BY <3>1, <3>2 DEF ConnectorType
  <2>2. CASE ~k.retryConnector
    BY <2>2 DEF CancelRetry, OneAttempt
  <2> QED
    BY <2>1, <2>2
<1>2. StopInLoop(k) =
         IF d.state = "connecting"
         THEN Retry(RemoveAndResetChannel([d EXCEPT !.state = "disconnected"])) ELSE d
  BY DEF StopInLoop
<1> HIDE DEF d
<1>3. ASSUME k.state # "connecting"
      PROVE  /\ StopInLoop(k) = d /\ OneAttempt(d) /\ d.fault = "none"
  BY <1>1, <1>2, <1>3 DEF OneAttempt
<1>4. ASSUME k.state = "connecting"
      PROVE  Ends(k, StopInLoop(k)) /\ StopInLoop(k).state = "disconnected"
  <2> DEFINE e == [d EXCEPT !.state = "disconnected"]
             g == RemoveAndResetChannel(e)
  <2>1. StopInLoop(k) = Retry(g)
    BY <1>1, <1>2, <1>4
  <2>2. /\ e \in ConnectorType
        /\ e.pending = d.pending /\ e.attempts = d.attempts /\ e.connect = d.connect
        /\ e.timers = d.timers /\ e.fault = d.fault /\ e.sockets = d.sockets
    BY <1>1 DEF ConnectorType
  <2> HIDE DEF e
  <2>3. /\ g \in ConnectorType /\ g.channel = "removed"
        /\ g.pending = Append(e.pending, resetF)
        /\ g.sockets = e.sockets /\ g.timers = e.timers
        /\ g.attempts = e.attempts /\ g.connect = e.connect /\ g.fault = e.fault
    BY <2>2, RemoveFields
  <2> HIDE DEF g
  <2>4. k.timers = {}
    BY <1>4 DEF OneAttempt
  <2>5. /\ g.pending = Append(k.pending, resetF)
        /\ g.sockets = k.sockets /\ g.timers = k.timers
        /\ g.attempts = k.attempts /\ g.connect = k.connect /\ g.fault = k.fault
    BY <1>1, <2>2, <2>3, <2>4
  <2> QED
    BY <1>4, <2>1, <2>3, <2>5, RetryEnds
<1> QED
  BY <1>1, <1>3, <1>4

-----------------------------------------------------------------------------
(* The steps.                                                               *)

\* The functors differ by their names.
LEMMA Distinct ==
    /\ startF \in Functors /\ stopF \in Functors /\ resetF \in Functors
    /\ startF # stopF /\ startF # resetF /\ stopF # resetF
    /\ \A i \in Nat : /\ <<"forceClose", i>> \in Functors
                      /\ <<"connectDestroyed", i>> \in Functors
                      /\ <<"forceClose", i>> \notin {startF, stopF, resetF}
                      /\ <<"connectDestroyed", i>> \notin {startF, stopF, resetF}
    /\ \A i, j \in Nat : /\ <<"forceClose", i>> # <<"connectDestroyed", j>>
                         /\ <<"forceClose", i>> = <<"forceClose", j>> => i = j
                         /\ <<"connectDestroyed", i>> = <<"connectDestroyed", j>> => i = j
  BY DEF Functors, startF, stopF, resetF

(* d is k but for its queue and its connect_.                               *)
Same(k, d) ==
    /\ d \in ConnectorType
    /\ d.state = k.state /\ d.channel = k.channel /\ d.timers = k.timers
    /\ d.attempts = k.attempts /\ d.sockets = k.sockets /\ d.fault = k.fault
    /\ d.retryConnector = k.retryConnector
    /\ d.retryConnectorTimerId = k.retryConnectorTimerId

\* queueInLoop() and the stores to connect_ by their fields
LEMMA QueueFields ==
    ASSUME NEW k \in ConnectorType, NEW g \in Functors
    PROVE  LET d == QueueInLoop(k, g)
           IN  Same(k, d) /\ d.pending = Append(k.pending, g) /\ d.connect = k.connect
<1> DEFINE p == Append(k.pending, g)
           d == [k EXCEPT !.pending = p]
<1>1. p \in Seq(Functors)
  BY AppendProperties DEF ConnectorType
<1>2. QueueInLoop(k, g) = d
  BY DEF QueueInLoop
<1> HIDE DEF p
<1>3. Same(k, d) /\ d.pending = p /\ d.connect = k.connect
  BY <1>1 DEF ConnectorType, Same
<1> QED
  BY <1>2, <1>3 DEF p

LEMMA ConnectFields ==
    ASSUME NEW k \in ConnectorType, NEW b \in BOOLEAN
    PROVE  LET d == [k EXCEPT !.connect = b]
           IN  Same(k, d) /\ d.pending = k.pending /\ d.connect = b
  BY DEF ConnectorType, Same

\* What a store to connect_ and a functor in the queue leave true
LEMMA SameKeeps ==
    ASSUME NEW k \in ConnectorType, NEW d, Same(k, d), k.fault = "none",
           NEW r, NEW cl, NEW n, NEW a, NEW at
    PROVE  /\ d.fault = "none"
           /\ OneAttempt(k) => OneAttempt(d)
           /\ EventsTrue(k, n, a) => EventsTrue(d, n, a)
           /\ ChannelGone(k, r, cl, a, at) => ChannelGone(d, r, cl, a, at)
  BY DEF Same, OneAttempt, EventsTrue, ChannelGone

LEMMA PushKeeps ==
    ASSUME NEW k \in ConnectorType, NEW d, Same(k, d), NEW g \in Functors,
           d.pending = Append(k.pending, g), d.connect => k.connect,
           NEW r \in Seq(Functors), NEW cl, NEW n, NEW at, NEW u, NEW o
    PROVE  /\ g # startF /\ g # resetF /\ Awaited(k, r, n, u) => Awaited(d, r, n, u)
           /\ LetGo(k, r, cl) => LetGo(d, r, cl)
           /\ Stopped(k, r, cl, at, u, o) => Stopped(d, r, cl, at, u, o)
           /\ \A f : Queued(f, r, d.pending) <=> Queued(f, r, k.pending) \/ f = g
<1>1. /\ \A f : Queued(f, r, d.pending) <=> Queued(f, r, k.pending) \/ f = g
      /\ \A f : Once(f, r, k.pending) /\ (f # g \/ ~Queued(f, r, k.pending))
            => Once(f, r, d.pending)
  <2>1. k.pending \in Seq(Functors)
    BY DEF ConnectorType
  <2> QED
    BY <2>1, Pushed
<1>2. ASSUME g # startF, g # resetF, Awaited(k, r, n, u) PROVE Awaited(d, r, n, u)
  BY <1>1, <1>2 DEF Awaited, Same
<1>3. LetGo(k, r, cl) => LetGo(d, r, cl)
  BY <1>1 DEF LetGo, Same
<1>4. Stopped(k, r, cl, at, u, o) => Stopped(d, r, cl, at, u, o)
  BY <1>1 DEF Stopped, Same
<1> QED
  BY <1>1, <1>2, <1>3, <1>4

\* connect(): the first functor of the connector
LEMMA UserConnectStep == ASSUME IInv, UserConnect, user = "new"
    PROVE  IInv'
<1>0. Inv(c, running, client, conns, closeCb, active, loopAt, user, overlap)
  BY DEF IInv
<1>1. /\ user = "new" /\ client.life = "alive" /\ user' = "connected"
      /\ client' = [client EXCEPT !.connect = TRUE] /\ c' = Start(c)
      /\ UNCHANGED <<running, conns, closeCb, active, loopAt, overlap>>
  BY DEF UserConnect
<1>2. /\ client' \in ClientType /\ client'.connection = client.connection
      /\ client'.life = client.life
  BY <1>0, <1>1 DEF Inv, Typed, ClientType
<1>3. Same(c, c') /\ c'.pending = Append(c.pending, startF) /\ c \in ConnectorType
  <2> DEFINE d == QueueInLoop(c, startF)
  <2>1. c \in ConnectorType
    BY <1>0 DEF Inv, Typed
  <2>2. c' = [d EXCEPT !.connect = TRUE]
    BY <1>1 DEF Start, startF
  <2>3. Same(c, d) /\ d.pending = Append(c.pending, startF) /\ d \in ConnectorType
    BY <2>1, QueueFields, Distinct DEF Same
  <2> HIDE DEF d
  <2>4. Same(d, c') /\ c'.pending = d.pending
    BY <2>2, <2>3, ConnectFields
  <2> QED
    BY <2>1, <2>3, <2>4 DEF Same
<1>4. /\ \A f : Queued(f, running, c'.pending) <=> Queued(f, running, c.pending) \/ f = startF
      /\ \A f : Once(f, running, c.pending) /\ (f # startF \/ ~Queued(f, running, c.pending))
            => Once(f, running, c'.pending)
  <2>1. c.pending \in Seq(Functors) /\ running \in Seq(Functors)
    BY <1>0 DEF Inv, Typed, ConnectorType
  <2> QED
    BY <1>3, <2>1, Pushed, Distinct
<1>5. Typed(c', running', client', conns', closeCb', active', loopAt', user', overlap')
  BY <1>0, <1>1, <1>2, <1>3 DEF Inv, Typed, Same
<1>6. /\ c'.fault = "none" /\ OneAttempt(c') /\ EventsTrue(c', conns, active)
      /\ ChannelGone(c', running, client, active, loopAt)
  BY <1>0, <1>3, SameKeeps DEF Inv
<1>7. Phases(running', active', loopAt')
  BY <1>0, <1>1 DEF Inv
<1>8. Awaited(c', running', conns', user')
  BY <1>0, <1>1, <1>3, <1>4, Distinct DEF Inv, Awaited, Same
<1>9. OneConnection(c', running', client', conns', closeCb')
  BY <1>0, <1>1, <1>2, <1>3, <1>4, Distinct DEF Inv, OneConnection, Same
<1>10. ChannelGone(c', running', client', active', loopAt')
  BY <1>1, <1>2, <1>6 DEF ChannelGone
<1>11. LetGo(c', running', client')
  BY <1>1, <1>2 DEF LetGo
<1>12. Stopped(c', running', client', loopAt', user', overlap')
  BY <1>1 DEF Stopped
<1>13. EventsTrue(c', conns', active')
  BY <1>1, <1>6
<1>14. Inv(c', running', client', conns', closeCb', active', loopAt', user', overlap')
  BY <1>5, <1>6, <1>7, <1>8, <1>9, <1>10, <1>11, <1>12, <1>13 DEF Inv
<1> QED
  BY <1>14, Primed

\* disconnect() and the first store of stop() take back only the client's
\* connect_.
LEMMA UserLeavesStep == ASSUME IInv, UserDisconnect \/ UserStop PROVE IInv'
<1>0. Inv(c, running, client, conns, closeCb, active, loopAt, user, overlap)
  BY DEF IInv
<1>1. /\ user \in {"connected", "disconnected"}
      /\ user' \in {"disconnected", "stopping"}
      /\ client' = [client EXCEPT !.connect = FALSE]
      /\ overlap' \in BOOLEAN
      /\ user' = "stopping" => (overlap' <=> loopAt = "restart")
      /\ UNCHANGED <<c, running, conns, closeCb, active, loopAt>>
  BY <1>0 DEF UserDisconnect, UserStop, Inv, Typed
<1>2. /\ client' \in ClientType /\ client'.connection = client.connection
      /\ client'.life = client.life /\ ~client'.connect
  BY <1>0, <1>1 DEF Inv, Typed, ClientType
<1>3. Typed(c', running', client', conns', closeCb', active', loopAt', user', overlap')
  BY <1>0, <1>1, <1>2 DEF Inv, Typed
<1>4. /\ Phases(running', active', loopAt') /\ OneAttempt(c') /\ c'.fault = "none"
      /\ EventsTrue(c', conns', active')
  BY <1>0, <1>1 DEF Inv
<1>5. Awaited(c', running', conns', user')
  BY <1>0, <1>1 DEF Inv, Awaited
<1>6. OneConnection(c', running', client', conns', closeCb')
  BY <1>0, <1>1, <1>2 DEF Inv, OneConnection
<1>7. ChannelGone(c', running', client', active', loopAt') /\ LetGo(c', running', client')
  BY <1>0, <1>1, <1>2 DEF Inv, ChannelGone, LetGo
<1>8. Stopped(c', running', client', loopAt', user', overlap')
  BY <1>0, <1>1, <1>2 DEF Inv, Stopped
<1>9. Inv(c', running', client', conns', closeCb', active', loopAt', user', overlap')
  BY <1>3, <1>4, <1>5, <1>6, <1>7, <1>8 DEF Inv
<1> QED
  BY <1>9, Primed

\* The connector's part of stop(): connect_, then the functor
LEMMA ConnectorStopStep == ASSUME IInv, ConnectorStop PROVE IInv'
<1>0. Inv(c, running, client, conns, closeCb, active, loopAt, user, overlap)
  BY DEF IInv
<1>1. UNCHANGED <<running, client, conns, closeCb, active, loopAt, overlap>>
  BY DEF ConnectorStop
<1>2. c \in ConnectorType /\ running \in Seq(Functors)
  BY <1>0 DEF Inv, Typed
<1>3. CASE user = "stopping" /\ user' = "queueing" /\ c' = [c EXCEPT !.connect = FALSE]
  <2>1. Same(c, c') /\ c'.pending = c.pending /\ ~c'.connect
    BY <1>2, <1>3, ConnectFields
  <2>2. Typed(c', running', client', conns', closeCb', active', loopAt', user', overlap')
    BY <1>0, <1>1, <1>3, <2>1 DEF Inv, Typed, Same
  <2>3. /\ c'.fault = "none" /\ OneAttempt(c') /\ EventsTrue(c', conns, active)
        /\ ChannelGone(c', running, client, active, loopAt)
    BY <1>0, <1>2, <2>1, SameKeeps DEF Inv
  <2>4. Awaited(c', running, conns, user')
    BY <1>0, <1>3, <2>1 DEF Inv, Awaited, Same
  <2>5. OneConnection(c', running, client, conns, closeCb)
    BY <1>0, <2>1 DEF Inv, OneConnection, Same
  <2>6. LetGo(c', running, client) /\ Stopped(c', running, client, loopAt, user', overlap)
    BY <1>0, <1>3, <2>1 DEF Inv, LetGo, Stopped, Same
  <2>7. Inv(c', running', client', conns', closeCb', active', loopAt', user', overlap')
    BY <1>0, <1>1, <2>2, <2>3, <2>4, <2>5, <2>6 DEF Inv
  <2> QED
    BY <2>7, Primed
<1>4. CASE user = "queueing" /\ user' = "stopped" /\ c' = QueueInLoop(c, stopF)
  <2>1. Same(c, c') /\ c'.pending = Append(c.pending, stopF) /\ c'.connect = c.connect
    BY <1>2, <1>4, QueueFields, Distinct
  <2>2. Typed(c', running', client', conns', closeCb', active', loopAt', user', overlap')
    BY <1>0, <1>1, <1>4, <2>1 DEF Inv, Typed, Same
  <2>3. /\ c'.fault = "none" /\ OneAttempt(c') /\ EventsTrue(c', conns, active)
        /\ ChannelGone(c', running, client, active, loopAt)
    BY <1>0, <1>2, <2>1, SameKeeps DEF Inv
  <2>4. /\ Awaited(c', running, conns, user) /\ LetGo(c', running, client)
        /\ \A f : Queued(f, running, c'.pending) <=> Queued(f, running, c.pending) \/ f = stopF
    BY <1>0, <1>2, <2>1, PushKeeps, Distinct DEF Inv
  <2>5. Awaited(c', running, conns, user')
    BY <1>4, <2>4 DEF Awaited
  <2>6. OneConnection(c', running, client, conns, closeCb)
    BY <1>0, <2>1, <2>4, Distinct DEF Inv, OneConnection, Same
  <2>7. Stopped(c', running, client, loopAt, user', overlap)
    BY <1>0, <1>4, <2>1, <2>4 DEF Inv, Stopped
  <2>8. Inv(c', running', client', conns', closeCb', active', loopAt', user', overlap')
    BY <1>0, <1>1, <2>2, <2>3, <2>4, <2>5, <2>6, <2>7 DEF Inv
  <2> QED
    BY <2>8, Primed
<1> QED
  BY <1>3, <1>4 DEF ConnectorStop, stopF

\* epoll_wait reports what is true.
LEMMA PollStep == ASSUME IInv, Poll PROVE IInv'
<1>0. Inv(c, running, client, conns, closeCb, active, loopAt, user, overlap)
  BY DEF IInv
<1>1. /\ loopAt = "poll" /\ loopAt' = "events" /\ active' \subseteq Sources
      /\ UNCHANGED <<c, running, client, conns, closeCb, user, overlap>>
  BY DEF Poll
<1>2. \A e \in Sources :
         \/ \E t \in c.timers : e = <<"timer", t>> /\ c.channel # "removed"
         \/ e = <<"channel", 0>> /\ c.channel = "watched"
         \/ \E i \in DOMAIN conns : e = <<"conn", i>> /\ conns[i] = "up"
  BY DEF Sources
<1>3. DOMAIN conns \subseteq Nat /\ c.timers \subseteq Nat
  BY <1>0, LenProperties DEF Inv, Typed, ConnectorType
<1>4. Typed(c', running', client', conns', closeCb', active', loopAt', user', overlap')
  <2>1. active' \subseteq {"timer", "channel", "conn"} \X Nat
    BY <1>1, <1>2, <1>3
  <2> QED
    BY <1>0, <1>1, <2>1 DEF Inv, Typed
<1>5. EventsTrue(c, conns, active')
  <2>1. <<"channel", 0>> \in active' => c.state = "connecting"
    BY <1>0, <1>1, <1>2 DEF Inv, OneAttempt
  <2>2. ASSUME NEW t \in Nat, <<"timer", t>> \in active'
        PROVE  /\ t <= c.attempts /\ (c.state = "connecting" => t # c.attempts)
               /\ (t \in c.timers => c.channel = "none")
    <3>1. t \in c.timers /\ c.channel # "removed"
      BY <1>1, <1>2, <2>2
    <3>2. c.channel \in {"none", "watched", "removed"}
      BY <1>0 DEF Inv, Typed, ConnectorType
    <3> QED
      BY <1>0, <3>1, <3>2 DEF Inv, OneAttempt
  <2>3. ASSUME NEW i \in Nat, <<"conn", i>> \in active'
        PROVE  i \in DOMAIN conns /\ conns[i] = "up"
    BY <1>1, <1>2, <2>3
  <2> QED
    BY <2>1, <2>2, <2>3 DEF EventsTrue
<1>6. Phases(running, active', loopAt')
  BY <1>0, <1>1 DEF Inv, Phases
<1>7. ChannelGone(c, running, client, active', loopAt')
  BY <1>0, <1>1 DEF Inv, ChannelGone
<1>8. Stopped(c, running, client, loopAt', user, overlap)
  BY <1>0, <1>1 DEF Inv, Stopped
<1>9. Inv(c', running', client', conns', closeCb', active', loopAt', user', overlap')
  BY <1>0, <1>1, <1>4, <1>5, <1>6, <1>7, <1>8 DEF Inv
<1> QED
  BY <1>9, Primed

\* functors.swap(pendingFunctors_)
LEMMA BeginPassStep == ASSUME IInv, BeginPass PROVE IInv'
<1>0. Inv(c, running, client, conns, closeCb, active, loopAt, user, overlap)
  BY DEF IInv
<1>1. /\ loopAt = "events" /\ active = {} /\ running' = c.pending
      /\ c' = [c EXCEPT !.pending = <<>>]
      /\ loopAt' = IF c.pending = <<>> THEN "poll" ELSE "functors"
      /\ UNCHANGED <<client, conns, closeCb, active, user, overlap>>
  BY DEF BeginPass
<1>2. Same(c, c') /\ c'.pending = <<>> /\ c'.connect = c.connect /\ c \in ConnectorType
  <2>1. c \in ConnectorType /\ <<>> \in Seq(Functors)
    BY <1>0 DEF Inv, Typed
  <2> QED
    BY <1>1, <2>1 DEF Same, ConnectorType
<1>3. running = <<>> /\ running' \in Seq(Functors)
  BY <1>0, <1>1 DEF Inv, Typed, Phases, ConnectorType
<1>4. /\ \A f : Queued(f, running', c'.pending) <=> Queued(f, running, c.pending)
      /\ \A f : Once(f, running, c.pending) => Once(f, running', c'.pending)
      /\ \A f : Queued(f, running, c.pending) => In(f, running') /\ running' # <<>>
  BY <1>1, <1>2, <1>3, Swapped DEF Queued
<1>5. Typed(c', running', client', conns', closeCb', active', loopAt', user', overlap')
  BY <1>0, <1>1, <1>2, <1>3 DEF Inv, Typed, Same
<1>6. /\ c'.fault = "none" /\ OneAttempt(c') /\ EventsTrue(c', conns, active)
  BY <1>0, <1>2, SameKeeps DEF Inv
<1>7. Phases(running', active', loopAt')
  BY <1>1 DEF Phases
<1>8. Awaited(c', running', conns, user)
  BY <1>0, <1>2, <1>4 DEF Inv, Awaited, Same
<1>9. OneConnection(c', running', client, conns, closeCb)
  BY <1>0, <1>2, <1>4 DEF Inv, OneConnection, Same
<1>10. ChannelGone(c', running', client, active, loopAt')
  <2>1. c.channel = "removed" => In(resetF, running') /\ c.pending # <<>>
    BY <1>0, <1>1, <1>4 DEF Inv, Awaited
  <2> QED
    BY <1>0, <1>1, <1>2, <2>1 DEF Inv, ChannelGone, Same
<1>11. LetGo(c', running', client) /\ Stopped(c', running', client, loopAt', user, overlap)
  BY <1>0, <1>1, <1>2, <1>4 DEF Inv, LetGo, Stopped, Same
<1>12. Inv(c', running', client', conns', closeCb', active', loopAt', user', overlap')
  BY <1>1, <1>5, <1>6, <1>7, <1>8, <1>9, <1>10, <1>11 DEF Inv
<1> QED
  BY <1>12, Primed

\* The retry timer fires on a connector that is idle, or was cancelled.
LEMMA TimerFiresStep ==
    ASSUME IInv, NEW t \in 1..c.attempts, TimerFires(t) PROVE IInv'
<1>0. Inv(c, running, client, conns, closeCb, active, loopAt, user, overlap)
  BY DEF IInv
<1>1. /\ loopAt = "events" /\ <<"timer", t>> \in active /\ active' \subseteq active
      /\ UNCHANGED <<running, client, conns, closeCb, loopAt, user, overlap>>
  BY DEF TimerFires, Handles
<1>2. Typed(c, running, client, conns, closeCb, active', loopAt, user, overlap)
  BY <1>0, <1>1 DEF Inv, Typed
<1>3. EventsTrue(c, conns, active') /\ Phases(running, active', loopAt)
      /\ ChannelGone(c, running, client, active', loopAt)
  BY <1>0, <1>1 DEF Inv, EventsTrue, Phases, ChannelGone
<1>4. CASE t \notin c.timers
  <2>1. c' = c
    BY <1>4 DEF TimerFires
  <2>2. Inv(c', running', client', conns', closeCb', active', loopAt', user', overlap')
    BY <1>0, <1>1, <1>2, <1>3, <2>1 DEF Inv
  <2> QED
    BY <2>2, Primed
<1>5. CASE t \in c.timers
  <2> DEFINE k == [c EXCEPT !.timers = @ \ {t}]
  <2>1. PICK errno \in Errnos(c) : c' = StartInLoop(k, errno)
    BY <1>5 DEF TimerFires
  <2>2. errno \in {"progress", "refused", "fatal"}
    BY DEF Errnos
  <2>3. /\ c.state = "disconnected" /\ c.channel = "none" /\ c.timers = {t} /\ c.sockets = 0
        /\ c \in ConnectorType /\ c.fault = "none" /\ t \in Nat
    <3>1. t \in Nat
      BY <1>0, <1>5 DEF Inv, Typed, ConnectorType
    <3> QED
      BY <1>0, <1>1, <1>5, <3>1 DEF Inv, Typed, OneAttempt, EventsTrue
  <2>4. /\ Idle(k) /\ k.pending = c.pending /\ k.attempts = c.attempts
        /\ k.connect = c.connect
    <3>1. c.timers \ {t} = {} /\ {} \in SUBSET Nat
      BY <2>3
    <3> QED
      BY <2>3, <3>1 DEF Idle, ConnectorType
  <2> HIDE DEF k
  <2>5. Begins(k, c')
    BY <2>1, <2>2, <2>4, StartBegins
  <2>6. /\ c' \in ConnectorType /\ c'.fault = "none" /\ OneAttempt(c')
        /\ c'.pending = c.pending /\ c'.connect = c.connect
        /\ c'.state # "connected" /\ c'.channel # "removed"
        /\ c.attempts <= c'.attempts
        /\ c'.state = "connecting" => c'.attempts = c.attempts + 1
        /\ ~c.connect => c'.state = "disconnected" /\ c'.timers = {}
        /\ c.attempts \in Nat /\ c'.attempts \in Nat
        /\ c'.channel \in {"none", "watched", "removed"}
    BY <2>3, <2>4, <2>5 DEF Begins, ConnectorType
  <2>7. Typed(c', running, client, conns, closeCb, active', loopAt, user, overlap)
    BY <1>2, <2>6 DEF Typed
  <2>8. Awaited(c', running, conns, user)
    BY <1>0, <2>3, <2>6 DEF Inv, Awaited
  <2>9. EventsTrue(c', conns, active')
    BY <1>3, <2>3, <2>6 DEF EventsTrue, OneAttempt
  <2>10. OneConnection(c', running, client, conns, closeCb)
    BY <1>0, <2>3, <2>6 DEF Inv, OneConnection
  <2>11. ChannelGone(c', running, client, active', loopAt) /\ LetGo(c', running, client)
    BY <1>0, <1>1, <2>3, <2>6 DEF Inv, ChannelGone, LetGo, OneAttempt
  <2>12. Stopped(c', running, client, loopAt, user, overlap)
    BY <1>0, <2>3, <2>6 DEF Inv, Stopped
  <2>13. Inv(c', running', client', conns', closeCb', active', loopAt', user', overlap')
    BY <1>1, <1>3, <2>6, <2>7, <2>8, <2>9, <2>10, <2>11, <2>12 DEF Inv
  <2> QED
    BY <2>13, Primed
<1> QED
  BY <1>4, <1>5

\* restart() after a connection that closed
LEMMA RestartStep == ASSUME IInv, RestartConnector PROVE IInv'
<1>0. Inv(c, running, client, conns, closeCb, active, loopAt, user, overlap)
  BY DEF IInv
<1>1. /\ loopAt = "restart" /\ loopAt' = "events"
      /\ UNCHANGED <<running, client, conns, closeCb, active, user, overlap>>
  BY DEF RestartConnector
<1>2. PICK errno \in Errnos(c) : c' = Restart(c, errno)
  BY DEF RestartConnector
<1>3. errno \in {"progress", "refused", "fatal"}
  BY DEF Errnos
<1>4. /\ c \in ConnectorType /\ c.fault = "none" /\ OneAttempt(c) /\ c.state = "connected"
      /\ c.channel = "none" /\ client.connection = 0 /\ client.life = "alive"
      /\ c.attempts \in Nat
  BY <1>0, <1>1 DEF Inv, Typed, OneAttempt, ChannelGone, ConnectorType
<1>5. /\ c' \in ConnectorType /\ c'.fault = "none" /\ OneAttempt(c')
      /\ c'.pending = c.pending /\ c'.state # "connected" /\ c'.channel # "removed"
      /\ c.attempts <= c'.attempts
      /\ c'.state = "connecting" => c'.attempts = c.attempts + 1
  BY <1>2, <1>3, <1>4, RestartBegins
<1>6. c'.attempts \in Nat /\ c'.channel \in {"none", "watched", "removed"}
  BY <1>5 DEF ConnectorType
<1>7. Typed(c', running, client, conns, closeCb, active, loopAt', user, overlap)
  BY <1>0, <1>1, <1>5 DEF Inv, Typed
<1>8. Awaited(c', running, conns, user) /\ Phases(running, active, loopAt')
  BY <1>0, <1>1, <1>4, <1>5 DEF Inv, Awaited, Phases
<1>9. EventsTrue(c', conns, active)
  BY <1>0, <1>4, <1>5, <1>6 DEF Inv, EventsTrue, OneAttempt
<1>10. OneConnection(c', running, client, conns, closeCb)
  BY <1>0, <1>4, <1>5 DEF Inv, OneConnection
<1>11. ChannelGone(c', running, client, active, loopAt') /\ LetGo(c', running, client)
  BY <1>1, <1>4, <1>5 DEF ChannelGone, LetGo
<1>12. Stopped(c', running, client, loopAt', user, overlap)
  BY <1>0, <1>1 DEF Inv, Stopped
<1>13. Inv(c', running', client', conns', closeCb', active', loopAt', user', overlap')
  BY <1>1, <1>5, <1>7, <1>8, <1>9, <1>10, <1>11, <1>12 DEF Inv
<1> QED
  BY <1>13, Primed

\* An attempt that ends in an event, with what that does to every part but the
\* client's connection
LEMMA AttemptEnds ==
    ASSUME IInv, Handles(<<"channel", 0>>), NEW d, Ends(c, d)
    PROVE  /\ c.state = "connecting" /\ client.connection = 0 /\ client.life # "destroyed"
           /\ loopAt = "events" /\ active' \subseteq active
           /\ d \in ConnectorType /\ d.channel = "removed" /\ d.fault = "none" /\ OneAttempt(d)
           /\ Awaited(d, running, conns, user) /\ EventsTrue(d, conns, active')
           /\ OneConnection(d, running, client, conns, closeCb)
           /\ LetGo(d, running, client) /\ Stopped(d, running, client, loopAt, user, overlap)
           /\ user # "new" /\ ~Queued(startF, running, d.pending)
<1>0. Inv(c, running, client, conns, closeCb, active, loopAt, user, overlap)
  BY DEF IInv
<1>1. /\ loopAt = "events" /\ <<"channel", 0>> \in active
      /\ active' = active \ {<<"channel", 0>>}
  BY DEF Handles
<1>2. /\ c.state = "connecting" /\ c.channel = "watched"
      /\ client.connection = 0 /\ client.life # "destroyed"
  BY <1>0, <1>1 DEF Inv, EventsTrue, OneAttempt, OneConnection, LetGo
<1>3. /\ d \in ConnectorType /\ d.fault = "none" /\ OneAttempt(d) /\ d.channel = "removed"
      /\ d.pending = Append(c.pending, resetF) /\ d.attempts = c.attempts
      /\ d.connect = c.connect /\ d.timers \subseteq {c.attempts}
      /\ ~c.connect => d.timers = {}
      /\ d.state # "connecting"
  BY DEF Ends, OneAttempt
<1>4. /\ \A f : Queued(f, running, d.pending) <=> Queued(f, running, c.pending) \/ f = resetF
      /\ \A f : Once(f, running, c.pending) /\ (f # resetF \/ ~Queued(f, running, c.pending))
            => Once(f, running, d.pending)
  <2>1. c.pending \in Seq(Functors) /\ running \in Seq(Functors)
    BY <1>0 DEF Inv, Typed, ConnectorType
  <2> QED
    BY <1>3, <2>1, Pushed, Distinct
<1>5. user # "new" /\ ~Queued(startF, running, c.pending)
  BY <1>0, <1>2 DEF Inv, Awaited
<1>6. Awaited(d, running, conns, user)
  BY <1>0, <1>2, <1>3, <1>4, <1>5, Distinct DEF Inv, Awaited
<1>7. EventsTrue(d, conns, active')
  BY <1>0, <1>1, <1>2, <1>3 DEF Inv, EventsTrue
<1>8. OneConnection(d, running, client, conns, closeCb)
  BY <1>0, <1>2, <1>4, Distinct DEF Inv, OneConnection
<1>9. LetGo(d, running, client)
  BY <1>0, <1>2, <1>3 DEF Inv, LetGo
<1>10. Stopped(d, running, client, loopAt, user, overlap)
  BY <1>0, <1>3, <1>4 DEF Inv, Stopped
<1> QED
  BY <1>1, <1>2, <1>3, <1>4, <1>5, <1>6, <1>7, <1>8, <1>9, <1>10, Distinct

\* An attempt that ends without a connection
LEMMA EndsWithout ==
    ASSUME IInv, Handles(<<"channel", 0>>), Ends(c, c'),
           UNCHANGED <<running, client, conns, closeCb, loopAt, user, overlap>>
    PROVE  IInv'
<1>0. Inv(c, running, client, conns, closeCb, active, loopAt, user, overlap)
  BY DEF IInv
<1>1. /\ c.state = "connecting" /\ client.connection = 0 /\ client.life # "destroyed"
      /\ loopAt = "events" /\ active' \subseteq active
      /\ c' \in ConnectorType /\ c'.channel = "removed" /\ c'.fault = "none" /\ OneAttempt(c')
      /\ Awaited(c', running, conns, user) /\ EventsTrue(c', conns, active')
      /\ OneConnection(c', running, client, conns, closeCb)
      /\ LetGo(c', running, client) /\ Stopped(c', running, client, loopAt, user, overlap)
  BY AttemptEnds
<1>2. Typed(c', running, client, conns, closeCb, active', loopAt, user, overlap)
  BY <1>0, <1>1 DEF Inv, Typed
<1>3. <<"conn", 0>> \notin active'
  <2>1. 0 \notin DOMAIN conns
    BY <1>0, LenProperties DEF Inv, Typed
  <2> QED
    BY <1>1, <2>1 DEF EventsTrue
<1>4. ChannelGone(c', running, client, active', loopAt) /\ Phases(running, active', loopAt)
  BY <1>0, <1>1, <1>3 DEF Inv, ChannelGone, Phases
<1>5. Inv(c', running', client', conns', closeCb', active', loopAt', user', overlap')
  BY <1>1, <1>2, <1>4 DEF Inv
<1> QED
  BY <1>5, Primed

\* An attempt that ends with a connection, which is then the only one up
LEMMA EndsConnected ==
    ASSUME IInv, Handles(<<"channel", 0>>), Ends(c, c'), c'.state = "connected", c.connect,
           NewConnection, UNCHANGED <<running, loopAt, user, overlap>>
    PROVE  IInv'
<1> DEFINE i == Len(conns) + 1
<1>0. Inv(c, running, client, conns, closeCb, active, loopAt, user, overlap)
  BY DEF IInv
<1>1. /\ c.state = "connecting" /\ client.connection = 0 /\ client.life # "destroyed"
      /\ loopAt = "events" /\ active' \subseteq active
      /\ c' \in ConnectorType /\ c'.channel = "removed" /\ c'.fault = "none" /\ OneAttempt(c')
      /\ Awaited(c', running, conns, user) /\ EventsTrue(c', conns, active')
      /\ OneConnection(c', running, client, conns, closeCb)
      /\ LetGo(c', running, client) /\ Stopped(c', running, client, loopAt, user, overlap)
      /\ user # "new" /\ ~Queued(startF, running, c'.pending)
  BY AttemptEnds
<1>2. client.life = "alive"
  BY <1>0, <1>1 DEF Inv, Typed, ClientType, LetGo
<1>3. /\ conns' = Append(conns, "up") /\ closeCb' = Append(closeCb, "client")
      /\ client' = [client EXCEPT !.connection = i]
  BY DEF NewConnection
<1>4. /\ conns \in Seq({"up", "down", "gone"}) /\ closeCb \in Seq({"client", "destruct"})
      /\ Len(closeCb) = Len(conns) /\ Len(conns) \in Nat
      /\ DOMAIN conns = 1..Len(conns) /\ client \in ClientType
  BY <1>0, LenProperties DEF Inv, Typed
<1>5. /\ conns' \in Seq({"up", "down", "gone"}) /\ Len(conns') = i
      /\ conns'[i] = "up" /\ \A j \in 1..Len(conns) : conns'[j] = conns[j]
  BY <1>3, <1>4, AppendProperties
<1>6. /\ closeCb' \in Seq({"client", "destruct"}) /\ Len(closeCb') = i
      /\ closeCb'[i] = "client" /\ \A j \in 1..Len(conns) : closeCb'[j] = closeCb[j]
  BY <1>3, <1>4, AppendProperties
<1>7. DOMAIN conns' = DOMAIN conns \cup {i} /\ i \notin DOMAIN conns /\ i \in Nat /\ i # 0
  BY <1>4, <1>5, LenProperties
<1> HIDE DEF i
<1>8. /\ client' \in ClientType /\ client'.connection = i
      /\ client'.life = "alive" /\ client'.connect = client.connect
  BY <1>2, <1>3, <1>4, <1>7 DEF ClientType
<1>9. Typed(c', running, client', conns', closeCb', active', loopAt, user, overlap)
  BY <1>0, <1>1, <1>5, <1>6, <1>8 DEF Inv, Typed
<1>10. Awaited(c', running, conns', user)
  BY <1>1 DEF Awaited
<1>11. EventsTrue(c', conns', active')
  BY <1>1, <1>4, <1>5, <1>7 DEF EventsTrue
<1>12. OneConnection(c', running, client', conns', closeCb')
  <2>1. \A j \in DOMAIN conns : conns[j] # "up"
    BY <1>1, <1>4 DEF OneConnection
  <2> QED
    BY <1>1, <1>4, <1>5, <1>6, <1>7, <1>8, <2>1 DEF OneConnection
<1>13. <<"conn", i>> \notin active'
  BY <1>1, <1>7 DEF EventsTrue
<1>14. ChannelGone(c', running, client', active', loopAt) /\ Phases(running, active', loopAt)
  BY <1>0, <1>1, <1>8, <1>13 DEF Inv, ChannelGone, Phases
<1>15. LetGo(c', running, client') /\ Stopped(c', running, client', loopAt, user, overlap)
  BY <1>1, <1>8 DEF LetGo, Stopped
<1>16. Inv(c', running', client', conns', closeCb', active', loopAt', user', overlap')
  BY <1>1, <1>9, <1>10, <1>11, <1>12, <1>14, <1>15 DEF Inv
<1> QED
  BY <1>16, Primed

\* handleWrite() and handleError() of the connector's channel
LEMMA ChannelStep == ASSUME IInv, ChannelWritable \/ ChannelError PROVE IInv'
<1>0. /\ c \in ConnectorType /\ c.fault = "none" /\ OneAttempt(c)
      /\ <<"channel", 0>> \in active => c.state = "connecting"
  BY DEF IInv, Inv, Typed, EventsTrue
<1>1. CASE ChannelError
  <2>1. Handles(<<"channel", 0>>) /\ c.state = "connecting"
    BY <1>0, <1>1 DEF ChannelError, Handles
  <2>2. Ends(c, c')
    BY <1>0, <1>1, <2>1, ErrorEnds DEF ChannelError
  <2> QED
    BY <1>1, <2>1, <2>2, EndsWithout DEF ChannelError
<1>2. CASE ChannelWritable
  <2>1. Handles(<<"channel", 0>>) /\ c.state = "connecting"
    BY <1>0, <1>2 DEF ChannelWritable, Handles
  <2>2. PICK error \in BOOLEAN :
           /\ c' = HandleWrite(c, error)
           /\ IF Establishes(c, error) THEN NewConnection
              ELSE UNCHANGED <<conns, closeCb, client>>
    BY <1>2 DEF ChannelWritable
  <2>3. Ends(c, c') /\ c'.state = IF error THEN "disconnected" ELSE "connected"
    BY <1>0, <2>1, <2>2, WriteEnds
  <2>4. UNCHANGED <<running, loopAt, user, overlap>>
    BY <1>2 DEF ChannelWritable
  <2>5. CASE Establishes(c, error)
    <3>1. NewConnection /\ c.connect /\ ~error
      BY <2>2, <2>5 DEF Establishes
    <3> QED
      BY <2>1, <2>3, <2>4, <3>1, EndsConnected
  <2>6. CASE ~Establishes(c, error)
    <3>1. UNCHANGED <<conns, closeCb, client>>
      BY <2>2, <2>6
    <3> QED
      BY <2>1, <2>3, <2>4, <3>1, EndsWithout
  <2> QED
    BY <2>5, <2>6
<1> QED
  BY <1>1, <1>2

\* The peer closes, or answers shutdown(): the client's assertion holds.
LEMMA CloseStep ==
    ASSUME IInv, NEW i \in DOMAIN conns, PeerOrUserCloses(i) PROVE IInv'
<1> DEFINE g == <<"connectDestroyed", i>>
<1>0. Inv(c, running, client, conns, closeCb, active, loopAt, user, overlap)
  BY DEF IInv
<1>1. /\ loopAt = "events" /\ <<"conn", i>> \in active /\ active' = active \ {<<"conn", i>>}
      /\ conns' = [conns EXCEPT ![i] = "down"]
      /\ UNCHANGED <<running, closeCb, user, overlap>>
  BY DEF PeerOrUserCloses, Handles, Close
<1>2. /\ conns \in Seq({"up", "down", "gone"}) /\ DOMAIN conns = 1..Len(conns)
      /\ Len(conns) \in Nat /\ i \in Nat /\ i # 0 /\ client \in ClientType
      /\ c \in ConnectorType /\ c.fault = "none" /\ running \in Seq(Functors)
      /\ closeCb \in Seq({"client", "destruct"}) /\ Len(closeCb) = Len(conns)
  BY <1>0, LenProperties DEF Inv, Typed
<1>3. /\ conns[i] = "up" /\ i = client.connection /\ c.state = "connected"
      /\ \A j \in DOMAIN conns : conns[j] = "up" => j = i
      /\ closeCb[i] = "client" <=> client.life = "alive"
      /\ closeCb[i] \in {"client", "destruct"}
  <2>1. closeCb[i] \in {"client", "destruct"}
    BY <1>2, ElementOfSeq
  <2> QED
    BY <1>0, <1>1, <1>2, <2>1 DEF Inv, EventsTrue, OneConnection
<1>4. /\ conns' \in Seq({"up", "down", "gone"}) /\ Len(conns') = Len(conns)
      /\ DOMAIN conns' = DOMAIN conns /\ conns'[i] = "down"
      /\ \A j \in DOMAIN conns \ {i} : conns'[j] = conns[j]
  <2>1. conns' \in [1..Len(conns) -> {"up", "down", "gone"}]
    BY <1>1, <1>2, ElementOfSeq
  <2>2. conns' \in Seq({"up", "down", "gone"}) /\ Len(conns') = Len(conns)
    BY <1>2, <2>1, IsASeq, LenProperties
  <2> QED
    BY <1>1, <1>2, <2>2
<1>5. \A j \in DOMAIN conns' : conns'[j] # "up"
  BY <1>3, <1>4
<1>6. g \in Functors /\ g # startF /\ g # resetF /\ g # stopF
      /\ (\A j \in Nat : g # <<"forceClose", j>> /\ (g = <<"connectDestroyed", j>> => j = i))
  BY <1>2, Distinct
<1>7. c.channel # "removed"
  BY <1>0, <1>1, <1>3 DEF Inv, ChannelGone
<1>8. user # "new" /\ ~Queued(startF, running, c.pending)
  BY <1>0, <1>1 DEF Inv, Awaited
<1> HIDE DEF g
<1>9. /\ Same(c, c') /\ c'.pending = Append(c.pending, g) /\ c'.connect = c.connect
      /\ client' \in ClientType /\ client'.connect = client.connect
      /\ client'.life = client.life
      /\ \/ client'.connection = 0 /\ loopAt' \in {"events", "restart"} /\ client.life = "alive"
            /\ (loopAt' = "restart" => client.connect)
         \/ client' = client /\ loopAt' = "events" /\ client.life # "alive"
  <2> DEFINE d == QueueInLoop(c, g)
  <2>1. Same(c, d) /\ d.pending = Append(c.pending, g) /\ d.connect = c.connect
    BY <1>2, <1>6, QueueFields
  <2>2. CASE closeCb[i] = "client"
    <3>1. /\ client' = [client EXCEPT !.connection = 0]
          /\ c' = Asserts(d, client.connection = i /\ client.life = "alive", "removeConnection")
          /\ loopAt' = IF Reconnects THEN "restart" ELSE "events"
      BY <2>2 DEF PeerOrUserCloses, Close, RemoveConnection, g
    <3> HIDE DEF d
    <3>2. (client.connection = i /\ client.life = "alive") = TRUE
      BY <1>3, <2>2
    <3>3. c' = d
      BY <2>1, <3>1, <3>2, AssertsNothing DEF Same
    <3>4. /\ client' \in ClientType /\ client'.connect = client.connect
          /\ client'.life = client.life /\ client'.connection = 0
      BY <1>2, <3>1 DEF ClientType
    <3> QED
      BY <1>3, <2>1, <2>2, <3>1, <3>3, <3>4 DEF Reconnects
  <2>3. CASE closeCb[i] # "client"
    <3>1. c' = d /\ client' = client /\ loopAt' = "events"
      BY <1>3, <2>3 DEF PeerOrUserCloses, Close, g
    <3> HIDE DEF d
    <3> QED
      BY <1>2, <1>3, <2>1, <2>3, <3>1
  <2> QED
    BY <2>2, <2>3
<1>10. /\ Awaited(c', running, conns, user) /\ LetGo(c', running, client)
       /\ Stopped(c', running, client, loopAt, user, overlap)
       /\ \A f : Queued(f, running, c'.pending) <=> Queued(f, running, c.pending) \/ f = g
  BY <1>0, <1>2, <1>6, <1>9, PushKeeps, ZenonT(60) DEF Inv
<1>11. c'.fault = "none" /\ OneAttempt(c') /\ EventsTrue(c', conns, active)
  BY <1>0, <1>2, <1>9, SameKeeps DEF Inv
<1>12. Typed(c', running, client', conns', closeCb, active', loopAt', user, overlap)
  BY <1>0, <1>1, <1>2, <1>4, <1>9 DEF Inv, Typed, Same
<1>13. Awaited(c', running, conns', user)
  BY <1>6, <1>8, <1>10 DEF Awaited
<1>14. EventsTrue(c', conns', active')
  BY <1>1, <1>3, <1>4, <1>11 DEF EventsTrue
<1>15. OneConnection(c', running, client', conns', closeCb)
  BY <1>0, <1>2, <1>3, <1>4, <1>5, <1>6, <1>9, <1>10 DEF Inv, OneConnection, Same
<1>16. ChannelGone(c', running, client', active', loopAt') /\ Phases(running, active', loopAt')
  BY <1>0, <1>1, <1>3, <1>7, <1>9 DEF Inv, ChannelGone, Phases, Same
<1>17. LetGo(c', running, client') /\ Stopped(c', running, client', loopAt', user, overlap)
  BY <1>9, <1>10 DEF LetGo, Stopped
<1>18. Inv(c', running', client', conns', closeCb', active', loopAt', user', overlap')
  BY <1>1, <1>11, <1>12, <1>13, <1>14, <1>15, <1>16, <1>17 DEF Inv
<1> QED
  BY <1>18, Primed

(* A step of the pass, by what it does to the loop.                         *)
OnePops ==
    /\ loopAt = "functors"
    /\ running' = Tail(running)
    /\ loopAt' = IF Len(running) = 1 THEN "poll" ELSE "functors"
    /\ UNCHANGED <<closeCb, active, user, overlap>>

\* What every functor of the pass leaves behind
LEMMA PassGoesOn ==
    ASSUME IInv, OnePops
    PROVE  /\ running # <<>> /\ Head(running) \in Functors /\ running' \in Seq(Functors)
           /\ active' = {} /\ Phases(running', active', loopAt')
           /\ loopAt' \in {"poll", "functors"}
           /\ \A f : In(f, running) <=> In(f, running') \/ f = Head(running)
           /\ \A f : Queued(f, running, c.pending)
                        <=> Queued(f, running', c.pending) \/ f = Head(running)
           /\ \A f : Once(f, running, c.pending) =>
                 /\ Once(f, running', c.pending)
                 /\ f = Head(running) => ~Queued(f, running', c.pending)
           /\ \A f : In(f, running') => loopAt' = "functors"
<1>0. Inv(c, running, client, conns, closeCb, active, loopAt, user, overlap)
  BY DEF IInv
<1>1. /\ running \in Seq(Functors) /\ c.pending \in Seq(Functors)
      /\ running # <<>> /\ active' = {}
  BY <1>0 DEF Inv, Typed, Phases, OnePops, ConnectorType
<1>2. /\ running' \in Seq(Functors) /\ Head(running) \in Functors
      /\ Len(running') = Len(running) - 1 /\ Len(running) \in Nat /\ Len(running) >= 1
      /\ \A f : In(f, running) <=> In(f, running') \/ f = Head(running)
      /\ \A f : Queued(f, running, c.pending)
                   <=> Queued(f, running', c.pending) \/ f = Head(running)
      /\ \A f : Once(f, running, c.pending) =>
            /\ Once(f, running', c.pending)
            /\ f = Head(running) => ~Queued(f, running', c.pending)
  BY <1>1, Ran DEF OnePops
<1>3. running' = <<>> <=> Len(running) = 1
  BY <1>2, EmptySeq, LenProperties
<1>4. Phases(running', active', loopAt')
  BY <1>1, <1>3 DEF Phases, OnePops
<1>5. ASSUME NEW f, In(f, running') PROVE loopAt' = "functors"
  BY <1>2, <1>5 DEF In, OnePops
<1> QED
  BY <1>1, <1>2, <1>4, <1>5 DEF OnePops

\* A functor that is none of the connector's, before what it does itself
LEMMA OtherPops ==
    ASSUME IInv, OnePops, Head(running) \notin {startF, stopF, resetF}
    PROVE  /\ Awaited(c, running', conns, user) /\ LetGo(c, running', client)
           /\ Stopped(c, running', client, loopAt', user, overlap)
           /\ ChannelGone(c, running', client, {}, loopAt')
           /\ OneConnection(c, running', client, conns, closeCb)
<1>0. Inv(c, running, client, conns, closeCb, active, loopAt, user, overlap)
  BY DEF IInv
<1>1. /\ loopAt' \in {"poll", "functors"} /\ loopAt = "functors"
      /\ \A f : In(f, running) <=> In(f, running') \/ f = Head(running)
      /\ \A f : Queued(f, running, c.pending)
                   <=> Queued(f, running', c.pending) \/ f = Head(running)
      /\ \A f : Once(f, running, c.pending) => Once(f, running', c.pending)
      /\ \A f : In(f, running') => loopAt' = "functors"
  BY PassGoesOn DEF OnePops
<1>2. Awaited(c, running', conns, user)
  BY <1>0, <1>1 DEF Inv, Awaited
<1>3. LetGo(c, running', client) /\ Stopped(c, running', client, loopAt', user, overlap)
  BY <1>0, <1>1 DEF Inv, LetGo, Stopped
<1>4. ChannelGone(c, running', client, {}, loopAt')
  BY <1>0, <1>1 DEF Inv, ChannelGone
<1>5. OneConnection(c, running', client, conns, closeCb)
  BY <1>0, <1>1 DEF Inv, OneConnection
<1> QED
  BY <1>2, <1>3, <1>4, <1>5

\* startInLoop(): the first attempt
LEMMA StartRuns ==
    ASSUME IInv, OnePops, Head(running) = startF, UNCHANGED <<client, conns>>,
           NEW errno \in {"progress", "refused", "fatal"}, c' = StartInLoop(c, errno)
    PROVE  IInv'
<1>0. Inv(c, running, client, conns, closeCb, active, loopAt, user, overlap)
  BY DEF IInv
<1>1. /\ running' \in Seq(Functors) /\ active' = {} /\ Phases(running', active', loopAt')
      /\ loopAt' \in {"poll", "functors"}
      /\ \A f : Queued(f, running, c.pending)
                   <=> Queued(f, running', c.pending) \/ f = startF
      /\ \A f : Once(f, running, c.pending) => Once(f, running', c.pending)
      /\ Once(startF, running, c.pending) => ~Queued(startF, running', c.pending)
  BY PassGoesOn
<1>2. /\ c.state = "disconnected" /\ c.channel = "none" /\ c.timers = {} /\ conns = <<>>
      /\ c.sockets = 0 /\ c \in ConnectorType /\ c.fault = "none" /\ user # "new"
      /\ client.connection = 0
  BY <1>0, <1>1 DEF Inv, Typed, Awaited, OneAttempt, OneConnection
<1>3. Begins(c, c')
  BY <1>2, StartBegins DEF Idle
<1>4. /\ c' \in ConnectorType /\ c'.fault = "none" /\ OneAttempt(c')
      /\ c'.pending = c.pending /\ c'.connect = c.connect
      /\ c'.state # "connected" /\ c'.channel # "removed"
      /\ ~c.connect => c'.state = "disconnected" /\ c'.timers = {}
  BY <1>3 DEF Begins
<1>5. Typed(c', running', client, conns, closeCb', active', loopAt', user', overlap')
  BY <1>0, <1>1, <1>4 DEF Inv, Typed, OnePops
<1>6. Awaited(c', running', conns, user)
  BY <1>0, <1>1, <1>2, <1>4, Distinct DEF Inv, Awaited
<1>7. EventsTrue(c', conns, active')
  BY <1>1 DEF EventsTrue
<1>8. OneConnection(c', running', client, conns, closeCb)
  BY <1>0, <1>1, <1>2, <1>4 DEF Inv, OneConnection
<1>9. ChannelGone(c', running', client, active', loopAt')
  BY <1>1, <1>4 DEF ChannelGone
<1>10. LetGo(c', running', client)
  BY <1>0, <1>2, <1>4 DEF Inv, LetGo, OneAttempt
<1>11. Stopped(c', running', client, loopAt', user, overlap)
  BY <1>0, <1>1, <1>4 DEF Inv, Stopped
<1>12. Inv(c', running', client', conns', closeCb', active', loopAt', user', overlap')
  BY <1>1, <1>4, <1>5, <1>6, <1>7, <1>8, <1>9, <1>10, <1>11 DEF Inv, OnePops
<1> QED
  BY <1>12, Primed

\* stopInLoop(): no attempt and no timer is left when connect_ is still false.
LEMMA StopRuns ==
    ASSUME IInv, OnePops, Head(running) = stopF, UNCHANGED <<client, conns>>,
           c' = StopInLoop(c)
    PROVE  IInv'
<1>0. Inv(c, running, client, conns, closeCb, active, loopAt, user, overlap)
  BY DEF IInv
<1>1. /\ running' \in Seq(Functors) /\ active' = {} /\ Phases(running', active', loopAt')
      /\ loopAt' \in {"poll", "functors"} /\ loopAt = "functors"
      /\ \A f : In(f, running) <=> In(f, running') \/ f = stopF
      /\ \A f : Queued(f, running, c.pending)
                   <=> Queued(f, running', c.pending) \/ f = stopF
      /\ \A f : Once(f, running, c.pending) => Once(f, running', c.pending)
      /\ \A f : In(f, running') => loopAt' = "functors"
  BY PassGoesOn DEF OnePops
<1>2. c \in ConnectorType /\ c.fault = "none" /\ OneAttempt(c)
  BY <1>0 DEF Inv, Typed
<1>3. EventsTrue(c', conns, active')
  BY <1>1 DEF EventsTrue
<1>4. CASE c.state # "connecting"
  <2>1. /\ c' \in ConnectorType /\ c'.fault = "none" /\ OneAttempt(c')
        /\ c'.state = c.state /\ c'.channel = c.channel /\ c'.pending = c.pending
        /\ c'.connect = c.connect /\ c'.timers = {}
    BY <1>2, <1>4, StopStops
  <2>2. Typed(c', running', client, conns, closeCb', active', loopAt', user', overlap')
    BY <1>0, <1>1, <2>1 DEF Inv, Typed, OnePops
  <2>3. Awaited(c', running', conns, user)
    BY <1>0, <1>1, <2>1, Distinct DEF Inv, Awaited
  <2>4. OneConnection(c', running', client, conns, closeCb)
    BY <1>0, <1>1, <2>1 DEF Inv, OneConnection
  <2>5. ChannelGone(c', running', client, active', loopAt')
    BY <1>0, <1>1, <2>1, Distinct DEF Inv, ChannelGone
  <2>6. LetGo(c', running', client)
    BY <1>0, <1>2, <1>4, <2>1 DEF Inv, LetGo, OneAttempt
  <2>7. Stopped(c', running', client, loopAt', user, overlap)
    BY <1>0, <1>1, <1>4, <2>1 DEF Inv, Stopped
  <2>8. Inv(c', running', client', conns', closeCb', active', loopAt', user', overlap')
    BY <1>1, <1>3, <2>1, <2>2, <2>3, <2>4, <2>5, <2>6, <2>7 DEF Inv, OnePops
  <2> QED
    BY <2>8, Primed
<1>5. CASE c.state = "connecting"
  <2>1. Ends(c, c') /\ c'.state = "disconnected"
    BY <1>2, <1>5, StopStops
  <2>2. /\ c' \in ConnectorType /\ c'.fault = "none" /\ OneAttempt(c') /\ c'.channel = "removed"
        /\ c'.pending = Append(c.pending, resetF) /\ c'.connect = c.connect
        /\ ~c.connect => c'.timers = {}
    BY <2>1 DEF Ends
  <2>3. c.channel = "watched" /\ client.connection = 0 /\ client.life # "destroyed"
    BY <1>0, <1>2, <1>5 DEF Inv, OneAttempt, OneConnection, LetGo
  <2>4. user # "new" /\ ~Queued(startF, running, c.pending)
    BY <1>0, <1>5 DEF Inv, Awaited
  <2>5. /\ \A f : Queued(f, running', c'.pending) <=> Queued(f, running', c.pending) \/ f = resetF
        /\ \A f : Once(f, running', c.pending) /\ (f # resetF \/ ~Queued(f, running', c.pending))
              => Once(f, running', c'.pending)
    <3>1. c.pending \in Seq(Functors) /\ resetF \in Functors
      BY <1>2, Distinct DEF ConnectorType
    <3> QED
      BY <1>1, <2>2, <3>1, Pushed
  <2>6. Typed(c', running', client, conns, closeCb', active', loopAt', user', overlap')
    BY <1>0, <1>1, <2>2 DEF Inv, Typed, OnePops
  <2>7. Awaited(c', running', conns, user)
    BY <1>0, <1>1, <2>2, <2>3, <2>4, <2>5, Distinct DEF Inv, Awaited
  <2>8. OneConnection(c', running', client, conns, closeCb)
    BY <1>0, <1>1, <2>3, <2>5, Distinct DEF Inv, OneConnection
  <2>9. ChannelGone(c', running', client, active', loopAt') /\ LetGo(c', running', client)
    BY <1>0, <1>1, <2>1, <2>2, <2>3 DEF Inv, ChannelGone, LetGo
  <2>10. Stopped(c', running', client, loopAt', user, overlap)
    BY <1>0, <1>1, <2>1, <2>2 DEF Inv, Stopped
  <2>11. Inv(c', running', client', conns', closeCb', active', loopAt', user', overlap')
    BY <1>1, <1>3, <2>2, <2>6, <2>7, <2>8, <2>9, <2>10 DEF Inv, OnePops
  <2> QED
    BY <2>11, Primed
<1> QED
  BY <1>4, <1>5

\* resetChannel() finds the channel removed.
LEMMA ResetRuns ==
    ASSUME IInv, OnePops, Head(running) = resetF, UNCHANGED <<client, conns>>,
           c' = ResetChannel(c)
    PROVE  IInv'
<1>0. Inv(c, running, client, conns, closeCb, active, loopAt, user, overlap)
  BY DEF IInv
<1>1. /\ running' \in Seq(Functors) /\ active' = {} /\ Phases(running', active', loopAt')
      /\ loopAt' \in {"poll", "functors"}
      /\ \A f : Queued(f, running, c.pending)
                   <=> Queued(f, running', c.pending) \/ f = resetF
      /\ \A f : Once(f, running, c.pending) => Once(f, running', c.pending)
      /\ Once(resetF, running, c.pending) => ~Queued(resetF, running', c.pending)
  BY PassGoesOn DEF OnePops
<1>2. c.channel = "removed" /\ c.state # "connecting"
  BY <1>0, <1>1 DEF Inv, Awaited, OneAttempt
<1>3. /\ c' \in ConnectorType /\ c'.channel = "none" /\ c'.fault = c.fault
      /\ c'.state = c.state /\ c'.timers = c.timers /\ c'.attempts = c.attempts
      /\ c'.sockets = c.sockets /\ c'.pending = c.pending /\ c'.connect = c.connect
      /\ c'.retryConnector = c.retryConnector
      /\ c'.retryConnectorTimerId = c.retryConnectorTimerId
  <2>1. c \in ConnectorType /\ c' = [c EXCEPT !.channel = "none"]
    BY <1>0 DEF Inv, Typed, ResetChannel
  <2> QED
    BY <2>1 DEF ConnectorType
<1>4. OneAttempt(c') /\ c'.fault = "none"
  BY <1>0, <1>2, <1>3 DEF Inv, OneAttempt
<1>5. Typed(c', running', client, conns, closeCb', active', loopAt', user', overlap')
  BY <1>0, <1>1, <1>3 DEF Inv, Typed, OnePops
<1>6. Awaited(c', running', conns, user)
  BY <1>0, <1>1, <1>2, <1>3, Distinct DEF Inv, Awaited
<1>7. EventsTrue(c', conns, active')
  BY <1>1 DEF EventsTrue
<1>8. OneConnection(c', running', client, conns, closeCb)
  BY <1>0, <1>1, <1>3 DEF Inv, OneConnection
<1>9. ChannelGone(c', running', client, active', loopAt') /\ LetGo(c', running', client)
  BY <1>0, <1>1, <1>3 DEF Inv, ChannelGone, LetGo
<1>10. Stopped(c', running', client, loopAt', user, overlap)
  BY <1>0, <1>1, <1>2, <1>3, Distinct DEF Inv, Stopped
<1>11. Inv(c', running', client', conns', closeCb', active', loopAt', user', overlap')
  BY <1>1, <1>4, <1>5, <1>6, <1>7, <1>8, <1>9, <1>10 DEF Inv, OnePops
<1> QED
  BY <1>11, Primed

\* A connection that changes its state
LEMMA ConnBecomes ==
    ASSUME IInv, NEW i \in DOMAIN conns, NEW v \in {"down", "gone"},
           conns' = [conns EXCEPT ![i] = v]
    PROVE  /\ conns' \in Seq({"up", "down", "gone"}) /\ Len(conns') = Len(conns)
           /\ DOMAIN conns' = DOMAIN conns /\ conns'[i] = v /\ i \in Nat /\ conns # <<>>
           /\ \A j \in DOMAIN conns \ {i} : conns'[j] = conns[j]
<1>1. /\ conns \in Seq({"up", "down", "gone"}) /\ DOMAIN conns = 1..Len(conns)
      /\ Len(conns) \in Nat
  BY LenProperties DEF IInv, Inv, Typed
<1>2. conns' \in [1..Len(conns) -> {"up", "down", "gone"}]
  BY <1>1, ElementOfSeq
<1>3. conns' \in Seq({"up", "down", "gone"}) /\ Len(conns') = Len(conns)
  BY <1>1, <1>2, IsASeq, LenProperties
<1> QED
  BY <1>1, <1>3

\* connectDestroyed() of a connection that is down, and a forceClose() that
\* comes too late
LEMMA DestroyedRuns ==
    ASSUME IInv, OnePops, UNCHANGED <<c, client>>,
           NEW i, \/ /\ Head(running) = <<"connectDestroyed", i>>
                     /\ conns' = [conns EXCEPT ![i] = "gone"]
                  \/ Head(running) = <<"forceClose", i>> /\ UNCHANGED conns
    PROVE  IInv'
<1>0. Inv(c, running, client, conns, closeCb, active, loopAt, user, overlap)
  BY DEF IInv
<1>1. /\ running' \in Seq(Functors) /\ active' = {} /\ Phases(running', active', loopAt')
      /\ loopAt' \in {"poll", "functors"} /\ Head(running) \in Functors
      /\ Queued(Head(running), running, c.pending)
  BY PassGoesOn
<1>2. i \in Nat /\ Head(running) \notin {startF, stopF, resetF}
  BY <1>1 DEF Functors, startF, stopF, resetF
<1>3. /\ Awaited(c, running', conns, user) /\ LetGo(c, running', client)
      /\ Stopped(c, running', client, loopAt', user, overlap)
      /\ ChannelGone(c, running', client, {}, loopAt')
      /\ OneConnection(c, running', client, conns, closeCb)
  BY <1>2, OtherPops
<1>4. EventsTrue(c, conns', active')
  BY <1>1 DEF EventsTrue
<1>5. CASE UNCHANGED conns
  <2>1. Typed(c, running', client, conns, closeCb', active', loopAt', user', overlap')
    BY <1>0, <1>1 DEF Inv, Typed, OnePops
  <2>2. Inv(c', running', client', conns', closeCb', active', loopAt', user', overlap')
    BY <1>0, <1>1, <1>3, <1>4, <1>5, <2>1 DEF Inv, OnePops
  <2> QED
    BY <2>2, Primed
<1>6. CASE /\ Head(running) = <<"connectDestroyed", i>>
           /\ conns' = [conns EXCEPT ![i] = "gone"]
  <2>1. i \in DOMAIN conns /\ conns[i] # "up"
    BY <1>0, <1>1, <1>2, <1>6 DEF Inv, OneConnection
  <2>2. /\ conns' \in Seq({"up", "down", "gone"}) /\ Len(conns') = Len(conns)
        /\ DOMAIN conns' = DOMAIN conns /\ conns'[i] = "gone" /\ conns # <<>>
        /\ \A j \in DOMAIN conns \ {i} : conns'[j] = conns[j]
    BY <1>6, <2>1, ConnBecomes
  <2>3. Typed(c, running', client, conns', closeCb', active', loopAt', user', overlap')
    BY <1>0, <1>1, <2>2 DEF Inv, Typed, OnePops
  <2>4. Awaited(c, running', conns', user)
    BY <1>3, <2>2 DEF Awaited
  <2>5. OneConnection(c, running', client, conns', closeCb)
    BY <1>3, <2>1, <2>2 DEF OneConnection
  <2>6. Inv(c', running', client', conns', closeCb', active', loopAt', user', overlap')
    BY <1>0, <1>1, <1>3, <1>4, <2>3, <2>4, <2>5 DEF Inv, OnePops
  <2> QED
    BY <2>6, Primed
<1> QED
  BY <1>5, <1>6

\* forceClose() of a connection that the client left behind: the callback that
\* the destructor set does not touch the client.
LEMMA ForceCloseRuns ==
    ASSUME IInv, OnePops, NEW i, Head(running) = <<"forceClose", i>>, conns[i] = "up",
           conns' = [conns EXCEPT ![i] = "down"], closeCb[i] # "client",
           c' = QueueInLoop(c, <<"connectDestroyed", i>>), UNCHANGED client
    PROVE  IInv'
<1> DEFINE g == <<"connectDestroyed", i>>
<1>0. Inv(c, running, client, conns, closeCb, active, loopAt, user, overlap)
  BY DEF IInv
<1>1. /\ running' \in Seq(Functors) /\ active' = {} /\ Phases(running', active', loopAt')
      /\ loopAt' \in {"poll", "functors"} /\ Head(running) \in Functors
      /\ Queued(Head(running), running, c.pending)
  BY PassGoesOn
<1>2. i \in Nat /\ Head(running) \notin {startF, stopF, resetF}
  BY <1>1 DEF Functors, startF, stopF, resetF
<1>3. /\ Awaited(c, running', conns, user) /\ LetGo(c, running', client)
      /\ Stopped(c, running', client, loopAt', user, overlap)
      /\ ChannelGone(c, running', client, {}, loopAt')
      /\ OneConnection(c, running', client, conns, closeCb)
  BY <1>2, OtherPops
<1>4. /\ i \in DOMAIN conns /\ i = client.connection /\ client.life # "alive"
      /\ c \in ConnectorType /\ c.fault = "none" /\ OneAttempt(c) /\ i # 0
  <2>1. i \in DOMAIN conns /\ DOMAIN conns = 1..Len(conns)
    BY <1>0, <1>1, <1>2, LenProperties DEF Inv, Typed, OneConnection
  <2> QED
    BY <1>0, <2>1 DEF Inv, Typed, OneConnection
<1>5. /\ conns' \in Seq({"up", "down", "gone"}) /\ Len(conns') = Len(conns)
      /\ DOMAIN conns' = DOMAIN conns /\ conns'[i] = "down" /\ conns # <<>>
      /\ \A j \in DOMAIN conns \ {i} : conns'[j] = conns[j]
  BY <1>4, ConnBecomes
<1>6. g \in Functors /\ g # startF /\ g # resetF /\ g # stopF
      /\ (\A j \in Nat : g # <<"forceClose", j>> /\ (g = <<"connectDestroyed", j>> => j = i))
  BY <1>2, Distinct
<1> HIDE DEF g
<1>7. Same(c, c') /\ c'.pending = Append(c.pending, g) /\ c'.connect = c.connect
  BY <1>4, <1>6, QueueFields DEF g
<1>8. /\ Awaited(c', running', conns, user) /\ LetGo(c', running', client)
      /\ Stopped(c', running', client, loopAt', user, overlap)
      /\ \A f : Queued(f, running', c'.pending) <=> Queued(f, running', c.pending) \/ f = g
  <2> DEFINE k == c'
             r == running'
             at == loopAt'
  <2>1. /\ c \in ConnectorType /\ r \in Seq(Functors) /\ (k.connect => c.connect)
        /\ Same(c, k) /\ k.pending = Append(c.pending, g)
        /\ Awaited(c, r, conns, user) /\ LetGo(c, r, client)
        /\ Stopped(c, r, client, at, user, overlap)
    BY <1>1, <1>3, <1>4, <1>7
  <2> HIDE DEF k, r, at
  <2>2. /\ Awaited(c, r, conns, user) => Awaited(k, r, conns, user)
        /\ LetGo(c, r, client) => LetGo(k, r, client)
        /\ Stopped(c, r, client, at, user, overlap) => Stopped(k, r, client, at, user, overlap)
        /\ \A f : Queued(f, r, k.pending) <=> Queued(f, r, c.pending) \/ f = g
    BY <1>6, <2>1, PushKeeps
  <2> QED
    BY <2>1, <2>2 DEF k, r, at
<1>9. c'.fault = "none" /\ OneAttempt(c') /\ ChannelGone(c', running', client, {}, loopAt')
  BY <1>3, <1>4, <1>7, SameKeeps
<1>10. Typed(c', running', client, conns', closeCb', active', loopAt', user', overlap')
  BY <1>0, <1>1, <1>5, <1>7 DEF Inv, Typed, OnePops, Same
<1>11. Awaited(c', running', conns', user)
  BY <1>5, <1>8 DEF Awaited
<1>12. EventsTrue(c', conns', active')
  BY <1>1 DEF EventsTrue
<1>13. OneConnection(c', running', client, conns', closeCb)
  BY <1>3, <1>4, <1>5, <1>6, <1>7, <1>8 DEF OneConnection, Same
<1>14. Inv(c', running', client', conns', closeCb', active', loopAt', user', overlap')
  BY <1>1, <1>8, <1>9, <1>10, <1>11, <1>12, <1>13 DEF Inv, OnePops
<1> QED
  BY <1>14, Primed

\* Every functor of the pass
LEMMA RunFunctorStep == ASSUME IInv, Held, RunFunctor PROVE IInv' \/ Excused'
<1> DEFINE f == Head(running)[1]
           i == Head(running)[2]
           at == IF Len(running) = 1 THEN "poll" ELSE "functors"
<1>0. Inv(c, running, client, conns, closeCb, active, loopAt, user, overlap)
  BY DEF IInv
<1>1. /\ loopAt = "functors" /\ running' = Tail(running)
      /\ UNCHANGED <<closeCb, active, user, overlap>>
  BY DEF RunFunctor
<1>2. Head(running) \in Functors /\ running # <<>>
  <2>1. running # <<>> /\ running \in Seq(Functors)
    BY <1>0, <1>1 DEF Inv, Typed, Phases
  <2> QED
    BY <2>1, HeadTailProperties
<1>3. /\ f = "startInLoop" => Head(running) = startF
      /\ f = "stopInLoop" => Head(running) = stopF
      /\ f = "resetChannel" => Head(running) = resetF
      /\ f = "forceClose" => Head(running) = <<"forceClose", i>>
      /\ f = "connectDestroyed" => Head(running) = <<"connectDestroyed", i>>
      /\ Head(running) = <<"forceClose", i>> => i \in Nat
  BY <1>2 DEF Functors, startF, stopF, resetF
<1>4. /\ loopAt' = at
      /\ \/ /\ f = "startInLoop" /\ \E errno \in Errnos(c) : c' = StartInLoop(c, errno)
            /\ UNCHANGED <<client, conns>>
         \/ f = "stopInLoop" /\ c' = StopInLoop(c) /\ UNCHANGED <<client, conns>>
         \/ f = "resetChannel" /\ c' = ResetChannel(c) /\ UNCHANGED <<client, conns>>
         \/ f = "forceClose" /\ UNCHANGED <<c, client, conns>>
         \/ /\ f \in {"startInLoop", "stopInLoop", "resetChannel"} /\ Freed
            /\ c' = Asserts(c, FALSE, "freed")
         \/ /\ f = "connectDestroyed" /\ conns' = [conns EXCEPT ![i] = "gone"]
            /\ UNCHANGED <<c, client>>
         \/ /\ f = "forceClose" /\ conns[i] = "up" /\ closeCb[i] # "client"
            /\ conns' = [conns EXCEPT ![i] = "down"]
            /\ c' = QueueInLoop(c, <<"connectDestroyed", i>>) /\ UNCHANGED client
  <2>1. f = "forceClose" => closeCb[i] = "destruct"
    <3>1. ASSUME f = "forceClose" PROVE Queued(<<"forceClose", i>>, running, c.pending)
      <4>1. Head(running) = <<"forceClose", i>> /\ In(Head(running), running)
        BY <1>0, <1>2, <1>3, <3>1, Ran DEF Inv, Typed, ConnectorType
      <4> QED
        BY <4>1 DEF Queued
    <3> QED
      BY <1>0, <1>3, <3>1 DEF Inv, OneConnection
  <2> HIDE DEF f, i, at
  <2>2. \/ /\ f \in {"startInLoop", "stopInLoop", "resetChannel"}
           /\ \/ Freed /\ c' = Asserts(c, FALSE, "freed")
              \/ /\ \/ f = "startInLoop" /\ \E errno \in Errnos(c) : c' = StartInLoop(c, errno)
                    \/ f = "stopInLoop" /\ c' = StopInLoop(c)
                    \/ f = "resetChannel" /\ c' = ResetChannel(c)
           /\ loopAt' = at
           /\ UNCHANGED <<client, conns>>
        \/ /\ f = "connectDestroyed"
           /\ conns' = [conns EXCEPT ![i] = "gone"]
           /\ loopAt' = at
           /\ UNCHANGED <<c, client>>
        \/ f = "forceClose" /\ conns[i] = "up" /\ Close(i, at)
        \/ f = "forceClose" /\ conns[i] # "up" /\ loopAt' = at /\ UNCHANGED <<c, client, conns>>
    BY DEF RunFunctor, f, i, at
  <2>3. ASSUME f = "forceClose", Close(i, at)
        PROVE  /\ loopAt' = at /\ conns' = [conns EXCEPT ![i] = "down"]
               /\ c' = QueueInLoop(c, <<"connectDestroyed", i>>) /\ UNCHANGED client
    BY <2>1, <2>3 DEF Close
  <2> QED
    BY <2>1, <2>2, <2>3
<1>5. OnePops
  BY <1>1, <1>4 DEF OnePops
<1> HIDE DEF f, i, at
<1>6. Errnos(c) \subseteq {"progress", "refused", "fatal"}
  BY DEF Errnos
<1>7. ASSUME f \in {"startInLoop", "stopInLoop", "resetChannel"}, Freed,
             c' = Asserts(c, FALSE, "freed")
      PROVE  Excused'
  <2>1. Queued(Head(running), running, c.pending)
    BY <1>0, <1>2, Ran DEF Inv, Typed, ConnectorType, Queued
  <2>2. client.life = "destroyed"
    BY <1>7 DEF Freed
  <2>3. ~Queued(startF, running, c.pending) /\ ~Queued(resetF, running, c.pending)
    BY <1>0, <2>2 DEF Inv, Awaited, Held, Hold
  <2>4. Head(running) = stopF
    BY <1>3, <1>7, <2>1, <2>3
  <2>5. user' = "stopped"
    BY <1>1, <2>1, <2>2, <2>4 DEF Held, Hold
  <2>6. /\ c'.fault = "freed" /\ c'.state = c.state /\ c'.timers = c.timers
        /\ c'.sockets = c.sockets
    BY <1>0, <1>7 DEF Asserts, Inv, Typed, ConnectorType
  <2>7. c.state # "connecting" /\ c.timers = {} /\ c.sockets = 0
    BY <1>0, <2>2 DEF Inv, OneAttempt, LetGo, Held, Hold
  <2> QED
    BY <2>5, <2>6, <2>7 DEF Excused
<1> QED
  BY <1>3, <1>4, <1>5, <1>6, <1>7, StartRuns, StopRuns, ResetRuns, DestroyedRuns,
     ForceCloseRuns

\* ~TcpClient() of a client with a connection: it gets a callback of its own.
LEMMA DestructConnected ==
    ASSUME IInv, client.connection # 0, client.life = "alive", loopAt # "restart",
           closeCb' = [closeCb EXCEPT ![client.connection] = "destruct"],
           c' = QueueInLoop(c, <<"forceClose", client.connection>>) \/ c' = c,
           client' = [client EXCEPT !.life = "destroyed"],
           UNCHANGED <<running, conns, active, loopAt, user, overlap>>
    PROVE  IInv'
<1> DEFINE i == client.connection
           g == <<"forceClose", i>>
<1>a. Inv(c, running, client, conns, closeCb, active, loopAt, user, overlap)
  BY DEF IInv
<1>b. /\ loopAt # "restart" /\ client.life = "alive"
      /\ UNCHANGED <<running, conns, active, loopAt, user, overlap>>
  OBVIOUS
<1>c. /\ c \in ConnectorType /\ c.fault = "none" /\ running \in Seq(Functors)
      /\ client \in ClientType /\ conns \in Seq({"up", "down", "gone"})
      /\ closeCb \in Seq({"client", "destruct"}) /\ Len(closeCb) = Len(conns)
      /\ DOMAIN conns = 1..Len(conns) /\ DOMAIN closeCb = 1..Len(conns) /\ Len(conns) \in Nat
  BY <1>a, LenProperties DEF Inv, Typed
<1>1. /\ closeCb' = [closeCb EXCEPT ![i] = "destruct"]
      /\ c' = QueueInLoop(c, g) \/ c' = c
      /\ client' = [client EXCEPT !.life = "destroyed"]
  OBVIOUS
<1>2. /\ client' \in ClientType /\ client'.connection = i
      /\ client'.life = "destroyed" /\ client'.connect = client.connect
  BY <1>c, <1>1 DEF ClientType
<1>3. i \in DOMAIN conns /\ i \in Nat /\ c.state = "connected"
  BY <1>a, <1>c DEF Inv, OneConnection
<1>4. /\ closeCb' \in Seq({"client", "destruct"}) /\ Len(closeCb') = Len(conns)
      /\ closeCb'[i] = "destruct" /\ \A j \in DOMAIN conns \ {i} : closeCb'[j] = closeCb[j]
  <2>0. closeCb \in [1..Len(conns) -> {"client", "destruct"}]
    BY <1>c, ElementOfSeq
  <2>1. closeCb' \in [1..Len(conns) -> {"client", "destruct"}]
    BY <1>1, <2>0
  <2>2. closeCb' \in Seq({"client", "destruct"}) /\ Len(closeCb') = Len(conns)
    BY <1>c, <2>1, IsASeq, LenProperties
  <2> QED
    BY <1>c, <1>1, <1>3, <2>2
<1>5. g \in Functors /\ g # startF /\ g # resetF /\ g # stopF
      /\ (\A j \in Nat : g # <<"connectDestroyed", j>> /\ (g = <<"forceClose", j>> => j = i))
  BY <1>3, Distinct
<1> HIDE DEF g, i
<1>6. /\ Same(c, c') /\ c'.connect = c.connect
      /\ Awaited(c', running, conns, user)
      /\ Stopped(c', running, client, loopAt, user, overlap)
      /\ \A f : Queued(f, running, c'.pending) => Queued(f, running, c.pending) \/ f = g
  <2>1. CASE c' = c
    BY <1>a, <1>c, <2>1 DEF Inv, Same
  <2>2. CASE c' = QueueInLoop(c, g)
    <3>1. Same(c, c') /\ c'.pending = Append(c.pending, g) /\ c'.connect = c.connect
      BY <1>c, <1>5, <2>2, QueueFields
    <3>2. c'.connect => c.connect
      BY <3>1
    <3>3. /\ Awaited(c, running, conns, user) => Awaited(c', running, conns, user)
          /\ Stopped(c, running, client, loopAt, user, overlap)
                => Stopped(c', running, client, loopAt, user, overlap)
          /\ \A f : Queued(f, running, c'.pending) <=> Queued(f, running, c.pending) \/ f = g
      BY <1>c, <1>5, <3>1, <3>2, PushKeeps, ZenonT(60)
    <3> QED
      BY <1>a, <3>1, <3>3 DEF Inv
  <2> QED
    BY <1>1, <2>1, <2>2
<1>7. /\ c'.fault = "none" /\ OneAttempt(c') /\ EventsTrue(c', conns, active)
      /\ ChannelGone(c', running, client, active, loopAt)
  BY <1>a, <1>c, <1>6, SameKeeps DEF Inv
<1>8. Typed(c', running, client', conns, closeCb', active, loopAt, user, overlap)
  BY <1>a, <1>c, <1>2, <1>4, <1>6 DEF Inv, Typed, Same
<1>9. OneConnection(c', running, client', conns, closeCb')
  BY <1>a, <1>c, <1>2, <1>3, <1>4, <1>5, <1>6 DEF Inv, OneConnection, Same, i
<1>10. ChannelGone(c', running, client', active, loopAt) /\ LetGo(c', running, client')
  BY <1>b, <1>2, <1>3, <1>6, <1>7 DEF ChannelGone, LetGo, Same, i
<1>11. Stopped(c', running, client', loopAt, user, overlap)
  BY <1>2, <1>6 DEF Stopped
<1>12. Inv(c', running', client', conns', closeCb', active', loopAt', user', overlap')
  BY <1>a, <1>b, <1>6, <1>7, <1>8, <1>9, <1>10, <1>11 DEF Inv
<1> QED
  BY <1>12, Primed

\* ~TcpClient(): a connection that is up gets a callback of its own, a
\* connector without one is stopped.
LEMMA DestructStep == ASSUME IInv, Held, Destruct PROVE IInv' \/ Excused'
<1>0. Inv(c, running, client, conns, closeCb, active, loopAt, user, overlap)
  BY DEF IInv
<1>1. /\ loopAt # "restart" /\ client.life = "alive"
      /\ user \notin {"stopping", "queueing"}
      /\ UNCHANGED <<running, conns, active, loopAt, user, overlap, cameUp>>
  BY DEF Destruct
<1>2. /\ c \in ConnectorType /\ c.fault = "none" /\ running \in Seq(Functors)
      /\ client \in ClientType /\ conns \in Seq({"up", "down", "gone"})
      /\ closeCb \in Seq({"client", "destruct"}) /\ Len(closeCb) = Len(conns)
      /\ DOMAIN conns = 1..Len(conns) /\ DOMAIN closeCb = 1..Len(conns) /\ Len(conns) \in Nat
  BY <1>0, LenProperties DEF Inv, Typed
<1>3. CASE client.connection # 0
  <2> DEFINE i == client.connection
             g == <<"forceClose", i>>
  <2>1. i \in DOMAIN conns /\ i \in Nat /\ c.state = "connected" /\ c.timers = {}
    BY <1>0, <1>2, <1>3 DEF Inv, OneConnection, OneAttempt
  <2>2. /\ closeCb' = [closeCb EXCEPT ![i] = "destruct"]
        /\ \E k \in {QueueInLoop(c, g), c} : c' = DestructConnector(k)
        /\ client' = [client EXCEPT !.life = "destroyed"]
    <3>1. \A k \in {QueueInLoop(c, g), c} : k.timers = {}
      BY <1>2, <2>1 DEF QueueInLoop, ConnectorType
    <3> QED
      BY <1>3, <2>1, <3>1 DEF Destruct
  <2>4. PICK k \in {QueueInLoop(c, g), c} : c' = DestructConnector(k)
    BY <2>2
  <2>5. /\ k \in ConnectorType /\ k.channel = c.channel /\ k.fault = c.fault
        /\ k.state = c.state /\ k.timers = c.timers /\ k.sockets = c.sockets
    <3>1. i \in Nat
      BY <2>1
    <3>2. g \in Functors
      BY <3>1 DEF Functors
    <3>3. Append(c.pending, g) \in Seq(Functors)
      BY <1>2, <3>2, AppendProperties DEF ConnectorType
    <3> QED
      BY <1>2, <3>3 DEF QueueInLoop, ConnectorType
  <2>6. CASE c.channel # "none"
    <3>1. c.channel = "removed"
      BY <1>0, <1>2, <2>1, <2>6 DEF Inv, OneAttempt, ConnectorType
    <3>2. cameUp'
      BY <1>1, <1>3, <3>1 DEF Held, Hold
    <3>3. c'.fault = "destructor" /\ c'.state = "connected" /\ c'.timers = {} /\ c'.sockets = 0
      <4>1. c.sockets = 0
        BY <1>0, <2>1 DEF Inv, OneAttempt
      <4>2. /\ c'.fault = "destructor" /\ c'.state = k.state /\ c'.timers = k.timers
            /\ c'.sockets = k.sockets
        BY <1>2, <2>4, <2>5, <2>6 DEF DestructConnector, Asserts, ConnectorType
      <4> QED
        BY <2>1, <2>5, <4>1, <4>2
    <3> QED
      BY <3>2, <3>3 DEF Excused
  <2>7. CASE c.channel = "none"
    <3>1. (k.channel = "none") = TRUE
      BY <2>5, <2>7
    <3>2. c' = k
      BY <2>4, <2>5, <3>1, AssertsNothing DEF DestructConnector
    <3> QED
      BY <1>1, <1>3, <2>2, <2>4, <3>2, DestructConnected
  <2> QED
    BY <2>6, <2>7
<1>4. CASE client.connection = 0
  <2> DEFINE k == [c EXCEPT !.connect = FALSE]
  <2>1. /\ c' = QueueInLoop(k, stopF)
        /\ client' = [client EXCEPT !.life = "keepConnector"] /\ UNCHANGED closeCb
    BY <1>4 DEF Destruct, stopF
  <2>2. /\ client' \in ClientType /\ client'.connection = 0
        /\ client'.life = "keepConnector" /\ client'.connect = client.connect
    BY <1>2, <1>4, <2>1 DEF ClientType
  <2>3. Same(c, k) /\ k.pending = c.pending /\ ~k.connect /\ k \in ConnectorType
    BY <1>2, ConnectFields DEF Same
  <2> HIDE DEF k
  <2>4. Same(k, c') /\ c'.pending = Append(k.pending, stopF) /\ c'.connect = k.connect
    BY <2>1, <2>3, QueueFields, Distinct
  <2>5. Same(c, c') /\ c'.pending = Append(c.pending, stopF) /\ ~c'.connect
    BY <2>3, <2>4 DEF Same
  <2>6. /\ c'.fault = "none" /\ OneAttempt(c') /\ EventsTrue(c', conns, active)
        /\ ChannelGone(c', running, client, active, loopAt)
    BY <1>0, <1>2, <2>5, SameKeeps DEF Inv
  <2>7. /\ Awaited(c', running, conns, user)
        /\ Stopped(c', running, client, loopAt, user, overlap)
        /\ \A f : Queued(f, running, c'.pending) <=> Queued(f, running, c.pending) \/ f = stopF
    <3>1. stopF \in Functors /\ stopF # startF /\ stopF # resetF
      BY Distinct
    <3>2. /\ Awaited(c, running, conns, user) => Awaited(c', running, conns, user)
          /\ Stopped(c, running, client, loopAt, user, overlap)
                => Stopped(c', running, client, loopAt, user, overlap)
          /\ \A f : Queued(f, running, c'.pending)
                       <=> Queued(f, running, c.pending) \/ f = stopF
      BY <1>2, <2>5, <3>1, PushKeeps
    <3> QED
      BY <1>0, <3>2 DEF Inv
  <2>8. Typed(c', running, client', conns, closeCb, active, loopAt, user, overlap)
    BY <1>0, <2>2, <2>5 DEF Inv, Typed, Same
  <2>9. OneConnection(c', running, client', conns, closeCb)
    <3>1. OneConnection(c, running, client, conns, closeCb)
      BY <1>0 DEF Inv
    <3>2. \A i \in DOMAIN conns : conns[i] # "up"
      BY <1>2, <1>4, <3>1 DEF OneConnection
    <3>3. \A i \in Nat : stopF # <<"forceClose", i>> /\ stopF # <<"connectDestroyed", i>>
      BY DEF stopF
    <3>4. \A i \in Nat : Queued(<<"forceClose", i>>, running, c'.pending) =>
             i \in DOMAIN conns /\ closeCb[i] = "destruct"
      BY <2>7, <3>1, <3>3 DEF OneConnection
    <3>5. \A i \in Nat : Queued(<<"connectDestroyed", i>>, running, c'.pending) =>
             i \in DOMAIN conns /\ conns[i] # "up"
      BY <2>7, <3>1, <3>3 DEF OneConnection
    <3> QED
      BY <2>2, <3>2, <3>4, <3>5 DEF OneConnection
  <2>10. ChannelGone(c', running, client', active, loopAt) /\ LetGo(c', running, client')
    BY <1>1, <1>4, <2>2, <2>5, <2>6, <2>7 DEF ChannelGone, LetGo
  <2>11. Stopped(c', running, client', loopAt, user, overlap)
    BY <2>2, <2>7 DEF Stopped
  <2>12. Inv(c', running', client', conns', closeCb', active', loopAt', user', overlap')
    BY <1>0, <1>1, <2>1, <2>6, <2>7, <2>8, <2>9, <2>10, <2>11 DEF Inv
  <2> QED
    BY <2>12, Primed
<1> QED
  BY <1>3, <1>4

\* ~Connector() finds no channel.
LEMMA RemoveConnectorStep == ASSUME IInv, RemoveConnector PROVE IInv'
<1>0. Inv(c, running, client, conns, closeCb, active, loopAt, user, overlap)
  BY DEF IInv
<1>1. /\ loopAt = "poll" /\ client.life = "keepConnector" /\ c.pending = <<>>
      /\ client' = [client EXCEPT !.life = "destroyed"]
      /\ c' = DestructConnector(c)
      /\ UNCHANGED <<running, conns, closeCb, active, loopAt, user, overlap>>
  BY DEF RemoveConnector
<1>2. /\ c \in ConnectorType /\ c.fault = "none" /\ client \in ClientType /\ running = <<>>
      /\ ~c.connect /\ client.connection = 0
  BY <1>0, <1>1 DEF Inv, Typed, Phases, LetGo
<1>3. \A f : ~Queued(f, running, c.pending)
  BY <1>1, <1>2, Swapped DEF Queued
<1>4. c.channel = "none" /\ c.state # "connecting"
  <2>1. c.channel \in {"none", "watched", "removed"}
    BY <1>2 DEF ConnectorType
  <2> QED
    BY <1>0, <1>1, <1>3, <2>1 DEF Inv, Awaited, LetGo, OneAttempt
<1>5. c' = c
  <2>1. (c.channel = "none") = TRUE
    BY <1>4
  <2> QED
    BY <1>1, <1>2, <2>1, AssertsNothing DEF DestructConnector
<1>6. /\ client' \in ClientType /\ client'.connection = 0
      /\ client'.life = "destroyed" /\ client'.connect = client.connect
  BY <1>1, <1>2 DEF ClientType
<1>7. Typed(c, running, client', conns, closeCb, active, loopAt, user, overlap)
  BY <1>0, <1>6 DEF Inv, Typed
<1>8. OneConnection(c, running, client', conns, closeCb)
  <2>1. DOMAIN conns = 1..Len(conns) /\ Len(conns) \in Nat
    BY <1>0, LenProperties DEF Inv, Typed
  <2> QED
    BY <1>0, <1>2, <1>6, <2>1 DEF Inv, OneConnection
<1>9. ChannelGone(c, running, client', active, loopAt) /\ LetGo(c, running, client')
  BY <1>0, <1>1, <1>2, <1>4, <1>6 DEF Inv, ChannelGone, LetGo
<1>10. Stopped(c, running, client', loopAt, user, overlap)
  BY <1>0, <1>6 DEF Inv, Stopped
<1>11. Inv(c', running', client', conns', closeCb', active', loopAt', user', overlap')
  BY <1>0, <1>1, <1>5, <1>7, <1>8, <1>9, <1>10 DEF Inv
<1> QED
  BY <1>11, Primed

\* The initial state
LEMMA InitIInv == TcpClientInit => IInv
<1> SUFFICES ASSUME TcpClientInit PROVE IInv
  OBVIOUS
<1>1. /\ c = NewConnector /\ running = <<>> /\ conns = <<>> /\ closeCb = <<>>
      /\ client = [connect |-> FALSE, connection |-> 0, life |-> "alive"]
      /\ active = {} /\ loopAt = "poll" /\ user = "new" /\ overlap = FALSE
  BY DEF TcpClientInit
<1>2. /\ c \in ConnectorType /\ c.state = "disconnected" /\ c.channel = "none"
      /\ c.timers = {} /\ c.pending = <<>> /\ c.sockets = 0 /\ c.fault = "none" /\ ~c.connect
  <2>1. <<>> \in Seq(Functors) /\ kInitRetryDelayMs \in Nat
    BY DEF kInitRetryDelayMs
  <2> QED
    BY <1>1, <2>1 DEF NewConnector, ConnectorType, Faults
<1>3. client \in ClientType /\ client.connection = 0 /\ client.life = "alive"
  BY <1>1 DEF ClientType
<1>4. \A f : ~In(f, <<>>) /\ Single(f, <<>>)
  BY DEF In, Single
<1>5. \A f : ~Queued(f, running, c.pending) /\ Once(f, running, c.pending)
  BY <1>1, <1>2, <1>4 DEF Queued, Once
<1>6. Typed(c, running, client, conns, closeCb, active, loopAt, user, overlap)
  <2>1. \A S : <<>> \in Seq(S)
    BY EmptySeq
  <2>2. /\ running \in Seq(Functors) /\ conns \in Seq({"up", "down", "gone"})
        /\ closeCb \in Seq({"client", "destruct"}) /\ Len(closeCb) = Len(conns)
    BY <1>1, <2>1
  <2>3. /\ active \subseteq {"timer", "channel", "conn"} \X Nat
        /\ loopAt \in {"poll", "events", "restart", "functors"}
        /\ user \in {"new", "connected", "disconnected", "stopping", "queueing", "stopped"}
        /\ overlap \in BOOLEAN
    BY <1>1
  <2> QED
    BY <1>2, <1>3, <2>2, <2>3 DEF Typed
<1>7. Phases(running, active, loopAt) /\ OneAttempt(c) /\ EventsTrue(c, conns, active)
  BY <1>1, <1>2 DEF Phases, OneAttempt, EventsTrue
<1>8. Awaited(c, running, conns, user)
  BY <1>1, <1>2, <1>5 DEF Awaited
<1>9. OneConnection(c, running, client, conns, closeCb)
  BY <1>1, <1>3, <1>5 DEF OneConnection
<1>10. /\ ChannelGone(c, running, client, active, loopAt) /\ LetGo(c, running, client)
       /\ Stopped(c, running, client, loopAt, user, overlap)
  BY <1>1, <1>2, <1>3 DEF ChannelGone, LetGo, Stopped
<1> QED
  BY <1>2, <1>6, <1>7, <1>8, <1>9, <1>10 DEF IInv, Inv

-----------------------------------------------------------------------------
(* What the destructor finds.                                               *)

\* In the next state
LEMMA HeldPrimed ==
    ASSUME Hold(c', running', client', user', cameUp') PROVE Held'
  BY DEF Held, Hold, Queued, In, startF, stopF

\* A step that takes no channel out of the poller while there is a connection,
\* and that starts nothing, for a client that is alive or not
LEMMA HoldKept ==
    ASSUME NEW k, NEW d, NEW r, NEW q, NEW cl, NEW dl, NEW u, NEW w, NEW up,
           Hold(k, r, cl, u, up),
           dl.connection \in {cl.connection, 0}, dl.life = cl.life,
           cl.connection # 0 /\ d.channel = "removed" => k.channel = "removed",
           cl.life = "destroyed" => d.channel = k.channel /\ d.timers \subseteq k.timers,
           Queued(startF, q, d.pending) => Queued(startF, r, k.pending),
           Queued(stopF, q, d.pending) => Queued(stopF, r, k.pending),
           u = "stopped" => w = "stopped"
    PROVE  Hold(d, q, dl, w, up)
  BY DEF Hold

\* The user thread, whose connect() is the first
LEMMA HeldUser ==
    ASSUME IInv, Held, \/ UserConnect /\ user = "new"
                       \/ UserDisconnect \/ UserStop \/ ConnectorStop
    PROVE  Held'
<1>1. /\ c \in ConnectorType /\ running \in Seq(Functors) /\ c.pending \in Seq(Functors)
      /\ client \in ClientType
      /\ client.life = "alive" /\ Queued(stopF, running, c.pending) => user = "stopped"
  BY DEF IInv, Inv, Typed, ConnectorType, Held, Hold
<1>2. CASE UserConnect /\ user = "new"
  <2> DEFINE d == QueueInLoop(c, startF)
  <2>1. /\ c' = [d EXCEPT !.connect = TRUE] /\ client.life = "alive"
        /\ client' = [client EXCEPT !.connect = TRUE]
        /\ UNCHANGED <<running, cameUp>>
    BY <1>2 DEF UserConnect, Start, startF
  <2>2. client'.connection = client.connection /\ client'.life = "alive"
    BY <1>1, <2>1 DEF ClientType
  <2>3. Same(c, d) /\ d.pending = Append(c.pending, startF) /\ d \in ConnectorType
    BY <1>1, QueueFields, Distinct DEF Same
  <2> HIDE DEF d
  <2>4. Same(d, c') /\ c'.pending = d.pending
    BY <2>1, <2>3, ConnectFields
  <2>5. c'.channel = c.channel /\ c'.pending = Append(c.pending, startF)
    BY <2>3, <2>4 DEF Same
  <2>6. Queued(stopF, running, c'.pending) <=> Queued(stopF, running, c.pending)
    BY <1>1, <2>5, Pushed, Distinct
  <2>7. ~Queued(stopF, running, c'.pending)
    BY <1>1, <1>2, <2>1, <2>6
  <2>8. Hold(c', running', client', user', cameUp')
    BY <2>1, <2>2, <2>5, <2>7 DEF Held, Hold
  <2> QED
    BY <2>8, HeldPrimed
<1>3. CASE UserDisconnect \/ UserStop
  <2>1. /\ user \in {"connected", "disconnected"} /\ client.life = "alive"
        /\ client' = [client EXCEPT !.connect = FALSE]
        /\ UNCHANGED <<c, running, cameUp>>
    BY <1>3 DEF UserDisconnect, UserStop
  <2>2. client'.connection = client.connection /\ client'.life = client.life
    BY <1>1, <2>1 DEF ClientType
  <2>3. Hold(c', running', client', user', cameUp')
    BY <1>1, <2>1, <2>2 DEF Held, Hold
  <2> QED
    BY <2>3, HeldPrimed
<1>4. CASE ConnectorStop
  <2>1. UNCHANGED <<running, client, cameUp>>
    BY <1>4 DEF ConnectorStop
  <2>2. CASE user = "stopping" /\ c' = [c EXCEPT !.connect = FALSE]
    <3>1. c'.channel = c.channel /\ c'.timers = c.timers /\ c'.pending = c.pending
      BY <1>1, <2>2, ConnectFields DEF Same
    <3>2. Hold(c', running', client', user', cameUp')
      BY <2>1, <2>2, <3>1 DEF Held, Hold
    <3> QED
      BY <3>2, HeldPrimed
  <2>3. CASE user' = "stopped" /\ c' = QueueInLoop(c, stopF)
    <3>1. /\ c'.channel = c.channel /\ c'.timers = c.timers
          /\ c'.pending = Append(c.pending, stopF)
      BY <1>1, <2>3, QueueFields, Distinct DEF Same
    <3>2. Queued(startF, running, c'.pending) <=> Queued(startF, running, c.pending)
      BY <1>1, <3>1, Pushed, Distinct
    <3>3. Hold(c', running', client', user', cameUp')
      BY <2>1, <2>3, <3>1, <3>2 DEF Held, Hold
    <3> QED
      BY <3>3, HeldPrimed
  <2> QED
    BY <1>4, <2>2, <2>3 DEF ConnectorStop, stopF
<1> QED
  BY <1>2, <1>3, <1>4

\* The events of the loop
LEMMA HeldEvents ==
    ASSUME IInv, Held, \/ Poll \/ ChannelWritable \/ ChannelError \/ RestartConnector
                       \/ BeginPass \/ \E t \in 1..c.attempts : TimerFires(t)
    PROVE  Held'
<1>0. Inv(c, running, client, conns, closeCb, active, loopAt, user, overlap)
  BY DEF IInv
<1>1. /\ c \in ConnectorType /\ c.fault = "none" /\ OneAttempt(c)
      /\ client \in ClientType /\ Hold(c, running, client, user, cameUp)
      /\ running \in Seq(Functors) /\ c.pending \in Seq(Functors)
      /\ client.connection # 0 => c.state = "connected"
      /\ <<"channel", 0>> \in active => c.state = "connecting"
      /\ client.life = "destroyed" => c.state # "connecting"
  BY <1>0 DEF Inv, Typed, ConnectorType, OneConnection, EventsTrue, LetGo, Held
<1>2. CASE Poll
  <2>1. loopAt = "poll" /\ UNCHANGED <<c, running, client, user>>
    BY <1>2 DEF Poll
  <2>2. ~(client.connection # 0 /\ c.channel = "removed")
    BY <1>0, <1>1, <2>1 DEF Inv, ChannelGone
  <2>3. Hold(c', running', client', user', cameUp')
    BY <1>1, <2>1, <2>2 DEF Hold
  <2> QED
    BY <2>3, HeldPrimed
<1>3. CASE ChannelWritable \/ ChannelError
  <2>1. /\ Handles(<<"channel", 0>>) /\ UNCHANGED <<running, user>>
        /\ c.state = "connecting" /\ client.connection = 0 /\ client.life # "destroyed"
    BY <1>1, <1>3 DEF ChannelWritable, ChannelError, Handles
  <2>2. Ends(c, c')
    <3>1. CASE ChannelError
      BY <1>1, <2>1, <3>1, ErrorEnds DEF ChannelError
    <3>2. CASE ChannelWritable
      <4>1. PICK error \in BOOLEAN : c' = HandleWrite(c, error)
        BY <3>2 DEF ChannelWritable
      <4> QED
        BY <1>1, <2>1, <4>1, WriteEnds
    <3> QED
      BY <1>3, <3>1, <3>2
  <2>3. Queued(stopF, running, c'.pending) <=> Queued(stopF, running, c.pending)
    <3>1. c'.pending = Append(c.pending, resetF)
      BY <2>2 DEF Ends
    <3> QED
      BY <1>1, <3>1, Pushed, Distinct
  <2>4. client'.life = client.life /\ (cameUp' \/ client' = client)
    BY <1>1, <1>3 DEF ChannelWritable, ChannelError, NewConnection, ClientType
  <2>5. Hold(c', running', client', user', cameUp')
    BY <1>1, <2>1, <2>3, <2>4 DEF Hold
  <2> QED
    BY <2>5, HeldPrimed
<1>4. CASE RestartConnector
  <2>1. loopAt = "restart" /\ UNCHANGED <<running, client, user, cameUp>>
    BY <1>4 DEF RestartConnector
  <2>2. c.state = "connected" /\ c.channel = "none" /\ client.life = "alive"
    BY <1>0, <1>1, <2>1 DEF Inv, OneAttempt, ChannelGone, ConnectorType
  <2>3. PICK errno \in {"progress", "refused", "fatal"} : c' = Restart(c, errno)
    BY <1>4 DEF RestartConnector, Errnos
  <2>4. c'.pending = c.pending /\ c'.channel # "removed"
    BY <1>1, <2>2, <2>3, RestartBegins
  <2>5. Hold(c', running', client', user', cameUp')
    BY <1>1, <2>1, <2>2, <2>4 DEF Hold
  <2> QED
    BY <2>5, HeldPrimed
<1>5. CASE BeginPass
  <2>1. /\ running' = c.pending /\ c' = [c EXCEPT !.pending = <<>>] /\ loopAt = "events"
        /\ UNCHANGED <<client, user, cameUp>>
    BY <1>5 DEF BeginPass
  <2>2. running = <<>>
    BY <1>0, <2>1 DEF Inv, Phases
  <2>3. c'.channel = c.channel /\ c'.timers = c.timers /\ c'.pending = <<>>
    BY <1>1, <2>1 DEF ConnectorType
  <2>4. \A f : Queued(f, running', c'.pending) <=> Queued(f, running, c.pending)
    BY <2>1, <2>2, <2>3, Swapped
  <2>5. Hold(c', running', client', user', cameUp')
    BY <1>1, <2>1, <2>3, <2>4 DEF Hold
  <2> QED
    BY <2>5, HeldPrimed
<1>6. CASE \E t \in 1..c.attempts : TimerFires(t)
  <2>1. PICK t \in 1..c.attempts : TimerFires(t)
    BY <1>6
  <2>2. UNCHANGED <<running, client, user, cameUp>>
    BY <2>1 DEF TimerFires
  <2>3. CASE c' = c
    <3>1. Hold(c', running', client', user', cameUp')
      BY <1>1, <2>2, <2>3
    <3> QED
      BY <3>1, HeldPrimed
  <2>4. CASE t \in c.timers
    <3> DEFINE k == [c EXCEPT !.timers = @ \ {t}]
    <3>1. PICK errno \in {"progress", "refused", "fatal"} : c' = StartInLoop(k, errno)
      BY <2>1, <2>4 DEF TimerFires, Errnos
    <3>2. /\ c.state = "disconnected" /\ c.channel = "none" /\ c.timers = {t}
          /\ c.sockets = 0 /\ client.connection = 0 /\ client.life # "destroyed"
      <4>1. <<"timer", t>> \in active /\ t \in Nat
        BY <1>1, <2>1, <2>4 DEF TimerFires, Handles, ConnectorType
      <4> QED
        BY <1>0, <1>1, <2>4, <4>1 DEF Inv, OneAttempt, EventsTrue, Hold
    <3>3. Idle(k) /\ k.pending = c.pending
      <4>1. c.timers \ {t} = {} /\ {} \in SUBSET Nat
        BY <3>2
      <4> QED
        BY <1>1, <3>2, <4>1 DEF Idle, ConnectorType
    <3> HIDE DEF k
    <3>4. c'.pending = c.pending /\ c'.channel # "removed"
      BY <3>1, <3>3, StartBegins DEF Begins
    <3>5. Hold(c', running', client', user', cameUp')
      BY <1>1, <2>2, <3>2, <3>4 DEF Hold
    <3> QED
      BY <3>5, HeldPrimed
  <2> QED
    BY <2>1, <2>3, <2>4 DEF TimerFires
<1> QED
  BY <1>2, <1>3, <1>4, <1>5, <1>6

\* The close of a connection
LEMMA HeldClose ==
    ASSUME IInv, Held, NEW i \in DOMAIN conns, PeerOrUserCloses(i) PROVE Held'
<1> DEFINE g == <<"connectDestroyed", i>>
           d == QueueInLoop(c, g)
<1>1. /\ c \in ConnectorType /\ client \in ClientType /\ i \in Nat
      /\ running \in Seq(Functors) /\ c.pending \in Seq(Functors)
      /\ Hold(c, running, client, user, cameUp)
  <2>1. DOMAIN conns = 1..Len(conns) /\ Len(conns) \in Nat
    BY LenProperties DEF IInv, Inv, Typed
  <2> QED
    BY <2>1 DEF IInv, Inv, Typed, ConnectorType, Held
<1>2. g \in Functors /\ g # startF /\ g # stopF
  BY <1>1, Distinct
<1>3. /\ UNCHANGED <<running, user, cameUp>>
      /\ \/ c' = d /\ client' = client
         \/ /\ client' = [client EXCEPT !.connection = 0]
            /\ \E b : c' = Asserts(d, b, "removeConnection")
  BY DEF PeerOrUserCloses, Close, RemoveConnection
<1>4. Same(c, d) /\ d.pending = Append(c.pending, g)
  BY <1>1, <1>2, QueueFields
<1> HIDE DEF d, g
<1>5. /\ c'.channel = c.channel /\ c'.timers = c.timers
      /\ c'.pending = Append(c.pending, g)
  BY <1>3, <1>4 DEF Same, Asserts, ConnectorType
<1>6. client'.connection \in {client.connection, 0} /\ client'.life = client.life
  BY <1>1, <1>3 DEF ClientType
<1>7. \A f \in {startF, stopF} :
         Queued(f, running, c'.pending) <=> Queued(f, running, c.pending)
  BY <1>1, <1>2, <1>5, Pushed
<1>8. Hold(c', running', client', user', cameUp')
  BY <1>1, <1>3, <1>5, <1>6, <1>7, HoldKept
<1> QED
  BY <1>8, HeldPrimed

\* A functor of the pass; one of a connector that is gone is no functor of a
\* step without a fault.
LEMMA HeldRuns ==
    ASSUME IInv, Held, RunFunctor, c'.fault = "none" PROVE Held'
<1> DEFINE f == Head(running)[1]
           i == Head(running)[2]
           g == <<"connectDestroyed", i>>
           d == QueueInLoop(c, g)
<1>0. Inv(c, running, client, conns, closeCb, active, loopAt, user, overlap)
  BY DEF IInv
<1>1. /\ c \in ConnectorType /\ c.fault = "none" /\ OneAttempt(c)
      /\ client \in ClientType /\ Hold(c, running, client, user, cameUp)
      /\ running \in Seq(Functors) /\ c.pending \in Seq(Functors)
      /\ client.connection # 0 => c.state = "connected" /\ conns # <<>>
  <2>1. DOMAIN conns = 1..Len(conns) /\ Len(conns) \in Nat
    BY <1>0, LenProperties DEF Inv, Typed
  <2> QED
    BY <1>0, <2>1 DEF Inv, Typed, ConnectorType, OneConnection, Held
<1>2. running # <<>> /\ running' = Tail(running) /\ UNCHANGED <<user, cameUp>>
  BY <1>0 DEF RunFunctor, Inv, Phases
<1>3. /\ Head(running) \in Functors
      /\ \A h : Queued(h, running, c.pending)
                   <=> Queued(h, running', c.pending) \/ h = Head(running)
  BY <1>1, <1>2, Ran
<1>4. f = "startInLoop" => Head(running) = startF
  BY <1>3 DEF Functors, startF, stopF, resetF
<1>5. \/ /\ f \in {"startInLoop", "stopInLoop", "resetChannel"} /\ ~Freed
         /\ \/ /\ f = "startInLoop"
               /\ \E errno \in Errnos(c) : c' = StartInLoop(c, errno)
            \/ f = "stopInLoop" /\ c' = StopInLoop(c)
            \/ f = "resetChannel" /\ c' = ResetChannel(c)
         /\ UNCHANGED client
      \/ UNCHANGED <<c, client>>
      \/ f = "forceClose" /\ \E at : Close(i, at)
  <2>1. c' # Asserts(c, FALSE, "freed")
    BY <1>1 DEF Asserts, ConnectorType
  <2> HIDE DEF f, i, d, g
  <2> QED
    BY <2>1 DEF RunFunctor, f, i
<1>6. CASE f = "startInLoop" /\ ~Freed /\ UNCHANGED client
           /\ \E errno \in Errnos(c) : c' = StartInLoop(c, errno)
  <2>1. PICK errno \in {"progress", "refused", "fatal"} : c' = StartInLoop(c, errno)
    BY <1>6 DEF Errnos
  <2>2. Idle(c) /\ client.connection = 0
    <3>1. Queued(startF, running, c.pending)
      BY <1>3, <1>4, <1>6
    <3> QED
      BY <1>0, <1>1, <3>1 DEF Inv, Awaited, OneAttempt, Idle
  <2>3. c'.pending = c.pending /\ c'.channel # "removed"
    BY <2>1, <2>2, StartBegins DEF Begins
  <2>4. Hold(c', running', client', user', cameUp')
    BY <1>1, <1>2, <1>3, <1>6, <2>2, <2>3, HoldKept DEF Freed
  <2> QED
    BY <2>4, HeldPrimed
<1>7. CASE ~Freed /\ UNCHANGED client /\ c' = StopInLoop(c)
  <2>1. CASE c.state = "connecting"
    <3>1. Ends(c, c')
      BY <1>1, <1>7, <2>1, StopStops
    <3>2. client.connection = 0
      BY <1>1, <2>1
    <3>3. c'.pending = Append(c.pending, resetF)
      BY <3>1 DEF Ends
    <3>4. /\ c.pending \in Seq(Functors) /\ running' \in Seq(Functors)
      BY <1>1, <1>2, Ran
    <3>5. Queued(stopF, running', c'.pending) <=> Queued(stopF, running', c.pending)
      BY <3>3, <3>4, Pushed, Distinct
    <3>6. Hold(c', running', client', user', cameUp')
      BY <1>1, <1>2, <1>3, <1>7, <3>2, <3>5 DEF Hold, Freed
    <3> QED
      BY <3>6, HeldPrimed
  <2>2. CASE c.state # "connecting"
    <3>1. c'.channel = c.channel /\ c'.pending = c.pending
      BY <1>1, <1>7, <2>2, StopStops
    <3>2. Hold(c', running', client', user', cameUp')
      BY <1>1, <1>2, <1>3, <1>7, <3>1 DEF Hold, Freed
    <3> QED
      BY <3>2, HeldPrimed
  <2> QED
    BY <2>1, <2>2
<1>8. CASE ~Freed /\ UNCHANGED client /\ c' = ResetChannel(c)
  <2>1. c'.channel = "none" /\ c'.pending = c.pending
    BY <1>1, <1>8 DEF ResetChannel, ConnectorType
  <2>2. Hold(c', running', client', user', cameUp')
    BY <1>1, <1>2, <1>3, <1>8, <2>1 DEF Hold, Freed
  <2> QED
    BY <2>2, HeldPrimed
<1>9. CASE UNCHANGED <<c, client>>
  <2>1. Hold(c', running', client', user', cameUp')
    BY <1>1, <1>2, <1>3, <1>9 DEF Hold
  <2> QED
    BY <2>1, HeldPrimed
<1>10. CASE f = "forceClose" /\ \E at : Close(i, at)
  <2>1. i \in Nat
    BY <1>3, <1>10 DEF Functors, startF, stopF, resetF
  <2>2. g \in Functors /\ g # startF /\ g # stopF
    BY <2>1, Distinct
  <2>3. \/ c' = d /\ client' = client
        \/ /\ client' = [client EXCEPT !.connection = 0]
           /\ \E b : c' = Asserts(d, b, "removeConnection")
    BY <1>10 DEF Close, RemoveConnection
  <2>4. Same(c, d) /\ d.pending = Append(c.pending, g)
    BY <1>1, <2>2, QueueFields
  <2> HIDE DEF d, g, f, i
  <2>5. /\ c'.channel = c.channel /\ c'.timers = c.timers
        /\ c'.pending = Append(c.pending, g)
    BY <2>3, <2>4 DEF Same, Asserts, ConnectorType
  <2>6. client'.connection \in {client.connection, 0} /\ client'.life = client.life
    BY <1>1, <2>3 DEF ClientType
  <2>7. \A h \in {startF, stopF} :
           Queued(h, running', c'.pending) => Queued(h, running, c.pending)
    <3>1. c.pending \in Seq(Functors) /\ running' \in Seq(Functors)
      BY <1>1, <1>2, Ran
    <3>2. \A h : Queued(h, running', c'.pending) <=> Queued(h, running', c.pending) \/ h = g
      BY <2>2, <2>5, <3>1, Pushed
    <3> QED
      BY <1>3, <2>2, <3>2
  <2>8. Hold(c', running', client', user', cameUp')
    BY <1>1, <1>2, <2>5, <2>6, <2>7, HoldKept
  <2> QED
    BY <2>8, HeldPrimed
<1> QED
  BY <1>5, <1>6, <1>7, <1>8, <1>9, <1>10

\* The destructor of the client, and of the connector that a timer kept
LEMMA HeldLeaves ==
    ASSUME IInv, Held, Destruct \/ RemoveConnector, c'.fault = "none" PROVE Held'
<1>0. Inv(c, running, client, conns, closeCb, active, loopAt, user, overlap)
  BY DEF IInv
<1>1. /\ c \in ConnectorType /\ c.fault = "none" /\ client \in ClientType
      /\ running \in Seq(Functors) /\ c.pending \in Seq(Functors)
      /\ Hold(c, running, client, user, cameUp)
  BY <1>0 DEF Inv, Typed, ConnectorType, Held
<1>2. UNCHANGED <<running, user, cameUp>>
  BY DEF Destruct, RemoveConnector
<1>3. \A k \in ConnectorType : DestructConnector(k).fault = "none" =>
         k.channel = "none" /\ DestructConnector(k) = k
  BY DEF DestructConnector, Asserts, ConnectorType
<1>4. CASE Destruct /\ client.connection # 0
  <2> DEFINE i == client.connection
             g == <<"forceClose", i>>
  <2>1. /\ i \in Nat /\ c.timers = {} /\ client.life = "alive"
        /\ ~Queued(startF, running, c.pending)
    <3>1. DOMAIN conns = 1..Len(conns) /\ Len(conns) \in Nat
      BY <1>0, LenProperties DEF Inv, Typed
    <3>2. i \in DOMAIN conns /\ c.state = "connected"
      BY <1>0, <1>4 DEF Inv, OneConnection
    <3> QED
      BY <1>0, <1>4, <3>1, <3>2 DEF Destruct, Inv, OneAttempt, Awaited
  <2>2. g \in Functors /\ g # startF /\ g # stopF
    BY <2>1, Distinct
  <2>3. \A k \in {QueueInLoop(c, g), c} :
           /\ k \in ConnectorType /\ k.channel = c.channel /\ k.timers = {}
           /\ \A h \in {startF, stopF} :
                 Queued(h, running, k.pending) => Queued(h, running, c.pending)
    <3> DEFINE d == QueueInLoop(c, g)
    <3>1. Same(c, d) /\ d.pending = Append(c.pending, g)
      BY <1>1, <2>2, QueueFields
    <3> HIDE DEF d, g
    <3>2. \A h : Queued(h, running, d.pending) <=> Queued(h, running, c.pending) \/ h = g
      BY <1>1, <2>2, <3>1, Pushed
    <3>3. d \in ConnectorType /\ d.channel = c.channel /\ d.timers = {}
      BY <2>1, <3>1 DEF Same
    <3> QED
      BY <1>1, <2>1, <2>2, <3>2, <3>3 DEF d
  <2>4. PICK k \in {QueueInLoop(c, g), c} :
           c' = IF k.timers = {} THEN DestructConnector(k) ELSE k
    BY <1>4 DEF Destruct
  <2>5. c' = k /\ k.channel = "none"
    BY <1>3, <2>3, <2>4
  <2>6. client'.connection = client.connection /\ client'.life = "destroyed"
    BY <1>1, <1>4, <2>1 DEF Destruct, ClientType
  <2> HIDE DEF i, g
  <2>7. Hold(c', running', client', user', cameUp')
    BY <1>1, <1>2, <2>1, <2>3, <2>5, <2>6 DEF Hold
  <2> QED
    BY <2>7, HeldPrimed
<1>5. CASE Destruct /\ client.connection = 0
  <2>1. client' = [client EXCEPT !.life = "keepConnector"]
    BY <1>5 DEF Destruct
  <2>2. client'.connection = 0 /\ client'.life = "keepConnector"
    BY <1>1, <1>5, <2>1 DEF ClientType
  <2>3. Hold(c', running', client', user', cameUp')
    BY <2>2 DEF Hold
  <2> QED
    BY <2>3, HeldPrimed
<1>6. CASE RemoveConnector
  <2>1. /\ c' = DestructConnector(c) /\ c.timers = {} /\ c.pending = <<>>
        /\ loopAt = "poll"
    BY <1>6 DEF RemoveConnector
  <2>2. c' = c /\ c.channel = "none"
    BY <1>1, <1>3, <2>1
  <2>3. running = <<>>
    BY <1>0, <2>1 DEF Inv, Phases
  <2>4. \A f : ~Queued(f, running, c.pending)
    BY <2>1, <2>3, Swapped DEF Queued
  <2>5. Hold(c', running', client', user', cameUp')
    BY <1>2, <2>1, <2>2, <2>4 DEF Hold
  <2> QED
    BY <2>5, HeldPrimed
<1> QED
  BY <1>4, <1>5, <1>6

-----------------------------------------------------------------------------
(* The invariant of a client whose connect() starts the connector at most   *)
(* once.                                                                    *)

Sound == (IInv /\ Held) \/ Excused

OneConnect ==
    /\ connects \in Nat /\ (user = "new" <=> connects = 0)
    /\ connects <= 1 => Sound

LEMMA InitSound == TcpClientInit => OneConnect
<1> SUFFICES ASSUME TcpClientInit PROVE OneConnect
  OBVIOUS
<1>1. IInv /\ user = "new" /\ connects = 0
  BY InitIInv DEF TcpClientInit
<1>2. client.life = "alive" /\ client.connection = 0 /\ running = <<>> /\ c.pending = <<>>
  BY DEF TcpClientInit, NewConnector
<1>3. ~Queued(stopF, running, c.pending)
  BY <1>2, Swapped DEF Queued
<1>4. Held
  BY <1>2, <1>3 DEF Held, Hold
<1> QED
  BY <1>1, <1>4 DEF OneConnect, Sound

\* A step of the client whose connect() is the first, if it is that
LEMMA SoundStep ==
    ASSUME IInv, Held, TcpClientNext, UserConnect => user = "new" PROVE Sound'
<1>1. ASSUME IInv' PROVE c'.fault = "none"
  BY <1>1 DEF IInv, Inv
<1>2. CASE (UserConnect /\ user = "new") \/ UserDisconnect \/ UserStop \/ ConnectorStop
  BY <1>2, UserConnectStep, UserLeavesStep, ConnectorStopStep, HeldUser DEF Sound
<1>3. CASE Poll \/ BeginPass \/ RestartConnector
  BY <1>3, PollStep, BeginPassStep, RestartStep, HeldEvents DEF Sound
<1>4. CASE HandleEvent
  <2>1. CASE ChannelWritable \/ ChannelError
    BY <2>1, ChannelStep, HeldEvents DEF Sound
  <2>2. CASE \E t \in 1..c.attempts : TimerFires(t)
    BY <2>2, TimerFiresStep, HeldEvents DEF Sound
  <2>3. CASE \E i \in DOMAIN conns : PeerOrUserCloses(i)
    BY <2>3, CloseStep, HeldClose DEF Sound
  <2> QED
    BY <1>4, <2>1, <2>2, <2>3 DEF HandleEvent
<1>5. CASE RunFunctor
  BY <1>1, <1>5, RunFunctorStep, HeldRuns DEF Sound
<1>6. CASE Destruct
  BY <1>1, <1>6, DestructStep, HeldLeaves DEF Sound
<1>7. CASE RemoveConnector
  BY <1>1, <1>7, RemoveConnectorStep, HeldLeaves DEF Sound
<1> QED
  BY <1>2, <1>3, <1>4, <1>5, <1>6, <1>7 DEF TcpClientNext, LoopSteps

\* The calls are counted, and the first is that of a user thread that is new.
LEMMA Counts ==
    ASSUME connects \in Nat, user = "new" <=> connects = 0, TcpClientNext
    PROVE  /\ connects' \in Nat /\ (user' = "new" <=> connects' = 0)
           /\ connects <= connects'
           /\ UserConnect /\ connects' <= 1 => user = "new"
<1>1. CASE UserConnect
  BY <1>1 DEF UserConnect
<1>2. CASE UserDisconnect \/ UserStop \/ ConnectorStop
  <2>1. connects' = connects /\ user # "new" /\ user' # "new"
    BY <1>2 DEF UserDisconnect, UserStop, ConnectorStop
  <2>2. ~(UserConnect /\ connects' <= 1)
    BY <2>1 DEF UserConnect
  <2> QED
    BY <2>1, <2>2
<1>3. CASE connects' = connects /\ user' = user
  <2>1. ~UserConnect
    BY <1>3 DEF UserConnect
  <2> QED
    BY <1>3, <2>1
<1>4. \/ UserConnect \/ UserDisconnect \/ UserStop \/ ConnectorStop
      \/ connects' = connects /\ user' = user
  BY DEF TcpClientNext, LoopSteps, HandleEvent, Poll, BeginPass, RunFunctor, RestartConnector,
         Destruct, RemoveConnector, ChannelWritable, ChannelError, TimerFires,
         PeerOrUserCloses
<1> QED
  BY <1>1, <1>2, <1>3, <1>4

\* Every step keeps the invariant.
LEMMA StepSound == OneConnect /\ [TcpClientNext]_vars => OneConnect'
<1> SUFFICES ASSUME OneConnect, [TcpClientNext]_vars PROVE OneConnect'
  OBVIOUS
<1>1. CASE UNCHANGED vars
  <2>1. IInv => IInv'
    <3>1. IInv => Inv(c', running', client', conns', closeCb', active', loopAt', user', overlap')
      BY <1>1 DEF IInv, vars
    <3> QED
      BY <3>1, Primed
  <2>2. Held => Held'
    <3>1. Held => Hold(c', running', client', user', cameUp')
      BY <1>1 DEF Held, vars
    <3> QED
      BY <3>1, HeldPrimed
  <2>3. (Excused => Excused') /\ UNCHANGED <<connects, user>>
    BY <1>1 DEF Excused, vars
  <2> QED
    BY <2>1, <2>2, <2>3 DEF OneConnect, Sound
<1>2. CASE TcpClientNext
  <2>1. /\ connects \in Nat /\ (user = "new" <=> connects = 0)
        /\ connects' \in Nat /\ (user' = "new" <=> connects' = 0)
        /\ connects <= connects'
        /\ UserConnect /\ connects' <= 1 => user = "new"
    BY <1>2, Counts DEF OneConnect
  <2>2. ASSUME connects' <= 1 PROVE Sound'
    <3>1. Sound
      BY <2>1, <2>2 DEF OneConnect
    <3>2. ~Excused
      BY <1>2 DEF TcpClientNext, Excused
    <3> QED
      BY <1>2, <2>1, <2>2, <3>1, <3>2, SoundStep DEF Sound
  <2> QED
    BY <2>1, <2>2 DEF OneConnect
<1> QED
  BY <1>1, <1>2

LEMMA ClientInvariant == TcpClientSpec => []OneConnect
  BY InitSound, StepSound, PTL DEF TcpClientSpec

\* A client whose connect() started the connector once fails no assertion of
\* startInLoop(), connecting(), handleWrite() and removeConnection(), whatever
\* the order of its other calls, the timers, the channel, the closes and the
\* destructor, for any number of failed attempts and of connections and with or
\* without enableRetry(); that of ~Connector() fails only in the pass in which
\* the connection came up, and no functor runs on a connector that is gone
\* unless stop() was called.
THEOREM ClientFaultsNeedEarlyCalls ==
    TcpClientSpec => [](connects <= 1 => FaultsNeedEarlyCalls)
<1>1. OneConnect => (connects <= 1 => FaultsNeedEarlyCalls)
  BY DEF OneConnect, Sound, Excused, IInv, Inv, FaultsNeedEarlyCalls
<1> QED
  BY <1>1, ClientInvariant, PTL

\* Once the stopInLoop() of stop() has run there is no attempt, no retry timer
\* and no socket, unless stop() came between the test and the restart() of
\* removeConnection(), or connect() was called again.
THEOREM StopIsTheEnd == TcpClientSpec => [](connects <= 1 => StopIsFinal)
<1>1. OneConnect => (connects <= 1 => StopIsFinal)
  <2> SUFFICES ASSUME Sound, user = "stopped", ~overlap,
                      stopF \notin {running[i] : i \in DOMAIN running},
                      stopF \notin {c.pending[i] : i \in DOMAIN c.pending}
               PROVE  c.state # "connecting" /\ c.timers = {} /\ c.sockets = 0
    BY DEF StopIsFinal, OneConnect, stopF
  <2>1. CASE Excused
    BY <2>1 DEF Excused
  <2>2. CASE IInv
    <3>1. /\ Typed(c, running, client, conns, closeCb, active, loopAt, user, overlap)
          /\ OneAttempt(c) /\ Stopped(c, running, client, loopAt, user, overlap)
      BY <2>2 DEF IInv, Inv
    <3>2. DOMAIN running = 1..Len(running) /\ DOMAIN c.pending = 1..Len(c.pending)
      BY <3>1, LenProperties DEF Typed, ConnectorType
    <3>3. ~Queued(stopF, running, c.pending)
      BY <3>2 DEF Queued, In
    <3> QED
      BY <3>1, <3>3 DEF Stopped, OneAttempt
  <2> QED
    BY <2>1, <2>2 DEF Sound
<1> QED
  BY <1>1, ClientInvariant, PTL

=============================================================================
