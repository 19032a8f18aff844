------------------------------ MODULE TcpServer ------------------------------
(***************************************************************************)
(* TcpServer with its Acceptor and its EventLoopThreadPool (pallette/      *)
(* TcpServer.cpp, Acceptor.cpp, EventLoopThreadPool.cpp): connections are  *)
(* accepted in the base loop, live in one of the I/O loops, and are taken  *)
(* down by functors that cross from the I/O loop to the base loop and back.*)
(*                                                                         *)
(* Loop 0 is the base loop, 1..numThreads are the I/O loops.  A connection *)
(* object lives as long as connections_ or a queued functor points to it,  *)
(* and holds a descriptor meanwhile; inside one loop module TcpConnection  *)
(* says what happens to it.  Functors run in the order they were queued;   *)
(* events may come between any two of them, which is more than the loop's  *)
(* passes allow.                                                           *)
(***************************************************************************)
EXTENDS Integers, Sequences, FiniteSets

CONSTANTS
    MaxThreads,       \* bound: numThreads_ is 0..MaxThreads
    MaxConnections,   \* bound: peers that connect
    MaxOpen           \* descriptors left for connections before EMFILE

ASSUME ServerAssumption ==
    MaxThreads \in Nat /\ MaxConnections \in Nat /\ MaxOpen \in Nat

VARIABLES
    numThreads,    \* numThreads_, set before start()
    started,       \* started_ of the server and the pool, listenning_
    next,          \* next_ of the pool
    backlog,       \* connections the kernel holds for accept()
    arrived,       \* history: peers that connected so far
    conns,         \* every TcpConnection made: its loop, state_ and channel, and
                   \* how often its user heard up and down
    connections,   \* connections_: the connections the server points to
    queue,         \* queue[l]: pendingFunctors_ of loop l
    idleFd,        \* the spare descriptor is open
    alive,         \* the server exists
    failed         \* the assertions that have failed; a build with NDEBUG goes on

serverVars == <<numThreads, started, next, backlog, arrived, conns, connections,
                queue, idleFd, alive, failed>>

base == 0

ServerInit ==
    /\ numThreads \in 0..MaxThreads
    /\ started = FALSE
    /\ next = 0
    /\ backlog = 0
    /\ arrived = 0
    /\ conns = <<>>
    /\ connections = {}
    /\ queue = [l \in 0..MaxThreads |-> <<>>]
    /\ idleFd = TRUE
    /\ alive = TRUE
    /\ failed = {}

\* The connections whose object exists; each holds a descriptor.
Existing ==
    connections \cup
        UNION {{queue[l][k][2] : k \in DOMAIN queue[l]} : l \in DOMAIN queue}

-----------------------------------------------------------------------------
(* Wrong variants of operators below, one plausible slip each.              *)

\* next_ is not set back to the first loop in time.
NextWithoutWrap == IF next < numThreads THEN next + 1 ELSE 0

\* EMFILE is only logged.
NoSpareDescriptor == UNCHANGED <<backlog, idleFd>>

\* removeConnectionInLoop() leaves the rest to the shared_ptr, or does not
\* find the connection by its name.
EraseOnly(i) == queue
EraseNothing(i) == UNCHANGED <<connections, failed>>

-----------------------------------------------------------------------------
(* EventLoopThreadPool                                                      *)

GetNextLoop == IF numThreads = 0 THEN base ELSE next + 1

AdvanceNext == IF next + 1 >= numThreads THEN 0 ELSE next + 1

GetLoopForHash(h) == IF numThreads = 0 THEN base ELSE (h % numThreads) + 1

GetAllLoops == IF numThreads = 0 THEN {base} ELSE 1..numThreads

\* start(): the pool starts its threads, then the acceptor listens.
Start ==
    /\ alive /\ ~started
    /\ started' = TRUE
    /\ UNCHANGED <<numThreads, next, backlog, arrived, conns, connections, queue,
                   idleFd, alive, failed>>

\* A peer connects; the kernel completes it without the program.
Arrive ==
    /\ started /\ alive
    /\ arrived < MaxConnections
    /\ arrived' = arrived + 1
    /\ backlog' = backlog + 1
    /\ UNCHANGED <<numThreads, started, next, conns, connections, queue, idleFd,
                   alive, failed>>

-----------------------------------------------------------------------------
(* Acceptor::handleRead()                                                   *)

NewConnection(l) ==
    [loop |-> l, state |-> IF l = base THEN "connected" ELSE "connecting",
     channel |-> IF l = base THEN "watched" ELSE "none",
     ups |-> IF l = base THEN 1 ELSE 0, downs |-> 0]

\* accept() succeeds: newConnection(), with connectEstablished() in place when
\* the loop is the base loop and by a functor otherwise.
Accept ==
    /\ started /\ alive /\ backlog > 0
    /\ Cardinality(Existing) < MaxOpen
    /\ backlog' = backlog - 1
    /\ LET l == GetNextLoop
           i == Len(conns) + 1
       IN  /\ conns' = Append(conns, NewConnection(l))
           /\ connections' = connections \cup {i}
           /\ queue' = IF l = base THEN queue
                       ELSE [queue EXCEPT ![l] = Append(@, <<"connectEstablished", i>>)]
    /\ next' = AdvanceNext
    /\ UNCHANGED <<numThreads, started, arrived, idleFd, alive, failed>>

\* close(idleFd_), accept and close the connection, open idleFd_ again: no
\* other thread is taken to open a descriptor in between.
UseSpareDescriptor ==
    /\ backlog' = backlog - 1
    /\ idleFd' = TRUE

\* accept() fails with EMFILE.
AcceptExhausted ==
    /\ started /\ alive /\ backlog > 0
    /\ Cardinality(Existing) >= MaxOpen
    /\ UseSpareDescriptor
    /\ UNCHANGED <<numThreads, started, next, arrived, conns, connections, queue,
                   alive, failed>>

-----------------------------------------------------------------------------
(* The life of a connection.                                                *)

\* connectEstablished(), handleClose() and connectDestroyed() as functions of
\* the connection; the last takes one that is still kConnected down first, and
\* not one that was shut down.
Established(k) ==
    [k EXCEPT !.state = "connected", !.channel = "watched", !.ups = k.ups + 1]
Closed(k) ==
    [k EXCEPT !.state = "disconnected", !.channel = "disabled", !.downs = k.downs + 1]
Destroyed(k) ==
    [IF k.state = "connected" THEN Closed(k) ELSE k EXCEPT !.channel = "removed"]

\* The assertions of Channel::remove() and EpollPoller::removeChannel() on the
\* way: a channel that is in the poller and listens to nothing.
RemoveAsserts(k) ==
    IF k.state = "connected" \/ k.channel = "disabled" THEN {} ELSE {"isNoneEvent"}

\* ioLoop->queueInLoop(connectDestroyed), which keeps the object alive
QueueDestroyed(i) ==
    [queue EXCEPT ![conns[i].loop] = Append(@, <<"connectDestroyed", i>>)]

\* erase by name, assert(n == 1), and connectDestroyed() in the I/O loop
RemoveConnectionInLoop(i) ==
    /\ connections' = connections \ {i}
    /\ failed' = failed \cup IF i \in connections /\ alive THEN {} ELSE {"n == 1"}

\* shutdown() or forceClose() of the user: the connection stays up until the
\* peer closes its side, or until forceCloseInLoop().  A call that races with
\* the close is the business of module TcpConnection.
Shutdown(i) ==
    /\ conns[i].state = "connected"
    /\ conns' = [conns EXCEPT ![i] = [@ EXCEPT !.state = "disconnecting"]]
    /\ UNCHANGED <<numThreads, started, next, backlog, arrived, connections, queue,
                   idleFd, alive, failed>>

\* handleClose() in loop l, then removeConnection(): in place in the base loop,
\* otherwise a functor of the base loop.
HandleClose(i) ==
    /\ conns[i].state \in {"connected", "disconnecting"}
    /\ conns[i].channel = "watched"
    /\ conns' = [conns EXCEPT ![i] = Closed(@)]
    /\ \/ /\ conns[i].loop = base
          /\ RemoveConnectionInLoop(i)
          /\ queue' = QueueDestroyed(i)
       \/ /\ conns[i].loop # base
          /\ queue' = [queue EXCEPT ![base] = Append(@, <<"removeConnection", i>>)]
          /\ UNCHANGED <<connections, failed>>
    /\ UNCHANGED <<numThreads, started, next, backlog, arrived, idleFd, alive>>

\* The functor at the head of the queue of loop l
Functor(l, name, i) ==
    /\ queue[l] # <<>>
    /\ Head(queue[l]) = <<name, i>>

Popped(q, l) == [q EXCEPT ![l] = Tail(@)]

ConnectEstablished(l, i) ==
    /\ Functor(l, "connectEstablished", i)
    /\ failed' = failed \cup IF conns[i].state = "connecting" THEN {} ELSE {"kConnecting"}
    /\ conns' = [conns EXCEPT ![i] = Established(@)]
    /\ queue' = Popped(queue, l)
    /\ UNCHANGED <<numThreads, started, next, backlog, arrived, connections, idleFd, alive>>

RunRemoveConnection(l, i) ==
    /\ Functor(l, "removeConnection", i)
    /\ RemoveConnectionInLoop(i)
    /\ queue' = Popped(QueueDestroyed(i), l)
    /\ UNCHANGED <<numThreads, started, next, backlog, arrived, conns, idleFd, alive>>

ConnectDestroyed(l, i) ==
    /\ Functor(l, "connectDestroyed", i)
    /\ conns' = [conns EXCEPT ![i] = Destroyed(@)]
    /\ failed' = failed \cup RemoveAsserts(conns[i])
    /\ queue' = Popped(queue, l)
    /\ UNCHANGED <<numThreads, started, next, backlog, arrived, connections, idleFd,
                   alive>>

\* ~TcpServer() in the base loop, when the connections of the I/O loops are
\* gone: their close callbacks hold a raw pointer to the server, and the
\* destruction of the pool ends their loops.  Connections of the base loop are
\* taken down in place.
Destruct ==
    /\ alive
    /\ \A i \in Existing : conns[i].loop = base
    /\ conns' = [i \in DOMAIN conns |->
                   IF i \in connections THEN Destroyed(conns[i]) ELSE conns[i]]
    /\ failed' = failed \cup UNION {RemoveAsserts(conns[i]) : i \in connections}
    /\ connections' = {}
    /\ alive' = FALSE
    /\ UNCHANGED <<numThreads, started, next, backlog, arrived, queue, idleFd>>

-----------------------------------------------------------------------------
LoopStep(l) ==
    \E i \in DOMAIN conns :
        \/ ConnectEstablished(l, i) \/ RunRemoveConnection(l, i)
        \/ ConnectDestroyed(l, i)

ServerNext ==
    \/ Start \/ Arrive \/ Accept \/ AcceptExhausted \/ Destruct
    \/ \E i \in DOMAIN conns : HandleClose(i) \/ Shutdown(i)
    \/ \E l \in DOMAIN queue : LoopStep(l)

\* Every loop runs its functors, and epoll reports the listening socket as
\* long as the backlog is not empty.  Peers connect and close as they like.
ServerFairness ==
    /\ \A l \in 0..MaxThreads : WF_serverVars(LoopStep(l))
    /\ WF_serverVars(Accept \/ AcceptExhausted)

ServerSpec == ServerInit /\ [][ServerNext]_serverVars /\ ServerFairness

-----------------------------------------------------------------------------
Heard(i, ups, downs) == conns[i].ups = ups /\ conns[i].downs = downs

\* What ~TcpServer() leaves of a connection that its user had shut down:
\* connectDestroyed() takes only a kConnected one down, so that the channel is
\* removed while it listens and the user never hears down.
LeftOpen(i) ==
    /\ ~alive /\ conns[i].loop = base
    /\ conns[i].state = "disconnecting" /\ conns[i].channel = "removed" /\ Heard(i, 1, 0)

\* A connection is established once and erased from connections_ once, and the
\* object that is gone has left the poller, is kDisconnected (the assertion of
\* ~TcpConnection), and told its user up once and down once, whichever of
\* handleClose(), the three functors and ~TcpServer() run in which loop and
\* whatever the user shuts down.  The exception is LeftOpen, and no assertion
\* but the one that meets it can fail.
LifeCycleKept ==
    /\ \A i \in DOMAIN conns \ Existing :
          \/ conns[i].state = "disconnected" /\ conns[i].channel = "removed" /\ Heard(i, 1, 1)
          \/ LeftOpen(i)
    /\ failed \subseteq {"isNoneEvent"}
    /\ failed # {} <=> \E i \in DOMAIN conns : LeftOpen(i)

Assigned(l) == Cardinality({i \in DOMAIN conns : conns[i].loop = l})

\* Round robin: the I/O loops got equally many connections, up to one, the
\* base loop none unless it is the only one (EventLoopThreadPoolTest.cpp), and
\* a hash picks one of them too.
LoopsShared ==
    /\ \A k, l \in GetAllLoops : Assigned(k) <= Assigned(l) + 1
    /\ \A i \in DOMAIN conns : conns[i].loop \in GetAllLoops
    /\ \A h \in 0..5 : GetLoopForHash(h) \in GetAllLoops

\* A full descriptor table does not leave connections waiting in the backlog,
\* with the listening socket readable for ever (the spare descriptor).
BacklogDrains == (backlog > 0) ~> (backlog = 0 \/ ~alive)

\* The take-down that crosses two loops ends: every connection that is down
\* gives its descriptor back.
DownIsGone ==
    \A i \in 1..MaxConnections :
        (i \in DOMAIN conns /\ conns[i].channel = "disabled")
            ~> (i \notin Existing)

=============================================================================
