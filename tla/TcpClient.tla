------------------------------ MODULE TcpClient ------------------------------
(***************************************************************************)
(* TcpClient (pallette/TcpClient.cpp) over its Connector: a user thread    *)
(* calls connect(), disconnect() and stop(), the loop runs the connector's *)
(* functors, timer and channel and the connection's close, and user code   *)
(* of the loop destroys the client.  The loop handles events, then the     *)
(* functors it swapped out; functors queued meanwhile wait for the next    *)
(* pass (EventLoop.cpp).  A TcpConnection is abstracted to up, down (closed *)
(* and reported) and gone (connectDestroyed() ran).                        *)
(***************************************************************************)
EXTENDS Connector

CONSTANTS
    EnableRetry,     \* the user called enableRetry()
    MaxFails,        \* bound: attempts that fail
    MaxConnections,  \* bound: connections established
    MaxConnects      \* bound: calls of connect() that start the connector

VARIABLES
    c,           \* the Connector
    running,     \* functors of the present pass that have not run yet
    client,      \* the client's connect_, connection_ (0 is none) and life
    conns,       \* the state of every connection made
    closeCb,     \* closeCallback_ of every connection: "client" or "destruct"
    active,      \* activeChannels_ and expired timers not handled yet
    loopAt,      \* the phase of the loop; "restart" is between the test and the
                 \* restart() of removeConnection()
    user,        \* where the user thread is in its calls
    overlap,     \* history: stop() began between that test and that restart()
    connects,    \* history: the calls of connect() that started the connector
    cameUp       \* history: a connection came up in the present pass

vars == <<c, running, client, conns, closeCb, active, loopAt, user, overlap,
          connects, cameUp>>

TcpClientInit ==
    /\ c = NewConnector
    /\ running = <<>>
    /\ client = [connect |-> FALSE, connection |-> 0, life |-> "alive"]
    /\ conns = <<>>
    /\ closeCb = <<>>
    /\ active = {}
    /\ loopAt = "poll"
    /\ user = "new"
    /\ overlap = FALSE
    /\ connects = 0
    /\ cameUp = FALSE

-----------------------------------------------------------------------------
(* The user thread.                                                         *)

\* connect() while connect_ is false: at first, and behind disconnect() or
\* stop(), whatever the connector does meanwhile
UserConnect ==
    /\ user \notin {"stopping", "queueing"}
    /\ ~client.connect
    /\ client.life = "alive"
    /\ connects < MaxConnects
    /\ connects' = connects + 1
    /\ user' = "connected"
    /\ client' = [client EXCEPT !.connect = TRUE]
    /\ c' = Start(c)
    /\ UNCHANGED <<running, conns, closeCb, active, loopAt, overlap, cameUp>>

\* disconnect(): the shutdown() of the connection is PeerOrUserCloses.
UserDisconnect ==
    /\ user = "connected"
    /\ client.life = "alive"
    /\ user' = "disconnected"
    /\ client' = [client EXCEPT !.connect = FALSE]
    /\ UNCHANGED <<c, running, conns, closeCb, active, loopAt, overlap, connects, cameUp>>

\* stop(): the client's connect_, then the connector's, then the functor
UserStop ==
    /\ user \in {"connected", "disconnected"}
    /\ client.life = "alive"
    /\ user' = "stopping"
    /\ client' = [client EXCEPT !.connect = FALSE]
    /\ overlap' = (loopAt = "restart")
    /\ UNCHANGED <<c, running, conns, closeCb, active, loopAt, connects, cameUp>>

ConnectorStop ==
    /\ \/ user = "stopping" /\ user' = "queueing" /\ c' = [c EXCEPT !.connect = FALSE]
       \/ user = "queueing" /\ user' = "stopped" /\ c' = QueueInLoop(c, <<"stopInLoop", 0>>)
    /\ UNCHANGED <<running, client, conns, closeCb, active, loopAt, overlap, connects, cameUp>>

-----------------------------------------------------------------------------
(* The loop thread.                                                         *)

Errnos(k) == IF k.fails < MaxFails THEN {"progress", "refused", "fatal"}
             ELSE {"progress"}

\* epoll_wait: any of the expired retry timer, the connector's channel and
\* the connections, or only the wakeup for queued functors.  A retry delay is
\* at least 500 ms, taken to be longer than the pass that runs the
\* resetChannel() queued before the timer was set.
Sources ==
    {<<"timer", t>> : t \in IF c.channel = "removed" THEN {} ELSE c.timers}
    \cup {<<"channel", 0>> : k \in {c.channel} \cap {"watched"}}
    \cup {<<"conn", i>> : i \in {j \in DOMAIN conns : conns[j] = "up"
           /\ (Len(conns) < MaxConnections \/ ~client.connect)}}

Poll ==
    /\ loopAt = "poll"
    /\ active' \in {S \in SUBSET Sources : S # {} \/ c.pending # <<>>}
    /\ loopAt' = "events"
    /\ cameUp' = FALSE
    /\ UNCHANGED <<c, running, client, conns, closeCb, user, overlap, connects>>

Handles(e) == loopAt = "events" /\ e \in active /\ active' = active \ {e}

\* A timer cancelled since the poll does not run.
TimerFires(t) ==
    /\ Handles(<<"timer", t>>)
    /\ \/ t \notin c.timers /\ UNCHANGED c
       \/ /\ t \in c.timers
          /\ \E errno \in Errnos(c) :
                c' = StartInLoop([c EXCEPT !.timers = @ \ {t}], errno)
    /\ UNCHANGED <<running, client, conns, closeCb, loopAt, user, overlap, connects, cameUp>>

\* newConnection(): a new TcpConnection whose close calls removeConnection()
NewConnection ==
    /\ conns' = Append(conns, "up")
    /\ closeCb' = Append(closeCb, "client")
    /\ client' = [client EXCEPT !.connection = Len(conns) + 1]
    /\ cameUp' = TRUE

ChannelWritable ==
    /\ Handles(<<"channel", 0>>)
    /\ \E error \in IF c.fails < MaxFails THEN BOOLEAN ELSE {FALSE} :
          /\ c' = HandleWrite(c, error)
          /\ IF Establishes(c, error) THEN NewConnection
             ELSE UNCHANGED <<conns, closeCb, client, cameUp>>
    /\ UNCHANGED <<running, loopAt, user, overlap, connects>>

\* EPOLLERR with EPOLLOUT: handleError() and then handleWrite()
ChannelError ==
    /\ Handles(<<"channel", 0>>)
    /\ c.fails < MaxFails
    /\ c' = HandleWrite(HandleError(c), TRUE)
    /\ UNCHANGED <<running, client, conns, closeCb, loopAt, user, overlap, connects, cameUp>>

\* retry_ && connect_
Reconnects == EnableRetry /\ client.connect

\* removeConnection() up to its test
RemoveConnection(i, at) ==
    /\ client' = [client EXCEPT !.connection = 0]
    /\ c' = Asserts(QueueInLoop(c, <<"connectDestroyed", i>>),
                   client.connection = i /\ client.life = "alive", "removeConnection")
    /\ loopAt' = IF Reconnects THEN "restart" ELSE at

\* handleClose() of connection i and its close callback; the loop goes on at
Close(i, at) ==
    /\ conns' = [conns EXCEPT ![i] = "down"]
    /\ \/ closeCb[i] = "client" /\ RemoveConnection(i, at)
       \/ /\ closeCb[i] = "destruct"
          /\ c' = QueueInLoop(c, <<"connectDestroyed", i>>)
          /\ loopAt' = at
          /\ UNCHANGED client

\* The peer closes, or answers the shutdown() of the user.
PeerOrUserCloses(i) ==
    /\ Handles(<<"conn", i>>)
    /\ Close(i, "events")
    /\ UNCHANGED <<running, closeCb, user, overlap, connects, cameUp>>

\* connector_->restart()
RestartConnector ==
    /\ loopAt = "restart"
    /\ loopAt' = "events"
    /\ \E errno \in Errnos(c) : c' = Restart(c, errno)
    /\ UNCHANGED <<running, client, conns, closeCb, active, user, overlap, connects, cameUp>>

\* functors.swap(pendingFunctors_)
BeginPass ==
    /\ loopAt = "events"
    /\ active = {}
    /\ running' = c.pending
    /\ c' = [c EXCEPT !.pending = <<>>]
    /\ loopAt' = IF c.pending = <<>> THEN "poll" ELSE "functors"
    /\ UNCHANGED <<client, conns, closeCb, active, user, overlap, connects, cameUp>>

\* The functors of the Connector hold no reference to it.
Freed == client.life = "destroyed"

RunFunctor ==
    /\ loopAt = "functors"
    /\ running' = Tail(running)
    /\ LET f == Head(running)[1]
           i == Head(running)[2]
           at == IF Len(running) = 1 THEN "poll" ELSE "functors"
       IN  \/ /\ f \in {"startInLoop", "stopInLoop", "resetChannel"}
              /\ \/ /\ Freed
                    /\ c' = Asserts(c, FALSE, "freed")
                 \/ /\ ~Freed
                    /\ \/ /\ f = "startInLoop"
                          /\ \E errno \in Errnos(c) : c' = StartInLoop(c, errno)
                       \/ f = "stopInLoop" /\ c' = StopInLoop(c)
                       \/ f = "resetChannel" /\ c' = ResetChannel(c)
              /\ loopAt' = at
              /\ UNCHANGED <<client, conns>>
           \/ /\ f = "connectDestroyed"
              /\ conns' = [conns EXCEPT ![i] = "gone"]
              /\ loopAt' = at
              /\ UNCHANGED <<c, client>>
           \/ f = "forceClose" /\ conns[i] = "up" /\ Close(i, at)
           \/ /\ f = "forceClose" /\ conns[i] # "up"
              /\ loopAt' = at
              /\ UNCHANGED <<c, client, conns>>
    /\ UNCHANGED <<closeCb, active, user, overlap, connects, cameUp>>

\* assert(!channel_) of ~Connector()
DestructConnector(k) == Asserts(k, k.channel = "none", "destructor")

\* ~TcpClient() in user code of the loop, when the user thread makes no call.
\* With a connection the connector goes at once unless a retry timer holds it;
\* without one a timer holds it for a second.  unique is whether the user has
\* no pointer of his own to the connection.
Destruct ==
    /\ loopAt # "restart"
    /\ client.life = "alive"
    /\ user \notin {"stopping", "queueing"}
    /\ LET i == client.connection
       IN  \/ /\ i # 0
              /\ closeCb' = [closeCb EXCEPT ![i] = "destruct"]
              /\ \E unique \in BOOLEAN :
                    LET k == IF unique THEN QueueInLoop(c, <<"forceClose", i>>) ELSE c
                    IN  c' = IF k.timers = {} THEN DestructConnector(k) ELSE k
              /\ client' = [client EXCEPT
                    !.life = IF c.timers = {} THEN "destroyed" ELSE "keepConnector"]
           \/ /\ i = 0
              /\ c' = QueueInLoop([c EXCEPT !.connect = FALSE], <<"stopInLoop", 0>>)
              /\ client' = [client EXCEPT !.life = "keepConnector"]
              /\ UNCHANGED closeCb
    /\ UNCHANGED <<running, conns, active, loopAt, user, overlap, connects, cameUp>>

\* The timers that keep the connector let it go.  One second is taken to be
\* enough for the functors queued before it.
RemoveConnector ==
    /\ loopAt = "poll"
    /\ client.life = "keepConnector"
    /\ c.pending = <<>>
    /\ c.timers = {}
    /\ client' = [client EXCEPT !.life = "destroyed"]
    /\ c' = DestructConnector(c)
    /\ UNCHANGED <<running, conns, closeCb, active, loopAt, user, overlap, connects,
                   cameUp>>

-----------------------------------------------------------------------------
HandleEvent ==
    \/ ChannelWritable \/ ChannelError
    \/ \E t \in 1..c.attempts : TimerFires(t)
    \/ \E i \in DOMAIN conns : PeerOrUserCloses(i)

LoopSteps == HandleEvent \/ BeginPass \/ RunFunctor \/ RestartConnector

TcpClientNext ==
    /\ c.fault = "none"
    /\ \/ UserConnect \/ UserDisconnect \/ UserStop \/ ConnectorStop
       \/ Poll \/ LoopSteps \/ Destruct \/ RemoveConnector

\* The loop goes on; epoll_wait returns for queued functors, for the timer
\* that expired and for the attempt that the kernel ended.  When a peer
\* closes, and what the user calls, is left open.
TcpClientFairness ==
    /\ WF_vars(LoopSteps)
    /\ WF_vars(Poll /\ c.pending # <<>>)
    /\ WF_vars(Poll /\ \E e \in active' : e[1] \in {"timer", "channel"})
    /\ WF_vars(ConnectorStop)

TcpClientSpec == TcpClientInit /\ [][TcpClientNext]_vars /\ TcpClientFairness

-----------------------------------------------------------------------------
\* Which assertions can fail, and after what: those of startInLoop() and
\* connecting() need a second connect(), that of ~Connector() a client that is
\* destroyed in the very pass in which its connection came up, and a functor
\* runs on a connector that is gone only behind a stop() or a second connect()
\* that the destructor overtook.  Everything else, the retries, errors, closes
\* and restarts in any order, starts an attempt only when none is under way and
\* the channel of the last one is gone, and closes the connection that a client
\* still there holds.
FaultsNeedEarlyCalls ==
    /\ c.fault \notin {"handleWrite", "removeConnection"}
    /\ c.fault \in {"startInLoop", "connecting"} => connects > 1
    /\ c.fault = "destructor" => cameUp
    /\ c.fault = "freed" => user = "stopped" \/ connects > 1

\* stop() is final: when its stopInLoop() has run there is no attempt and no
\* socket left, and no retry timer unless connect() was called before, except
\* when stop() overlapped the restart() of a connection just closed, which
\* stores connect_ = true over it.
StopIsFinal ==
    (/\ user = "stopped"
     /\ <<"stopInLoop", 0>> \notin {running[i] : i \in DOMAIN running}
     /\ <<"stopInLoop", 0>> \notin {c.pending[i] : i \in DOMAIN c.pending}
     /\ ~overlap)
        => /\ c.state # "connecting" /\ c.sockets = 0
           /\ c.timers = {} \/ connects > 1

Wants == /\ client.life = "alive" /\ client.connect /\ c.connect
         /\ EnableRetry \/ conns = <<>>

\* A client that wants a connection gets one in the end, and another when it
\* loses one: every failed attempt leads to the next unless the errno says
\* that it is hopeless, or an assertion fails.
ConnectsInTheEnd ==
    (Wants /\ client.connection = 0)
        ~> (client.connection # 0 \/ ~Wants \/ c.fatal \/ c.fault # "none")

=============================================================================
