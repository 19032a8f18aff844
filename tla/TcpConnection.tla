---------------------------- MODULE TcpConnection ----------------------------
(***************************************************************************)
(* One TcpConnection (pallette/TcpConnection.cpp) from connectEstablished() *)
(* to its destructor, with its Channel's dispatch (Channel.cpp), the loop   *)
(* thread that runs its handlers and functors, other threads that call its  *)
(* public functions, the part of TcpServer that removes it, and the socket  *)
(* with the peer behind it.                                                *)
(*                                                                         *)
(* A round of the loop thread is poll, dispatch of the callbacks that the  *)
(* returned events call for, and a pass over the functors queued so far,   *)
(* as in module EventLoop.  A message is MsgLen units long: the unit is    *)
(* what a short write can split.                                           *)
(***************************************************************************)
EXTENDS Naturals, Sequences

CONSTANTS
    Threads,         \* threads other than the loop thread that use the object
    Messages,        \* messages that may be sent, each of them once
    MsgLen,          \* units in a message
    HighWaterMark,   \* highWaterMark_, in units
    ThreadCalls,     \* the public functions that Threads call
    OwnerCalls,      \* the public functions that callbacks of the loop call
    ServerMayDie,    \* whether the TcpServer may be destroyed
    MaxQueued,       \* bound on the calls waiting in the loop
    NoMessage        \* argument of a call that carries no message

Calls == {"send", "shutdown", "forceClose", "forceCloseWithDelay", "startRead",
          "stopRead"}

ASSUME CallsAssumption ==
    /\ ThreadCalls \subseteq Calls
    /\ OwnerCalls \subseteq Calls
    /\ MsgLen \in Nat \ {0}
    /\ HighWaterMark \in Nat
    /\ MaxQueued \in Nat
    /\ ServerMayDie \in BOOLEAN
    /\ NoMessage \notin Messages

VARIABLES
    state,      \* state_
    reading,    \* reading_
    events,     \* events_ of the channel: what it listens to
    index,      \* index_ of the channel: kNew, kAdded (in epoll), kDeleted
    output,     \* outputBuffer_
    pc,         \* the loop thread: poll, dispatch or functors
    todo,       \* callbacks handleEventWithGuard() has still to make
    batch,      \* functors of the present pass that have not run
    pending,    \* pendingFunctors_: <<function, message>>
    cb,         \* user callback that the loop thread is in
    tpc,        \* tpc[t]: <<call, stage, message>> that thread t is in
    delayed,    \* a timer of forceCloseWithDelay() is running
    removing,   \* calls of closeCallback_ that TcpServer has not served yet
    alive,      \* the object exists
    inServer,   \* connections_ of TcpServer holds it
    failed,     \* an assert() failed: the process has aborted, nothing runs
    peer,       \* the other end: open, fin (closed its side) or rst
    inData,     \* received data that was not read
    sockErr,    \* SO_ERROR is set
    finSent,    \* shutdownWrite() was called
    written,    \* history: units the socket took
    accepted,   \* history: units sendInLoop() wrote or buffered
    lost,       \* history: messages sendInLoop() gave up
    ups, downs  \* history: connection callbacks that said up and down

channelVars == <<reading, events, index>>
loopVars    == <<pc, todo, batch, cb>>
sockVars    == <<peer, inData, sockErr, finSent>>
dataVars    == <<output, written, accepted, lost>>
lifeVars    == <<delayed, removing, alive, inServer, ups, downs>>
vars == <<state, channelVars, loopVars, pending, tpc, failed, sockVars,
          dataVars, lifeVars>>

Out == <<"none", "out", NoMessage>>

\* Bound: threads begin no call once so many down callbacks were made.  The
\* race on state_ (see ThreadStores) repeats them without end.
MaxDowns == 2

Init ==
    /\ state = "kConnecting"
    /\ reading = TRUE
    /\ events = {}
    /\ index = "kNew"
    /\ output = <<>>
    /\ pc = "poll"
    /\ todo = <<>>
    /\ batch = <<>>
    /\ pending = <<<<"connectEstablished", NoMessage>>>>
    /\ cb = "none"
    /\ tpc = [t \in Threads |-> Out]
    /\ delayed = FALSE
    /\ removing = 0
    /\ alive = TRUE
    /\ inServer = TRUE
    /\ failed = FALSE
    /\ peer = "open"
    /\ inData = FALSE
    /\ sockErr = FALSE
    /\ finSent = FALSE
    /\ written = <<>>
    /\ accepted = <<>>
    /\ lost = {}
    /\ ups = 0
    /\ downs = 0

Units(m) == [i \in 1..MsgLen |-> <<m, i>>]
IsWriting == "write" \in events
IsReading == "read" \in events

-----------------------------------------------------------------------------
(* Wrong variants of definitions below, one plausible slip each.            *)

\* sendInLoop() overtakes the data that waits in the output buffer.
PutFirst(m) == Units(m) \o output
\* handleWrite() keeps EPOLLOUT after the last unit.
KeepsWriting(rest) == events
\* handleWrite() forgets the shutdown that waits for the buffer to drain.
ForgetsShutdown(rest) == FALSE
\* forceCloseInLoop() does not look at state_ again.
ClosesAnyway == TRUE
\* EPOLLHUP makes the close callback also when there is something to read.
ClosesBeforeRead(rev) ==
    (IF "hup" \in rev THEN <<"close">> ELSE <<>>)
    \o (IF "err" \in rev THEN <<"error">> ELSE <<>>)
    \o (IF {"in", "hup"} \cap rev # {} THEN <<"read">> ELSE <<>>)
    \o (IF "out" \in rev THEN <<"write">> ELSE <<>>)
\* shutdownInLoop() does not wait for the output buffer.
ShutsAtOnce == TRUE
\* handleClose() and forceCloseInLoop() accept a connection that is down.
OpenOnceConnected == state # "kConnecting"

-----------------------------------------------------------------------------
(* The channel: Channel::update() and EpollPoller::updateChannel().         *)

\* What is left of a buffer after retrieve(n).
From(s, n) == SubSeq(s, n + 1, Len(s))

Update(ev) ==
    /\ events' = ev
    /\ index' = IF index = "kAdded" /\ ev = {} THEN "kDeleted" ELSE "kAdded"

\* queueInLoop(), from the loop thread
Queue(f) == pending' = Append(pending, <<f, NoMessage>>)

-----------------------------------------------------------------------------
(* sendInLoop()                                                             *)

\* write() fails with EPIPE or ECONNRESET.
BrokenPipe == finSent \/ peer = "rst"

\* The message may go to the socket directly.
WritesDirectly == ~IsWriting /\ output = <<>>

\* Where a message that has to wait is put.
Buffered(m) == output \o Units(m)

\* The functors queued by a send that leaves old and then new units buffered.
HighWaterFunctors(old, new) ==
    IF new >= HighWaterMark /\ old < HighWaterMark
    THEN <<<<"highWaterMark", NoMessage>>>> ELSE <<>>

GiveUp(m) ==
    /\ lost' = lost \cup {m}
    /\ UNCHANGED <<output, written, accepted, events, index, pending>>

\* write() takes n units, 0 standing for EWOULDBLOCK; the rest is buffered.
WriteDirectly(m) ==
    \E n \in 0..MsgLen :
        /\ written' = written \o SubSeq(Units(m), 1, n)
        /\ accepted' = accepted \o Units(m)
        /\ output' = From(Units(m), n)
        /\ IF n = MsgLen
           THEN /\ Queue("writeComplete")
                /\ UNCHANGED <<events, index>>
           ELSE /\ Update(events \cup {"write"})
                /\ pending' = pending \o HighWaterFunctors(0, MsgLen - n)
        /\ UNCHANGED lost

BufferMessage(m) ==
    /\ output' = Buffered(m)
    /\ accepted' = accepted \o Units(m)
    /\ pending' = pending \o HighWaterFunctors(Len(output), Len(output) + MsgLen)
    /\ IF IsWriting THEN UNCHANGED <<events, index>>
                    ELSE Update(events \cup {"write"})
    /\ UNCHANGED <<written, lost>>

SendInLoop(m) ==
    \/ state = "kDisconnected" /\ GiveUp(m)
    \/ /\ state # "kDisconnected"
       /\ \/ WritesDirectly /\ BrokenPipe /\ GiveUp(m)
          \/ WritesDirectly /\ ~BrokenPipe /\ WriteDirectly(m)
          \/ ~WritesDirectly /\ BufferMessage(m)

-----------------------------------------------------------------------------
(* The other functions that run in the loop thread.                         *)

\* shutdownInLoop() waits until nothing is left to write.
MayShutdown == ~IsWriting
ShutdownInLoop == finSent' = (finSent \/ MayShutdown)

StateIsOpen == state \in {"kConnected", "kDisconnecting"}

\* events_ that handleClose() leaves behind: disableAll()
EventsAfterClose == {}

\* handleClose() up to the connection callback
HandleClose ==
    \/ /\ ~StateIsOpen
       /\ failed' = TRUE
       /\ UNCHANGED <<state, events, index, cb, downs>>
    \/ /\ StateIsOpen
       /\ state' = "kDisconnected"
       /\ Update(EventsAfterClose)
       /\ cb' = "down"
       /\ downs' = downs + 1
       /\ UNCHANGED failed

\* handleClose() behind the connection callback: closeCallback_, which is
\* TcpServer::removeConnection.
CloseCallback == cb = "down"

-----------------------------------------------------------------------------
(* A round of the loop thread.                                              *)

\* What epoll reports for the socket.
Hup == peer = "rst" \/ (finSent /\ peer = "fin")
Revents(writable) ==
    IF index # "kAdded" THEN {} ELSE
        {e \in {"in"}  : IsReading /\ (inData \/ peer # "open")}
        \cup {e \in {"out"} : IsWriting /\ (writable \/ peer = "rst")}
        \cup {e \in {"hup"} : Hup}
        \cup {e \in {"err"} : sockErr}

\* handleEventWithGuard(): the callbacks for a set of events, in its order.
Callbacks(rev) ==
    (IF "hup" \in rev /\ "in" \notin rev THEN <<"close">> ELSE <<>>)
    \o (IF "err" \in rev THEN <<"error">> ELSE <<>>)
    \o (IF {"in", "hup"} \cap rev # {} THEN <<"read">> ELSE <<>>)
    \o (IF "out" \in rev THEN <<"write">> ELSE <<>>)

Poll(writable) ==
    /\ ~failed
    /\ pc = "poll"
    /\ Revents(writable) # {} \/ pending # <<>>
    /\ todo' = Callbacks(Revents(writable))
    /\ pc' = "dispatch"
    /\ UNCHANGED <<state, channelVars, batch, cb, pending, tpc, failed,
                   sockVars, dataVars, lifeVars>>

\* The next callback of the channel, when the one before has returned.
Dispatching(c) ==
    /\ ~failed
    /\ pc = "dispatch"
    /\ cb = "none"
    /\ todo # <<>>
    /\ Head(todo) = c
    /\ todo' = Tail(todo)

OnClose ==
    /\ Dispatching("close")
    /\ HandleClose
    /\ UNCHANGED <<reading, pc, batch, pending, tpc, sockVars, dataVars,
                   delayed, removing, alive, inServer, ups>>

\* handleError() asks for SO_ERROR, which clears it.
OnError ==
    /\ Dispatching("error")
    /\ sockErr' = FALSE
    /\ UNCHANGED <<state, channelVars, pc, batch, cb, pending, tpc, failed,
                   peer, inData, finSent, dataVars, lifeVars>>

\* handleRead(): an error, data, or the end of the stream
OnRead ==
    /\ Dispatching("read")
    /\ \/ /\ sockErr
          /\ sockErr' = FALSE
          /\ UNCHANGED <<state, events, index, cb, downs, failed, inData>>
       \/ /\ ~sockErr /\ inData
          /\ inData' = FALSE
          /\ cb' = "message"
          /\ UNCHANGED <<state, events, index, downs, failed, sockErr>>
       \/ /\ ~sockErr /\ ~inData /\ peer # "open"
          /\ HandleClose
          /\ UNCHANGED <<inData, sockErr>>
    /\ UNCHANGED <<reading, pc, batch, pending, tpc, peer, finSent, dataVars,
                   delayed, removing, alive, inServer, ups>>

\* handleWrite(): events_ afterwards, and whether it calls shutdownInLoop()
EventsAfterWrite(rest) == IF rest = <<>> THEN events \ {"write"} ELSE events
ShutsDownAfterWrite(rest) == rest = <<>> /\ state = "kDisconnecting"

OnWrite ==
    /\ Dispatching("write")
    /\ \/ /\ ~IsWriting \/ BrokenPipe
          /\ UNCHANGED <<events, index, output, written, pending, finSent>>
       \/ /\ IsWriting /\ ~BrokenPipe
          /\ \E n \in 1..Len(output) :
               LET rest == From(output, n) IN
               /\ written' = written \o SubSeq(output, 1, n)
               /\ output' = rest
               /\ IF EventsAfterWrite(rest) = events
                  THEN UNCHANGED <<events, index>>
                  ELSE Update(EventsAfterWrite(rest))
               /\ IF rest = <<>> THEN Queue("writeComplete")
                                 ELSE UNCHANGED pending
               /\ finSent' = (finSent \/ ShutsDownAfterWrite(rest))
    /\ UNCHANGED <<state, reading, pc, batch, cb, tpc, failed, peer, inData,
                   sockErr, accepted, lost, lifeVars>>

\* All callbacks are made: doPendingFunctors() swaps the queue.
EndDispatch ==
    /\ ~failed
    /\ pc = "dispatch"
    /\ todo = <<>>
    /\ cb = "none"
    /\ batch' = pending
    /\ pending' = <<>>
    /\ pc' = "functors"
    /\ UNCHANGED <<state, channelVars, todo, cb, tpc, failed, sockVars,
                   dataVars, lifeVars>>

EndFunctors ==
    /\ ~failed
    /\ pc = "functors"
    /\ batch = <<>>
    /\ cb = "none"
    /\ pc' = "poll"
    /\ UNCHANGED <<state, channelVars, todo, batch, cb, pending, tpc, failed,
                   sockVars, dataVars, lifeVars>>

\* Channel::remove() and EpollPoller::removeChannel(): assertions and index_
RemoveChannel ==
    LET ok == events = {} /\ index \in {"kAdded", "kDeleted"} IN
    /\ index' = IF ok THEN "kNew" ELSE index
    /\ failed' = ~ok

\* The user callback returns, and handleClose() or connectDestroyed() goes on.
CallbackReturns ==
    /\ ~failed
    /\ cb # "none"
    /\ cb' = "none"
    /\ removing' = IF CloseCallback THEN removing + 1 ELSE removing
    /\ IF cb = "destroyed" THEN RemoveChannel ELSE UNCHANGED <<index, failed>>
    /\ UNCHANGED <<state, reading, events, pc, todo, batch, pending, tpc,
                   sockVars, dataVars, delayed, alive, inServer, ups, downs>>

-----------------------------------------------------------------------------
(* Functors.                                                                *)

Running(f) ==
    /\ ~failed
    /\ pc = "functors"
    /\ cb = "none"
    /\ batch # <<>>
    /\ Head(batch)[1] = f
    /\ batch' = Tail(batch)
    /\ UNCHANGED <<pc, todo, tpc>>

RunConnectEstablished ==
    /\ Running("connectEstablished")
    /\ failed' = (state # "kConnecting")
    /\ state' = "kConnected"
    /\ Update(events \cup {"read"})
    /\ cb' = "up"
    /\ ups' = ups + 1
    /\ UNCHANGED <<reading, pending, sockVars, dataVars, delayed, removing,
                   alive, inServer, downs>>

\* connectDestroyed(): a connection that is still up is taken down first.
ConnectDestroyed ==
    IF state = "kConnected"
    THEN /\ state' = "kDisconnected"
         /\ Update({})
         /\ cb' = "destroyed"
         /\ downs' = downs + 1
         /\ UNCHANGED failed
    ELSE /\ RemoveChannel
         /\ UNCHANGED <<state, events, cb, downs>>

RunConnectDestroyed ==
    /\ Running("connectDestroyed")
    /\ ConnectDestroyed
    /\ UNCHANGED <<reading, pending, sockVars, dataVars, delayed, removing,
                   alive, inServer, ups>>

RunSendInLoop ==
    /\ Running("send")
    /\ SendInLoop(Head(batch)[2])
    /\ UNCHANGED <<state, reading, cb, failed, sockVars, lifeVars>>

RunShutdownInLoop ==
    /\ Running("shutdown")
    /\ ShutdownInLoop
    /\ UNCHANGED <<state, channelVars, cb, pending, failed, peer, inData,
                   sockErr, dataVars, lifeVars>>

\* forceCloseInLoop() looks at state_ again: the connection may have been
\* closed since the call.
MayForceClose == StateIsOpen
RunForceCloseInLoop ==
    /\ Running("forceClose")
    /\ IF MayForceClose THEN HandleClose
       ELSE UNCHANGED <<state, events, index, cb, downs, failed>>
    /\ UNCHANGED <<reading, pending, sockVars, dataVars, delayed, removing,
                   alive, inServer, ups>>

StartReadInLoop ==
    IF ~reading \/ ~IsReading
    THEN Update(events \cup {"read"}) /\ reading' = TRUE
    ELSE UNCHANGED channelVars

StopReadInLoop ==
    IF reading \/ IsReading
    THEN Update(events \ {"read"}) /\ reading' = FALSE
    ELSE UNCHANGED channelVars

RunReadControl ==
    /\ \/ Running("startRead") /\ StartReadInLoop
       \/ Running("stopRead") /\ StopReadInLoop
    /\ UNCHANGED <<state, cb, pending, failed, sockVars, dataVars, lifeVars>>

\* writeCompleteCallback_ and highWaterMarkCallback_ are user code.
RunUserFunctor ==
    /\ \E f \in {"writeComplete", "highWaterMark"} : Running(f) /\ cb' = f
    /\ UNCHANGED <<state, channelVars, pending, failed, sockVars, dataVars,
                   lifeVars>>

-----------------------------------------------------------------------------
(* Public functions called by user code of the loop thread once the         *)
(* connection callback has handed the connection out: in a callback of this *)
(* connection, or in a functor or callback of something else in the loop,   *)
(* which runs before, between or behind those of this connection.           *)

OwnerCode ==
    /\ ~failed /\ alive /\ ups > 0
    /\ Len(pending) < MaxQueued

\* A message not sent before.
Unsent(m) ==
    /\ <<m, 1>> \notin {accepted[i] : i \in DOMAIN accepted}
    /\ m \notin lost
    /\ \A t \in Threads : tpc[t][3] # m
    /\ \A q \in {pending, batch} : \A i \in DOMAIN q : q[i][2] # m

OwnerSend(m) ==
    /\ "send" \in OwnerCalls
    /\ OwnerCode
    /\ Unsent(m)
    /\ state = "kConnected"
    /\ SendInLoop(m)
    /\ UNCHANGED <<state, reading, loopVars, tpc, failed, sockVars, lifeVars>>

OwnerShutdown ==
    /\ "shutdown" \in OwnerCalls
    /\ OwnerCode
    /\ state = "kConnected"
    /\ state' = "kDisconnecting"
    /\ ShutdownInLoop
    /\ UNCHANGED <<channelVars, loopVars, pending, tpc, failed, peer, inData,
                   sockErr, dataVars, lifeVars>>

OwnerForceClose ==
    /\ "forceClose" \in OwnerCalls
    /\ OwnerCode
    /\ StateIsOpen
    /\ state' = "kDisconnecting"
    /\ Queue("forceClose")
    /\ UNCHANGED <<channelVars, loopVars, tpc, failed, sockVars, dataVars,
                   lifeVars>>

OwnerForceCloseWithDelay ==
    /\ "forceCloseWithDelay" \in OwnerCalls
    /\ OwnerCode
    /\ ~delayed
    /\ StateIsOpen
    /\ state' = "kDisconnecting"
    /\ delayed' = TRUE
    /\ UNCHANGED <<channelVars, loopVars, pending, tpc, failed, sockVars,
                   dataVars, removing, alive, inServer, ups, downs>>

\* The timer of forceCloseWithDelay(): a weak callback to forceClose().
DelayExpires ==
    /\ ~failed
    /\ delayed
    /\ pc = "poll"
    /\ delayed' = FALSE
    /\ IF alive /\ StateIsOpen
       THEN state' = "kDisconnecting" /\ Queue("forceClose")
       ELSE UNCHANGED <<state, pending>>
    /\ UNCHANGED <<channelVars, loopVars, tpc, failed, sockVars, dataVars,
                   removing, alive, inServer, ups, downs>>

OwnerReadControl ==
    /\ OwnerCode
    /\ \/ "startRead" \in OwnerCalls /\ StartReadInLoop
       \/ "stopRead" \in OwnerCalls /\ StopReadInLoop
    /\ UNCHANGED <<state, loopVars, pending, tpc, failed, sockVars, dataVars,
                   lifeVars>>

-----------------------------------------------------------------------------
(* Public functions called by another thread: a test of state_, for some a  *)
(* store to it, and queueInLoop().  The steps are not atomic together.      *)

\* The states in which a call goes on.
CallPasses(c) ==
    CASE c \in {"send", "shutdown"} -> state = "kConnected"
      [] c \in {"forceClose", "forceCloseWithDelay"} -> StateIsOpen
      [] OTHER -> TRUE

ThreadTests(t) ==
    /\ ~failed /\ alive /\ ups > 0
    /\ downs < MaxDowns
    /\ tpc[t] = Out
    /\ \E c \in ThreadCalls :
          /\ CallPasses(c)
          /\ \E m \in IF c = "send" THEN {x \in Messages : Unsent(x)}
                                    ELSE {NoMessage} :
               tpc' = [tpc EXCEPT ![t] =
                         <<c, IF c \in {"send", "startRead", "stopRead"}
                              THEN "push" ELSE "store", m>>]
    /\ UNCHANGED <<state, channelVars, loopVars, pending, failed, sockVars,
                   dataVars, lifeVars>>

\* setState(kDisconnecting)
ThreadStores(t) ==
    /\ ~failed
    /\ tpc[t][2] = "store"
    /\ state' = "kDisconnecting"
    /\ tpc' = [tpc EXCEPT ![t][2] = "push"]
    /\ UNCHANGED <<channelVars, loopVars, pending, failed, sockVars, dataVars,
                   lifeVars>>

\* queueInLoop() of the function that runs in the loop, or the new timer
ThreadPushes(t) ==
    /\ ~failed
    /\ tpc[t][2] = "push"
    /\ Len(pending) < MaxQueued
    /\ IF tpc[t][1] = "forceCloseWithDelay"
       THEN delayed' = TRUE /\ UNCHANGED pending
       ELSE /\ pending' = Append(pending, <<tpc[t][1], tpc[t][3]>>)
            /\ UNCHANGED delayed
    /\ tpc' = [tpc EXCEPT ![t] = Out]
    /\ UNCHANGED <<state, channelVars, loopVars, failed, sockVars, dataVars,
                   removing, alive, inServer, ups, downs>>

-----------------------------------------------------------------------------
(* TcpServer, the end of the object, and the peer.                          *)

\* removeConnectionInLoop(): assert(n == 1), and connectDestroyed() is queued.
ServerRemoves ==
    /\ ~failed
    /\ removing > 0
    /\ removing' = removing - 1
    /\ inServer' = FALSE
    /\ failed' = ~inServer
    /\ Queue("connectDestroyed")
    /\ UNCHANGED <<state, channelVars, loopVars, tpc, sockVars, dataVars,
                   delayed, alive, ups, downs>>

\* ~TcpServer() of a server without I/O threads, run by another callback of
\* the loop: connectDestroyed() is called in place.
ServerDestructs ==
    /\ ~failed
    /\ ServerMayDie
    /\ inServer /\ removing = 0
    /\ pc = "poll"
    /\ cb = "none"
    /\ state # "kConnecting"
    /\ inServer' = FALSE
    /\ ConnectDestroyed
    /\ UNCHANGED <<reading, pc, todo, batch, pending, tpc, sockVars, dataVars,
                   delayed, removing, alive, ups>>

\* The last reference goes: ~TcpConnection() asserts kDisconnected, ~Channel()
\* that the channel was not added again.
Destroy ==
    /\ ~failed
    /\ alive
    /\ ~inServer /\ removing = 0
    /\ cb = "none" /\ batch = <<>> /\ pending = <<>>
    /\ \A t \in Threads : tpc[t] = Out
    /\ alive' = FALSE
    /\ failed' = (state # "kDisconnected" \/ index # "kNew")
    /\ UNCHANGED <<state, channelVars, loopVars, pending, tpc, sockVars,
                   dataVars, delayed, removing, inServer, ups, downs>>

\* Data, a FIN or a reset arrives.
PeerSends ==
    /\ alive /\ peer = "open" /\ ~inData
    /\ inData' = TRUE
    /\ UNCHANGED <<state, channelVars, loopVars, pending, tpc, failed, peer,
                   sockErr, finSent, dataVars, lifeVars>>

PeerCloses ==
    /\ alive /\ peer = "open"
    /\ peer' = "fin"
    /\ UNCHANGED <<state, channelVars, loopVars, pending, tpc, failed, inData,
                   sockErr, finSent, dataVars, lifeVars>>

PeerResets ==
    /\ alive /\ peer # "rst"
    /\ peer' = "rst"
    /\ sockErr' = TRUE
    /\ UNCHANGED <<state, channelVars, loopVars, pending, tpc, failed, inData,
                   finSent, dataVars, lifeVars>>

-----------------------------------------------------------------------------
Handler == OnClose \/ OnError \/ OnRead \/ OnWrite

Functor ==
    \/ RunConnectEstablished \/ RunConnectDestroyed \/ RunSendInLoop
    \/ RunShutdownInLoop \/ RunForceCloseInLoop \/ RunReadControl
    \/ RunUserFunctor

OwnerCall ==
    \/ OwnerShutdown \/ OwnerForceClose \/ OwnerForceCloseWithDelay
    \/ OwnerReadControl \/ \E m \in Messages : OwnerSend(m)

LoopStep ==
    \/ Handler \/ Functor \/ EndDispatch \/ EndFunctors \/ CallbackReturns

Next ==
    \/ LoopStep \/ OwnerCall \/ DelayExpires
    \/ \E w \in BOOLEAN : Poll(w)
    \/ \E t \in Threads : ThreadTests(t) \/ ThreadStores(t) \/ ThreadPushes(t)
    \/ ServerRemoves \/ ServerDestructs \/ Destroy
    \/ PeerSends \/ PeerCloses \/ PeerResets

\* The loop thread, the server's loop, the threads inside a call and the
\* timer are scheduled, callbacks return, and the peer goes on reading, so
\* that a socket one waits to write to becomes writable and stays so.  The
\* two strong fairness conditions are on what the next poll returns when it
\* is ready: a writable socket, an expired timer.
Fairness ==
    /\ WF_vars(LoopStep)
    /\ SF_vars(Poll(TRUE))
    /\ WF_vars(ServerRemoves)
    /\ SF_vars(DelayExpires)
    /\ WF_vars(Destroy)
    /\ \A t \in Threads :
         WF_vars((ThreadStores(t) \/ ThreadPushes(t)))

Spec == Init /\ [][Next]_vars /\ Fairness

-----------------------------------------------------------------------------

\* The bytes of the messages reach the socket in the order in which
\* sendInLoop() took them, with none missing, doubled or swapped, however
\* writes are split between sendInLoop() and handleWrite().
StreamIntact == written \o output = accepted

\* While the connection is open, the channel listens for EPOLLOUT exactly when
\* data is buffered: buffered data is never forgotten and an idle connection
\* does not spin.
WritingIffBuffered == StateIsOpen => (IsWriting <=> output # <<>>)

\* No assert() of the connection, its channel or the server's map fails.
NoAssertionFails == ~failed

\* The user hears of the connection at most once that it is up, and then at
\* most once that it is down, whichever of handleRead(), EPOLLHUP, forceClose()
\* and connectDestroyed() comes first.
UpThenDownOnce == downs <= ups /\ ups <= 1

\* While the connection has not gone down, the FIN goes out behind every byte
\* that sendInLoop() took in: shutdown() cuts off nothing that was accepted,
\* also when it is called by another thread, whose store to state_ is seen by
\* handleWrite() before the functor runs, and while reading is switched.
FinBehindData == finSent /\ downs = 0 => written = accepted

\* No message callback follows the callback that said the connection is down.
DownIsLast == [][cb' = "message" /\ cb # "message" => downs = 0]_vars

\* When the user has called shutdown() or forceClose(), the sending side is
\* shut down or the connection goes down: pending output delays it only.
ShutdownCompletes ==
    state = "kDisconnecting" ~> (finSent \/ state = "kDisconnected")

\* What TcpConnection.h says of shutdown(), "to avoid losing data": while the
\* peer has closed nothing, no message that send() took is given up.
ShutdownLosesNothing == peer = "open" => lost = {}

=============================================================================
