------------------------------ MODULE Connector ------------------------------
(***************************************************************************)
(* Connector (pallette/Connector.cpp): the state machine that opens a      *)
(* connection, with its retry timer and its channel, which is taken out of *)
(* the poller at once and destroyed by a queued functor.                   *)
(*                                                                         *)
(* Its functions are operators on a record c of its members: what the      *)
(* function does to the object, its loop's queue, its timers and its       *)
(* socket.  Module TcpClient runs them.                                    *)
(***************************************************************************)
EXTENDS Naturals, Sequences, FiniteSetsExt

kInitRetryDelayMs == 500
kMaxRetryDelayMs == 30000

\* channel is "removed" between removeAndResetChannel() and resetChannel();
\* a timer is named by the attempt whose socket retry() closed; fatal tells of
\* the last attempt; fault is the assertion that failed first.
NewConnector ==
    [connect |-> FALSE, state |-> "disconnected", channel |-> "none",
     retryDelayMs |-> kInitRetryDelayMs, retryConnector |-> FALSE,
     retryConnectorTimerId |-> 0, timers |-> {}, pending |-> <<>>,
     sockets |-> 0, attempts |-> 0, fails |-> 0, fatal |-> FALSE,
     fault |-> "none"]

QueueInLoop(c, f) == [c EXCEPT !.pending = Append(@, f)]

Asserts(c, holds, which) ==
    [c EXCEPT !.fault = IF @ = "none" /\ ~holds THEN which ELSE @]

-----------------------------------------------------------------------------
(* Wrong variants of operators below, one plausible slip each.              *)

\* The channel is taken out of the poller and never destroyed.
RemoveWithoutReset(c) == [c EXCEPT !.channel = "removed"]

\* retry() without its timer
RetryOnce(c) == [c EXCEPT !.sockets = @ - 1, !.state = "disconnected"]

\* stopInLoop() leaves the retry timer running and retry() is what stops it.
CancelNothing(c) == c

-----------------------------------------------------------------------------
\* disableAll(), remove(), and resetChannel() by a functor
RemoveAndResetChannel(c) ==
    QueueInLoop([c EXCEPT !.channel = "removed"], <<"resetChannel", 0>>)

ResetChannel(c) == [c EXCEPT !.channel = "none"]

\* close the socket and, when still wanted, come back after the delay
Retry(c) ==
    LET d == [c EXCEPT !.sockets = @ - 1, !.state = "disconnected"]
    IN  IF ~d.connect THEN d
        ELSE [d EXCEPT !.timers = @ \cup {d.attempts},
                       !.retryConnectorTimerId = d.attempts,
                       !.retryDelayMs = Min({@ * 2, kMaxRetryDelayMs}),
                       !.retryConnector = TRUE]

\* assert(!channel_); a new channel that waits for EPOLLOUT
Connecting(c) ==
    [Asserts(c, c.channel = "none", "connecting") EXCEPT
        !.state = "connecting", !.channel = "watched"]

\* connect(2) by the class of its errno: "progress" covers 0, EINPROGRESS,
\* EINTR and EISCONN, "refused" the five that retry, "fatal" all others.
Connect(c, errno) ==
    LET d == [c EXCEPT !.attempts = @ + 1, !.sockets = @ + 1,
                       !.fatal = (errno = "fatal"),
                       !.fails = IF errno = "progress" THEN @ ELSE @ + 1]
    IN  CASE errno = "progress" -> Connecting(d)
          [] errno = "refused" -> Retry(d)
          [] errno = "fatal" -> [d EXCEPT !.sockets = @ - 1]

\* assert(state_ == kDisconnected)
StartInLoop(c, errno) ==
    LET d == [Asserts(c, c.state = "disconnected", "startInLoop") EXCEPT
                !.retryConnector = FALSE]
    IN  IF d.connect THEN Connect(d, errno) ELSE d

\* loop_->cancel(retryConnectorTimerId_)
CancelRetry(c) ==
    IF c.retryConnector
    THEN [c EXCEPT !.timers = @ \ {c.retryConnectorTimerId}] ELSE c

StopInLoop(c) ==
    LET d == CancelRetry(c)
    IN  IF d.state = "connecting"
        THEN Retry(RemoveAndResetChannel([d EXCEPT !.state = "disconnected"]))
        ELSE d

Start(c) == [QueueInLoop(c, <<"startInLoop", 0>>) EXCEPT !.connect = TRUE]

Restart(c, errno) ==
    StartInLoop([c EXCEPT !.state = "disconnected", !.connect = TRUE,
                          !.retryDelayMs = kInitRetryDelayMs], errno)

\* sockets::close of a connection that came up when no longer wanted
CloseUnwanted(c) == [c EXCEPT !.sockets = @ - 1]

\* The socket became writable: error covers SO_ERROR and a self connection.
\* The caller makes the connection when Establishes(c, error).
Establishes(c, error) == c.state = "connecting" /\ ~error /\ c.connect

HandleWrite(c, error) ==
    LET d == [RemoveAndResetChannel(c) EXCEPT !.fails = IF error THEN @ + 1 ELSE @]
        e == [d EXCEPT !.state = "connected"]
    IN  CASE c.state # "connecting" ->
               Asserts(c, c.state = "disconnected", "handleWrite")
          [] c.state = "connecting" /\ error -> Retry(d)
          [] Establishes(c, error) -> [e EXCEPT !.sockets = @ - 1]
          [] OTHER -> CloseUnwanted(e)

HandleError(c) ==
    IF c.state = "connecting"
    THEN Retry([RemoveAndResetChannel(c) EXCEPT !.fails = @ + 1]) ELSE c

=============================================================================
