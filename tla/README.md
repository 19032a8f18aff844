# TLA+ models of pallette

pallette is a C++ network library of the reactor kind: one event loop per
thread, non-blocking sockets, and a rule that an object belongs to the loop it
was made in, while some of its functions may be called from any thread. This
directory models it in TLA+, checks the models with TLC on small instances, and
proves the safety of seventeen of them with TLAPS for every instance. Paths below are
relative to `src/pallette/` unless they say otherwise.

## 1. Inventory of the system

| Part | State it keeps | Operations | What is hard |
|---|---|---|---|
| `EventLoop` | `looping_`, `quit_`, `callingPendingFunctors_`, `pendingFunctors_` (mutex), the eventfd, `activeChannels_` | `loop`, `quit`, `runInLoop`, `queueInLoop`, `wakeup`, `doPendingFunctors`, `updateChannel`, `removeChannel`, `runAt/After/Every`, `cancel` | push, eventfd write, drain and swap by different threads; flags read and written without a lock |
| `EventLoopThread`, `Thread`, `CountDownLatch` | `loop_` (mutex, condition), the thread and its latch | `startLoop`, `threadFunc`, destructor | a loop that lives on the stack of another thread; `quit` before `loop` |
| `Channel`, `EpollPoller` | `events_`, `index_`, `addedToLoop_`; `channels_`, the event list; the epoll set of the kernel | `enable*/disable*`, `update`, `remove`, `poll`, `updateChannel`, `removeChannel` | three records of the same fact; callbacks that change the list being worked off; descriptor numbers used again |
| `TimerQueue`, `Timer`, `TimerId` | `timers_`, `waitTimers_`, `activeTimers_`, `cancelingTimers_`, `freeTimers_`, the timerfd | `addTimer`, `cancel`, `handleRead`, `getExpired`, `reset`, `insert` | adding and cancelling from inside the pass; when to arm the timerfd |
| `TcpConnection` | `state_`, `reading_`, the channel, both buffers | `send`, `shutdown`, `forceClose`, `forceCloseWithDelay`, `startRead`, `stopRead`, the handlers, `connectEstablished`, `connectDestroyed` | short writes; five ways to close; `state_` shared without a lock |
| `TcpServer`, `EventLoopThreadPool`, `Acceptor` | `connections_`, the pool of loops and `next_`, the spare descriptor | `start`, `newConnection`, `removeConnection`, destructor; round robin; `accept` with EMFILE | a teardown that crosses loops with raw pointers |
| `Connector`, `TcpClient` | `state_`, `connect_`, `channel_`, the retry delay and timer; `connection_` (mutex) | `start`, `stop`, `restart`, `retry`, handlers; `connect`, `disconnect`, `stop`, destructor | retry timers and queued resets that meet a restart |
| `AsyncLogging`, `LogFile`, `AppendFile` | `currentBuffer_`, `nextBuffer_`, `buffers_` (mutex), two spare buffers of the thread; roll and flush times | `append`, `threadFunc`, `stop`; `rollFile`, `flush` | buffers handed back and forth; the last lines at `stop` |
| `ThreadPool` | a task queue, two conditions, `running_` | `start`, `run`, `take`, `stop` | two conditions with `notify_one` |
| `Buffer`, `http/`, `examples/chat` | two indexes into a vector; parser state; connections | `append`, `retrieve`, `prepend`, `readFd`; `parseRequest`, `onMessage`; framing and broadcast | input cut at any byte |
| `examples/idleconnection`, `CircularBuffer` | a wheel of buckets with shared entries | connection, message, tick | references that die inside a call |
| `ObjectPool`, `SignalSlot` | a pool with a limit; a slot list (copy on write) | allot and return; connect, call, disconnect | growth at the limit; a list changed while it is walked |
| `Date`, `TimeZone`, `Base64`, `ReadSmallFile` | none beyond a call | conversions, reading a file | boundaries; short reads |
| `Socket`, `SocketsOperations`, `InetAddress`, `ProcessInfo`, `Daemon`, `inspect/`, `Logging`, `LogStream`, strings and type utilities | none of their own | system calls, formatting | nothing a state machine would show |

Interactions: handlers and functors of a loop run in its thread, one after the
other; other threads reach it only by `queueInLoop` (and, against the rule, by
flags such as `quit_` and `state_`). `EventLoop` owns an `EpollPoller` and a
`TimerQueue`, both of which it calls and which call back through `Channel`.
`TcpServer` gets descriptors from `Acceptor`, hands connections to the loops of
the pool and removes them by functors that travel from the I/O loop to its own
loop and back. `TcpClient` gets a descriptor from `Connector`, which is a channel
and a timer of the same loop. The protocols are callbacks of a connection that
work on its `Buffer`. What makes each part correct is the list of properties in
section 3; what threatens it is `hazards` in `PROJECT.json`.

## 2. Modules and the code they stand for

`PROJECT.json` (`map`) gives the lines of every definition. In each module,
variables carry the names of the members they model without the underscore,
history variables (used only in properties) are marked, and the section *wrong
variants* holds slips of the code that no behaviour uses: each property of
section 3 fails when the one named in `PROJECT.json` is put in place.

**Fifo** is the abstract specification of a queue between threads: what comes
out is what was put in, in that order, nothing lost in between or doubled; a
consumer may take several items in one step. `EventLoop`, `ThreadPool` and
`AsyncLogging` are shown to implement it, each by mapping its histories of what
went in and what came out.

**EventLoop.** `pc` walks through `loop()`: entered, test of `quit_`, poll,
handle, swap, run. The eventfd is readable or not. A push by another thread
and its eventfd write are two steps, as are the read of `looping_` and the store
to `quit_` in `quit()`, because the code holds no lock across them. User code of
the owner (an I/O callback, a functor, or code before and after `loop()`) calls
`queueInLoop` and `quit` at any point; in the owner `queueInLoop` writes the
eventfd only inside `doPendingFunctors`. The loop can be entered again after it
ended, as the code allows.

**EventLoopThread** extends EventLoop. The creating thread is one of its
`Threads`; it starts, uses and destroys the object. The new thread constructs
the loop, runs the init callback, publishes the address, loops, clears the
address and destroys the loop. The latch of `Thread::start` is folded into the
wait on `loop_`, which is passed later. `UseLoop` begins calls only while the
loop object exists; a call that has begun may outlive it.

**Poller** is `Channel` and `EpollPoller` under the dispatch of
`EventLoop::loop()`. Channels are constructed, changed, removed and destroyed by
callbacks and functors in any order that keeps the preconditions the code asserts
of its callers (disable before remove, remove before destroy, and the rule in
`EventLoop::removeChannel`). A descriptor number may have a second channel when
the first was removed from the loop, as when the `Connector` hands its socket to a
`TcpConnection`; of the two only one is used (`SoleUser`). What it must
guarantee in return (the assertions on the map and the index, and epoll_ctl
calls that abort the process when they fail) is recorded in `failed`.

**TimerQueue** keeps all times relative to the present, in ticks of 100
microseconds, which is the shortest delay `howMuchTimeFromNow` hands out.
Overdue is 0: the code compares expirations only with now and with the
expiration of a new timer. An expiration in the past, which `addTimerInLoop` may
get from another thread, counts as now: the timerfd is due either way. `HandleRead` is the part
of `handleRead()` before the first callback, `RunTimer` one callback, and
`EndHandleRead` the rest with `reset()`. Callbacks in between, and other threads
through a queue of calls, add and cancel timers.

**TcpConnection** is one connection with its channel's callback order
(`handleEventWithGuard`), rounds of its loop (poll, dispatch, a pass over the
functors queued before), the socket and the peer (data, FIN, reset), the timer of
`forceCloseWithDelay`, and the three functions of `TcpServer` that end it. A
message is `MsgLen` units, a write takes any number of them. A call by another
thread is the test of `state_`, then for some the store, then the push, each a
step of its own. An `assert` that fails sets `failed` and stops the process.
The calls that callers make are constants, so that a run can say which
combination it is about. Calls of the owner are those of this connection's
callbacks and of code that runs at the poll; the callback of another channel in
the middle of a batch makes none.

**TcpServer** composes the server, its `Acceptor` and its `EventLoopThreadPool`
over a base loop and I/O loops, each with a queue of functors. A connection is
what the server knows of it: its loop, `state_`, and where its channel is; it
exists as long as `connections_` or a queued functor points to it, and holds a
descriptor meanwhile. `accept` fails when `MaxOpen` descriptors are held, and
the spare one is then given up and taken back. With no I/O loop the functors that
`runInLoop` would queue run at once, as in the code. `Established`, `Closed` and
`Destroyed` are `connectEstablished`, `handleClose` and `connectDestroyed` as
functions of the connection, with the test of `state_` in the last; a user may
shut a connection down before it closes or meets the destructor. Events may come between any
two functors, which is more than the loop's passes allow.

**Connector** has the functions of `Connector.cpp` as operators on a record of
the members, the queue and the timers of the loop; **TcpClient** runs them.
`channel` is "removed" between `removeAndResetChannel` and the functor that
resets it. `connect(2)` has three outcomes, by the class of its errno. The loop
polls, handles what was active, then swaps and runs the functors, as in
`EventLoop::loop`: this order is what keeps `assert(!channel_)` true while one
`connect` is made. `stop()` of the user is the two steps it consists of.
`connect` may come again whenever `connect_` of the client is false, and the
destructor wherever user code of the loop runs. With a connection it frees the
connector at once, unless a retry timer holds a reference to it; without one it
hands a reference to a timer of one second. `fault` is the first assertion that
failed, or "freed" when a functor, which has only the raw `this`, runs on a
connector that is gone; behaviours end there.

**ThreadPool** is a set of waiters per condition variable; `notify_one` takes any
one of them out, and spurious wakeups happen. A step under the mutex is one
action. `Thread::start` waits on its latch for each worker.

**LogFile** has rolling and flushing as operators on a record; **AsyncLogging**
drives them: append under the mutex, and the thread's wait, swap, the writing of
each buffer and the refill as steps. Lines have two lengths, time is in seconds.

**ObjectPool** counts objects, **SignalSlot** keeps every version of the slot
list with who still walks it, so that a write into a version someone walks would
show. `Erase` is the loop of `clean`.

**Buffer** is memory with two indexes and a growth rule; bytes are numbers and
memory not written yet is `Garbage`. **HttpServer** and **Chat** read from such
a stream cut at any byte. A request is its method, version, `Content-Length`,
`Connection` and body, encoded as the lines the parser searches for; other
headers are skipped by the code and left out. The callback may set or clear the
response's flag that closes the connection. The stream below is taken as
reliable: a message that `tcp_connection_loss` shows to be given up at a
`shutdown` would be missing at its end. **IdleEcho** is the wheel of
buckets with the entries they share.

**Date**, **TimeZone** and **Base64** are operators, checked against a calendar
that is counted day by day, against the inverse conversion, and against the
inverse decoding. **ReadSmallFile** is the loop over `read(2)`.

The proof modules (`*_proofs`) extend their modules and hold no model of their
own: one for each part of the network core, `Utilities_proofs` for what the run
`utilities` puts together and `Protocols_proofs` for the buffer and what reads
from it. `MCTimerQueue` only gives an instance for TLC. `MCUtilities` and
`MCProtocols` put parts that share no state into one instance: a variable `part`
says which of them a behaviour is about, and the others keep an initial state.

## 3. Runs

| Run | Instance | Shows |
|---|---|---|
| `event_loop_thread` | 2 threads, 2 functors | the owner never sleeps on a functor nobody will wake it for (`NoLostWakeup`); the functors are a FIFO (`FunctorsAreFifo`); what is queued is run without help of the poll timeout (`QueuedIsRun`); a destructor that meets a running loop returns (`DestructorJoinsRunningLoop`) |
| `poller` | 3 channels, 2 descriptors, event list of 1 | index, map and epoll set agree, nothing dangling is called, no assertion fails |
| `timer_queue` | a repeating timer of 2 ticks and 2 one-shot ones, delays 0 and 2, 2 waiting calls | a timer is in one place, the timerfd covers the earliest one, a cancelled timer does not come back, a waiting one fires |
| `tcp_connection_loop` | 1 sending thread, 2 messages of 2 units, all calls but read control in callbacks | the stream is intact, EPOLLOUT is on exactly when data waits, no assertion fails, up then down once each, no message after down, shutdown completes |
| `tcp_connection_threads` | a thread that sends, shuts down, starts and stops reading; read control in callbacks; the server may be destroyed | until the connection goes down its FIN goes out only behind everything `sendInLoop` took in (`FinBehindData`), also when the store of `shutdown` is seen by `handleWrite` before its functor runs, and when it undoes a close. Behaviours end where an assertion fails |
| `tcp_server` | 0, 1 and 2 I/O loops, 5 peers, descriptors for 3 | every connection is established, erased and destroyed once and in order, across the loops, its user hears up once and down once, and no assertion fails (`LifeCycleKept`), except for one that `~TcpServer` meets behind a `shutdown` (`LeftOpen`); loops are used in turn (`LoopsShared`); EMFILE does not leave the backlog waiting (`BacklogDrains`); what is down gives its descriptor back (`DownIsGone`) |
| `tcp_client` | up to 3 failed attempts, 2 connections and 2 calls of `connect`, the destructor in any pass | which assertions fail, and after what (`FaultsNeedEarlyCalls`): with one `connect` only that of `~Connector`, in the very pass in which the connection came up; a functor meets a freed connector only behind `stop` or a second `connect`; those of `handleWrite` and `removeConnection` never fail. `stop` leaves no attempt and no socket, and no retry timer with one `connect`; a client that wants a connection gets one unless an errno is final or an assertion stopped it |
| `utilities` | see the cfg | tasks and log lines are FIFOs; no wakeup of the pool is lost and `stop` joins; the spare buffers suffice; a line is flushed by the interval; the object pool keeps its limit; a call reaches the slots connected throughout and no other; days 1900 to 2104 agree with the calendar; local times return; Base64 decodes what it encodes; a file is read whole |
| `protocols` | see the cfg; symmetry in the clients of the chat, which nothing tells apart and no liveness is checked of | the buffer keeps its bytes; requests are answered in order with their own headers and body; all clients of the chat see one order; an idle connection is closed at its tick |

Runs that are expected to find a violation, each of something the repository
says of itself:

| Run | What TLC shows |
|---|---|
| `event_loop_thread_quit` | `quit_ = looping_` is lost when it comes between the publication of the loop and the two stores at the head of `loop()`; the destructor of `EventLoopThread` then joins for ever |
| `timer_queue_delete` | a timer cancelled in the pass that runs it is in `cancelingTimers_` and in `freeTimers_` until the next pass; the destructor deletes both lists |
| `tcp_connection_loss` | `send` and then `shutdown` of one thread: `handleWrite` drains older data, sees `kDisconnecting` and shuts the socket down before the queued message is written; it is lost although the peer closed nothing |

### Observations without a run

Made while modelling. Where the models can show one, the constants to use are
named.

- `TcpConnection`: `shutdown` and `forceClose` of another thread test `state_`
  and store `kDisconnecting` in two steps; a close in between is overwritten and
  the assertion in the destructor fails (`NoAssertionFails` with `"shutdown"` in
  `ThreadCalls`). `~TcpServer` on a connection in `kDisconnecting` removes a
  channel that still listens, and the assertion in `Channel::remove` fails
  (`ServerMayDie = TRUE` with `"shutdown"`; `LeftOpen` of TcpServer); with
  assertions compiled out the connection is destroyed and its user never hears
  that it is down. `stopRead` or `startRead` after the
  close enables or re-adds the channel, because `startReadInLoop` and
  `stopReadInLoop` do not look at `state_`; with reading stopped a hang-up runs
  `handleClose` twice in one dispatch (`"stopRead"` in `OwnerCalls`).
- `EpollPoller`: `disableAll` on a channel that is not in epoll adds it there
  with no events, where the comment in `Channel.h` says it stops watching.
- `TimerQueue`: a timer cancelled by an earlier callback of the same pass still
  runs once; `freeTimers_` grows until the queue is destroyed.
- `Connector` and `TcpClient`: a `stop` that falls into `removeConnection`
  between its test of `connect_` and `restart` is lost, because `restart` stores
  `connect_ = true` (the exception `overlap` of `StopIsFinal`). A second `connect`
  fails `assert(state_ == kDisconnected)` of `startInLoop` whenever the first one
  had led to a connection, because `state_` stays `kConnected`, and whenever an
  attempt is under way. Right behind a `stop` it can fail `assert(!channel_)` of
  `connecting`, or leave two retry timers of which `stop` knows the last one only
  (`connects > 1` in `FaultsNeedEarlyCalls` and `StopIsFinal`). A destructor
  between `handleWrite` and the queued `resetChannel` meets `assert(!channel_)` of
  `~Connector`. With a connection the destructor frees the connector while a
  `stopInLoop` or `startInLoop` with its raw pointer may still be queued; without
  one the reference in the one-second timer (`TcpClient.cpp:76`) outlives them.
- `ThreadPool`: `stop` does not notify `notFull_`, so a producer blocked then
  stays blocked; tasks still queued are dropped; tasks that call `run` on a full
  queue can block every worker. Left out are `run` while `start` is under way and
  the call of a task in place when the pool has no threads.
- `AsyncLogging`: lines appended after the last swap are not written when the
  thread sees `running_` false. The notification of `stop` can be missed and is
  made up by the flush interval.
- `ObjectPool`: the deleter changes the pool without the mutex and reads a member
  of a pool that may be destroyed. `SignalSlot`: the tied `connect` does not
  compile when it is instantiated.
- `Buffer`: an append behind a header that was already written in front may fail
  the assertion `kPrePrePend <= readIndex_` in `makeSpace` (the second half of
  `BufferKeepsBytes` says that nothing else can).
- HTTP: one request is answered per `onMessage`, so one that is already in the
  buffer waits for more input; HEAD, PUT and DELETE never reach `GOT_ALL` and
  swallow what follows; a POST without `Content-Length` waits for ever; bytes
  behind a request line refused for its version meet an assertion, and a
  `Content-Length` that is no number throws.
- Idle example: a connection before the first tick calls `back()` on an empty
  buffer (the flag `undefined`).
- `TimeZone`: a file that is missing or cut short still counts as read, and
  leaves no local time type; the correction in `fromLocalTime` knows one hour of
  daylight saving only (`Ordinary` says which zones the property is about; a zone
  file whose first type is local mean time is not among them).
  `Base64`: a text whose length is no multiple of four is read past its end.

### Bounds, and why they are enough

- Two threads and two functors give every overlap of push, write, drain and
  swap with a queue on both sides of the swap, and two overlapping `quit` calls.
  `EventLoop_proofs` removes this bound for the safety properties.
- Three channels on two descriptors make a number be used again while an older
  channel is in the active list; an event list that starts at one fills up.
  `Poller_proofs` removes this bound.
- Two one-shot timers and a repeating one, with delay 0 and one equal to the
  interval, produce ties, overdue timers, restarts that are overdue at once, and
  cancels of waiting, active and retired timers. `MaxPending` bounds the calls of
  other threads in flight. `TimerQueue_proofs` removes both for safety.
- `MsgLen` 2 is the least that a short write can split; two messages make one
  wait behind the other; `HighWaterMark` lies between one and two messages in
  the loop run. `MaxQueued` bounds functors waiting. In `tcp_connection_threads`
  one message is enough: it can be written in part, so that data waits when the
  store of `shutdown` comes. `forceClose` is left to the loop run, since it sends
  no FIN while the connection is up. `TcpConnection_proofs` removes both bounds.
- Five peers over two loops go round more than twice and, with descriptors for
  three, meet EMFILE before and after a descriptor is given back. No I/O loop is
  the case in which everything runs at once.
- Three failed attempts double the retry delay more than once and let a timer be
  replaced; two connections are one reconnect (`MaxFails`, `MaxConnections`). Two calls of
  `connect` (`MaxConnects`) reach every fault; a third adds none.
- Two workers, two producers and a queue of two fill and drain the queue with
  waiters on both conditions (`MaxTasks` 4). `Utilities_proofs` removes the
  bound for the order of tasks.
- Log buffers of four bytes take one to three lines; five lines need every buffer
  there is; `MaxTime` passes two days of two seconds and the flush interval.
- The pool sizes are 1 (no growth), small ones around a doubling, and 250, where
  the first allotment is larger than one. `Utilities_proofs` removes the bound.
- Two callers and two slots: a slot dropped in another call, in its own callback,
  and connected during a call.
- Days from 1900 to 2104 hold 1900, 2000 and 2100, and both sides of 1970.
  Zone files have none, two, three and four transitions and are also cut short
  at every length (`ReadTimeZoneFile`).
- Base64 inputs of 0 to 5 bytes have every length modulo 3 twice; the bytes hit
  the two letters in which the alphabets differ.
- A memory of four bytes behind a header of two, reads that fill it and overflow
  by up to three; two requests, all pairs of methods; three chat messages of
  lengths 0, 1 and one too long; three ticks to be idle.
- A functor is queued once and a message sent once: they are names for the
  occurrences of a call, not for code.

### Fairness

Assumed is what the scheduling of threads gives: a step that the loop thread or
a thread inside a call can take is taken in the end, user callbacks and tasks
return, and time passes. Nothing is assumed of user calls, of the peer's input,
of spurious wakeups or of the poll timeout: `QueuedIsRun` holds by the eventfd
alone. In `timer_queue` and `tcp_client` a timer that is due fires; in
`tcp_client` an attempt under way is answered by the kernel, and the bound on
failures is what makes `ConnectsInTheEnd` more than a hope. In `tcp_server` the
base loop handles a readable listening socket, which epoll reports as long as
the backlog is not empty. TcpConnection has two strong conditions: a poll that
reports a writable socket (the peer keeps reading), and the expiry of the
delayed close. Both are enabled only between rounds of the loop, which is why
weak fairness would not say it. Deadlock is checked in `poller` and
`timer_queue`; everywhere else the objects come to an end or may wait for ever
for input.

## 4. Proofs

All proofs are for arbitrary constants that satisfy the named assumptions
(`NoCallbackAssumption`, `NoChannelAssumption`, `FdsAssumption`,
`EventListAssumption`, `TimersAssumption`, `ProducersAssumption`,
`TasksAssumption`, `MaxSizesAssumption`, `FileAssumption`, `CallsAssumption`,
`ServerAssumption`, `LogAssumption`, `SignalAssumption`, `BufferAssumption`,
`ChatAssumption`, `IdleAssumption`, `Base64Assumption`, `ZoneAssumption`,
`DateAssumption`), none of which says more than that the null value is no object, that threads are
finitely many, that calls are calls of the interface, that times, sizes and
lengths are natural numbers, that a zone file is as long as its counts say, that
the header of a chat message fits in front of the data and its length is a
positive integer there, and that the first day is one of the calendar, from 1900 to 2500. Four
theorems about TcpConnection have a further hypothesis, which their statement
names and the paragraph below explains.

- **EventLoop_proofs.** `NoLostWakeup` looks at the owner in epoll_wait, where it
  is too late to argue. The inductive invariant says the same of every point of
  the loop but the stretch from the poll's return to the swap, where the drain may take the
  wakeup away because the swap is still to come (`WakeupCovers`), and needs to
  know that the flags agree with the place in the loop (`FlagsAgree`: for example
  that `callingPendingFunctors_` is set exactly from swap to the end of the pass,
  which is what `queueInLoop` of the owner relies on). `FunctorsInOrder` is
  inductive with the types, by two lemmas on concatenation, and
  `FunctorsImplementFifo` rests on it: a push is `Put`, the run of a functor is
  `Get`, every other step leaves both histories alone.
- **Poller_proofs.** The invariants are inductive together with: no two
  channels in use share a descriptor, destroyed channels are registered nowhere, only a
  channel that was added has an index, and what waits in the active list has been
  added and cannot be the current one. The last is what makes the rule in
  `EventLoop::removeChannel` sufficient: a channel in the rest of the list cannot
  be removed, and so not destroyed.
- **TimerQueue_proofs.** `Places` joins the three properties on sets with: a
  timer is handed over once, and not cancelled before, and `cancelingTimers_`
  knows every cancelled timer of the pass. `TimerfdCoversEarliest` then follows
  step by step; the cases with content are `insert` (a timer that is not the
  earliest is covered through one that is), `reset`, and the tick.
- **TcpConnection_proofs.** Without any hypothesis, and so for the races of
  `state_` too: `StreamIntact`, which is inductive with the types once it is
  known how the splits of a write act on the stream; `EstablishedOnce`, by the
  invariant that a connection is either `Fresh` (nobody but the queue has it) or
  `Begun` (`connectEstablished` is past, and `kDisconnected` stands only behind a
  down callback); and `FinBehindData`, because a FIN leaves an empty buffer behind
  (`FinWaits`): both places that shut the socket down look at the channel or at
  the buffer just drained, never at `state_` alone, and after the FIN a direct
  write fails instead of leaving data to be buffered.
  `WritingIffBuffered` needs `StoresInLoop`: other threads may send and control
  reading, but the stores of `shutdown` and `forceClose` to `state_` can make a
  connection whose channel listens to nothing look open again. `NoAssertionFails`,
  `UpThenDownOnce` and `DownIsLast` need `OneLoopCloses`: other threads only
  send, no callback stops or starts reading, and the server outlives the
  connection. Each part is needed: a store by another thread undoes
  `kDisconnected`; a connection that does not read gets EPOLLHUP without
  EPOLLIN, so that the close and the read callback can follow one another;
  `startRead` puts a removed channel back; `~TcpServer` removes a channel that
  still listens. The inductive invariant (`Orderly`) says where a connection that
  is down may be (in its callback, at the server, behind `connectDestroyed` in
  the queue, or past it) and that the functors of each place are queued once.
- **TcpServer_proofs.** `LifeCycleKept` speaks of one failed flag and of dead
  objects; the invariant gives every connection one of five places, with the
  functors that are queued about it, in which loop, and no other (`Places`). A
  functor moves it to the next place. The sixth place, `Cut`, is that of a
  connection that `~TcpServer` met behind `shutdown`; it is the only one that
  leaves a failed assertion. `LoopsShared` holds because the loops
  before `next_` have one connection more than those behind (`Turns`).
- **TcpClient_proofs.** Both theorems are about one `connect`
  (`connects <= 1`), which is where the code keeps its assertions; what a second
  one does is in the run. The invariant has nine parts. The ones with content:
  there is one attempt or one retry timer or neither (`OneAttempt`); a channel
  that was taken out waits for exactly one queued `resetChannel` (`Awaited`),
  which is past before the new connection can close, because the loop runs its
  functors before it polls again (`ChannelGone`) - otherwise `restart` would
  meet the old channel; what the poll reported is still true when it is handled
  (`EventsTrue`); a client that is destroyed leaves a connector that cannot start
  (`LetGo`). It holds until a fault, and a fault is one of the two that a client
  destroyed too early leads to (`Excused`), by what the destructor finds
  (`Held`). `StopIsFinal` follows from what `stop` leaves behind, step by step,
  until its functor has run (`Stopped`).
- **Utilities_proofs.** `TasksImplementFifo`: the tasks pushed are those taken
  followed by those in the queue, and the calls of `run` under way leave enough
  of the bound for each of them to push.
  `PoolStaysBounded` for every maximum. What the code
  relies on and does not say is that an empty pool has objects in use: otherwise
  the doubling would add none and `pool_.back()` would be undefined.
  `FileIsReadWhole` for every length, limit and buffer. `LogAsserts`: the refill
  after a write needs as many written buffers as the front end took spares; this
  was settled when `append` ran out of `nextBuffer_`, since it then left a full
  buffer behind (`Spares`). `LogImplementsFifo`: the lines in the files, in the
  buffers being written, in those that wait and in the current one are adjacent
  pieces of what was appended (`InPieces`, with the places of the cuts as a
  function), so that writing one buffer is one `Get`.
  `SlotsAreCalled`: of every call under way the slots it must still reach lie
  ahead of it in its own list, and those it has called lie behind (`CallFits`);
  that stays so because no list is written that a call walks, and `copyOnWrite`
  finds a free one because there is a list more than there are callers. What the
  loop of `clean` leaves is shown by induction over its turns.
  `LocalTimesDoReturn`: transitions are kept only when all types were read, so
  what a file leaves, whole or cut short, is consistent. Each lookup is that of
  the last transition not after the time. In an ordinary zone transitions rise in
  local time as they do in UTC, and the lookups on the way to local time and back
  differ only in the first occurrence of an hour that occurs twice, which is when
  the correction in `fromLocalTime` applies.
  `DatesDoMatch`: years are counted from March, so that the leap day is the last
  of its year and a month begins (153 M + 2) / 5 days into it. Both conversions
  are shown to be that count and its inverse, by centuries, spans of four years
  and months; tomorrow in the calendar is then one day more in the count
  (`DateInv`). The seconds of a day are split off with the signs of C++.
  `DecodingReturns`: four characters give back the bytes they came from, whatever
  is missing at the end; the loops of `decode` and of the erasure of newlines go
  through growing prefixes of the string, and the number of characters among the
  first i of a broken text is i less i / (L + 1).
- **Protocols_proofs.**
  `BytesAreKept` for every vector, header room and byte: each operation is shown
  to change the bytes between the indices (`Stores`) as the operation on
  sequences does, with the move and the growth of `makeSpace` and the two parts
  of a `readFd` that overflows. An integer that was prepended is read back because the
  bytes are the digits of x + Base^n, and the loop that joins them has, after i
  turns, the quotient by Base^(n - i) without its leading part. The proof needs that
  1 is a one-byte integer, and so that a byte has more than two values.
  `ChatKeepsOrder` for any clients, header and lengths: what a connection holds,
  the rest in its buffer followed by the bytes on the way, is the encoding of the
  messages still to be taken (`Sends`, `Receives`, with those messages as a
  witness). A turn of the codec's loop takes the first of them when it is whole
  and else changes nothing; so after i turns it has taken i of them or stands
  still, at a message that is cut or too long, and it stands still after as many
  turns as there are bytes, since a message has a header at least. What a
  broadcast adds is the encoding of the same messages for each client that is
  up, which keeps `Receives` for all of them.
  `IdleAreClosedInTime` for every number of ticks and any number of connections:
  the newest bucket that holds a connection is as many places from the end as it
  has been silent, as long as it is up, so that the bucket which falls out holds
  its last reference exactly when it is idle. The wheel may be filling still;
  then nothing falls out.

Induction over data is used in its first-order form: a set of natural numbers
that holds 0 and with each number the next holds all of them (lemma `Induction`,
from the least element of a set that is not empty). The library's rule with a
predicate as a parameter cannot be used here.

Model-checked only: every liveness property, because fairness and `ENABLED` are
outside of what the proof system handles; `HttpAnswersInOrder`, whose parser is a
recursive operator, which the proof system does not take; the properties of
EventLoopThread, so far.

## 5. Not modelled, and the plan

Left out for good: the wrappers of system calls (their results are inputs of the
models), formatting and logging levels, `/proc` pages and the inspector,
daemonising, type utilities; `RingBuffer`, whose `full()` can only answer true;
`BlockingQueue` and `BoundedBlockingQueue`, which do not compile when they are
instantiated. Left out of modelled parts: byte counters and socket options, the
elapsed-time statistics, descriptions for debugging, allocation failure, tasks
that throw, a `pthread_create` that fails, a full disk.

Outside the contract the code states, and therefore not modelled: `~TcpServer`
with connections alive in other loops (`FIXME: unsafe`), `~TcpClient` from
another thread, another thread that takes the spare descriptor while it is given
up.

What is left, in this order:

1. A proof of `HttpAnswersInOrder`, with the parser written as a recursive
   function, as the codec of the chat is.
2. `NoAssertionFails` of TcpConnection with each part of `OneLoopCloses` given
   up alone, as far as it holds.
