------------------------------ MODULE EventLoop ------------------------------
(***************************************************************************)
(* One EventLoop (pallette/EventLoop.cpp): the loop of its owner thread,   *)
(* the queue of pending functors that any thread may append to, the        *)
(* eventfd that wakes the loop, and quit().                                *)
(*                                                                         *)
(* The owner thread runs loop(); the threads of Threads call queueInLoop() *)
(* and quit() on it.  A functor is an opaque token, queued at most once.   *)
(* User code run by the owner (an I/O callback, a functor, or the code     *)
(* before loop() and after it) may itself call queueInLoop() and quit().   *)
(* runInLoop() needs no action of its own: in the owner thread it runs the *)
(* functor in place, as part of the calling user code, and in any other    *)
(* thread it is queueInLoop().                                             *)
(***************************************************************************)
EXTENDS Naturals, Sequences

CONSTANTS
    Threads,      \* the threads other than the owner of the loop
    Functors,     \* the functors that may be queued
    NoCallback    \* "the owner runs no callback at the moment"

ASSUME NoCallbackAssumption == NoCallback \notin Functors \cup {"io"}

VARIABLES
    pc,               \* where the owner thread is in loop()
    looping,          \* looping_
    quit,             \* quit_
    callingPending,   \* callingPendingFunctors_
    pending,          \* pendingFunctors_
    functors,         \* the local vector of doPendingFunctors(), not yet run
    wakeupFd,         \* eventfd: 0 is not readable, 1 is a counter above zero
    active,           \* activeChannels_ not handled yet
    current,          \* the callback the owner is running, or NoCallback
    tpc,              \* tpc[t]: where thread t is in queueInLoop() or quit()
    seen,             \* seen[t]: the value of looping_ that quit() of t read
    queued,           \* history: every functor queued, in the order of the pushes
    ran,              \* history: every functor doPendingFunctors() has started
    early             \* history: queued by the owner outside loop()

vars == <<pc, looping, quit, callingPending, pending, functors, wakeupFd,
          active, current, tpc, seen, queued, ran, early>>

Elements(s) == {s[i] : i \in DOMAIN s}

Init ==
    /\ pc = "idle"
    /\ looping = FALSE
    /\ quit = FALSE
    /\ callingPending = FALSE
    /\ pending = <<>>
    /\ functors = <<>>
    /\ wakeupFd = 0
    /\ active = {}
    /\ current = NoCallback
    /\ tpc = [t \in Threads |-> "out"]
    /\ seen = [t \in Threads |-> FALSE]
    /\ queued = <<>>
    /\ ran = <<>>
    /\ early = {}

-----------------------------------------------------------------------------
(* Wrong variants of actions below, one plausible slip each.  No behaviour  *)
(* of Spec uses them: a property that survives such a slip says nothing.    *)

\* The waiting functors are copied where they should be swapped out.
SwapPendingCopying ==
    /\ pc = "swap"
    /\ functors' = pending
    /\ pc' = "run"
    /\ UNCHANGED <<looping, quit, callingPending, pending, wakeupFd, active,
                   current, tpc, seen, queued, ran, early>>

\* quit() from another thread does not wake the loop.
QuitStoreSilent(t) ==
    /\ tpc[t] = "quit"
    /\ quit' = seen[t]
    /\ tpc' = [tpc EXCEPT ![t] = "out"]
    /\ UNCHANGED <<pc, looping, callingPending, pending, functors, wakeupFd,
                   active, current, seen, queued, ran, early>>

\* queueInLoop() leaves the wakeup out in the owner thread, or everywhere.
OwnerNeverWakes == FALSE
NoWakeupAfterPush == "out"

-----------------------------------------------------------------------------
(* The owner thread inside loop().                                         *)

\* assert(!looping_); looping_ = true
Loop ==
    /\ pc = "idle"
    /\ looping' = TRUE
    /\ pc' = "entered"
    /\ UNCHANGED <<quit, callingPending, pending, functors, wakeupFd, active,
                   current, tpc, seen, queued, ran, early>>

\* quit_ = false
ClearQuit ==
    /\ pc = "entered"
    /\ quit' = FALSE
    /\ pc' = "test"
    /\ UNCHANGED <<looping, callingPending, pending, functors, wakeupFd, active,
                   current, tpc, seen, queued, ran, early>>

\* while (!quit_) ... and looping_ = false behind the loop
TestQuit ==
    /\ pc = "test"
    /\ pc' = IF quit THEN "idle" ELSE "poll"
    /\ looping' = ~quit
    /\ UNCHANGED <<quit, callingPending, pending, functors, wakeupFd, active,
                   current, tpc, seen, queued, ran, early>>

\* epoll_wait returns the channels that are ready: the wakeup channel exactly
\* when the eventfd is readable, and the I/O channel when something arrived.
PollReady ==
    /\ pc = "poll"
    /\ \E io \in SUBSET {"io"} :
          active' = io \cup (IF wakeupFd > 0 THEN {"wakeup"} ELSE {})
    /\ active' # {}
    /\ pc' = "handle"
    /\ UNCHANGED <<looping, quit, callingPending, pending, functors, wakeupFd,
                   current, tpc, seen, queued, ran, early>>

\* epoll_wait returns nothing: kPollTimeMs went by, or a signal came.
PollTimeout ==
    /\ pc = "poll"
    /\ wakeupFd = 0
    /\ active' = {}
    /\ pc' = "handle"
    /\ UNCHANGED <<looping, quit, callingPending, pending, functors, wakeupFd,
                   current, tpc, seen, queued, ran, early>>

\* handleEvent of the wakeup channel: handleRead() drains the eventfd.
HandleRead ==
    /\ pc = "handle"
    /\ current = NoCallback
    /\ "wakeup" \in active
    /\ wakeupFd' = 0
    /\ active' = active \ {"wakeup"}
    /\ UNCHANGED <<pc, looping, quit, callingPending, pending, functors,
                   current, tpc, seen, queued, ran, early>>

\* handleEvent of an I/O channel runs user code until it returns.
HandleEvent ==
    /\ pc = "handle"
    /\ current = NoCallback
    /\ "io" \in active
    /\ current' = "io"
    /\ active' = active \ {"io"}
    /\ UNCHANGED <<pc, looping, quit, callingPending, pending, functors,
                   wakeupFd, tpc, seen, queued, ran, early>>

\* eventHandling_ = false; doPendingFunctors() starts.
BeginPending ==
    /\ pc = "handle"
    /\ active = {}
    /\ current = NoCallback
    /\ callingPending' = TRUE
    /\ pc' = "swap"
    /\ UNCHANGED <<looping, quit, pending, functors, wakeupFd, active, current,
                   tpc, seen, queued, ran, early>>

\* functors.swap(pendingFunctors_) under the mutex.
SwapPending ==
    /\ pc = "swap"
    /\ functors' = pending
    /\ pending' = <<>>
    /\ pc' = "run"
    /\ UNCHANGED <<looping, quit, callingPending, wakeupFd, active, current,
                   tpc, seen, queued, ran, early>>

\* functors[i]() is entered ...
RunFunctor ==
    /\ pc = "run"
    /\ current = NoCallback
    /\ functors # <<>>
    /\ current' = Head(functors)
    /\ functors' = Tail(functors)
    /\ ran' = Append(ran, Head(functors))
    /\ UNCHANGED <<pc, looping, quit, callingPending, pending, wakeupFd,
                   active, tpc, seen, queued, early>>

\* ... and the user callback, functor or I/O, returns.
CallbackReturns ==
    /\ current # NoCallback
    /\ current' = NoCallback
    /\ UNCHANGED <<pc, looping, quit, callingPending, pending, functors,
                   wakeupFd, active, tpc, seen, queued, ran, early>>

\* callingPendingFunctors_ = false; back to while (!quit_).
EndPending ==
    /\ pc = "run"
    /\ current = NoCallback
    /\ functors = <<>>
    /\ callingPending' = FALSE
    /\ pc' = "test"
    /\ UNCHANGED <<looping, quit, pending, functors, wakeupFd, active, current,
                   tpc, seen, queued, ran, early>>

-----------------------------------------------------------------------------
(* Calls made by user code of the owner thread.                            *)

UserCode == pc = "idle" \/ current # NoCallback

\* The condition of queueInLoop() for the owner thread.
OwnerWakes == callingPending

\* queueInLoop(f) in the owner thread wakes the loop only from inside
\* doPendingFunctors().
OwnerQueueInLoop(f) ==
    /\ UserCode
    /\ f \notin Elements(queued)
    /\ pending' = Append(pending, f)
    /\ queued' = Append(queued, f)
    /\ wakeupFd' = IF OwnerWakes THEN 1 ELSE wakeupFd
    /\ early' = IF pc = "idle" THEN early \cup {f} ELSE early
    /\ UNCHANGED <<pc, looping, quit, callingPending, functors, active,
                   current, tpc, seen, ran>>

\* quit_ = looping_, and no wakeup
OwnerQuit ==
    /\ UserCode
    /\ quit' = looping
    /\ UNCHANGED <<pc, looping, callingPending, pending, functors, wakeupFd,
                   active, current, tpc, seen, queued, ran, early>>

-----------------------------------------------------------------------------
(* Calls made by another thread t.                                         *)

\* What a thread other than the owner has to do next after its push.
AfterPush == "wakeup"

\* pendingFunctors_.push_back(cb) under the mutex; the wakeup is still due.
QueueInLoop(t, f) ==
    /\ tpc[t] = "out"
    /\ f \notin Elements(queued)
    /\ pending' = Append(pending, f)
    /\ queued' = Append(queued, f)
    /\ tpc' = [tpc EXCEPT ![t] = AfterPush]
    /\ UNCHANGED <<pc, looping, quit, callingPending, functors, wakeupFd,
                   active, current, seen, ran, early>>

\* wakeup(): write 1 to the eventfd.
Wakeup(t) ==
    /\ tpc[t] = "wakeup"
    /\ wakeupFd' = 1
    /\ tpc' = [tpc EXCEPT ![t] = "out"]
    /\ UNCHANGED <<pc, looping, quit, callingPending, pending, functors,
                   active, current, seen, queued, ran, early>>

\* quit_ = looping_ is a read of looping_, which the owner writes without a
\* lock, and a later store to quit_.
QuitRead(t) ==
    /\ tpc[t] = "out"
    /\ seen' = [seen EXCEPT ![t] = looping]
    /\ tpc' = [tpc EXCEPT ![t] = "quit"]
    /\ UNCHANGED <<pc, looping, quit, callingPending, pending, functors,
                   wakeupFd, active, current, queued, ran, early>>

QuitStore(t) ==
    /\ tpc[t] = "quit"
    /\ quit' = seen[t]
    /\ tpc' = [tpc EXCEPT ![t] = "wakeup"]
    /\ UNCHANGED <<pc, looping, callingPending, pending, functors, wakeupFd,
                   active, current, seen, queued, ran, early>>

-----------------------------------------------------------------------------
LoopStep ==
    \/ ClearQuit \/ TestQuit \/ PollReady \/ HandleRead \/ HandleEvent
    \/ BeginPending \/ SwapPending \/ RunFunctor \/ CallbackReturns
    \/ EndPending

OwnerCall == OwnerQuit \/ \E f \in Functors : OwnerQueueInLoop(f)

ThreadCall(t) ==
    \/ QuitRead(t) \/ QuitStore(t) \/ Wakeup(t)
    \/ \E f \in Functors : QueueInLoop(t, f)

Next ==
    \/ Loop \/ LoopStep \/ PollTimeout
    \/ OwnerCall
    \/ \E t \in Threads : ThreadCall(t)

\* The operating system runs every thread that can run, so a step of loop()
\* and the rest of a call that has begun are taken in the end, and a callback
\* returns: user code that blocks the loop for ever is outside the contract.
\* When I/O arrives, whether epoll_wait times out, and which calls the user
\* makes is left open: no property below rests on the 10 s timeout.
PollWoken == PollReady /\ wakeupFd > 0

Fairness ==
    /\ WF_vars(ClearQuit \/ TestQuit \/ HandleRead \/ HandleEvent
               \/ BeginPending \/ SwapPending \/ RunFunctor \/ EndPending)
    /\ WF_vars(PollWoken)
    /\ WF_vars(CallbackReturns)
    /\ \A t \in Threads : WF_vars(QuitStore(t)) /\ WF_vars(Wakeup(t))

Spec == Init /\ [][Next]_vars /\ Fairness

-----------------------------------------------------------------------------
TypeOK ==
    /\ pc \in {"idle", "entered", "test", "poll", "handle", "swap", "run"}
    /\ looping \in BOOLEAN
    /\ quit \in BOOLEAN
    /\ callingPending \in BOOLEAN
    /\ pending \in Seq(Functors)
    /\ functors \in Seq(Functors)
    /\ wakeupFd \in {0, 1}
    /\ active \in SUBSET {"wakeup", "io"}
    /\ current \in Functors \cup {"io", NoCallback}
    /\ tpc \in [Threads -> {"out", "wakeup", "quit"}]
    /\ seen \in [Threads -> BOOLEAN]
    /\ queued \in Seq(Functors)
    /\ ran \in Seq(Functors)
    /\ early \in SUBSET Functors

\* Functors run in the order in which they were queued, each of them at most
\* once and none is dropped: what was queued is what has run, then what the
\* present pass still has to run, then what waits in pendingFunctors_
\* (queueInLoop, doPendingFunctors).
FunctorsInOrder == queued = ran \o functors \o pending

\* queueInLoop() and doPendingFunctors() as the abstract queue
FunctorQueue == INSTANCE Fifo WITH Items <- Functors, put <- queued, got <- ran

\* Refinement: the queue of functors, whose ends are the pushes of all threads
\* and the calls of doPendingFunctors(), is a FIFO: the mutex, the swap and the
\* local vector are not to be seen from outside.
FunctorsAreFifo == FunctorQueue!FifoSpec

\* A wakeup of the loop is certain: the eventfd is readable, or a thread is
\* between its push and its write.
WakeupDue == wakeupFd > 0 \/ \E t \in Threads : tpc[t] = "wakeup"

\* No lost wakeup: the owner never waits in epoll_wait for a functor that no
\* wakeup is due for, whatever the order of push, write, drain and swap.
\* Functors that the owner queued outside loop() are the exception the code
\* makes: queueInLoop() does not wake for them and they wait for the timeout.
NoLostWakeup ==
    pc = "poll" /\ Elements(pending) \ early # {} => WakeupDue

\* Every functor queued while the loop runs is run, or the loop ends first:
\* without help of the poll timeout.
QueuedIsRun ==
    \A f \in Functors :
        (f \in Elements(pending) \ early /\ looping)
            ~> (f \in Elements(ran) \/ ~looping)

=============================================================================
