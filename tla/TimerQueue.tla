----------------------------- MODULE TimerQueue ------------------------------
(***************************************************************************)
(* TimerQueue, Timer and TimerId (pallette/TimerQueue.cpp, Timer.cpp): the *)
(* ordered set of waiting timers, the timerfd armed for the earliest one,  *)
(* the pass of handleRead() over the expired timers, and addTimer() and    *)
(* cancel() from callbacks of the loop and from other threads.             *)
(*                                                                         *)
(* Time runs in ticks of 100 microseconds, the shortest delay              *)
(* howMuchTimeFromNow() hands to the kernel.  Every time is kept relative  *)
(* to the present and no smaller than 0: due[t] is the number of ticks     *)
(* until t expires.  The code compares expirations with now, and a new     *)
(* expiration (never in the past) with the earliest one, and neither       *)
(* comparison tells two timers apart that are both overdue.                *)
(***************************************************************************)
EXTENDS Naturals, Sequences

CONSTANTS
    Timers,        \* Timer objects
    NoTimer,       \* NULL
    Interval,      \* Interval[t]: interval_ in ticks, 0 for a one-shot timer
    Delays,        \* the delays callers ask for, in ticks
    MaxPending     \* bound on the calls of other threads waiting in the loop

ASSUME TimersAssumption ==
    /\ NoTimer \notin Timers
    /\ Interval \in [Timers -> Nat]
    /\ Delays \subseteq Nat
    /\ MaxPending \in Nat

VARIABLES
    created,       \* timers that new Timer has been called for
    due,           \* due[t]: ticks until expiration_
    timers,        \* timers_, which it orders by due
    waitTimers,    \* waitTimers_
    activeTimers,  \* activeTimers_
    toRun,         \* those of activeTimers_ the pass has not run yet
    currentTimer,  \* currentActiveTimer_ while its callback runs
    canceling,     \* cancelingTimers_
    free,          \* freeTimers_
    calling,       \* callingExpiredTimers_: the owner is in handleRead()
    elapsed,       \* ticks since the now that handleRead() took
    fdLeft,        \* kernel: ticks until the timerfd expires, 0 when disarmed
    fdReadable,    \* kernel: the timerfd has expired and was not read
    pending,       \* calls queued by other threads: <<operation, timer>>
    cancelled      \* history: cancelInLoop() found the timer waiting or active

vars == <<created, due, timers, waitTimers, activeTimers, toRun, currentTimer,
          canceling, free, calling, elapsed, fdLeft, fdReadable, pending,
          cancelled>>

Init ==
    /\ created = {}
    /\ due = [t \in Timers |-> 0]
    /\ timers = {}
    /\ waitTimers = {}
    /\ activeTimers = {}
    /\ toRun = {}
    /\ currentTimer = NoTimer
    /\ canceling = {}
    /\ free = {}
    /\ calling = FALSE
    /\ elapsed = 0
    /\ fdLeft = 0
    /\ fdReadable = FALSE
    /\ pending = <<>>
    /\ cancelled = {}

\* Times are kept from the present on, as the code's comparisons see them.
Minus(a, b) == IF a > b THEN a - b ELSE 0

-----------------------------------------------------------------------------
(* Wrong variants of definitions below, one plausible slip each.            *)

\* insert() compares the wrong way round.
LatestChanged(t, set, d) == set = {} \/ \A u \in set : d[u] < d[t]
\* reset() reinserts every repeating timer.
RestartsCancelled(t) == Interval[t] > 0
\* reset() arms the timerfd for restarted timers only.
ReArmsRestarted(again, waiting) == again # {}
\* cancelInLoop() retires an active timer itself, and reset() does again.
FreedWhileActive(t) ==
    IF t \in waitTimers \/ (calling /\ t \in activeTimers) THEN free \cup {t}
                                                           ELSE free

-----------------------------------------------------------------------------
(* The timerfd.                                                             *)

\* howMuchTimeFromNow(): at least 100 microseconds.
HowMuchTimeFromNow(d) == IF d < 1 THEN 1 ELSE d

\* resetTimerfd(): timerfd_settime arms it anew and forgets an expiration
\* that was not read.
ResetTimerfd(d) ==
    /\ fdLeft' = HowMuchTimeFromNow(d)
    /\ fdReadable' = FALSE

\* Time goes by, in callbacks and outside of them.
Tick ==
    /\ due' = [t \in Timers |-> Minus(due[t], 1)]
    /\ fdLeft' = Minus(fdLeft, 1)
    /\ fdReadable' = (fdReadable \/ fdLeft = 1)
    /\ elapsed' = IF calling /\ \E t \in Timers : elapsed < Interval[t]
                  THEN elapsed + 1 ELSE elapsed
    /\ UNCHANGED <<created, timers, waitTimers, activeTimers, toRun,
                   currentTimer, canceling, free, calling, pending, cancelled>>

-----------------------------------------------------------------------------
(* Operations in the loop thread.                                           *)

\* insert(): is the new timer the earliest one?
EarliestChanged(t, set, d) == set = {} \/ \A u \in set : d[t] < d[u]

\* addTimerInLoop(t), where d is due after the call of addTimer()
AddTimerInLoop(t, d) ==
    /\ timers' = timers \cup {t}
    /\ waitTimers' = waitTimers \cup {t}
    /\ IF EarliestChanged(t, timers, d)
       THEN ResetTimerfd(d[t])
       ELSE UNCHANGED <<fdLeft, fdReadable>>
    /\ UNCHANGED <<activeTimers, toRun, currentTimer, canceling, free, calling,
                   elapsed, cancelled>>

\* freeTimers_ after cancelInLoop(t)
FreeAfterCancel(t) == IF t \in waitTimers THEN free \cup {t} ELSE free

\* cancelInLoop(t): a waiting timer is taken out and retired; one of the
\* present pass is noted down; any other is ignored.
CancelInLoop(t) ==
    LET active == t \notin waitTimers /\ calling /\ t \in activeTimers IN
    /\ free' = FreeAfterCancel(t)
    /\ timers' = timers \ {t}
    /\ waitTimers' = waitTimers \ {t}
    /\ canceling' = IF active THEN canceling \cup {t} ELSE canceling
    /\ cancelled' = IF active \/ t \in waitTimers THEN cancelled \cup {t}
                                                  ELSE cancelled
    /\ UNCHANGED <<created, due, activeTimers, toRun, currentTimer, calling,
                   elapsed, fdLeft, fdReadable>>

\* getExpired(): the timers that are due, and waitTimers_ without them
Expired == {t \in timers : due[t] = 0}
WaitAfterExpiry(expired) == waitTimers \ expired

\* handleRead() up to the first callback: read the timerfd, getExpired(now),
\* callingExpiredTimers_ = true, cancelingTimers_.clear().
HandleRead ==
    /\ ~calling
    /\ fdReadable
    /\ activeTimers' = Expired
    /\ toRun' = Expired
    /\ timers' = timers \ Expired
    /\ waitTimers' = WaitAfterExpiry(Expired)
    /\ fdReadable' = FALSE
    /\ calling' = TRUE
    /\ canceling' = {}
    /\ elapsed' = 0
    /\ UNCHANGED <<created, due, currentTimer, free, fdLeft, pending, cancelled>>

\* currentActiveTimer_->run(): the callback is user code of the loop.
RunTimer(t) ==
    /\ calling
    /\ t \in toRun
    /\ currentTimer' = t
    /\ toRun' = toRun \ {t}
    /\ UNCHANGED <<created, due, timers, waitTimers, activeTimers, canceling,
                   free, calling, elapsed, fdLeft, fdReadable, pending,
                   cancelled>>

\* reset(): which timers of the pass are started again ...
Restarts(t) == Interval[t] > 0 /\ t \notin canceling

\* ... and whether the timerfd is armed.
ReArms(again, waiting) == again \cup waiting # {}

\* The pass is over: callingExpiredTimers_ = false and reset(now).
EndHandleRead ==
    LET again == {t \in activeTimers : Restarts(t)}
        next  == [t \in Timers |-> IF t \in again
                                   THEN Minus(Interval[t], elapsed)
                                   ELSE due[t]] IN
    /\ calling
    /\ toRun = {}
    /\ calling' = FALSE
    /\ currentTimer' = NoTimer
    /\ due' = next
    /\ timers' = timers \cup again
    /\ waitTimers' = waitTimers \cup again
    /\ free' = free \cup (activeTimers \ again)
    /\ IF ReArms(again, timers)
       THEN \E first \in timers' :
              /\ \A t \in timers' : next[first] <= next[t]
              /\ ResetTimerfd(next[first])
       ELSE UNCHANGED <<fdLeft, fdReadable>>
    /\ UNCHANGED <<created, activeTimers, toRun, canceling, elapsed, pending,
                   cancelled>>

-----------------------------------------------------------------------------
(* Callers.  runInLoop() carries the call out in place in the loop thread   *)
(* and queues it in any other.                                              *)

\* The loop runs a callback: of a timer, or of anything else.
UserCode == ~calling \/ currentTimer # NoTimer

DueAfterAdd(t, delay) == [due EXCEPT ![t] = delay]

OwnerAddTimer(t, delay) ==
    /\ UserCode
    /\ t \notin created
    /\ created' = created \cup {t}
    /\ due' = DueAfterAdd(t, delay)
    /\ AddTimerInLoop(t, DueAfterAdd(t, delay))
    /\ UNCHANGED pending

OwnerCancel(t) ==
    /\ UserCode
    /\ t \in created
    /\ CancelInLoop(t)
    /\ UNCHANGED pending

AddTimer(t, delay) ==
    /\ Len(pending) < MaxPending
    /\ t \notin created
    /\ created' = created \cup {t}
    /\ due' = DueAfterAdd(t, delay)
    /\ pending' = Append(pending, <<"add", t>>)
    /\ UNCHANGED <<timers, waitTimers, activeTimers, toRun, currentTimer,
                   canceling, free, calling, elapsed, fdLeft, fdReadable,
                   cancelled>>

Cancel(t) ==
    /\ Len(pending) < MaxPending
    /\ t \in created
    /\ pending' = Append(pending, <<"cancel", t>>)
    /\ UNCHANGED <<created, due, timers, waitTimers, activeTimers, toRun,
                   currentTimer, canceling, free, calling, elapsed, fdLeft,
                   fdReadable, cancelled>>

\* doPendingFunctors() takes up the next queued call.
RunAdd ==
    /\ ~calling
    /\ pending # <<>>
    /\ Head(pending)[1] = "add"
    /\ AddTimerInLoop(Head(pending)[2], due)
    /\ pending' = Tail(pending)
    /\ UNCHANGED <<created, due>>

RunCancel ==
    /\ ~calling
    /\ pending # <<>>
    /\ Head(pending)[1] = "cancel"
    /\ CancelInLoop(Head(pending)[2])
    /\ pending' = Tail(pending)

Next ==
    \/ Tick \/ HandleRead \/ EndHandleRead \/ RunAdd \/ RunCancel
    \/ \E t \in Timers :
         \/ RunTimer(t) \/ OwnerCancel(t) \/ Cancel(t)
         \/ \E d \in Delays : OwnerAddTimer(t, d) \/ AddTimer(t, d)

\* Time passes, and the loop thread, which handles a readable timerfd and its
\* pending functors in every round, is scheduled.  Callers owe nothing.
Fairness ==
    /\ WF_vars(Tick)
    /\ WF_vars(HandleRead)
    /\ WF_vars(EndHandleRead)
    /\ WF_vars(RunAdd \/ RunCancel)
    /\ \A t \in Timers : WF_vars(RunTimer(t))

Spec == Init /\ [][Next]_vars /\ Fairness

-----------------------------------------------------------------------------
TypeOK ==
    /\ created \in SUBSET Timers
    /\ due \in [Timers -> Nat]
    /\ timers \in SUBSET created
    /\ waitTimers \in SUBSET created
    /\ activeTimers \in SUBSET created
    /\ toRun \in SUBSET activeTimers
    /\ currentTimer \in created \cup {NoTimer}
    /\ canceling \in SUBSET created
    /\ free \in SUBSET created
    /\ calling \in BOOLEAN
    /\ elapsed \in Nat
    /\ fdLeft \in Nat
    /\ fdReadable \in BOOLEAN
    /\ pending \in Seq({"add", "cancel"} \X created)
    /\ cancelled \in SUBSET created

\* waitTimers_ holds exactly the timers of timers_ ("the same number as
\* timers_", and the assertions of cancelInLoop() and getExpired()).
WaitMirrorsTimers == waitTimers = timers

\* From addTimer() to the destructor of the queue a timer is in one place: its
\* insertion is queued, it waits, the present pass has it, or it is retired.
\* A timer in two places runs twice or is deleted twice.
InOnePlace ==
    /\ timers \cap free = {}
    /\ calling => activeTimers \cap (timers \cup free) = {}
    /\ \A i \in DOMAIN pending :
         pending[i][1] = "add" =>
            pending[i][2] \notin timers \cup free \cup activeTimers

\* The timerfd covers the earliest timer: outside of handleRead(), when some
\* timer waits, the timerfd is readable or expires no later than the timer
\* is due (at the next tick when it is overdue), although cancel() does not
\* touch the timerfd and callbacks add, cancel and restart in between.
TimerfdCoversEarliest ==
    ~calling => \A t \in timers :
        \/ fdReadable
        \/ fdLeft > 0 /\ fdLeft <= HowMuchTimeFromNow(due[t])

\* A timer that cancelInLoop() found never waits again: neither a restart nor
\* a reinsertion revives it, and outside of the pass it was cancelled in it
\* is not run.
CancelledStaysOut ==
    /\ cancelled \cap timers = {}
    /\ ~calling => toRun = {}

\* A waiting timer is run, or cancelled.
WaitingFires ==
    \A t \in Timers : t \in timers ~> (currentTimer = t \/ t \in cancelled)

\* What the comments on cancelingTimers_ ("timers to be deleted") and
\* freeTimers_ ("deleted timers") and the loops of the destructor assume: no
\* timer is in two of the lists it deletes.  The queue is destroyed by its
\* thread, outside of handleRead().
DestructorDeletesOnce ==
    ~calling => canceling \cap (timers \cup free) = {}

=============================================================================
