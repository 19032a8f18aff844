----------------------------- MODULE ThreadPool -----------------------------
(***************************************************************************)
(* ThreadPool (pallette/ThreadPool.cpp) with the Thread and CountDownLatch *)
(* it starts its workers with (Thread.cpp, CountDownLatch.cpp): a bounded  *)
(* queue of tasks, two condition variables, start() and stop().  A waiting *)
(* thread is in the set of its condition variable; notify_one() takes any  *)
(* one out of it, and spurious wakeups happen.                             *)
(***************************************************************************)
EXTENDS Naturals, Sequences, FiniteSets

CONSTANTS
    NumWorkers,     \* numThreads of start(): the workers are 1..NumWorkers
    Producers,      \* the threads that call run()
    MaxQueueSize,   \* maxQueueSize_; 0 is no limit
    MaxTasks        \* bound: tasks submitted

ASSUME ProducersAssumption == IsFiniteSet(Producers)
ASSUME TasksAssumption == MaxTasks \in Nat

VARIABLES
    worker,         \* worker[w]: where worker w is in its thread function
    producer,       \* producer[p]: where p is in run()
    notEmpty,       \* the workers waiting on notEmpty_
    notFull,        \* the producers waiting on notFull_
    tasks,          \* queue_
    poolRunning,    \* running_
    poolOwner,      \* where the owner is in start() and stop()
    submitted,      \* history: the tasks pushed, in order
    taken,          \* history: the tasks taken, in order
    inline          \* history: tasks run by run() itself

poolVars == <<worker, producer, notEmpty, notFull, tasks, poolRunning, poolOwner,
              submitted, taken, inline>>

PoolInit ==
    /\ worker = [w \in 1..NumWorkers |-> "unborn"]
    /\ producer = [p \in Producers |-> "out"]
    /\ notEmpty = {} /\ notFull = {}
    /\ tasks = <<>> /\ submitted = <<>> /\ taken = <<>> /\ inline = 0
    /\ poolRunning = FALSE /\ poolOwner = "new"

\* condition_variable::notify_one() on the set of its waiters
NotifyOne(S, T) == IF S = {} THEN T = {} ELSE \E t \in S : T = S \ {t}

-----------------------------------------------------------------------------
(* Wrong variants of definitions below, one plausible slip each.            *)

\* take() pops at the wrong end.
Newest == <<tasks[Len(tasks)], SubSeq(tasks, 1, Len(tasks) - 1)>>

\* take() wakes no producer.
NobodyNotified == UNCHANGED notFull

-----------------------------------------------------------------------------
(* The owner.                                                               *)

\* start(): running_, and the first Thread::start()
PoolStart ==
    /\ poolOwner = "new"
    /\ poolOwner' = "starting"
    /\ poolRunning' = TRUE
    /\ UNCHANGED <<worker, producer, notEmpty, notFull, tasks, submitted, taken, inline>>

\* Thread::start(): the thread is created, and the latch makes the owner wait
\* until it runs before the next one is started or start() returns.
Latched(w) == worker[w] \notin {"unborn", "born"}

StartWorker(w) ==
    /\ poolOwner = "starting"
    /\ worker[w] = "unborn"
    /\ \A v \in 1..(w - 1) : Latched(v)
    /\ worker' = [worker EXCEPT ![w] = "born"]
    /\ UNCHANGED <<producer, notEmpty, notFull, tasks, poolRunning, poolOwner,
                   submitted, taken, inline>>

PoolStarted ==
    /\ poolOwner = "starting"
    /\ \A w \in 1..NumWorkers : Latched(w)
    /\ poolOwner' = "started"
    /\ UNCHANGED <<worker, producer, notEmpty, notFull, tasks, poolRunning,
                   submitted, taken, inline>>

\* stop(), also from the destructor: wake all workers, then join them
PoolStop ==
    /\ poolOwner = "started"
    /\ poolOwner' = "stopping"
    /\ poolRunning' = FALSE
    /\ notEmpty' = {}
    /\ UNCHANGED <<worker, producer, notFull, tasks, submitted, taken, inline>>

JoinAll ==
    /\ poolOwner = "stopping"
    /\ \A w \in 1..NumWorkers : worker[w] = "exited"
    /\ poolOwner' = "stopped"
    /\ UNCHANGED <<worker, producer, notEmpty, notFull, tasks, poolRunning,
                   submitted, taken, inline>>

-----------------------------------------------------------------------------
(* run() of producer p.                                                     *)

IsFull == MaxQueueSize > 0 /\ Len(tasks) >= MaxQueueSize

\* threads_ is empty: the caller runs the task itself.
RunInline ==
    /\ poolOwner = "new"
    /\ inline < MaxTasks
    /\ inline' = inline + 1
    /\ UNCHANGED <<worker, producer, notEmpty, notFull, tasks, poolRunning,
                   poolOwner, submitted, taken>>

\* The calls of run() under way
Calls == {p \in Producers : producer[p] = "waiting"}

\* A first call or a thread woken up in while (isFull())
RunTask(p) ==
    /\ poolOwner \in {"started", "stopping"}
    /\ p \notin notFull
    /\ producer[p] = "waiting" \/ Cardinality(Calls) < MaxTasks - Len(submitted)
    /\ \/ /\ IsFull
          /\ notFull' = notFull \cup {p}
          /\ producer' = [producer EXCEPT ![p] = "waiting"]
          /\ UNCHANGED <<tasks, submitted, notEmpty>>
       \/ /\ ~IsFull
          /\ tasks' = Append(tasks, Len(submitted) + 1)
          /\ submitted' = Append(submitted, Len(submitted) + 1)
          /\ NotifyOne(notEmpty, notEmpty')
          /\ producer' = [producer EXCEPT ![p] = "out"]
          /\ UNCHANGED notFull
    /\ UNCHANGED <<worker, poolRunning, poolOwner, taken, inline>>

-----------------------------------------------------------------------------
(* runInThread() of worker w.                                               *)

\* runInThread() of ThreadData: tid, latch_->countDown(), the function; then
\* while (running_), and the end of the thread.
CountDown(w) ==
    /\ worker[w] = "born"
    /\ worker' = [worker EXCEPT ![w] = "test"]
    /\ UNCHANGED <<producer, notEmpty, notFull, tasks, poolRunning, poolOwner,
                   submitted, taken, inline>>

TestPoolRunning(w) ==
    /\ worker[w] = "test"
    /\ worker' = [worker EXCEPT ![w] = IF poolRunning THEN "take" ELSE "exited"]
    /\ UNCHANGED <<producer, notEmpty, notFull, tasks, poolRunning, poolOwner,
                   submitted, taken, inline>>

\* queue_.front(), and what pop_front() leaves
Oldest == <<Head(tasks), Tail(tasks)>>

NotifyNotFull == IF MaxQueueSize > 0 THEN NotifyOne(notFull, notFull') ELSE UNCHANGED notFull

\* take(): wait, or a task, or the empty task of a pool that is stopping
Take(w) ==
    /\ worker[w] = "take"
    /\ w \notin notEmpty
    /\ \/ /\ tasks = <<>> /\ poolRunning
          /\ notEmpty' = notEmpty \cup {w}
          /\ UNCHANGED <<worker, tasks, taken, notFull>>
       \/ /\ tasks # <<>>
          /\ taken' = Append(taken, Oldest[1])
          /\ tasks' = Oldest[2]
          /\ worker' = [worker EXCEPT ![w] = "task"]
          /\ NotifyNotFull
          /\ UNCHANGED notEmpty
       \/ /\ tasks = <<>> /\ ~poolRunning
          /\ worker' = [worker EXCEPT ![w] = "test"]
          /\ UNCHANGED <<tasks, taken, notEmpty, notFull>>
    /\ UNCHANGED <<producer, poolRunning, poolOwner, submitted, inline>>

TaskEnds(w) ==
    /\ worker[w] = "task"
    /\ worker' = [worker EXCEPT ![w] = "test"]
    /\ UNCHANGED <<producer, notEmpty, notFull, tasks, poolRunning, poolOwner,
                   submitted, taken, inline>>

SpuriousWakeup ==
    /\ \/ \E w \in notEmpty : notEmpty' = notEmpty \ {w} /\ UNCHANGED notFull
       \/ \E p \in notFull : notFull' = notFull \ {p} /\ UNCHANGED notEmpty
    /\ UNCHANGED <<worker, producer, tasks, poolRunning, poolOwner, submitted,
                   taken, inline>>

-----------------------------------------------------------------------------
WorkerStep(w) == CountDown(w) \/ TestPoolRunning(w) \/ Take(w) \/ TaskEnds(w)

OwnerStep == (\E w \in 1..NumWorkers : StartWorker(w)) \/ PoolStarted \/ JoinAll

PoolNext ==
    \/ PoolStart \/ OwnerStep \/ PoolStop \/ RunInline \/ SpuriousWakeup
    \/ \E p \in Producers : RunTask(p)
    \/ \E w \in 1..NumWorkers : WorkerStep(w)

\* Threads that can run are run, and a task ends: one that blocks its worker
\* for ever is outside the contract.  No wakeup is taken to be spurious.
PoolFairness ==
    /\ WF_poolVars(OwnerStep)
    /\ \A w \in 1..NumWorkers : WF_poolVars(WorkerStep(w))
    /\ \A p \in Producers : WF_poolVars(producer[p] = "waiting" /\ RunTask(p))

PoolSpec == PoolInit /\ [][PoolNext]_poolVars /\ PoolFairness

-----------------------------------------------------------------------------
\* The queue of run() and take() as the abstract queue
Tasks == INSTANCE Fifo WITH Items <- 1..MaxTasks, put <- submitted, got <- taken

\* Refinement: tasks are taken in the order of the pushes, each once, by
\* whichever worker gets the mutex first.
TasksAreFifo == Tasks!FifoSpec

\* No wakeup is lost between the two condition variables: while the pool runs
\* a pushed task is taken and a producer that waits for room gets it, and
\* stop() joins every worker, wherever they are.
PoolKeepsWorking ==
    /\ \A t \in 1..MaxTasks :
          (t \in {submitted[i] : i \in DOMAIN submitted} /\ poolRunning)
              ~> (t \in {taken[i] : i \in DOMAIN taken} \/ ~poolRunning)
    /\ \A p \in Producers :
          (producer[p] = "waiting" /\ poolRunning) ~> (producer[p] = "out" \/ ~poolRunning)
    /\ (poolOwner = "stopping") ~> (poolOwner = "stopped")

=============================================================================
