--------------------------- MODULE EventLoopThread ---------------------------
(***************************************************************************)
(* EventLoopThread (pallette/EventLoopThread.cpp) around the EventLoop it  *)
(* starts: the creating thread calls startLoop(), uses the loop, and runs  *)
(* the destructor; the new thread constructs the EventLoop, publishes its  *)
(* address, runs loop() and destroys it.  The owner thread of EventLoop is *)
(* the new thread; Creator is one of its other Threads.  Thread::start()   *)
(* (pallette/Thread.cpp) returns when the new thread has counted down the  *)
(* latch, join() when its function has returned.                           *)
(***************************************************************************)
EXTENDS EventLoop

CONSTANT Creator

ASSUME CreatorAssumption == Creator \in Threads

VARIABLES
    thread,    \* where the new thread is in threadFunc()
    creator,   \* where the creating thread is in the life of the object
    loopPtr    \* loop_ # NULL

threadVars == <<thread, creator, loopPtr>>
allVars == <<vars, threadVars>>

ThreadInit ==
    /\ Init
    /\ thread = "unborn"
    /\ creator = "constructed"
    /\ loopPtr = FALSE

-----------------------------------------------------------------------------
(* The creating thread.                                                     *)

\* startLoop(): assert(!thread_.started()); pthread_create.
StartLoop ==
    /\ creator = "constructed"
    /\ thread = "unborn"
    /\ thread' = "constructing"
    /\ creator' = "starting"
    /\ UNCHANGED <<vars, loopPtr>>

\* The latch of Thread::start() and then while (loop_ == NULL) cond_.wait()
\* are passed: loop_ was published under the mutex.
StartLoopReturns ==
    /\ creator = "starting"
    /\ loopPtr
    /\ creator' = "using"
    /\ UNCHANGED <<vars, thread, loopPtr>>

\* ~EventLoopThread(): an object never started, or whose loop has ended, is
\* let go (~Thread detaches); otherwise loop_->quit() and then join().
Destruct ==
    /\ creator \in {"constructed", "using"}
    /\ tpc[Creator] = "out"
    /\ creator' = IF loopPtr THEN "quitting" ELSE "destructed"
    /\ UNCHANGED <<vars, thread, loopPtr>>

DestructorQuit ==
    /\ creator = "quitting"
    /\ QuitRead(Creator)
    /\ creator' = "joining"
    /\ UNCHANGED <<thread, loopPtr>>

\* thread_.join(): reached when quit() has returned.
Join ==
    /\ creator = "joining"
    /\ tpc[Creator] = "out"
    /\ thread = "finished"
    /\ creator' = "destructed"
    /\ UNCHANGED <<vars, thread, loopPtr>>

\* Calls of queueInLoop() and quit() by threads that hold the address
\* startLoop() returned, begun while the loop exists: calling it after a
\* quit() of one's own is outside the contract.  A call that has begun may
\* outlive the loop.
UseLoop ==
    /\ \/ \E t \in Threads : QuitStore(t) \/ Wakeup(t)
       \/ /\ creator = "using"
          /\ thread \in {"published", "looping"}
          /\ \E t \in Threads :
                QuitRead(t) \/ \E f \in Functors : QueueInLoop(t, f)
    /\ UNCHANGED threadVars

-----------------------------------------------------------------------------
(* The new thread: threadFunc().                                            *)

\* EventLoop loop; callback_(&loop), which may queue functors of its own.
InitCallback ==
    /\ thread = "constructing"
    /\ \E f \in Functors : OwnerQueueInLoop(f)
    /\ UNCHANGED threadVars

\* loop_ = &loop; cond_.notify_one(), under the mutex
Publish ==
    /\ thread = "constructing"
    /\ loopPtr' = TRUE
    /\ thread' = "published"
    /\ UNCHANGED <<vars, creator>>

\* loop.loop()
EnterLoop ==
    /\ thread = "published"
    /\ Loop
    /\ thread' = "looping"
    /\ UNCHANGED <<creator, loopPtr>>

RunLoop ==
    /\ thread = "looping"
    /\ pc # "idle"
    /\ LoopStep \/ PollTimeout \/ (current # NoCallback /\ OwnerCall)
    /\ thread' = IF pc' = "idle" THEN "exiting" ELSE "looping"
    /\ UNCHANGED <<creator, loopPtr>>

\* loop_ = NULL
ClearLoop ==
    /\ thread = "exiting"
    /\ loopPtr' = FALSE
    /\ thread' = "destroying"
    /\ UNCHANGED <<vars, creator>>

\* ~EventLoop(), and the thread function returns
ThreadExit ==
    /\ thread = "destroying"
    /\ thread' = "finished"
    /\ UNCHANGED <<vars, creator, loopPtr>>

ThreadStep == Publish \/ EnterLoop \/ ClearLoop \/ ThreadExit

ThreadNext ==
    \/ StartLoop \/ StartLoopReturns \/ Destruct \/ DestructorQuit \/ Join
    \/ UseLoop \/ InitCallback \/ ThreadStep \/ RunLoop

\* Both threads are scheduled: what the code does next without waiting for
\* user code is done in the end.  The user decides when to call startLoop()
\* and the destructor.
ThreadFairness ==
    /\ WF_allVars(ThreadStep)
    /\ WF_allVars(StartLoopReturns)
    /\ WF_allVars(DestructorQuit)
    /\ WF_allVars(Join)
    /\ WF_allVars(RunLoop /\ (ClearQuit \/ TestQuit \/ HandleRead \/ HandleEvent
          \/ BeginPending \/ SwapPending \/ RunFunctor \/ EndPending))
    /\ WF_allVars(RunLoop /\ PollWoken)
    /\ WF_allVars(RunLoop /\ CallbackReturns)
    /\ \A t \in Threads :
         WF_allVars(UseLoop /\ QuitStore(t)) /\ WF_allVars(UseLoop /\ Wakeup(t))

ThreadSpec == ThreadInit /\ [][ThreadNext]_allVars /\ ThreadFairness

-----------------------------------------------------------------------------

\* A destructor that runs once the loop is looping (the tests sleep 500 ms to
\* be there) joins the thread, when no other thread still holds a value of
\* looping_ it read before the loop began.
DestructorJoinsRunningLoop ==
    (/\ creator = "quitting"
     /\ pc \notin {"idle", "entered"}
     /\ \A t \in Threads : tpc[t] = "quit" => seen[t]) ~> (creator = "destructed")

\* What the test says of the destructor ("dtor calls quit()"): the loop is
\* made to quit, so the destructor ends, whenever it is called.
DestructorEnds == (creator = "quitting") ~> (creator = "destructed")

=============================================================================
