--------------------------- MODULE EventLoop_proofs ---------------------------
(***************************************************************************)
(* Proofs about EventLoop for any set of threads and any set of functors:  *)
(* type correctness, the order and completeness of the functor queue, the  *)
(* absence of lost wakeups and the bound on a pass of doPendingFunctors(). *)
(***************************************************************************)
EXTENDS EventLoop, SequenceTheorems, TLAPS

(* What the flags of the owner thread say about its place in loop().        *)
FlagsAgree ==
    /\ callingPending <=> pc \in {"swap", "run"}
    /\ current # NoCallback => pc \in {"handle", "run"}
    /\ functors # <<>> => pc = "run"

(* The strengthening of NoLostWakeup.  Between the drain of the eventfd in  *)
(* handleRead() and the swap (pc "handle" and "swap") functors may wait     *)
(* with no wakeup due, because the swap still comes; everywhere else a      *)
(* wakeup is due for them.                                                  *)
WakeupCovers ==
    pc \notin {"handle", "swap"} /\ Elements(pending) \ early # {} => WakeupDue

IInv == TypeOK /\ FlagsAgree /\ WakeupCovers

-----------------------------------------------------------------------------
(* Elements of the sequences the queue is made of.                          *)

\* queueInLoop() adds its functor to what is waiting and nothing else.
LEMMA ElementsAppend ==
    ASSUME NEW S, NEW s \in Seq(S), NEW e \in S
    PROVE  Elements(Append(s, e)) = Elements(s) \cup {e}
<1>1. DOMAIN s = 1 .. Len(s) /\ Len(s) \in Nat
  OBVIOUS
<1>2. /\ DOMAIN Append(s, e) = 1 .. (Len(s) + 1)
      /\ \A i \in 1 .. Len(s) : Append(s, e)[i] = s[i]
      /\ Append(s, e)[Len(s) + 1] = e
  BY AppendProperties, LenProperties
<1> QED
  BY <1>1, <1>2 DEF Elements

\* After the swap nothing is waiting.
LEMMA ElementsEmpty == Elements(<<>>) = {}
  BY DEF Elements

-----------------------------------------------------------------------------
\* A loop just constructed is well typed.
LEMMA InitType == Init => TypeOK
<1> SUFFICES ASSUME Init PROVE TypeOK
  OBVIOUS
<1>1. seen \in [Threads -> BOOLEAN] /\ tpc \in [Threads -> {"out", "wakeup", "quit"}]
  BY Zenon DEF Init
<1>2. <<>> \in Seq(Functors)
  OBVIOUS
<1> QED
  BY <1>1, <1>2 DEF Init, TypeOK

\* The owner's steps and the calls of all threads keep every variable of the
\* loop in its type.
LEMMA TypeStep == TypeOK /\ [Next]_vars => TypeOK'
<1> SUFFICES ASSUME TypeOK, [Next]_vars PROVE TypeOK'
  OBVIOUS
<1> USE NoCallbackAssumption
<1>1. CASE Loop
  BY <1>1 DEF Loop, TypeOK
<1>2. CASE ClearQuit
  BY <1>2 DEF ClearQuit, TypeOK
<1>3. CASE TestQuit
  BY <1>3 DEF TestQuit, TypeOK
<1>4. CASE PollReady
  BY <1>4 DEF PollReady, TypeOK
<1>5. CASE PollTimeout
  BY <1>5 DEF PollTimeout, TypeOK
<1>6. CASE HandleRead
  BY <1>6 DEF HandleRead, TypeOK
<1>7. CASE HandleEvent
  BY <1>7 DEF HandleEvent, TypeOK
<1>8. CASE BeginPending
  BY <1>8 DEF BeginPending, TypeOK
<1>9. CASE SwapPending
  BY <1>9 DEF SwapPending, TypeOK
<1>10. CASE RunFunctor
  <2>1. Head(functors) \in Functors /\ Tail(functors) \in Seq(Functors)
    BY <1>10, HeadTailProperties DEF RunFunctor, TypeOK
  <2> QED
    BY <1>10, <2>1 DEF RunFunctor, TypeOK
<1>11. CASE CallbackReturns
  BY <1>11 DEF CallbackReturns, TypeOK
<1>12. CASE EndPending
  BY <1>12 DEF EndPending, TypeOK
<1>13. CASE OwnerQuit
  BY <1>13 DEF OwnerQuit, TypeOK
<1>14. ASSUME NEW f \in Functors, OwnerQueueInLoop(f) PROVE TypeOK'
  BY <1>14 DEF OwnerQueueInLoop, TypeOK
<1>15. ASSUME NEW t \in Threads, QuitRead(t) PROVE TypeOK'
  BY <1>15 DEF QuitRead, TypeOK
<1>16. ASSUME NEW t \in Threads, QuitStore(t) PROVE TypeOK'
  BY <1>16 DEF QuitStore, TypeOK
<1>17. ASSUME NEW t \in Threads, Wakeup(t) PROVE TypeOK'
  BY <1>17 DEF Wakeup, TypeOK
<1>18. ASSUME NEW t \in Threads, NEW f \in Functors, QueueInLoop(t, f)
       PROVE  TypeOK'
  BY <1>18 DEF QueueInLoop, AfterPush, TypeOK
<1>19. CASE UNCHANGED vars
  BY <1>19 DEF vars, TypeOK
<1> QED
  BY <1>1, <1>2, <1>3, <1>4, <1>5, <1>6, <1>7, <1>8, <1>9, <1>10, <1>11, <1>12,
     <1>13, <1>14, <1>15, <1>16, <1>17, <1>18, <1>19
     DEF Next, LoopStep, OwnerCall, ThreadCall

\* Every variable of the loop keeps its type, whatever the threads do.
THEOREM TypeCorrect == Spec => []TypeOK
<1>1. Init => TypeOK
  BY InitType
<1> QED
  BY <1>1, TypeStep, PTL DEF Spec

-----------------------------------------------------------------------------
\* No step brings the flags of the owner thread out of step with its place in
\* loop(); user code, and so queueInLoop() of the owner, runs in handleEvent(),
\* in a functor or outside loop() only.
LEMMA FlagsStep == TypeOK /\ FlagsAgree /\ [Next]_vars => FlagsAgree'
<1> SUFFICES ASSUME TypeOK, FlagsAgree, [Next]_vars PROVE FlagsAgree'
  OBVIOUS
<1> USE NoCallbackAssumption DEF FlagsAgree
<1>1. CASE Loop
  BY <1>1 DEF Loop, TypeOK
<1>2. CASE ClearQuit
  BY <1>2 DEF ClearQuit, TypeOK
<1>3. CASE TestQuit
  BY <1>3 DEF TestQuit, TypeOK
<1>4. CASE PollReady
  BY <1>4 DEF PollReady, TypeOK
<1>5. CASE PollTimeout
  BY <1>5 DEF PollTimeout, TypeOK
<1>6. CASE HandleRead
  BY <1>6 DEF HandleRead, TypeOK
<1>7. CASE HandleEvent
  BY <1>7 DEF HandleEvent, TypeOK
<1>8. CASE BeginPending
  BY <1>8 DEF BeginPending, TypeOK
<1>9. CASE SwapPending
  BY <1>9 DEF SwapPending, TypeOK
<1>10. CASE RunFunctor
  BY <1>10 DEF RunFunctor, TypeOK
<1>11. CASE CallbackReturns
  BY <1>11 DEF CallbackReturns, TypeOK
<1>12. CASE EndPending
  BY <1>12 DEF EndPending, TypeOK
<1>13. CASE OwnerQuit
  BY <1>13 DEF OwnerQuit, TypeOK
<1>14. ASSUME NEW f \in Functors, OwnerQueueInLoop(f) PROVE FlagsAgree'
  BY <1>14 DEF OwnerQueueInLoop, TypeOK
<1>15. ASSUME NEW t \in Threads,
              QuitRead(t) \/ QuitStore(t) \/ Wakeup(t)
                \/ \E f \in Functors : QueueInLoop(t, f)
       PROVE  FlagsAgree'
  BY <1>15 DEF QuitRead, QuitStore, Wakeup, QueueInLoop
<1>16. CASE UNCHANGED vars
  BY <1>16 DEF vars
<1> QED
  BY <1>1, <1>2, <1>3, <1>4, <1>5, <1>6, <1>7, <1>8, <1>9, <1>10, <1>11, <1>12,
     <1>13, <1>14, <1>15, <1>16
     DEF Next, LoopStep, OwnerCall, ThreadCall

\* Wherever functors wait without the swap being still ahead, a wakeup is due:
\* a push by another thread is followed by its write, a push by a functor
\* writes at once, a push by an I/O callback comes before the swap, and the
\* eventfd is drained only before the swap.
LEMMA WakeupStep == IInv /\ [Next]_vars => WakeupCovers'
<1> SUFFICES ASSUME IInv, [Next]_vars PROVE WakeupCovers'
  OBVIOUS
<1> USE NoCallbackAssumption DEF IInv, FlagsAgree, WakeupCovers, WakeupDue
<1>1. CASE Loop
  BY <1>1 DEF Loop, TypeOK
<1>2. CASE ClearQuit
  BY <1>2 DEF ClearQuit, TypeOK
<1>3. CASE TestQuit
  BY <1>3 DEF TestQuit, TypeOK
<1>4. CASE PollReady
  BY <1>4 DEF PollReady, TypeOK
<1>5. CASE PollTimeout
  BY <1>5 DEF PollTimeout, TypeOK
<1>6. CASE HandleRead
  BY <1>6 DEF HandleRead, TypeOK
<1>7. CASE HandleEvent
  BY <1>7 DEF HandleEvent, TypeOK
<1>8. CASE BeginPending
  BY <1>8 DEF BeginPending, TypeOK
<1>9. CASE SwapPending
  BY <1>9, ElementsEmpty DEF SwapPending, TypeOK
<1>10. CASE RunFunctor
  BY <1>10 DEF RunFunctor, TypeOK
<1>11. CASE CallbackReturns
  BY <1>11 DEF CallbackReturns, TypeOK
<1>12. CASE EndPending
  BY <1>12 DEF EndPending, TypeOK
<1>13. CASE OwnerQuit
  BY <1>13 DEF OwnerQuit, TypeOK
<1>14. ASSUME NEW f \in Functors, OwnerQueueInLoop(f) PROVE WakeupCovers'
  <2>1. Elements(pending') = Elements(pending) \cup {f}
    BY <1>14, ElementsAppend DEF OwnerQueueInLoop, TypeOK
  <2>2. CASE pc = "idle"
    BY <1>14, <2>1, <2>2 DEF OwnerQueueInLoop, OwnerWakes, TypeOK
  <2>3. CASE pc = "run"
    BY <1>14, <2>1, <2>3 DEF OwnerQueueInLoop, OwnerWakes, TypeOK
  <2>4. CASE pc = "handle"
    BY <1>14, <2>4 DEF OwnerQueueInLoop
  <2> QED
    BY <1>14, <2>2, <2>3, <2>4 DEF OwnerQueueInLoop, UserCode
<1>15. ASSUME NEW t \in Threads, QuitRead(t) PROVE WakeupCovers'
  BY <1>15 DEF QuitRead, TypeOK
<1>16. ASSUME NEW t \in Threads, QuitStore(t) PROVE WakeupCovers'
  BY <1>16 DEF QuitStore, TypeOK
<1>17. ASSUME NEW t \in Threads, Wakeup(t) PROVE WakeupCovers'
  BY <1>17 DEF Wakeup, TypeOK
<1>18. ASSUME NEW t \in Threads, NEW f \in Functors, QueueInLoop(t, f)
       PROVE  WakeupCovers'
  BY <1>18 DEF QueueInLoop, AfterPush, TypeOK
<1>19. CASE UNCHANGED vars
  BY <1>19 DEF vars
<1> QED
  BY <1>1, <1>2, <1>3, <1>4, <1>5, <1>6, <1>7, <1>8, <1>9, <1>10, <1>11, <1>12,
     <1>13, <1>14, <1>15, <1>16, <1>17, <1>18, <1>19
     DEF Next, LoopStep, OwnerCall, ThreadCall

\* The strengthened invariant holds in every reachable state.
LEMMA Inductive == Spec => []IInv
<1>1. Init => IInv
  BY InitType, ElementsEmpty DEF Init, IInv, FlagsAgree, WakeupCovers
<1>2. IInv /\ [Next]_vars => IInv'
  BY TypeStep, FlagsStep, WakeupStep DEF IInv
<1> QED
  BY <1>1, <1>2, PTL DEF Spec

\* No wakeup is lost: the owner never waits in epoll_wait for a functor that
\* no wakeup is due for, for any number of threads and functors.
THEOREM WakeupNeverLost == Spec => []NoLostWakeup
<1>1. IInv => NoLostWakeup
  BY DEF IInv, WakeupCovers, NoLostWakeup
<1> QED
  BY <1>1, Inductive, PTL

-----------------------------------------------------------------------------
(* The order of the functors.                                               *)

\* A push appends to the whole history of the queue.
LEMMA PushKeepsOrder ==
    ASSUME NEW r \in Seq(Functors), NEW c \in Seq(Functors),
           NEW p \in Seq(Functors), NEW f \in Functors
    PROVE  Append(r \o c \o p, f) = r \o c \o Append(p, f)
<1>1. r \o c \in Seq(Functors) /\ <<f>> \in Seq(Functors) /\ r \o c \o p \in Seq(Functors)
  BY ConcatProperties
<1>2. Append(r \o c \o p, f) = (r \o c \o p) \o <<f>>
  BY <1>1, AppendIsConcat
<1>3. Append(p, f) = p \o <<f>>
  BY AppendIsConcat
<1>4. ((r \o c) \o p) \o <<f>> = (r \o c) \o (p \o <<f>>)
  BY <1>1, ConcatAssociative, SMTT(30)
<1> QED
  BY <1>2, <1>3, <1>4

\* Running the first functor of the pass moves it to the end of what has run.
LEMMA RunKeepsOrder ==
    ASSUME NEW S, NEW r \in Seq(S), NEW c \in Seq(S), c # <<>>
    PROVE  Append(r, Head(c)) \o Tail(c) = r \o c
<1>1. /\ Head(c) \in S /\ Tail(c) \in Seq(S) /\ <<Head(c)>> \in Seq(S)
      /\ Len(c) \in Nat /\ Len(c) > 0 /\ Len(Tail(c)) = Len(c) - 1
      /\ \A i \in 1 .. (Len(c) - 1) : Tail(c)[i] = c[i + 1]
      /\ Head(c) = c[1]
  BY HeadTailProperties, EmptySeq, LenProperties
<1>2. /\ <<Head(c)>> \o Tail(c) \in Seq(S)
      /\ Len(<<Head(c)>> \o Tail(c)) = Len(c)
      /\ \A i \in 1 .. Len(c) : (<<Head(c)>> \o Tail(c))[i] = c[i]
  BY <1>1, ConcatProperties
<1>3. <<Head(c)>> \o Tail(c) = c
  BY <1>2, SeqEqual
<1>4. Append(r, Head(c)) = r \o <<Head(c)>>
  BY <1>1, AppendIsConcat
<1>5. (r \o <<Head(c)>>) \o Tail(c) = r \o (<<Head(c)>> \o Tail(c))
  BY <1>1, ConcatAssociative, SMTT(30)
<1> QED
  BY <1>3, <1>4, <1>5

\* Every step keeps the history of the queue in order.
LEMMA OrderStep == IInv /\ FunctorsInOrder /\ [Next]_vars => FunctorsInOrder'
<1> SUFFICES ASSUME IInv, FunctorsInOrder, [Next]_vars PROVE FunctorsInOrder'
  OBVIOUS
<1> USE DEF FunctorsInOrder
<1>1. CASE SwapPending
  <2>1. functors = <<>> /\ functors' = pending /\ pending' = <<>>
    BY <1>1 DEF SwapPending, IInv, FlagsAgree
  <2>2. ran \in Seq(Functors) /\ pending \in Seq(Functors)
    BY DEF IInv, TypeOK
  <2>3. ran \o <<>> = ran /\ (ran \o pending) \o <<>> = ran \o pending
    BY <2>2, ConcatEmptySeq, ConcatProperties
  <2> QED
    BY <1>1, <2>1, <2>3 DEF SwapPending
<1>2. CASE RunFunctor
  <2>1. Append(ran, Head(functors)) \o Tail(functors) = ran \o functors
    BY <1>2, RunKeepsOrder DEF RunFunctor, IInv, TypeOK
  <2> QED
    BY <1>2, <2>1 DEF RunFunctor
<1>3. ASSUME NEW f \in Functors,
             OwnerQueueInLoop(f) \/ \E t \in Threads : QueueInLoop(t, f)
      PROVE  FunctorsInOrder'
  <2>1. /\ queued' = Append(queued, f) /\ pending' = Append(pending, f)
        /\ ran' = ran /\ functors' = functors
    BY <1>3 DEF OwnerQueueInLoop, QueueInLoop
  <2>2. Append(ran \o functors \o pending, f)
          = ran \o functors \o Append(pending, f)
    <3>1. /\ ran \in Seq(Functors) /\ functors \in Seq(Functors)
          /\ pending \in Seq(Functors)
      BY DEF IInv, TypeOK
    <3> QED
      BY <3>1, PushKeepsOrder, ZenonT(60)
  <2> QED
    BY <2>1, <2>2
<1>4. CASE Loop \/ ClearQuit \/ TestQuit \/ PollReady \/ PollTimeout \/ HandleRead
           \/ HandleEvent \/ BeginPending \/ CallbackReturns \/ EndPending
           \/ OwnerQuit \/ UNCHANGED vars
  BY <1>4 DEF Loop, ClearQuit, TestQuit, PollReady, PollTimeout, HandleRead,
              HandleEvent, BeginPending, CallbackReturns, EndPending, OwnerQuit,
              vars
<1>5. ASSUME NEW t \in Threads, QuitRead(t) \/ QuitStore(t) \/ Wakeup(t)
      PROVE  FunctorsInOrder'
  BY <1>5 DEF QuitRead, QuitStore, Wakeup
<1> QED
  BY <1>1, <1>2, <1>3, <1>4, <1>5 DEF Next, LoopStep, OwnerCall, ThreadCall

\* Functors run in the order of the pushes of all threads, each at most once,
\* and none is dropped or overtaken by the swap.
THEOREM FunctorsStayInOrder == Spec => []FunctorsInOrder
<1>1. Init => FunctorsInOrder
  <2>1. <<>> \in Seq(Functors) /\ <<>> \o <<>> = <<>>
    BY ConcatEmptySeq, EmptySeq
  <2> QED
    BY <2>1 DEF Init, FunctorsInOrder
<1> QED
  BY <1>1, OrderStep, Inductive, PTL DEF Spec

-----------------------------------------------------------------------------
(* The queue of functors is a FIFO.                                         *)

\* What a sequence begins with is its prefix of that length.
LEMMA PrefixOfConcat ==
    ASSUME NEW S, NEW r \in Seq(S), NEW c \in Seq(S)
    PROVE  SubSeq(r \o c, 1, Len(r)) = r /\ Len(r) <= Len(r \o c)
<1>1. /\ r \o c \in Seq(S) /\ Len(r \o c) = Len(r) + Len(c)
      /\ \A i \in 1..Len(r) : (r \o c)[i] = r[i]
      /\ Len(r) \in Nat /\ Len(c) \in Nat
  BY ConcatProperties, LenProperties
<1>2. /\ SubSeq(r \o c, 1, Len(r)) \in Seq(S)
      /\ Len(SubSeq(r \o c, 1, Len(r))) = Len(r)
      /\ \A i \in 1..Len(r) : SubSeq(r \o c, 1, Len(r))[i] = (r \o c)[i]
  BY <1>1, SubSeqProperties
<1>3. SubSeq(r \o c, 1, Len(r)) = r
  BY <1>1, <1>2, SeqEqual
<1> QED
  BY <1>1, <1>3

\* The same for a sequence of three parts.
LEMMA PrefixOfThree ==
    ASSUME NEW S, NEW r \in Seq(S), NEW c \in Seq(S), NEW p \in Seq(S)
    PROVE  SubSeq((r \o c) \o p, 1, Len(r)) = r /\ Len(r) <= Len((r \o c) \o p)
<1>1. (r \o c) \o p = r \o (c \o p)
  BY ConcatAssociative, SMTT(30)
<1>2. c \o p \in Seq(S)
  BY ConcatProperties
<1> QED
  BY <1>1, <1>2, PrefixOfConcat

\* A functor that is started is the next of the queue.
LEMMA RunTakesNext ==
    IInv /\ FunctorsInOrder /\ RunFunctor => FunctorQueue!Get
<1> SUFFICES ASSUME IInv, FunctorsInOrder, RunFunctor PROVE FunctorQueue!Get
  OBVIOUS
<1>1. /\ ran \in Seq(Functors) /\ functors \in Seq(Functors) /\ pending \in Seq(Functors)
      /\ functors # <<>> /\ queued' = queued
      /\ ran' = Append(ran, Head(functors))
  BY DEF IInv, TypeOK, RunFunctor
<1>2. Append(ran, Head(functors)) \o Tail(functors) = ran \o functors
  BY <1>1, RunKeepsOrder
<1>3. /\ Head(functors) \in Functors /\ Tail(functors) \in Seq(Functors)
      /\ Append(ran, Head(functors)) \in Seq(Functors)
      /\ Len(Append(ran, Head(functors))) = Len(ran) + 1 /\ Len(ran) \in Nat
  BY <1>1, HeadTailProperties, AppendProperties, LenProperties
<1>5. queued = (ran' \o Tail(functors)) \o pending
  BY <1>1, <1>2 DEF FunctorsInOrder
<1>6. SubSeq(queued, 1, Len(ran')) = ran' /\ Len(ran') <= Len(queued)
  <2>1. /\ ran' \in Seq(Functors) /\ Tail(functors) \in Seq(Functors)
        /\ pending \in Seq(Functors)
    BY <1>1, <1>3
  <2>2. /\ SubSeq((ran' \o Tail(functors)) \o pending, 1, Len(ran')) = ran'
        /\ Len(ran') <= Len((ran' \o Tail(functors)) \o pending)
    BY <2>1, PrefixOfThree, ZenonT(60)
  <2> QED
    BY <1>5, <2>2, ZenonT(60)
<1>7. Len(queued) \in Nat
  BY LenProperties DEF IInv, TypeOK
<1>8. Len(ran') = Len(ran) + 1
  BY <1>1, <1>3
<1>9. Len(ran) + 1 \in Len(ran) + 1 .. Len(queued)
  BY <1>3, <1>6, <1>7, <1>8
<1>10. ran' = SubSeq(queued, 1, Len(ran) + 1)
  BY <1>6, <1>8
<1> QED
  BY <1>1, <1>9, <1>10 DEF FunctorQueue!Get

\* Every step of the loop and of its callers is a step of the FIFO or none.
LEMMA FifoStep ==
    IInv /\ FunctorsInOrder /\ [Next]_vars
        => [FunctorQueue!Put \/ FunctorQueue!Get]_<<queued, ran>>
<1> SUFFICES ASSUME IInv, FunctorsInOrder, [Next]_vars
             PROVE  \/ FunctorQueue!Put \/ FunctorQueue!Get
                    \/ UNCHANGED <<queued, ran>>
  OBVIOUS
<1>1. CASE RunFunctor
  BY <1>1, RunTakesNext
<1>2. ASSUME NEW f \in Functors,
             OwnerQueueInLoop(f) \/ \E t \in Threads : QueueInLoop(t, f)
      PROVE  FunctorQueue!Put
  BY <1>2 DEF OwnerQueueInLoop, QueueInLoop, FunctorQueue!Put
<1>3. CASE Loop \/ ClearQuit \/ TestQuit \/ PollReady \/ PollTimeout \/ HandleRead
           \/ HandleEvent \/ BeginPending \/ SwapPending \/ CallbackReturns
           \/ EndPending \/ OwnerQuit \/ UNCHANGED vars
  BY <1>3 DEF Loop, ClearQuit, TestQuit, PollReady, PollTimeout, HandleRead,
              HandleEvent, BeginPending, SwapPending, CallbackReturns, EndPending,
              OwnerQuit, vars
<1>4. ASSUME NEW t \in Threads, QuitRead(t) \/ QuitStore(t) \/ Wakeup(t)
      PROVE  UNCHANGED <<queued, ran>>
  BY <1>4 DEF QuitRead, QuitStore, Wakeup
<1> QED
  BY <1>1, <1>2, <1>3, <1>4 DEF Next, LoopStep, OwnerCall, ThreadCall

\* The functors of an EventLoop, pushed by any number of threads and taken out
\* by doPendingFunctors() a pass at a time, are a FIFO.
THEOREM FunctorsImplementFifo == Spec => FunctorsAreFifo
<1>1. Init => FunctorQueue!FifoInit
  BY DEF Init, FunctorQueue!FifoInit
<1> QED
  BY <1>1, FifoStep, Inductive, FunctorsStayInOrder, PTL
     DEF Spec, FunctorsAreFifo, FunctorQueue!FifoSpec

=============================================================================
