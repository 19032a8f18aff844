---------------------------- MODULE Poller_proofs -----------------------------
(***************************************************************************)
(* Proofs about Poller for any set of channels and of descriptor numbers:  *)
(* the channel's index, the poller's map and the kernel's epoll set stay   *)
(* in agreement, loop() reaches no destroyed channel, and no assertion of  *)
(* EpollPoller or Channel fails.                                           *)
(***************************************************************************)
EXTENDS Poller, TLAPS

(* A descriptor number belongs to one channel in use, although a removed    *)
(* one may live on beside it.                                               *)
FdsUnique ==
    \A c, other \in Channels :
        Exists(c) /\ fd[c] = fd[other] /\ addedToLoop[c] /\ addedToLoop[other]
            => c = other

(* The kernel's set goes with the descriptor.                               *)
GoneUnregistered ==
    \A c \in Channels : ~Exists(c) => epoll[c] = NotRegistered

(* addedToLoop_ and index_ tell the same.                                   *)
AddedMeansIndexed ==
    \A c \in Channels : Exists(c) => (addedToLoop[c] <=> index[c] # "kNew")

(* The channels that loop() has still to handle are registered, so that     *)
(* neither Destroy nor, by the rule of EventLoop::removeChannel(), Remove   *)
(* can take one of them.                                                    *)
TodoAdded ==
    /\ \A c \in todo : addedToLoop[c] /\ c # current
    /\ todo # {} \/ current # NoChannel => pc = "handle"

IInv ==
    /\ TypeOK /\ FdsUnique /\ GoneUnregistered /\ AddedMeansIndexed /\ TodoAdded
    /\ IndexMeansPlace /\ KernelAgreesWithChannel /\ NoDanglingChannel
    /\ NoAssertionFails

-----------------------------------------------------------------------------
\* The five operations on events_ keep the invariant: Channel::update() and
\* EpollPoller::updateChannel() on a live channel.
LEMMA UpdateStep ==
    ASSUME IInv, NEW c \in Channels, Exists(c), SoleUser(c), NEW ev \in Interest,
           Update(c, ev)
    PROVE  IInv'
<1> USE NoChannelAssumption, FdsAssumption DEF IInv, Exists
<1>1. fd[c] \in Fds /\ index[c] \in {"kNew", "kAdded", "kDeleted"}
  BY DEF TypeOK
<1>0. \A other \in Channels \ {c} :
         fd[other] = fd[c] => index[other] = "kNew" /\ ~addedToLoop[other]
  BY DEF SoleUser, AddedMeansIndexed
<1>2. NotRegistered \notin Interest
  BY DEF NotRegistered, Interest, Read, Write
<1>3. UpdateAsserts(c)
  BY <1>1, <1>0 DEF UpdateAsserts, TypeOK, IndexMeansPlace, NoDanglingChannel
<1>4. ~CtlFatal(c, Operation(c, ev))
  BY <1>1, <1>0 DEF CtlFatal, Operation, Registered, IndexMeansPlace
<1>5. /\ NextIndex(c, ev) = IF RegisteredAfter(c, ev) = NotRegistered
                            THEN "kDeleted" ELSE "kAdded"
      /\ RegisteredAfter(c, ev) = NotRegistered => ev = {}
      /\ RegisteredAfter(c, ev) # NotRegistered => RegisteredAfter(c, ev) = ev
  BY <1>1, <1>2 DEF NextIndex, RegisteredAfter, Operation
<1>6. UNCHANGED <<fd, pc, active, todo, current, eventList>>
  BY DEF Update
<1>7. TypeOK'
  BY <1>1, <1>5, <1>6 DEF Update, TypeOK
<1>8. FdsUnique' /\ GoneUnregistered'
  BY <1>0, <1>6 DEF Update, FdsUnique, GoneUnregistered, TypeOK
<1>9. AddedMeansIndexed' /\ TodoAdded'
  BY <1>5, <1>6 DEF Update, AddedMeansIndexed, TodoAdded, TypeOK
<1>10. channels' = [channels EXCEPT ![fd[c]] = c]
  <2>1. CASE index[c] = "kNew"
    BY <2>1 DEF Update
  <2>2. CASE index[c] # "kNew"
    <3>1. channels' = channels /\ channels \in [Fds -> Channels \cup {NoChannel}]
      BY <2>2 DEF Update, TypeOK
    <3>2. channels[fd[c]] = c
      BY <1>1, <2>2 DEF IndexMeansPlace
    <3> QED
      BY <3>1, <3>2
  <2> QED
    BY <2>1, <2>2
<1>11. IndexMeansPlace'
  BY <1>0, <1>1, <1>5, <1>6, <1>10 DEF Update, IndexMeansPlace, TypeOK
<1>12. KernelAgreesWithChannel'
  BY <1>5, <1>6 DEF Update, KernelAgreesWithChannel, TypeOK
<1>13. NoDanglingChannel'
  BY <1>1, <1>6, <1>10 DEF NoDanglingChannel, TypeOK
<1>14. NoAssertionFails'
  BY <1>3, <1>4 DEF Update, NoAssertionFails
<1> QED
  BY <1>7, <1>8, <1>9, <1>11, <1>12, <1>13, <1>14

\* A channel made for a descriptor number that no channel in use has.
LEMMA ConstructStep ==
    ASSUME IInv, NEW c \in Channels, NEW d \in Fds, Construct(c, d)
    PROVE  IInv'
<1> USE NoChannelAssumption, FdsAssumption DEF IInv, Exists
<1>1. TypeOK'
  BY DEF Construct, TypeOK, Interest
<1>2. FdsUnique' /\ GoneUnregistered'
  BY DEF Construct, FdsUnique, GoneUnregistered, TypeOK
<1>3. AddedMeansIndexed' /\ TodoAdded'
  BY DEF Construct, AddedMeansIndexed, TodoAdded, NoDanglingChannel, TypeOK
<1>4. channels[d] # c
  BY DEF Construct, NoDanglingChannel, TypeOK
<1>5. IndexMeansPlace'
  BY <1>4 DEF Construct, IndexMeansPlace, GoneUnregistered, TypeOK
<1>6. KernelAgreesWithChannel'
  BY DEF Construct, KernelAgreesWithChannel, GoneUnregistered, TypeOK
<1>7. NoDanglingChannel'
  BY DEF Construct, NoDanglingChannel, TypeOK
<1>8. NoAssertionFails'
  BY DEF Construct, NoAssertionFails
<1> QED
  BY <1>1, <1>2, <1>3, <1>5, <1>6, <1>7, <1>8

\* Channel::remove() of a disabled channel that loop() does not still have to
\* handle.
LEMMA RemoveStep ==
    ASSUME IInv, NEW c \in Channels, Remove(c)
    PROVE  IInv'
<1> USE NoChannelAssumption, FdsAssumption
        DEF IInv, Exists, MapAfterRemove, IndexAfterRemove, AddedAfterRemove
<1>1. fd[c] \in Fds /\ index[c] \in {"kAdded", "kDeleted"} /\ channels[fd[c]] = c
  BY DEF Remove, TypeOK, AddedMeansIndexed, IndexMeansPlace
<1>2. /\ UNCHANGED <<fd, events, pc, active, todo, current, eventList>>
      /\ events[c] = {}
      /\ epoll' = [epoll EXCEPT ![c] = NotRegistered]
  BY <1>1 DEF Remove, IndexMeansPlace, TypeOK
<1>3. TypeOK'
  BY <1>1, <1>2 DEF Remove, TypeOK
<1>4. FdsUnique' /\ GoneUnregistered'
  BY <1>2 DEF Remove, FdsUnique, GoneUnregistered, TypeOK
<1>5. c \notin todo
  BY DEF Remove, Removable, TodoAdded, TypeOK
<1>6. AddedMeansIndexed' /\ TodoAdded'
  BY <1>2, <1>5 DEF Remove, AddedMeansIndexed, TodoAdded, TypeOK
<1>7. IndexMeansPlace'
  BY <1>1, <1>2 DEF Remove, IndexMeansPlace, TypeOK
<1>8. KernelAgreesWithChannel'
  BY <1>2 DEF KernelAgreesWithChannel, TypeOK
<1>9. NoDanglingChannel'
  BY <1>1, <1>2 DEF Remove, NoDanglingChannel, TypeOK
<1>10. NoAssertionFails'
  BY <1>1 DEF Remove, NoAssertionFails
<1> QED
  BY <1>3, <1>4, <1>6, <1>7, <1>8, <1>9, <1>10

\* ~Channel() of a channel that was removed, and close() of its descriptor.
LEMMA DestroyStep ==
    ASSUME IInv, NEW c \in Channels, Destroy(c)
    PROVE  IInv'
<1> USE NoChannelAssumption, FdsAssumption DEF IInv, Exists
<1>1. /\ fd[c] \in Fds /\ index[c] = "kNew" /\ channels[fd[c]] # c
      /\ c # current /\ c \notin todo
  BY DEF Destroy, TypeOK, AddedMeansIndexed, IndexMeansPlace, TodoAdded
<1>2. /\ UNCHANGED <<events, index, addedToLoop, channels, pc, active, todo,
                     current, eventList>>
      /\ fd' = [fd EXCEPT ![c] = "none"]
      /\ epoll' = [epoll EXCEPT ![c] = NotRegistered]
  BY DEF Destroy
<1>3. TypeOK'
  BY <1>2 DEF TypeOK, Destroy
<1>4. FdsUnique' /\ GoneUnregistered'
  BY <1>2 DEF FdsUnique, GoneUnregistered, TypeOK
<1>5. AddedMeansIndexed' /\ TodoAdded'
  BY <1>2 DEF AddedMeansIndexed, TodoAdded, TypeOK
<1>6. IndexMeansPlace' /\ KernelAgreesWithChannel'
  BY <1>2 DEF IndexMeansPlace, KernelAgreesWithChannel, TypeOK
<1>7. NoDanglingChannel'
  <2>1. \A d \in Fds : channels[d] # c
    BY <1>1 DEF NoDanglingChannel
  <2> QED
    BY <1>1, <1>2, <2>1 DEF NoDanglingChannel, TypeOK
<1>8. NoAssertionFails'
  BY <1>1 DEF Destroy, NoAssertionFails
<1> QED
  BY <1>3, <1>4, <1>5, <1>6, <1>7, <1>8

\* The steps of loop() itself: epoll_wait, the walk over the active channels
\* and the functors.
LEMMA LoopStep ==
    ASSUME IInv,
           Poll \/ EndHandling \/ NextIteration
             \/ \E c \in Channels : HandleEvent(c)
    PROVE  IInv'
<1> USE NoChannelAssumption, FdsAssumption DEF IInv, Exists
<1>1. CASE Poll
  <2> PICK ready \in SUBSET {c \in Channels : epoll[c] # NotRegistered} :
        /\ active' = ready /\ todo' = ready
        /\ eventList' \in {eventList, 2 * eventList}
    BY <1>1 DEF Poll, EventListAfter
  <2>1. \A c \in ready : c \in Channels /\ fd[c] # "none" /\ addedToLoop[c]
    BY DEF GoneUnregistered, IndexMeansPlace, AddedMeansIndexed, TypeOK
  <2>2. TypeOK'
    BY <1>1 DEF Poll, TypeOK
  <2>3. TodoAdded'
    BY <1>1, <2>1 DEF Poll, TodoAdded
  <2>4. NoDanglingChannel'
    BY <1>1, <2>1 DEF Poll, NoDanglingChannel
  <2> QED
    BY <1>1, <2>2, <2>3, <2>4
       DEF Poll, FdsUnique, GoneUnregistered, AddedMeansIndexed, IndexMeansPlace,
           KernelAgreesWithChannel, NoAssertionFails
<1>2. ASSUME NEW c \in Channels, HandleEvent(c) PROVE IInv'
  <2>1. TypeOK' /\ TodoAdded' /\ NoDanglingChannel'
    BY <1>2 DEF HandleEvent, TypeOK, TodoAdded, NoDanglingChannel
  <2> QED
    BY <1>2, <2>1
       DEF HandleEvent, FdsUnique, GoneUnregistered, AddedMeansIndexed,
           IndexMeansPlace, KernelAgreesWithChannel, NoAssertionFails
<1>3. CASE EndHandling \/ NextIteration
  <2>1. TypeOK' /\ TodoAdded' /\ NoDanglingChannel'
    BY <1>3 DEF EndHandling, NextIteration, TypeOK, TodoAdded, NoDanglingChannel
  <2> QED
    BY <1>3, <2>1
       DEF EndHandling, NextIteration, FdsUnique, GoneUnregistered,
           AddedMeansIndexed, IndexMeansPlace, KernelAgreesWithChannel,
           NoAssertionFails
<1> QED
  BY <1>1, <1>2, <1>3

-----------------------------------------------------------------------------
\* The invariant holds in every reachable state.
LEMMA Inductive == Spec => []IInv
<1>1. Init => IInv
  <2> SUFFICES ASSUME Init PROVE IInv
    OBVIOUS
  <2> USE DEF Init, Exists
  <2>1. addedToLoop \in [Channels -> BOOLEAN]
    BY Zenon
  <2>2. TypeOK
    BY <2>1, EventListAssumption DEF TypeOK, Interest
  <2> QED
    BY <2>2 DEF IInv, FdsUnique, GoneUnregistered, AddedMeansIndexed, TodoAdded,
           IndexMeansPlace, KernelAgreesWithChannel, NoDanglingChannel,
           NoAssertionFails
<1>2. IInv /\ [Next]_vars => IInv'
  <2> SUFFICES ASSUME IInv, [Next]_vars PROVE IInv'
    OBVIOUS
  <2>1. ASSUME NEW c \in Channels,
               EnableReading(c) \/ DisableReading(c) \/ EnableWriting(c)
                 \/ DisableWriting(c) \/ DisableAll(c)
        PROVE  IInv'
    <3>1. \A e \in {Read, Write} :
             events[c] \cup {e} \in Interest /\ events[c] \ {e} \in Interest
      BY DEF IInv, TypeOK, Interest
    <3>2. {} \in Interest
      BY DEF Interest
    <3> QED
      BY <2>1, <3>1, <3>2, UpdateStep
         DEF Usable, EnableReading, DisableReading, EnableWriting, DisableWriting,
             DisableAll
  <2>2. CASE UNCHANGED vars
    BY <2>2 DEF vars, IInv, TypeOK, FdsUnique, GoneUnregistered,
        AddedMeansIndexed, TodoAdded, IndexMeansPlace, KernelAgreesWithChannel,
        NoDanglingChannel, NoAssertionFails, Exists
  <2> QED
    BY <2>1, <2>2, ConstructStep, RemoveStep, DestroyStep, LoopStep DEF Next
<1> QED
  BY <1>1, <1>2, PTL DEF Spec

\* Every variable keeps its type, and the event list never becomes empty.
THEOREM TypeCorrect == Spec => []TypeOK
<1>1. IInv => TypeOK
  BY DEF IInv
<1> QED
  BY <1>1, Inductive, PTL

\* kNew, kAdded and kDeleted mean what EpollPoller.cpp says of them, and the
\* kernel is asked for exactly what the channel believes it listens to.
THEOREM IndexAndKernelAgree == Spec => [](IndexMeansPlace /\ KernelAgreesWithChannel)
<1>1. IInv => IndexMeansPlace /\ KernelAgreesWithChannel
  BY DEF IInv
<1> QED
  BY <1>1, Inductive, PTL

\* loop() and the poller's map reach no destroyed channel, when callers keep
\* the rules that remove() and ~Channel() assert.
THEOREM NeverDangling == Spec => []NoDanglingChannel
<1>1. IInv => NoDanglingChannel
  BY DEF IInv
<1> QED
  BY <1>1, Inductive, PTL

\* No assertion on the map and no fatal epoll_ctl, in any order of the calls
\* that disables before it removes and removes before it destroys.
THEOREM AssertionsHold == Spec => []NoAssertionFails
<1>1. IInv => NoAssertionFails
  BY DEF IInv
<1> QED
  BY <1>1, Inductive, PTL

=============================================================================
