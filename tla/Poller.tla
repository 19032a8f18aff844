------------------------------- MODULE Poller --------------------------------
(***************************************************************************)
(* Channel and EpollPoller (pallette/Channel.cpp, EpollPoller.cpp) under   *)
(* the dispatch of EventLoop::loop() (EventLoop.cpp): what a channel wants *)
(* to hear of, what the poller's map and the kernel's epoll set hold, and  *)
(* the list of active channels that is worked off while callbacks change,  *)
(* remove and destroy channels.                                            *)
(*                                                                         *)
(* All of this runs in one thread.  What makes it hard is that a callback  *)
(* may operate on any channel, also on one that waits in the active list,  *)
(* and that the number of a closed descriptor is used again by the next    *)
(* channel.                                                                *)
(***************************************************************************)
EXTENDS Naturals, FiniteSets

CONSTANTS
    Channels,              \* Channel objects
    Fds,                   \* descriptor numbers
    NoChannel,             \* NULL
    InitEventListSize      \* kInitEventListSize, 16 in EpollPoller.h

ASSUME NoChannelAssumption == NoChannel \notin Channels
ASSUME FdsAssumption == "none" \notin Fds
ASSUME EventListAssumption == InitEventListSize \in Nat \ {0}

Read  == "read"            \* kReadEvent, EPOLLIN | EPOLLPRI
Write == "write"           \* kWriteEvent, EPOLLOUT
Interest == SUBSET {Read, Write}
NotRegistered == {"not registered"}

VARIABLES
    fd,           \* fd[c]: fd_ of the live channel c; "none" when c does not exist
    events,       \* events[c]: events_
    index,        \* index[c]: kNew, kAdded or kDeleted
    addedToLoop,  \* addedToLoop[c]: addedToLoop_
    channels,     \* channels_: descriptor -> channel, NoChannel when absent
    epoll,        \* kernel: channel -> interest registered for it
    pc,           \* where loop() is
    active,       \* activeChannels_
    todo,         \* those of activeChannels_ not handled yet
    current,      \* currentActiveChannel_
    eventList,    \* events_.size()
    failed        \* an assert() failed, or epoll_ctl failed fatally

vars == <<fd, events, index, addedToLoop, channels, epoll, pc, active, todo,
          current, eventList, failed>>

Exists(c) == fd[c] # "none"

Init ==
    /\ fd = [c \in Channels |-> "none"]
    /\ events = [c \in Channels |-> {}]
    /\ index = [c \in Channels |-> "kNew"]
    /\ addedToLoop = [c \in Channels |-> FALSE]
    /\ channels = [d \in Fds |-> NoChannel]
    /\ epoll = [c \in Channels |-> NotRegistered]
    /\ pc = "functors"
    /\ active = {}
    /\ todo = {}
    /\ current = NoChannel
    /\ eventList = InitEventListSize
    /\ failed = FALSE

-----------------------------------------------------------------------------
(* Wrong variants of definitions below, one plausible slip each.            *)

\* removeChannel() forgets channels_.erase().
MapUnchanged(c) == channels
\* updateChannel() does not step to kDeleted after EPOLL_CTL_DEL.
StaysAdded(c, ev) == "kAdded"
\* A callback may remove any channel at any time.
AlwaysRemovable(c) == TRUE

-----------------------------------------------------------------------------
(* EpollPoller::updateChannel and Channel::update.                          *)

\* The descriptor is in the kernel's set on behalf of some channel.
Registered(d) == \E c \in Channels : fd[c] = d /\ epoll[c] # NotRegistered

\* Which epoll_ctl operation updateChannel() issues.
Operation(c, ev) ==
    CASE index[c] \in {"kNew", "kDeleted"} -> "add"
      [] index[c] = "kAdded" /\ ev = {} -> "del"
      [] index[c] = "kAdded" /\ ev # {} -> "mod"

\* ... and the index it leaves behind.
NextIndex(c, ev) ==
    IF index[c] = "kAdded" /\ ev = {} THEN "kDeleted" ELSE "kAdded"

\* ... and what the kernel holds for the channel then.
RegisteredAfter(c, ev) ==
    IF Operation(c, ev) = "del" THEN NotRegistered ELSE ev

\* The assertions on channels_ before the operation.
UpdateAsserts(c) ==
    IF index[c] = "kNew" THEN channels[fd[c]] = NoChannel
                         ELSE channels[fd[c]] = c

\* epoll_ctl: ADD fails for a descriptor that is in the set, MOD and DEL for
\* one that is not; a failed ADD or MOD is fatal, a failed DEL is logged.
CtlFatal(c, op) ==
    \/ op = "add" /\ Registered(fd[c])
    \/ op = "mod" /\ epoll[c] = NotRegistered

\* events_ = ev; update(): Channel.cpp sets addedToLoop_ and calls down.
Update(c, ev) ==
    /\ events' = [events EXCEPT ![c] = ev]
    /\ addedToLoop' = [addedToLoop EXCEPT ![c] = TRUE]
    /\ channels' = IF index[c] = "kNew" THEN [channels EXCEPT ![fd[c]] = c]
                                        ELSE channels
    /\ index' = [index EXCEPT ![c] = NextIndex(c, ev)]
    /\ epoll' = [epoll EXCEPT ![c] = RegisteredAfter(c, ev)]
    /\ failed' = (\/ failed
                  \/ ~UpdateAsserts(c)
                  \/ CtlFatal(c, Operation(c, ev)))
    /\ UNCHANGED <<fd, pc, active, todo, current, eventList>>

-----------------------------------------------------------------------------
(* User code: callbacks of the channel being handled, and functors.         *)

UserCode == pc = "functors" \/ current # NoChannel

\* No other channel of its descriptor is in use.  There is one for a while
\* when the Connector hands its socket to a connection: its own channel, which
\* it has removed and will not enable again, lives until resetChannel().
SoleUser(c) ==
    \A other \in Channels \ {c} : fd[other] = fd[c] => ~addedToLoop[other]

\* A Channel is made for a socket, timerfd or eventfd: a new one, whose number
\* no channel in use has, or one that another channel was removed from.
Construct(c, d) ==
    /\ UserCode
    /\ ~Exists(c)
    /\ \A other \in Channels : fd[other] = d => ~addedToLoop[other]
    /\ fd' = [fd EXCEPT ![c] = d]
    /\ events' = [events EXCEPT ![c] = {}]
    /\ index' = [index EXCEPT ![c] = "kNew"]
    /\ addedToLoop' = [addedToLoop EXCEPT ![c] = FALSE]
    /\ UNCHANGED <<channels, epoll, pc, active, todo, current, eventList,
                   failed>>

Usable(c) == UserCode /\ Exists(c) /\ SoleUser(c)

EnableReading(c)  == Usable(c) /\ Update(c, events[c] \cup {Read})
DisableReading(c) == Usable(c) /\ Update(c, events[c] \ {Read})
EnableWriting(c)  == Usable(c) /\ Update(c, events[c] \cup {Write})
DisableWriting(c) == Usable(c) /\ Update(c, events[c] \ {Write})
DisableAll(c)     == Usable(c) /\ Update(c, {})

\* What EventLoop::removeChannel() asserts of its caller while channels are
\* being handled.
Removable(c) == pc = "handle" => c = current \/ c \notin active

\* What removeChannel() leaves in channels_, index_ and addedToLoop_.
MapAfterRemove(c) == [channels EXCEPT ![fd[c]] = NoChannel]
IndexAfterRemove(c) == "kNew"
AddedAfterRemove(c) == FALSE

\* Channel::remove(): the caller has disabled the channel, which was added,
\* and keeps the rule of EventLoop::removeChannel().
Remove(c) ==
    /\ UserCode
    /\ Exists(c)
    /\ addedToLoop[c]
    /\ events[c] = {}
    /\ Removable(c)
    /\ addedToLoop' = [addedToLoop EXCEPT ![c] = AddedAfterRemove(c)]
    /\ channels' = MapAfterRemove(c)
    /\ epoll' = [epoll EXCEPT ![c] = IF index[c] = "kAdded" THEN NotRegistered
                                                            ELSE @]
    /\ index' = [index EXCEPT ![c] = IndexAfterRemove(c)]
    /\ failed' = (\/ failed
                  \/ channels[fd[c]] # c
                  \/ index[c] \notin {"kAdded", "kDeleted"})
    /\ UNCHANGED <<fd, events, pc, active, todo, current, eventList>>

\* ~Channel(), whose assertions are the caller's duty except the last.  With
\* the channel goes the descriptor, unless another channel has taken it over;
\* close() would take it out of the epoll set.
Destroy(c) ==
    /\ UserCode
    /\ Exists(c)
    /\ c # current
    /\ ~addedToLoop[c]
    /\ fd' = [fd EXCEPT ![c] = "none"]
    /\ epoll' = [epoll EXCEPT ![c] = NotRegistered]
    /\ failed' = (failed \/ channels[fd[c]] = c)
    /\ UNCHANGED <<events, index, addedToLoop, channels, pc, active, todo,
                   current, eventList>>

-----------------------------------------------------------------------------
(* EventLoop::loop() and EpollPoller::poll().                               *)

\* resize() when epoll_wait filled the list.
EventListAfter(n) == IF n = eventList THEN 2 * eventList ELSE eventList

\* epoll_wait returns some of the registered channels, at most as many as the
\* event list holds.  EPOLLERR and EPOLLHUP are reported for any registered
\* descriptor, also when no event was asked for.
Poll ==
    /\ pc = "poll"
    /\ \E ready \in SUBSET {c \in Channels : epoll[c] # NotRegistered} :
          /\ Cardinality(ready) <= eventList
          /\ active' = ready
          /\ todo' = ready
          /\ eventList' = EventListAfter(Cardinality(ready))
    /\ pc' = "handle"
    /\ UNCHANGED <<fd, events, index, addedToLoop, channels, epoll, current,
                   failed>>

\* currentActiveChannel_ = channel; channel->handleEvent(), user code follows
HandleEvent(c) ==
    /\ pc = "handle"
    /\ c \in todo
    /\ current' = c
    /\ todo' = todo \ {c}
    /\ UNCHANGED <<fd, events, index, addedToLoop, channels, epoll, pc, active,
                   eventList, failed>>

\* the list is worked off: currentActiveChannel_ = NULL, doPendingFunctors()
EndHandling ==
    /\ pc = "handle"
    /\ todo = {}
    /\ current' = NoChannel
    /\ pc' = "functors"
    /\ UNCHANGED <<fd, events, index, addedToLoop, channels, epoll, active,
                   todo, eventList, failed>>

\* activeChannels_.clear() at the head of the next round
NextIteration ==
    /\ pc = "functors"
    /\ active' = {}
    /\ pc' = "poll"
    /\ UNCHANGED <<fd, events, index, addedToLoop, channels, epoll, todo,
                   current, eventList, failed>>

Next ==
    \/ Poll \/ EndHandling \/ NextIteration
    \/ \E c \in Channels :
         \/ \E d \in Fds : Construct(c, d)
         \/ EnableReading(c) \/ DisableReading(c)
         \/ EnableWriting(c) \/ DisableWriting(c) \/ DisableAll(c)
         \/ Remove(c) \/ Destroy(c) \/ HandleEvent(c)

Spec == Init /\ [][Next]_vars

-----------------------------------------------------------------------------
TypeOK ==
    /\ fd \in [Channels -> Fds \cup {"none"}]
    /\ events \in [Channels -> Interest]
    /\ index \in [Channels -> {"kNew", "kAdded", "kDeleted"}]
    /\ addedToLoop \in [Channels -> BOOLEAN]
    /\ channels \in [Fds -> Channels \cup {NoChannel}]
    /\ epoll \in [Channels -> Interest \cup {NotRegistered}]
    /\ pc \in {"poll", "handle", "functors"}
    /\ active \in SUBSET Channels
    /\ todo \in SUBSET active
    /\ current \in Channels \cup {NoChannel}
    /\ eventList \in Nat \ {0}
    /\ failed \in BOOLEAN

\* What the comments on kNew, kAdded and kDeleted say: kNew is in neither the
\* map nor the epoll set, kAdded is in both, kDeleted is in the map alone.
IndexMeansPlace ==
    \A c \in Channels : Exists(c) =>
        /\ index[c] # "kNew" <=> channels[fd[c]] = c
        /\ index[c] = "kAdded" <=> epoll[c] # NotRegistered

\* The kernel is asked for exactly the events the channel believes it is
\* listening to, and for none of a channel that is not registered.
KernelAgreesWithChannel ==
    \A c \in Channels : Exists(c) =>
        IF epoll[c] = NotRegistered THEN events[c] = {} ELSE epoll[c] = events[c]

\* The map and the rest of the active list hold no destroyed channel, so loop()
\* never calls handleEvent() through a dangling pointer, although callbacks
\* remove and destroy channels while the list is being worked off.
NoDanglingChannel ==
    /\ \A c \in todo : Exists(c)
    /\ current # NoChannel => Exists(current)
    /\ \A d \in Fds : channels[d] # NoChannel => fd[channels[d]] = d

\* No assertion of updateChannel(), removeChannel() or ~Channel() fails and
\* epoll_ctl meets no condition that aborts the process, in any order of
\* calls that disables before it removes and removes before it destroys.
NoAssertionFails == ~failed

=============================================================================
