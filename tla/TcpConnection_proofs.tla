------------------------ MODULE TcpConnection_proofs ------------------------
(***************************************************************************)
(* Proofs about TcpConnection for any number of threads and messages, any  *)
(* length of a message and any high water mark.                            *)
(***************************************************************************)
EXTENDS TcpConnection, SequenceTheorems, TLAPS

Message == Messages \cup {NoMessage}
Unit == Message \X (1..MsgLen)

(* What may stand in pendingFunctors_.                                      *)
FunctorName == Calls \cup {"none", "connectEstablished", "connectDestroyed",
                           "writeComplete", "highWaterMark"}
Entry == FunctorName \X Message

TypeOK ==
    /\ state \in {"kConnecting", "kConnected", "kDisconnecting", "kDisconnected"}
    /\ events \subseteq {"read", "write"}
    /\ index \in {"kNew", "kAdded", "kDeleted"}
    /\ output \in Seq(Unit) /\ written \in Seq(Unit) /\ accepted \in Seq(Unit)
    /\ pending \in Seq(Entry) /\ batch \in Seq(Entry)
    /\ tpc \in [Threads -> (Calls \cup {"none"}) \X {"out", "store", "push"} \X Message]
    /\ removing \in Nat /\ ups \in Nat /\ downs \in Nat

-----------------------------------------------------------------------------
(* Buffers.                                                                 *)

\* A message is a sequence of its units.
LEMMA UnitsType ==
    ASSUME NEW m \in Message
    PROVE  Units(m) \in Seq(Unit) /\ Len(Units(m)) = MsgLen /\ Units(m) # <<>>
<1>1. MsgLen \in Nat /\ MsgLen > 0
  BY CallsAssumption
<1>2. Units(m) \in [1..MsgLen -> Unit]
  BY DEF Units, Unit
<1>3. Units(m) \in Seq(Unit)
  BY <1>1, <1>2, IsASeq DEF Units
<1>4. Len(Units(m)) = MsgLen
  BY <1>1, <1>2, <1>3, LenProperties DEF Units
<1> QED
  BY <1>1, <1>3, <1>4, EmptySeq

\* What a write takes from a buffer and what retrieve() leaves make it up.
LEMMA SplitBuffer ==
    ASSUME NEW S, NEW s \in Seq(S), NEW n \in 0..Len(s)
    PROVE  /\ SubSeq(s, 1, n) \in Seq(S) /\ From(s, n) \in Seq(S)
           /\ SubSeq(s, 1, n) \o From(s, n) = s
           /\ Len(From(s, n)) = Len(s) - n
<1>1. Len(s) \in Nat
  BY LenProperties
<1>2. /\ SubSeq(s, 1, n) \in Seq(S) /\ Len(SubSeq(s, 1, n)) = n
      /\ \A i \in 1..n : SubSeq(s, 1, n)[i] = s[i]
  BY <1>1, SubSeqProperties
<1>3. /\ From(s, n) \in Seq(S) /\ Len(From(s, n)) = Len(s) - n
      /\ \A i \in 1..(Len(s) - n) : From(s, n)[i] = s[n + i]
  BY <1>1, SubSeqProperties DEF From
<1>4. 1 \in 1..Len(s) + 1 /\ n \in (1 - 1)..Len(s) /\ Len(s) \in n..Len(s)
  BY <1>1
<1>5. SubSeq(s, 1, n) \o From(s, n) = SubSeq(s, 1, Len(s))
  BY <1>4, ConcatAdjacentSubSeq, Zenon DEF From
<1> QED
  BY <1>2, <1>3, <1>5, SubSeqFull

\* A write of n units moves them from the front of what waits to the end of
\* what the socket took.
LEMMA WriteKeepsStream ==
    ASSUME NEW S, NEW w \in Seq(S), NEW s \in Seq(S), NEW n \in 0..Len(s)
    PROVE  /\ w \o SubSeq(s, 1, n) \in Seq(S)
           /\ (w \o SubSeq(s, 1, n)) \o From(s, n) = w \o s
<1>1. SubSeq(s, 1, n) \in Seq(S) /\ From(s, n) \in Seq(S)
  BY SplitBuffer
<1>2. SubSeq(s, 1, n) \o From(s, n) = s
  BY SplitBuffer
<1>3. \A a, b \in Seq(S) : (w \o a) \o b = w \o (a \o b)
  BY ConcatAssociative
<1>4. (w \o SubSeq(s, 1, n)) \o From(s, n) = w \o (SubSeq(s, 1, n) \o From(s, n))
  BY <1>1, <1>3, Zenon
<1> QED
  BY <1>1, <1>2, <1>4, ConcatProperties

\* A send queues at most one functor, writeComplete or highWaterMark.
LEMMA HighWaterAppends ==
    ASSUME TypeOK, NEW old, NEW new
    PROVE  \/ pending \o HighWaterFunctors(old, new) = pending
           \/ pending \o HighWaterFunctors(old, new)
                = Append(pending, <<"highWaterMark", NoMessage>>)
<1>1. pending \in Seq(Entry) /\ <<"highWaterMark", NoMessage>> \in Entry
  BY DEF TypeOK, Entry, FunctorName, Message
<1>2. CASE HighWaterFunctors(old, new) = <<>>
  BY <1>1, <1>2, ConcatEmptySeq
<1>3. CASE HighWaterFunctors(old, new) = <<<<"highWaterMark", NoMessage>>>>
  BY <1>1, <1>3, AppendIsConcat
<1> QED
  BY <1>2, <1>3 DEF HighWaterFunctors

QueuesAtMost(f, g) ==
    \/ pending' = pending
    \/ pending' = Append(pending, <<f, NoMessage>>)
    \/ pending' = Append(pending, <<g, NoMessage>>)

\* What sendInLoop() does: it keeps the stream, listens for EPOLLOUT when it
\* buffers something, and queues at most one functor.
LEMMA SendEffect ==
    ASSUME TypeOK, StreamIntact, NEW m \in Message, SendInLoop(m)
    PROVE  /\ output' \in Seq(Unit) /\ written' \in Seq(Unit) /\ accepted' \in Seq(Unit)
           /\ written' \o output' = accepted'
           /\ QueuesAtMost("writeComplete", "highWaterMark")
           /\ \/ UNCHANGED <<events, index>>
              \/ events' = events \cup {"write"} /\ index' = "kAdded"
           /\ state = "kDisconnected" => UNCHANGED <<events, index, output>>
           /\ (IsWriting <=> output # <<>>) => ("write" \in events' <=> output' # <<>>)
<1>1. /\ Units(m) \in Seq(Unit) /\ Len(Units(m)) = MsgLen /\ Units(m) # <<>>
      /\ output \in Seq(Unit) /\ written \in Seq(Unit) /\ accepted \in Seq(Unit)
      /\ MsgLen \in Nat /\ written \o output = accepted
  BY UnitsType, CallsAssumption DEF TypeOK, StreamIntact
<1>2. CASE GiveUp(m)
  BY <1>1, <1>2 DEF GiveUp, QueuesAtMost, IsWriting
<1>3. CASE state # "kDisconnected" /\ WritesDirectly /\ WriteDirectly(m)
  <2>1. PICK n \in 0..MsgLen :
           /\ written' = written \o SubSeq(Units(m), 1, n)
           /\ accepted' = accepted \o Units(m)
           /\ output' = From(Units(m), n)
           /\ IF n = MsgLen
              THEN /\ pending' = Append(pending, <<"writeComplete", NoMessage>>)
                   /\ UNCHANGED <<events, index>>
              ELSE /\ events' = events \cup {"write"} /\ index' = "kAdded"
                   /\ pending' = pending \o HighWaterFunctors(0, MsgLen - n)
    BY <1>3 DEF WriteDirectly, Queue, Update
  <2>2. /\ output' \in Seq(Unit) /\ written' \in Seq(Unit)
        /\ written' \o output' = written \o Units(m)
        /\ Len(output') = MsgLen - n
    <3>1. n \in 0..Len(Units(m))
      BY <1>1
    <3>2. From(Units(m), n) \in Seq(Unit) /\ Len(From(Units(m), n)) = Len(Units(m)) - n
      BY <1>1, <3>1, SplitBuffer
    <3>3. \A w, s \in Seq(Unit) : \A k \in 0..Len(s) :
             /\ w \o SubSeq(s, 1, k) \in Seq(Unit)
             /\ (w \o SubSeq(s, 1, k)) \o From(s, k) = w \o s
      BY WriteKeepsStream
    <3>4. /\ written \o SubSeq(Units(m), 1, n) \in Seq(Unit)
          /\ (written \o SubSeq(Units(m), 1, n)) \o From(Units(m), n) = written \o Units(m)
      BY <1>1, <3>1, <3>3, Zenon
    <3> QED
      BY <1>1, <2>1, <3>2, <3>4
  <2>3. output = <<>> /\ ~IsWriting /\ written \o output = written
    BY <1>1, <1>3, ConcatEmptySeq DEF WritesDirectly
  <2>4. accepted' \in Seq(Unit) /\ written' \o output' = accepted'
    BY <1>1, <2>1, <2>2, <2>3, ConcatProperties
  <2>5. QueuesAtMost("writeComplete", "highWaterMark")
    BY <2>1, HighWaterAppends DEF QueuesAtMost
  <2>6. output' = <<>> <=> n = MsgLen
    BY <1>1, <2>1, <2>2, EmptySeq
  <2>7. "write" \in events' <=> output' # <<>>
    BY <2>1, <2>3, <2>6 DEF IsWriting
  <2> QED
    BY <1>3, <2>1, <2>2, <2>4, <2>5, <2>7
<1>4. CASE state # "kDisconnected" /\ ~WritesDirectly /\ BufferMessage(m)
  <2>1. /\ output' = output \o Units(m) /\ accepted' = accepted \o Units(m)
        /\ written' = written
        /\ pending' = pending \o HighWaterFunctors(Len(output), Len(output) + MsgLen)
        /\ \/ IsWriting /\ UNCHANGED <<events, index>>
           \/ events' = events \cup {"write"} /\ index' = "kAdded"
    BY <1>4 DEF BufferMessage, Buffered, Update
  <2>2. output' \in Seq(Unit) /\ accepted' \in Seq(Unit) /\ output' # <<>>
    BY <1>1, <2>1, ConcatProperties, ConcatSimplifications
  <2>3. written' \o output' = accepted'
    <3>1. \A a, b, d \in Seq(Unit) : (a \o b) \o d = a \o (b \o d)
      BY ConcatAssociative
    <3> QED
      BY <1>1, <2>1, <3>1
  <2>4. QueuesAtMost("writeComplete", "highWaterMark")
    BY <2>1, HighWaterAppends DEF QueuesAtMost
  <2> QED
    BY <1>1, <1>4, <2>1, <2>2, <2>3, <2>4 DEF IsWriting
<1> QED
  BY <1>2, <1>3, <1>4 DEF SendInLoop

\* What handleWrite() does: it keeps the stream and stops listening for
\* EPOLLOUT exactly when it has written the last unit.
LEMMA WriteEffect ==
    ASSUME TypeOK, StreamIntact, OnWrite
    PROVE  /\ output' \in Seq(Unit) /\ written' \in Seq(Unit) /\ accepted' = accepted
           /\ written' \o output' = accepted'
           /\ QueuesAtMost("writeComplete", "writeComplete")
           /\ \/ UNCHANGED <<events, index>>
              \/ /\ "write" \in events /\ events' = events \ {"write"}
                 /\ index' = IF index = "kAdded" /\ events' = {} THEN "kDeleted" ELSE "kAdded"
           /\ (IsWriting <=> output # <<>>) => ("write" \in events' <=> output' # <<>>)
<1>1. /\ output \in Seq(Unit) /\ written \in Seq(Unit) /\ Len(output) \in Nat
      /\ written \o output = accepted
  BY LenProperties DEF TypeOK, StreamIntact
<1>2. accepted' = accepted
  BY DEF OnWrite
<1>3. CASE UNCHANGED <<events, index, output, written, pending, finSent>>
  BY <1>1, <1>2, <1>3 DEF QueuesAtMost, IsWriting
<1>4. CASE /\ IsWriting /\ ~BrokenPipe
           /\ \E n \in 1..Len(output) :
                LET rest == From(output, n) IN
                /\ written' = written \o SubSeq(output, 1, n)
                /\ output' = rest
                /\ IF EventsAfterWrite(rest) = events
                   THEN UNCHANGED <<events, index>>
                   ELSE Update(EventsAfterWrite(rest))
                /\ IF rest = <<>> THEN Queue("writeComplete") ELSE UNCHANGED pending
                /\ finSent' = (finSent \/ ShutsDownAfterWrite(rest))
  <2>1. PICK n \in 1..Len(output) :
           /\ written' = written \o SubSeq(output, 1, n)
           /\ output' = From(output, n)
           /\ IF EventsAfterWrite(output') = events
              THEN UNCHANGED <<events, index>>
              ELSE Update(EventsAfterWrite(output'))
           /\ pending' = IF output' = <<>> THEN Append(pending, <<"writeComplete", NoMessage>>)
                                           ELSE pending
    BY <1>4 DEF Queue
  <2>2. n \in 0..Len(output)
    BY <1>1, <2>1
  <2>3. \A w, s \in Seq(Unit) : \A k \in 0..Len(s) :
           /\ w \o SubSeq(s, 1, k) \in Seq(Unit) /\ From(s, k) \in Seq(Unit)
           /\ (w \o SubSeq(s, 1, k)) \o From(s, k) = w \o s
    BY SplitBuffer, WriteKeepsStream, ZenonT(30)
  <2>4. /\ written \o SubSeq(output, 1, n) \in Seq(Unit) /\ From(output, n) \in Seq(Unit)
        /\ (written \o SubSeq(output, 1, n)) \o From(output, n) = written \o output
    BY <1>1, <2>2, <2>3, Zenon
  <2>5. /\ output' \in Seq(Unit) /\ written' \in Seq(Unit)
        /\ written' \o output' = accepted'
    BY <1>1, <1>2, <2>1, <2>4
  <2>6. QueuesAtMost("writeComplete", "writeComplete")
    BY <2>1 DEF QueuesAtMost
  <2>7. CASE output' = <<>>
    <3>1. events' = events \ {"write"} /\ "write" \in events
          /\ index' = IF index = "kAdded" /\ events' = {} THEN "kDeleted" ELSE "kAdded"
      BY <1>4, <2>1, <2>7 DEF EventsAfterWrite, Update, IsWriting
    <3> QED
      BY <1>2, <2>5, <2>6, <2>7, <3>1
  <2>8. CASE output' # <<>>
    <3>1. UNCHANGED <<events, index>> /\ "write" \in events
      BY <1>4, <2>1, <2>8 DEF EventsAfterWrite, IsWriting
    <3> QED
      BY <1>2, <2>5, <2>6, <2>8, <3>1
  <2> QED
    BY <2>7, <2>8
<1> QED
  BY <1>3, <1>4 DEF OnWrite

-----------------------------------------------------------------------------
(* Types and the stream, whatever threads and callbacks call.               *)

Base == TypeOK /\ StreamIntact

\* An entry that queueInLoop() appends is an entry.
LEMMA AppendEntry ==
    ASSUME NEW q \in Seq(Entry), NEW f \in FunctorName, NEW m \in Message
    PROVE  Append(q, <<f, m>>) \in Seq(Entry)
  BY AppendProperties DEF Entry

\* The functor at the head of the pass, and the rest.
LEMMA RunningTypes ==
    ASSUME TypeOK, NEW f, Running(f)
    PROVE  /\ batch' \in Seq(Entry) /\ batch' = Tail(batch) /\ batch # <<>>
           /\ Head(batch) \in Entry /\ Head(batch)[2] \in Message /\ Head(batch)[1] = f
           /\ tpc' = tpc /\ pc' = pc /\ todo' = todo
           /\ pc = "functors" /\ cb = "none" /\ ~failed
<1>1. /\ batch \in Seq(Entry) /\ batch # <<>> /\ batch' = Tail(batch)
      /\ Head(batch)[1] = f /\ tpc' = tpc /\ pc' = pc /\ todo' = todo
      /\ pc = "functors" /\ cb = "none" /\ ~failed
  BY DEF Running, TypeOK
<1>2. Head(batch) \in Entry /\ Tail(batch) \in Seq(Entry)
  BY <1>1, HeadTailProperties
<1> QED
  BY <1>1, <1>2 DEF Entry

\* handleClose(), connectDestroyed() and the end of a channel keep the types.
LEMMA CloseTypes ==
    ASSUME TypeOK, HandleClose \/ ConnectDestroyed
    PROVE  /\ state' \in {"kConnecting", "kConnected", "kDisconnecting", "kDisconnected"}
           /\ events' \subseteq {"read", "write"}
           /\ index' \in {"kNew", "kAdded", "kDeleted"}
           /\ downs' \in Nat
<1> DEFINE Down == /\ state' = "kDisconnected" /\ events' = {} /\ downs' = downs + 1
                   /\ index' = "kDeleted" \/ index' = "kAdded"
           Same == state' = state /\ events' = events /\ downs' = downs
<1>1. Down \/ (Same /\ index' = index) \/ (Same /\ index' = "kNew")
  BY Zenon DEF HandleClose, ConnectDestroyed, RemoveChannel, Update, EventsAfterClose
<1>2. CASE Down
  BY <1>2 DEF TypeOK
<1>3. CASE Same /\ index' = index
  BY <1>3 DEF TypeOK
<1>4. CASE Same /\ index' = "kNew"
  BY <1>4 DEF TypeOK
<1> QED
  BY <1>1, <1>2, <1>3, <1>4

\* A step of the loop thread's handlers keeps types and stream.
LEMMA HandlerBase == ASSUME Base, Handler PROVE Base'
<1> USE DEF Base
<1>1. CASE OnClose
  BY <1>1, CloseTypes DEF OnClose, TypeOK, StreamIntact, channelVars, dataVars, lifeVars
<1>2. CASE OnError
  BY <1>2 DEF OnError, TypeOK, StreamIntact, channelVars, dataVars, lifeVars
<1>3. CASE OnRead
  <2>1. /\ UNCHANGED <<output, written, accepted, pending, batch, tpc, removing, ups>>
        /\ HandleClose \/ UNCHANGED <<state, events, index, downs>>
    BY <1>3 DEF OnRead, dataVars
  <2> QED
    BY <2>1, CloseTypes DEF TypeOK, StreamIntact
<1>4. CASE OnWrite
  <2>1. UNCHANGED <<state, batch, tpc, removing, ups, downs>>
    BY <1>4 DEF OnWrite, lifeVars
  <2>2. pending' \in Seq(Entry)
    <3>1. \/ pending' = pending
          \/ pending' = Append(pending, <<"writeComplete", NoMessage>>)
      BY <1>4, WriteEffect DEF QueuesAtMost
    <3>2. pending \in Seq(Entry) /\ "writeComplete" \in FunctorName /\ NoMessage \in Message
      BY DEF FunctorName, Message, TypeOK
    <3> QED
      BY <3>1, <3>2, AppendEntry
  <2>3. events' \subseteq {"read", "write"} /\ index' \in {"kNew", "kAdded", "kDeleted"}
    BY <1>4, WriteEffect DEF TypeOK
  <2> QED
    BY <1>4, <2>1, <2>2, <2>3, WriteEffect DEF TypeOK, StreamIntact
<1> QED
  BY <1>1, <1>2, <1>3, <1>4 DEF Handler

\* The other variables that an action may leave alone.
LEMMA SendBase ==
    ASSUME Base, NEW m \in Message, SendInLoop(m), batch' \in Seq(Entry),
           UNCHANGED <<state, tpc, removing, ups, downs>>
    PROVE  Base'
<1> USE DEF Base
<1>1. pending' \in Seq(Entry)
  <2>1. \/ pending' = pending
        \/ pending' = Append(pending, <<"writeComplete", NoMessage>>)
        \/ pending' = Append(pending, <<"highWaterMark", NoMessage>>)
    BY SendEffect DEF QueuesAtMost
  <2>2. /\ pending \in Seq(Entry) /\ NoMessage \in Message
        /\ "writeComplete" \in FunctorName /\ "highWaterMark" \in FunctorName
    BY DEF FunctorName, Message, TypeOK
  <2> QED
    BY <2>1, <2>2, AppendEntry
<1>2. events' \subseteq {"read", "write"} /\ index' \in {"kNew", "kAdded", "kDeleted"}
  BY SendEffect DEF TypeOK
<1> QED
  BY <1>1, <1>2, SendEffect DEF TypeOK, StreamIntact

\* startReadInLoop() and stopReadInLoop() only change whether the channel reads.
LEMMA ReadControlEffect ==
    ASSUME TypeOK, StartReadInLoop \/ StopReadInLoop
    PROVE  /\ events' \subseteq {"read", "write"}
           /\ index' \in {"kNew", "kAdded", "kDeleted"}
           /\ "write" \in events' <=> "write" \in events
<1>1. CASE UNCHANGED channelVars
  BY <1>1 DEF channelVars, TypeOK
<1>2. CASE Update(events \cup {"read"})
  BY <1>2 DEF Update, TypeOK
<1>3. CASE Update(events \ {"read"})
  BY <1>3 DEF Update, TypeOK
<1> QED
  BY <1>1, <1>2, <1>3, Zenon DEF StartReadInLoop, StopReadInLoop

\* A functor keeps types and stream.
LEMMA FunctorBase == ASSUME Base, Functor PROVE Base'
<1> USE DEF Base
<1>1. CASE RunConnectEstablished
  <2>1. /\ UNCHANGED <<pending, output, written, accepted, removing, downs>>
        /\ state' = "kConnected" /\ ups' = ups + 1
        /\ events' = events \cup {"read"} /\ index' \in {"kAdded", "kDeleted"}
    BY <1>1 DEF RunConnectEstablished, Update, dataVars
  <2>2. batch' \in Seq(Entry) /\ tpc' = tpc
    BY <1>1, RunningTypes DEF RunConnectEstablished
  <2> QED
    BY <2>1, <2>2 DEF TypeOK, StreamIntact
<1>2. CASE RunConnectDestroyed
  <2>1. UNCHANGED <<pending, output, written, accepted, removing, ups>>
    BY <1>2 DEF RunConnectDestroyed, dataVars
  <2>2. batch' \in Seq(Entry) /\ tpc' = tpc
    BY <1>2, RunningTypes DEF RunConnectDestroyed
  <2>3. ConnectDestroyed
    BY <1>2 DEF RunConnectDestroyed
  <2> QED
    BY <2>1, <2>2, <2>3, CloseTypes DEF TypeOK, StreamIntact
<1>3. CASE RunSendInLoop
  <2>1. /\ Head(batch)[2] \in Message /\ batch' \in Seq(Entry) /\ tpc' = tpc
    BY <1>3, RunningTypes DEF RunSendInLoop
  <2>2. SendInLoop(Head(batch)[2]) /\ UNCHANGED <<state, removing, ups, downs>>
    BY <1>3 DEF RunSendInLoop, lifeVars
  <2> QED
    BY <2>1, <2>2, SendBase
<1>4. CASE RunShutdownInLoop
  <2>1. UNCHANGED <<state, events, index, pending, output, written, accepted,
                    removing, ups, downs>>
    BY <1>4 DEF RunShutdownInLoop, channelVars, dataVars, lifeVars
  <2>2. batch' \in Seq(Entry) /\ tpc' = tpc
    BY <1>4, RunningTypes DEF RunShutdownInLoop
  <2> QED
    BY <2>1, <2>2 DEF TypeOK, StreamIntact
<1>5. CASE RunForceCloseInLoop
  <2>1. /\ UNCHANGED <<pending, output, written, accepted, removing, ups>>
        /\ HandleClose \/ UNCHANGED <<state, events, index, downs>>
    BY <1>5 DEF RunForceCloseInLoop, dataVars
  <2>2. batch' \in Seq(Entry) /\ tpc' = tpc
    BY <1>5, RunningTypes DEF RunForceCloseInLoop
  <2> QED
    BY <2>1, <2>2, CloseTypes DEF TypeOK, StreamIntact
<1>6. CASE RunReadControl
  <2>1. UNCHANGED <<state, pending, output, written, accepted, removing, ups, downs>>
    BY <1>6 DEF RunReadControl, dataVars, lifeVars
  <2>2. batch' \in Seq(Entry) /\ tpc' = tpc
    BY <1>6, RunningTypes DEF RunReadControl
  <2>3. StartReadInLoop \/ StopReadInLoop
    BY <1>6 DEF RunReadControl
  <2> QED
    BY <2>1, <2>2, <2>3, ReadControlEffect DEF TypeOK, StreamIntact
<1>7. CASE RunUserFunctor
  <2>1. UNCHANGED <<state, events, index, pending, output, written, accepted,
                    removing, ups, downs>>
    BY <1>7 DEF RunUserFunctor, channelVars, dataVars, lifeVars
  <2>2. batch' \in Seq(Entry) /\ tpc' = tpc
    BY <1>7, RunningTypes DEF RunUserFunctor
  <2> QED
    BY <2>1, <2>2 DEF TypeOK, StreamIntact
<1> QED
  BY <1>1, <1>2, <1>3, <1>4, <1>5, <1>6, <1>7 DEF Functor

\* A call in the loop thread, or the timer of forceCloseWithDelay(), keeps them.
LEMMA OwnerBase == ASSUME Base, OwnerCall \/ DelayExpires PROVE Base'
<1> USE DEF Base
<1>1. CASE OwnerShutdown \/ OwnerForceCloseWithDelay
  <2>1. /\ UNCHANGED <<events, index, pending, batch, tpc, output, written, accepted,
                       removing, ups, downs>>
        /\ state' = "kDisconnecting"
    BY <1>1 DEF OwnerShutdown, OwnerForceCloseWithDelay, channelVars, loopVars, dataVars,
                lifeVars
  <2> QED
    BY <2>1 DEF TypeOK, StreamIntact
<1>2. CASE OwnerForceClose \/ DelayExpires
  <2>1. /\ UNCHANGED <<events, index, batch, tpc, output, written, accepted,
                       removing, ups, downs>>
        /\ \/ state' = state /\ pending' = pending
           \/ state' = "kDisconnecting" /\ pending' = Append(pending, <<"forceClose", NoMessage>>)
    BY <1>2 DEF OwnerForceClose, DelayExpires, Queue, channelVars, loopVars, dataVars,
                lifeVars
  <2>2. /\ pending \in Seq(Entry) /\ NoMessage \in Message /\ "forceClose" \in FunctorName
    BY DEF FunctorName, Calls, Message, TypeOK
  <2>3. pending' \in Seq(Entry)
    BY <2>1, <2>2, AppendEntry
  <2> QED
    BY <2>1, <2>3 DEF TypeOK, StreamIntact
<1>3. CASE OwnerReadControl
  <2>1. UNCHANGED <<state, pending, batch, tpc, output, written, accepted, removing,
                    ups, downs>>
    BY <1>3 DEF OwnerReadControl, loopVars, dataVars, lifeVars
  <2>2. StartReadInLoop \/ StopReadInLoop
    BY <1>3 DEF OwnerReadControl
  <2> QED
    BY <2>1, <2>2, ReadControlEffect DEF TypeOK, StreamIntact
<1>4. ASSUME NEW m \in Messages, OwnerSend(m) PROVE Base'
  <2>1. SendInLoop(m) /\ UNCHANGED <<state, batch, tpc, removing, ups, downs>>
    BY <1>4 DEF OwnerSend, loopVars, lifeVars
  <2>2. m \in Message /\ batch' \in Seq(Entry)
    BY <2>1 DEF Message, TypeOK
  <2> QED
    BY <2>1, <2>2, SendBase
<1> QED
  BY <1>1, <1>2, <1>3, <1>4 DEF OwnerCall

\* What a thread that begins a call is about to do.
LEMMA TestEffect ==
    ASSUME NEW t \in Threads, ThreadTests(t)
    PROVE  \E c \in ThreadCalls, m \in Message :
              tpc' = [tpc EXCEPT ![t] =
                        <<c, IF c \in {"send", "startRead", "stopRead"}
                             THEN "push" ELSE "store", m>>]
<1>1. PICK c \in ThreadCalls :
         \E m \in IF c = "send" THEN {x \in Messages : Unsent(x)} ELSE {NoMessage} :
            tpc' = [tpc EXCEPT ![t] =
                      <<c, IF c \in {"send", "startRead", "stopRead"}
                           THEN "push" ELSE "store", m>>]
  BY DEF ThreadTests
<1> QED
  BY <1>1 DEF Message

\* A step of another thread keeps types and stream.
LEMMA ThreadBase ==
    ASSUME Base, NEW t \in Threads, ThreadTests(t) \/ ThreadStores(t) \/ ThreadPushes(t)
    PROVE  Base'
<1> USE DEF Base
<1> DEFINE Place == (Calls \cup {"none"}) \X {"out", "store", "push"} \X Message
<1>1. CASE ThreadTests(t)
  <2>1. UNCHANGED <<state, events, index, pending, batch, output, written, accepted,
                    removing, ups, downs>>
    BY <1>1 DEF ThreadTests, channelVars, loopVars, dataVars, lifeVars
  <2>2. PICK c \in ThreadCalls, m \in Message :
           tpc' = [tpc EXCEPT ![t] = <<c, IF c \in {"send", "startRead", "stopRead"}
                                          THEN "push" ELSE "store", m>>]
    BY <1>1, TestEffect
  <2>3. c \in Calls
    BY CallsAssumption
  <2>4. tpc' \in [Threads -> Place]
    BY <2>2, <2>3 DEF TypeOK
  <2> QED
    BY <2>1, <2>4 DEF TypeOK, StreamIntact
<1>2. CASE ThreadStores(t)
  <2>1. /\ UNCHANGED <<events, index, pending, batch, output, written, accepted,
                       removing, ups, downs>>
        /\ state' = "kDisconnecting" /\ tpc' = [tpc EXCEPT ![t][2] = "push"]
    BY <1>2 DEF ThreadStores, channelVars, loopVars, dataVars, lifeVars
  <2>2. tpc[t] \in Place
    BY DEF TypeOK
  <2>3. [tpc[t] EXCEPT ![2] = "push"] \in Place
    BY <2>2
  <2>4. tpc' \in [Threads -> Place]
    BY <2>1, <2>3 DEF TypeOK
  <2> QED
    BY <2>1, <2>4 DEF TypeOK, StreamIntact
<1>3. CASE ThreadPushes(t)
  <2>1. /\ UNCHANGED <<state, events, index, batch, output, written, accepted,
                       removing, ups, downs>>
        /\ tpc' = [tpc EXCEPT ![t] = Out]
        /\ pending' = pending \/ pending' = Append(pending, <<tpc[t][1], tpc[t][3]>>)
    BY <1>3 DEF ThreadPushes, channelVars, loopVars, dataVars
  <2>2. tpc[t][1] \in FunctorName /\ tpc[t][3] \in Message /\ pending \in Seq(Entry)
    BY DEF TypeOK, FunctorName
  <2>3. pending' \in Seq(Entry)
    BY <2>1, <2>2, AppendEntry
  <2>4. Out \in Place
    BY DEF Out, Message
  <2>5. tpc' \in [Threads -> Place]
    BY <2>1, <2>4 DEF TypeOK
  <2> QED
    BY <2>1, <2>3, <2>5 DEF TypeOK, StreamIntact
<1> QED
  BY <1>1, <1>2, <1>3

\* So do the loop between its callbacks, the server, the destructor and the peer.
LEMMA RestBase ==
    ASSUME Base,
           \/ EndDispatch \/ EndFunctors \/ CallbackReturns \/ \E w \in BOOLEAN : Poll(w)
           \/ ServerRemoves \/ ServerDestructs \/ Destroy
           \/ PeerSends \/ PeerCloses \/ PeerResets \/ UNCHANGED vars
    PROVE  Base'
<1> USE DEF Base
<1>1. CASE EndDispatch
  <2>1. /\ UNCHANGED <<state, events, index, output, written, accepted, tpc,
                       removing, ups, downs>>
        /\ batch' = pending /\ pending' = <<>>
    BY <1>1 DEF EndDispatch, channelVars, dataVars, lifeVars
  <2>2. <<>> \in Seq(Entry)
    BY EmptySeq
  <2> QED
    BY <2>1, <2>2 DEF TypeOK, StreamIntact
<1>2. CASE CallbackReturns
  <2>1. /\ UNCHANGED <<state, events, output, written, accepted, tpc, pending, batch,
                       ups, downs>>
        /\ removing' = removing + 1 \/ removing' = removing
        /\ index' = "kNew" \/ index' = index
    BY <1>2, Zenon DEF CallbackReturns, RemoveChannel, dataVars
  <2> QED
    BY <2>1 DEF TypeOK, StreamIntact
<1>3. CASE ServerRemoves
  <2>1. /\ UNCHANGED <<state, events, index, output, written, accepted, tpc, batch,
                       ups, downs>>
        /\ removing > 0 /\ removing' = removing - 1
        /\ pending' = Append(pending, <<"connectDestroyed", NoMessage>>)
    BY <1>3 DEF ServerRemoves, Queue, channelVars, loopVars, dataVars
  <2>2. /\ pending \in Seq(Entry) /\ NoMessage \in Message
        /\ "connectDestroyed" \in FunctorName
    BY DEF FunctorName, Message, TypeOK
  <2>3. pending' \in Seq(Entry)
    BY <2>1, <2>2, AppendEntry
  <2> QED
    BY <2>1, <2>3 DEF TypeOK, StreamIntact
<1>4. CASE ServerDestructs
  <2>1. /\ UNCHANGED <<output, written, accepted, tpc, pending, batch, removing, ups>>
        /\ ConnectDestroyed
    BY <1>4 DEF ServerDestructs, dataVars
  <2> QED
    BY <2>1, CloseTypes DEF TypeOK, StreamIntact
<1>5. CASE \/ EndFunctors \/ Destroy \/ PeerSends \/ PeerCloses \/ PeerResets
           \/ \E w \in BOOLEAN : Poll(w) \/ UNCHANGED vars
  <2>1. UNCHANGED <<state, events, index, output, written, accepted, tpc, pending, batch,
                    removing, ups, downs>>
    BY <1>5 DEF EndFunctors, Destroy, PeerSends, PeerCloses, PeerResets, Poll, vars,
                channelVars, loopVars, dataVars, lifeVars
  <2> QED
    BY <2>1 DEF TypeOK, StreamIntact
<1> QED
  BY <1>1, <1>2, <1>3, <1>4, <1>5

\* Types and stream hold in every state.
LEMMA BaseInductive == Spec => []Base
<1>1. Init => Base
  <2> SUFFICES ASSUME Init PROVE Base
    OBVIOUS
  <2>1. <<>> \in Seq(Unit) /\ <<>> \in Seq(Entry) /\ <<>> \o <<>> = <<>>
    BY EmptySeq, ConcatEmptySeq
  <2>2. <<<<"connectEstablished", NoMessage>>>> \in Seq(Entry)
    <3>1. <<"connectEstablished", NoMessage>> \in Entry
      BY DEF Entry, FunctorName, Message
    <3> QED
      BY <3>1
  <2>3. Out \in (Calls \cup {"none"}) \X {"out", "store", "push"} \X Message
    BY DEF Out, Message
  <2> QED
    BY <2>1, <2>2, <2>3 DEF Init, Base, TypeOK, StreamIntact
<1>2. Base /\ [Next]_vars => Base'
  BY HandlerBase, FunctorBase, OwnerBase, ThreadBase, RestBase DEF Next, LoopStep
<1> QED
  BY <1>1, <1>2, PTL DEF Spec

\* The bytes that sendInLoop() took are written in order, none missing, doubled
\* or swapped, for any threads, messages and splits of the writes.
THEOREM StreamStaysIntact == Spec => []StreamIntact
  BY BaseInductive, PTL DEF Base

-----------------------------------------------------------------------------
(* connectEstablished() runs once, and the object goes only after it.       *)

\* f is queued in q.
In(f, q) == \E i \in 1..Len(q) : q[i][1] = f

Established == <<<<"connectEstablished", NoMessage>>>>

(* Until connectEstablished() has run nobody has the connection.            *)
Fresh ==
    /\ ups = 0 /\ downs = 0 /\ removing = 0
    /\ state = "kConnecting" /\ events = {} /\ index = "kNew" /\ output = <<>>
    /\ cb = "none" /\ todo = <<>>
    /\ \A t \in Threads : tpc[t] = Out
    /\ ~delayed /\ alive /\ inServer /\ ~failed
    /\ \/ pc = "functors" /\ batch = Established /\ pending = <<>>
       \/ pc \in {"poll", "dispatch"} /\ batch = <<>> /\ pending = Established

(* Afterwards it does not run again, and the connection is kDisconnected    *)
(* only behind a down callback.                                             *)
Begun ==
    /\ ups = 1
    /\ state # "kConnecting"
    /\ ~In("connectEstablished", pending) /\ ~In("connectEstablished", batch)
    /\ state = "kDisconnected" => downs >= 1

\* queueInLoop() of another functor
LEMMA InAppend ==
    ASSUME NEW q \in Seq(Entry), NEW e \in Entry, NEW f
    PROVE  In(f, Append(q, e)) <=> In(f, q) \/ e[1] = f
<1>1. /\ Len(q) \in Nat /\ Len(Append(q, e)) = Len(q) + 1
      /\ \A i \in 1..Len(q) : Append(q, e)[i] = q[i]
      /\ Append(q, e)[Len(q) + 1] = e
  BY AppendProperties, LenProperties
<1>2. 1..Len(Append(q, e)) = 1..Len(q) \cup {Len(q) + 1}
  BY <1>1
<1> QED
  BY <1>1, <1>2 DEF In

\* The pass of doPendingFunctors() over a queue
LEMMA InTail ==
    ASSUME NEW q \in Seq(Entry), q # <<>>, NEW f
    PROVE  /\ In(f, q) <=> In(f, Tail(q)) \/ Head(q)[1] = f
<1>1. /\ Len(q) \in Nat /\ Len(q) > 0 /\ Len(Tail(q)) = Len(q) - 1
      /\ \A i \in 1..Len(Tail(q)) : Tail(q)[i] = q[i + 1]
      /\ Head(q) = q[1]
  BY HeadTailProperties, LenProperties, EmptySeq
<1>2. In(f, Tail(q)) => In(f, q)
  <2> SUFFICES ASSUME NEW i \in 1..Len(Tail(q)), Tail(q)[i][1] = f PROVE In(f, q)
    BY DEF In
  <2>1. i + 1 \in 1..Len(q) /\ q[i + 1][1] = f
    BY <1>1
  <2> QED
    BY <2>1 DEF In
<1>3. Head(q)[1] = f => In(f, q)
  BY <1>1 DEF In
<1>4. In(f, q) => In(f, Tail(q)) \/ Head(q)[1] = f
  <2> SUFFICES ASSUME NEW i \in 1..Len(q), q[i][1] = f, i # 1 PROVE In(f, Tail(q))
    BY <1>1 DEF In
  <2>1. i - 1 \in 1..Len(Tail(q)) /\ Tail(q)[i - 1] = q[i]
    BY <1>1
  <2> QED
    BY <2>1 DEF In
<1> QED
  BY <1>2, <1>3, <1>4

\* Nothing is in an empty queue.
LEMMA InEmpty == ASSUME NEW f PROVE ~In(f, <<>>)
  BY DEF In

NotQueued(f) == ~In(f, pending) /\ ~In(f, batch)

-----------------------------------------------------------------------------
(* What a step does to the queues.                                          *)

\* A functor that was not queued stays so unless the step queues it.
LEMMA NotQueuedKept ==
    ASSUME TypeOK, NEW f, NotQueued(f),
           \/ batch' = batch
           \/ batch # <<>> /\ batch' = Tail(batch),
           \/ pending' = pending
           \/ \E e \in Entry : e[1] # f /\ pending' = Append(pending, e)
    PROVE  NotQueued(f)'
<1>1. pending \in Seq(Entry) /\ batch \in Seq(Entry)
  BY DEF TypeOK
<1>2. ~In(f, batch')
  <2>1. CASE batch' = batch
    BY <2>1 DEF NotQueued, In
  <2>2. CASE batch # <<>> /\ batch' = Tail(batch)
    <3>1. ~In(f, batch) /\ ~In(f, Tail(batch))
      BY <1>1, <2>2, InTail DEF NotQueued
    <3> QED
      BY <2>2, <3>1 DEF In
  <2> QED
    BY <2>1, <2>2
<1>3. ~In(f, pending')
  BY <1>1, InAppend DEF NotQueued
<1> QED
  BY <1>2, <1>3 DEF NotQueued, In

\* The functors that a step may queue, by their names.
LEMMA QueueStep ==
    ASSUME Base, [Next]_vars
    PROVE  \/ pc = "dispatch" /\ batch' = pending /\ pending' = <<>>
           \/ /\ \/ batch' = batch
                 \/ batch # <<>> /\ batch' = Tail(batch)
              /\ \/ pending' = pending
                 \/ \E e \in Entry :
                       /\ pending' = Append(pending, e)
                       /\ \/ e[1] \in {"writeComplete", "highWaterMark", "forceClose"}
                          \/ e[1] = "connectDestroyed" /\ ServerRemoves
                          \/ \E t \in Threads : e[1] = tpc[t][1] /\ ThreadPushes(t)
<1> DEFINE Popped == batch' = batch \/ (batch # <<>> /\ batch' = Tail(batch))
           Pushed == \/ pending' = pending
                     \/ \E e \in Entry :
                           /\ pending' = Append(pending, e)
                           /\ \/ e[1] \in {"writeComplete", "highWaterMark", "forceClose"}
                              \/ e[1] = "connectDestroyed" /\ ServerRemoves
                              \/ \E t \in Threads : e[1] = tpc[t][1] /\ ThreadPushes(t)
<1>1. \A f \in {"writeComplete", "highWaterMark", "forceClose", "connectDestroyed"} :
         <<f, NoMessage>> \in Entry /\ <<f, NoMessage>>[1] = f
  BY DEF Entry, FunctorName, Calls, Message
<1>2. ASSUME NEW m \in Message, SendInLoop(m) PROVE Pushed
  <2>1. \/ pending' = pending
        \/ pending' = Append(pending, <<"writeComplete", NoMessage>>)
        \/ pending' = Append(pending, <<"highWaterMark", NoMessage>>)
    BY <1>2, SendEffect DEF QueuesAtMost, Base
  <2> QED
    BY <1>1, <2>1
<1>3. CASE Handler
  <2>1. batch' = batch
    BY <1>3 DEF Handler, OnClose, OnError, OnRead, OnWrite
  <2>2. CASE OnClose \/ OnError \/ OnRead
    BY <2>1, <2>2 DEF OnClose, OnError, OnRead
  <2>3. CASE OnWrite
    <3>1. pending' = pending \/ pending' = Append(pending, <<"writeComplete", NoMessage>>)
      BY <2>3, WriteEffect DEF QueuesAtMost, Base
    <3> QED
      BY <1>1, <2>1, <3>1
  <2> QED
    BY <1>3, <2>2, <2>3 DEF Handler
<1>4. CASE Functor
  <2>1. Popped
    BY <1>4 DEF Functor, RunConnectEstablished, RunConnectDestroyed, RunSendInLoop,
        RunShutdownInLoop, RunForceCloseInLoop, RunReadControl, RunUserFunctor, Running
  <2>2. CASE RunSendInLoop
    <3>1. Head(batch)[2] \in Message /\ SendInLoop(Head(batch)[2])
      BY <2>2, RunningTypes DEF RunSendInLoop, Base
    <3> QED
      BY <1>2, <2>1, <3>1
  <2>3. CASE ~RunSendInLoop
    <3>1. pending' = pending
      BY <1>4, <2>3 DEF Functor, RunConnectEstablished, RunConnectDestroyed,
          RunShutdownInLoop, RunForceCloseInLoop, RunReadControl, RunUserFunctor
    <3> QED
      BY <2>1, <3>1
  <2> QED
    BY <2>2, <2>3
<1>5. CASE OwnerCall \/ DelayExpires
  <2>1. batch' = batch
    BY <1>5 DEF OwnerCall, DelayExpires, OwnerShutdown, OwnerForceClose,
        OwnerForceCloseWithDelay, OwnerReadControl, OwnerSend, loopVars
  <2>2. ASSUME NEW m \in Messages, OwnerSend(m) PROVE Pushed
    BY <1>2, <2>2 DEF OwnerSend, Message
  <2>3. CASE OwnerShutdown \/ OwnerForceClose \/ OwnerForceCloseWithDelay
             \/ OwnerReadControl \/ DelayExpires
    <3>1. pending' = pending \/ pending' = Append(pending, <<"forceClose", NoMessage>>)
      BY <2>3 DEF DelayExpires, OwnerShutdown, OwnerForceClose,
          OwnerForceCloseWithDelay, OwnerReadControl, Queue
    <3> QED
      BY <1>1, <2>1, <3>1
  <2> QED
    BY <1>5, <2>1, <2>2, <2>3 DEF OwnerCall
<1>6. ASSUME NEW t \in Threads, ThreadTests(t) \/ ThreadStores(t) \/ ThreadPushes(t)
      PROVE  batch' = batch /\ Pushed
  <2>1. CASE ThreadTests(t) \/ ThreadStores(t)
    BY <2>1 DEF ThreadTests, ThreadStores, loopVars
  <2>2. CASE ThreadPushes(t)
    <3>1. /\ batch' = batch
          /\ pending' = pending \/ pending' = Append(pending, <<tpc[t][1], tpc[t][3]>>)
      BY <2>2 DEF ThreadPushes, loopVars
    <3>2. <<tpc[t][1], tpc[t][3]>> \in Entry /\ <<tpc[t][1], tpc[t][3]>>[1] = tpc[t][1]
      BY DEF Base, TypeOK, Entry, FunctorName
    <3> QED
      BY <2>2, <3>1, <3>2
  <2> QED
    BY <1>6, <2>1, <2>2
<1>7. CASE ServerRemoves
  <2>1. batch' = batch /\ pending' = Append(pending, <<"connectDestroyed", NoMessage>>)
    BY <1>7 DEF ServerRemoves, Queue, loopVars
  <2> QED
    BY <1>1, <1>7, <2>1
<1>8. CASE EndDispatch
  BY <1>8 DEF EndDispatch
<1>9. CASE EndFunctors \/ CallbackReturns \/ ServerDestructs \/ Destroy
           \/ PeerSends \/ PeerCloses \/ PeerResets \/ UNCHANGED vars
  <2>1. batch' = batch /\ pending' = pending
    BY <1>9 DEF EndFunctors, CallbackReturns, ServerDestructs, Destroy, PeerSends,
        PeerCloses, PeerResets, vars, loopVars
  <2> QED
    BY <2>1
<1>10. CASE \E w \in BOOLEAN : Poll(w)
  BY <1>10 DEF Poll
<1> QED
  BY <1>3, <1>4, <1>5, <1>6, <1>7, <1>8, <1>9, <1>10 DEF Next, LoopStep

\* So a functor that no step queues now is not queued afterwards.
LEMMA NotQueuedStep ==
    ASSUME Base, [Next]_vars, NEW f, NotQueued(f),
           f \notin {"writeComplete", "highWaterMark", "forceClose"},
           ~(f = "connectDestroyed" /\ ServerRemoves),
           \A t \in Threads : tpc[t][1] # f
    PROVE  NotQueued(f)'
<1>1. CASE batch' = pending /\ pending' = <<>>
  BY <1>1, InEmpty DEF NotQueued, In
<1>2. CASE /\ \/ batch' = batch
              \/ batch # <<>> /\ batch' = Tail(batch)
           /\ \/ pending' = pending
              \/ \E e \in Entry : e[1] # f /\ pending' = Append(pending, e)
  BY <1>2, NotQueuedKept DEF Base
<1> QED
  BY <1>1, <1>2, QueueStep

-----------------------------------------------------------------------------
(* connectEstablished() runs once, and before every down callback.          *)

\* What a step does to state_ and the callbacks that say up and down: only
\* connectEstablished() says up, and kDisconnected comes with a down.
LEMMA StateStep ==
    ASSUME [Next]_vars
    PROVE  \/ RunConnectEstablished
           \/ /\ ups' = ups
              /\ \/ state' = state /\ downs' = downs
                 \/ state' = "kDisconnecting" /\ downs' = downs
                 \/ state' = "kDisconnected" /\ downs' = downs + 1
<1> DEFINE Kept == \/ state' = state /\ downs' = downs
                   \/ state' = "kDisconnecting" /\ downs' = downs
                   \/ state' = "kDisconnected" /\ downs' = downs + 1
<1>1. HandleClose \/ ConnectDestroyed => Kept
  BY DEF HandleClose, ConnectDestroyed
<1>2. CASE Handler
  <2>1. ups' = ups /\ (HandleClose \/ UNCHANGED <<state, downs>>)
    BY <1>2 DEF Handler, OnClose, OnError, OnRead, OnWrite, lifeVars
  <2> QED
    BY <1>1, <2>1
<1>3. CASE Functor
  <2>1. \/ RunConnectEstablished
        \/ /\ ups' = ups
           /\ HandleClose \/ ConnectDestroyed \/ UNCHANGED <<state, downs>>
    BY <1>3 DEF Functor, RunConnectDestroyed, RunSendInLoop, RunShutdownInLoop,
        RunForceCloseInLoop, RunReadControl, RunUserFunctor, lifeVars
  <2> QED
    BY <1>1, <2>1
<1>4. CASE OwnerCall \/ DelayExpires
  BY <1>4 DEF OwnerCall, DelayExpires, OwnerShutdown, OwnerForceClose,
      OwnerForceCloseWithDelay, OwnerReadControl, OwnerSend, lifeVars
<1>5. CASE \E t \in Threads : ThreadTests(t) \/ ThreadStores(t) \/ ThreadPushes(t)
  BY <1>5 DEF ThreadTests, ThreadStores, ThreadPushes, lifeVars
<1>6. CASE ServerDestructs
  BY <1>1, <1>6 DEF ServerDestructs
<1>7. CASE \/ EndDispatch \/ EndFunctors \/ CallbackReturns \/ ServerRemoves \/ Destroy
           \/ PeerSends \/ PeerCloses \/ PeerResets
           \/ (\E w \in BOOLEAN : Poll(w)) \/ UNCHANGED vars
  BY <1>7 DEF EndDispatch, EndFunctors, CallbackReturns, ServerRemoves, Destroy,
      PeerSends, PeerCloses, PeerResets, Poll, vars, lifeVars
<1> QED
  BY <1>2, <1>3, <1>4, <1>5, <1>6, <1>7 DEF Next, LoopStep

\* A channel that is not in epoll gets no callback.
LEMMA NotWatched ==
    ASSUME NEW w \in BOOLEAN, index # "kAdded"
    PROVE  Callbacks(Revents(w)) = <<>>
<1>1. Revents(w) = {}
  BY DEF Revents
<1>2. Callbacks({}) = <<>> \o <<>> \o <<>> \o <<>>
  BY DEF Callbacks
<1> QED
  BY <1>1, <1>2, ConcatEmptySeq

\* A connection that nobody has yet stays so until connectEstablished() runs.
LEMMA FreshStep == ASSUME Base, Fresh, [Next]_vars PROVE Fresh' \/ Begun'
<1>1. /\ Established # <<>> /\ Head(Established)[1] = "connectEstablished"
      /\ Tail(Established) = <<>>
  BY DEF Established
<1>2. CASE RunConnectEstablished
  <2>1. batch = Established /\ batch' = <<>> /\ pending' = <<>>
    BY <1>1, <1>2 DEF RunConnectEstablished, Running, Fresh
  <2>2. ups' = 1 /\ state' = "kConnected"
    BY <1>2 DEF RunConnectEstablished, Fresh
  <2> QED
    BY <2>1, <2>2, InEmpty DEF Begun
<1>3. ~Handler
  BY DEF Handler, OnClose, OnError, OnRead, OnWrite, Dispatching, Fresh
<1>4. Functor => RunConnectEstablished
  BY <1>1 DEF Functor, RunConnectDestroyed, RunSendInLoop, RunShutdownInLoop,
      RunForceCloseInLoop, RunReadControl, RunUserFunctor, Running, Fresh
<1>5. ~OwnerCall /\ ~DelayExpires
  <2>1. ~(ups > 0)
    BY DEF Fresh
  <2>2. ~OwnerCall
    BY <2>1, Zenon DEF OwnerCall, OwnerShutdown, OwnerForceClose, OwnerCode,
        OwnerForceCloseWithDelay, OwnerReadControl, OwnerSend
  <2>3. ~DelayExpires
    BY Zenon DEF DelayExpires, Fresh
  <2> QED
    BY <2>2, <2>3
<1>6. ~\E t \in Threads : ThreadTests(t) \/ ThreadStores(t) \/ ThreadPushes(t)
  <2>1. ~(ups > 0) /\ \A t \in Threads : tpc[t][2] = "out"
    BY DEF Fresh, Out
  <2>2. \A t \in Threads : ~ThreadTests(t)
    BY <2>1, Zenon DEF ThreadTests
  <2>3. \A t \in Threads : tpc[t][2] # "store" /\ tpc[t][2] # "push"
    BY <2>1
  <2>4. \A t \in Threads : ~ThreadStores(t) /\ ~ThreadPushes(t)
    BY <2>3, Zenon DEF ThreadStores, ThreadPushes
  <2> QED
    BY <2>2, <2>4
<1>7. ~EndFunctors /\ ~CallbackReturns /\ ~ServerRemoves /\ ~ServerDestructs /\ ~Destroy
  BY <1>1 DEF EndFunctors, CallbackReturns, ServerRemoves, ServerDestructs, Destroy, Fresh
<1>8. CASE EndDispatch
  BY <1>8, <1>1 DEF EndDispatch, Fresh, channelVars, dataVars, lifeVars
<1>9. CASE \E w \in BOOLEAN : Poll(w)
  <2>1. PICK w \in BOOLEAN : Poll(w)
    BY <1>9
  <2>2. Callbacks(Revents(w)) = <<>>
    BY NotWatched DEF Fresh
  <2> QED
    BY <2>1, <2>2 DEF Poll, Fresh, channelVars, dataVars, lifeVars
<1>10. CASE PeerSends \/ PeerCloses \/ PeerResets \/ UNCHANGED vars
  BY <1>10 DEF PeerSends, PeerCloses, PeerResets, vars, Fresh, channelVars, loopVars,
      dataVars, lifeVars
<1> QED
  BY <1>2, <1>3, <1>4, <1>5, <1>6, <1>7, <1>8, <1>9, <1>10 DEF Next, LoopStep

\* Once connectEstablished() has run it does not run again.
LEMMA BegunStep == ASSUME Base, Begun, [Next]_vars PROVE Begun'
<1>1. NotQueued("connectEstablished")'
  <2>1. \A t \in Threads : tpc[t][1] # "connectEstablished"
    BY DEF Base, TypeOK, Calls
  <2> QED
    BY <2>1, NotQueuedStep DEF Begun, NotQueued
<1>2. ~RunConnectEstablished
  <2> SUFFICES ASSUME RunConnectEstablished PROVE FALSE
    OBVIOUS
  <2>1. batch \in Seq(Entry) /\ batch # <<>> /\ Head(batch)[1] = "connectEstablished"
    BY DEF RunConnectEstablished, Running, Base, TypeOK
  <2> QED
    BY <2>1, InTail DEF Begun
<1>3. /\ ups' = 1 /\ downs \in Nat
      /\ \/ state' = state /\ downs' = downs
         \/ state' = "kDisconnecting" /\ downs' = downs
         \/ state' = "kDisconnected" /\ downs' = downs + 1
  BY <1>2, StateStep DEF Begun, Base, TypeOK
<1>4. state' # "kConnecting" /\ (state' = "kDisconnected" => downs' >= 1)
  BY <1>3 DEF Begun
<1> QED
  BY <1>1, <1>3, <1>4, Zenon DEF Begun, NotQueued

\* Types, stream and the order of connectEstablished() and the rest.
Life == Base /\ (Fresh \/ Begun)

\* connectEstablished() finds a connection that nobody has yet.
LEMMA EstablishesFresh == ASSUME Life, RunConnectEstablished PROVE Fresh
<1> SUFFICES ASSUME Begun PROVE FALSE
  BY DEF Life
<1>1. batch \in Seq(Entry) /\ batch # <<>> /\ Head(batch)[1] = "connectEstablished"
  BY DEF RunConnectEstablished, Running, Life, Base, TypeOK
<1> QED
  BY <1>1, InTail DEF Begun

\* They hold in every state.
LEMMA LifeInductive == Spec => []Life
<1>1. Init => Fresh
  BY DEF Init, Fresh, Established
<1>2. Base /\ Base' /\ (Fresh \/ Begun) /\ [Next]_vars => (Fresh \/ Begun)'
  BY FreshStep, BegunStep
<1> QED
  BY <1>1, <1>2, BaseInductive, PTL DEF Spec, Life

\* So the user hears at most once that the connection is up, and of nothing
\* before that.
UpOnce == ups <= 1 /\ (downs > 0 => ups = 1)

\* connectEstablished() runs at most once and before every down callback.
THEOREM EstablishedOnce == Spec => []UpOnce
<1>1. Life => UpOnce
  BY DEF Life, Fresh, Begun, UpOnce
<1> QED
  BY <1>1, LifeInductive, PTL

-----------------------------------------------------------------------------
(* The FIN goes out behind the data.  Until the connection goes down its    *)
(* channel listens for EPOLLOUT exactly while data waits, whatever other    *)
(* threads store to state_, and shutdownInLoop() asks the channel.          *)

UpWatches == downs = 0 => (IsWriting <=> output # <<>>)
FinWaits == finSent /\ downs = 0 => output = <<>>

\* Behind the FIN sendInLoop() takes nothing more in: the write fails.
LEMMA SendBehindFin ==
    ASSUME TypeOK, StreamIntact, NEW m \in Message, SendInLoop(m), finSent' = finSent,
           downs' = downs, UpWatches, FinWaits
    PROVE  UpWatches' /\ FinWaits'
<1>1. UpWatches'
  <2>1. (IsWriting <=> output # <<>>) => ("write" \in events' <=> output' # <<>>)
    BY SendEffect
  <2> QED
    BY <2>1 DEF UpWatches, IsWriting
<1>2. FinWaits'
  <2> SUFFICES ASSUME finSent, downs = 0 PROVE output' = <<>>
    BY DEF FinWaits
  <2>1. WritesDirectly /\ BrokenPipe
    BY DEF UpWatches, FinWaits, WritesDirectly, BrokenPipe
  <2>2. GiveUp(m)
    BY <2>1 DEF SendInLoop
  <2> QED
    BY <2>2 DEF GiveUp, FinWaits
<1> QED
  BY <1>1, <1>2

\* What a step that neither sends nor writes does to the buffer, the interest
\* in EPOLLOUT and the FIN: a shutdown looks at the channel first.
Leaves ==
    /\ output' = output
    /\ \/ downs' = downs + 1
       \/ /\ downs' = downs
          /\ "write" \in events' <=> "write" \in events
          /\ finSent' => finSent \/ ~IsWriting

LEMMA LeavesFin ==
    ASSUME TypeOK, UpWatches, FinWaits, Leaves
    PROVE  UpWatches' /\ FinWaits'
<1>1. downs \in Nat
  BY DEF TypeOK
<1> QED
  BY <1>1 DEF UpWatches, FinWaits, Leaves, IsWriting

LEMMA CloseLeaves ==
    ASSUME HandleClose \/ ConnectDestroyed, output' = output, finSent' = finSent
    PROVE  Leaves
<1>1. downs' = downs + 1 \/ UNCHANGED <<events, downs>>
  BY Zenon DEF HandleClose, ConnectDestroyed
<1> QED
  BY <1>1 DEF Leaves

LEMMA ReadControlLeaves ==
    ASSUME TypeOK, StartReadInLoop \/ StopReadInLoop, UNCHANGED <<output, finSent, downs>>
    PROVE  Leaves
<1>1. "write" \in events' <=> "write" \in events
  BY ReadControlEffect
<1> QED
  BY <1>1 DEF Leaves

\* Every step keeps both.
LEMMA FinStep ==
    ASSUME Base, UpWatches, FinWaits, [Next]_vars
    PROVE  UpWatches' /\ FinWaits'
<1>1. TypeOK /\ StreamIntact
  BY DEF Base
<1>2. Leaves => UpWatches' /\ FinWaits'
  BY <1>1, LeavesFin
<1>3. CASE OnWrite
  <2>1. downs' = downs /\ downs \in Nat
    BY <1>1, <1>3 DEF OnWrite, lifeVars, TypeOK
  <2>2. (IsWriting <=> output # <<>>) => ("write" \in events' <=> output' # <<>>)
    BY <1>1, <1>3, WriteEffect
  <2>3. UpWatches'
    BY <2>1, <2>2 DEF UpWatches, IsWriting
  <2>4. FinWaits'
    <3>1. CASE UNCHANGED <<output, finSent>>
      BY <2>1, <3>1 DEF FinWaits
    <3>2. CASE ~BrokenPipe /\ (finSent' => finSent \/ output' = <<>>)
      BY <3>2 DEF FinWaits, BrokenPipe
    <3>3. \/ UNCHANGED <<output, finSent>>
          \/ ~BrokenPipe /\ (finSent' => finSent \/ output' = <<>>)
      BY <1>3 DEF OnWrite, ShutsDownAfterWrite
    <3> QED
      BY <3>1, <3>2, <3>3
  <2> QED
    BY <2>3, <2>4
<1>4. CASE OnClose \/ OnError \/ OnRead
  <2>1. /\ UNCHANGED <<output, finSent>>
        /\ HandleClose \/ UNCHANGED <<events, downs>>
    BY <1>4 DEF OnClose, OnError, OnRead, dataVars, sockVars, channelVars, lifeVars
  <2>2. UNCHANGED <<events, downs>> => Leaves
    BY <2>1 DEF Leaves
  <2> QED
    BY <1>2, <2>1, <2>2, CloseLeaves
<1>5. CASE RunConnectEstablished
  <2>1. /\ UNCHANGED <<output, finSent, downs>> /\ events' = events \cup {"read"}
    BY <1>5 DEF RunConnectEstablished, Update, dataVars, sockVars
  <2> QED
    BY <1>2, <2>1 DEF Leaves
<1>6. CASE RunConnectDestroyed \/ RunForceCloseInLoop \/ ServerDestructs
  <2>1. /\ UNCHANGED <<output, finSent>>
        /\ HandleClose \/ ConnectDestroyed \/ UNCHANGED <<events, downs>>
    BY <1>6 DEF RunConnectDestroyed, RunForceCloseInLoop, ServerDestructs, dataVars, sockVars
  <2>2. UNCHANGED <<events, downs>> => Leaves
    BY <2>1 DEF Leaves
  <2> QED
    BY <1>2, <2>1, <2>2, CloseLeaves
<1>7. CASE RunSendInLoop
  <2>1. Head(batch)[2] \in Message
    BY <1>1, <1>7, RunningTypes DEF RunSendInLoop
  <2>2. SendInLoop(Head(batch)[2]) /\ finSent' = finSent /\ downs' = downs
    BY <1>7 DEF RunSendInLoop, sockVars, lifeVars
  <2> QED
    BY <1>1, <2>1, <2>2, SendBehindFin
<1>8. CASE \E m \in Messages : OwnerSend(m)
  <2>1. PICK m \in Messages : OwnerSend(m)
    BY <1>8
  <2>2. m \in Message /\ SendInLoop(m) /\ finSent' = finSent /\ downs' = downs
    BY <2>1 DEF OwnerSend, Message, sockVars, lifeVars
  <2> QED
    BY <1>1, <2>2, SendBehindFin
<1>9. CASE RunReadControl \/ OwnerReadControl
  <2>1. /\ StartReadInLoop \/ StopReadInLoop
        /\ UNCHANGED <<output, finSent, downs>>
    BY <1>9 DEF RunReadControl, OwnerReadControl, dataVars, sockVars, lifeVars
  <2> QED
    BY <1>1, <1>2, <2>1, ReadControlLeaves
<1>10. CASE RunShutdownInLoop \/ OwnerShutdown
  <2>1. /\ UNCHANGED <<output, events, downs>>
        /\ finSent' => finSent \/ ~IsWriting
    BY <1>10 DEF RunShutdownInLoop, OwnerShutdown, ShutdownInLoop, MayShutdown, dataVars,
        channelVars, lifeVars
  <2> QED
    BY <1>2, <2>1 DEF Leaves
<1>11. CASE \/ RunUserFunctor \/ EndDispatch \/ EndFunctors \/ CallbackReturns
            \/ OwnerForceClose \/ OwnerForceCloseWithDelay \/ DelayExpires
  <2>1. UNCHANGED <<output, events, downs, finSent>>
    BY <1>11 DEF RunUserFunctor, EndDispatch, EndFunctors, CallbackReturns,
        OwnerForceClose, OwnerForceCloseWithDelay, DelayExpires, dataVars, sockVars,
        channelVars, lifeVars
  <2> QED
    BY <1>2, <2>1 DEF Leaves
<1>12. CASE \/ \E w \in BOOLEAN : Poll(w)
            \/ \E t \in Threads : ThreadTests(t) \/ ThreadStores(t) \/ ThreadPushes(t)
            \/ ServerRemoves \/ Destroy \/ PeerSends \/ PeerCloses \/ PeerResets
            \/ UNCHANGED vars
  <2>1. UNCHANGED <<output, events, downs, finSent>>
    BY <1>12 DEF Poll, ThreadTests, ThreadStores, ThreadPushes, ServerRemoves, Destroy,
        PeerSends, PeerCloses, PeerResets, vars, dataVars, sockVars, channelVars, lifeVars
  <2> QED
    BY <1>2, <2>1 DEF Leaves
<1> QED
  BY <1>3, <1>4, <1>5, <1>6, <1>7, <1>8, <1>9, <1>10, <1>11, <1>12
  DEF Next, LoopStep, Handler, Functor, OwnerCall

\* While the connection has not gone down, the FIN goes out behind every byte
\* that sendInLoop() took in, for any threads and any calls of theirs, the
\* racing stores to state_ and the control of reading included.
THEOREM FinStaysBehindData == Spec => []FinBehindData
<1>1. Init => UpWatches /\ FinWaits
  BY DEF Init, UpWatches, FinWaits, IsWriting
<1>2. Base /\ UpWatches /\ FinWaits /\ [Next]_vars => (UpWatches /\ FinWaits)'
  BY FinStep
<1>3. Base /\ FinWaits => FinBehindData
  <2> SUFFICES ASSUME Base, FinWaits, finSent, downs = 0 PROVE written = accepted
    BY DEF FinBehindData
  <2>1. output = <<>> /\ written \in Seq(Unit) /\ written \o output = accepted
    BY DEF FinWaits, Base, TypeOK, StreamIntact
  <2> QED
    BY <2>1, ConcatEmptySeq
<1> QED
  BY <1>1, <1>2, <1>3, BaseInductive, PTL DEF Spec

-----------------------------------------------------------------------------
(* EPOLLOUT is watched exactly while data waits.  A store to state_ by      *)
(* another thread can make a closed connection, whose channel listens to    *)
(* nothing, look open, so other threads only send and control reading here. *)

StoresInLoop == ThreadCalls \subseteq {"send", "startRead", "stopRead"}

NoStores == \A t \in Threads : tpc[t][2] # "store"

\* Only a thread's own steps move it.
LEMMA ThreadsStand ==
    ASSUME [Next]_vars,
           ~\E t \in Threads : ThreadTests(t) \/ ThreadStores(t) \/ ThreadPushes(t)
    PROVE  tpc' = tpc
<1>1. CASE \/ Handler \/ Functor \/ EndDispatch \/ EndFunctors \/ CallbackReturns
           \/ OwnerCall \/ DelayExpires
  BY <1>1 DEF Handler, OnClose, OnError, OnRead, OnWrite, Functor,
      RunConnectEstablished, RunConnectDestroyed, RunSendInLoop, RunShutdownInLoop,
      RunForceCloseInLoop, RunReadControl, RunUserFunctor, Running, EndDispatch,
      EndFunctors, CallbackReturns, OwnerCall, DelayExpires, OwnerShutdown,
      OwnerForceClose, OwnerForceCloseWithDelay, OwnerReadControl, OwnerSend
<1>2. CASE \/ ServerRemoves \/ ServerDestructs \/ Destroy
           \/ PeerSends \/ PeerCloses \/ PeerResets
           \/ (\E w \in BOOLEAN : Poll(w)) \/ UNCHANGED vars
  BY <1>2 DEF ServerRemoves, ServerDestructs, Destroy, PeerSends, PeerCloses,
      PeerResets, Poll, vars
<1> QED
  BY <1>1, <1>2 DEF Next, LoopStep

\* Without such calls no thread is about to store.
LEMMA NoStoresStep ==
    ASSUME StoresInLoop, TypeOK, NoStores, [Next]_vars
    PROVE  NoStores' /\ \A t \in Threads : ~ThreadStores(t)
<1>1. \A t \in Threads : ~ThreadStores(t)
  BY DEF NoStores, ThreadStores
<1>2. ASSUME NEW t \in Threads, ThreadTests(t) PROVE NoStores'
  <2>1. PICK c \in ThreadCalls, m \in Message :
           tpc' = [tpc EXCEPT ![t] = <<c, IF c \in {"send", "startRead", "stopRead"}
                                          THEN "push" ELSE "store", m>>]
    BY <1>2, TestEffect
  <2>2. tpc' = [tpc EXCEPT ![t] = <<c, "push", m>>]
    BY <2>1 DEF StoresInLoop
  <2> QED
    BY <2>2 DEF NoStores, TypeOK
<1>3. ASSUME NEW t \in Threads, ThreadPushes(t) PROVE NoStores'
  BY <1>3 DEF ThreadPushes, Out, NoStores, TypeOK
<1>4. CASE tpc' = tpc
  BY <1>1, <1>4 DEF NoStores
<1> QED
  BY <1>1, <1>2, <1>3, <1>4, ThreadsStand

\* What a step does to an open connection's interest in EPOLLOUT and its buffer.
LEMMA WritingStep ==
    ASSUME Life, NoStores, WritingIffBuffered, [Next]_vars
    PROVE  WritingIffBuffered'
<1> DEFINE Matches == IsWriting <=> output # <<>>
           Same == /\ "write" \in events' <=> "write" \in events
                   /\ output' = output
                   /\ StateIsOpen' => StateIsOpen
           Moves == state' = state /\ (Matches => Matches')
<1>1. Base
  BY DEF Life
<1>2. CASE Same
  BY <1>2 DEF WritingIffBuffered, IsWriting
<1>3. CASE Moves
  BY <1>3 DEF WritingIffBuffered, StateIsOpen
<1>4. HandleClose \/ ConnectDestroyed => ~StateIsOpen' \/ UNCHANGED <<state, events>>
  BY DEF HandleClose, ConnectDestroyed, RemoveChannel, StateIsOpen
<1>5. CASE Handler
  <2>1. CASE OnClose \/ OnRead
    <3>1. /\ output' = output
          /\ HandleClose \/ UNCHANGED <<state, events>>
      BY <2>1 DEF OnClose, OnRead, dataVars
    <3> QED
      BY <1>2, <1>4, <3>1 DEF WritingIffBuffered, StateIsOpen
  <2>2. CASE OnError
    BY <1>2, <2>2 DEF OnError, dataVars, channelVars, StateIsOpen
  <2>3. CASE OnWrite
    <3>1. state' = state
      BY <2>3 DEF OnWrite
    <3>2. Matches => Matches'
      BY <1>1, <2>3, WriteEffect DEF Base, IsWriting
    <3> QED
      BY <1>3, <3>1, <3>2
  <2> QED
    BY <1>5, <2>1, <2>2, <2>3 DEF Handler
<1>6. CASE RunConnectEstablished
  <2>1. Fresh
    BY <1>6, EstablishesFresh
  <2>2. events' = {"read"} /\ output' = <<>>
    BY <1>6, <2>1 DEF RunConnectEstablished, Fresh, Update, dataVars
  <2> QED
    BY <2>2 DEF WritingIffBuffered, IsWriting
<1>7. CASE RunConnectDestroyed \/ RunForceCloseInLoop
  <2>1. /\ output' = output
        /\ HandleClose \/ ConnectDestroyed \/ UNCHANGED <<state, events>>
    BY <1>7 DEF RunConnectDestroyed, RunForceCloseInLoop, dataVars
  <2> QED
    BY <1>2, <1>4, <2>1 DEF WritingIffBuffered, StateIsOpen
<1>8. ASSUME NEW m \in Message, SendInLoop(m), state' = state PROVE WritingIffBuffered'
  <2>1. Matches => Matches'
    BY <1>1, <1>8, SendEffect DEF Base, IsWriting
  <2> QED
    BY <1>3, <1>8, <2>1
<1>9. CASE RunSendInLoop
  <2>1. Head(batch)[2] \in Message
    BY <1>1, <1>9, RunningTypes DEF RunSendInLoop, Base
  <2>2. SendInLoop(Head(batch)[2]) /\ state' = state
    BY <1>9 DEF RunSendInLoop
  <2> QED
    BY <1>8, <2>1, <2>2
<1>10. ASSUME StartReadInLoop \/ StopReadInLoop, state' = state, output' = output
       PROVE  WritingIffBuffered'
  BY <1>1, <1>2, <1>10, ReadControlEffect DEF Base, StateIsOpen
<1>11. CASE RunShutdownInLoop \/ RunReadControl \/ RunUserFunctor
  <2>1. CASE RunReadControl
    BY <1>10, <2>1 DEF RunReadControl, dataVars
  <2>2. CASE RunShutdownInLoop \/ RunUserFunctor
    BY <1>2, <2>2 DEF RunShutdownInLoop, RunUserFunctor, dataVars, channelVars, StateIsOpen
  <2> QED
    BY <1>11, <2>1, <2>2
<1>12. CASE OwnerCall \/ DelayExpires
  <2>1. ASSUME NEW m \in Messages, OwnerSend(m) PROVE WritingIffBuffered'
    BY <1>8, <2>1 DEF OwnerSend, Message
  <2>2. CASE OwnerReadControl
    BY <1>10, <2>2 DEF OwnerReadControl, dataVars
  <2>3. CASE \/ OwnerShutdown \/ OwnerForceClose \/ OwnerForceCloseWithDelay
             \/ DelayExpires
    <3>1. /\ UNCHANGED <<events, output>>
          /\ StateIsOpen \/ state' = state
      BY <2>3 DEF OwnerShutdown, OwnerForceClose, OwnerForceCloseWithDelay,
          DelayExpires, StateIsOpen, channelVars, dataVars
    <3> QED
      BY <1>2, <3>1 DEF StateIsOpen
  <2> QED
    BY <1>12, <2>1, <2>2, <2>3 DEF OwnerCall
<1>13. CASE \E t \in Threads : ThreadTests(t) \/ ThreadStores(t) \/ ThreadPushes(t)
  <2>1. \A t \in Threads : ~ThreadStores(t)
    BY DEF NoStores, ThreadStores
  <2>2. UNCHANGED <<state, events, output>>
    BY <1>13, <2>1 DEF ThreadTests, ThreadPushes, channelVars, dataVars
  <2> QED
    BY <1>2, <2>2 DEF StateIsOpen
<1>14. CASE ServerDestructs
  <2>1. output' = output /\ ConnectDestroyed
    BY <1>14 DEF ServerDestructs, dataVars
  <2> QED
    BY <1>2, <1>4, <2>1 DEF WritingIffBuffered, StateIsOpen
<1>15. CASE \/ EndDispatch \/ EndFunctors \/ CallbackReturns \/ ServerRemoves \/ Destroy
            \/ PeerSends \/ PeerCloses \/ PeerResets
            \/ (\E w \in BOOLEAN : Poll(w)) \/ UNCHANGED vars
  <2>1. UNCHANGED <<state, events, output>>
    BY <1>15 DEF EndDispatch, EndFunctors, CallbackReturns, ServerRemoves, Destroy,
        PeerSends, PeerCloses, PeerResets, Poll, vars, channelVars, dataVars
  <2> QED
    BY <1>2, <2>1 DEF StateIsOpen
<1> QED
  BY <1>5, <1>6, <1>7, <1>9, <1>11, <1>12, <1>13, <1>14, <1>15
  DEF Next, LoopStep, Functor

\* While the connection is open, EPOLLOUT is watched exactly when data waits,
\* for any number of threads that send or control reading and any callbacks
\* that call shutdown() and forceClose(): buffered data is not forgotten, and an
\* idle connection does not spin.
THEOREM WritingMatchesBuffer ==
    ASSUME StoresInLoop
    PROVE  Spec => []WritingIffBuffered
<1>1. Init => NoStores /\ WritingIffBuffered
  BY DEF Init, NoStores, Out, WritingIffBuffered, IsWriting
<1>2. Life /\ Life' /\ NoStores /\ WritingIffBuffered /\ [Next]_vars
      => (NoStores /\ WritingIffBuffered)'
  BY NoStoresStep, WritingStep DEF Life, Base
<1> QED
  BY <1>1, <1>2, LifeInductive, PTL DEF Spec

-----------------------------------------------------------------------------
(* A connection that only its loop takes down: other threads send, no       *)
(* callback stops reading, and the server outlives the connection.  Without *)
(* these the assertions do fail: state_ is overwritten by another thread,   *)
(* EPOLLHUP without EPOLLIN makes the close callback and then handleRead(), *)
(* startRead() revives the channel of a closed connection, and ~TcpServer() *)
(* removes a channel that still listens.                                    *)

OneLoopCloses ==
    /\ ThreadCalls \subseteq {"send"}
    /\ OwnerCalls \subseteq {"send", "shutdown", "forceClose", "forceCloseWithDelay"}
    /\ ~ServerMayDie

\* f is queued in q exactly once.
Once(f, q) ==
    \E i \in 1..Len(q) : q[i][1] = f /\ \A j \in 1..Len(q) : q[j][1] = f => j = i

QueuedOnce(f) ==
    \/ Once(f, pending) /\ ~In(f, batch)
    \/ ~In(f, pending) /\ Once(f, batch)

(* The callbacks of one dispatch: no close, since a channel that reads      *)
(* reports EPOLLIN with EPOLLHUP, and read before write.                    *)
AfterRead == {<<>>, <<"write">>}
Dispatch == AfterRead \cup
            {<<"read">>, <<"read", "write">>, <<"error">>, <<"error", "write">>,
             <<"error", "read">>, <<"error", "read", "write">>}

(* Where the loop thread is in a round.                                     *)
Round ==
    /\ todo \in Dispatch
    /\ pc \in {"poll", "dispatch", "functors"}
    /\ pc # "dispatch" => todo = <<>>
    /\ pc # "functors" => batch = <<>>

(* Other threads only send, and nothing controls reading.                   *)
ThreadsSend ==
    /\ \A t \in Threads : tpc[t][1] \in {"none", "send"} /\ tpc[t][2] # "store"
    /\ NotQueued("startRead") /\ NotQueued("stopRead")

(* An open connection is watched for reading, and nothing of its end has    *)
(* begun.                                                                   *)
OpenIsWatched ==
    StateIsOpen =>
        /\ downs = 0 /\ removing = 0 /\ cb # "down" /\ inServer
        /\ index = "kAdded" /\ "read" \in events
        /\ NotQueued("connectDestroyed")

(* The four places of a connection that is down: in the down callback, at   *)
(* the server, behind connectDestroyed() in the queue, and past it.         *)
AtUser   == inServer /\ removing = 0 /\ cb = "down" /\ index = "kDeleted"
            /\ NotQueued("connectDestroyed")
AtServer == inServer /\ removing = 1 /\ cb # "down" /\ index = "kDeleted"
            /\ NotQueued("connectDestroyed")
AtQueue  == ~inServer /\ removing = 0 /\ cb # "down" /\ index = "kDeleted"
            /\ QueuedOnce("connectDestroyed")
Past     == ~inServer /\ removing = 0 /\ cb # "down" /\ index = "kNew"
            /\ NotQueued("connectDestroyed")

DownGoesOut ==
    state = "kDisconnected" =>
        /\ downs = 1 /\ events = {} /\ todo \in AfterRead
        /\ AtUser \/ AtServer \/ AtQueue \/ Past

Orderly ==
    /\ Round /\ ThreadsSend /\ OpenIsWatched /\ DownGoesOut
    /\ cb # "destroyed" /\ ~failed

\* connectDestroyed() is queued once.
LEMMA OnceAppend ==
    ASSUME NEW q \in Seq(Entry), NEW e \in Entry, NEW f
    PROVE  /\ ~In(f, q) /\ e[1] = f => Once(f, Append(q, e))
           /\ Once(f, q) /\ e[1] # f => Once(f, Append(q, e))
<1>1. /\ Len(q) \in Nat /\ Len(Append(q, e)) = Len(q) + 1
      /\ \A i \in 1..Len(q) : Append(q, e)[i] = q[i]
      /\ Append(q, e)[Len(q) + 1] = e
  BY AppendProperties, LenProperties
<1>2. 1..Len(Append(q, e)) = 1..Len(q) \cup {Len(q) + 1}
  BY <1>1
<1>3. ASSUME ~In(f, q), e[1] = f PROVE Once(f, Append(q, e))
  BY <1>1, <1>2, <1>3 DEF Once, In
<1>4. ASSUME Once(f, q), e[1] # f PROVE Once(f, Append(q, e))
  BY <1>1, <1>2, <1>4 DEF Once
<1> QED
  BY <1>3, <1>4

\* It runs once.
LEMMA OnceTail ==
    ASSUME NEW q \in Seq(Entry), q # <<>>, NEW f, Once(f, q)
    PROVE  /\ Head(q)[1] = f => ~In(f, Tail(q))
           /\ Head(q)[1] # f => Once(f, Tail(q))
<1>1. /\ Len(q) \in Nat /\ Len(q) > 0 /\ Len(Tail(q)) = Len(q) - 1
      /\ \A i \in 1..Len(Tail(q)) : Tail(q)[i] = q[i + 1]
      /\ Head(q) = q[1]
  BY HeadTailProperties, LenProperties, EmptySeq
<1>2. PICK i \in 1..Len(q) : q[i][1] = f /\ \A j \in 1..Len(q) : q[j][1] = f => j = i
  BY DEF Once
<1>3. \A j \in 1..Len(Tail(q)) : j + 1 \in 1..Len(q) /\ Tail(q)[j] = q[j + 1]
  BY <1>1
<1>4. ASSUME Head(q)[1] = f PROVE ~In(f, Tail(q))
  <2>1. i = 1
    BY <1>1, <1>2, <1>4
  <2> QED
    BY <1>2, <1>3, <2>1 DEF In
<1>5. ASSUME Head(q)[1] # f PROVE Once(f, Tail(q))
  <2>1. i - 1 \in 1..Len(Tail(q)) /\ Tail(q)[i - 1] = q[i]
    BY <1>1, <1>2, <1>5
  <2>2. \A j \in 1..Len(Tail(q)) : Tail(q)[j][1] = f => j = i - 1
    BY <1>2, <1>3
  <2> QED
    BY <1>2, <2>1, <2>2 DEF Once
<1> QED
  BY <1>4, <1>5

\* What follows a callback in a dispatch.
LEMMA DispatchOrder ==
    ASSUME NEW d \in Dispatch, d # <<>>
    PROVE  /\ Tail(d) \in Dispatch /\ Head(d) # "close"
           /\ Head(d) = "read" => d \notin AfterRead /\ Tail(d) \in AfterRead
           /\ d \in AfterRead => Tail(d) \in AfterRead
<1>1. CASE d = <<"write">>
  BY <1>1 DEF Dispatch, AfterRead
<1>2. CASE d = <<"read">>
  BY <1>2 DEF Dispatch, AfterRead
<1>3. CASE d = <<"read", "write">>
  BY <1>3 DEF Dispatch, AfterRead
<1>4. CASE d = <<"error">>
  BY <1>4 DEF Dispatch, AfterRead
<1>5. CASE d = <<"error", "write">>
  BY <1>5 DEF Dispatch, AfterRead
<1>6. CASE d = <<"error", "read">>
  BY <1>6 DEF Dispatch, AfterRead
<1>7. CASE d = <<"error", "read", "write">>
  BY <1>7 DEF Dispatch, AfterRead
<1> QED
  BY <1>1, <1>2, <1>3, <1>4, <1>5, <1>6, <1>7 DEF Dispatch, AfterRead

\* Callbacks that follow one another.
LEMMA CallbackPairs ==
    ASSUME NEW S, NEW a \in S, NEW b \in S
    PROVE  <<a>> \o <<b>> = <<a, b>>
<1>1. <<a>> \in Seq(S) /\ <<b>> \in Seq(S) /\ <<a, b>> \in Seq(S) /\ Len(<<a, b>>) = 2
  OBVIOUS
<1>2. /\ <<a>> \o <<b>> \in Seq(S) /\ Len(<<a>> \o <<b>>) = 2
      /\ (<<a>> \o <<b>>)[1] = a /\ (<<a>> \o <<b>>)[2] = b
  BY <1>1, ConcatProperties
<1>3. \A i \in 1..2 : (<<a>> \o <<b>>)[i] = <<a, b>>[i]
  BY <1>2
<1> QED
  BY <1>1, <1>2, <1>3, SeqEqual

\* And a third one.
LEMMA CallbackTriples ==
    ASSUME NEW S, NEW a \in S, NEW b \in S, NEW c \in S
    PROVE  <<a, b>> \o <<c>> = <<a, b, c>>
<1>1. /\ <<a, b>> \in Seq(S) /\ <<c>> \in Seq(S) /\ <<a, b, c>> \in Seq(S)
      /\ Len(<<a, b, c>>) = 3
  OBVIOUS
<1>2. /\ <<a, b>> \o <<c>> \in Seq(S) /\ Len(<<a, b>> \o <<c>>) = 3
      /\ (<<a, b>> \o <<c>>)[1] = a /\ (<<a, b>> \o <<c>>)[2] = b
      /\ (<<a, b>> \o <<c>>)[3] = c
  BY <1>1, ConcatProperties
<1>3. \A i \in 1..3 : (<<a, b>> \o <<c>>)[i] = <<a, b, c>>[i]
  BY <1>2
<1> QED
  BY <1>1, <1>2, <1>3, SeqEqual

\* handleEventWithGuard() makes no close callback for a channel that reads.
LEMMA CallbacksInOrder ==
    ASSUME NEW w \in BOOLEAN, index = "kAdded" => "read" \in events
    PROVE  Callbacks(Revents(w)) \in Dispatch
<1> DEFINE S == {"error", "read", "write"}
           rev == Revents(w)
           a == IF "err" \in rev THEN <<"error">> ELSE <<>>
           b == IF {"in", "hup"} \cap rev # {} THEN <<"read">> ELSE <<>>
           d == IF "out" \in rev THEN <<"write">> ELSE <<>>
<1>1. ~("hup" \in rev /\ "in" \notin rev)
  BY DEF Revents, IsReading, Hup
<1>2. Callbacks(rev) = <<>> \o a \o b \o d
  BY <1>1 DEF Callbacks
<1>3. <<>> \o a = a
  BY ConcatEmptySeq
<1>4. /\ \A x, y \in S : <<x>> \o <<y>> = <<x, y>>
      /\ \A x, y, z \in S : <<x, y>> \o <<z>> = <<x, y, z>>
  BY CallbackPairs, CallbackTriples
<1>5. /\ <<"error">> \o <<"read">> = <<"error", "read">>
      /\ <<"error">> \o <<"write">> = <<"error", "write">>
      /\ <<"read">> \o <<"write">> = <<"read", "write">>
      /\ <<"error", "read">> \o <<"write">> = <<"error", "read", "write">>
  BY <1>4
<1>6. \A q \in Seq(S) : q \o <<>> = q /\ <<>> \o q = q
  BY ConcatEmptySeq
<1>7. /\ <<>> \in Seq(S) /\ <<"error">> \in Seq(S) /\ <<"read">> \in Seq(S)
      /\ <<"write">> \in Seq(S) /\ <<"error", "read">> \in Seq(S)
  OBVIOUS
<1>8. a \in {<<>>, <<"error">>} /\ b \in {<<>>, <<"read">>} /\ d \in {<<>>, <<"write">>}
  OBVIOUS
<1> HIDE DEF a, b, d, S, rev
<1>9. a \o b \in {<<>>, <<"error">>, <<"read">>, <<"error", "read">>}
  BY <1>5, <1>6, <1>7, <1>8
<1>10. a \o b \o d \in Dispatch
  BY <1>5, <1>6, <1>7, <1>8, <1>9 DEF Dispatch, AfterRead
<1> QED
  BY <1>2, <1>3, <1>10 DEF rev

\* Other threads go on doing nothing but sending.
LEMMA ThreadsSendStep ==
    ASSUME OneLoopCloses, Base, ThreadsSend, [Next]_vars
    PROVE  ThreadsSend' /\ \A t \in Threads : ~ThreadStores(t)
<1> DEFINE Sends == \A t \in Threads : tpc[t][1] \in {"none", "send"}
<1>1. NoStores' /\ \A t \in Threads : ~ThreadStores(t)
  <2>1. StoresInLoop /\ TypeOK /\ NoStores
    BY DEF OneLoopCloses, StoresInLoop, Base, ThreadsSend, NoStores
  <2> QED
    BY <2>1, NoStoresStep
<1>2. Sends'
  <2>1. ASSUME NEW t \in Threads, ThreadTests(t) PROVE Sends'
    <3>1. PICK c \in ThreadCalls, m \in Message :
             tpc' = [tpc EXCEPT ![t] = <<c, IF c \in {"send", "startRead", "stopRead"}
                                            THEN "push" ELSE "store", m>>]
      BY <2>1, TestEffect
    <3>2. tpc' = [tpc EXCEPT ![t] = <<"send", "push", m>>]
      BY <3>1 DEF OneLoopCloses
    <3> QED
      BY <3>2 DEF Base, TypeOK, ThreadsSend
  <2>2. ASSUME NEW t \in Threads, ThreadPushes(t) PROVE Sends'
    BY <2>2 DEF ThreadPushes, Out, ThreadsSend, Base, TypeOK
  <2>3. CASE tpc' = tpc
    BY <2>3 DEF ThreadsSend
  <2> QED
    BY <1>1, <2>1, <2>2, <2>3, ThreadsStand
<1>3. ASSUME NEW f \in {"startRead", "stopRead"} PROVE NotQueued(f)'
  <2>1. NotQueued(f) /\ \A t \in Threads : tpc[t][1] # f
    BY DEF ThreadsSend
  <2>2. /\ f \notin {"writeComplete", "highWaterMark", "forceClose"}
        /\ f # "connectDestroyed"
    OBVIOUS
  <2> QED
    BY <2>1, <2>2, NotQueuedStep
<1> QED
  BY <1>1, <1>2, <1>3 DEF ThreadsSend, NoStores

\* A round goes from poll to the callbacks to the functors.
LEMMA RoundStep ==
    ASSUME Base, Round, index = "kAdded" => "read" \in events, [Next]_vars
    PROVE  /\ Round'
           /\ todo \in AfterRead /\ ~(\E w \in BOOLEAN : Poll(w)) => todo' \in AfterRead
<1>1. CASE Handler
  <2>1. /\ pc = "dispatch" /\ pc' = pc /\ batch' = batch
        /\ todo # <<>> /\ todo' = Tail(todo)
    BY <1>1 DEF Handler, OnClose, OnError, OnRead, OnWrite, Dispatching
  <2>2. todo' \in Dispatch /\ (todo \in AfterRead => todo' \in AfterRead)
    BY <2>1, DispatchOrder DEF Round
  <2> QED
    BY <2>1, <2>2 DEF Round
<1>2. CASE Functor
  <2>1. pc = "functors" /\ pc' = pc /\ todo' = todo
    BY <1>2 DEF Functor, RunConnectEstablished, RunConnectDestroyed, RunSendInLoop,
        RunShutdownInLoop, RunForceCloseInLoop, RunReadControl, RunUserFunctor, Running
  <2> QED
    BY <2>1 DEF Round
<1>3. CASE EndDispatch \/ EndFunctors
  BY <1>3 DEF EndDispatch, EndFunctors, Round
<1>4. CASE \E w \in BOOLEAN : Poll(w)
  <2>1. PICK w \in BOOLEAN : Poll(w)
    BY <1>4
  <2>2. /\ todo' = Callbacks(Revents(w)) /\ pc' = "dispatch" /\ pc = "poll"
        /\ batch' = batch
    BY <2>1 DEF Poll
  <2> QED
    BY <1>4, <2>2, CallbacksInOrder DEF Round
<1>5. CASE \/ CallbackReturns \/ OwnerCall \/ DelayExpires \/ ServerRemoves
           \/ ServerDestructs \/ Destroy \/ PeerSends \/ PeerCloses \/ PeerResets
           \/ (\E t \in Threads : ThreadTests(t) \/ ThreadStores(t) \/ ThreadPushes(t))
           \/ UNCHANGED vars
  <2>1. UNCHANGED <<pc, todo, batch>>
    BY <1>5 DEF CallbackReturns, OwnerCall, DelayExpires, OwnerShutdown, OwnerForceClose,
        OwnerForceCloseWithDelay, OwnerReadControl, OwnerSend, ServerRemoves,
        ServerDestructs, Destroy, PeerSends, PeerCloses, PeerResets, ThreadTests,
        ThreadStores, ThreadPushes, vars, loopVars
  <2> QED
    BY <2>1 DEF Round
<1> QED
  BY <1>1, <1>2, <1>3, <1>4, <1>5 DEF Next, LoopStep

\* connectDestroyed() leaves the queue only by running.
LEMMA OnlyRunsLeave ==
    ASSUME Base, [Next]_vars, pc = "functors"
    PROVE  \/ batch' = batch
           \/ RunConnectDestroyed
           \/ batch # <<>> /\ batch' = Tail(batch) /\ Head(batch)[1] # "connectDestroyed"
<1>1. CASE Functor
  BY <1>1 DEF Functor, RunConnectEstablished, RunSendInLoop,
      RunShutdownInLoop, RunForceCloseInLoop, RunReadControl, RunUserFunctor, Running
<1>2. CASE ~Functor
  BY <1>2 DEF Next, LoopStep, Handler, OnClose, OnError, OnRead, OnWrite, Dispatching,
      EndDispatch, EndFunctors, CallbackReturns, OwnerCall, DelayExpires, OwnerShutdown,
      OwnerForceClose, OwnerForceCloseWithDelay, OwnerReadControl, OwnerSend,
      ServerRemoves, ServerDestructs, Destroy, PeerSends, PeerCloses, PeerResets,
      ThreadTests, ThreadStores, ThreadPushes, Poll, vars, loopVars
<1> QED
  BY <1>1, <1>2

\* So it stays queued once until it runs.
LEMMA QueuedOnceStep ==
    ASSUME Base, Round, ThreadsSend, [Next]_vars, QueuedOnce("connectDestroyed"),
           ~ServerRemoves, ~RunConnectDestroyed
    PROVE  QueuedOnce("connectDestroyed")'
<1> DEFINE f == "connectDestroyed"
<1>1. pending \in Seq(Entry) /\ batch \in Seq(Entry)
  BY DEF Base, TypeOK
<1>2. CASE pc = "dispatch" /\ batch' = pending /\ pending' = <<>>
  <2>1. batch = <<>>
    BY <1>2 DEF Round
  <2>2. ~Once(f, batch) /\ Once(f, pending)
    BY <2>1 DEF Once, QueuedOnce
  <2> QED
    BY <1>2, <2>2, InEmpty DEF QueuedOnce, Once, In
<1>3. CASE /\ \/ batch' = batch
              \/ batch # <<>> /\ batch' = Tail(batch)
           /\ \/ pending' = pending
              \/ \E e \in Entry : e[1] # f /\ pending' = Append(pending, e)
  <2>1. \/ batch' = batch
        \/ batch # <<>> /\ batch' = Tail(batch) /\ Head(batch)[1] # f
    BY <1>3, OnlyRunsLeave DEF Round
  <2>2. /\ ~In(f, batch) => ~In(f, batch')
        /\ Once(f, batch) => Once(f, batch')
    <3>1. ASSUME batch # <<>>, batch' = Tail(batch), Head(batch)[1] # f
          PROVE  /\ ~In(f, batch) => ~In(f, batch')
                 /\ Once(f, batch) => Once(f, batch')
      BY <1>1, <3>1, InTail, OnceTail
    <3> QED
      BY <2>1, <3>1
  <2>3. /\ ~In(f, pending) => ~In(f, pending')
        /\ Once(f, pending) => Once(f, pending')
    BY <1>1, <1>3, InAppend, OnceAppend
  <2> QED
    BY <2>2, <2>3 DEF QueuedOnce, Once, In
<1>4. \A t \in Threads : tpc[t][1] # f
  BY DEF ThreadsSend
<1> QED
  BY <1>2, <1>3, <1>4, QueueStep

\* A channel in epoll reads.
LEMMA AddedReads ==
    ASSUME Life, OpenIsWatched, DownGoesOut, index = "kAdded"
    PROVE  "read" \in events
<1>1. ~Fresh
  BY DEF Fresh
<1>2. StateIsOpen \/ state = "kDisconnected"
  BY <1>1 DEF Life, Base, TypeOK, Begun, StateIsOpen
<1>3. state # "kDisconnected"
  BY DEF DownGoesOut, AtUser, AtServer, AtQueue, Past
<1> QED
  BY <1>2, <1>3 DEF OpenIsWatched

\* A step that neither opens nor closes the connection and does not touch the
\* way out leaves the connection where it is.
LEMMA StaysInPlace ==
    ASSUME Life, Orderly, [Next]_vars, ~ServerRemoves, ~RunConnectDestroyed,
           StateIsOpen' <=> StateIsOpen,
           state' = "kDisconnected" <=> state = "kDisconnected",
           StateIsOpen => index' = "kAdded" /\ "read" \in events',
           state = "kDisconnected" => UNCHANGED <<events, index>>,
           UNCHANGED <<downs, removing, inServer>>,
           cb' = "down" <=> cb = "down"
    PROVE  OpenIsWatched' /\ DownGoesOut'
<1> DEFINE f == "connectDestroyed"
<1>1. Base /\ Round /\ ThreadsSend /\ OpenIsWatched /\ DownGoesOut
  BY DEF Life, Orderly
<1>2. NotQueued(f) => NotQueued(f)'
  <2>1. \A t \in Threads : tpc[t][1] # f
    BY <1>1 DEF ThreadsSend
  <2> QED
    BY <1>1, <2>1, NotQueuedStep
<1>3. QueuedOnce(f) => QueuedOnce(f)'
  BY <1>1, QueuedOnceStep
<1>4. ASSUME state = "kDisconnected" PROVE todo' \in AfterRead
  <2>1. index # "kAdded" /\ todo \in AfterRead
    BY <1>1, <1>4 DEF DownGoesOut, AtUser, AtServer, AtQueue, Past
  <2>2. ASSUME NEW w \in BOOLEAN, Poll(w) PROVE todo' = <<>>
    BY <2>1, <2>2, NotWatched DEF Poll
  <2>3. (\E w \in BOOLEAN : Poll(w)) \/ todo' \in AfterRead
    BY <1>1, <2>1, RoundStep
  <2> QED
    BY <2>2, <2>3 DEF AfterRead
<1>5. OpenIsWatched'
  BY <1>1, <1>2 DEF OpenIsWatched
<1>6. DownGoesOut'
  <2> SUFFICES ASSUME state' = "kDisconnected"
               PROVE  (downs = 1 /\ events = {} /\ todo \in AfterRead
                       /\ (AtUser \/ AtServer \/ AtQueue \/ Past))'
    BY DEF DownGoesOut
  <2>1. /\ downs' = 1 /\ events' = {} /\ todo' \in AfterRead
        /\ AtUser \/ AtServer \/ AtQueue \/ Past
    BY <1>1, <1>4 DEF DownGoesOut
  <2>2. (AtUser \/ AtServer \/ AtQueue \/ Past)'
    BY <1>2, <1>3, <2>1 DEF AtUser, AtServer, AtQueue, Past
  <2> QED
    BY <2>1, <2>2
<1> QED
  BY <1>5, <1>6

\* handleClose() of an open connection takes it to the down callback.
LEMMA ClosesToUser ==
    ASSUME Life, Orderly, StateIsOpen, HandleClose, UNCHANGED <<removing, inServer>>,
           NotQueued("connectDestroyed")', todo' \in AfterRead
    PROVE  OpenIsWatched' /\ DownGoesOut' /\ cb' # "destroyed" /\ ~failed'
<1>1. downs = 0 /\ removing = 0 /\ inServer /\ index = "kAdded"
  BY DEF Orderly, OpenIsWatched
<1>2. /\ state' = "kDisconnected" /\ events' = {} /\ index' = "kDeleted"
      /\ cb' = "down" /\ downs' = 1
  BY <1>1 DEF HandleClose, Update, EventsAfterClose
<1>3. failed' = failed /\ ~failed
  BY DEF HandleClose, Orderly
<1>4. AtUser'
  BY <1>1, <1>2 DEF AtUser
<1> QED
  BY <1>2, <1>3, <1>4 DEF OpenIsWatched, DownGoesOut, StateIsOpen

\* The callbacks of the channel keep the order: only handleRead() closes, and
\* only an open connection.
LEMMA HandlerOrderly ==
    ASSUME Life, Orderly, [Next]_vars, Handler
    PROVE  OpenIsWatched' /\ DownGoesOut' /\ cb' # "destroyed" /\ ~failed'
<1>1. Base /\ Round /\ ThreadsSend /\ OpenIsWatched /\ DownGoesOut /\ ~failed
  BY DEF Life, Orderly
<1>2. todo # <<>> /\ todo' = Tail(todo) /\ cb = "none"
  BY DEF Handler, OnClose, OnError, OnRead, OnWrite, Dispatching
<1>3. ~ServerRemoves /\ ~RunConnectDestroyed
  <2>1. pc = "dispatch" /\ todo' # todo
    <3>1. Tail(todo) # todo
      BY <1>1, <1>2 DEF Round, Dispatch, AfterRead
    <3> QED
      BY <1>2, <3>1 DEF Handler, OnClose, OnError, OnRead, OnWrite, Dispatching
  <2> QED
    BY <2>1 DEF ServerRemoves, loopVars, RunConnectDestroyed, Running
<1>4. StateIsOpen \/ state = "kDisconnected"
  <2>1. ~Fresh
    BY <1>2 DEF Fresh
  <2> QED
    BY <2>1 DEF Life, Base, TypeOK, Begun, StateIsOpen
<1>5. ~OnClose
  BY <1>1, <1>2, DispatchOrder DEF OnClose, Dispatching, Round
<1>6. CASE OnError
  <2>1. /\ UNCHANGED <<state, events, index, downs, removing, inServer, cb>>
        /\ failed' = failed
    BY <1>6 DEF OnError, channelVars, lifeVars
  <2>2. OpenIsWatched' /\ DownGoesOut'
    BY <1>1, <1>3, <2>1, StaysInPlace DEF StateIsOpen, OpenIsWatched
  <2> QED
    BY <1>1, <1>2, <2>1, <2>2
<1>7. CASE OnRead
  <2>1. StateIsOpen /\ todo' \in AfterRead
    <3>1. Head(todo) = "read" /\ todo \in Dispatch
      BY <1>1, <1>7 DEF OnRead, Dispatching, Round
    <3>2. todo \notin AfterRead /\ todo' \in AfterRead
      BY <1>2, <3>1, DispatchOrder
    <3> QED
      BY <1>1, <1>4, <3>2 DEF DownGoesOut
  <2>2. UNCHANGED <<removing, inServer>>
    BY <1>7 DEF OnRead
  <2>3. CASE HandleClose
    <3>1. \A t \in Threads : tpc[t][1] # "connectDestroyed"
      BY <1>1 DEF ThreadsSend
    <3>2. NotQueued("connectDestroyed")
      BY <1>1, <2>1 DEF OpenIsWatched
    <3>3. NotQueued("connectDestroyed")'
      BY <1>1, <1>3, <3>1, <3>2, NotQueuedStep
    <3> QED
      BY <2>1, <2>2, <2>3, <3>3, ClosesToUser
  <2>4. CASE ~HandleClose
    <3>1. /\ UNCHANGED <<state, events, index, downs, failed>>
          /\ cb' = cb \/ cb' = "message"
      BY <1>7, <2>4 DEF OnRead
    <3>2. OpenIsWatched' /\ DownGoesOut'
      BY <1>1, <1>2, <1>3, <2>2, <3>1, StaysInPlace DEF StateIsOpen, OpenIsWatched
    <3> QED
      BY <1>1, <1>2, <3>1, <3>2
  <2> QED
    BY <2>3, <2>4
<1>8. CASE OnWrite
  <2>1. /\ UNCHANGED <<state, downs, removing, inServer, cb>>
        /\ failed' = failed
    BY <1>8 DEF OnWrite, lifeVars
  <2>2. /\ \/ UNCHANGED <<events, index>>
           \/ /\ "write" \in events /\ events' = events \ {"write"}
              /\ index' = IF index = "kAdded" /\ events' = {} THEN "kDeleted" ELSE "kAdded"
    BY <1>1, <1>8, WriteEffect DEF Base
  <2>3. StateIsOpen => index' = "kAdded" /\ "read" \in events'
    BY <1>1, <2>2 DEF OpenIsWatched
  <2>4. state = "kDisconnected" => UNCHANGED <<events, index>>
    BY <1>1, <2>2 DEF DownGoesOut
  <2>5. OpenIsWatched' /\ DownGoesOut'
    BY <1>3, <2>1, <2>3, <2>4, StaysInPlace DEF StateIsOpen
  <2> QED
    BY <1>1, <1>2, <2>1, <2>5
<1> QED
  BY <1>5, <1>6, <1>7, <1>8 DEF Handler

\* The functors keep it: forceCloseInLoop() closes an open connection only, and
\* connectDestroyed() finds a channel that can be removed.
LEMMA FunctorOrderly ==
    ASSUME Life, Orderly, [Next]_vars, Functor
    PROVE  OpenIsWatched' /\ DownGoesOut' /\ cb' # "destroyed" /\ ~failed'
<1>1. /\ Base /\ Round /\ ThreadsSend /\ OpenIsWatched /\ DownGoesOut /\ ~failed
      /\ batch \in Seq(Entry)
  BY DEF Life, Orderly, Base, TypeOK
<1>2. /\ pc = "functors" /\ cb = "none" /\ batch # <<>> /\ batch' = Tail(batch)
      /\ todo' = todo /\ todo = <<>>
  BY <1>1 DEF Functor, RunConnectEstablished, RunConnectDestroyed, RunSendInLoop,
        RunShutdownInLoop, RunForceCloseInLoop, RunReadControl, RunUserFunctor, Running,
        Round
<1>3. ~ServerRemoves
  <2>1. Len(batch) \in Nat /\ Len(Tail(batch)) = Len(batch) - 1
    BY <1>1, <1>2, HeadTailProperties, LenProperties
  <2>2. batch' # batch
    <3>1. Len(Tail(batch)) # Len(batch)
      BY <2>1
    <3> QED
      BY <1>2, <3>1, Zenon
  <2> QED
    BY <2>2 DEF ServerRemoves, loopVars
<1>4. In(Head(batch)[1], batch)
  BY <1>1, <1>2, InTail
<1>5. ASSUME ~RunConnectEstablished PROVE StateIsOpen \/ state = "kDisconnected"
  <2>1. ~Fresh
    BY <1>5, <1>2 DEF Fresh, Established, Functor, RunConnectDestroyed, RunSendInLoop,
        RunShutdownInLoop, RunForceCloseInLoop, RunReadControl, RunUserFunctor, Running
  <2> QED
    BY <2>1 DEF Life, Base, TypeOK, Begun, StateIsOpen
<1>6. CASE RunConnectEstablished
  <2>1. Fresh
    BY <1>6, EstablishesFresh
  <2>2. batch' = <<>> /\ pending' = <<>>
    <3>1. batch = Established /\ pending = <<>> /\ pending' = pending
      BY <1>6, <1>2, <2>1 DEF RunConnectEstablished, Fresh
    <3>2. Tail(Established) = <<>>
      BY DEF Established
    <3> QED
      BY <1>2, <3>1, <3>2
  <2>3. NotQueued("connectDestroyed")'
    BY <2>2, InEmpty DEF NotQueued
  <2>4. /\ state' = "kConnected" /\ "read" \in events' /\ index' = "kAdded"
        /\ cb' = "up" /\ downs' = 0 /\ removing' = 0
    BY <1>6, <2>1 DEF RunConnectEstablished, Update, Fresh
  <2>5. inServer' /\ ~failed'
    BY <1>6, <2>1 DEF RunConnectEstablished, Fresh
  <2> QED
    BY <2>3, <2>4, <2>5 DEF OpenIsWatched, DownGoesOut, StateIsOpen
<1>7. CASE RunConnectDestroyed
  <2>1. Head(batch)[1] = "connectDestroyed"
    BY <1>7 DEF RunConnectDestroyed, Running
  <2>2. ~NotQueued("connectDestroyed")
    BY <1>4, <2>1 DEF NotQueued
  <2>3. ~RunConnectEstablished
    BY <2>1 DEF RunConnectEstablished, Running
  <2>4. state = "kDisconnected"
    BY <1>1, <1>5, <2>2, <2>3 DEF OpenIsWatched
  <2>5. AtQueue /\ downs = 1 /\ events = {}
    BY <1>1, <2>2, <2>4 DEF DownGoesOut, AtUser, AtServer, Past
  <2>6. Once("connectDestroyed", batch) /\ ~In("connectDestroyed", pending)
    BY <1>4, <2>1, <2>5 DEF AtQueue, QueuedOnce
  <2>7. ~In("connectDestroyed", batch') /\ pending' = pending
    BY <1>1, <1>2, <1>7, <2>1, <2>6, OnceTail DEF RunConnectDestroyed
  <2>8. NotQueued("connectDestroyed")'
    BY <2>6, <2>7 DEF NotQueued, In
  <2>9. /\ UNCHANGED <<state, events, cb, downs, removing, inServer>>
        /\ index' = "kNew"
    BY <1>7, <2>4, <2>5 DEF RunConnectDestroyed, ConnectDestroyed, RemoveChannel, AtQueue
  <2>10. ~failed'
    BY <1>7, <2>4, <2>5 DEF RunConnectDestroyed, ConnectDestroyed, RemoveChannel, AtQueue
  <2>11. Past'
    BY <2>5, <2>8, <2>9 DEF Past, AtQueue
  <2> QED
    BY <1>2, <2>4, <2>5, <2>9, <2>10, <2>11
    DEF OpenIsWatched, DownGoesOut, StateIsOpen, AfterRead
<1>8. CASE RunForceCloseInLoop
  <2>1. UNCHANGED <<removing, inServer>>
    BY <1>8 DEF RunForceCloseInLoop
  <2>2. ~RunConnectDestroyed /\ ~RunConnectEstablished
    BY <1>8 DEF RunForceCloseInLoop, RunConnectDestroyed, RunConnectEstablished, Running
  <2>3. CASE StateIsOpen
    <3>1. HandleClose
      BY <1>8, <2>3 DEF RunForceCloseInLoop, MayForceClose
    <3>2. \A t \in Threads : tpc[t][1] # "connectDestroyed"
      BY <1>1 DEF ThreadsSend
    <3>3. NotQueued("connectDestroyed")
      BY <1>1, <2>3 DEF OpenIsWatched
    <3>4. NotQueued("connectDestroyed")'
      BY <1>1, <1>3, <3>2, <3>3, NotQueuedStep
    <3> QED
      BY <1>2, <2>1, <2>3, <3>1, <3>4, ClosesToUser DEF AfterRead
  <2>4. CASE ~StateIsOpen
    <3>1. UNCHANGED <<state, events, index, cb, downs, failed>>
      BY <1>8, <2>4 DEF RunForceCloseInLoop, MayForceClose
    <3>2. OpenIsWatched' /\ DownGoesOut'
      BY <1>3, <2>1, <2>2, <2>4, <3>1, StaysInPlace DEF StateIsOpen
    <3> QED
      BY <1>1, <1>2, <3>1, <3>2
  <2> QED
    BY <2>3, <2>4
<1>9. CASE RunSendInLoop
  <2>1. /\ UNCHANGED <<state, cb, downs, removing, inServer>>
        /\ failed' = failed
    BY <1>9 DEF RunSendInLoop, lifeVars
  <2>2. ~RunConnectDestroyed
    BY <1>9 DEF RunSendInLoop, RunConnectDestroyed, Running
  <2>3. Head(batch)[2] \in Message /\ SendInLoop(Head(batch)[2])
    BY <1>1, <1>9, RunningTypes DEF RunSendInLoop, Base
  <2>4. /\ \/ UNCHANGED <<events, index>>
           \/ events' = events \cup {"write"} /\ index' = "kAdded"
        /\ state = "kDisconnected" => UNCHANGED <<events, index>>
    BY <1>1, <2>3, SendEffect DEF Base
  <2>5. StateIsOpen => index' = "kAdded" /\ "read" \in events'
    BY <1>1, <2>4 DEF OpenIsWatched
  <2>6. OpenIsWatched' /\ DownGoesOut'
    BY <1>3, <2>1, <2>2, <2>4, <2>5, StaysInPlace DEF StateIsOpen
  <2> QED
    BY <1>1, <1>2, <2>1, <2>6
<1>10. ~RunReadControl
  BY <1>1, <1>4 DEF RunReadControl, Running, ThreadsSend, NotQueued
<1>11. CASE RunShutdownInLoop \/ RunUserFunctor
  <2>1. /\ UNCHANGED <<state, events, index, downs, removing, inServer>>
        /\ failed' = failed
        /\ cb' \in {"none", "writeComplete", "highWaterMark"}
    BY <1>2, <1>11 DEF RunShutdownInLoop, RunUserFunctor, channelVars, lifeVars
  <2>2. ~RunConnectDestroyed
    BY <1>11 DEF RunShutdownInLoop, RunUserFunctor, RunConnectDestroyed, Running
  <2>3. OpenIsWatched' /\ DownGoesOut'
    BY <1>1, <1>2, <1>3, <2>1, <2>2, StaysInPlace DEF StateIsOpen, OpenIsWatched
  <2> QED
    BY <1>1, <2>1, <2>3
<1> QED
  BY <1>6, <1>7, <1>8, <1>9, <1>10, <1>11 DEF Functor

\* Calls of callbacks in the loop keep it: they change state_ of an open
\* connection only, and leave it open.
LEMMA OwnerOrderly ==
    ASSUME OneLoopCloses, Life, Orderly, [Next]_vars, OwnerCall \/ DelayExpires
    PROVE  OpenIsWatched' /\ DownGoesOut' /\ cb' # "destroyed" /\ ~failed'
<1>1. Base /\ Round /\ ThreadsSend /\ OpenIsWatched /\ DownGoesOut /\ ~failed
      /\ cb # "destroyed"
  BY DEF Life, Orderly
<1>2. ~OwnerReadControl
  BY DEF OneLoopCloses, OwnerReadControl
<1>3. /\ UNCHANGED <<batch, downs, removing, inServer, cb>>
      /\ failed' = failed
  BY DEF OwnerCall, DelayExpires, OwnerShutdown, OwnerForceClose,
      OwnerForceCloseWithDelay, OwnerReadControl, OwnerSend, loopVars, lifeVars
<1>4. ~ServerRemoves
  <2>1. ASSUME ServerRemoves PROVE removing' # removing
    BY <2>1 DEF ServerRemoves, Base, TypeOK, Life
  <2> QED
    BY <1>3, <2>1
<1>5. ~RunConnectDestroyed
  <2> SUFFICES ASSUME RunConnectDestroyed PROVE FALSE
    OBVIOUS
  <2>1. batch # <<>> /\ batch' = Tail(batch) /\ batch \in Seq(Entry)
    BY <1>1 DEF RunConnectDestroyed, Running, Base, TypeOK
  <2>2. Len(Tail(batch)) # Len(batch)
    BY <2>1, HeadTailProperties, LenProperties
  <2> QED
    BY <1>3, <2>1, <2>2, Zenon
<1>6. CASE \E m \in Messages : OwnerSend(m)
  <2>1. PICK m \in Messages : OwnerSend(m)
    BY <1>6
  <2>2. m \in Message /\ SendInLoop(m) /\ state' = state /\ StateIsOpen
    BY <2>1 DEF OwnerSend, Message, StateIsOpen
  <2>3. \/ UNCHANGED <<events, index>>
        \/ events' = events \cup {"write"} /\ index' = "kAdded"
    BY <1>1, <2>2, SendEffect DEF Base
  <2>4. index' = "kAdded" /\ "read" \in events'
    BY <1>1, <2>2, <2>3 DEF OpenIsWatched
  <2>5. OpenIsWatched' /\ DownGoesOut'
    BY <1>3, <1>4, <1>5, <2>2, <2>4, StaysInPlace DEF StateIsOpen
  <2> QED
    BY <1>1, <1>3, <2>5
<1>7. CASE \/ OwnerShutdown \/ OwnerForceClose \/ OwnerForceCloseWithDelay
           \/ DelayExpires
  <2>1. /\ UNCHANGED <<events, index>>
        /\ (StateIsOpen /\ state' = "kDisconnecting") \/ state' = state
    BY <1>7 DEF OwnerShutdown, OwnerForceClose, OwnerForceCloseWithDelay,
        DelayExpires, StateIsOpen, channelVars
  <2>2. /\ StateIsOpen' <=> StateIsOpen
        /\ state' = "kDisconnected" <=> state = "kDisconnected"
    BY <2>1 DEF StateIsOpen
  <2>3. OpenIsWatched' /\ DownGoesOut'
    BY <1>1, <1>3, <1>4, <1>5, <2>1, <2>2, StaysInPlace DEF OpenIsWatched
  <2> QED
    BY <1>1, <1>3, <2>3
<1> QED
  BY <1>2, <1>6, <1>7 DEF OwnerCall

\* The server removes the connection once, and connectDestroyed() is queued once.
LEMMA ServerOrderly ==
    ASSUME Life, Orderly, [Next]_vars, ServerRemoves
    PROVE  OpenIsWatched' /\ DownGoesOut' /\ cb' # "destroyed" /\ ~failed'
<1>1. /\ Base /\ Round /\ ThreadsSend /\ OpenIsWatched /\ DownGoesOut /\ ~failed
      /\ cb # "destroyed" /\ pending \in Seq(Entry)
  BY DEF Life, Orderly, Base, TypeOK
<1>2. /\ removing > 0 /\ removing' = removing - 1
      /\ pending' = Append(pending, <<"connectDestroyed", NoMessage>>)
      /\ UNCHANGED <<state, events, index, cb, todo, batch, downs>>
  BY DEF ServerRemoves, Queue, channelVars, loopVars
<1>3. state = "kDisconnected"
  <2>1. ~Fresh
    BY <1>2 DEF Fresh
  <2>2. ~StateIsOpen
    BY <1>1, <1>2 DEF OpenIsWatched
  <2> QED
    BY <2>1, <2>2 DEF Life, Base, TypeOK, Begun, StateIsOpen
<1>4. AtServer /\ downs = 1 /\ events = {} /\ todo \in AfterRead
  BY <1>1, <1>2, <1>3 DEF DownGoesOut, AtUser, AtQueue, Past
<1>5. ~inServer' /\ ~failed'
  BY <1>4 DEF ServerRemoves, AtServer
<1>6. QueuedOnce("connectDestroyed")'
  <2>1. /\ <<"connectDestroyed", NoMessage>> \in Entry
        /\ <<"connectDestroyed", NoMessage>>[1] = "connectDestroyed"
    BY DEF Entry, FunctorName, Message
  <2>2. ~In("connectDestroyed", pending) /\ ~In("connectDestroyed", batch)
    BY <1>4 DEF AtServer, NotQueued
  <2>3. Once("connectDestroyed", pending')
    BY <1>1, <1>2, <2>1, <2>2, OnceAppend
  <2> QED
    BY <1>2, <2>2, <2>3 DEF QueuedOnce, Once, In
<1>7. removing' = 0
  BY <1>2, <1>4 DEF AtServer
<1>8. AtQueue'
  BY <1>2, <1>4, <1>5, <1>6, <1>7 DEF AtQueue, AtServer
<1> QED
  BY <1>1, <1>2, <1>3, <1>4, <1>5, <1>8 DEF OpenIsWatched, DownGoesOut, StateIsOpen

\* The user callback returns, and after a down the server is told.
LEMMA ReturnOrderly ==
    ASSUME Life, Orderly, [Next]_vars, CallbackReturns
    PROVE  OpenIsWatched' /\ DownGoesOut' /\ cb' # "destroyed" /\ ~failed'
<1>1. /\ Base /\ Round /\ ThreadsSend /\ OpenIsWatched /\ DownGoesOut /\ ~failed
      /\ cb # "destroyed" /\ removing \in Nat
  BY DEF Life, Orderly, Base, TypeOK
<1>2. /\ UNCHANGED <<state, events, index, todo, batch, pending, downs, inServer>>
      /\ cb' = "none" /\ cb # "none" /\ failed' = failed
      /\ removing' = IF cb = "down" THEN removing + 1 ELSE removing
  BY <1>1 DEF CallbackReturns, CloseCallback
<1>3. CASE cb = "down"
  <2>1. state = "kDisconnected"
    <3>1. ~Fresh /\ ~StateIsOpen
      BY <1>1, <1>2, <1>3 DEF Fresh, OpenIsWatched
    <3> QED
      BY <3>1 DEF Life, Base, TypeOK, Begun, StateIsOpen
  <2>2. AtUser /\ downs = 1 /\ events = {} /\ todo \in AfterRead
    BY <1>1, <1>3, <2>1 DEF DownGoesOut, AtServer, AtQueue, Past
  <2>3. AtServer'
    BY <1>2, <1>3, <2>2 DEF AtUser, AtServer, NotQueued, In
  <2> QED
    BY <1>1, <1>2, <2>1, <2>2, <2>3 DEF OpenIsWatched, DownGoesOut, StateIsOpen
<1>4. CASE cb # "down"
  <2>1. ~ServerRemoves /\ ~RunConnectDestroyed
    BY <1>2 DEF ServerRemoves, loopVars, RunConnectDestroyed, Running
  <2>2. OpenIsWatched' /\ DownGoesOut'
    BY <1>1, <1>2, <1>4, <2>1, StaysInPlace DEF StateIsOpen, OpenIsWatched
  <2> QED
    BY <1>1, <1>2, <2>2
<1> QED
  BY <1>3, <1>4

\* Every step keeps the order.
LEMMA OrderlyStep ==
    ASSUME OneLoopCloses, Life, Orderly, [Next]_vars
    PROVE  Orderly'
<1>1. /\ Base /\ Round /\ ThreadsSend /\ OpenIsWatched /\ DownGoesOut /\ ~failed
      /\ cb # "destroyed"
  BY DEF Life, Orderly
<1>2. Round' /\ ThreadsSend' /\ \A t \in Threads : ~ThreadStores(t)
  BY <1>1, AddedReads, RoundStep, ThreadsSendStep
<1> DEFINE Quiet == \/ EndDispatch \/ EndFunctors
                    \/ (\E w \in BOOLEAN : Poll(w))
                    \/ (\E t \in Threads : ThreadTests(t) \/ ThreadPushes(t))
                    \/ PeerSends \/ PeerCloses \/ PeerResets \/ UNCHANGED vars
<1>3. CASE Quiet
  <2>1. /\ UNCHANGED <<state, events, index, cb, downs, removing, inServer>>
        /\ failed' = failed
    BY <1>3 DEF EndDispatch, EndFunctors, Poll, ThreadTests, ThreadPushes, PeerSends,
        PeerCloses, PeerResets, vars, channelVars, loopVars, lifeVars
  <2>2. ~ServerRemoves
    <3>1. ASSUME ServerRemoves PROVE removing' # removing
      BY <1>1, <3>1 DEF ServerRemoves, Base, TypeOK
    <3> QED
      BY <2>1, <3>1
  <2>3. ASSUME ~RunConnectDestroyed PROVE OpenIsWatched' /\ DownGoesOut'
    BY <1>1, <2>1, <2>2, <2>3, StaysInPlace DEF StateIsOpen, OpenIsWatched
  <2>4. ASSUME RunConnectDestroyed PROVE OpenIsWatched' /\ DownGoesOut'
    BY <2>4, FunctorOrderly DEF Functor
  <2> QED
    BY <1>1, <1>2, <2>1, <2>3, <2>4 DEF Orderly
<1>4. CASE Destroy
  <2>1. state = "kDisconnected"
    <3>1. ~Fresh /\ ~StateIsOpen
      BY <1>1, <1>4 DEF Destroy, Fresh, OpenIsWatched
    <3> QED
      BY <3>1 DEF Life, Base, TypeOK, Begun, StateIsOpen
  <2>2. /\ UNCHANGED <<state, events, index, cb, todo, batch, pending, downs,
                       removing, inServer>>
        /\ failed' <=> index # "kNew"
    BY <1>4, <2>1 DEF Destroy, channelVars, loopVars
  <2>3. (NotQueued("connectDestroyed") => NotQueued("connectDestroyed")')
        /\ (QueuedOnce("connectDestroyed") => QueuedOnce("connectDestroyed")')
    BY <2>2 DEF NotQueued, QueuedOnce, Once, In
  <2>4. OpenIsWatched' /\ DownGoesOut'
    BY <1>1, <2>1, <2>2, <2>3
    DEF OpenIsWatched, DownGoesOut, StateIsOpen, AtUser, AtServer, AtQueue, Past
  <2>5. index = "kNew"
    <3>1. ~QueuedOnce("connectDestroyed")
      BY <1>4 DEF Destroy, QueuedOnce, Once, In
    <3>2. ~inServer /\ removing = 0
      BY <1>4 DEF Destroy
    <3> QED
      BY <1>1, <2>1, <3>1, <3>2 DEF DownGoesOut, AtUser, AtServer, AtQueue, Past
  <2> QED
    BY <1>1, <1>2, <2>2, <2>4, <2>5 DEF Orderly
<1>5. ~ServerDestructs
  BY DEF ServerDestructs, OneLoopCloses
<1>6. CASE Handler \/ Functor \/ OwnerCall \/ DelayExpires \/ ServerRemoves \/ CallbackReturns
  BY <1>2, <1>6, HandlerOrderly, FunctorOrderly, OwnerOrderly, ServerOrderly, ReturnOrderly
  DEF Orderly
<1> QED
  BY <1>2, <1>3, <1>4, <1>5, <1>6 DEF Next, LoopStep

\* The way of a connection that only its loop takes down, in every state.
LEMMA OrderlyInductive ==
    ASSUME OneLoopCloses
    PROVE  Spec => [](Life /\ Orderly)
<1>1. Init => Orderly
  <2> SUFFICES ASSUME Init PROVE Orderly
    OBVIOUS
  <2>1. /\ \A f \in {"startRead", "stopRead"} :
             ~In(f, <<<<"connectEstablished", NoMessage>>>>) /\ ~In(f, <<>>)
    BY DEF In
  <2>2. ThreadsSend
    BY <2>1 DEF Init, ThreadsSend, NotQueued, Out
  <2>3. Round
    BY DEF Init, Round, Dispatch, AfterRead
  <2> QED
    BY <2>2, <2>3 DEF Init, Orderly, OpenIsWatched, DownGoesOut, StateIsOpen
<1>2. Life /\ Life' /\ Orderly /\ [Next]_vars => Orderly'
  BY OrderlyStep
<1> QED
  BY <1>1, <1>2, LifeInductive, PTL DEF Spec

\* No assertion of the connection, of its channel or of the server's map fails,
\* for any number of sending threads and any callbacks of the loop that send,
\* shut down and force the connection closed, with or without delay.
THEOREM AssertionsHold ==
    ASSUME OneLoopCloses
    PROVE  Spec => []NoAssertionFails
<1>1. Orderly => NoAssertionFails
  BY DEF Orderly, NoAssertionFails
<1> QED
  BY <1>1, OrderlyInductive, PTL

\* The user hears once that the connection is up and then at most once that it
\* is down, whichever of handleRead(), forceClose() and the timer comes first.
THEOREM UpThenDownOnceHolds ==
    ASSUME OneLoopCloses
    PROVE  Spec => []UpThenDownOnce
<1>1. Life /\ Orderly => UpThenDownOnce
  <2> SUFFICES ASSUME Life, Orderly PROVE UpThenDownOnce
    OBVIOUS
  <2>1. CASE Fresh
    BY <2>1 DEF Fresh, UpThenDownOnce
  <2>2. CASE Begun
    <3>1. StateIsOpen \/ state = "kDisconnected"
      BY <2>2 DEF Life, Base, TypeOK, Begun, StateIsOpen
    <3>2. ups = 1 /\ downs \in {0, 1}
      BY <2>2, <3>1 DEF Begun, Orderly, OpenIsWatched, DownGoesOut
    <3> QED
      BY <3>2 DEF UpThenDownOnce
  <2> QED
    BY <2>1, <2>2 DEF Life
<1> QED
  BY <1>1, OrderlyInductive, PTL

\* No message callback follows the callback that said down.
THEOREM DownIsTheLast ==
    ASSUME OneLoopCloses
    PROVE  Spec => DownIsLast
<1>1. Life /\ Orderly /\ [Next]_vars
      => [cb' = "message" /\ cb # "message" => downs = 0]_vars
  <2> SUFFICES ASSUME Life, Orderly, Next, cb' = "message", cb # "message"
               PROVE  downs = 0
    OBVIOUS
  <2>1. OnRead
    <3>1. CASE Handler
      BY <3>1 DEF Handler, OnClose, OnError, OnWrite, HandleClose
    <3>2. CASE Functor
      BY <3>2 DEF Functor, RunConnectEstablished, RunConnectDestroyed, RunSendInLoop,
          RunShutdownInLoop, RunForceCloseInLoop, RunReadControl, RunUserFunctor,
          HandleClose, ConnectDestroyed
    <3>3. CASE ~Handler /\ ~Functor
      BY <3>3 DEF Next, LoopStep, EndDispatch, EndFunctors, CallbackReturns, OwnerCall,
          DelayExpires, OwnerShutdown, OwnerForceClose, OwnerForceCloseWithDelay,
          OwnerReadControl, OwnerSend, ServerRemoves, ServerDestructs, ConnectDestroyed,
          Destroy, PeerSends, PeerCloses, PeerResets, ThreadTests, ThreadStores,
          ThreadPushes, Poll, loopVars
    <3> QED
      BY <3>1, <3>2, <3>3
  <2>2. todo # <<>> /\ Head(todo) = "read" /\ todo \in Dispatch
    BY <2>1 DEF OnRead, Dispatching, Orderly, Round
  <2>3. todo \notin AfterRead
    BY <2>2, DispatchOrder
  <2>4. ~Fresh
    BY <2>2 DEF Fresh
  <2>5. StateIsOpen
    BY <2>3, <2>4 DEF Life, Base, TypeOK, Begun, StateIsOpen, Orderly, DownGoesOut
  <2> QED
    BY <2>5 DEF Orderly, OpenIsWatched
<1> QED
  BY <1>1, OrderlyInductive, PTL DEF Spec, DownIsLast

=============================================================================
