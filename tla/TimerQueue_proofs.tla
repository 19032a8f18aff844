--------------------------- MODULE TimerQueue_proofs ---------------------------
(***************************************************************************)
(* Proofs about TimerQueue for any set of timers, any intervals and delays *)
(* and any number of waiting calls: the two indexes of waiting timers are  *)
(* the same, no timer is in two places, the timerfd covers the earliest    *)
(* timer, and a cancelled timer does not come back.                        *)
(***************************************************************************)
EXTENDS TimerQueue, SequenceTheorems, TLAPS

(* Position i of the queue holds a call of addTimerInLoop().                *)
IsAdd(i) == pending[i][1] = "add"

(* A timer is handed over once, and not cancelled before that.              *)
AddsDistinct ==
    \A i, j \in DOMAIN pending :
        IsAdd(i) /\ IsAdd(j) /\ pending[i][2] = pending[j][2] => i = j
AddsNotCancelled ==
    \A i \in DOMAIN pending : IsAdd(i) => pending[i][2] \notin cancelled

(* cancelingTimers_ has every cancelled timer of the pass, so that reset()  *)
(* leaves it out.                                                           *)
PassKnowsCancelled == calling => cancelled \cap activeTimers \subseteq canceling

Places ==
    /\ WaitMirrorsTimers /\ InOnePlace /\ CancelledStaysOut
    /\ AddsDistinct /\ AddsNotCancelled /\ PassKnowsCancelled

IInv == TypeOK /\ Places /\ TimerfdCoversEarliest

-----------------------------------------------------------------------------
(* The queue of calls.                                                      *)

\* What a push of another thread leaves in the queue.
LEMMA AppendFacts ==
    ASSUME NEW S, NEW s \in Seq(S), NEW e \in S
    PROVE  /\ DOMAIN s = 1 .. Len(s) /\ Len(s) \in Nat
           /\ DOMAIN Append(s, e) = 1 .. (Len(s) + 1)
           /\ \A i \in 1 .. Len(s) : Append(s, e)[i] = s[i]
           /\ Append(s, e)[Len(s) + 1] = e
  BY AppendProperties, LenProperties

\* What the loop leaves in the queue when it takes up the first call.
LEMMA TailFacts ==
    ASSUME NEW S, NEW s \in Seq(S), s # <<>>
    PROVE  /\ DOMAIN s = 1 .. Len(s) /\ Len(s) \in Nat /\ Len(s) > 0
           /\ Head(s) = s[1] /\ Head(s) \in S
           /\ Tail(s) \in Seq(S)
           /\ DOMAIN Tail(s) = 1 .. (Len(s) - 1)
           /\ \A i \in 1 .. (Len(s) - 1) : Tail(s)[i] = s[i + 1]
  BY HeadTailProperties, LenProperties, EmptySeq

\* A difference of times is never negative.
LEMMA MinusType == \A a, b \in Nat : Minus(a, b) \in Nat
  BY DEF Minus

-----------------------------------------------------------------------------
\* addTimerInLoop(t) for a timer that is nowhere yet keeps every timer in one
\* place.
LEMMA AddKeepsPlaces ==
    ASSUME TypeOK, Places, NEW t \in Timers, NEW d, AddTimerInLoop(t, d),
           t \notin timers \cup free \cup activeTimers \cup cancelled,
           UNCHANGED pending \/ (pending # <<>> /\ pending' = Tail(pending)),
           \A i \in DOMAIN pending' : pending'[i][1] = "add" => pending'[i][2] # t
    PROVE  Places'
<1> USE DEF Places
<1>1. pending \in Seq({"add", "cancel"} \X created)
  BY DEF TypeOK
<1>2. \A i \in DOMAIN pending' : \E j \in DOMAIN pending : pending'[i] = pending[j]
  <2>1. CASE UNCHANGED pending
    BY <2>1
  <2>2. CASE pending # <<>> /\ pending' = Tail(pending)
    BY <1>1, <2>2, TailFacts
  <2> QED
    BY <2>1, <2>2
<1>3. WaitMirrorsTimers' /\ CancelledStaysOut' /\ PassKnowsCancelled'
  BY DEF AddTimerInLoop, WaitMirrorsTimers, CancelledStaysOut, PassKnowsCancelled
<1>4. InOnePlace'
  BY <1>2 DEF AddTimerInLoop, InOnePlace
<1>5. AddsNotCancelled'
  BY <1>2 DEF AddTimerInLoop, AddsNotCancelled, IsAdd
<1>6. AddsDistinct'
  <2>1. CASE UNCHANGED pending
    BY <2>1 DEF AddsDistinct, IsAdd
  <2>2. CASE pending # <<>> /\ pending' = Tail(pending)
    BY <1>1, <2>2, TailFacts DEF AddsDistinct, IsAdd
  <2> QED
    BY <2>1, <2>2
<1> QED
  BY <1>3, <1>4, <1>5, <1>6

\* cancelInLoop(t) keeps every timer in one place.
LEMMA CancelKeepsPlaces ==
    ASSUME TypeOK, Places, NEW t \in Timers, CancelInLoop(t),
           UNCHANGED pending \/ (pending # <<>> /\ pending' = Tail(pending))
    PROVE  Places'
<1> USE DEF Places
<1>1. pending \in Seq({"add", "cancel"} \X created)
  BY DEF TypeOK
<1>2. \A i \in DOMAIN pending' : \E j \in DOMAIN pending : pending'[i] = pending[j]
  <2>1. CASE UNCHANGED pending
    BY <2>1
  <2>2. CASE pending # <<>> /\ pending' = Tail(pending)
    BY <1>1, <2>2, TailFacts
  <2> QED
    BY <2>1, <2>2
<1>3. WaitMirrorsTimers' /\ CancelledStaysOut' /\ PassKnowsCancelled'
  BY DEF CancelInLoop, WaitMirrorsTimers, CancelledStaysOut, PassKnowsCancelled,
         InOnePlace
<1>4. InOnePlace'
  BY <1>2 DEF CancelInLoop, FreeAfterCancel, InOnePlace, WaitMirrorsTimers
<1>5. AddsNotCancelled'
  BY <1>2 DEF CancelInLoop, AddsNotCancelled, IsAdd, InOnePlace, WaitMirrorsTimers
<1>6. AddsDistinct'
  <2>1. CASE UNCHANGED pending
    BY <2>1 DEF AddsDistinct, IsAdd
  <2>2. CASE pending # <<>> /\ pending' = Tail(pending)
    BY <1>1, <2>2, TailFacts DEF AddsDistinct, IsAdd
  <2> QED
    BY <2>1, <2>2
<1> QED
  BY <1>3, <1>4, <1>5, <1>6

\* Every step keeps every timer in one place.
LEMMA PlacesStep == TypeOK /\ Places /\ [Next]_vars => Places'
<1> SUFFICES ASSUME TypeOK, Places, [Next]_vars PROVE Places'
  OBVIOUS
<1>0. pending \in Seq({"add", "cancel"} \X created)
  BY DEF TypeOK
<1>1. CASE Tick
  BY <1>1 DEF Tick, Places, WaitMirrorsTimers, InOnePlace, CancelledStaysOut,
         AddsDistinct, AddsNotCancelled, PassKnowsCancelled, IsAdd
<1>2. CASE HandleRead
  BY <1>2 DEF HandleRead, Expired, WaitAfterExpiry, Places, WaitMirrorsTimers,
         InOnePlace, CancelledStaysOut, AddsDistinct, AddsNotCancelled,
         PassKnowsCancelled, IsAdd
<1>3. CASE EndHandleRead
  BY <1>3 DEF EndHandleRead, Restarts, Places, WaitMirrorsTimers, InOnePlace,
         CancelledStaysOut, AddsDistinct, AddsNotCancelled, PassKnowsCancelled,
         IsAdd
<1>4. ASSUME NEW t \in Timers, RunTimer(t) PROVE Places'
  BY <1>4 DEF RunTimer, Places, WaitMirrorsTimers, InOnePlace, CancelledStaysOut,
         AddsDistinct, AddsNotCancelled, PassKnowsCancelled, IsAdd
<1>5. ASSUME NEW t \in Timers, NEW d \in Delays, OwnerAddTimer(t, d) PROVE Places'
  <2>1. t \notin timers \cup free \cup activeTimers \cup cancelled
    BY <1>5 DEF OwnerAddTimer, TypeOK
  <2>2. \A i \in DOMAIN pending : pending[i] \in {"add", "cancel"} \X created
    BY <1>0
  <2>3. \A i \in DOMAIN pending' : pending'[i][1] = "add" => pending'[i][2] # t
    BY <1>5, <2>2 DEF OwnerAddTimer
  <2> QED
    BY <1>5, <2>1, <2>3, AddKeepsPlaces DEF OwnerAddTimer
<1>6. ASSUME NEW t \in Timers, OwnerCancel(t) PROVE Places'
  BY <1>6, CancelKeepsPlaces DEF OwnerCancel
<1>7. CASE RunAdd
  <2> DEFINE t == Head(pending)[2]
  <2>1. t = pending[1][2] /\ IsAdd(1) /\ 1 \in DOMAIN pending /\ t \in Timers
    BY <1>0, <1>7, TailFacts DEF RunAdd, IsAdd, TypeOK
  <2>2. t \notin timers \cup free \cup activeTimers \cup cancelled
    BY <2>1 DEF Places, InOnePlace, AddsNotCancelled, IsAdd
  <2>3. \A i \in DOMAIN pending' : pending'[i][1] = "add" => pending'[i][2] # t
    BY <1>0, <1>7, <2>1, TailFacts DEF RunAdd, Places, AddsDistinct, IsAdd
  <2> QED
    BY <1>7, <2>1, <2>2, <2>3, AddKeepsPlaces DEF RunAdd
<1>8. CASE RunCancel
  <2>1. Head(pending)[2] \in Timers
    BY <1>0, <1>8, TailFacts DEF RunCancel, TypeOK
  <2> QED
    BY <1>8, <2>1, CancelKeepsPlaces DEF RunCancel
<1>9. ASSUME NEW t \in Timers, NEW d \in Delays, AddTimer(t, d) PROVE Places'
  <2>0. <<"add", t>> \in {"add", "cancel"} \X created'
    BY <1>9 DEF AddTimer
  <2>1. pending \in Seq({"add", "cancel"} \X created')
    BY <1>0, <1>9, SeqMonotonic DEF AddTimer
  <2>2. \A i \in DOMAIN pending : pending[i] \in {"add", "cancel"} \X created
    BY <1>0
  <2>3. /\ DOMAIN pending = 1 .. Len(pending) /\ Len(pending) \in Nat
        /\ DOMAIN pending' = 1 .. (Len(pending) + 1)
        /\ \A i \in 1 .. Len(pending) : pending'[i] = pending[i]
        /\ pending'[Len(pending) + 1] = <<"add", t>>
    BY <1>9, <2>0, <2>1, AppendFacts DEF AddTimer
  <2>4. t \notin timers \cup free \cup activeTimers \cup cancelled \cup created
    BY <1>9 DEF AddTimer, TypeOK
  <2>5. UNCHANGED <<timers, waitTimers, activeTimers, toRun, canceling, free,
                    calling, cancelled>>
    BY <1>9 DEF AddTimer
  <2> QED
    BY <2>2, <2>3, <2>4, <2>5 DEF Places, WaitMirrorsTimers, InOnePlace,
        CancelledStaysOut, AddsDistinct, AddsNotCancelled, PassKnowsCancelled,
        IsAdd
<1>10. ASSUME NEW t \in Timers, Cancel(t) PROVE Places'
  <2>1. <<"cancel", t>> \in {"add", "cancel"} \X created
    BY <1>10 DEF Cancel
  <2>2. /\ DOMAIN pending = 1 .. Len(pending) /\ Len(pending) \in Nat
        /\ DOMAIN pending' = 1 .. (Len(pending) + 1)
        /\ \A i \in 1 .. Len(pending) : pending'[i] = pending[i]
        /\ pending'[Len(pending) + 1] = <<"cancel", t>>
    BY <1>0, <1>10, <2>1, AppendFacts DEF Cancel
  <2>3. UNCHANGED <<timers, waitTimers, activeTimers, toRun, canceling, free,
                    calling, cancelled>>
    BY <1>10 DEF Cancel
  <2> QED
    BY <2>2, <2>3 DEF Places, WaitMirrorsTimers, InOnePlace,
        CancelledStaysOut, AddsDistinct, AddsNotCancelled, PassKnowsCancelled,
        IsAdd
<1>11. CASE UNCHANGED vars
  BY <1>11 DEF vars, Places, WaitMirrorsTimers, InOnePlace, CancelledStaysOut,
         AddsDistinct, AddsNotCancelled, PassKnowsCancelled, IsAdd
<1> QED
  BY <1>1, <1>2, <1>3, <1>4, <1>5, <1>6, <1>7, <1>8, <1>9, <1>10, <1>11 DEF Next

-----------------------------------------------------------------------------
\* resetTimerfd() arms the timerfd for a time in the future.
LEMMA ResetType ==
    ASSUME NEW d \in Nat, ResetTimerfd(d)
    PROVE  fdLeft' \in Nat /\ fdLeft' > 0 /\ fdReadable' = FALSE
  BY DEF ResetTimerfd, HowMuchTimeFromNow

\* addTimerInLoop() keeps the types of what it changes.
LEMMA AddType ==
    ASSUME TypeOK, NEW t \in created', created \subseteq created',
           NEW d \in [Timers -> Nat], t \in Timers, AddTimerInLoop(t, d)
    PROVE  /\ timers' \in SUBSET created' /\ waitTimers' \in SUBSET created'
           /\ activeTimers' \in SUBSET created' /\ toRun' \in SUBSET activeTimers'
           /\ currentTimer' \in created' \cup {NoTimer}
           /\ canceling' \in SUBSET created' /\ free' \in SUBSET created'
           /\ calling' \in BOOLEAN /\ elapsed' \in Nat
           /\ fdLeft' \in Nat /\ fdReadable' \in BOOLEAN
           /\ cancelled' \in SUBSET created'
<1>1. fdLeft' \in Nat /\ fdReadable' \in BOOLEAN
  <2>1. d[t] \in Nat
    OBVIOUS
  <2>2. CASE ResetTimerfd(d[t])
    BY <2>1, <2>2, ResetType
  <2>3. CASE UNCHANGED <<fdLeft, fdReadable>>
    BY <2>3 DEF TypeOK
  <2> QED
    BY <2>2, <2>3 DEF AddTimerInLoop
<1> QED
  BY <1>1 DEF AddTimerInLoop, TypeOK

\* cancelInLoop() keeps the types of what it changes.
LEMMA CancelType ==
    ASSUME TypeOK, NEW t \in created, CancelInLoop(t),
           pending' \in Seq({"add", "cancel"} \X created)
    PROVE  TypeOK'
  BY DEF CancelInLoop, FreeAfterCancel, TypeOK

\* Every step keeps the types.
LEMMA TypeStep == TypeOK /\ [Next]_vars => TypeOK'
<1> SUFFICES ASSUME TypeOK, [Next]_vars PROVE TypeOK'
  OBVIOUS
<1> USE TimersAssumption
<1>0. pending \in Seq({"add", "cancel"} \X created)
  BY DEF TypeOK
<1>1. CASE Tick
  <2>1. due' \in [Timers -> Nat] /\ fdLeft' \in Nat
    BY <1>1, MinusType DEF Tick, TypeOK
  <2>2. elapsed' \in Nat
    BY <1>1 DEF Tick, TypeOK
  <2>3. fdReadable' \in BOOLEAN
    BY <1>1 DEF Tick, TypeOK
  <2> QED
    BY <1>1, <2>1, <2>2, <2>3 DEF Tick, TypeOK
<1>2. CASE HandleRead
  BY <1>2 DEF HandleRead, Expired, WaitAfterExpiry, TypeOK
<1>3. CASE EndHandleRead
  <2> DEFINE again == {t \in activeTimers : Restarts(t)}
             next == [t \in Timers |-> IF t \in again
                                       THEN Minus(Interval[t], elapsed)
                                       ELSE due[t]]
  <2>1. next \in [Timers -> Nat]
    BY MinusType DEF TypeOK
  <2>2. fdLeft' \in Nat /\ fdReadable' \in BOOLEAN
    <3>1. CASE UNCHANGED <<fdLeft, fdReadable>>
      BY <3>1 DEF TypeOK
    <3>2. CASE \E first \in timers' : ResetTimerfd(next[first])
      <4>1. timers' \subseteq Timers
        BY <1>3 DEF EndHandleRead, TypeOK
      <4> QED
        BY <2>1, <3>2, <4>1, ResetType
    <3> QED
      BY <1>3, <3>1, <3>2 DEF EndHandleRead
  <2> QED
    BY <1>3, <2>1, <2>2 DEF EndHandleRead, TypeOK
<1>4. ASSUME NEW t \in Timers, RunTimer(t) PROVE TypeOK'
  BY <1>4 DEF RunTimer, TypeOK
<1>5. ASSUME NEW t \in Timers, NEW d \in Delays, OwnerAddTimer(t, d) PROVE TypeOK'
  <2>1. DueAfterAdd(t, d) \in [Timers -> Nat]
    BY DEF DueAfterAdd, TypeOK
  <2>2. pending' \in Seq({"add", "cancel"} \X created')
    BY <1>0, <1>5, SeqMonotonic DEF OwnerAddTimer
  <2> QED
    BY <1>5, <2>1, <2>2, AddType DEF OwnerAddTimer, TypeOK
<1>6. ASSUME NEW t \in Timers, OwnerCancel(t) PROVE TypeOK'
  BY <1>0, <1>6, CancelType DEF OwnerCancel
<1>7. CASE RunAdd
  <2>1. Head(pending)[2] \in created /\ Head(pending)[2] \in Timers
    BY <1>0, <1>7, TailFacts DEF RunAdd, TypeOK
  <2>2. pending' \in Seq({"add", "cancel"} \X created')
    BY <1>0, <1>7, TailFacts DEF RunAdd
  <2>3. due \in [Timers -> Nat]
    BY DEF TypeOK
  <2> QED
    BY <1>7, <2>1, <2>2, <2>3, AddType DEF RunAdd, TypeOK
<1>8. CASE RunCancel
  <2>1. Head(pending)[2] \in created
    BY <1>0, <1>8, TailFacts DEF RunCancel
  <2>2. pending' \in Seq({"add", "cancel"} \X created)
    BY <1>0, <1>8, TailFacts DEF RunCancel
  <2> QED
    BY <1>8, <2>1, <2>2, CancelType DEF RunCancel
<1>9. ASSUME NEW t \in Timers, NEW d \in Delays, AddTimer(t, d) PROVE TypeOK'
  <2>1. DueAfterAdd(t, d) \in [Timers -> Nat]
    BY DEF DueAfterAdd, TypeOK
  <2>2. pending \in Seq({"add", "cancel"} \X created')
    BY <1>0, <1>9, SeqMonotonic DEF AddTimer
  <2>3. <<"add", t>> \in {"add", "cancel"} \X created'
    BY <1>9 DEF AddTimer
  <2>4. pending' \in Seq({"add", "cancel"} \X created')
    BY <1>9, <2>2, <2>3, AppendProperties DEF AddTimer
  <2> QED
    BY <1>9, <2>1, <2>4 DEF AddTimer, TypeOK
<1>10. ASSUME NEW t \in Timers, Cancel(t) PROVE TypeOK'
  <2>1. <<"cancel", t>> \in {"add", "cancel"} \X created
    BY <1>10 DEF Cancel
  <2>2. pending' \in Seq({"add", "cancel"} \X created)
    BY <1>0, <1>10, <2>1, AppendProperties DEF Cancel
  <2> QED
    BY <1>10, <2>2 DEF Cancel, TypeOK
<1>11. CASE UNCHANGED vars
  BY <1>11 DEF vars, TypeOK
<1> QED
  BY <1>1, <1>2, <1>3, <1>4, <1>5, <1>6, <1>7, <1>8, <1>9, <1>10, <1>11 DEF Next

-----------------------------------------------------------------------------
(* The timerfd.                                                             *)

\* addTimerInLoop() keeps the earliest timer covered: a timer that becomes the
\* earliest one arms the timerfd, any other is no earlier than a covered one.
LEMMA AddCovers ==
    ASSUME TypeOK, TimerfdCoversEarliest, ~calling, NEW t \in Timers,
           NEW d \in [Timers -> Nat], AddTimerInLoop(t, d),
           \A u \in timers : d[u] = due[u], due' = d
    PROVE  TimerfdCoversEarliest'
<1>1. timers \subseteq Timers /\ fdLeft \in Nat /\ due \in [Timers -> Nat]
  BY DEF TypeOK
<1>2. \A u \in timers : fdReadable \/ (fdLeft > 0 /\ fdLeft <= HowMuchTimeFromNow(due[u]))
  BY DEF TimerfdCoversEarliest
<1>3. CASE EarliestChanged(t, timers, d)
  BY <1>1, <1>3 DEF AddTimerInLoop, EarliestChanged, ResetTimerfd,
     HowMuchTimeFromNow, TimerfdCoversEarliest
<1>4. CASE ~EarliestChanged(t, timers, d)
  <2>1. PICK u \in timers : d[u] <= d[t]
    BY <1>1, <1>4 DEF EarliestChanged
  <2>2. HowMuchTimeFromNow(due[u]) <= HowMuchTimeFromNow(d[t])
    BY <1>1, <2>1 DEF HowMuchTimeFromNow
  <2>3. UNCHANGED <<fdLeft, fdReadable>> /\ timers' = timers \cup {t}
    BY <1>4 DEF AddTimerInLoop
  <2>4. fdReadable \/ (fdLeft > 0 /\ fdLeft <= HowMuchTimeFromNow(d[t]))
    BY <1>1, <1>2, <2>1, <2>2 DEF HowMuchTimeFromNow
  <2> QED
    BY <1>2, <2>3, <2>4 DEF TimerfdCoversEarliest
<1> QED
  BY <1>3, <1>4

\* Every step keeps the earliest timer covered.
LEMMA CoverStep ==
    TypeOK /\ Places /\ TimerfdCoversEarliest /\ [Next]_vars
        => TimerfdCoversEarliest'
<1> SUFFICES ASSUME TypeOK, Places, TimerfdCoversEarliest, [Next]_vars
             PROVE  TimerfdCoversEarliest'
  OBVIOUS
<1> USE TimersAssumption
<1>0. pending \in Seq({"add", "cancel"} \X created)
  BY DEF TypeOK
<1>1. CASE Tick
  <2> SUFFICES ASSUME ~calling', NEW t \in timers', ~fdReadable'
               PROVE  fdLeft' > 0 /\ fdLeft' <= HowMuchTimeFromNow(due'[t])
    BY DEF TimerfdCoversEarliest
  <2>1. /\ t \in timers /\ t \in Timers /\ ~calling /\ ~fdReadable /\ fdLeft # 1
        /\ due'[t] = Minus(due[t], 1) /\ fdLeft' = Minus(fdLeft, 1)
    BY <1>1 DEF Tick, TypeOK
  <2>2. fdLeft > 0 /\ fdLeft <= HowMuchTimeFromNow(due[t])
    BY <2>1 DEF TimerfdCoversEarliest
  <2>3. fdLeft \in Nat /\ due[t] \in Nat
    BY <2>1 DEF TypeOK
  <2> QED
    BY <2>1, <2>2, <2>3 DEF Minus, HowMuchTimeFromNow
<1>2. CASE HandleRead
  BY <1>2 DEF HandleRead, TimerfdCoversEarliest
<1>3. CASE EndHandleRead
  <2> DEFINE again == {t \in activeTimers : Restarts(t)}
             next == [t \in Timers |-> IF t \in again
                                       THEN Minus(Interval[t], elapsed)
                                       ELSE due[t]]
  <2>1. next \in [Timers -> Nat]
    BY MinusType DEF TypeOK
  <2>2. timers' = timers \cup again /\ due' = next /\ timers' \subseteq Timers
    BY <1>3 DEF EndHandleRead, TypeOK
  <2>3. CASE timers' = {}
    BY <2>3 DEF TimerfdCoversEarliest
  <2>4. CASE timers' # {}
    <3>1. PICK first \in timers' : /\ \A t \in timers' : next[first] <= next[t]
                                   /\ ResetTimerfd(next[first])
      BY <1>3, <2>2, <2>4 DEF EndHandleRead, ReArms
    <3> HIDE DEF next, again
    <3>2. /\ fdLeft' = HowMuchTimeFromNow(next[first])
          /\ \A t \in timers' : next[first] <= next[t]
          /\ \A t \in timers' : next[t] \in Nat
      BY <2>1, <2>2, <3>1 DEF ResetTimerfd
    <3> QED
      BY <2>2, <3>2 DEF HowMuchTimeFromNow, TimerfdCoversEarliest
  <2> QED
    BY <2>3, <2>4
<1>4. ASSUME NEW t \in Timers, RunTimer(t) PROVE TimerfdCoversEarliest'
  BY <1>4 DEF RunTimer, TimerfdCoversEarliest
<1>5. ASSUME NEW t \in Timers, NEW d \in Delays, OwnerAddTimer(t, d)
      PROVE  TimerfdCoversEarliest'
  <2>1. CASE calling
    BY <1>5, <2>1 DEF OwnerAddTimer, AddTimerInLoop, TimerfdCoversEarliest
  <2>2. CASE ~calling
    <3>1. DueAfterAdd(t, d) \in [Timers -> Nat]
      BY DEF DueAfterAdd, TypeOK
    <3>2. \A u \in timers : DueAfterAdd(t, d)[u] = due[u]
      BY <1>5 DEF OwnerAddTimer, DueAfterAdd, TypeOK
    <3> QED
      BY <1>5, <2>2, <3>1, <3>2, AddCovers DEF OwnerAddTimer
  <2> QED
    BY <2>1, <2>2
<1>6. ASSUME NEW t \in Timers, OwnerCancel(t) PROVE TimerfdCoversEarliest'
  BY <1>6 DEF OwnerCancel, CancelInLoop, TimerfdCoversEarliest
<1>7. CASE RunAdd
  <2>1. Head(pending)[2] \in Timers
    BY <1>0, <1>7, TailFacts DEF RunAdd, TypeOK
  <2>2. due \in [Timers -> Nat] /\ due' = due /\ ~calling
        /\ AddTimerInLoop(Head(pending)[2], due)
    BY <1>7 DEF RunAdd, TypeOK
  <2> QED
    BY <2>1, <2>2, AddCovers
<1>8. CASE RunCancel
  BY <1>8 DEF RunCancel, CancelInLoop, TimerfdCoversEarliest
<1>9. ASSUME NEW t \in Timers, NEW d \in Delays, AddTimer(t, d)
      PROVE  TimerfdCoversEarliest'
  BY <1>9 DEF AddTimer, DueAfterAdd, TimerfdCoversEarliest, TypeOK
<1>10. ASSUME NEW t \in Timers, Cancel(t) PROVE TimerfdCoversEarliest'
  BY <1>10 DEF Cancel, TimerfdCoversEarliest
<1>11. CASE UNCHANGED vars
  BY <1>11 DEF vars, TimerfdCoversEarliest
<1> QED
  BY <1>1, <1>2, <1>3, <1>4, <1>5, <1>6, <1>7, <1>8, <1>9, <1>10, <1>11 DEF Next

-----------------------------------------------------------------------------
\* The invariant holds in every reachable state.
LEMMA Inductive == Spec => []IInv
<1>1. Init => IInv
  <2>1. Init => TypeOK
    <3> SUFFICES ASSUME Init PROVE TypeOK
      OBVIOUS
    <3>1. due \in [Timers -> Nat]
      BY DEF Init
    <3>2. pending \in Seq({"add", "cancel"} \X created)
      BY DEF Init
    <3>3. calling \in BOOLEAN /\ fdReadable \in BOOLEAN
      BY DEF Init
    <3>4. /\ created \in SUBSET Timers /\ timers \in SUBSET created
          /\ waitTimers \in SUBSET created /\ activeTimers \in SUBSET created
          /\ toRun \in SUBSET activeTimers /\ currentTimer \in created \cup {NoTimer}
          /\ canceling \in SUBSET created /\ free \in SUBSET created
          /\ cancelled \in SUBSET created
      BY DEF Init
    <3>5. elapsed \in Nat /\ fdLeft \in Nat
      BY DEF Init
    <3> QED
      BY <3>1, <3>2, <3>3, <3>4, <3>5 DEF TypeOK
  <2>2. Init => Places /\ TimerfdCoversEarliest
    BY DEF Init, Places, WaitMirrorsTimers, InOnePlace, CancelledStaysOut,
           AddsDistinct, AddsNotCancelled, PassKnowsCancelled,
           TimerfdCoversEarliest
  <2> QED
    BY <2>1, <2>2 DEF IInv
<1>2. IInv /\ [Next]_vars => IInv'
  BY TypeStep, PlacesStep, CoverStep DEF IInv
<1> QED
  BY <1>1, <1>2, PTL DEF Spec

\* Every variable keeps its type.
THEOREM TypeCorrect == Spec => []TypeOK
<1>1. IInv => TypeOK
  BY DEF IInv
<1> QED
  BY <1>1, Inductive, PTL

\* timers_ and waitTimers_ hold the same timers, and no timer is in two of the
\* places the queue keeps timers in.
THEOREM EachTimerInOnePlace == Spec => [](WaitMirrorsTimers /\ InOnePlace)
<1>1. IInv => WaitMirrorsTimers /\ InOnePlace
  BY DEF IInv, Places
<1> QED
  BY <1>1, Inductive, PTL

\* The timerfd is armed for the earliest waiting timer or before it, whatever
\* callbacks and other threads add and cancel: no timer waits for a timerfd
\* that does not fire.
THEOREM TimerfdAlwaysCovers == Spec => []TimerfdCoversEarliest
<1>1. IInv => TimerfdCoversEarliest
  BY DEF IInv
<1> QED
  BY <1>1, Inductive, PTL

\* A timer that cancelInLoop() found does not wait again and does not run in a
\* later pass.
THEOREM CancelledNeverReturns == Spec => []CancelledStaysOut
<1>1. IInv => CancelledStaysOut
  BY DEF IInv, Places
<1> QED
  BY <1>1, Inductive, PTL

=============================================================================
