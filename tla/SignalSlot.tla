----------------------------- MODULE SignalSlot -----------------------------
(***************************************************************************)
(* Signal, SignalImpl and SlotImpl (pallette/SignalSlot.hpp).  The slot    *)
(* list is shared with the calls under way and copied before a write; the  *)
(* list holds weak references, and the destructor of a slot cleans it.     *)
(* Slots are connected in the order 1, 2, ...                              *)
(***************************************************************************)
EXTENDS Naturals, Sequences, FiniteSets

CONSTANTS
    Callers,        \* the threads that call the signal
    MaxSlots        \* bound: slots connected

ASSUME SignalAssumption == IsFiniteSet(Callers) /\ MaxSlots \in Nat

Slots == 1..MaxSlots
Versions == 0..Cardinality(Callers)     \* slot lists alive at a time

VARIABLES
    slotLists,      \* slotLists[v]: the contents of a SlotList
    current,        \* the version slots_ points to
    caller,         \* caller[t]: the version t iterates over, its position, its calls
    connected,      \* slots connected so far
    held,           \* slots with a Slot handle
    dying           \* slots whose last reference is gone and whose destructor runs

signalVars == <<slotLists, current, caller, connected, held, dying>>

Out == [at |-> "out", version |-> 0, next |-> 1, called |-> <<>>, entry |-> {}, kept |-> {}]

SignalInit ==
    /\ slotLists = [v \in Versions |-> <<>>]
    /\ current = 0
    /\ caller = [t \in Callers |-> Out]
    /\ connected = 0
    /\ held = {} /\ dying = {}

InCall(t) == caller[t].at # "out"

\* Some call holds a reference to the list: slots_.unique() is false.
Shared(v) == \E t \in Callers : InCall(t) /\ caller[t].version = v

\* The slot that t has locked for its callback
Locked(t) == IF caller[t].at = "callback"
             THEN {slotLists[caller[t].version][caller[t].next]} ELSE {}

Expired(s) == s \notin held /\ \A t \in Callers : s \notin Locked(t)

-----------------------------------------------------------------------------
(* A wrong variant: the list is written in place.                           *)

NoCopy == current

-----------------------------------------------------------------------------
\* copyOnWrite(): the version the write goes to
CopyOnWrite ==
    IF Shared(current) THEN CHOOSE v \in Versions : v # current /\ ~Shared(v) ELSE current

WriteList(list) ==
    /\ slotLists' = [slotLists EXCEPT ![CopyOnWrite] = list]
    /\ current' = CopyOnWrite

\* connect() and add()
ConnectSlot ==
    /\ connected < MaxSlots
    /\ connected' = connected + 1
    /\ held' = held \cup {connected + 1}
    /\ WriteList(Append(slotLists[current], connected + 1))
    /\ UNCHANGED <<caller, dying>>

\* A user drops the last handle of a slot; the destructor runs at once unless
\* a call has the slot locked.
DropSlot(s) ==
    /\ s \in held
    /\ held' = held \ {s}
    /\ dying' = IF \E t \in Callers : s \in Locked(t) THEN dying ELSE dying \cup {s}
    /\ caller' = [t \in Callers |-> [caller[t] EXCEPT !.kept = @ \ {s}]]
    /\ UNCHANGED <<slotLists, current, connected>>

\* The loop of clean(): every expired slot leaves the list.
Erase(list, gone) ==
    LET left[i \in 0..Len(list)] ==
          IF i = 0 THEN <<>>
          ELSE IF list[i] \in gone THEN left[i - 1] ELSE Append(left[i - 1], list[i])
    IN  left[Len(list)]

\* ~SlotImpl() and clean()
Clean(s) ==
    /\ s \in dying
    /\ dying' = dying \ {s}
    /\ WriteList(Erase(slotLists[current], {x \in 1..connected : Expired(x)}))
    /\ UNCHANGED <<caller, connected, held>>

-----------------------------------------------------------------------------
\* call(): the snapshot under the lock
CallSignal(t) ==
    /\ ~InCall(t)
    /\ caller' = [caller EXCEPT ![t] =
                    [at |-> "loop", version |-> current, next |-> 1, called |-> <<>>,
                     entry |-> {s \in 1..connected : ~Expired(s)}, kept |-> held]]
    /\ UNCHANGED <<slotLists, current, connected, held, dying>>

\* One turn of the loop: lock() the next slot and run its callback, or skip it.
NextSlot(t) ==
    LET c == caller[t]
        list == slotLists[c.version]
    IN  /\ c.at = "loop"
        /\ c.next <= Len(list)
        /\ caller' = [caller EXCEPT ![t] =
                        IF Expired(list[c.next]) THEN [c EXCEPT !.next = @ + 1]
                        ELSE [c EXCEPT !.at = "callback",
                                       !.called = Append(@, list[c.next])]]
        /\ UNCHANGED <<slotLists, current, connected, held, dying>>

\* The callback returns and the locked reference, perhaps the last, goes.
CallbackReturns(t) ==
    /\ caller[t].at = "callback"
    /\ caller' = [caller EXCEPT ![t].at = "loop", ![t].next = @ + 1]
    /\ dying' = dying \cup {s \in Locked(t) : s \notin held
                               /\ \A u \in Callers \ {t} : s \notin Locked(u)}
    /\ UNCHANGED <<slotLists, current, connected, held>>

\* The loop has ended; the snapshot goes, and the list with it if it was the
\* last reference.
LoopEnded(t) == caller[t].at = "loop" /\ caller[t].next > Len(slotLists[caller[t].version])

CallReturns(t) ==
    /\ LoopEnded(t)
    /\ caller' = [caller EXCEPT ![t] = Out]
    /\ slotLists' = [v \in Versions |->
                        IF v # current /\ ~Shared(v)' THEN <<>> ELSE slotLists[v]]
    /\ UNCHANGED <<current, connected, held, dying>>

SignalNext ==
    \/ ConnectSlot
    \/ \E s \in Slots : DropSlot(s) \/ Clean(s)
    \/ \E t \in Callers : CallSignal(t) \/ NextSlot(t) \/ CallbackReturns(t) \/ CallReturns(t)

SignalSpec == SignalInit /\ [][SignalNext]_signalVars

-----------------------------------------------------------------------------
\* Whatever is connected and dropped while call() runs, in other threads or in
\* the callbacks, a call reaches each slot that was connected when it began and
\* kept until it ended, in the order of connection and so none twice, and none
\* that was not connected when it began; and a slot whose destructor has ended
\* is in the list no more.
SlotsCalled ==
    /\ \A t \in Callers :
          LET c == caller[t]
              calledSet == {c.called[i] : i \in DOMAIN c.called}
          IN  /\ \A i, j \in DOMAIN c.called : i < j => c.called[i] < c.called[j]
              /\ calledSet \subseteq c.entry
              /\ LoopEnded(t) => c.kept \subseteq calledSet
    /\ \A i \in DOMAIN slotLists[current] :
          LET s == slotLists[current][i]
          IN  Expired(s) => s \in dying

=============================================================================
