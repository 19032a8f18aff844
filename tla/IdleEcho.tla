------------------------------ MODULE IdleEcho ------------------------------
(***************************************************************************)
(* The idle connection example (src/examples/idleconnection): an echo      *)
(* server that shuts a connection down when it was idle for idleSeconds.   *)
(* A CircularBuffer of buckets turns once a second; an entry is owned by   *)
(* the buckets it is in, and its destructor shuts the connection down.     *)
(***************************************************************************)
EXTENDS Naturals, Sequences

CONSTANTS
    Peers,          \* bound: the connections
    IdleSeconds     \* idleSeconds, the size of the CircularBuffer

ASSUME IdleAssumption == IdleSeconds \in Nat \ {0}

VARIABLES
    buckets,        \* connectionBuckets_, oldest first, of the connections' entries
    peer,           \* peer[p]: "out", "up", "shut" by the server, or "closed"
    quiet,          \* history, quiet[p]: ticks since p was last heard of
    undefined       \* back() was called on an empty CircularBuffer

idleVars == <<buckets, peer, quiet, undefined>>

IdleInit ==
    /\ buckets = <<>>
    /\ peer = [p \in Peers |-> "out"]
    /\ quiet = [p \in Peers |-> 0]
    /\ undefined = FALSE

-----------------------------------------------------------------------------
(* A wrong variant: a message takes the entry of its connection to the      *)
(* front of the wheel, as push_front() would place it.                      *)

InsertFront(p) == [buckets EXCEPT ![1] = @ \cup {p}]

-----------------------------------------------------------------------------
\* connectionBuckets_.back().insert(entry)
InsertBack(p) == [buckets EXCEPT ![Len(buckets)] = @ \cup {p}]

\* CircularBuffer::push_back(): a full buffer drops its front.
PushBack(bucket) ==
    IF Len(buckets) < IdleSeconds THEN Append(buckets, bucket)
    ELSE Append(Tail(buckets), bucket)

Owned(list) == UNION {list[i] : i \in DOMAIN list}

\* onConnection(), up: before the first tick there is no bucket to insert to.
OnConnectionUp(p) ==
    /\ peer[p] = "out"
    /\ IF buckets = <<>>
       THEN undefined' = TRUE /\ UNCHANGED <<buckets, peer, quiet>>
       ELSE /\ buckets' = InsertBack(p)
            /\ peer' = [peer EXCEPT ![p] = "up"]
            /\ quiet' = [quiet EXCEPT ![p] = 0]
            /\ UNCHANGED undefined

\* onMessage(): the echo, and the entry, if it still lives, to the last bucket
OnEcho(p) ==
    /\ peer[p] \in {"up", "shut"}
    /\ buckets' = IF p \in Owned(buckets) THEN InsertBack(p) ELSE buckets
    /\ quiet' = [quiet EXCEPT ![p] = 0]
    /\ UNCHANGED <<peer, undefined>>

\* onConnection(), down: the entry stays in its buckets, the connection goes.
OnConnectionDown(p) ==
    /\ peer[p] \in {"up", "shut"}
    /\ peer' = [peer EXCEPT ![p] = "closed"]
    /\ UNCHANGED <<buckets, quiet, undefined>>

\* onTime() and ~Entry(): an entry that no bucket owns any more shuts its
\* connection down, if that still exists.
OnTime ==
    /\ buckets' = PushBack({})
    /\ peer' = [p \in Peers |-> IF /\ p \in Owned(buckets) \ Owned(buckets')
                                   /\ peer[p] = "up"
                                THEN "shut" ELSE peer[p]]
    /\ quiet' = [p \in Peers |->
                   IF peer[p] = "up" /\ quiet[p] < IdleSeconds THEN quiet[p] + 1 ELSE quiet[p]]
    /\ UNCHANGED undefined

IdleNext ==
    /\ ~undefined
    /\ \/ OnTime
       \/ \E p \in Peers : OnConnectionUp(p) \/ OnEcho(p) \/ OnConnectionDown(p)

IdleSpec == IdleInit /\ [][IdleNext]_idleVars

-----------------------------------------------------------------------------
\* A connection is shut down by the tick that makes it idle for idleSeconds
\* ticks, not before and not later, however messages, ticks and the ends of
\* other connections alternate.
IdleClosedInTime ==
    [][\A p \in Peers : (peer[p] = "up" /\ peer'[p] # "closed")
          => (peer'[p] = "shut" <=> quiet'[p] = IdleSeconds)]_idleVars

=============================================================================
