----------------------------- MODULE ObjectPool -----------------------------
(***************************************************************************)
(* SimpleObjectPool (pallette/ObjectPool.hpp): a pool that grows by        *)
(* doubling up to maxSize_ and takes an object back in the deleter of the  *)
(* unique_ptr it gave out.  Objects are only counted.  The deleter does    *)
(* not take the mutex, so one thread uses the pool here.                   *)
(***************************************************************************)
EXTENDS Integers

CONSTANTS MaxSizes      \* bound: the values of maxSize_

ASSUME MaxSizesAssumption == MaxSizes \subseteq Nat \ {0}

VARIABLES
    maxSize,            \* maxSize_
    useSize,            \* useSize_
    pooled,             \* pool_.size()
    given,              \* history: objects the users hold
    refused,            \* history: the last allotObject() returned NULL
    poolExists          \* objectPoolExist_

objectVars == <<maxSize, useSize, pooled, given, refused, poolExists>>

\* The constructor: addObject(maxSize_ / 100 + 1)
ObjectPoolInit ==
    /\ maxSize \in MaxSizes
    /\ pooled = maxSize \div 100 + 1
    /\ useSize = 0 /\ given = 0
    /\ refused = FALSE /\ poolExists = TRUE

-----------------------------------------------------------------------------
(* A wrong variant: the second branch adds as many as are in use.           *)

AlwaysDoubles == useSize

-----------------------------------------------------------------------------
\* How many objects allotObjectWithUnlocked() adds to an empty pool
Growth == IF useSize * 2 < maxSize THEN useSize ELSE maxSize - useSize

AllotObject ==
    /\ poolExists
    /\ refused' = (pooled = 0 /\ useSize >= maxSize)
    /\ IF refused'
       THEN UNCHANGED <<pooled, useSize, given>>
       ELSE /\ pooled' = (IF pooled = 0 THEN Growth ELSE pooled) - 1
            /\ useSize' = useSize + 1
            /\ given' = given + 1
    /\ UNCHANGED <<maxSize, poolExists>>

\* The deleter of an object; once the pool is gone the object is deleted.
DeleteObject ==
    /\ given > 0
    /\ given' = given - 1
    /\ IF poolExists
       THEN pooled' = pooled + 1 /\ useSize' = useSize - 1
       ELSE UNCHANGED <<pooled, useSize>>
    /\ refused' = FALSE
    /\ UNCHANGED <<maxSize, poolExists>>

\* ~SimpleObjectPool(): the deleters that run later read a destroyed member
\* (the FIXME of the deleter); the model takes it still to be readable.
DestroyPool ==
    /\ poolExists
    /\ poolExists' = FALSE
    /\ useSize' = 0 /\ pooled' = 0
    /\ refused' = FALSE
    /\ UNCHANGED <<maxSize, given>>

ObjectPoolNext == AllotObject \/ DeleteObject \/ DestroyPool

ObjectPoolSpec == ObjectPoolInit /\ [][ObjectPoolNext]_objectVars

-----------------------------------------------------------------------------
\* However allocations and returns alternate, the pool never owns more than
\* maxSize_ objects, an object counts as in use exactly while a user holds it,
\* and allotObject() fails only when maxSize_ of them are held.
ObjectsBounded ==
    poolExists => /\ pooled >= 0 /\ useSize = given
                  /\ pooled + given <= maxSize
                  /\ refused => given = maxSize

=============================================================================
