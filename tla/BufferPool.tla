----------------------------- MODULE BufferPool -----------------------------
(***************************************************************************)
(* BufferPool.scala: a bounded stack of buffers that the IOActors of all   *)
(* clients share, under a spin lock on an AtomicBoolean.  Every step is an *)
(* access to the lock, to `size` or to `pool`.                             *)
(***************************************************************************)
EXTENDS Integers, FiniteSets

CONSTANTS
    IOActors,       \* the threads that encode requests
    Buffers,        \* bound: the buffers there can be at once
    Large,          \* those with a capacity above maxBufferSize
    NoBuffer,       \* null
    MaxCapacity,
    MaxHeld         \* bound: how many buffers one thread has at a time

ASSUME CapacityAssumption == MaxCapacity \in Nat
ASSUME LargeAssumption == Large \subseteq Buffers
ASSUME BuffersAssumption == NoBuffer \notin Buffers

VARIABLES
    locked,
    pool,
    size,
    at,             \* at[t]: where t stands in acquire or release
    got,            \* got[t]: the buffer it is taking out or putting back
    held            \* held[t]: the buffers it is writing requests into
poolVars == <<locked, pool, size, at, got, held>>

Pooled == {pool[i] : i \in DOMAIN pool \cap 0..(size - 1)}
Goes(t, from, to) == at[t] = from /\ at' = [at EXCEPT ![t] = to]

(* locked.compareAndSet(false, true): with a lock that is taken, again.    *)
AlwaysFree == TRUE
Free == ~locked
CompareAndSet == Free /\ locked' = TRUE

---------------------------------------------------------------------------
(* acquire                                                                 *)

AcquireLocks(t) ==
    /\ Cardinality(held[t]) < MaxHeld
    /\ Goes(t, "out", "taking")
    /\ CompareAndSet
    /\ UNCHANGED <<pool, size, got, held>>

Take(t) ==
    /\ Goes(t, "taking", IF size > 0 THEN "reading" ELSE "taken")
    /\ size' = IF size > 0 THEN size - 1 ELSE size
    /\ UNCHANGED <<locked, pool, got, held>>

ReadTop(t) ==
    /\ Goes(t, "reading", "taken")
    /\ got' = [got EXCEPT ![t] = pool[size]]
    /\ UNCHANGED <<locked, pool, size, held>>

UnlockUnlessEmpty(t) == locked' = (got[t] = NoBuffer)
Unlock(t) == locked' = FALSE
AcquireUnlocks(t) ==
    /\ Goes(t, "taken", "choosing")
    /\ Unlock(t)
    /\ UNCHANGED <<pool, size, got, held>>

(* A buffer from the pool may be too small: it is dropped and one is       *)
(* allocated, as when the pool is empty.  The array keeps what it held.    *)
InUse ==
    {pool[i] : i \in 0..(MaxCapacity - 1)}
      \cup UNION {held[t] \cup {got[t]} : t \in IOActors}
Allocated ==
    {CHOOSE b \in unused : TRUE : unused \in {Large \ InUse, (Buffers \ Large) \ InUse} \ {{}}}
Choose(t) ==
    /\ Goes(t, "choosing", "out")
    /\ \E b \in Allocated \cup ({got[t]} \ {NoBuffer}) : held' = [held EXCEPT ![t] = @ \cup {b}]
    /\ got' = [got EXCEPT ![t] = NoBuffer]
    /\ UNCHANGED <<locked, pool, size>>

---------------------------------------------------------------------------
(* release                                                                 *)

ReleaseLarge(t) ==
    /\ at[t] = "out"
    /\ \E b \in held[t] \cap Large : held' = [held EXCEPT ![t] = @ \ {b}]
    /\ UNCHANGED <<locked, pool, size, at, got>>

ReleaseLocks(t) ==
    /\ Goes(t, "out", "storing")
    /\ CompareAndSet
    /\ \E b \in held[t] \ Large :
         /\ held' = [held EXCEPT ![t] = @ \ {b}]
         /\ got' = [got EXCEPT ![t] = b]
    /\ UNCHANGED <<pool, size>>

HasRoomWhenFull == size <= MaxCapacity
HasRoom == size < MaxCapacity
Store(t) ==
    /\ Goes(t, "storing", IF HasRoom THEN "growing" ELSE "stored")
    /\ pool' = IF HasRoom THEN [pool EXCEPT ![size] = got[t]] ELSE pool
    /\ UNCHANGED <<locked, size, got, held>>

Grow(t) ==
    /\ Goes(t, "growing", "stored")
    /\ size' = size + 1
    /\ UNCHANGED <<locked, pool, got, held>>

ReleaseUnlocks(t) ==
    /\ Goes(t, "stored", "out")
    /\ locked' = FALSE
    /\ got' = [got EXCEPT ![t] = NoBuffer]
    /\ UNCHANGED <<pool, size, held>>

---------------------------------------------------------------------------
PoolInit ==
    /\ locked = FALSE
    /\ pool = [i \in 0..(MaxCapacity - 1) |-> NoBuffer]
    /\ size = 0
    /\ at = [t \in IOActors |-> "out"]
    /\ got = [t \in IOActors |-> NoBuffer]
    /\ held = [t \in IOActors |-> {}]

PoolStep(t) ==
    \/ AcquireLocks(t) \/ Take(t) \/ ReadTop(t) \/ AcquireUnlocks(t) \/ Choose(t)
    \/ ReleaseLarge(t) \/ ReleaseLocks(t) \/ Store(t) \/ Grow(t) \/ ReleaseUnlocks(t)
PoolNext == \E t \in IOActors : PoolStep(t)
PoolSpec == PoolInit /\ [][PoolNext]_poolVars

---------------------------------------------------------------------------
(* Properties.                                                             *)

PoolTypeOK ==
    /\ locked \in BOOLEAN
    /\ pool \in [0..(MaxCapacity - 1) -> Buffers \cup {NoBuffer}]
    /\ size \in 0..MaxCapacity
    /\ at \in [IOActors -> {"out", "taking", "reading", "taken", "choosing",
                           "storing", "growing", "stored"}]
    /\ got \in [IOActors -> Buffers \cup {NoBuffer}]
    /\ held \in [IOActors -> SUBSET Buffers]

(* A buffer is never in the hands of two threads, nor of one while it is   *)
(* in the pool: each would write its requests over the other's.            *)
NoBufferIsShared ==
    /\ \A t, u \in IOActors : t # u => held[t] \cap held[u] = {}
    /\ \A t \in IOActors : held[t] \cap Pooled = {}

(* The lock is always given back, whatever the pool holds.                 *)
LockIsReleased == locked ~> ~locked

=============================================================================
