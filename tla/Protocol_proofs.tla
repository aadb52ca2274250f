-------------------------- MODULE Protocol_proofs --------------------------
(***************************************************************************)
(* The two things all clients share by the object Protocol, for any number *)
(* of threads, buffers and calls, any capacity and any limit.              *)
(*                                                                         *)
(* No buffer of the pool is in two hands.  The lock makes one thread at a  *)
(* time use the array (Exclusive); what the others rely on is that no      *)
(* buffer is in two of the places a buffer can be: below `size` in the     *)
(* array, at `size` while it is being taken out or put in, in `got` and in *)
(* `held`.                                                                 *)
(*                                                                         *)
(* No permit of max-concurrent-requests is lost or made, but for those     *)
(* that were released without having been acquired.                        *)
(***************************************************************************)
EXTENDS BufferPool, Permits, FiniteSetTheorems, TLAPS

-----------------------------------------------------------------------------
(* The pool of buffers.                                                    *)

InLock(t) == at[t] \in {"taking", "reading", "taken", "storing", "growing", "stored"}
Exclusive ==
    /\ \A t \in IOActors : InLock(t) => locked
    /\ \A t, u \in IOActors : InLock(t) /\ InLock(u) => t = u

(* The array below `size`.                                                 *)
SlotsAreDistinct ==
    /\ \A i \in 0..(size - 1) : pool[i] \in Buffers
    /\ \A i, j \in 0..(size - 1) : pool[i] = pool[j] => i = j
    /\ \A i \in 0..(size - 1) : \A t \in IOActors : pool[i] \notin held[t]

(* What a thread holds is its own.                                         *)
HeldAreDistinct ==
    \A t, u \in IOActors : t # u => held[t] \cap held[u] = {}

(* What a thread is taking out or putting back.                            *)
GotIsLoose ==
    /\ \A t, u \in IOActors : got[t] \notin held[u]
    /\ \A t, u \in IOActors : got[t] = got[u] /\ got[t] # NoBuffer => t = u
    /\ \A t \in IOActors : at[t] # "stored" => \A i \in 0..(size - 1) : got[t] # pool[i]
    /\ \A t \in IOActors : at[t] \in {"out", "taking", "reading"} => got[t] = NoBuffer
    /\ \A t \in IOActors : at[t] \in {"storing", "growing"} => got[t] # NoBuffer

(* The slot at `size`, read after size was decremented, written before it  *)
(* is incremented.                                                         *)
TopIsLoose ==
    /\ \A t \in IOActors : at[t] = "reading" =>
         /\ size < MaxCapacity
         /\ pool[size] \in Buffers
         /\ \A i \in 0..(size - 1) : pool[i] # pool[size]
         /\ \A u \in IOActors : pool[size] \notin held[u] /\ pool[size] # got[u]
    /\ \A t \in IOActors : at[t] = "growing" => size < MaxCapacity /\ pool[size] = got[t]

PoolInv ==
    /\ PoolTypeOK /\ Exclusive
    /\ SlotsAreDistinct /\ HeldAreDistinct /\ GotIsLoose /\ TopIsLoose

LEMMA PoolInitInv == PoolInit => PoolInv
<1> SUFFICES ASSUME PoolInit PROVE PoolInv
  OBVIOUS
<1>1. PoolTypeOK
  <2>1. size \in 0..MaxCapacity
    BY CapacityAssumption DEF PoolInit
  <2>6. locked \in BOOLEAN
    BY DEF PoolInit
  <2>2. pool \in [0..(MaxCapacity - 1) -> Buffers \cup {NoBuffer}]
    BY DEF PoolInit
  <2>3. at \in [IOActors -> {"out", "taking", "reading", "taken", "choosing",
                            "storing", "growing", "stored"}]
    BY DEF PoolInit
  <2>4. got \in [IOActors -> Buffers \cup {NoBuffer}]
    BY DEF PoolInit
  <2>5. held \in [IOActors -> SUBSET Buffers]
    BY DEF PoolInit
  <2> QED BY <2>1, <2>2, <2>3, <2>4, <2>5, <2>6 DEF PoolTypeOK
<1>2. size = 0 /\ \A t \in IOActors : at[t] = "out" /\ got[t] = NoBuffer /\ held[t] = {}
  BY DEF PoolInit
<1>3. Exclusive
  BY <1>2 DEF Exclusive, InLock
<1>4. SlotsAreDistinct /\ HeldAreDistinct
  BY <1>2 DEF SlotsAreDistinct, HeldAreDistinct
<1>5. GotIsLoose /\ TopIsLoose
  BY <1>2 DEF GotIsLoose, TopIsLoose
<1> QED BY <1>1, <1>3, <1>4, <1>5 DEF PoolInv

LEMMA AllocatedIsUnused == ASSUME NEW b \in Allocated PROVE b \in Buffers /\ b \notin InUse
<1>1. PICK unused \in {Large \ InUse, (Buffers \ Large) \ InUse} \ {{}} : b = CHOOSE x \in unused : TRUE
  BY Zenon DEF Allocated
<1>2. \E x \in unused : TRUE
  OBVIOUS
<1>3. b \in unused
  BY <1>1, <1>2, Zenon
<1> QED BY <1>1, <1>3, LargeAssumption

LEMMA PoolStepInv == ASSUME PoolInv, NEW t \in IOActors, PoolStep(t) PROVE PoolInv'
<1>a. CapacityAssumption /\ BuffersAssumption /\ LargeAssumption BY CapacityAssumption, BuffersAssumption, LargeAssumption
<1> USE <1>a DEF PoolInv, PoolTypeOK, Exclusive, InLock, SlotsAreDistinct, HeldAreDistinct,
       GotIsLoose, TopIsLoose, Goes, CapacityAssumption, BuffersAssumption, LargeAssumption
<1>1. CASE AcquireLocks(t) BY <1>1 DEF AcquireLocks, CompareAndSet, Free
<1>2. CASE Take(t) BY <1>2 DEF Take
<1>3. CASE ReadTop(t) BY <1>3 DEF ReadTop
<1>4. CASE AcquireUnlocks(t) BY <1>4, ZenonT(30) DEF AcquireUnlocks, Unlock
<1>5. CASE Choose(t) BY <1>5, AllocatedIsUnused DEF Choose, InUse
<1>6. CASE ReleaseLarge(t) BY <1>6 DEF ReleaseLarge
<1>7. CASE ReleaseLocks(t) BY <1>7 DEF ReleaseLocks, CompareAndSet, Free
<1>8. CASE Store(t) BY <1>8 DEF Store, HasRoom
<1>9. CASE Grow(t) BY <1>9 DEF Grow
<1>10. CASE ReleaseUnlocks(t)
  <2>1. /\ at' = [at EXCEPT ![t] = "out"] /\ got' = [got EXCEPT ![t] = NoBuffer]
        /\ UNCHANGED <<pool, size, held>> /\ locked' = FALSE /\ at[t] = "stored"
    BY <1>10 DEF ReleaseUnlocks
  <2>2. \A u \in IOActors : u # t => at'[u] = at[u] /\ got'[u] = got[u] /\ ~InLock(u)
    BY <2>1
  <2>3. at'[t] = "out" /\ got'[t] = NoBuffer
    BY <2>1
  <2>4. PoolTypeOK' /\ Exclusive' BY <2>1, <2>2, <2>3
  <2>5. SlotsAreDistinct' /\ HeldAreDistinct' BY <2>1
  <2>6. GotIsLoose' BY <2>1, <2>2, <2>3
  <2>7. TopIsLoose' BY <2>1, <2>2, <2>3
  <2> QED BY <2>4, <2>5, <2>6, <2>7
<1> QED BY <1>1, <1>2, <1>3, <1>4, <1>5, <1>6, <1>7, <1>8, <1>9, <1>10 DEF PoolStep

(* BufferPool.scala: a buffer is handed to one thread at a time, and not   *)
(* while it is in the pool, whatever the threads do at once.               *)
THEOREM BuffersAreNotShared == PoolSpec => []NoBufferIsShared
<1>1. PoolInv /\ [PoolNext]_poolVars => PoolInv'
  <2> SUFFICES ASSUME PoolInv, [PoolNext]_poolVars PROVE PoolInv'
    OBVIOUS
  <2>1. CASE PoolNext BY <2>1, PoolStepInv DEF PoolNext
  <2>2. CASE UNCHANGED poolVars
    BY <2>2 DEF poolVars, PoolInv, PoolTypeOK, Exclusive, InLock, SlotsAreDistinct,
                HeldAreDistinct, GotIsLoose, TopIsLoose
  <2> QED BY <2>1, <2>2
<1>2. PoolInv => NoBufferIsShared
  BY DEF PoolInv, SlotsAreDistinct, HeldAreDistinct, NoBufferIsShared, Pooled
<1> QED BY PoolInitInv, <1>1, <1>2, PTL DEF PoolSpec

-----------------------------------------------------------------------------
(* The permits.                                                            *)

One(b) == IF b THEN 1 ELSE 0

-----------------------------------------------------------------------------
(* How many requests are under way.                                        *)

(* Pairs that share their first element are as many as the second ones.    *)
LEMMA PairsOfOne ==
    ASSUME NEW c, NEW S, IsFiniteSet(S)
    PROVE  IsFiniteSet({c} \X S) /\ Cardinality({c} \X S) = Cardinality(S)
<1>1. IsFiniteSet({c}) /\ Cardinality({c}) = 1
  BY FS_Singleton
<1>2. Cardinality(S) \in Nat
  BY FS_CardinalityType
<1>3. IsFiniteSet({c} \X S) /\ Cardinality({c} \X S) = Cardinality({c}) * Cardinality(S)
  BY <1>1, FS_Product
<1> QED BY <1>1, <1>2, <1>3

(* The requests of one call, of all calls, and of all but one, where o and *)
(* e are open and exec, now or in the next state.                          *)
Pairs(o, e, c) == {c} \X (1..o[c] \cup IF e[c] THEN {0} ELSE {})
AllPairs(o, e, C) == UNION {Pairs(o, e, d) : d \in C}

LEMMA PairsOfCall ==
    ASSUME NEW o \in [Calls -> Nat], NEW e \in [Calls -> BOOLEAN], NEW c \in Calls
    PROVE  /\ IsFiniteSet(Pairs(o, e, c))
           /\ Cardinality(Pairs(o, e, c)) = o[c] + One(e[c])
<1> DEFINE members == 1..o[c]
           first == IF e[c] THEN {0} ELSE {}
<1>1. IsFiniteSet(members) /\ Cardinality(members) = o[c]
  BY FS_Interval
<1>2. IsFiniteSet(first) /\ Cardinality(first) = One(e[c])
  BY FS_EmptySet, FS_Singleton DEF One
<1>3. members \cap first = {}
  OBVIOUS
<1>4. o[c] \in Nat /\ One(e[c]) \in Nat
  BY DEF One
<1>5. Pairs(o, e, c) = {c} \X (members \cup first)
  BY DEF Pairs
<1> HIDE DEF members, first
<1>6. Cardinality({}) = 0
  BY FS_EmptySet
<1>7. /\ IsFiniteSet(members \cup first)
      /\ Cardinality(members \cup first) = o[c] + One(e[c])
  <2>1. /\ IsFiniteSet(members \cup first)
        /\ Cardinality(members \cup first)
             = Cardinality(members) + Cardinality(first) - Cardinality(members \cap first)
    BY <1>1, <1>2, FS_Union
  <2>2. members \cap first = {}
    BY <1>3
  <2>3. Cardinality(members \cap first) = 0
    BY <2>2, <1>6, Zenon
  <2> QED BY <2>3, <2>1, <2>2, <1>1, <1>2, <1>4
<1> DEFINE both == members \cup first
<1>8. IsFiniteSet(both) /\ Cardinality(both) = o[c] + One(e[c]) /\ Pairs(o, e, c) = {c} \X both
  BY <1>5, <1>7
<1> HIDE DEF both
<1>9. IsFiniteSet({c} \X both) /\ Cardinality({c} \X both) = Cardinality(both)
  BY <1>8, PairsOfOne
<1> QED BY <1>8, <1>9, Zenon

LEMMA PairsAreFinite ==
    ASSUME NEW o \in [Calls -> Nat], NEW e \in [Calls -> BOOLEAN], NEW C \in SUBSET Calls
    PROVE  IsFiniteSet(AllPairs(o, e, C))
<1>1. IsFiniteSet(C)
  BY PermitsAssumption, FS_Subset
<1>2. IsFiniteSet({Pairs(o, e, d) : d \in C})
  <2> DEFINE f == [d \in C |-> Pairs(o, e, d)]
             T == {Pairs(o, e, d) : d \in C}
  <2>1. f \in [C -> T] /\ \A t \in T : \E d \in C : f[d] = t
    OBVIOUS
  <2> HIDE DEF f, T
  <2>2. f \in Surjection(C, T)
    BY <2>1 DEF Surjection
  <2>3. IsFiniteSet(T)
    BY <1>1, <2>2, FS_Surjection
  <2> QED BY <2>3 DEF T
<1>3. \A R \in {Pairs(o, e, d) : d \in C} : IsFiniteSet(R)
  BY PairsOfCall
<1> QED BY <1>2, <1>3, FS_UNION DEF AllPairs

LEMMA PairsSplit ==
    ASSUME NEW o \in [Calls -> Nat], NEW e \in [Calls -> BOOLEAN], NEW c \in Calls
    PROVE  /\ Cardinality(AllPairs(o, e, Calls)) \in Nat
           /\ Cardinality(AllPairs(o, e, Calls))
                = Cardinality(AllPairs(o, e, Calls \ {c})) + o[c] + One(e[c])
<1> DEFINE rest == AllPairs(o, e, Calls \ {c})
           own == Pairs(o, e, c)
<1>1. IsFiniteSet(own) /\ Cardinality(own) = o[c] + One(e[c])
  BY PairsOfCall
<1>2. IsFiniteSet(rest) /\ Cardinality(rest) \in Nat
  BY PairsAreFinite, FS_CardinalityType
<1>3. own \cap rest = {}
  BY DEF AllPairs, Pairs
<1>4. AllPairs(o, e, Calls) = rest \cup own
  <2>1. Calls = (Calls \ {c}) \cup {c}
    OBVIOUS
  <2> QED BY <2>1 DEF AllPairs
<1>5. o[c] \in Nat /\ One(e[c]) \in Nat
  BY DEF One
<1>6. Cardinality({}) = 0
  BY FS_EmptySet
<1> HIDE DEF own, rest
<1>7. Cardinality(rest \cup own) = Cardinality(rest) + Cardinality(own)
  <2>1. Cardinality(rest \cup own)
          = Cardinality(rest) + Cardinality(own) - Cardinality(rest \cap own)
    BY <1>1, <1>2, FS_Union
  <2>2. rest \cap own = {}
    BY <1>3
  <2>3. Cardinality(rest \cap own) = 0
    BY <2>2, <1>6, Zenon
  <2> QED BY <2>1, <2>3, <1>1, <1>2, <1>5
<1> QED BY <1>1, <1>2, <1>4, <1>5, <1>7 DEF rest

(* A step of one call changes the number by what it changes of its own.    *)
LEMMA OneCallChanges ==
    ASSUME open \in [Calls -> Nat], exec \in [Calls -> BOOLEAN], NEW c \in Calls,
           NEW n \in Nat, open' = [open EXCEPT ![c] = n],
           NEW b \in BOOLEAN, exec' = [exec EXCEPT ![c] = b]
    PROVE  UnderWay \in Nat /\ UnderWay' = UnderWay - open[c] - One(exec[c]) + n + One(b)
<1> DEFINE rest == AllPairs(open, exec, Calls \ {c})
<1>1. open' \in [Calls -> Nat] /\ exec' \in [Calls -> BOOLEAN]
  OBVIOUS
<1>2. open'[c] = n /\ exec'[c] = b
  OBVIOUS
<1>3. AllPairs(open', exec', Calls \ {c}) = rest
  <2>1. \A d \in Calls \ {c} : Pairs(open', exec', d) = Pairs(open, exec, d)
    <3> TAKE d \in Calls \ {c}
    <3>1. open'[d] = open[d] /\ exec'[d] = exec[d]
      OBVIOUS
    <3> QED BY <3>1 DEF Pairs
  <2> QED BY <2>1 DEF AllPairs
<1>4. UnderWay = Cardinality(AllPairs(open, exec, Calls))
  BY DEF UnderWay, AllPairs, Pairs, RequestsOf
<1>5. UnderWay' = Cardinality(AllPairs(open', exec', Calls))
  BY DEF UnderWay, AllPairs, Pairs, RequestsOf
<1>6. Cardinality(rest) \in Nat
  BY PairsAreFinite, FS_CardinalityType
<1>7. Cardinality(AllPairs(open, exec, Calls)) = Cardinality(rest) + open[c] + One(exec[c])
  BY PairsSplit
<1>8. Cardinality(AllPairs(open', exec', Calls)) = Cardinality(rest) + n + One(b)
  <2>1. Cardinality(AllPairs(open', exec', Calls))
          = Cardinality(AllPairs(open', exec', Calls \ {c})) + open'[c] + One(exec'[c])
    BY <1>1, PairsSplit
  <2> QED BY <2>1, <1>2, <1>3
<1> HIDE DEF rest
<1>9. open[c] \in Nat /\ One(exec[c]) \in Nat /\ One(b) \in Nat
  BY DEF One
<1> QED BY <1>4, <1>5, <1>6, <1>7, <1>8, <1>9

LEMMA UnderWayIsNat ==
    ASSUME open \in [Calls -> Nat], exec \in [Calls -> BOOLEAN]
    PROVE  UnderWay \in Nat
<1>1. IsFiniteSet(AllPairs(open, exec, Calls))
  BY PairsAreFinite
<1>2. UnderWay = Cardinality(AllPairs(open, exec, Calls))
  BY DEF UnderWay, AllPairs, Pairs, RequestsOf
<1> QED BY <1>1, <1>2, FS_CardinalityType

LEMMA NoCallChanges ==
    ASSUME open \in [Calls -> Nat], exec \in [Calls -> BOOLEAN], UNCHANGED <<open, exec>>
    PROVE  UnderWay' = UnderWay
BY DEF UnderWay, RequestsOf

-----------------------------------------------------------------------------
(* The inductive invariant.                                                *)

PermitsTypeOK ==
    /\ permits \in Nat /\ unpaid \in Nat
    /\ open \in [Calls -> Nat] /\ due \in [Calls -> Nat]
    /\ exec \in [Calls -> BOOLEAN] /\ multi \in [Calls -> BOOLEAN]

(* A call that has not acquired has nothing under way; and of a request    *)
(* whose reply is still to be decoded the permit is still taken, as long   *)
(* as EXEC is not completed.                                               *)
PermitsInv ==
    /\ PermitsTypeOK
    /\ stage \in [Calls -> {"new", "acquiring", "refused", "sent", "returned"}]
    /\ \A c \in Calls :
         /\ stage[c] \in {"new", "acquiring", "refused"} => open[c] = 0 /\ ~exec[c]
         /\ exec[c] => due[c] <= open[c]
    /\ permits + UnderWay = Limit + unpaid

LEMMA InitialCount ==
    ASSUME open = [c \in Calls |-> 0], exec = [c \in Calls |-> FALSE]
    PROVE  UnderWay = 0
<1>1. UNION {RequestsOf(c) : c \in Calls} = {}
  BY DEF RequestsOf
<1> QED BY <1>1, FS_EmptySet DEF UnderWay

LEMMA PermitsInit0 == PermitsInit => PermitsInv
BY PermitsAssumption, InitialCount DEF PermitsInit, PermitsInv, PermitsTypeOK

LEMMA OneLess ==
    ASSUME NEW f \in [Calls -> Nat], NEW g, NEW c \in Calls, f[c] > 0,
           g = [f EXCEPT ![c] = f[c] - 1]
    PROVE  /\ g \in [Calls -> Nat] /\ g[c] = f[c] - 1
           /\ \A d \in Calls : d # c => g[d] = f[d]
<1>1. f[c] - 1 \in Nat
  OBVIOUS
<1> QED BY <1>1

(* One step of a call.                                                     *)
LEMMA CallStep ==
    ASSUME PermitsInv, NEW c \in Calls, Progress(c) \/ Lose(c)
    PROVE  PermitsInv'
<1> USE PermitsAssumption DEF PermitsInv, PermitsTypeOK
<1>a. /\ open[c] \in Nat /\ due[c] \in Nat /\ exec[c] \in BOOLEAN /\ Size[c] \in Nat
      /\ Cost(c) \in Nat /\ Limit \in Nat
  BY DEF Cost
<1>1. CASE Send(c)
  BY <1>1, NoCallChanges DEF Send, Moves
<1>2. CASE Acquire(c)
  <2>1. UnderWay \in Nat /\ UnderWay' = UnderWay - open[c] - One(exec[c]) + Size[c] + One(TRUE)
    BY <1>2, <1>a, OneCallChanges DEF Acquire
  <2>2. open[c] = 0 /\ ~exec[c] /\ stage' = [stage EXCEPT ![c] = "sent"]
    BY <1>2 DEF Acquire, Moves
  <2>3. permits' + UnderWay' = Limit + unpaid' /\ permits' \in Nat
    BY <1>2, <1>a, <2>1, <2>2 DEF Acquire, One, Cost
  <2> QED BY <1>2, <1>a, <2>2, <2>3 DEF Acquire
<1>3. CASE Return(c)
  BY <1>3, NoCallChanges DEF Return, Moves
<1>4. CASE CompleteMulti(c)
  <2>1. /\ multi' = [multi EXCEPT ![c] = FALSE] /\ permits' = permits + 1 /\ unpaid' = unpaid + 1
        /\ UNCHANGED <<stage, exec, open, due>>
    BY <1>4 DEF CompleteMulti, Release
  <2>2. UnderWay' = UnderWay /\ UnderWay \in Nat
    BY <2>1, NoCallChanges, UnderWayIsNat
  <2>3. permits' + UnderWay' = Limit + unpaid'
    BY <2>1, <2>2, <1>a
  <2> QED BY <2>1, <2>3, <1>a
<1>5. CASE Queued(c)
  <2>1. due' = [due EXCEPT ![c] = due[c] - 1] /\ due[c] > 0
        /\ UNCHANGED <<permits, stage, multi, exec, open, unpaid>>
    BY <1>5 DEF Queued
  <2>2. UnderWay' = UnderWay /\ UnderWay \in Nat
    BY <2>1, NoCallChanges, UnderWayIsNat
  <2>3. /\ due' \in [Calls -> Nat] /\ due'[c] = due[c] - 1
        /\ \A d \in Calls : d # c => due'[d] = due[d]
    BY <2>1, OneLess
  <2> QED BY <2>1, <2>2, <2>3, <1>a
<1>6. CASE NotQueued(c)
  <2>a. due' = [due EXCEPT ![c] = due[c] - 1] /\ due[c] > 0 /\ permits' = permits + 1
        /\ UNCHANGED <<stage, multi, exec>>
    BY <1>6 DEF NotQueued, Release
  <2>b. /\ due' \in [Calls -> Nat] /\ due'[c] = due[c] - 1
        /\ \A d \in Calls : d # c => due'[d] = due[d]
    BY <2>a, OneLess
  <2>1. CASE open[c] > 0
    <3>1. /\ open' = [open EXCEPT ![c] = open[c] - 1] /\ exec' = [exec EXCEPT ![c] = exec[c]]
          /\ unpaid' = unpaid
      BY <1>6, <2>1 DEF NotQueued
    <3>2. UnderWay \in Nat /\ UnderWay' = UnderWay - open[c] - One(exec[c]) + (open[c] - 1) + One(exec[c])
      <4>1. open[c] - 1 \in Nat
        BY <2>1, <1>a
      <4> QED BY <3>1, <4>1, <1>a, OneCallChanges
    <3>3. permits' + UnderWay' = Limit + unpaid' /\ permits' \in Nat
      BY <1>a, <2>a, <2>1, <3>1, <3>2 DEF One
    <3>4. open'[c] = open[c] - 1 /\ open' \in [Calls -> Nat] /\ \A d \in Calls : d # c => open'[d] = open[d]
      BY <3>1, <2>1, OneLess
    <3>5. \A d \in Calls : /\ stage'[d] \in {"new", "acquiring", "refused"} => open'[d] = 0 /\ ~exec'[d]
                           /\ exec'[d] => due'[d] <= open'[d]
      <4> TAKE d \in Calls
      <4>1. CASE d = c
        BY <4>1, <1>a, <2>a, <2>b, <2>1, <3>4
      <4>2. CASE d # c
        BY <4>2, <2>a, <2>b, <3>4
      <4> QED BY <4>1, <4>2
    <3> QED BY <2>a, <2>b, <3>1, <3>3, <3>4, <3>5
  <2>2. CASE ~(open[c] > 0)
    <3>1. unpaid' = unpaid + 1 /\ UNCHANGED open
      BY <1>6, <2>2 DEF NotQueued
    <3>2. UnderWay' = UnderWay /\ UnderWay \in Nat
      BY <3>1, <2>a, <1>a, NoCallChanges, OneCallChanges
    <3> QED BY <1>a, <2>a, <2>b, <3>1, <3>2
  <2> QED BY <2>1, <2>2
<1>7. CASE Complete(c)
  <2>1. open' = [open EXCEPT ![c] = open[c]] /\ exec' = [exec EXCEPT ![c] = FALSE] /\ exec[c]
    BY <1>7 DEF Complete, Awaited
  <2>2. UnderWay \in Nat /\ UnderWay' = UnderWay - open[c] - One(exec[c]) + open[c] + One(FALSE)
    BY <2>1, <1>a, OneCallChanges
  <2>3. permits' + UnderWay' = Limit + unpaid' /\ permits' \in Nat
    BY <1>7, <1>a, <2>1, <2>2 DEF Complete, Release, One
  <2> QED BY <1>7, <1>a, <2>1, <2>3 DEF Complete
<1>8. CASE CompleteTransaction(c)
  <2>1. open' = [open EXCEPT ![c] = 0] /\ exec' = [exec EXCEPT ![c] = exec[c]]
    BY <1>8 DEF CompleteTransaction
  <2>2. UnderWay \in Nat /\ UnderWay' = UnderWay - open[c] - One(exec[c]) + 0 + One(exec[c])
    BY <2>1, <1>a, OneCallChanges
  <2>3. permits' + UnderWay' = Limit + unpaid' /\ permits' \in Nat
    BY <1>8, <1>a, <2>1, <2>2 DEF CompleteTransaction, Uncompleted, Release, One
  <2> QED BY <1>8, <1>a, <2>1, <2>3 DEF CompleteTransaction
<1>9. CASE Fail(c)
  <2>1. PICK n \in 0..due[c], failsMulti \in BOOLEAN :
           /\ due' = [due EXCEPT ![c] = due[c] - n]
           /\ open' = [open EXCEPT ![c] = open[c] - n]
           /\ multi' = [multi EXCEPT ![c] = multi[c] /\ ~failsMulti]
           /\ unpaid' = unpaid + (IF failsMulti THEN 1 ELSE 0)
           /\ Release(n + 1 + (IF failsMulti THEN 1 ELSE 0))
    BY <1>9, <1>a DEF Fail
  <2>2. exec[c] /\ exec' = [exec EXCEPT ![c] = FALSE] /\ UNCHANGED stage
    BY <1>9 DEF Fail, Awaited
  <2>3. n \in Nat /\ n <= open[c] /\ open[c] - n \in Nat /\ due[c] - n \in Nat
    BY <2>2, <1>a
  <2>4. UnderWay \in Nat /\ UnderWay' = UnderWay - open[c] - One(exec[c]) + (open[c] - n) + One(FALSE)
    BY <2>1, <2>2, <2>3, <1>a, OneCallChanges
  <2>5. permits' + UnderWay' = Limit + unpaid' /\ permits' \in Nat /\ unpaid' \in Nat
    BY <1>a, <2>1, <2>2, <2>3, <2>4 DEF Release, One
  <2>6. multi' \in [Calls -> BOOLEAN]
    BY <2>1
  <2> QED BY <1>a, <2>1, <2>2, <2>3, <2>5, <2>6
<1>10. CASE Refuse(c)
  <2>1. open' = [open EXCEPT ![c] = open[c]] /\ exec' = [exec EXCEPT ![c] = FALSE] /\ exec[c]
    BY <1>10 DEF Refuse, Unanswered, Awaited
  <2>2. UnderWay \in Nat /\ UnderWay' = UnderWay - open[c] - One(exec[c]) + open[c] + One(FALSE)
    BY <2>1, <1>a, OneCallChanges
  <2>3. permits' + UnderWay' = Limit + unpaid' /\ permits' \in Nat
    BY <1>10, <1>a, <2>1, <2>2 DEF Refuse, Release, One
  <2> QED BY <1>10, <1>a, <2>1, <2>3 DEF Refuse
<1>11. CASE Lose(c)
  BY <1>11, NoCallChanges DEF Lose
<1> QED
  BY <1>1, <1>2, <1>3, <1>4, <1>5, <1>6, <1>7, <1>8, <1>9, <1>10, <1>11 DEF Progress

LEMMA PermitsStep == PermitsInv /\ [PermitsNext]_permitVars => PermitsInv'
<1> SUFFICES ASSUME PermitsInv, [PermitsNext]_permitVars
             PROVE  PermitsInv'
  OBVIOUS
<1>1. ASSUME NEW c \in Calls, Progress(c) \/ Lose(c) PROVE PermitsInv'
  BY <1>1, CallStep
<1>2. CASE CompleteInternal
  <2>1. permits' = permits + 1 /\ unpaid' = unpaid + 1
        /\ UNCHANGED <<stage, multi, exec, open, due>>
    BY <1>2 DEF CompleteInternal, Release
  <2>2. UnderWay' = UnderWay /\ UnderWay \in Nat
    BY <2>1, NoCallChanges, UnderWayIsNat DEF PermitsInv, PermitsTypeOK
  <2>3. permits' + UnderWay' = Limit + unpaid'
    BY <2>1, <2>2, PermitsAssumption DEF PermitsInv, PermitsTypeOK
  <2> QED BY <2>1, <2>3 DEF PermitsInv, PermitsTypeOK
<1>3. CASE UNCHANGED permitVars
  BY <1>3, NoCallChanges DEF permitVars, PermitsInv, PermitsTypeOK
<1> QED BY <1>1, <1>2, <1>3 DEF PermitsNext

(* No permit is lost and none made, but for those that were released       *)
(* without having been acquired (Request.success and failure of MULTI, of  *)
(* initial requests and of late errors): a client never has more requests  *)
(* under way than max-concurrent-requests and these.                       *)
THEOREM PermitsAreConserved == PermitsSpec => []PermitsAreAccountedFor
<1>1. PermitsInv => PermitsAreAccountedFor
  <2> SUFFICES ASSUME PermitsInv PROVE PermitsAreAccountedFor
    OBVIOUS
  <2>1. UnderWay \in Nat
    BY UnderWayIsNat DEF PermitsInv, PermitsTypeOK
  <2> QED BY <2>1, PermitsAssumption DEF PermitsInv, PermitsTypeOK, PermitsAreAccountedFor
<1> QED BY <1>1, PermitsInit0, PermitsStep, PTL DEF PermitsSpec

=============================================================================
