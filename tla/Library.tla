------------------------------- MODULE Library -------------------------------
(***************************************************************************)
(* What surrounds the connections: the object Protocol, with the permits   *)
(* and the pool of buffers of all clients and the reading of their         *)
(* replies, and Redis with its clients.  The four parts share no state and *)
(* never wait for one another, so that their behaviours are those of each  *)
(* alone: `part` is the one that is looked at.                             *)
(***************************************************************************)
EXTENDS BufferPool, Permits, ReplyDecoding, RedisClients

VARIABLE part
vars == <<part, poolVars, permitVars, decodingVars, redisVars>>

Init ==
    /\ part \in {"pool", "permits", "replies", "redis"}
    /\ PoolInit /\ PermitsInit
    /\ IF part = "replies" THEN DecodingInit
       ELSE /\ stream = <<>> /\ arrived = 0 /\ kept = <<>>
            /\ partitions = <<>> /\ results = <<>>
    /\ IF part = "redis" THEN RedisInit
       ELSE ClientsInit /\ does = CHOOSE plan \in Plans : TRUE

PoolPart == PoolNext /\ UNCHANGED <<part, permitVars, decodingVars, redisVars>>
PermitsPart == PermitsNext /\ UNCHANGED <<part, poolVars, decodingVars, redisVars>>
RepliesPart == DecodingNext /\ UNCHANGED <<part, poolVars, permitVars, redisVars>>
RedisPart == RedisNext /\ UNCHANGED <<part, poolVars, permitVars, decodingVars>>
Next ==
    \/ part = "pool" /\ PoolPart
    \/ part = "permits" /\ PermitsPart
    \/ part = "replies" /\ RepliesPart
    \/ part = "redis" /\ RedisPart

Spec == Init /\ [][Next]_vars

(* Threads run; requests are answered or failed unless they are lost; a    *)
(* blocking call ends, at the latest by its timeout.                       *)
Fairness ==
    /\ \A t \in IOActors : WF_poolVars(part = "pool" /\ at[t] # "out" /\ PoolStep(t))
    /\ \A c \in Calls : WF_permitVars(part = "permits" /\ Progress(c))
    /\ \A c \in Blocking : WF_permitVars(part = "permits" /\ Return(c))
    /\ \A o \in Ops : WF_redisVars(part = "redis" /\ Continues(o))
FairSpec == Spec /\ Fairness

(* Every part of the state is well formed.                                 *)
TypeOK ==
    /\ PoolTypeOK
    /\ permits \in Nat /\ holders \subseteq Blocking /\ lost \subseteq Calls
    /\ open \in [Calls -> Nat] /\ due \in [Calls -> Nat] /\ exec \in [Calls -> BOOLEAN] /\ multi \in [Calls -> BOOLEAN]
    /\ arrived \in Nat /\ Len(results) <= Len(stream)
    /\ RedisTypeOK

=============================================================================
