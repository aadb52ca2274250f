------------------------------ MODULE Permits ------------------------------
(***************************************************************************)
(* The permits of max-concurrent-requests, which all clients share: a call *)
(* of Protocol.send acquires one for its request, or one for each request  *)
(* of its transaction and one for EXEC; Request.success and failure        *)
(* release one, whatever the request.  Calls of AkkaBlockingConnection     *)
(* hold the lock of their connection meanwhile.                            *)
(*                                                                         *)
(* What becomes of a call is what ListenerActor, IOActor and DecoderActor  *)
(* may do with it, as modelled there.                                      *)
(***************************************************************************)
EXTENDS Integers, FiniteSets

CONSTANTS
    Calls,          \* each by a thread of its own
    Size,           \* Size[c]: the requests of a transaction, 0 for one request
    Blocking,       \* the calls of sendBlocking, on one connection
    Limit,          \* max-concurrent-requests
    MaxInternal     \* bound: AUTH, SELECT, CLIENT SETNAME of new connections

ASSUME PermitsAssumption ==
    /\ IsFiniteSet(Calls)
    /\ Size \in [Calls -> Nat]
    /\ Limit \in Nat

VARIABLES
    permits,
    stage,          \* stage[c]: where the call stands
    multi,          \* multi[c]: is MULTI still to be completed
    exec,           \* exec[c]: is EXEC, or the one request, still to be completed
    open,           \* open[c]: how many other requests are
    due,            \* due[c]: how many replies to these are still to be decoded
    holders,        \* who holds the lock of the blocking connection
    lost,           \* the calls that went to dead letters
    internal,       \* initial requests of connections completed so far
    unpaid          \* history: the releases that nobody had acquired for
permitVars == <<permits, stage, multi, exec, open, due, holders, lost, internal, unpaid>>

Moves(c, from, to) == stage[c] = from /\ stage' = [stage EXCEPT ![c] = to]
Release(n) == permits' = permits + n
Cost(c) == 1 + Size[c]

(* acquire refuses what it could never give: without the limit it waits.   *)
NeverTooMany(c) == FALSE
TooMany(c) == Cost(c) > Limit

(* send; sendBlocking: tryLock, or an exception.                           *)
Send(c) ==
    /\ LET refused == TooMany(c) \/ (c \in Blocking /\ holders # {})
       IN /\ Moves(c, "new", IF refused THEN "refused" ELSE "acquiring")
          /\ holders' = IF c \in Blocking /\ ~refused THEN {c} ELSE holders
    /\ UNCHANGED <<permits, multi, exec, open, due, lost, internal, unpaid>>

(* semaphore.acquire(count), and the message to the listener.              *)
Acquire(c) ==
    /\ Moves(c, "acquiring", "sent")
    /\ permits >= Cost(c)
    /\ permits' = permits - Cost(c)
    /\ multi' = [multi EXCEPT ![c] = Size[c] > 0]
    /\ exec' = [exec EXCEPT ![c] = TRUE]
    /\ open' = [open EXCEPT ![c] = Size[c]]
    /\ due' = [due EXCEPT ![c] = Size[c]]
    /\ UNCHANGED <<holders, lost, internal, unpaid>>

(* Await.result ends with the result or the timeout; the lock is given     *)
(* back while the request may still be under way.                          *)
UnblockWithResult(c) == IF exec[c] THEN holders ELSE holders \ {c}
Unblock(c) == holders \ {c}
Return(c) ==
    /\ c \in Blocking
    /\ Moves(c, "sent", "returned")
    /\ holders' = Unblock(c)
    /\ UNCHANGED <<permits, multi, exec, open, due, lost, internal, unpaid>>

---------------------------------------------------------------------------
Awaited(c) == exec[c] /\ c \notin lost
Unanswered(c) == Awaited(c) /\ multi[c] = (Size[c] > 0) /\ due[c] = Size[c]

(* The reply to MULTI, for which nothing was acquired.                     *)
CompleteMulti(c) ==
    /\ c \notin lost /\ multi[c]
    /\ multi' = [multi EXCEPT ![c] = FALSE]
    /\ Release(1)
    /\ unpaid' = unpaid + 1
    /\ UNCHANGED <<stage, exec, open, due, holders, lost, internal>>

(* QUEUED, or an error in its place that completes the request.  Another   *)
(* decoder may have been faster with EXEC, and the request be completed.   *)
Queued(c) ==
    /\ c \notin lost /\ due[c] > 0
    /\ due' = [due EXCEPT ![c] = @ - 1]
    /\ UNCHANGED <<permits, stage, multi, exec, open, holders, lost, internal, unpaid>>
NotQueued(c) ==
    /\ c \notin lost /\ due[c] > 0
    /\ due' = [due EXCEPT ![c] = @ - 1]
    /\ Release(1)
    /\ IF open[c] > 0 THEN open' = [open EXCEPT ![c] = @ - 1] /\ UNCHANGED unpaid
                       ELSE unpaid' = unpaid + 1 /\ UNCHANGED open
    /\ UNCHANGED <<stage, multi, exec, holders, lost, internal>>

(* The reply to EXEC or to the one request.                                *)
Complete(c) ==
    /\ Awaited(c)
    /\ exec' = [exec EXCEPT ![c] = FALSE]
    /\ Release(1)
    /\ UNCHANGED <<stage, multi, open, due, holders, lost, internal, unpaid>>

(* Transaction: once EXEC is completed, a callback completes those of its  *)
(* requests that are not.                                                  *)
AllRequests(c) == Size[c]
Uncompleted(c) == open[c]
CompleteTransaction(c) ==
    /\ stage[c] \notin {"new", "acquiring", "refused"} /\ ~exec[c] /\ open[c] > 0
    /\ Release(Uncompleted(c))
    /\ open' = [open EXCEPT ![c] = 0]
    /\ UNCHANGED <<stage, multi, exec, due, holders, lost, internal, unpaid>>

(* The connection is lost: the listener fails EXEC, the n requests before  *)
(* it whose replies it has not received, and MULTI when it has none.       *)
Fail(c) ==
    /\ Awaited(c)
    /\ \E n \in 0..due[c] :
         \E failsMulti \in {multi[c] /\ n = Size[c], FALSE} :
            /\ due' = [due EXCEPT ![c] = @ - n]
            /\ open' = [open EXCEPT ![c] = @ - n]
            /\ multi' = [multi EXCEPT ![c] = @ /\ ~failsMulti]
            /\ unpaid' = unpaid + (IF failsMulti THEN 1 ELSE 0)
            /\ Release(n + 1 + (IF failsMulti THEN 1 ELSE 0))
    /\ exec' = [exec EXCEPT ![c] = FALSE]
    /\ UNCHANGED <<stage, holders, lost, internal>>

(* The listener refuses it: only EXEC is failed, MULTI is never sent.      *)
Refuse(c) ==
    /\ Unanswered(c)
    /\ multi' = [multi EXCEPT ![c] = FALSE]
    /\ due' = [due EXCEPT ![c] = 0]
    /\ exec' = [exec EXCEPT ![c] = FALSE]
    /\ Release(1)
    /\ UNCHANGED <<stage, open, holders, lost, internal, unpaid>>

(* Nobody is left to complete it: the listener has stopped.                *)
Lose(c) ==
    /\ Unanswered(c)
    /\ lost' = lost \cup {c}
    /\ UNCHANGED <<permits, stage, multi, exec, open, due, holders, internal, unpaid>>

(* The reply to an initial request, sent by the listener itself.           *)
CompleteInternal ==
    /\ internal < MaxInternal /\ internal' = internal + 1
    /\ Release(1)
    /\ unpaid' = unpaid + 1
    /\ UNCHANGED <<stage, multi, exec, open, due, holders, lost>>

---------------------------------------------------------------------------
PermitsInit ==
    /\ permits = Limit
    /\ stage = [c \in Calls |-> "new"]
    /\ multi = [c \in Calls |-> FALSE]
    /\ exec = [c \in Calls |-> FALSE]
    /\ open = [c \in Calls |-> 0]
    /\ due = [c \in Calls |-> 0]
    /\ holders = {} /\ lost = {}
    /\ internal = 0 /\ unpaid = 0

Progress(c) ==
    \/ Send(c) \/ Acquire(c) \/ Return(c)
    \/ CompleteMulti(c) \/ Queued(c) \/ NotQueued(c) \/ Complete(c) \/ CompleteTransaction(c)
    \/ Fail(c) \/ Refuse(c)
PermitsNext == (\E c \in Calls : Progress(c) \/ Lose(c)) \/ CompleteInternal
PermitsSpec == PermitsInit /\ [][PermitsNext]_permitVars

---------------------------------------------------------------------------
(* Properties.                                                             *)

(* No permit is lost and none made, but for those that MULTI, the initial  *)
(* requests and late errors release: so many more requests than the limit  *)
(* may be under way from then on, and never more.                          *)
RequestsOf(c) == {c} \X (1..open[c] \cup IF exec[c] THEN {0} ELSE {})
UnderWay == Cardinality(UNION {RequestsOf(c) : c \in Calls})
PermitsAreAccountedFor ==
    /\ permits + UnderWay = Limit + unpaid
    /\ UnderWay <= Limit + unpaid

(* Whoever waits for permits gets them, also many at once, unless some     *)
(* were lost with a listener that had stopped.                             *)
AcquireReturns ==
    \A c \in Calls : stage[c] = "acquiring" ~> (stage[c] # "acquiring" \/ lost # {})

(* A blocking connection does not stay blocked, whatever becomes of the    *)
(* request, unless permits were lost.                                      *)
BlockedConnectionIsFreed == (holders # {}) ~> (holders = {} \/ lost # {})

=============================================================================
