------------------------ MODULE SubscriberConnection ------------------------
(***************************************************************************)
(* SubscriberAkkaConnection: the users of a subscriber connection, one     *)
(* operation at a time under a semaphore, composed with the listener.      *)
(*                                                                         *)
(* AUTH, CLIENT SETNAME and QUIT are not allowed while subscribed: the     *)
(* connection has the listener save what it is subscribed to, unsubscribes *)
(* from all of it, sends the request and has the listener resubscribe.     *)
(* Each of these steps runs in the callback of the one before.             *)
(***************************************************************************)
EXTENDS SubscriberListenerActor

CONSTANTS
    Threads,
    Workload,       \* Workload[t]: the operations of t
    QuietDrops,     \* bound: the connection is lost only between two operations,
                    \* or before the first reply to a subscription
    Unhurried       \* bound: subscriptions are saved only when none is under way

VARIABLES
    lock,             \* permits of the semaphore
    user,             \* user[t]: where the present operation of t stands
    todo,             \* todo[t]: the operations of t that are left
    isShuttingDown,
    wanted            \* history: what the completed operations subscribed to
userVars == <<lock, user, todo, isShuttingDown, wanted>>
vars == <<serverVars, box, dbox, listenerVars, outcome, userVars>>

(* There are finitely many channels and patterns, and the operations are   *)
(* those of the connection, each about channels or about patterns.         *)
Operations == UNION {{Workload[t][k] : k \in DOMAIN Workload[t]} : t \in Threads}
IsOperation(o) ==
    /\ {<<o.id, "main">>, <<o.id, "unsubscribe">>, <<o.id, "pUnsubscribe">>} \subseteq Ids
    /\ \/ o.op \in ChannelOps /\ o.names \in Seq(Channels)
       \/ o.op \in PatternOps /\ o.names \in Seq(Patterns)
       \/ o.op \in SessionOps /\ o.names \in Seq(STRING) /\ o.names # <<>>
       \/ o.op = "quit" /\ o.names \in Seq(STRING)
SettingsType == [SessionOps -> {None} \cup STRING]
ASSUME SubscriberAssumption ==
    /\ IsFiniteSet(Channels) /\ IsFiniteSet(Patterns)
    /\ Workload \in [Threads -> Seq(Operations)]
    /\ \A o \in Operations : IsOperation(o)
    /\ InitialSettings \in SettingsType

Op(t) == Head(todo[t])
Main(t) == <<Op(t).id, "main">>
Unsub(t) == <<Op(t).id, "unsubscribe">>
PUnsub(t) == <<Op(t).id, "pUnsubscribe">>
Goes(t, from, to) == user[t] = from /\ user' = [user EXCEPT ![t] = to]
UnchangedListener == UNCHANGED <<serverVars, dbox, listenerVars>>

(* lock.acquire().                                                         *)
Acquire(t) ==
    /\ todo[t] # <<>> /\ lock > 0
    /\ Goes(t, "idle", "locked")
    /\ lock' = lock - 1
    /\ UnchangedListener
    /\ UNCHANGED <<box, outcome, todo, isShuttingDown, wanted>>

(* sendAsSubscriber.                                                       *)
Subscribe(t) ==
    /\ Goes(t, "locked", "sent")
    /\ Op(t).op \in PubSubOps /\ ~isShuttingDown
    /\ Tell(Message("request", Request(Main(t), Op(t).op, Op(t).names)))
    /\ UnchangedListener
    /\ UNCHANGED <<outcome, lock, todo, isShuttingDown, wanted>>

RefuseSubscribe(t) ==
    /\ Goes(t, "locked", "idle")
    /\ Op(t).op \in PubSubOps /\ isShuttingDown
    /\ lock' = lock + 1
    /\ outcome' = Completed(Main(t), "refused")
    /\ todo' = [todo EXCEPT ![t] = Tail(@)]
    /\ UnchangedListener
    /\ UNCHANGED <<box, isShuttingDown, wanted>>

(* What the two bounds exclude is in README.md.                            *)
Decoded == \A d \in Decoders : dbox[d] = <<>>
AtRest == mode = "initialized" /\ box = <<>> /\ Decoded
Quiet ==
    /\ AtRest /\ requestOpt = NoRequest
    /\ \A k \in DOMAIN requests : requests[k].id # None
    /\ \A t \in Threads : user[t] # "idle" => Op(t).op \in PubSubOps

(* authenticate, setName and shutdown: Unsubscribe(), after the subscrip-  *)
(* tions have been saved, but for shutdown.                                *)
Unsubscribe(t) ==
    /\ Goes(t, "locked", "unsubscribing")
    /\ Op(t).op \in RegularOps
    /\ Unhurried => AtRest /\ requests = <<>>
    /\ LET ask == Message("request", Request(Unsub(t), "unsubscribe", <<>>))
       IN box' = box \o (IF Op(t).op = "quit" THEN <<ask>>
                         ELSE <<Message("save", NoRequest), ask>>)
    /\ isShuttingDown' = (isShuttingDown \/ Op(t).op = "quit")
    /\ UnchangedListener
    /\ UNCHANGED <<outcome, lock, todo, wanted>>

(* ... PUnsubscribe(), whatever became of the first; then the request.     *)
UnsubscribeTwice(t) == Message("request", Request(PUnsub(t), "unsubscribe", <<>>))
AskPUnsubscribe(t) == Message("request", Request(PUnsub(t), "punsubscribe", <<>>))
PUnsubscribe(t) ==
    /\ Goes(t, "unsubscribing", "pUnsubscribing")
    /\ outcome[Unsub(t)] # "pending"
    /\ Tell(AskPUnsubscribe(t))
    /\ UnchangedListener
    /\ UNCHANGED <<outcome, lock, todo, isShuttingDown, wanted>>

SendRegular(t) ==
    /\ Goes(t, "pUnsubscribing", "sent")
    /\ outcome[PUnsub(t)] # "pending"
    /\ Tell(Message("regular", Request(Main(t), Op(t).op, Op(t).names)))
    /\ UnchangedListener
    /\ UNCHANGED <<outcome, lock, todo, isShuttingDown, wanted>>

(* onComplete: the listener recovers what was saved; lock.release().       *)
Wanted(t) ==
    LET names == {Op(t).names[k] : k \in DOMAIN Op(t).names}
    IN CASE outcome[Main(t)] # "ok" -> wanted
         [] Op(t).op \in {"subscribe", "psubscribe"} -> wanted \cup names
         [] Op(t).op = "quit" -> {}
         [] Op(t).op = "unsubscribe" -> wanted \ (IF names = {} THEN Channels ELSE names)
         [] Op(t).op = "punsubscribe" -> wanted \ (IF names = {} THEN Patterns ELSE names)
         [] OTHER -> wanted
NeverRecovering(t) == UNCHANGED box
Recovering(t) ==
    IF Op(t).op \in {"auth", "setName"} THEN Tell(Message("recover", NoRequest)) ELSE UNCHANGED box
ReleasedTwice == lock + 2
Released == lock + 1
Release(t) ==
    /\ Goes(t, "sent", "idle")
    /\ outcome[Main(t)] # "pending"
    /\ Recovering(t)
    /\ lock' = Released
    /\ todo' = [todo EXCEPT ![t] = Tail(@)]
    /\ wanted' = Wanted(t)
    /\ UnchangedListener
    /\ UNCHANGED <<outcome, isShuttingDown>>

---------------------------------------------------------------------------
Loses == (QuietDrops => Quiet) /\ Drop

Init ==
    /\ ListenerInit
    /\ lock = 1
    /\ user = [t \in Threads |-> "idle"]
    /\ todo = Workload
    /\ isShuttingDown = FALSE
    /\ wanted = {}

UserStep(t) ==
    \/ Acquire(t) \/ Subscribe(t) \/ RefuseSubscribe(t)
    \/ Unsubscribe(t) \/ PUnsubscribe(t) \/ SendRegular(t) \/ Release(t)
ConnectionStep == Connect \/ Server \/ Deliver \/ Close

Next ==
    \/ \E t \in Threads : UserStep(t)
    \/ (ListenerStep \/ ConnectionStep \/ \E d \in Decoders : Decode(d)) /\ UNCHANGED userVars
    \/ Loses /\ UNCHANGED userVars

Spec == Init /\ [][Next]_vars

(* The dispatcher runs actors with messages and callbacks of completed     *)
(* futures; a connection is made, requests are answered, replies arrive.   *)
Fairness ==
    /\ \A t \in Threads : WF_vars(UserStep(t))
    /\ WF_vars(ListenerStep /\ UNCHANGED userVars)
    /\ WF_vars(ConnectionStep /\ UNCHANGED userVars)
    /\ \A d \in Decoders : WF_vars(Decode(d) /\ UNCHANGED userVars)
FairSpec == Spec /\ Fairness

---------------------------------------------------------------------------
(* Properties.                                                             *)

RequestType ==
    [id : Ids \cup {None}, op : ChannelOps, names : Seq(Channels)]
      \cup [id : Ids \cup {None}, op : PatternOps, names : Seq(Patterns)]
      \cup [id : Ids \cup {None}, op : SessionOps, names : Seq(STRING) \ {<<>>}]
      \cup [id : Ids \cup {None}, op : {"quit"}, names : Seq(STRING)]
SubscriptionsType == [channels : SUBSET Channels, patterns : SUBSET Patterns]

(* The state is well formed, no request, saved subscription or session of  *)
(* the server has a channel for a pattern, and the semaphore has at most   *)
(* its one permit.                                                         *)
TypeOK ==
    /\ link \in {"down", "up", "closing"}
    /\ serverChannels \subseteq Channels /\ serverPatterns \subseteq Patterns
    /\ wire \in Seq(RequestType)
    /\ requests \in Seq(RequestType) /\ queuedRequests \in Seq(RequestType)
    /\ requestOpt \in RequestType \cup {NoRequest}
    /\ subscribed \in SubscriptionsType /\ saved \in SubscriptionsType
    /\ settings \in SettingsType
    /\ mode \in {"connecting", "initializing", "initialized", "shuttingDown",
                 "awaitingDecodersShutdown", "dead"}
    /\ requestResponsesCount \in Nat /\ initCount \in Int
    /\ outcome \in [Ids -> {"pending", "ok", "wrong", "failed", "refused"}]
    /\ lock \in {0, 1}

(* When nothing is under way, the channels and patterns the listener would *)
(* subscribe to again are those the server has, and those of the completed *)
(* operations; and its three counters, on which the completion of          *)
(* Unsubscribe() and PUnsubscribe() rests, are the server's.               *)
Settled ==
    /\ AtRest
    /\ wire = <<>> /\ net = <<>> /\ link = "up"
    /\ \A t \in Threads : user[t] = "idle"
TracksTheServer ==
    Settled =>
      /\ subscribed = [channels |-> serverChannels, patterns |-> serverPatterns]
      /\ serverChannels \cup serverPatterns = wanted
      /\ counts = [total |-> Cardinality(wanted), channels |-> Cardinality(serverChannels),
                   patterns |-> Cardinality(serverPatterns)]

(* README.md: "Automatically resubscribes to previously subscribed         *)
(* channels/patterns upon reconnection".                                   *)
Resubscribed == Settled => wanted \subseteq serverChannels \cup serverPatterns

(* AUTH, CLIENT SETNAME and QUIT reach the server only when the session    *)
(* has no subscriptions: it would refuse them otherwise.                   *)
RegularWhenUnsubscribed ==
    wire # <<>> /\ link = "up" /\ Head(wire).op \in RegularOps => ~Subscribed

(* Every operation is completed ("they return a Future as any other        *)
(* commands", README.md) and gives the lock back, so that those waiting    *)
(* for it get their turn.                                                  *)
OperationsComplete ==
    \A t \in Threads : todo[t] # <<>> ~> todo[t] = <<>>

=============================================================================
