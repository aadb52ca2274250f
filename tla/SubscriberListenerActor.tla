---------------------- MODULE SubscriberListenerActor ----------------------
(***************************************************************************)
(* SubscriberListenerActor: a ListenerActor whose replies are decoded into *)
(* messages to itself, which it counts to find out when a request of       *)
(* (un)subscription is completed and what the connection is subscribed to. *)
(*                                                                         *)
(* What it inherits is modelled in ListenerActor; here IOActor and TCP are *)
(* the two channels of PubSubServer, and `connecting` stands for           *)
(* `reconnecting` too, as both only queue requests.                        *)
(***************************************************************************)
EXTENDS PubSubServer

CONSTANTS
    Ids,            \* the requests of the users; a request without user has id None
    Decoders,       \* two, for every SubscriberClient
    Overtaking,     \* may the decoders overtake one another
    InitialSettings \* authOpt and nameOpt of the constructor

VARIABLES
    mode,             \* the behaviour it has become
    box,              \* its mailbox
    dbox,             \* dbox[d]: the replies DecoderActor d has still to decode
    queuedRequests,
    requests,
    requestOpt,
    requestResponsesCount,
    counts,           \* subscribedCount, subscribedChannelsCount, ...PatternsCount
    subscribed,       \* subscribedChannels and subscribedPatterns
    saved,            \* savedSubscribedChannels and savedSubscribedPatterns
    settings,         \* authOpt and nameOpt: of the last AUTH and CLIENT SETNAME, or None
    initCount,        \* initializationRequestsCount
    outcome           \* outcome[i]: what the promise of request i was completed with
listenerVars ==
    <<mode, queuedRequests, requests, requestOpt, requestResponsesCount,
      counts, subscribed, saved, settings, initCount>>

Request(id, op, names) == [id |-> id, op |-> op, names |-> names]
NoRequest == Request(None, "none", <<>>)
NoCounts == [total |-> 0, channels |-> 0, patterns |-> 0]
NoSubscriptions == [channels |-> {}, patterns |-> {}]
Union(a, b) == [channels |-> a.channels \cup b.channels, patterns |-> a.patterns \cup b.patterns]

Message(type, body) == [type |-> type, body |-> body]
Tell(m) == box' = Append(box, m)
Receives(type) == box # <<>> /\ Head(box).type = type
Body == Head(box).body
Consume == box' = Tail(box)

Completed(id, result) ==
    IF id \in Ids /\ outcome[id] = "pending" THEN [outcome EXCEPT ![id] = result] ELSE outcome
(* success: with what the server answered to this request, or to another.  *)
Succeeded(r, reply) == Completed(r.id, IF reply.id = r.id THEN "ok" ELSE "wrong")
Failed(rs) ==
    [i \in Ids |-> IF outcome[i] = "pending" /\ \E k \in DOMAIN rs : rs[k].id = i
                   THEN "failed" ELSE outcome[i]]

---------------------------------------------------------------------------
(* The password or name that r gives; the empty name is none.              *)
SessionOps == {"auth", "setName"}
Given(r) == IF r.op = "setName" /\ r.names[1] = "" THEN None ELSE r.names[1]
Asking(op, rs) == {k \in DOMAIN rs : rs[k].op = op}
Remember(rs) ==
    [op \in SessionOps |->
        IF Asking(op, rs) = {} THEN settings[op] ELSE Given(rs[Max(Asking(op, rs))])]

(* send(requests): what is sent is awaited; QUIT shuts down.               *)
Send(rs) ==
    /\ requests' = requests \o rs
    /\ wire' = IF link = "up" THEN wire \o rs ELSE wire
    /\ settings' = Remember(rs)
BehaviourAfter(rs, otherwise) ==
    IF \E k \in DOMAIN rs : rs[k].op = "quit" THEN "shuttingDown" ELSE otherwise

(* onConnect.                                                              *)
ResetRequest ==
    /\ requestOpt' = NoRequest
    /\ requestResponsesCount' = 0
    /\ counts' = NoCounts

(* onInitialized: a request for each subscription of s, whose confirmation *)
(* will enter it again; pushed one by one, they end up last first.         *)
Resubscriptions(s) ==
    [k \in 1..Cardinality(s.channels) |->
        Request(None, "subscribe", <<SetToSeq(s.channels)[k]>>)]
      \o [k \in 1..Cardinality(s.patterns) |->
        Request(None, "psubscribe", <<SetToSeq(s.patterns)[k]>>)]
Initialized ==
    LET rs == Reverse(Resubscriptions(subscribed)) \o queuedRequests
    IN /\ Send(rs)
       /\ mode' = BehaviourAfter(rs, "initialized")
       /\ subscribed' = NoSubscriptions
       /\ queuedRequests' = <<>>

---------------------------------------------------------------------------
(* A request of the users.                                                 *)
OnRequest ==
    /\ Receives("request") /\ Consume
    /\ IF mode = "initialized" THEN
          /\ Send(<<Body>>)
          /\ mode' = BehaviourAfter(<<Body>>, mode)
          /\ UNCHANGED <<queuedRequests, outcome>>
       ELSE
          /\ IF mode \in {"connecting", "initializing"}
               THEN queuedRequests' = Append(queuedRequests, Body) /\ UNCHANGED outcome
               ELSE outcome' = Failed(<<Body>>) /\ UNCHANGED queuedRequests
          /\ UNCHANGED <<mode, requests, wire, settings>>
    /\ UNCHANGED <<link, net, serverChannels, serverPatterns, drops, dbox, requestOpt,
                   requestResponsesCount, counts, subscribed, saved, initCount>>

(* Connected.  A SELECT is never among the initial requests.               *)
InitRequest(op) ==
    IF settings[op] = None THEN <<>> ELSE <<Request(None, op, <<settings[op]>>)>>
InitRequests == InitRequest("auth") \o InitRequest("setName")

OnConnected ==
    /\ Receives("connected") /\ Consume
    /\ mode = "connecting"
    /\ ResetRequest
    /\ initCount' = Len(InitRequests)
    /\ \/ /\ InitRequests # <<>>
          /\ Send(InitRequests)
          /\ mode' = "initializing"
          /\ UNCHANGED <<queuedRequests, subscribed>>
       \/ InitRequests = <<>> /\ Initialized
    /\ UNCHANGED <<link, net, serverChannels, serverPatterns, drops, dbox, saved, outcome>>

(* Received: the replies go to a decoder, which tells of them later; the   *)
(* initial ones are only counted, and `requests` is left alone.            *)
OnReceived ==
    /\ Receives("received") /\ Consume
    /\ \E d \in Decoders :
         /\ Overtaking \/ \A e \in Decoders : dbox[e] = <<>>
         /\ dbox' = [dbox EXCEPT ![d] = @ \o Body]
    /\ \/ /\ mode = "initializing"
          /\ initCount' = initCount - Len(Body)
          /\ IF initCount' = 0 THEN Initialized
             ELSE UNCHANGED <<mode, subscribed, queuedRequests, requests, wire, settings>>
       \/ /\ mode \in {"initialized", "shuttingDown"}
          /\ UNCHANGED <<mode, subscribed, queuedRequests, requests, wire, settings, initCount>>
    /\ UNCHANGED <<link, net, serverChannels, serverPatterns, drops, requestOpt,
                   requestResponsesCount, counts, saved, outcome>>

(* SubscribePartition, one reply at a time.                                *)
Verdict(reply) ==
    IF reply.kind \in PubSubOps THEN "complete"
    ELSE IF reply.kind = "error" THEN "fail" ELSE "confirm"
Decode(d) ==
    /\ dbox[d] # <<>>
    /\ Tell(Message(Verdict(Head(dbox[d])), Head(dbox[d])))
    /\ dbox' = [dbox EXCEPT ![d] = Tail(@)]
    /\ UNCHANGED <<serverVars, listenerVars, outcome>>

---------------------------------------------------------------------------
(* The request that a reply is about: the one being confirmed, or else the *)
(* next; with none at all the listener dies of pop().                      *)
Concerned == IF requestOpt # NoRequest THEN requestOpt ELSE Head(requests)
NoneConcerned == requestOpt = NoRequest /\ requests = <<>>
PopUnlessConfirming ==
    requests' = IF requestOpt # NoRequest THEN requests ELSE Tail(requests)

(* What a confirmation says of the subscriptions.  An UNSUBSCRIBE may have *)
(* taken any number of them away: its count tells.                         *)
CountedOneByOne(m) ==
    LET d == IF m.kind \in {"subscribe", "psubscribe"} THEN 1 ELSE -1
    IN IF m.kind \in ChannelOps
         THEN [counts EXCEPT !.total = @ + d, !.channels = @ + d]
         ELSE [counts EXCEPT !.total = @ + d, !.patterns = @ + d]
Counted(m) ==
    LET difference == counts.total - m.count
    IN CASE m.kind = "subscribe" ->
              [counts EXCEPT !.total = @ + 1, !.channels = @ + 1]
         [] m.kind = "psubscribe" ->
              [counts EXCEPT !.total = @ + 1, !.patterns = @ + 1]
         [] m.kind = "unsubscribe" ->
              [counts EXCEPT !.total = @ - difference, !.channels = @ - difference]
         [] m.kind = "punsubscribe" ->
              [counts EXCEPT !.total = @ - difference, !.patterns = @ - difference]
Entered(m) ==
    IF m.kind \in {"subscribe", "psubscribe"}
      THEN [subscribed EXCEPT !.channels = @ \cup ({m.name} \cap Channels),
                              !.patterns = @ \cup ({m.name} \cap Patterns)]
      ELSE [subscribed EXCEPT !.channels = @ \ {m.name}, !.patterns = @ \ {m.name}]

(* UNSUBSCRIBE without arguments is completed when only the subscriptions  *)
(* of the other kind are left, anything else after one reply an argument.  *)
IsComplete(r, m) ==
    IF r.names = <<>>
      THEN m.count = IF m.kind = "unsubscribe" THEN Counted(m).patterns ELSE Counted(m).channels
      ELSE Len(r.names) = requestResponsesCount + 1

OnComplete ==
    /\ Receives("complete") /\ Consume
    /\ counts' = Counted(Body)
    /\ subscribed' = Entered(Body)
    /\ PopUnlessConfirming
    /\ IF IsComplete(Concerned, Body)
         THEN /\ outcome' = Succeeded(Concerned, Body)
              /\ requestOpt' = NoRequest
              /\ requestResponsesCount' = 0
         ELSE /\ requestOpt' = Concerned
              /\ requestResponsesCount' = requestResponsesCount + 1
              /\ UNCHANGED outcome
    /\ UNCHANGED <<serverVars, dbox, mode, queuedRequests, saved, settings, initCount>>

(* Of the requests a regular client makes, CLIENT SETNAME is not among     *)
(* those a Confirm completes.                                              *)
OnConfirm ==
    /\ Receives("confirm") /\ Consume
    /\ PopUnlessConfirming
    /\ IF Concerned.op \in {"auth", "quit"}
         THEN /\ outcome' = Succeeded(Concerned, Body)
              /\ requestOpt' = NoRequest
              /\ requestResponsesCount' = 0
         ELSE /\ requestOpt' = Concerned
              /\ UNCHANGED <<outcome, requestResponsesCount>>
    /\ UNCHANGED <<serverVars, dbox, mode, queuedRequests, counts, subscribed, saved,
                   settings, initCount>>

OnFail ==
    /\ Receives("fail") /\ Consume
    /\ outcome' = Failed(<<Head(requests)>>)
    /\ requests' = Tail(requests)
    /\ UNCHANGED <<serverVars, dbox, mode, queuedRequests, requestOpt, requestResponsesCount,
                   counts, subscribed, saved, settings, initCount>>

(* pop() of an empty list, or an (un)subscription that answers a request   *)
(* of no arguments and is not an UNSUBSCRIBE: the exception restarts the   *)
(* actor, which has then forgotten everything.  Nothing is modelled after. *)
Dying ==
    \/ (Receives("complete") \/ Receives("confirm")) /\ NoneConcerned
    \/ Receives("fail") /\ requests = <<>>
    \/ /\ Receives("complete") /\ ~NoneConcerned
       /\ Concerned.names = <<>> /\ Body.kind \in {"subscribe", "psubscribe"}
Die ==
    /\ mode' = "dead"
    /\ UNCHANGED <<serverVars, box, dbox, queuedRequests, requests, requestOpt,
                   requestResponsesCount, counts, subscribed, saved, settings, initCount, outcome>>

---------------------------------------------------------------------------
(* The messages of authenticate, setName and shutdown, in any behaviour.   *)

SavedNow == Union(saved, subscribed)
OnSave ==
    /\ Receives("save") /\ Consume
    /\ saved' = SavedNow
    /\ UNCHANGED <<serverVars, dbox, mode, queuedRequests, requests, requestOpt,
                   requestResponsesCount, counts, subscribed, settings, initCount, outcome>>

(* SendAsRegularClient and Shutdown.                                       *)
OnRegular ==
    /\ Receives("regular") /\ Consume
    /\ ResetRequest
    /\ Send(<<Body>>)
    /\ mode' = BehaviourAfter(<<Body>>, mode)
    /\ UNCHANGED <<link, net, serverChannels, serverPatterns, drops, dbox, queuedRequests,
                   subscribed, saved, initCount, outcome>>

OnRecover ==
    /\ Receives("recover") /\ Consume
    /\ LET all == Union(subscribed, saved) IN Send(Resubscriptions(all))
    /\ subscribed' = NoSubscriptions
    /\ saved' = NoSubscriptions
    /\ UNCHANGED <<link, net, serverChannels, serverPatterns, drops, dbox, mode, queuedRequests,
                   requestOpt, requestResponsesCount, counts, initCount, outcome>>

(* Terminated of the IOActor.                                              *)
OnTerminated ==
    /\ Receives("terminated") /\ Consume
    /\ \/ /\ mode = "initialized"
          /\ mode' = "connecting"
          /\ outcome' = Failed(requests)
          /\ requests' = <<>>
          /\ UNCHANGED queuedRequests
       \/ /\ mode = "initializing"
          /\ mode' = "connecting"
          /\ outcome' = Failed(queuedRequests)
          /\ queuedRequests' = <<>>
          /\ UNCHANGED requests
       \/ /\ mode = "shuttingDown"
          /\ mode' = "awaitingDecodersShutdown"
          /\ UNCHANGED <<outcome, requests, queuedRequests>>
    /\ UNCHANGED <<serverVars, dbox, requestOpt, requestResponsesCount, counts, subscribed,
                   saved, settings, initCount>>

---------------------------------------------------------------------------
(* What the connection tells the listener.                                 *)
Connect ==
    /\ link = "down" /\ mode = "connecting"
    /\ \A k \in DOMAIN box : box[k].type \notin {"connected", "terminated"}
    /\ link' = "up"
    /\ Tell(Message("connected", NoRequest))
    /\ UNCHANGED <<wire, net, serverChannels, serverPatterns, drops, dbox, listenerVars, outcome>>

Deliver ==
    /\ link # "down"
    /\ \E k \in 1..Len(net) :
         /\ Tell(Message("received", SubSeq(net, 1, k)))
         /\ net' = SubSeq(net, k + 1, Len(net))
    /\ UNCHANGED <<link, wire, serverChannels, serverPatterns, drops, dbox, listenerVars, outcome>>

(* The server closes after its answer to QUIT.                             *)
Close ==
    /\ link = "closing" /\ net = <<>>
    /\ link' = "down" /\ wire' = <<>>
    /\ serverChannels' = {} /\ serverPatterns' = {}
    /\ Tell(Message("terminated", NoRequest))
    /\ UNCHANGED <<net, drops, dbox, listenerVars, outcome>>

Drop ==
    /\ Lost
    /\ Tell(Message("terminated", NoRequest))
    /\ UNCHANGED <<dbox, listenerVars, outcome>>

Server ==
    /\ ServerExecute
    /\ UNCHANGED <<box, dbox, listenerVars, outcome>>

ListenerStep ==
    /\ mode # "dead"
    /\ IF Dying THEN Die
       ELSE \/ OnRequest \/ OnConnected \/ OnReceived \/ OnComplete \/ OnConfirm \/ OnFail
            \/ OnSave \/ OnRegular \/ OnRecover \/ OnTerminated

ListenerInit ==
    /\ link = "down" /\ wire = <<>> /\ net = <<>> /\ drops = 0
    /\ serverChannels = {} /\ serverPatterns = {}
    /\ mode = "connecting"
    /\ box = <<>>
    /\ dbox = [d \in Decoders |-> <<>>]
    /\ queuedRequests = <<>> /\ requests = <<>>
    /\ requestOpt = NoRequest /\ requestResponsesCount = 0
    /\ counts = NoCounts
    /\ subscribed = NoSubscriptions /\ saved = NoSubscriptions
    /\ settings = InitialSettings /\ initCount = 0
    /\ outcome = [i \in Ids |-> "pending"]

=============================================================================
