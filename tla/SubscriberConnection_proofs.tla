--------------------- MODULE SubscriberConnection_proofs ---------------------
(***************************************************************************)
(* The state of a subscriber connection is well formed, for any channels,  *)
(* patterns, threads, decoders and operations, however often the           *)
(* connection is lost and in whatever order the decoders run; and one      *)
(* thread at a time holds its lock.                                        *)
(***************************************************************************)
EXTENDS SubscriberConnection, SequenceTheorems, FiniteSetTheorems, TLAPS

Outcomes == {"pending", "ok", "wrong", "failed", "refused"}
ReplyType ==
    [id : Ids \cup {None}, kind : PubSubOps \cup {"ok", "error"},
     name : Channels \cup Patterns \cup {None}, count : Nat]
MessageType ==
    [type : {"request", "regular"}, body : RequestType]
      \cup [type : {"received"}, body : Seq(ReplyType)]
      \cup [type : {"complete", "confirm", "fail"}, body : ReplyType]
      \cup [type : {"save", "recover", "connected", "terminated"}, body : {NoRequest}]

(* What is under way is well formed too, and a thread past the lock has an *)
(* operation.                                                              *)
MailTyped ==
    /\ net \in Seq(ReplyType)
    /\ box \in Seq(MessageType)
    /\ dbox \in [Decoders -> Seq(ReplyType)]
UsersTyped ==
    /\ user \in [Threads -> {"idle", "locked", "unsubscribing", "pUnsubscribing", "sent"}]
    /\ todo \in [Threads -> Seq(Operations)]
    /\ \A t \in Threads : user[t] # "idle" => todo[t] # <<>>

(* The permit is in the semaphore or with one thread.                      *)
Exclusive ==
    \/ lock = 1 /\ \A t \in Threads : user[t] = "idle"
    \/ /\ lock = 0
       /\ \E t \in Threads : user[t] # "idle" /\ \A s \in Threads \ {t} : user[s] = "idle"

SubscriberInv == TypeOK /\ MailTyped /\ UsersTyped /\ Exclusive

-----------------------------------------------------------------------------
(* Sets of channels as sequences.                                          *)

LEMMA SetToSeqType ==
    ASSUME NEW S, IsFiniteSet(S)
    PROVE  SetToSeq(S) \in [1..Cardinality(S) -> S] /\ Cardinality(S) \in Nat
<1>1. PICK f : f \in Bijection(1..Cardinality(S), S)
  BY FS_CardinalityType DEF ExistsBijection
<1>2. f \in [1..Cardinality(S) -> S] /\ IsInjective(f)
  BY <1>1 DEF Bijection, Injection, IsInjective
<1> QED BY <1>2, FS_CardinalityType DEF SetToSeq

LEMMA FunctionIsSequence ==
    ASSUME NEW S, NEW n \in Nat, NEW f \in [1..n -> S]
    PROVE  f \in Seq(S)
OBVIOUS

LEMMA OneIsSequence ==
    ASSUME NEW S, NEW x \in S
    PROVE  <<x>> \in Seq(S) \ {<<>>}
OBVIOUS

(* One request for each subscription.                                      *)
LEMMA ResubscriptionsType ==
    ASSUME NEW s \in SubscriptionsType
    PROVE  Resubscriptions(s) \in Seq(RequestType)
<1>1. IsFiniteSet(s.channels) /\ IsFiniteSet(s.patterns)
  BY SubscriberAssumption, FS_Subset DEF SubscriptionsType
<1> DEFINE n == Cardinality(s.channels)
           m == Cardinality(s.patterns)
           cs == [k \in 1..n |-> Request(None, "subscribe", <<SetToSeq(s.channels)[k]>>)]
           ps == [k \in 1..m |-> Request(None, "psubscribe", <<SetToSeq(s.patterns)[k]>>)]
<1>2. n \in Nat /\ m \in Nat
  BY <1>1, SetToSeqType
<1>3. \A k \in 1..n : Request(None, "subscribe", <<SetToSeq(s.channels)[k]>>) \in RequestType
  <2> TAKE k \in 1..n
  <2>1. SetToSeq(s.channels)[k] \in Channels
    BY <1>1, SetToSeqType DEF SubscriptionsType
  <2>2. <<SetToSeq(s.channels)[k]>> \in Seq(Channels)
    BY <2>1
  <2> QED BY <2>2 DEF Request, RequestType, ChannelOps
<1>4. \A k \in 1..m : Request(None, "psubscribe", <<SetToSeq(s.patterns)[k]>>) \in RequestType
  <2> TAKE k \in 1..m
  <2>1. SetToSeq(s.patterns)[k] \in Patterns
    BY <1>1, SetToSeqType DEF SubscriptionsType
  <2>2. <<SetToSeq(s.patterns)[k]>> \in Seq(Patterns)
    BY <2>1
  <2> QED BY <2>2 DEF Request, RequestType, PatternOps
<1>5. cs \in Seq(RequestType)
  BY <1>2, <1>3, FunctionIsSequence, Zenon
<1>6. ps \in Seq(RequestType)
  BY <1>2, <1>4, FunctionIsSequence, Zenon
<1>7. Resubscriptions(s) = cs \o ps
  BY DEF Resubscriptions
<1> HIDE DEF cs, ps
<1> QED BY <1>5, <1>6, <1>7

-----------------------------------------------------------------------------
(* Sending.                                                                *)

(* A set of places in a sequence has a last one: that from which the way   *)
(* to the end is shortest.                                                 *)
LEMMA LastPlace ==
    ASSUME NEW n \in Nat, NEW S \in SUBSET (1..n), S # {}
    PROVE  Max(S) \in S
<1> DEFINE ways == {k..n : k \in S}
<1>1. \A k \in S : k..n \in FiniteSubsetsOf(1..n)
  BY FS_Interval DEF FiniteSubsetsOf
<1>2. ways \subseteq FiniteSubsetsOf(1..n) /\ ways # {}
  BY <1>1
<1>3. \E w \in ways : \A v \in ways : ~ (<<v, w>> \in StrictSubsetOrdering(1..n))
  <2> DEFINE R == StrictSubsetOrdering(1..n)
             F == FiniteSubsetsOf(1..n)
  <2>1. IsWellFoundedOn(R, F)
    BY FS_StrictSubsetOrderingWellFounded, Zenon
  <2> HIDE DEF ways, R, F
  <2>2. ways \subseteq F /\ ways # {}
    BY <1>2 DEF F
  <2>3. \E w \in ways : \A v \in ways : ~ (<<v, w>> \in R)
    BY <2>1, <2>2, WFMin
  <2> QED BY <2>3 DEF R
<1>4. PICK w \in ways : \A v \in ways : ~ (<<v, w>> \in StrictSubsetOrdering(1..n))
  BY <1>3
<1>4a. PICK k \in S : w = k..n
  OBVIOUS
<1>4b. \A l \in S : ~ (<<l..n, k..n>> \in StrictSubsetOrdering(1..n))
  BY <1>4, <1>4a
<1>5. \A l \in S : k >= l
  <2> SUFFICES ASSUME NEW l \in S, l > k PROVE FALSE
    OBVIOUS
  <2>1. l..n \subseteq k..n /\ l..n # k..n
    BY k \in k..n, k \notin l..n
  <2> QED BY <2>1, <1>4b, k..n \in SUBSET (1..n), l..n \in SUBSET (1..n) DEF StrictSubsetOrdering
<1> QED BY <1>5 DEF Max

LEMMA RememberTypes ==
    ASSUME settings \in SettingsType, NEW rs \in Seq(RequestType)
    PROVE  Remember(rs) \in SettingsType
<1>1. ASSUME NEW op \in SessionOps, Asking(op, rs) # {}
      PROVE  Given(rs[Max(Asking(op, rs))]) \in {None} \cup STRING
  <2>1. Len(rs) \in Nat /\ Asking(op, rs) \subseteq 1..Len(rs)
    BY DEF Asking
  <2> DEFINE k == Max(Asking(op, rs))
  <2>2. k \in Asking(op, rs)
    BY <2>1, <1>1, LastPlace
  <2> HIDE DEF k
  <2>3. rs[k] \in RequestType /\ rs[k].op \in SessionOps
    BY <2>2 DEF Asking
  <2>4. rs[k].names \in Seq(STRING) /\ rs[k].names # <<>>
    BY <2>3 DEF RequestType, ChannelOps, PatternOps, SessionOps
  <2>5. rs[k].names[1] \in STRING
    BY <2>4
  <2>6. Given(rs[k]) \in {None} \cup STRING
    BY <2>5 DEF Given
  <2> QED BY <2>6 DEF k
<1>2. ASSUME NEW op \in SessionOps PROVE settings[op] \in {None} \cup STRING
  BY DEF SettingsType
<1>3. ASSUME NEW op \in SessionOps
      PROVE  (IF Asking(op, rs) = {} THEN settings[op] ELSE Given(rs[Max(Asking(op, rs))]))
               \in {None} \cup STRING
  BY <1>1, <1>2
<1> QED BY <1>3, Zenon DEF Remember, SettingsType

LEMMA SendTypes ==
    ASSUME wire \in Seq(RequestType), requests \in Seq(RequestType), settings \in SettingsType,
           NEW rs \in Seq(RequestType), Send(rs)
    PROVE  /\ wire' \in Seq(RequestType) /\ requests' \in Seq(RequestType)
           /\ settings' \in SettingsType
<1>1. wire' \in Seq(RequestType) /\ requests' \in Seq(RequestType)
  BY DEF Send
<1>2. settings' \in SettingsType
  BY RememberTypes DEF Send
<1> QED BY <1>1, <1>2

LEMMA BehaviourTypes ==
    ASSUME NEW rs, NEW M, NEW m \in M, "shuttingDown" \in M
    PROVE  BehaviourAfter(rs, m) \in M
BY DEF BehaviourAfter

-----------------------------------------------------------------------------
(* What the listener does.                                                 *)

Modes == {"connecting", "initializing", "initialized", "shuttingDown",
          "awaitingDecodersShutdown", "dead"}

(* TypeOK but for the lock.                                                *)
StateTyped ==
    /\ link \in {"down", "up", "closing"}
    /\ serverChannels \subseteq Channels /\ serverPatterns \subseteq Patterns
    /\ wire \in Seq(RequestType)
    /\ requests \in Seq(RequestType) /\ queuedRequests \in Seq(RequestType)
    /\ requestOpt \in RequestType \cup {NoRequest}
    /\ subscribed \in SubscriptionsType /\ saved \in SubscriptionsType
    /\ settings \in SettingsType
    /\ mode \in Modes
    /\ requestResponsesCount \in Nat /\ initCount \in Int
    /\ outcome \in [Ids -> Outcomes]

LEMMA TypeParts == TypeOK <=> StateTyped /\ lock \in {0, 1}
BY DEF TypeOK, StateTyped, Modes, Outcomes

LEMMA Together ==
    ASSUME StateTyped', MailTyped', UsersTyped', Exclusive'
    PROVE  SubscriberInv'
<1>1. lock' \in {0, 1}
  BY DEF Exclusive
<1>2. TypeOK'
  BY <1>1 DEF TypeOK, StateTyped, Modes, Outcomes
<1> QED BY <1>2 DEF SubscriberInv

LEMMA OutcomeTypes ==
    ASSUME outcome \in [Ids -> Outcomes]
    PROVE  /\ \A i : \A x \in Outcomes : Completed(i, x) \in [Ids -> Outcomes]
           /\ \A r, m : Succeeded(r, m) \in [Ids -> Outcomes]
           /\ \A rs : Failed(rs) \in [Ids -> Outcomes]
<1>1. ASSUME NEW i, NEW x \in Outcomes PROVE Completed(i, x) \in [Ids -> Outcomes]
  BY DEF Completed
<1>2. ASSUME NEW r, NEW m PROVE Succeeded(r, m) \in [Ids -> Outcomes]
  <2>1. (IF m.id = r.id THEN "ok" ELSE "wrong") \in Outcomes
    BY DEF Outcomes
  <2> QED BY <2>1, <1>1 DEF Succeeded
<1>3. ASSUME NEW rs PROVE Failed(rs) \in [Ids -> Outcomes]
  BY DEF Failed, Outcomes
<1> QED BY <1>1, <1>2, <1>3

LEMMA NoSubscriptionsType == NoSubscriptions \in SubscriptionsType
BY DEF NoSubscriptions, SubscriptionsType

(* The first message, by its kind, and the rest of the mailbox.            *)
LEMMA FirstMessage ==
    ASSUME MailTyped, box # <<>>
    PROVE  /\ Tail(box) \in Seq(MessageType)
           /\ \A t \in {"request", "regular"} : Receives(t) => Body \in RequestType
           /\ Receives("received") => Body \in Seq(ReplyType)
           /\ \A t \in {"complete", "confirm", "fail"} : Receives(t) => Body \in ReplyType
<1>1. Tail(box) \in Seq(MessageType) /\ Head(box) \in MessageType
  BY DEF MailTyped
<1> QED BY <1>1 DEF MessageType, Receives, Body

LEMMA InitializedTypes ==
    ASSUME StateTyped, Initialized
    PROVE  /\ wire' \in Seq(RequestType) /\ requests' \in Seq(RequestType)
           /\ settings' \in SettingsType
           /\ queuedRequests' \in Seq(RequestType)
           /\ subscribed' \in SubscriptionsType
           /\ mode' \in Modes
<1> DEFINE rs == Reverse(Resubscriptions(subscribed)) \o queuedRequests
<1>1. Resubscriptions(subscribed) \in Seq(RequestType)
  BY ResubscriptionsType DEF StateTyped
<1>2. Reverse(Resubscriptions(subscribed)) \in Seq(RequestType)
  <2> DEFINE s == Resubscriptions(subscribed)
  <2>1. s \in Seq(RequestType)
    BY <1>1
  <2> HIDE DEF s
  <2>2. Reverse(s) \in Seq(RequestType)
    BY <2>1 DEF Reverse
  <2> QED BY <2>2 DEF s
<1>3. rs \in Seq(RequestType)
  BY <1>2 DEF StateTyped
<1>4. /\ Send(rs)
      /\ mode' = BehaviourAfter(rs, "initialized")
      /\ subscribed' = NoSubscriptions
      /\ queuedRequests' = <<>>
  BY DEF Initialized
<1> HIDE DEF rs
<1>5. wire' \in Seq(RequestType) /\ requests' \in Seq(RequestType) /\ settings' \in SettingsType
  BY <1>3, <1>4, SendTypes DEF StateTyped
<1>6. mode' \in Modes
  BY <1>4, BehaviourTypes DEF Modes
<1> QED BY <1>4, <1>5, <1>6, NoSubscriptionsType

LEMMA OnRequestTypes ==
    ASSUME StateTyped, MailTyped, OnRequest
    PROVE  StateTyped' /\ MailTyped'
<1>1. Body \in RequestType /\ box' \in Seq(MessageType)
  BY FirstMessage DEF OnRequest, Consume, Receives
<1>2. MailTyped'
  BY <1>1 DEF MailTyped, OnRequest
<1>3. CASE mode = "initialized"
  <2>1. /\ wire' \in Seq(RequestType) /\ requests' \in Seq(RequestType)
        /\ settings' \in SettingsType
    <3>1. Send(<<Body>>) /\ <<Body>> \in Seq(RequestType)
      BY <1>1, <1>3 DEF OnRequest
    <3> QED BY <3>1, SendTypes DEF StateTyped
  <2>2. mode' \in Modes
    BY <1>3, BehaviourTypes DEF OnRequest, Modes
  <2> QED BY <1>2, <1>3, <2>1, <2>2 DEF OnRequest, StateTyped
<1>4. CASE mode # "initialized"
  <2>1. queuedRequests' \in Seq(RequestType)
    <3>1. queuedRequests \in Seq(RequestType) /\ Append(queuedRequests, Body) \in Seq(RequestType)
      BY <1>1 DEF StateTyped
    <3>2. queuedRequests' = queuedRequests \/ queuedRequests' = Append(queuedRequests, Body)
      BY <1>4 DEF OnRequest
    <3> QED BY <3>1, <3>2
  <2>2. outcome' \in [Ids -> Outcomes]
    BY <1>4, OutcomeTypes DEF OnRequest, StateTyped
  <2> QED BY <1>2, <1>4, <2>1, <2>2 DEF OnRequest, StateTyped
<1> QED BY <1>3, <1>4

LEMMA ResetTypes ==
    ASSUME ResetRequest
    PROVE  requestOpt' \in RequestType \cup {NoRequest} /\ requestResponsesCount' \in Nat
BY DEF ResetRequest

LEMMA InitRequestsType ==
    ASSUME settings \in SettingsType
    PROVE  InitRequests \in Seq(RequestType)
<1>1. ASSUME NEW op \in SessionOps PROVE InitRequest(op) \in Seq(RequestType)
  <2>1. CASE settings[op] = None
    BY <2>1 DEF InitRequest
  <2>2. CASE settings[op] # None
    <3>1. settings[op] \in STRING
      BY <2>2 DEF SettingsType
    <3>2. <<settings[op]>> \in Seq(STRING) \ {<<>>}
      BY <3>1, OneIsSequence, Zenon
    <3>3. Request(None, op, <<settings[op]>>) \in RequestType
      BY <3>2 DEF Request, RequestType
    <3> QED BY <2>2, <3>3 DEF InitRequest
  <2> QED BY <2>1, <2>2
<1>2. InitRequest("auth") \in Seq(RequestType) /\ InitRequest("setName") \in Seq(RequestType)
  BY <1>1 DEF SessionOps
<1> QED BY <1>2 DEF InitRequests

LEMMA OnConnectedTypes ==
    ASSUME StateTyped, MailTyped, OnConnected
    PROVE  StateTyped' /\ MailTyped'
<1>1. MailTyped'
  BY FirstMessage DEF MailTyped, OnConnected, Consume, Receives
<1>2. requestOpt' \in RequestType \cup {NoRequest} /\ requestResponsesCount' \in Nat
  BY ResetTypes DEF OnConnected
<1>3. UNCHANGED <<link, serverChannels, serverPatterns, saved, outcome>>
  BY DEF OnConnected
<1>4. initCount' = Len(InitRequests) /\ InitRequests \in Seq(RequestType)
  BY InitRequestsType DEF OnConnected, StateTyped
<1>5. initCount' \in Int
  BY <1>4
<1>6. CASE InitRequests = <<>> /\ Initialized
  BY <1>1, <1>2, <1>3, <1>5, <1>6, InitializedTypes DEF StateTyped
<1>7. CASE Send(InitRequests) /\ mode' = "initializing" /\ UNCHANGED <<queuedRequests, subscribed>>
  <2>1. wire' \in Seq(RequestType) /\ requests' \in Seq(RequestType) /\ settings' \in SettingsType
    BY <1>4, <1>7, SendTypes DEF StateTyped
  <2> QED BY <1>1, <1>2, <1>3, <1>5, <1>7, <2>1 DEF StateTyped, Modes
<1> QED BY <1>6, <1>7 DEF OnConnected

LEMMA OnReceivedTypes ==
    ASSUME StateTyped, MailTyped, OnReceived
    PROVE  StateTyped' /\ MailTyped'
<1>1. Body \in Seq(ReplyType) /\ box' \in Seq(MessageType) /\ net' = net
  BY FirstMessage DEF OnReceived, Consume, Receives
<1>2. dbox' \in [Decoders -> Seq(ReplyType)]
  <2>1. PICK d \in Decoders : dbox' = [dbox EXCEPT ![d] = @ \o Body]
    BY DEF OnReceived
  <2>2. dbox[d] \o Body \in Seq(ReplyType)
    BY <1>1 DEF MailTyped
  <2> QED BY <2>1, <2>2 DEF MailTyped
<1>3. MailTyped'
  BY <1>1, <1>2 DEF MailTyped
<1>4. UNCHANGED <<link, serverChannels, serverPatterns, requestOpt, requestResponsesCount, saved, outcome>>
  BY DEF OnReceived
<1>5. CASE UNCHANGED <<mode, subscribed, queuedRequests, requests, wire, settings, initCount>>
  BY <1>3, <1>4, <1>5 DEF StateTyped
<1>6. CASE initCount' = initCount - Len(Body) /\ Initialized
  <2>1. initCount' \in Int
    BY <1>1, <1>6 DEF StateTyped
  <2> QED BY <1>3, <1>4, <1>6, <2>1, InitializedTypes DEF StateTyped
<1>7. CASE /\ initCount' = initCount - Len(Body)
           /\ UNCHANGED <<mode, subscribed, queuedRequests, requests, wire, settings>>
  <2>1. initCount' \in Int
    BY <1>1, <1>7 DEF StateTyped
  <2> QED BY <1>3, <1>4, <1>7, <2>1 DEF StateTyped
<1> QED BY <1>5, <1>6, <1>7 DEF OnReceived

LEMMA DecodeTypes ==
    ASSUME StateTyped, MailTyped, NEW d \in Decoders, Decode(d)
    PROVE  StateTyped' /\ MailTyped'
<1> DEFINE reply == Head(dbox[d])
<1>1. dbox[d] \in Seq(ReplyType) /\ dbox[d] # <<>>
  BY DEF Decode, MailTyped
<1>2. reply \in ReplyType /\ Tail(dbox[d]) \in Seq(ReplyType)
  BY <1>1
<1>3. Message(Verdict(reply), reply) \in MessageType
  BY <1>2 DEF Message, Verdict, MessageType
<1>4. /\ box' = Append(box, Message(Verdict(reply), reply))
      /\ dbox' = [dbox EXCEPT ![d] = Tail(@)]
      /\ UNCHANGED <<serverVars, listenerVars, outcome>>
  BY DEF Decode, Tell
<1> HIDE DEF reply
<1>5. box' \in Seq(MessageType) /\ dbox' \in [Decoders -> Seq(ReplyType)] /\ net' = net
  BY <1>2, <1>3, <1>4 DEF MailTyped, serverVars
<1> QED BY <1>4, <1>5 DEF StateTyped, MailTyped, serverVars, listenerVars

(* The request a confirmation is about, when there is one.                 *)
LEMMA ConcernedTypes ==
    ASSUME StateTyped, ~NoneConcerned, PopUnlessConfirming
    PROVE  Concerned \in RequestType /\ requests' \in Seq(RequestType)
<1>1. CASE requestOpt # NoRequest
  BY <1>1 DEF StateTyped, Concerned, PopUnlessConfirming
<1>2. CASE requestOpt = NoRequest
  <2>1. requests # <<>> /\ requests \in Seq(RequestType)
    BY <1>2 DEF NoneConcerned, StateTyped
  <2>2. Head(requests) \in RequestType /\ Tail(requests) \in Seq(RequestType)
    BY <2>1
  <2> QED BY <1>2, <2>2 DEF Concerned, PopUnlessConfirming
<1> QED BY <1>1, <1>2

LEMMA EnteredType ==
    ASSUME StateTyped, NEW m
    PROVE  Entered(m) \in SubscriptionsType
<1>1. subscribed \in [channels : SUBSET Channels, patterns : SUBSET Patterns]
  BY DEF StateTyped, SubscriptionsType
<1> QED BY <1>1 DEF Entered, SubscriptionsType

LEMMA OnCompleteTypes ==
    ASSUME StateTyped, MailTyped, OnComplete, ~Dying
    PROVE  StateTyped' /\ MailTyped'
<1>1. box' \in Seq(MessageType)
  BY FirstMessage DEF OnComplete, Consume, Receives
<1>2. MailTyped'
  BY <1>1 DEF MailTyped, OnComplete, serverVars
<1>3. Concerned \in RequestType /\ requests' \in Seq(RequestType)
  BY ConcernedTypes DEF OnComplete, Dying
<1>4. subscribed' \in SubscriptionsType
  BY EnteredType DEF OnComplete
<1>5. /\ requestOpt' \in RequestType \cup {NoRequest}
      /\ requestResponsesCount' \in Nat
      /\ outcome' \in [Ids -> Outcomes]
  <2>1. CASE IsComplete(Concerned, Body)
    BY <2>1, OutcomeTypes DEF OnComplete, StateTyped
  <2>2. CASE ~IsComplete(Concerned, Body)
    BY <2>2, <1>3 DEF OnComplete, StateTyped
  <2> QED BY <2>1, <2>2
<1>6. UNCHANGED <<serverVars, mode, queuedRequests, saved, settings, initCount>>
  BY DEF OnComplete
<1> QED BY <1>2, <1>3, <1>4, <1>5, <1>6 DEF StateTyped, serverVars

LEMMA OnConfirmTypes ==
    ASSUME StateTyped, MailTyped, OnConfirm, ~Dying
    PROVE  StateTyped' /\ MailTyped'
<1>1. box' \in Seq(MessageType)
  BY FirstMessage DEF OnConfirm, Consume, Receives
<1>2. MailTyped'
  BY <1>1 DEF MailTyped, OnConfirm, serverVars
<1>3. Concerned \in RequestType /\ requests' \in Seq(RequestType)
  BY ConcernedTypes DEF OnConfirm, Dying
<1>4. /\ requestOpt' \in RequestType \cup {NoRequest}
      /\ requestResponsesCount' \in Nat
      /\ outcome' \in [Ids -> Outcomes]
  <2>1. CASE Concerned.op \in {"auth", "quit"}
    BY <2>1, OutcomeTypes DEF OnConfirm, StateTyped
  <2>2. CASE Concerned.op \notin {"auth", "quit"}
    BY <2>2, <1>3 DEF OnConfirm, StateTyped
  <2> QED BY <2>1, <2>2
<1>5. UNCHANGED <<serverVars, mode, queuedRequests, subscribed, saved, settings, initCount>>
  BY DEF OnConfirm
<1> QED BY <1>2, <1>3, <1>4, <1>5 DEF StateTyped, serverVars

LEMMA OnFailTypes ==
    ASSUME StateTyped, MailTyped, OnFail, ~Dying
    PROVE  StateTyped' /\ MailTyped'
<1>1. box' \in Seq(MessageType)
  BY FirstMessage DEF OnFail, Consume, Receives
<1>2. MailTyped'
  BY <1>1 DEF MailTyped, OnFail, serverVars
<1>3. requests' \in Seq(RequestType)
  BY DEF OnFail, Dying, StateTyped
<1>4. outcome' \in [Ids -> Outcomes]
  BY OutcomeTypes DEF OnFail, StateTyped
<1> QED BY <1>2, <1>3, <1>4 DEF OnFail, StateTyped, serverVars

LEMMA OnSaveTypes ==
    ASSUME StateTyped, MailTyped, OnSave
    PROVE  StateTyped' /\ MailTyped'
<1>1. box' \in Seq(MessageType)
  BY FirstMessage DEF OnSave, Consume, Receives
<1>2. MailTyped'
  BY <1>1 DEF MailTyped, OnSave, serverVars
<1>3. saved' \in SubscriptionsType
  BY DEF OnSave, SavedNow, Union, StateTyped, SubscriptionsType
<1> QED BY <1>2, <1>3 DEF OnSave, StateTyped, serverVars

LEMMA OnRegularTypes ==
    ASSUME StateTyped, MailTyped, OnRegular
    PROVE  StateTyped' /\ MailTyped'
<1>1. Body \in RequestType /\ box' \in Seq(MessageType)
  BY FirstMessage DEF OnRegular, Consume, Receives
<1>2. MailTyped'
  BY <1>1 DEF MailTyped, OnRegular
<1>3. wire' \in Seq(RequestType) /\ requests' \in Seq(RequestType) /\ settings' \in SettingsType
  <2>1. Send(<<Body>>) /\ <<Body>> \in Seq(RequestType)
    BY <1>1 DEF OnRegular
  <2> QED BY <2>1, SendTypes DEF StateTyped
<1>4. mode' \in Modes
  BY BehaviourTypes DEF OnRegular, StateTyped, Modes
<1>5. requestOpt' \in RequestType \cup {NoRequest} /\ requestResponsesCount' \in Nat
  BY ResetTypes DEF OnRegular
<1> QED BY <1>2, <1>3, <1>4, <1>5 DEF OnRegular, StateTyped

LEMMA OnRecoverTypes ==
    ASSUME StateTyped, MailTyped, OnRecover
    PROVE  StateTyped' /\ MailTyped'
<1>1. box' \in Seq(MessageType)
  BY FirstMessage DEF OnRecover, Consume, Receives
<1>2. MailTyped'
  BY <1>1 DEF MailTyped, OnRecover
<1>3. wire' \in Seq(RequestType) /\ requests' \in Seq(RequestType) /\ settings' \in SettingsType
  <2>1. Union(subscribed, saved) \in SubscriptionsType
    BY DEF Union, StateTyped, SubscriptionsType
  <2>2. Resubscriptions(Union(subscribed, saved)) \in Seq(RequestType)
    BY <2>1, ResubscriptionsType
  <2> QED BY <2>2, SendTypes DEF OnRecover, StateTyped
<1> QED BY <1>2, <1>3, NoSubscriptionsType DEF OnRecover, StateTyped

LEMMA OnTerminatedTypes ==
    ASSUME StateTyped, MailTyped, OnTerminated
    PROVE  StateTyped' /\ MailTyped'
<1>1. box' \in Seq(MessageType)
  BY FirstMessage DEF OnTerminated, Consume, Receives
<1>2. MailTyped'
  BY <1>1 DEF MailTyped, OnTerminated, serverVars
<1>3. /\ mode' \in Modes /\ outcome' \in [Ids -> Outcomes]
      /\ requests' \in Seq(RequestType) /\ queuedRequests' \in Seq(RequestType)
  <2>1. Failed(requests) \in [Ids -> Outcomes] /\ Failed(queuedRequests) \in [Ids -> Outcomes]
    BY OutcomeTypes DEF StateTyped
  <2>2. mode' \in Modes
    BY DEF OnTerminated, Modes
  <2>3. outcome' \in {outcome, Failed(requests), Failed(queuedRequests)}
    BY DEF OnTerminated
  <2>4. requests' \in {requests, <<>>} /\ queuedRequests' \in {queuedRequests, <<>>}
    BY DEF OnTerminated
  <2>5. <<>> \in Seq(RequestType)
    OBVIOUS
  <2> QED BY <2>1, <2>2, <2>3, <2>4, <2>5 DEF StateTyped
<1> QED BY <1>2, <1>3 DEF OnTerminated, StateTyped, serverVars

(* Every case of every behaviour.                                          *)
LEMMA ListenerTypes ==
    ASSUME StateTyped, MailTyped, ListenerStep
    PROVE  StateTyped' /\ MailTyped'
<1>1. CASE Dying
  <2>1. Die
    BY <1>1 DEF ListenerStep
  <2> QED BY <2>1 DEF Die, StateTyped, MailTyped, serverVars, Modes
<1>2. CASE ~Dying
  <2>1. \/ OnRequest \/ OnConnected \/ OnReceived \/ OnComplete \/ OnConfirm \/ OnFail
        \/ OnSave \/ OnRegular \/ OnRecover \/ OnTerminated
    BY <1>2 DEF ListenerStep
  <2> QED BY <1>2, <2>1, OnRequestTypes, OnConnectedTypes, OnReceivedTypes, OnCompleteTypes,
             OnConfirmTypes, OnFailTypes, OnSaveTypes, OnRegularTypes, OnRecoverTypes,
             OnTerminatedTypes
<1> QED BY <1>1, <1>2

-----------------------------------------------------------------------------
(* What the connection and the server do.                                  *)

LEMMA ConnectTypes ==
    ASSUME StateTyped, MailTyped, Connect
    PROVE  StateTyped' /\ MailTyped'
<1>1. Message("connected", NoRequest) \in MessageType
  BY DEF Message, MessageType
<1>2. box' \in Seq(MessageType)
  BY <1>1 DEF Connect, Tell, MailTyped
<1> QED BY <1>2 DEF Connect, StateTyped, MailTyped, listenerVars

LEMMA DeliverTypes ==
    ASSUME StateTyped, MailTyped, Deliver
    PROVE  StateTyped' /\ MailTyped'
<1>1. PICK k \in 1..Len(net) : /\ Tell(Message("received", SubSeq(net, 1, k)))
                               /\ net' = SubSeq(net, k + 1, Len(net))
  BY DEF Deliver
<1>2. SubSeq(net, 1, k) \in Seq(ReplyType) /\ net' \in Seq(ReplyType)
  <2>1. net \in Seq(ReplyType)
    BY DEF MailTyped
  <2> QED BY <1>1, <2>1
<1>3. Message("received", SubSeq(net, 1, k)) \in MessageType
  BY <1>2 DEF Message, MessageType
<1>4. box' \in Seq(MessageType)
  BY <1>1, <1>3 DEF Tell, MailTyped
<1> QED BY <1>2, <1>4 DEF Deliver, StateTyped, MailTyped, listenerVars

LEMMA ClosedTypes ==
    ASSUME StateTyped, MailTyped, Close \/ Drop
    PROVE  StateTyped' /\ MailTyped'
<1>1. Message("terminated", NoRequest) \in MessageType
  BY DEF Message, MessageType
<1>2. box' \in Seq(MessageType)
  <2>1. Tell(Message("terminated", NoRequest))
    BY DEF Close, Drop
  <2> QED BY <1>1, <2>1 DEF Tell, MailTyped
<1>3. /\ link' = "down" /\ wire' = <<>> /\ net' \in {net, <<>>}
      /\ serverChannels' = {} /\ serverPatterns' = {}
      /\ UNCHANGED <<dbox, listenerVars, outcome>>
  BY DEF Close, Drop, Lost
<1>4. \A S : <<>> \in Seq(S)
  OBVIOUS
<1>5. StateTyped'
  BY <1>3, <1>4 DEF StateTyped, listenerVars
<1>6. MailTyped'
  BY <1>2, <1>3, <1>4 DEF MailTyped
<1> QED BY <1>5, <1>6

(* What the session has after the first k names of a request.              *)
LEMMA AfterTypes ==
    ASSUME StateTyped, NEW r \in RequestType, r.op \in PubSubOps
    PROVE  LET S == IF r.op \in ChannelOps THEN Channels ELSE Patterns
           IN  /\ Own(r) \subseteq S
               /\ IsFiniteSet(S)
               /\ Named(r) \in Seq(S)
               /\ \A k \in 0..Len(Named(r)) : After(r, k) \subseteq S
               /\ IsFiniteSet(Other(r))
<1> DEFINE S == IF r.op \in ChannelOps THEN Channels ELSE Patterns
<1>1. IsFiniteSet(S) /\ Own(r) \in SUBSET S /\ r.names \in Seq(S)
  <2>1. CASE r.op \in ChannelOps
    <3>1. r.names \in Seq(Channels)
      BY <2>1 DEF RequestType, ChannelOps, PatternOps, SessionOps
    <3> QED BY <2>1, <3>1, SubscriberAssumption DEF Own, StateTyped
  <2>2. CASE r.op \notin ChannelOps
    <3>1. r.names \in Seq(Patterns)
      BY <2>2 DEF RequestType, PubSubOps, ChannelOps, PatternOps, SessionOps
    <3> QED BY <2>2, <3>1, SubscriberAssumption DEF Own, StateTyped
  <2> QED BY <2>1, <2>2
<1>2. IsFiniteSet(Other(r))
  BY SubscriberAssumption, FS_Subset DEF Other, StateTyped
<1> HIDE DEF S
<1>3. Named(r) \in Seq(S)
  <2>1. IsFiniteSet(Own(r))
    BY <1>1, FS_Subset
  <2>2. SetToSeq(Own(r)) \in [1..Cardinality(Own(r)) -> Own(r)] /\ Cardinality(Own(r)) \in Nat
    BY <2>1, SetToSeqType
  <2>3. SetToSeq(Own(r)) \in Seq(Own(r))
    BY <2>2, FunctionIsSequence
  <2>4. SetToSeq(Own(r)) \in Seq(S)
    BY <2>3, <1>1
  <2> QED BY <2>4, <1>1 DEF Named
<1>4. ASSUME NEW k \in 0..Len(Named(r)) PROVE After(r, k) \subseteq S
  <2>1. {Named(r)[i] : i \in 1..k} \subseteq S
    BY <1>3
  <2> QED BY <2>1, <1>1 DEF After
<1> QED BY <1>1, <1>2, <1>3, <1>4 DEF S

LEMMA PubSubRepliesType ==
    ASSUME StateTyped, NEW r \in RequestType, r.op \in PubSubOps
    PROVE  PubSubReplies(r) \in Seq(ReplyType)
<1> DEFINE S == IF r.op \in ChannelOps THEN Channels ELSE Patterns
<1>1. /\ Named(r) \in Seq(S) /\ IsFiniteSet(S) /\ S \subseteq Channels \cup Patterns
      /\ \A k \in 0..Len(Named(r)) : After(r, k) \subseteq S
  BY AfterTypes
<1>2. Cardinality(Other(r)) \in Nat
  BY AfterTypes, FS_CardinalityType
<1> HIDE DEF S
<1>3. r.id \in Ids \cup {None}
  BY DEF RequestType
<1>4. CASE Named(r) = <<>>
  <2>1. Reply(r, r.op, None, Cardinality(Other(r))) \in ReplyType
    BY <1>2, <1>3 DEF Reply, ReplyType
  <2>2. PubSubReplies(r) = <<Reply(r, r.op, None, Cardinality(Other(r)))>>
    BY <1>4 DEF PubSubReplies
  <2> QED BY <2>1, <2>2
<1>5. CASE Named(r) # <<>>
  <2>1. ASSUME NEW k \in 1..Len(Named(r))
        PROVE  Reply(r, r.op, Named(r)[k], Cardinality(After(r, k)) + Cardinality(Other(r))) \in ReplyType
    <3>1. Named(r)[k] \in Channels \cup Patterns
      BY <1>1
    <3>2. After(r, k) \subseteq S
      BY <1>1
    <3>3. Cardinality(After(r, k)) \in Nat
      BY <1>1, <3>2, FS_Subset, FS_CardinalityType
    <3>4. Cardinality(After(r, k)) + Cardinality(Other(r)) \in Nat
      BY <3>3, <1>2
    <3> QED BY <3>1, <3>4, <1>3 DEF Reply, ReplyType
  <2>2. Len(Named(r)) \in Nat
    BY <1>1
  <2>3. PubSubReplies(r) =
          [k \in 1..Len(Named(r)) |->
             Reply(r, r.op, Named(r)[k], Cardinality(After(r, k)) + Cardinality(Other(r)))]
    BY <1>5 DEF PubSubReplies
  <2> QED BY <2>1, <2>2, <2>3, FunctionIsSequence, Zenon
<1> QED BY <1>4, <1>5

LEMMA ServerTypes ==
    ASSUME StateTyped, MailTyped, Server
    PROVE  StateTyped' /\ MailTyped'
<1> DEFINE r == Head(wire)
<1>1. r \in RequestType /\ wire' \in Seq(RequestType)
  BY DEF Server, ServerExecute, StateTyped
<1>2. UNCHANGED <<box, dbox, listenerVars, outcome>>
  BY DEF Server
<1>3. ServerPubSub(r) \/ ServerRegular(r)
  BY DEF Server, ServerExecute
<1> HIDE DEF r
<1>4. net \in Seq(ReplyType)
  BY DEF MailTyped
<1>5. CASE ServerPubSub(r)
  <2>1. r.op \in PubSubOps
    BY <1>5 DEF ServerPubSub
  <2>2. net' \in Seq(ReplyType)
    BY <1>1, <1>4, <1>5, <2>1, PubSubRepliesType DEF ServerPubSub
  <2> DEFINE own == After(r, Len(Named(r)))
  <2>3. own \subseteq IF r.op \in ChannelOps THEN Channels ELSE Patterns
    <3> DEFINE S == IF r.op \in ChannelOps THEN Channels ELSE Patterns
    <3>1. Named(r) \in Seq(S) /\ \A k \in 0..Len(Named(r)) : After(r, k) \subseteq S
      BY <1>1, <2>1, AfterTypes
    <3>2. Len(Named(r)) \in 0..Len(Named(r))
      BY <3>1
    <3> QED BY <3>1, <3>2
  <2>4. /\ link' = link
        /\ IF r.op \in ChannelOps THEN serverChannels' = own /\ UNCHANGED serverPatterns
           ELSE serverPatterns' = own /\ UNCHANGED serverChannels
    BY <1>5 DEF ServerPubSub
  <2> HIDE DEF own
  <2>5. serverChannels' \subseteq Channels /\ serverPatterns' \subseteq Patterns
    BY <2>3, <2>4 DEF StateTyped
  <2> QED BY <1>1, <1>2, <2>2, <2>4, <2>5 DEF StateTyped, MailTyped, listenerVars
<1>6. CASE ServerRegular(r)
  <2>1. PICK kind \in {"error", "ok"} : net' = Append(net, Reply(r, kind, None, 0))
    BY <1>6 DEF ServerRegular
  <2>2. Reply(r, kind, None, 0) \in ReplyType
    BY <1>1 DEF Reply, ReplyType, RequestType
  <2>3. net' \in Seq(ReplyType)
    BY <1>4, <2>1, <2>2
  <2>4. link' \in {link, "closing"} /\ UNCHANGED <<serverChannels, serverPatterns>>
    BY <1>6 DEF ServerRegular
  <2> QED BY <1>1, <1>2, <2>3, <2>4 DEF StateTyped, MailTyped, listenerVars
<1> QED BY <1>3, <1>5, <1>6

-----------------------------------------------------------------------------
(* What the users do.                                                      *)

UserTypes == {"idle", "locked", "unsubscribing", "pUnsubscribing", "sent"}

LEMMA OperationType ==
    ASSUME UsersTyped, NEW t \in Threads, user[t] # "idle"
    PROVE  /\ Op(t) \in Operations /\ Tail(todo[t]) \in Seq(Operations)
           /\ Request(Main(t), Op(t).op, Op(t).names) \in RequestType
           /\ Request(Unsub(t), "unsubscribe", <<>>) \in RequestType
           /\ Request(PUnsub(t), "punsubscribe", <<>>) \in RequestType
<1>1. todo[t] \in Seq(Operations) /\ todo[t] # <<>>
  BY DEF UsersTyped
<1>2. Op(t) \in Operations /\ Tail(todo[t]) \in Seq(Operations)
  BY <1>1 DEF Op
<1>3. IsOperation(Op(t))
  BY <1>2, SubscriberAssumption
<1>4. Main(t) \in Ids /\ Unsub(t) \in Ids /\ PUnsub(t) \in Ids
  BY <1>3 DEF IsOperation, Main, Unsub, PUnsub
<1>5. Request(Main(t), Op(t).op, Op(t).names) \in RequestType
  BY <1>3, <1>4 DEF IsOperation, Request, RequestType
<1>6. \A S : <<>> \in Seq(S)
  OBVIOUS
<1>7. /\ Request(Unsub(t), "unsubscribe", <<>>) \in RequestType
      /\ Request(PUnsub(t), "punsubscribe", <<>>) \in RequestType
  BY <1>4, <1>6 DEF Request, RequestType, ChannelOps, PatternOps
<1> QED BY <1>2, <1>5, <1>7

(* A step inside an operation leaves the lock with its thread.             *)
LEMMA Continues ==
    ASSUME UsersTyped, Exclusive, NEW t \in Threads, NEW from, NEW to \in UserTypes,
           Goes(t, from, to), from # "idle", to # "idle", UNCHANGED <<lock, todo>>
    PROVE  UsersTyped' /\ Exclusive'
<1>1. user' = [user EXCEPT ![t] = to] /\ user[t] # "idle"
  BY DEF Goes
<1>2. UsersTyped'
  BY <1>1 DEF UsersTyped, UserTypes
<1>3. lock = 0 /\ \A s \in Threads \ {t} : user[s] = "idle"
  BY <1>1 DEF Exclusive
<1>4. Exclusive'
  BY <1>1, <1>3 DEF Exclusive, UsersTyped
<1> QED BY <1>2, <1>4

(* The last one gives it back.                                             *)
LEMMA GivesBack ==
    ASSUME UsersTyped, Exclusive, NEW t \in Threads, NEW from,
           Goes(t, from, "idle"), from # "idle",
           lock' = lock + 1, todo' = [todo EXCEPT ![t] = Tail(@)]
    PROVE  UsersTyped' /\ Exclusive'
<1>1. user' = [user EXCEPT ![t] = "idle"] /\ user[t] # "idle"
  BY DEF Goes
<1>2. todo' \in [Threads -> Seq(Operations)]
  <2>1. Tail(todo[t]) \in Seq(Operations)
    BY <1>1, OperationType
  <2> QED BY <2>1 DEF UsersTyped
<1>3. lock = 0 /\ \A s \in Threads \ {t} : user[s] = "idle"
  BY <1>1 DEF Exclusive
<1>4. UsersTyped'
  BY <1>1, <1>2, <1>3 DEF UsersTyped
<1>5. Exclusive'
  BY <1>1, <1>3 DEF Exclusive, UsersTyped
<1> QED BY <1>4, <1>5

LEMMA UserTells ==
    ASSUME MailTyped, NEW m \in MessageType, Tell(m), UnchangedListener
    PROVE  MailTyped'
<1>1. box' \in Seq(MessageType)
  BY DEF Tell, MailTyped
<1> QED BY <1>1 DEF UnchangedListener, MailTyped, serverVars

LEMMA UserTypesKept ==
    ASSUME SubscriberInv, NEW t \in Threads, UserStep(t)
    PROVE  SubscriberInv'
<1>1. StateTyped /\ MailTyped /\ UsersTyped /\ Exclusive
  BY TypeParts DEF SubscriberInv
<1>2. \A m \in RequestType : /\ Message("request", m) \in MessageType
                             /\ Message("regular", m) \in MessageType
  BY DEF Message, MessageType
<1>3. /\ Message("save", NoRequest) \in MessageType
      /\ Message("recover", NoRequest) \in MessageType
  BY DEF Message, MessageType
<1>4. UnchangedListener
  BY DEF UserStep, Acquire, Subscribe, RefuseSubscribe, Unsubscribe, PUnsubscribe, SendRegular, Release
<1>5. ASSUME outcome' \in [Ids -> Outcomes] PROVE StateTyped'
  BY <1>1, <1>4, <1>5 DEF StateTyped, UnchangedListener, serverVars, listenerVars
<1>6. UNCHANGED box => MailTyped'
  BY <1>1, <1>4 DEF MailTyped, UnchangedListener, serverVars
<1>7. outcome \in [Ids -> Outcomes]
  BY <1>1 DEF StateTyped
<1>8. CASE Acquire(t)
  <2>1. UNCHANGED <<box, outcome, todo>> /\ todo[t] # <<>> /\ lock > 0 /\ lock' = lock - 1
        /\ user[t] = "idle" /\ user' = [user EXCEPT ![t] = "locked"]
    BY <1>8 DEF Acquire, Goes
  <2>2. lock = 1 /\ \A s \in Threads : user[s] = "idle"
    BY <1>1, <2>1 DEF Exclusive
  <2>3. UsersTyped'
    BY <1>1, <2>1, <2>2 DEF UsersTyped
  <2>4. Exclusive'
    BY <1>1, <2>1, <2>2 DEF UsersTyped, Exclusive
  <2> QED BY <1>5, <1>6, <1>7, <2>1, <2>3, <2>4, Together
<1>9. CASE Subscribe(t)
  <2>1. /\ Goes(t, "locked", "sent") /\ UNCHANGED <<outcome, lock, todo>>
        /\ Tell(Message("request", Request(Main(t), Op(t).op, Op(t).names)))
    BY <1>9 DEF Subscribe
  <2>2. MailTyped'
    BY <1>1, <1>2, <1>4, <2>1, OperationType, UserTells DEF Goes
  <2>3. UsersTyped' /\ Exclusive'
    BY <1>1, <2>1, Continues DEF UserTypes
  <2> QED BY <1>5, <1>7, <2>1, <2>2, <2>3, Together
<1>10. CASE RefuseSubscribe(t)
  <2>1. /\ Goes(t, "locked", "idle") /\ UNCHANGED box
        /\ lock' = lock + 1 /\ todo' = [todo EXCEPT ![t] = Tail(@)]
        /\ outcome' = Completed(Main(t), "refused")
    BY <1>10 DEF RefuseSubscribe
  <2>2. outcome' \in [Ids -> Outcomes]
    <3>1. "refused" \in Outcomes
      BY DEF Outcomes
    <3> QED BY <1>7, <2>1, <3>1, OutcomeTypes
  <2>3. UsersTyped' /\ Exclusive'
    BY <1>1, <2>1, GivesBack
  <2> QED BY <1>5, <1>6, <2>1, <2>2, <2>3, Together
<1>11. CASE Unsubscribe(t)
  <2> DEFINE ask == Message("request", Request(Unsub(t), "unsubscribe", <<>>))
             asked == IF Op(t).op = "quit" THEN <<ask>> ELSE <<Message("save", NoRequest), ask>>
  <2>1. /\ Goes(t, "locked", "unsubscribing") /\ UNCHANGED <<outcome, lock, todo>>
        /\ box' = box \o asked
    BY <1>11 DEF Unsubscribe
  <2>2. MailTyped'
    <3>1. ask \in MessageType
      BY <1>1, <1>2, <2>1, OperationType DEF Goes
    <3> HIDE DEF ask
    <3>2. asked \in Seq(MessageType)
      BY <3>1, <1>3
    <3> HIDE DEF asked
    <3>3. box' \in Seq(MessageType)
      BY <1>1, <2>1, <3>2 DEF MailTyped
    <3> QED BY <1>1, <1>4, <3>3 DEF MailTyped, UnchangedListener, serverVars
  <2>3. UsersTyped' /\ Exclusive'
    BY <1>1, <2>1, Continues DEF UserTypes
  <2> QED BY <1>5, <1>7, <2>1, <2>2, <2>3, Together
<1>12. CASE PUnsubscribe(t)
  <2>1. /\ Goes(t, "unsubscribing", "pUnsubscribing") /\ UNCHANGED <<outcome, lock, todo>>
        /\ Tell(Message("request", Request(PUnsub(t), "punsubscribe", <<>>)))
    BY <1>12 DEF PUnsubscribe, AskPUnsubscribe
  <2>2. MailTyped'
    BY <1>1, <1>2, <1>4, <2>1, OperationType, UserTells DEF Goes
  <2>3. UsersTyped' /\ Exclusive'
    BY <1>1, <2>1, Continues DEF UserTypes
  <2> QED BY <1>5, <1>7, <2>1, <2>2, <2>3, Together
<1>13. CASE SendRegular(t)
  <2>1. /\ Goes(t, "pUnsubscribing", "sent") /\ UNCHANGED <<outcome, lock, todo>>
        /\ Tell(Message("regular", Request(Main(t), Op(t).op, Op(t).names)))
    BY <1>13 DEF SendRegular
  <2>2. MailTyped'
    BY <1>1, <1>2, <1>4, <2>1, OperationType, UserTells DEF Goes
  <2>3. UsersTyped' /\ Exclusive'
    BY <1>1, <2>1, Continues DEF UserTypes
  <2> QED BY <1>5, <1>7, <2>1, <2>2, <2>3, Together
<1>14. CASE Release(t)
  <2>1. /\ Goes(t, "sent", "idle") /\ UNCHANGED outcome /\ Recovering(t)
        /\ lock' = lock + 1 /\ todo' = [todo EXCEPT ![t] = Tail(@)]
    BY <1>14 DEF Release, Released
  <2>2. MailTyped'
    BY <1>1, <1>3, <1>4, <1>6, <2>1, UserTells DEF Recovering
  <2>3. UsersTyped' /\ Exclusive'
    BY <1>1, <2>1, GivesBack
  <2> QED BY <1>5, <1>7, <2>1, <2>2, <2>3, Together
<1> QED BY <1>8, <1>9, <1>10, <1>11, <1>12, <1>13, <1>14 DEF UserStep

-----------------------------------------------------------------------------
LEMMA SubscriberInvInit == Init => SubscriberInv
<1> SUFFICES ASSUME Init PROVE SubscriberInv
  OBVIOUS
<1>1. \A S : <<>> \in Seq(S)
  OBVIOUS
<1>2. StateTyped
  BY <1>1, NoSubscriptionsType, SubscriberAssumption DEF Init, ListenerInit, StateTyped, Modes, Outcomes
<1>3. MailTyped
  BY <1>1 DEF Init, ListenerInit, MailTyped
<1>4. UsersTyped /\ Exclusive
  BY SubscriberAssumption DEF Init, UsersTyped, Exclusive
<1> QED BY <1>2, <1>3, <1>4, TypeParts DEF SubscriberInv, Exclusive

LEMMA SubscriberInvStep == SubscriberInv /\ [Next]_vars => SubscriberInv'
<1> SUFFICES ASSUME SubscriberInv, [Next]_vars PROVE SubscriberInv'
  OBVIOUS
<1>1. StateTyped /\ MailTyped /\ UsersTyped /\ Exclusive
  BY TypeParts DEF SubscriberInv
<1>2. ASSUME StateTyped', MailTyped', UNCHANGED userVars PROVE SubscriberInv'
  <2>1. UsersTyped' /\ Exclusive'
    BY <1>1, <1>2 DEF UsersTyped, Exclusive, userVars
  <2> QED BY <1>2, <2>1, Together
<1>3. CASE \E t \in Threads : UserStep(t)
  BY <1>3, UserTypesKept
<1>4. CASE ListenerStep /\ UNCHANGED userVars
  BY <1>1, <1>2, <1>4, ListenerTypes
<1>5. CASE ConnectionStep /\ UNCHANGED userVars
  BY <1>1, <1>2, <1>5, ConnectTypes, ServerTypes, DeliverTypes, ClosedTypes DEF ConnectionStep
<1>6. CASE (\E d \in Decoders : Decode(d)) /\ UNCHANGED userVars
  BY <1>1, <1>2, <1>6, DecodeTypes
<1>7. CASE Loses /\ UNCHANGED userVars
  BY <1>1, <1>2, <1>7, ClosedTypes DEF Loses
<1>8. CASE UNCHANGED vars
  <2>1. StateTyped' /\ MailTyped' /\ UNCHANGED userVars
    BY <1>1, <1>8 DEF vars, StateTyped, MailTyped, serverVars, listenerVars
  <2> QED BY <2>1, <1>2
<1> QED BY <1>3, <1>4, <1>5, <1>6, <1>7, <1>8 DEF Next

(* Whatever is lost, delayed or overtaken: the lock of a subscriber        *)
(* connection is never given back twice nor held by two, and no            *)
(* subscription of a channel is ever kept, saved or sent as a pattern's.   *)
THEOREM SubscriberTypeCorrect == Spec => []TypeOK
<1>1. SubscriberInv => TypeOK
  BY DEF SubscriberInv
<1> QED BY <1>1, SubscriberInvInit, SubscriberInvStep, PTL DEF Spec

=============================================================================
