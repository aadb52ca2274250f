----------------------- MODULE AkkaConnection_proofs -----------------------
(***************************************************************************)
(* What is proved about AkkaConnection for every value of its constants:   *)
(* type correctness, RefusesBeforeShuttingDown, and, where the receive     *)
(* timeout does not fire, NoReconnectionAfterQuit and, over single         *)
(* requests and connections that are not dropped, NothingForgotten.        *)
(***************************************************************************)
EXTENDS AkkaConnection, SequenceTheorems, FiniteSetTheorems, TLAPS

-----------------------------------------------------------------------------
(* Messages.                                                               *)

(* A part of a sequence is a sequence over the same set.                   *)
LEMMA SubSeqType ==
    ASSUME NEW S, NEW s \in Seq(S), NEW m \in Nat \ {0}, NEW n \in Nat, n <= Len(s)
    PROVE  SubSeq(s, m, n) \in Seq(S)
BY SubSeqProperties, \A i \in m..n : i \in 1..Len(s)

(* What the listener is told keeps its mailbox a sequence of messages.     *)
LEMMA ListenerBoxType ==
    ASSUME NEW box \in Seq(ListenerMessage), NEW ms \in Seq(ListenerMessage)
    PROVE  AfterTellingListener(box, ms) \in Seq(ListenerMessage)
BY DEF AfterTellingListener

LEMMA SignalType ==
    /\ \A t \in ListenerSignals : Signal(t) \in ListenerMessage
    /\ \A t \in IOSignals : Signal(t) \in IOMessage
BY DEF Signal, ListenerMessage, IOMessage

LEMMA TellType ==
    ASSUME lbox \in Seq(ListenerMessage), NEW t \in ListenerSignals, Tell(t)
    PROVE  lbox' \in Seq(ListenerMessage)
<1>1. <<Signal(t)>> \in Seq(ListenerMessage)
  BY SignalType
<1> QED BY <1>1, ListenerBoxType DEF Tell

LEMMA ToldType ==
    ASSUME NEW actor \in IOType, NEW ms \in Seq(IOMessage)
    PROVE  Told(actor, ms) \in IOType
<1>1. actor.box \o ms \in Seq(IOMessage)
  BY DEF IOType
<1> QED BY <1>1 DEF Told, IOType

LEMMA ToldSignalType ==
    ASSUME NEW actor \in IOType, NEW t \in IOSignals
    PROVE  Told(actor, <<Signal(t)>>) \in IOType
<1>1. <<Signal(t)>> \in Seq(IOMessage)
  BY SignalType
<1> QED BY <1>1, ToldType

LEMMA NewActorTypes == NoIOActor \in IOType /\ NewIOActor \in IOType /\ Stopped \in IOType
<1>1. NoIOActor \in IOType
  BY DEF NoIOActor, IOType, IOStates
<1>2. \A a \in IOType : [a EXCEPT !.state = "connecting", !.connectTimer = TRUE] \in IOType
  BY DEF IOType, IOStates
<1>3. \A a \in IOType : [a EXCEPT !.state = "stopped"] \in IOType
  BY DEF IOType, IOStates
<1> QED BY <1>1, <1>2, <1>3 DEF NewIOActor, Stopped

LEMMA CompleteType ==
    ASSUME outcome \in [Ids -> Outcomes], NEW ids, NEW result \in Outcomes
    PROVE  Complete(ids, result) \in [Ids -> Outcomes]
BY DEF Complete

(* The message at the head of a mailbox has the fields of its type.        *)
LEMMA HandedType ==
    ASSUME lbox \in Seq(ListenerMessage), IsItem
    PROVE  /\ Handed \in Seq(Request) /\ Len(Handed) >= 1
           /\ Tail(lbox) \in Seq(ListenerMessage)
<1>1. Head(lbox) \in ListenerMessage /\ Tail(lbox) \in Seq(ListenerMessage)
  BY HeadTailProperties DEF IsItem, Receives
<1>2. Head(lbox).type \in {"Request", "Transaction"}
  BY DEF IsItem, Receives
<1>3. Head(lbox) \in Item
  BY <1>1, <1>2 DEF ListenerMessage, ListenerSignals
<1>4. \A i \in Item : i.reqs \in Seq(Request) /\ Len(i.reqs) >= 1
  <2> TAKE i \in Item
  <2>1. i.reqs \in Seq(Request) /\ Len(i.reqs) \in Nat
    BY DEF Item
  <2>2. Len(i.reqs) = 1 \/ Len(i.reqs) >= 2
    BY DEF Item
  <2> QED BY <2>1, <2>2, SMTT(30)
<1> QED BY <1>1, <1>3, <1>4 DEF Handed

LEMMA ReceivedType ==
    ASSUME lbox \in Seq(ListenerMessage), Receives("Received")
    PROVE  Head(lbox).data \in Data /\ Tail(lbox) \in Seq(ListenerMessage)
<1>1. Head(lbox) \in ListenerMessage /\ Tail(lbox) \in Seq(ListenerMessage)
  BY HeadTailProperties DEF Receives
<1> QED BY <1>1 DEF ListenerMessage, ListenerSignals, Item, Receives

LEMMA ConsumeType ==
    ASSUME lbox \in Seq(ListenerMessage), NEW t, Receives(t), Consume
    PROVE  lbox' \in Seq(ListenerMessage)
BY HeadTailProperties DEF Receives, Consume

-----------------------------------------------------------------------------
(* Sending.                                                                *)

LEMMA RememberType ==
    ASSUME NEW s \in SettingsType, NEW rs \in Seq(Request)
    PROVE  Remember(s, rs) \in SettingsType
<1>1. \A i \in DOMAIN rs : rs[i] \in Request
  OBVIOUS
<1>2. \A r \in Request : r.value \in Values
  BY DEF Request
<1>3. \A i \in DOMAIN rs : rs[i].value \in Values
  BY <1>1, <1>2
<1> QED BY <1>3 DEF Remember, SettingsType

(* A transaction is cut within its length...                               *)
LEMMA CutLength ==
    ASSUME NEW rs \in Seq(Request)
    PROVE  LET n == Cardinality({i \in DOMAIN rs : \A j \in 1..i - 1 : rs[j].op # "quit"})
           IN n \in Nat /\ n <= Len(rs)
<1> DEFINE before == {i \in DOMAIN rs : \A j \in 1..i - 1 : rs[j].op # "quit"}
<1>1. IsFiniteSet(1..Len(rs)) /\ Cardinality(1..Len(rs)) = Len(rs)
  <2>1. Len(rs) \in Nat
    OBVIOUS
  <2> QED BY <2>1, FS_Interval, SMTT(30)
<1>2. before \subseteq 1..Len(rs)
  OBVIOUS
<1>3. Cardinality(before) \in Nat /\ Cardinality(before) <= Len(rs)
  <2> HIDE DEF before
  <2> QED BY <1>1, <1>2, FS_Subset, FS_CardinalityType
<1> QED BY <1>3

(* ...into two sequences of requests.                                      *)
LEMMA CutType ==
    ASSUME NEW rs \in Seq(Request)
    PROVE  UpToQuit(rs) \in Seq(Request) /\ AfterQuit(rs) \in Seq(Request)
<1> DEFINE n == Cardinality({i \in DOMAIN rs : \A j \in 1..i - 1 : rs[j].op # "quit"})
<1>1. n \in Nat /\ n <= Len(rs)
  BY CutLength
<1> HIDE DEF n
<1>2. SubSeq(rs, 1, n) \in Seq(Request)
  BY <1>1, SubSeqType
<1>3. UpToQuit(rs) \in Seq(Request)
  BY <1>2 DEF UpToQuit, n
<1>4. Len(UpToQuit(rs)) \in Nat
  BY <1>3
<1>5. AfterQuit(rs) \in Seq(Request)
  BY <1>4, SubSeqType DEF AfterQuit
<1> QED BY <1>3, <1>5

LEMMA InitRequestsType ==
    ASSUME NEW s \in SettingsType
    PROVE  InitRequests(s) \in Seq(Request)
<1>1. \A op \in SessionOps : InitRequest(op, s) \in Seq(Request)
  <2> TAKE op \in SessionOps
  <2>1. s[op] \in Values
    BY DEF SettingsType
  <2>2. [id |-> Internal, op |-> op, value |-> s[op]] \in Request
    BY <2>1 DEF Request, Ops
  <2> QED BY <2>2 DEF InitRequest
<1> QED BY <1>1 DEF InitRequests, SessionOps

LEMMA IORequestsType ==
    ASSUME NEW rs \in Seq(Request)
    PROVE  IORequests(rs) \in Seq(IOMessage)
<1>1. \A i \in 1..Len(rs) : [type |-> "Request", req |-> rs[i]] \in IOMessage
  BY DEF IOMessage
<1> QED BY <1>1 DEF IORequests

(* doSend leaves every field it writes within its type.                    *)
SendTypes ==
    /\ io' \in [Connections -> IOType]
    /\ settings' \in SettingsType
    /\ isShuttingDown' \in BOOLEAN
    /\ timerSet' \in BOOLEAN /\ timerRunning' \in BOOLEAN
    /\ requests' \in Seq(Request) /\ queued' \in Seq(Request)

LEMMA SendType ==
    ASSUME io \in [Connections -> IOType], epoch \in Connections,
           settings \in SettingsType, isShuttingDown \in BOOLEAN, timerRunning \in BOOLEAN,
           NEW rs \in Seq(Request), NEW before \in Seq(Request),
           NEW q \in Seq(Request), NEW set \in BOOLEAN,
           Send(rs, before, q, set)
    PROVE  SendTypes
<1>1. Told(io[epoch], IORequests(rs)) \in IOType
  BY IORequestsType, ToldType
<1>2. io' \in [Connections -> IOType]
  BY <1>1 DEF Send
<1>3. settings' \in SettingsType
  BY RememberType DEF Send
<1>4. isShuttingDown' \in BOOLEAN
  BY DEF Send, HasQuit
<1>5. timerSet' \in BOOLEAN /\ timerRunning' \in BOOLEAN
  BY Zenon, SharedAssumption DEF Send
<1>6. requests' \in Seq(Request) /\ queued' \in Seq(Request)
  BY DEF Send
<1> QED BY <1>2, <1>3, <1>4, <1>5, <1>6 DEF SendTypes

-----------------------------------------------------------------------------
(* The listener.                                                           *)

(* What the listener reads and writes, apart from the connections.         *)
LInv == LTypeOK /\ io \in [Connections -> IOType] /\ outcome \in [Ids -> Outcomes]

LEMMA ReconnectType ==
    ASSUME LInv, Reconnect
    PROVE  /\ epoch' \in Connections /\ io' \in [Connections -> IOType]
           /\ isConnecting' \in BOOLEAN /\ lstate' = "connecting"
<1>1. epoch' \in Connections
  BY SharedAssumption DEF LInv, LTypeOK, Reconnect, Connections
<1> QED BY <1>1, NewActorTypes DEF LInv, Reconnect

LEMMA PoisonType ==
    ASSUME LInv, PoisonDecoders
    PROVE  dbox' \in [Decoders -> Seq(DecoderMessage)] /\ lstate' = "awaitingDecodersShutdown"
<1>1. Signal("PoisonPill") \in DecoderMessage
  BY DEF Signal, DecoderMessage
<1> QED BY <1>1 DEF LInv, LTypeOK, PoisonDecoders

LEMMA ParsedType ==
    ASSUME LInv, NEW data \in Data
    PROVE  Parsed(data) \in Seq(Reply)
<1>1. data.replies \in Seq(Reply)
  BY DEF Data
<1>2. CASE remaining = <<>> \/ data.replies = <<>>
  BY <1>1, <1>2 DEF Parsed
<1>3. CASE remaining # <<>> /\ data.replies # <<>>
  <2>1. Head(remaining) \in Reply /\ Tail(data.replies) \in Seq(Reply)
    BY <1>1, <1>3, HeadTailProperties DEF LInv, LTypeOK
  <2>2. [to |-> Head(remaining).to, kind |-> "garbled"] \in Reply
    BY <2>1 DEF Reply
  <2> QED BY <1>3, <2>1, <2>2 DEF Parsed
<1> QED BY <1>2, <1>3

LEMMA UnansweredType ==
    ASSUME LInv, NEW data \in Data
    PROVE  Unanswered(data) \in Seq(Request)
<1>1. Len(Parsed(data)) \in Nat /\ requests \in Seq(Request)
  BY ParsedType DEF LInv, LTypeOK
<1>2. SubSeq(requests, Len(Parsed(data)) + 1, Len(requests)) \in Seq(Request)
  BY <1>1, SubSeqType
<1> QED BY <1>2 DEF Unanswered

LEMMA SendAllQueuedType ==
    ASSUME LInv, NEW before \in Seq(Request), NEW set \in BOOLEAN, SendAllQueued(before, set)
    PROVE  SendTypes /\ lstate' \in {"initialized", "shuttingDown"}
<1>1. Send(queued, before, <<>>, set)
  BY DEF SendAllQueued
<1>2. queued \in Seq(Request) /\ <<>> \in Seq(Request)
  BY DEF LInv, LTypeOK
<1>3. SendTypes
  BY <1>1, <1>2, SendType DEF LInv, LTypeOK
<1> QED BY <1>3 DEF SendAllQueued

(* A partition has a reply for each of its requests.                       *)
LEMMA ReceiveDataType ==
    ASSUME LInv, NEW data \in Data, ReceiveData(data)
    PROVE  remaining' \in Seq(Reply) /\ dbox' \in [Decoders -> Seq(DecoderMessage)]
<1> DEFINE replies == Parsed(data)
           count == IF Len(replies) > Len(requests) THEN Len(requests) ELSE Len(replies)
           p == [type |-> "Partition", replies |-> replies,
                 reqs |-> SubSeq(requests, 1, count), skip |-> Len(replies) - count]
<1>1. replies \in Seq(Reply) /\ requests \in Seq(Request) /\ data.rest \in Seq(Reply)
  BY ParsedType DEF LInv, LTypeOK, Data
<1>2. count \in Nat /\ count <= Len(requests) /\ count <= Len(replies)
  BY <1>1
<1>3. p \in Partition
  <2> HIDE DEF replies, count
  <2>1. SubSeq(requests, 1, count) \in Seq(Request)
    BY <1>1, <1>2, SubSeqType
  <2>2. Len(SubSeq(requests, 1, count)) = count
    BY <1>1, <1>2
  <2> QED BY <1>1, <1>2, <2>1, <2>2 DEF Partition
<1>4. remaining' \in Seq(Reply)
  BY <1>1 DEF ReceiveData, LInv, LTypeOK
<1>5. dbox' = dbox \/ \E d \in Decoders : dbox' = [dbox EXCEPT ![d] = Append(@, p)]
  BY DEF ReceiveData
<1>6. dbox' \in [Decoders -> Seq(DecoderMessage)]
  <2> HIDE DEF p
  <2>1. p \in DecoderMessage
    BY <1>3 DEF DecoderMessage
  <2>2. dbox \in [Decoders -> Seq(DecoderMessage)]
    BY DEF LInv, LTypeOK
  <2>3. \A d \in Decoders : Append(dbox[d], p) \in Seq(DecoderMessage)
    BY <2>1, <2>2
  <2> QED BY <1>5, <2>2, <2>3
<1> QED BY <1>4, <1>6

(* Every case of every behaviour of the listener.                          *)
LEMMA ListenerType ==
    ASSUME LInv, LNext, UNCHANGED deadDecoders
    PROVE  LInv'
<1> USE DEF LInv
<1>1. ASSUME FailItem PROVE LInv'
  <2>1. outcome' \in [Ids -> Outcomes] /\ lbox' \in Seq(ListenerMessage)
    BY <1>1, CompleteType, HandedType DEF FailItem, Consume, Outcomes, LTypeOK
  <2> QED BY <1>1, <2>1 DEF FailItem, LTypeOK, listenerVars
<1>2. ASSUME QueueItem PROVE LInv'
  <2>1. queued' \in Seq(Request) /\ lbox' \in Seq(ListenerMessage)
    BY <1>2, HandedType DEF QueueItem, Enqueued, Consume, LTypeOK
  <2> QED BY <1>2, <2>1 DEF QueueItem, LTypeOK, connecting, timer
<1>3. ASSUME SendItem PROVE LInv'
  <2> DEFINE members == SubSeq(Handed, 2, Len(Handed) - 1)
             both == <<Handed[1]>> \o UpToQuit(members) \o <<Handed[Len(Handed)]>>
             handed == IF Len(Handed) = 1 THEN Handed ELSE both
  <2>1. Handed \in Seq(Request) /\ Len(Handed) >= 1 /\ lbox' \in Seq(ListenerMessage)
    BY <1>3, HandedType DEF SendItem, Consume, LTypeOK
  <2>2. members \in Seq(Request)
    BY <2>1, SubSeqType
  <2>3. handed \in Seq(Request)
    <3>1. UpToQuit(members) \in Seq(Request)
      <4> HIDE DEF members
      <4> QED BY <2>2, CutType
    <3>2. Handed[1] \in Request /\ Handed[Len(Handed)] \in Request
      BY <2>1
    <3> HIDE DEF members
    <3>3. both \in Seq(Request)
      BY <3>1, <3>2
    <3> HIDE DEF both
    <3> QED BY <2>1, <3>3
  <2>4. Send(handed, requests, queued, timerSet)
    BY <1>3 DEF SendItem
  <2> HIDE DEF handed
  <2>5. SendTypes
    BY <2>3, <2>4, SendType DEF LTypeOK, SendTypes
  <2>6. outcome' \in [Ids -> Outcomes]
    BY <1>3, CompleteType DEF SendItem, Outcomes
  <2>7. lstate' \in {lstate, "shuttingDown"}
    BY <1>3 DEF SendItem, BehaviourAfterSending
  <2> QED BY <1>3, <2>1, <2>5, <2>6, <2>7 DEF SendItem, SendTypes, connecting, LTypeOK
<1>4. ASSUME QuitWhileConnecting PROVE LInv'
  <2>1. dbox' \in [Decoders -> Seq(DecoderMessage)] /\ lstate' = "awaitingDecodersShutdown"
    BY <1>4, PoisonType DEF QuitWhileConnecting
  <2>2. Complete(IdsOf(queued), "failed") \in [Ids -> Outcomes]
    BY CompleteType DEF Outcomes
  <2>3. outcome' \in [Ids -> Outcomes]
    BY <1>4, <2>2 DEF QuitWhileConnecting, Outcomes
  <2>4. lbox' \in Seq(ListenerMessage)
    BY <1>4, ConsumeType DEF QuitWhileConnecting, LTypeOK
  <2> QED BY <1>4, <2>1, <2>3, <2>4 DEF QuitWhileConnecting, timer, LTypeOK
<1>5. ASSUME ItemWhileConnecting PROVE LInv'
  <2>1. Handed \in Seq(Request) /\ lbox' \in Seq(ListenerMessage)
    BY <1>5, HandedType DEF ItemWhileConnecting, Consume, LTypeOK
  <2>2. queued' \in Seq(Request) /\ outcome' \in [Ids -> Outcomes]
    <3>1. Enqueued \in Seq(Request)
      BY <2>1 DEF Enqueued, LTypeOK
    <3>2. Complete(IdsOf(Handed), "failed") \in [Ids -> Outcomes]
      BY CompleteType DEF Outcomes
    <3> QED BY <1>5, <3>1, <3>2 DEF ItemWhileConnecting, LTypeOK
  <2>3. /\ epoch' \in Connections /\ io' \in [Connections -> IOType]
        /\ isConnecting' \in BOOLEAN /\ lstate' = "connecting"
    <3>1. CASE isConnecting
      BY <1>5, <3>1 DEF ItemWhileConnecting, ReconnectUnlessConnecting, LTypeOK
    <3>2. CASE ~isConnecting
      BY <1>5, <3>2, ReconnectType DEF ItemWhileConnecting, ReconnectUnlessConnecting
    <3> QED BY <3>1, <3>2
  <2> QED BY <1>5, <2>1, <2>2, <2>3 DEF ItemWhileConnecting, timer, LTypeOK
<1>6. ASSUME OnConnected PROVE LInv'
  <2>1. lbox' \in Seq(ListenerMessage)
    BY <1>6, ConsumeType DEF OnConnected, LTypeOK
  <2>2. InitRequests(settings) \in Seq(Request)
    BY InitRequestsType DEF LTypeOK
  <2>3. initCount' \in Int
    BY <1>6, <2>2 DEF OnConnected
  <2>4. SendTypes /\ lstate' \in {"initializing", "initialized", "shuttingDown"}
    <3>1. CASE InitRequests(settings) # <<>>
      <4>1. Send(InitRequests(settings), requests, queued, timerSet) /\ lstate' = "initializing"
        BY <1>6, <3>1 DEF OnConnected
      <4> QED BY <2>2, <4>1, SendType DEF LTypeOK
    <3>2. CASE InitRequests(settings) = <<>>
      <4>1. SendAllQueued(requests, timerSet)
        BY <1>6, <3>2 DEF OnConnected
      <4> QED BY <4>1, SendAllQueuedType DEF LTypeOK
    <3> QED BY <3>1, <3>2
  <2> QED BY <1>6, <2>1, <2>3, <2>4 DEF OnConnected, SendTypes, LTypeOK
<1>7. ASSUME OnConnectedAfterQuit PROVE LInv'
  <2>1. dbox' \in [Decoders -> Seq(DecoderMessage)] /\ lstate' = "awaitingDecodersShutdown"
    BY <1>7, PoisonType DEF OnConnectedAfterQuit
  <2>2. lbox' \in Seq(ListenerMessage)
    BY <1>7, ConsumeType DEF OnConnectedAfterQuit, LTypeOK
  <2> QED BY <1>7, <2>1, <2>2 DEF OnConnectedAfterQuit, sending, timer, LTypeOK
<1>8. ASSUME FailQueued PROVE outcome' \in [Ids -> Outcomes] /\ queued' \in Seq(Request)
  BY <1>8, CompleteType DEF FailQueued, Outcomes
<1>9. ASSUME FailSent PROVE outcome' \in [Ids -> Outcomes] /\ requests' \in Seq(Request)
  BY <1>9, CompleteType DEF FailSent, Outcomes
<1>10. ASSUME TerminatedConnecting PROVE LInv'
  <2>1. lbox' \in Seq(ListenerMessage)
    BY <1>10, ConsumeType DEF TerminatedConnecting, LTypeOK
  <2>2. outcome' \in [Ids -> Outcomes] /\ queued' \in Seq(Request)
    BY <1>8, <1>10 DEF TerminatedConnecting
  <2> QED BY <1>10, <2>1, <2>2 DEF TerminatedConnecting, timer, LTypeOK
<1>11. ASSUME Receive PROVE LInv'
  <2>1. Head(lbox).data \in Data /\ lbox' \in Seq(ListenerMessage)
    BY <1>11, ReceivedType DEF Receive, Consume, LTypeOK
  <2>2. remaining' \in Seq(Reply) /\ dbox' \in [Decoders -> Seq(DecoderMessage)]
    BY <1>11, <2>1, ReceiveDataType DEF Receive
  <2>3. requests' \in Seq(Request)
    BY <1>11, <2>1, UnansweredType DEF Receive
  <2> QED BY <1>11, <2>1, <2>2, <2>3 DEF Receive, connecting, LTypeOK
<1>12. ASSUME ReceiveInitializing PROVE LInv'
  <2> DEFINE data == Head(lbox).data
  <2>1. data \in Data /\ lbox' \in Seq(ListenerMessage)
    BY <1>12, ReceivedType DEF ReceiveInitializing, Consume, LTypeOK
  <2>2. remaining' \in Seq(Reply) /\ dbox' \in [Decoders -> Seq(DecoderMessage)]
    BY <1>12, <2>1, ReceiveDataType DEF ReceiveInitializing
  <2>3. Unanswered(data) \in Seq(Request) /\ Parsed(data) \in Seq(Reply)
    BY <2>1, UnansweredType, ParsedType
  <2>4. initCount' \in Int
    BY <1>12, <2>3 DEF ReceiveInitializing, LTypeOK
  <2>5. SendTypes /\ lstate' \in {"initializing", "initialized", "shuttingDown"}
    <3>1. CASE initCount' = 0
      BY <1>12, <2>3, <3>1, SendAllQueuedType DEF ReceiveInitializing
    <3>2. CASE initCount' # 0
      BY <1>12, <2>3, <3>2 DEF ReceiveInitializing, SendTypes, LTypeOK
    <3> QED BY <3>1, <3>2
  <2> QED BY <1>12, <2>1, <2>2, <2>4, <2>5 DEF ReceiveInitializing, SendTypes, connecting, LTypeOK
<1>13. ASSUME HandleReceiveTimeout PROVE LInv'
  <2>1. lbox' \in Seq(ListenerMessage)
    BY <1>13, ConsumeType DEF HandleReceiveTimeout, LTypeOK
  <2>2. io' \in [Connections -> IOType]
    BY <1>13, ToldSignalType DEF HandleReceiveTimeout, IOSignals, LTypeOK
  <2>3. <<>> \in Seq(Reply)
    OBVIOUS
  <2> QED BY <1>13, <2>1, <2>2, <2>3 DEF HandleReceiveTimeout, connecting, LTypeOK
<1>14. ASSUME OnRemove PROVE LInv'
  <2>1. lbox' \in Seq(ListenerMessage)
    BY <1>14, ConsumeType DEF OnRemove, LTypeOK
  <2>2. requests' \in Seq(Request)
    BY <1>14, HeadTailProperties DEF OnRemove, LTypeOK
  <2> QED BY <1>14, <2>1, <2>2 DEF OnRemove, connecting, timer, LTypeOK
<1>15. ASSUME NEW signal, NEW ack \in IOSignals, Acknowledge(signal, ack) PROVE LInv'
  <2>1. lbox' \in Seq(ListenerMessage)
    BY <1>15, ConsumeType DEF Acknowledge, LTypeOK
  <2>2. io' \in [Connections -> IOType]
    BY <1>15, ToldSignalType DEF Acknowledge, LTypeOK
  <2>3. lstate' \in {lstate, "reconnecting"}
    BY <1>15 DEF Acknowledge, BehaviourAfter
  <2> QED BY <1>15, <2>1, <2>2, <2>3 DEF Acknowledge, connecting, sending, timer, LTypeOK
<1>16. ASSUME OnAbort \/ OnShutdown PROVE LInv'
  BY <1>15, <1>16 DEF OnAbort, OnShutdown, IOSignals
<1>17. ASSUME TerminatedInitializing PROVE LInv'
  <2>1. lbox' \in Seq(ListenerMessage)
    BY <1>17, ConsumeType DEF TerminatedInitializing, LTypeOK
  <2>2. /\ epoch' \in Connections /\ io' \in [Connections -> IOType]
        /\ isConnecting' \in BOOLEAN /\ lstate' = "connecting"
    BY <1>17, ReconnectType DEF TerminatedInitializing
  <2>3. outcome' \in [Ids -> Outcomes] /\ queued' \in Seq(Request)
    BY <1>8, <1>17 DEF TerminatedInitializing
  <2> QED BY <1>17, <2>1, <2>2, <2>3 DEF TerminatedInitializing, timer, LTypeOK
<1>18. ASSUME TerminatedConnected PROVE LInv'
  <2>1. lbox' \in Seq(ListenerMessage)
    BY <1>18, ConsumeType DEF TerminatedConnected, LTypeOK
  <2>2. /\ epoch' \in Connections /\ io' \in [Connections -> IOType]
        /\ isConnecting' \in BOOLEAN /\ lstate' = "connecting"
    BY <1>18, ReconnectType DEF TerminatedConnected
  <2>3. outcome' \in [Ids -> Outcomes] /\ requests' \in Seq(Request)
    BY <1>9, <1>18 DEF TerminatedConnected
  <2> QED BY <1>18, <2>1, <2>2, <2>3 DEF TerminatedConnected, timer, LTypeOK
<1>19. ASSUME TerminatedShuttingDown PROVE LInv'
  <2>1. lbox' \in Seq(ListenerMessage)
    BY <1>19, ConsumeType DEF TerminatedShuttingDown, LTypeOK
  <2>2. dbox' \in [Decoders -> Seq(DecoderMessage)] /\ lstate' = "awaitingDecodersShutdown"
    BY <1>19, PoisonType DEF TerminatedShuttingDown
  <2> QED BY <1>19, <2>1, <2>2 DEF TerminatedShuttingDown, connecting, sending, timer, LTypeOK
<1>20. ASSUME TerminatedAwaitingDecoders PROVE LInv'
  <2>1. Tail(lbox) \in Seq(ListenerMessage) /\ <<>> \in Seq(ListenerMessage)
    BY <1>20, HeadTailProperties DEF TerminatedAwaitingDecoders, Receives, LTypeOK
  <2>2. lbox' \in Seq(ListenerMessage) /\ io' \in [Connections -> IOType]
    BY <1>20, <2>1, NewActorTypes DEF TerminatedAwaitingDecoders, Consume
  <2>3. dbox' \in [Decoders -> Seq(DecoderMessage)]
    <3>1. dbox' = dbox \/ dbox' = [d \in Decoders |-> <<>>]
      BY <1>20 DEF TerminatedAwaitingDecoders
    <3>2. <<>> \in Seq(DecoderMessage)
      OBVIOUS
    <3> QED BY <3>1, <3>2 DEF LTypeOK
  <2>4. decodersLeft' \in Int /\ lstate' \in {lstate, "stopped"}
    BY <1>20 DEF TerminatedAwaitingDecoders, LTypeOK
  <2> QED BY <1>20, <2>2, <2>3, <2>4 DEF TerminatedAwaitingDecoders, sending, timer, LTypeOK
<1>21. ASSUME Ignore PROVE LInv'
  <2>1. lbox' \in Seq(ListenerMessage)
    BY <1>21, ConsumeType DEF Ignore, Ignored, LTypeOK
  <2> QED BY <1>21, <2>1 DEF Ignore, listenerVars, LTypeOK
<1> QED
  BY <1>1, <1>2, <1>3, <1>4, <1>5, <1>6, <1>7, <1>10, <1>11, <1>12, <1>13, <1>14,
     <1>16, <1>17, <1>18, <1>19, <1>20, <1>21 DEF LNext

-----------------------------------------------------------------------------
(* The IOActors.                                                           *)

(* What an IOActor reads and writes.                                       *)
IOInv ==
    /\ io \in [Connections -> IOType]
    /\ tcp \in [Connections -> TcpType]
    /\ lbox \in Seq(ListenerMessage)
    /\ outcome \in [Ids -> Outcomes]

LEMMA TcpUpdateTypes ==
    ASSUME NEW t \in TcpType
    PROVE  /\ \A s \in {"none", "established", "open", "closed"} :
                [t EXCEPT !.state = s] \in TcpType
           /\ \A b \in BOOLEAN : [t EXCEPT !.abort = b] \in TcpType
           /\ \A rs \in Seq(Request) : [t EXCEPT !.writing = rs] \in TcpType
BY DEF TcpType

LEMMA BecomesType ==
    ASSUME IOInv, NEW e \in Connections, NEW actor \in IOType, actor.box # <<>>,
           IOBecomes(e, actor)
    PROVE  io' \in [Connections -> IOType]
<1>1. Tail(actor.box) \in Seq(IOMessage)
  BY HeadTailProperties DEF IOType
<1>2. [actor EXCEPT !.box = Tail(@)] \in IOType
  BY <1>1 DEF IOType
<1> QED BY <1>2 DEF IOInv, IOBecomes

LEMMA IOStopType ==
    ASSUME IOInv, NEW e \in Connections, IOStop(e)
    PROVE  io' \in [Connections -> IOType] /\ lbox' \in Seq(ListenerMessage)
<1>1. lbox' \in Seq(ListenerMessage)
  BY TellType DEF IOStop, IOInv, ListenerSignals
<1> QED BY <1>1, NewActorTypes DEF IOInv, IOStop

LEMMA RequeuedType ==
    ASSUME NEW actor \in IOType
    PROVE  Requeued(actor) \in Seq(Request)
<1>1. actor.batch \in Seq(Request) /\ actor.requests \in Seq(Request)
  BY DEF IOType
<1>2. \A r \in Request : Written(r) \in Request
  BY DEF Written, Request, Ops
<1>3. \A i \in 1..Len(actor.batch) :
          Written(actor.batch[Len(actor.batch) + 1 - i]) \in Request
  BY <1>1, <1>2
<1>4. [i \in 1..Len(actor.batch) |-> Written(actor.batch[Len(actor.batch) + 1 - i])]
          \in Seq(Request)
  BY <1>1, <1>3
<1>5. DOMAIN actor.batch = 1..Len(actor.batch)
  BY <1>1
<1>6. Requeued(actor) =
        [i \in 1..Len(actor.batch) |-> Written(actor.batch[Len(actor.batch) + 1 - i])]
          \o actor.requests
  BY <1>5 DEF Requeued
<1> HIDE DEF Requeued
<1> QED BY <1>1, <1>4, <1>6, ConcatProperties

LEMMA WritesNextType ==
    ASSUME IOInv, NEW e \in Connections, io[e].box # <<>>, NEW pending \in Seq(Request),
           WritesNext(e, pending)
    PROVE  IOInv'
<1> DEFINE size == IF Len(pending) < MaxWriteBatchSize THEN Len(pending)
                                                       ELSE MaxWriteBatchSize
           actor == [io[e] EXCEPT !.batch = SubSeq(pending, 1, size),
                                  !.requests = Unwritten(pending, size),
                                  !.canWrite = (pending = <<>>)]
<1>1. size \in Nat /\ size <= Len(pending)
  BY SharedAssumption
<1>2. SubSeq(pending, 1, size) \in Seq(Request) /\ Unwritten(pending, size) \in Seq(Request)
  <2> HIDE DEF size
  <2> QED BY <1>1, SubSeqType DEF Unwritten
<1>3. actor \in IOType /\ actor.box # <<>>
  <2> HIDE DEF size
  <2> QED BY <1>2 DEF IOInv, IOType
<1>4. IOBecomes(e, actor)
  BY DEF WritesNext
<1>5. io' \in [Connections -> IOType]
  <2> HIDE DEF actor
  <2> QED BY <1>3, <1>4, BecomesType
<1>6. tcp' = tcp \/ tcp' = [tcp EXCEPT ![e].writing = SubSeq(pending, 1, size)]
  BY DEF WritesNext
<1>7. tcp' \in [Connections -> TcpType]
  <2> DEFINE written == SubSeq(pending, 1, size)
  <2>1. written \in Seq(Request) /\ tcp[e] \in TcpType
    BY <1>2 DEF IOInv
  <2>2. tcp' = tcp \/ tcp' = [tcp EXCEPT ![e].writing = written]
    BY <1>6
  <2> HIDE DEF written
  <2>3. [tcp[e] EXCEPT !.writing = written] \in TcpType
    BY <2>1, TcpUpdateTypes
  <2> QED BY <2>2, <2>3 DEF IOInv
<1> QED BY <1>5, <1>7 DEF WritesNext, IOInv

(* Every case of every behaviour of an IOActor.                            *)
LEMMA IOTypes ==
    ASSUME IOInv, NEW e \in Connections, IONext(e) \/ IOCrash(e)
    PROVE  IOInv'
<1> USE DEF IOInv
<1>1. io[e] \in IOType
  OBVIOUS
<1>2. ASSUME NEW t, IOReceives(e, t) PROVE io[e].box # <<>>
  BY <1>2 DEF IOReceives
<1>3. ASSUME NEW actor \in IOType, actor.box # <<>>, IOBecomes(e, actor)
      PROVE  io' \in [Connections -> IOType]
  BY <1>3, BecomesType
<1>4. ASSUME NEW t \in ListenerSignals, Tell(t) PROVE lbox' \in Seq(ListenerMessage)
  BY <1>4, TellType
<1>5. ASSUME IOConnected(e) PROVE IOInv'
  <2>1. lbox' \in Seq(ListenerMessage)
    BY <1>4, <1>5 DEF IOConnected, ListenerSignals
  <2>2. io' \in [Connections -> IOType]
    <3> DEFINE actor == [io[e] EXCEPT !.state = "connected", !.connectTimer = FALSE,
                                      !.canWrite = TRUE]
    <3>1. actor \in IOType /\ actor.box # <<>>
      BY <1>1, <1>2, <1>5 DEF IOConnected, IOType, IOStates
    <3>2. IOBecomes(e, actor)
      BY <1>5 DEF IOConnected
    <3> HIDE DEF actor
    <3> QED BY <1>3, <3>1, <3>2
  <2>3. tcp' \in [Connections -> TcpType]
    BY <1>5, TcpUpdateTypes DEF IOConnected
  <2> QED BY <1>5, <2>1, <2>2, <2>3 DEF IOConnected
<1>6. ASSUME IOConnectFailed(e) \/ IOCrash(e) \/ IOShutdownAck(e) \/ IOAborted(e) PROVE IOInv'
  <2>1. IOStop(e) /\ UNCHANGED <<outcome, tcp>>
    BY <1>6 DEF IOConnectFailed, IOCrash, IOShutdownAck, IOAborted
  <2> QED BY <2>1, IOStopType
<1>7. ASSUME IORequest(e) PROVE IOInv'
  <2>1. io[e].box # <<>> /\ Head(io[e].box).req \in Request
    <3>1. io[e].box # <<>> /\ Head(io[e].box).type = "Request"
      BY <1>7 DEF IORequest, IOReceives
    <3>2. Head(io[e].box) \in IOMessage
      BY <1>1, <3>1, HeadTailProperties DEF IOType
    <3> QED BY <3>1, <3>2 DEF IOMessage, IOSignals
  <2> DEFINE pending == Append(io[e].requests, Head(io[e].box).req)
  <2>2. pending \in Seq(Request)
    BY <1>1, <2>1 DEF IOType
  <2>3. CASE io[e].canWrite
    <3>1. WritesNext(e, pending)
      BY <1>7, <2>3 DEF IORequest
    <3> HIDE DEF pending
    <3> QED BY <2>1, <2>2, <3>1, WritesNextType
  <2>4. CASE ~io[e].canWrite
    <3> DEFINE actor == [io[e] EXCEPT !.requests = pending]
    <3>1. IOBecomes(e, actor) /\ UNCHANGED <<lbox, outcome, tcp>>
      BY <1>7, <2>4 DEF IORequest
    <3> HIDE DEF pending
    <3>2. actor \in IOType /\ actor.box # <<>>
      BY <1>1, <2>1, <2>2 DEF IOType
    <3> HIDE DEF actor
    <3>3. io' \in [Connections -> IOType]
      BY <1>3, <3>1, <3>2
    <3> QED BY <3>1, <3>3
  <2> QED BY <2>3, <2>4
<1>8. ASSUME IOWriteAck(e) PROVE IOInv'
  <2>1. io[e].box # <<>> /\ io[e].requests \in Seq(Request)
    BY <1>1, <1>2, <1>8 DEF IOWriteAck, IOType
  <2> QED BY <1>8, <2>1, WritesNextType DEF IOWriteAck
<1>9. ASSUME IOWriteFailed(e) PROVE IOInv'
  <2>1. io[e].box # <<>> /\ Requeued(io[e]) \in Seq(Request)
    BY <1>1, <1>2, <1>9, RequeuedType DEF IOWriteFailed
  <2> QED BY <1>9, <2>1, WritesNextType DEF IOWriteFailed
<1>10. ASSUME NEW state \in IOStates, NEW t \in ListenerSignals, io[e].box # <<>>, Tell(t),
              IOBecomes(e, [io[e] EXCEPT !.state = state]), UNCHANGED tcp,
              outcome' \in [Ids -> Outcomes]
       PROVE  IOInv'
  <2>1. [io[e] EXCEPT !.state = state] \in IOType /\ [io[e] EXCEPT !.state = state].box # <<>>
    BY <1>1, <1>10 DEF IOType
  <2>2. io' \in [Connections -> IOType]
    BY <1>3, <1>10, <2>1
  <2> QED BY <1>4, <1>10, <2>2
<1>11. ASSUME IOShutdown(e) \/ IOTerminated(e) PROVE IOInv'
  BY <1>2, <1>10, <1>11 DEF IOShutdown, IOTerminated, IOStates, ListenerSignals
<1>12. ASSUME IORejectRequest(e) PROVE IOInv'
  <2>1. outcome' \in [Ids -> Outcomes]
    BY <1>12, CompleteType DEF IORejectRequest, Outcomes
  <2>2. io' \in [Connections -> IOType]
    BY <1>1, <1>2, <1>3, <1>12 DEF IORejectRequest
  <2> QED BY <1>4, <1>12, <2>1, <2>2 DEF IORejectRequest, ListenerSignals
<1>13. ASSUME IOAbortAck(e) PROVE IOInv'
  <2> DEFINE actor == [io[e] EXCEPT !.state = "aborting", !.abortTimer = TRUE]
  <2>1. actor \in IOType /\ actor.box # <<>>
    BY <1>1, <1>2, <1>13 DEF IOAbortAck, IOType, IOStates
  <2>2. IOBecomes(e, actor) /\ UNCHANGED <<lbox, outcome>>
    BY <1>13 DEF IOAbortAck
  <2>3. tcp' \in [Connections -> TcpType]
    BY <1>13, TcpUpdateTypes DEF IOAbortAck
  <2> HIDE DEF actor
  <2>4. io' \in [Connections -> IOType]
    BY <1>3, <2>1, <2>2
  <2> QED BY <2>2, <2>3, <2>4
<1>14. ASSUME IOAbortTimeout(e) PROVE IOInv'
  <2> DEFINE actor == [io[e] EXCEPT !.box = Append(@, Signal("Terminated"))]
  <2>1. Signal("Terminated") \in IOMessage /\ io[e].box # <<>>
    BY <1>2, <1>14, SignalType DEF IOAbortTimeout, IOSignals
  <2>2. actor \in IOType /\ actor.box # <<>>
    <3>1. io[e].box \in Seq(IOMessage)
      BY <1>1 DEF IOType
    <3>2. /\ Append(io[e].box, Signal("Terminated")) \in Seq(IOMessage)
          /\ Append(io[e].box, Signal("Terminated")) # <<>>
      BY <2>1, <3>1, AppendProperties
    <3> QED BY <1>1, <3>2 DEF IOType
  <2>3. \/ IOBecomes(e, actor) /\ tcp' = [tcp EXCEPT ![e].state = "closed"]
        \/ IOBecomes(e, io[e]) /\ UNCHANGED tcp
    BY <1>14 DEF IOAbortTimeout
  <2> HIDE DEF actor
  <2>4. io' \in [Connections -> IOType]
    BY <1>1, <1>3, <2>1, <2>2, <2>3
  <2>5. tcp' \in [Connections -> TcpType]
    <3>1. [tcp[e] EXCEPT !.state = "closed"] \in TcpType
      BY TcpUpdateTypes
    <3>2. tcp' = [tcp EXCEPT ![e].state = "closed"] \/ tcp' = tcp
      BY <2>3
    <3> QED BY <3>1, <3>2
  <2> QED BY <1>14, <2>4, <2>5 DEF IOAbortTimeout
<1>15. ASSUME IOIgnore(e) PROVE IOInv'
  <2>1. io[e].box # <<>> /\ IOBecomes(e, io[e]) /\ UNCHANGED <<lbox, outcome, tcp>>
    BY <1>2, <1>15 DEF IOIgnore, IOIgnored
  <2> QED BY <1>1, <1>3, <2>1
<1> QED
  BY <1>5, <1>6, <1>7, <1>8, <1>9, <1>11, <1>12, <1>13, <1>14, <1>15 DEF IONext

-----------------------------------------------------------------------------
(* The connections and the server.                                         *)

(* What a TCP connection and the server behind it read and write.          *)
ServerInv ==
    /\ io \in [Connections -> IOType]
    /\ lbox \in Seq(ListenerMessage)
    /\ TcpTypeOK

LEMMA TellIOType ==
    ASSUME ServerInv, NEW c \in Connections, NEW t \in IOSignals, TellIO(c, t)
    PROVE  io' \in [Connections -> IOType]
<1>1. Told(io[c], <<Signal(t)>>) \in IOType
  BY ToldSignalType DEF ServerInv
<1> QED BY <1>1 DEF ServerInv, TellIO

LEMMA FaultType ==
    ASSUME ServerInv, NEW kind, Fault(kind)
    PROVE  faults' \in 0..MaxFaults
BY FaultAssumption DEF ServerInv, TcpTypeOK, Fault

(* A read is a message to the listener, and leaves what was not read.      *)
LEMMA ReadType ==
    ASSUME ServerInv, NEW c \in Connections, TcpRead(c)
    PROVE  ServerInv'
<1>1. tcp[c] \in TcpType /\ tcp[c].net \in Seq(Reply) /\ tcp[c].half \in BOOLEAN
  BY DEF ServerInv, TcpTypeOK, TcpType
<1>2. PICK n \in 0..Len(tcp[c].net), splits \in BOOLEAN :
        /\ splits => n < Len(tcp[c].net)
        /\ lbox' = AfterTellingListener(lbox,
              <<[type |-> "Received",
                 data |-> [resumes |-> tcp[c].half,
                           replies |-> SubSeq(tcp[c].net, 1, n),
                           rest |-> IF splits THEN <<tcp[c].net[n + 1]>> ELSE <<>>]]>>)
        /\ tcp' = [tcp EXCEPT ![c].net = SubSeq(@, n + 1, Len(@)), ![c].half = splits]
  BY DEF TcpRead
<1> DEFINE rest == IF splits THEN <<tcp[c].net[n + 1]>> ELSE <<>>
           read == SubSeq(tcp[c].net, 1, n)
           unread == SubSeq(tcp[c].net, n + 1, Len(tcp[c].net))
           msg == [type |-> "Received",
                   data |-> [resumes |-> tcp[c].half, replies |-> read, rest |-> rest]]
<1>3. n \in Nat /\ n <= Len(tcp[c].net) /\ Len(tcp[c].net) \in Nat
  BY <1>1, <1>2
<1>4. read \in Seq(Reply) /\ unread \in Seq(Reply)
  BY <1>1, <1>3, SubSeqType
<1>5. rest \in Seq(Reply)
  <2>1. splits => tcp[c].net[n + 1] \in Reply
    BY <1>1, <1>2, <1>3
  <2>2. <<>> \in Seq(Reply)
    OBVIOUS
  <2> QED BY <2>1, <2>2
<1>6. lbox' \in Seq(ListenerMessage)
  <2> HIDE DEF read, rest
  <2>1. msg \in ListenerMessage
    BY <1>1, <1>4, <1>5 DEF ListenerMessage, Data
  <2>2. lbox' = AfterTellingListener(lbox, <<msg>>)
    BY <1>2 DEF read, rest
  <2> HIDE DEF msg
  <2>3. <<msg>> \in Seq(ListenerMessage)
    BY <2>1
  <2> QED BY <2>2, <2>3, ListenerBoxType DEF ServerInv
<1>7. tcp' \in [Connections -> TcpType]
  <2>1. tcp' = [tcp EXCEPT ![c] = [tcp[c] EXCEPT !.net = unread, !.half = splits]]
    BY <1>2 DEF ServerInv, TcpTypeOK
  <2> HIDE DEF unread
  <2>2. [tcp[c] EXCEPT !.net = unread, !.half = splits] \in TcpType
    BY <1>1, <1>4 DEF TcpType
  <2> QED BY <2>1, <2>2 DEF ServerInv, TcpTypeOK
<1> QED BY <1>6, <1>7 DEF TcpRead, ServerInv, TcpTypeOK

LEMMA ClosesType ==
    ASSUME ServerInv, NEW c \in Connections, Closes(c)
    PROVE  /\ io' \in [Connections -> IOType] /\ tcp' \in [Connections -> TcpType]
           /\ UNCHANGED <<lbox, executed>>
<1>1. tcp[c] \in TcpType /\ tcp[c].writing \in Seq(Request) /\ tcp[c].wire \in Seq(Request)
  BY DEF ServerInv, TcpTypeOK, TcpType
<1>2. PICK n \in 0..Len(tcp[c].writing) :
         tcp' = [tcp EXCEPT ![c].state = "closed", ![c].abort = FALSE, ![c].net = <<>>,
                            ![c].half = FALSE, ![c].writing = <<>>,
                            ![c].wire = @ \o SubSeq(tcp[c].writing, 1, n)]
  BY DEF Closes
<1> DEFINE wire == tcp[c].wire \o SubSeq(tcp[c].writing, 1, n)
           closed == [tcp[c] EXCEPT !.state = "closed", !.abort = FALSE, !.net = <<>>,
                                    !.half = FALSE, !.writing = <<>>, !.wire = wire]
<1>3. SubSeq(tcp[c].writing, 1, n) \in Seq(Request)
  BY <1>1, <1>2, SubSeqType
<1>4. wire \in Seq(Request)
  BY <1>1, <1>3
<1>5. tcp' = [tcp EXCEPT ![c] = closed]
  BY <1>2 DEF ServerInv, TcpTypeOK
<1> HIDE DEF wire
<1>6. <<>> \in Seq(Request) /\ <<>> \in Seq(Reply)
  OBVIOUS
<1>7. closed \in TcpType
  BY <1>1, <1>4, <1>6 DEF TcpType
<1> HIDE DEF closed
<1>8. tcp' \in [Connections -> TcpType]
  BY <1>5, <1>7 DEF ServerInv, TcpTypeOK
<1>9. io' \in [Connections -> IOType]
  BY TellIOType DEF Closes, IOSignals
<1> QED BY <1>8, <1>9 DEF Closes

LEMMA ExecuteType ==
    ASSUME ServerInv, NEW c \in Connections, ServerExecute(c)
    PROVE  tcp' \in [Connections -> TcpType] /\ executed' \in Seq(Execution)
<1> DEFINE t == tcp[c]
           r == Head(t.wire)
           queues == t.multi /\ r.op # "exec"
           kind == IF queues THEN "queued"
                   ELSE IF r.op \in SessionOps /\ r.value \in Rejected THEN "error"
                   ELSE "ok"
           ids == IF r.op = "exec" THEN Append(t.members, r.id) ELSE <<r.id>>
           net == IF t.state = "open" THEN Append(t.net, [to |-> r.id, kind |-> kind]) ELSE t.net
           session == IF r.op \in SessionOps /\ kind = "ok"
                      THEN [t.settings EXCEPT ![r.op] = r.value] ELSE t.settings
           multi == (t.multi \/ r.op = "multi") /\ r.op # "exec"
           members == IF queues THEN Append(t.members, r.id)
                      ELSE IF r.op = "exec" THEN <<>> ELSE t.members
           quit == r.op = "quit"
           after == [t EXCEPT !.wire = Tail(t.wire), !.net = net, !.settings = session,
                              !.multi = multi, !.members = members, !.quit = quit]
<1>1. tcp' = [tcp EXCEPT ![c] = after]
  BY DEF ServerExecute
<1>2. executed' = executed \/
      executed' = Append(executed, [conn |-> c, ids |-> ids, settings |-> tcp'[c].settings])
  BY DEF ServerExecute
<1>3. /\ t \in TcpType /\ t.wire \in Seq(Request) /\ t.wire # <<>> /\ t.net \in Seq(Reply)
      /\ t.settings \in SettingsType /\ t.members \in Seq(Ids \cup {Internal})
      /\ t.multi \in BOOLEAN
  BY DEF ServerInv, TcpTypeOK, TcpType, ServerExecute
<1>4. r \in Request /\ Tail(t.wire) \in Seq(Request)
  BY <1>3, HeadTailProperties
<1>5. r.id \in Ids \cup {Internal} /\ r.value \in Values
  BY <1>4 DEF Request
<1>6. net \in Seq(Reply)
  <2>1. [to |-> r.id, kind |-> kind] \in Reply
    BY <1>5 DEF Reply
  <2> HIDE DEF kind, r, t
  <2> QED BY <1>3, <2>1
<1>7. session \in SettingsType
  BY <1>3, <1>5 DEF SettingsType
<1>8. members \in Seq(Ids \cup {Internal}) /\ ids \in Seq(Ids \cup {Internal})
  <2>1. <<>> \in Seq(Ids \cup {Internal})
    OBVIOUS
  <2>2. Append(t.members, r.id) \in Seq(Ids \cup {Internal})
    BY <1>3, <1>5
  <2>3. <<r.id>> \in Seq(Ids \cup {Internal})
    BY <1>5
  <2> HIDE DEF r, t, queues
  <2> QED BY <1>3, <2>1, <2>2, <2>3
<1>9. multi \in BOOLEAN /\ quit \in BOOLEAN
  OBVIOUS
<1>10. after \in TcpType
  <2> HIDE DEF t, r, net, session, multi, members, quit
  <2> QED BY <1>3, <1>4, <1>6, <1>7, <1>8, <1>9 DEF TcpType
<1>11. after.settings = session
  <2> HIDE DEF r, net, session, multi, members, quit
  <2> QED BY <1>3 DEF TcpType
<1> HIDE DEF after, ids, session
<1>12. tcp' \in [Connections -> TcpType] /\ tcp'[c].settings \in SettingsType
  BY <1>1, <1>7, <1>10, <1>11 DEF ServerInv, TcpTypeOK
<1> DEFINE entry == [conn |-> c, ids |-> ids, settings |-> tcp'[c].settings]
<1>13. entry \in Execution
  BY <1>8, <1>12 DEF Execution
<1>14. executed' \in Seq(Execution)
  <2> HIDE DEF entry
  <2>1. executed \in Seq(Execution)
    BY DEF ServerInv, TcpTypeOK
  <2>2. executed' = executed \/ executed' = Append(executed, entry)
    BY <1>2 DEF entry
  <2> QED BY <1>13, <2>1, <2>2
<1> QED BY <1>12, <1>14

(* Every step of a connection and of the server.                           *)
LEMMA ServerTypes ==
    ASSUME ServerInv, NEW c \in Connections,
           \/ TcpConnect(c) \/ TcpWrite(c) \/ TcpRead(c) \/ TcpAbort(c) \/ TcpQuit(c)
           \/ ServerExecute(c) \/ ServerSkip(c)
           \/ TcpConnectFail(c) \/ TcpWriteFail(c) \/ TcpDrop(c)
    PROVE  ServerInv'
<1> USE DEF ServerInv, TcpTypeOK
<1>1. tcp[c] \in TcpType /\ tcp[c].wire \in Seq(Request) /\ tcp[c].writing \in Seq(Request)
  BY DEF TcpType
<1>2. <<>> \in Seq(Request)
  OBVIOUS
<1>3. ASSUME NEW kind, Fault(kind) PROVE faults' \in 0..MaxFaults
  BY <1>3, FaultType
<1>4. ASSUME NEW t \in IOSignals, TellIO(c, t) PROVE io' \in [Connections -> IOType]
  BY <1>4, TellIOType
<1>5. ASSUME TcpConnect(c) \/ TcpConnectFail(c) PROVE ServerInv'
  <2>1. io' \in [Connections -> IOType]
    BY <1>4, <1>5 DEF TcpConnect, TcpConnectFail, IOSignals
  <2>2. /\ [tcp[c] EXCEPT !.state = "established"] \in TcpType
        /\ [tcp[c] EXCEPT !.state = "closed"] \in TcpType
    BY <1>1, TcpUpdateTypes
  <2>3. tcp' \in [Connections -> TcpType]
    BY <1>5, <2>2 DEF TcpConnect, TcpConnectFail
  <2>4. faults' \in 0..MaxFaults
    BY <1>3, <1>5 DEF TcpConnect, TcpConnectFail
  <2> QED BY <1>5, <2>1, <2>3, <2>4 DEF TcpConnect, TcpConnectFail
<1>6. ASSUME TcpWrite(c) PROVE ServerInv'
  <2> DEFINE wire == tcp[c].wire \o tcp[c].writing
             written == [tcp[c] EXCEPT !.wire = wire, !.writing = <<>>]
  <2>1. wire \in Seq(Request)
    BY <1>1
  <2>2. tcp' = [tcp EXCEPT ![c] = written]
    BY <1>6 DEF TcpWrite
  <2> HIDE DEF wire
  <2>3. written \in TcpType
    BY <1>1, <1>2, <2>1 DEF TcpType
  <2> HIDE DEF written
  <2>4. io' \in [Connections -> IOType]
    BY <1>4, <1>6 DEF TcpWrite, IOSignals
  <2> QED BY <1>6, <2>2, <2>3, <2>4 DEF TcpWrite
<1>7. ASSUME TcpWriteFail(c) PROVE ServerInv'
  <2>1. io' \in [Connections -> IOType]
    BY <1>4, <1>7 DEF TcpWriteFail, IOSignals
  <2>2. [tcp[c] EXCEPT !.writing = <<>>] \in TcpType
    BY <1>1, <1>2, TcpUpdateTypes
  <2>3. faults' \in 0..MaxFaults
    BY <1>3, <1>7 DEF TcpWriteFail
  <2> QED BY <1>7, <2>1, <2>2, <2>3 DEF TcpWriteFail
<1>8. ASSUME TcpRead(c) PROVE ServerInv'
  BY <1>8, ReadType
<1>9. ASSUME TcpAbort(c) \/ TcpQuit(c) \/ TcpDrop(c) PROVE ServerInv'
  <2>1. Closes(c) /\ faults' \in 0..MaxFaults
    BY <1>3, <1>9 DEF TcpAbort, TcpQuit, TcpDrop
  <2> QED BY <2>1, ClosesType
<1>10. ASSUME ServerExecute(c) PROVE ServerInv'
  BY <1>10, ExecuteType DEF ServerExecute
<1>11. ASSUME ServerSkip(c) PROVE ServerInv'
  <2>1. Tail(tcp[c].wire) \in Seq(Request)
    BY <1>1, <1>11, HeadTailProperties DEF ServerSkip
  <2>2. [tcp[c] EXCEPT !.wire = Tail(tcp[c].wire)] \in TcpType
    BY <1>1, <2>1 DEF TcpType
  <2>3. tcp' = [tcp EXCEPT ![c] = [tcp[c] EXCEPT !.wire = Tail(tcp[c].wire)]]
    BY <1>11 DEF ServerSkip
  <2> QED BY <1>11, <2>2, <2>3 DEF ServerSkip
<1> QED BY <1>5, <1>6, <1>7, <1>8, <1>9, <1>10, <1>11

-----------------------------------------------------------------------------
(* The decoders.                                                           *)

(* Every request of a partition has its reply, so that what it is          *)
(* completed with is an outcome.                                           *)
LEMMA DecodeType ==
    ASSUME LInv, NEW d \in Decoders, DecodePartition(d)
    PROVE  outcome' \in [Ids -> Outcomes] /\ dbox' \in [Decoders -> Seq(DecoderMessage)]
<1> DEFINE p == Head(dbox[d])
           Mine(i) == {k \in DOMAIN p.reqs : p.reqs[k].id = i}
<1>1. dbox[d] \in Seq(DecoderMessage) /\ dbox[d] # <<>> /\ p.type = "Partition"
  BY DEF DecodePartition, LInv, LTypeOK
<1>2. p \in DecoderMessage /\ Tail(dbox[d]) \in Seq(DecoderMessage)
  BY <1>1, HeadTailProperties
<1>3. p \in Partition
  BY <1>1, <1>2 DEF DecoderMessage
<1>4. /\ p.replies \in Seq(Reply) /\ p.reqs \in Seq(Request) /\ p.skip \in Nat
      /\ p.skip + Len(p.reqs) = Len(p.replies)
  BY <1>3 DEF Partition
<1>5. \A k \in DOMAIN p.reqs : p.replies[p.skip + k] \in Reply
  <2> HIDE DEF p
  <2> QED BY <1>4
<1>6. \A r, reply : reply \in Reply => Verdict(r, reply) \in Outcomes
  BY DEF Verdict, Reply, Outcomes
<1>7. outcome' = [i \in Ids |->
            IF outcome[i] = "pending" /\ Mine(i) # {}
            THEN LET k == CHOOSE k \in Mine(i) : TRUE
                 IN Verdict(p.reqs[k], p.replies[p.skip + k])
            ELSE outcome[i]]
  BY DEF DecodePartition
<1>8. \A i \in Ids : Mine(i) # {} =>
        Verdict(p.reqs[CHOOSE k \in Mine(i) : TRUE],
                p.replies[p.skip + (CHOOSE k \in Mine(i) : TRUE)]) \in Outcomes
  <2> TAKE i \in Ids
  <2> HAVE Mine(i) # {}
  <2>1. (CHOOSE k \in Mine(i) : TRUE) \in Mine(i)
    OBVIOUS
  <2>2. (CHOOSE k \in Mine(i) : TRUE) \in DOMAIN p.reqs
    BY <2>1
  <2> QED BY <1>5, <1>6, <2>2
<1>9. outcome' \in [Ids -> Outcomes]
  <2>1. outcome \in [Ids -> Outcomes]
    BY DEF LInv
  <2> HIDE DEF p, Mine
  <2> QED BY <1>7, <1>8, <2>1
<1>10. dbox' \in [Decoders -> Seq(DecoderMessage)]
  BY <1>2 DEF DecodePartition, LInv, LTypeOK
<1> QED BY <1>9, <1>10

LEMMA DecoderType ==
    ASSUME LInv, NEW d \in Decoders, DecodePartition(d) \/ DecoderStop(d),
           UNCHANGED <<listenerVars, io>>
    PROVE  LInv'
<1>1. ASSUME DecodePartition(d) PROVE LInv'
  <2>1. outcome' \in [Ids -> Outcomes] /\ dbox' \in [Decoders -> Seq(DecoderMessage)]
    BY <1>1, DecodeType
  <2> QED BY <1>1, <2>1 DEF DecodePartition, LInv, LTypeOK, listenerVars
<1>2. ASSUME DecoderStop(d) PROVE LInv'
  <2>1. lbox' \in Seq(ListenerMessage)
    BY <1>2, TellType DEF DecoderStop, LInv, LTypeOK, ListenerSignals
  <2>2. <<>> \in Seq(DecoderMessage)
    OBVIOUS
  <2>3. dbox' \in [Decoders -> Seq(DecoderMessage)] /\ deadDecoders' \subseteq Decoders
    BY <1>2, <2>2 DEF DecoderStop, LInv, LTypeOK
  <2> QED BY <1>2, <2>1, <2>3 DEF DecoderStop, LInv, LTypeOK, listenerVars
<1> QED BY <1>1, <1>2

-----------------------------------------------------------------------------
(* The timers.                                                             *)

LEMMA TimerTypes ==
    ASSUME io \in [Connections -> IOType], NEW e \in Connections,
           FireConnectTimeout(e) \/ FireAbortTimeout(e)
    PROVE  io' \in [Connections -> IOType]
<1>1. \A a \in IOType : [a EXCEPT !.connectTimer = FALSE] \in IOType
                          /\ [a EXCEPT !.abortTimer = FALSE] \in IOType
  BY DEF IOType
<1>2. Told(io[e], <<Signal("ConnectTimeout")>>) \in IOType
        /\ Told(io[e], <<Signal("AbortTimeout")>>) \in IOType
  BY ToldSignalType DEF IOSignals
<1>3. ASSUME FireConnectTimeout(e) PROVE io' \in [Connections -> IOType]
  BY <1>1, <1>2, <1>3 DEF FireConnectTimeout
<1>4. ASSUME FireAbortTimeout(e) PROVE io' \in [Connections -> IOType]
  BY <1>1, <1>2, <1>4 DEF FireAbortTimeout
<1> QED BY <1>3, <1>4

-----------------------------------------------------------------------------
(* The users.                                                              *)

(* A thread past the check of isShuttingDown has an item in hand.          *)
AdmittedHasItem == \A t \in Threads : admitted[t] => HasItem(t)

(* The inductive invariant of type correctness.                            *)
TypeInv == TypeOK /\ AdmittedHasItem

LEMMA NextItemType ==
    ASSUME TypeOK, NEW t \in Threads, HasItem(t)
    PROVE  NextItem(t) \in Item
<1>1. Workload[t] \in Seq(Item) /\ sent[t] \in Nat
  BY WorkloadAssumption DEF TypeOK
<1>2. sent[t] + 1 \in 1..Len(Workload[t])
  BY <1>1 DEF HasItem
<1> QED BY <1>1, <1>2 DEF NextItem

LEMMA CheckType ==
    ASSUME TypeInv, NEW t \in Threads, Check(t)
    PROVE  TypeInv'
<1> USE DEF TypeInv
<1>1. CASE closing
  <2>1. outcome' \in [Ids -> Outcomes]
    BY <1>1, CompleteType DEF Check, TypeOK, Outcomes
  <2>2. sent' \in [Threads -> Nat] /\ UNCHANGED <<admitted, closing>>
    BY <1>1 DEF Check, TypeOK
  <2>3. AdmittedHasItem'
    BY <1>1 DEF Check, AdmittedHasItem, HasItem, TypeOK
  <2> QED BY <2>1, <2>2, <2>3 DEF Check, TypeOK, LTypeOK, TcpTypeOK, listenerVars, decoderVars
<1>2. CASE ~closing
  <2>1. closing' \in BOOLEAN /\ admitted' \in [Threads -> BOOLEAN]
    BY <1>2 DEF Check, TypeOK, ClosedBy, HasQuit
  <2>2. AdmittedHasItem'
    BY <1>2 DEF Check, AdmittedHasItem, HasItem, TypeOK
  <2>3. UNCHANGED <<sent, outcome>>
    BY <1>2 DEF Check
  <2> QED BY <2>1, <2>2, <2>3 DEF Check, TypeOK, LTypeOK, TcpTypeOK, listenerVars, decoderVars
<1> QED BY <1>1, <1>2

LEMMA PostType ==
    ASSUME TypeInv, NEW t \in Threads, Post(t)
    PROVE  TypeInv'
<1> USE DEF TypeInv
<1>1. NextItem(t) \in ListenerMessage
  BY NextItemType DEF Post, AdmittedHasItem, ListenerMessage
<1>2. lbox' \in Seq(ListenerMessage)
  <2>1. <<NextItem(t)>> \in Seq(ListenerMessage)
    BY <1>1
  <2> QED BY <2>1, ListenerBoxType DEF Post, TypeOK, LTypeOK
<1>3. sent' \in [Threads -> Nat] /\ admitted' \in [Threads -> BOOLEAN]
  BY DEF Post, TypeOK
<1>4. AdmittedHasItem'
  BY DEF Post, AdmittedHasItem, HasItem, TypeOK
<1> QED BY <1>2, <1>3, <1>4 DEF Post, TypeOK, LTypeOK, TcpTypeOK, listenerVars, decoderVars

LEMMA CompleteTransactionType ==
    ASSUME TypeInv, NEW item, CompleteTransaction(item)
    PROVE  TypeInv'
<1>1. outcome[LastId(item)] \in Outcomes
  BY DEF CompleteTransaction, Outcomes
<1>2. outcome' \in [Ids -> Outcomes]
  BY <1>1, CompleteType DEF CompleteTransaction, TypeInv, TypeOK
<1> QED BY <1>2
     DEF CompleteTransaction, TypeInv, TypeOK, LTypeOK, TcpTypeOK, listenerVars, decoderVars,
         others, clientVars, AdmittedHasItem, HasItem

-----------------------------------------------------------------------------
(* Type correctness.                                                       *)

LEMMA TypeInit == Init => TypeInv
<1> SUFFICES ASSUME Init PROVE TypeInv
  OBVIOUS
<1> USE DEF Init
<1>1. /\ <<>> \in Seq(ListenerMessage) /\ <<>> \in Seq(Reply) /\ <<>> \in Seq(Request)
      /\ <<>> \in Seq(DecoderMessage) /\ <<>> \in Seq(Execution)
      /\ <<>> \in Seq(Ids \cup {Internal})
  OBVIOUS
<1>2. LTypeOK
  <2>1. epoch \in Connections
    BY SharedAssumption DEF LInit, Connections
  <2>2. decodersLeft \in Int
    BY ListenerAssumption, FS_CardinalityType DEF LInit
  <2>3. dbox \in [Decoders -> Seq(DecoderMessage)]
    BY <1>1 DEF LInit
  <2>4. settings \in SettingsType
    BY SharedAssumption DEF LInit
  <2>5. /\ lbox \in Seq(ListenerMessage) /\ remaining \in Seq(Reply)
        /\ queued \in Seq(Request) /\ requests \in Seq(Request)
    BY <1>1 DEF LInit
  <2>6. /\ isConnecting \in BOOLEAN /\ isShuttingDown \in BOOLEAN /\ shutBefore \in BOOLEAN
        /\ timerSet \in BOOLEAN /\ timerRunning \in BOOLEAN
    BY DEF LInit
  <2>7. lstate = "connecting" /\ initCount \in Int /\ deadDecoders \subseteq Decoders
    BY DEF LInit
  <2> QED BY <2>1, <2>2, <2>3, <2>4, <2>5, <2>6, <2>7 DEF LTypeOK
<1>3. Fresh \in TcpType
  <2>1. [op \in SessionOps |-> 0] \in SettingsType
    BY SharedAssumption DEF SettingsType
  <2> QED BY <1>1, <2>1 DEF Fresh, TcpType
<1>4. TcpTypeOK
  BY <1>1, <1>3, FaultAssumption DEF TcpInit, TcpTypeOK
<1>5. io \in [Connections -> IOType]
  BY NewActorTypes DEF LInit
<1>6. outcome \in [Ids -> Outcomes]
  BY DEF Outcomes
<1>7. AdmittedHasItem
  BY DEF AdmittedHasItem
<1> QED BY <1>2, <1>4, <1>5, <1>6, <1>7 DEF TypeInv, TypeOK

LEMMA TypeStep == TypeInv /\ [Next]_vars => TypeInv'
<1> SUFFICES ASSUME TypeInv, [Next]_vars PROVE TypeInv'
  OBVIOUS
<1> USE DEF TypeInv
<1>1. LInv /\ IOInv /\ ServerInv
  BY DEF TypeOK, LInv, IOInv, ServerInv, LTypeOK, TcpTypeOK
<1>2. ASSUME UNCHANGED clientVars PROVE AdmittedHasItem'
  BY <1>2 DEF clientVars, AdmittedHasItem, HasItem
<1>3. ASSUME ListenerStep PROVE TypeInv'
  <2>1. LInv'
    BY <1>1, <1>3, ListenerType DEF ListenerStep
  <2>2. UNCHANGED <<tcp, faults, executed, clientVars>>
    BY <1>3 DEF ListenerStep, others
  <2> QED BY <1>2, <2>1, <2>2 DEF LInv, TypeOK, TcpTypeOK, clientVars
<1>4. ASSUME NEW e \in Connections, IONext(e) \/ IOCrash(e),
             UNCHANGED <<listenerVars, decoderVars, executed, clientVars>>,
             faults' \in 0..MaxFaults
      PROVE  TypeInv'
  <2>1. IOInv'
    BY <1>1, <1>4, IOTypes
  <2> QED BY <1>2, <1>4, <2>1
       DEF IOInv, TypeOK, LTypeOK, TcpTypeOK, listenerVars, decoderVars, clientVars,
           connecting, timer
<1>5. ASSUME NEW e \in Connections, IOStep(e) PROVE TypeInv'
  BY <1>4, <1>5 DEF IOStep, others, TypeOK, TcpTypeOK
<1>6. ASSUME Crash PROVE TypeInv'
  <2>1. faults' \in 0..MaxFaults
    BY <1>1, <1>6, FaultType DEF Crash
  <2> QED BY <1>4, <1>6, <2>1 DEF Crash
<1>7. ASSUME NEW d \in Decoders, DecoderStep(d) PROVE TypeInv'
  <2>1. LInv'
    BY <1>1, <1>7, DecoderType DEF DecoderStep
  <2> QED BY <1>2, <1>7, <2>1 DEF DecoderStep, LInv, TypeOK, TcpTypeOK, others, clientVars
<1>8. ASSUME ServerInv', UNCHANGED user PROVE TypeInv'
  BY <1>2, <1>8 DEF ServerInv, user, TypeOK, LTypeOK, listenerVars, decoderVars, clientVars
<1>9. ASSUME NEW c \in Connections, TcpStep(c) \/ Execute(c) PROVE TypeInv'
  <2>1. ServerInv'
    BY <1>1, <1>9, ServerTypes DEF TcpStep, Execute
  <2> QED BY <1>8, <1>9, <2>1 DEF TcpStep, Execute
<1>10. ASSUME Faulty PROVE TypeInv'
  <2>1. ServerInv'
    BY <1>1, <1>10, ServerTypes DEF Faulty
  <2> QED BY <1>8, <1>10, <2>1 DEF Faulty
<1>11. ASSUME ReceiveTimeoutFires PROVE TypeInv'
  <2>1. lbox' \in Seq(ListenerMessage)
    <3>1. <<Signal("ReceiveTimeout")>> \in Seq(ListenerMessage)
      BY SignalType DEF ListenerSignals
    <3> QED BY <1>11, <3>1, ListenerBoxType
         DEF ReceiveTimeoutFires, FireReceiveTimeout, TypeOK, LTypeOK
  <2>2. faults' \in 0..MaxFaults
    BY <1>1, <1>11, FaultType DEF ReceiveTimeoutFires
  <2> QED BY <1>2, <1>11, <2>1, <2>2
       DEF ReceiveTimeoutFires, FireReceiveTimeout, TypeOK, LTypeOK, TcpTypeOK, clientVars
<1>12. ASSUME NEW e \in Connections, ConnectTimeoutFires(e) \/ AbortTimeoutFires(e)
       PROVE  TypeInv'
  <2>1. FireConnectTimeout(e) \/ FireAbortTimeout(e)
    BY <1>12 DEF ConnectTimeoutFires, AbortTimeoutFires
  <2>2. io' \in [Connections -> IOType]
    BY <2>1, TimerTypes DEF TypeOK
  <2>3. UNCHANGED <<lbox, outcome, tcp, listenerVars, decoderVars, executed, clientVars>>
    BY <1>12 DEF ConnectTimeoutFires, AbortTimeoutFires, FireConnectTimeout,
                 FireAbortTimeout, others
  <2>4. faults' \in 0..MaxFaults
    BY <1>1, <1>12, FaultType DEF ConnectTimeoutFires, AbortTimeoutFires, others, TypeOK, TcpTypeOK
  <2> QED BY <1>2, <2>2, <2>3, <2>4
       DEF TypeOK, LTypeOK, TcpTypeOK, listenerVars, decoderVars, clientVars
<1>13. ASSUME UNCHANGED vars PROVE TypeInv'
  <2>1. UNCHANGED <<lbox, listenerVars, io, dbox, deadDecoders, outcome, tcp, faults, executed,
                    clientVars>>
    BY <1>13 DEF vars
  <2> QED BY <1>2, <2>1 DEF TypeOK, LTypeOK, TcpTypeOK, listenerVars, clientVars
<1> QED
  BY <1>3, <1>5, <1>6, <1>7, <1>9, <1>10, <1>11, <1>12, <1>13, CheckType, PostType,
     CompleteTransactionType DEF Next

(* Whatever the users send, however replies are split and connections are  *)
(* lost, every actor holds only messages and fields of the kinds its       *)
(* handlers know (the MatchErrors a receive block could meet).             *)
THEOREM TypeCorrect == Spec => []TypeOK
<1>1. TypeInv => TypeOK
  BY DEF TypeInv
<1> QED BY <1>1, TypeInit, TypeStep, PTL DEF Spec

-----------------------------------------------------------------------------
(* QUIT.                                                                   *)

(* No item of a mailbox holds a QUIT.                                      *)
Quiet(m) == m.type \in {"Request", "Transaction"} => ~HasQuit(m.reqs)
QuietBox(box) == \A k \in DOMAIN box : Quiet(box[k])

(* Before a QUIT is admitted there is none under way, and nothing is       *)
(* shutting down because of one.                                           *)
NothingQuits ==
    /\ ~isShuttingDown /\ ~shutBefore
    /\ ~HasQuit(queued)
    /\ QuietBox(lbox)
    /\ \A t \in Threads : admitted[t] => ~HasQuit(NextItem(t).reqs)

(* The inductive invariant: the flag of the connection is raised before    *)
(* the QUIT leaves the thread that sends it.                               *)
QuitInv == closing \/ NothingQuits

LEMMA QuietRequests ==
    /\ ~HasQuit(<<>>)
    /\ \A rs, more \in Seq(Request) : ~HasQuit(rs) /\ ~HasQuit(more) => ~HasQuit(rs \o more)
<1>1. ~HasQuit(<<>>)
  BY DEF HasQuit
<1>2. ASSUME NEW rs \in Seq(Request), NEW more \in Seq(Request), ~HasQuit(rs), ~HasQuit(more)
      PROVE  ~HasQuit(rs \o more)
  BY <1>2 DEF HasQuit
<1> QED BY <1>1, <1>2

LEMMA QuietPart ==
    ASSUME NEW rs \in Seq(Request), ~HasQuit(rs),
           NEW m \in Nat \ {0}, NEW n \in Nat, n <= Len(rs)
    PROVE  ~HasQuit(SubSeq(rs, m, n))
<1>1. \A i \in DOMAIN SubSeq(rs, m, n) :
         SubSeq(rs, m, n)[i] = rs[m + i - 1] /\ m + i - 1 \in DOMAIN rs
  BY SubSeqProperties
<1> QED BY <1>1 DEF HasQuit

LEMMA QuietUpToQuit ==
    ASSUME NEW rs \in Seq(Request), ~HasQuit(rs)
    PROVE  ~HasQuit(UpToQuit(rs))
<1> DEFINE n == Cardinality({i \in DOMAIN rs : \A j \in 1..i - 1 : rs[j].op # "quit"})
<1>1. n \in Nat /\ n <= Len(rs)
  BY CutLength
<1> HIDE DEF n
<1>2. ~HasQuit(SubSeq(rs, 1, n))
  BY <1>1, QuietPart
<1> QED BY <1>2 DEF UpToQuit, n

LEMMA QuietInitRequests ==
    ASSUME NEW s \in SettingsType
    PROVE  ~HasQuit(InitRequests(s))
<1>1. \A op \in SessionOps :
          InitRequest(op, s) \in Seq(Request) /\ ~HasQuit(InitRequest(op, s))
  <2> TAKE op \in SessionOps
  <2>1. [id |-> Internal, op |-> op, value |-> s[op]] \in Request
    BY DEF Request, Ops, SettingsType
  <2>2. ~HasQuit(InitRequest(op, s))
    BY DEF InitRequest, HasQuit, SessionOps
  <2> QED BY <2>1, <2>2 DEF InitRequest
<1>2. InitRequest("auth", s) \o InitRequest("select", s) \in Seq(Request)
        /\ ~HasQuit(InitRequest("auth", s) \o InitRequest("select", s))
  <2> "auth" \in SessionOps /\ "select" \in SessionOps
    BY DEF SessionOps
  <2> QED BY <1>1, QuietRequests
<1>3. InitRequest("setName", s) \in Seq(Request) /\ ~HasQuit(InitRequest("setName", s))
  BY <1>1 DEF SessionOps
<1> QED BY <1>2, <1>3, QuietRequests DEF InitRequests

LEMMA QuietTail ==
    ASSUME lbox \in Seq(ListenerMessage), NEW t, Receives(t), QuietBox(lbox)
    PROVE  QuietBox(Tail(lbox)) /\ Quiet(Head(lbox))
<1>1. lbox # <<>>
  BY DEF Receives
<1>2. Quiet(lbox[1]) /\ Head(lbox) = lbox[1]
  BY <1>1 DEF QuietBox
<1>3. \A k \in DOMAIN Tail(lbox) : Tail(lbox)[k] = lbox[k + 1] /\ k + 1 \in DOMAIN lbox
  BY <1>1
<1> QED BY <1>2, <1>3 DEF QuietBox

LEMMA QuietTold ==
    ASSUME lbox \in Seq(ListenerMessage), QuietBox(lbox),
           NEW m \in ListenerMessage, Quiet(m)
    PROVE  QuietBox(AfterTellingListener(lbox, <<m>>))
<1>1. \A k \in DOMAIN (lbox \o <<m>>) :
          (lbox \o <<m>>)[k] = m \/ (k \in DOMAIN lbox /\ (lbox \o <<m>>)[k] = lbox[k])
  OBVIOUS
<1> QED BY <1>1 DEF QuietBox, AfterTellingListener

LEMMA QuietSignal ==
    ASSUME lbox \in Seq(ListenerMessage), QuietBox(lbox), NEW t \in ListenerSignals, Tell(t)
    PROVE  QuietBox(lbox')
<1>1. Signal(t) \in ListenerMessage
  BY SignalType
<1>2. Quiet(Signal(t))
  BY DEF Quiet, Signal, ListenerSignals
<1> QED BY <1>1, <1>2, QuietTold DEF Tell

(* No case of the listener makes a QUIT of its own.                        *)
LEMMA ListenerQuiet ==
    ASSUME TypeInv, NothingQuits, LNext
    PROVE  ~isShuttingDown' /\ ~shutBefore' /\ ~HasQuit(queued') /\ QuietBox(lbox')
<1> DEFINE Goal == ~isShuttingDown' /\ ~shutBefore' /\ ~HasQuit(queued') /\ QuietBox(lbox')
<1>1. /\ lbox \in Seq(ListenerMessage) /\ queued \in Seq(Request) /\ requests \in Seq(Request)
      /\ settings \in SettingsType
  BY DEF TypeInv, TypeOK, LTypeOK
<1>2. ~isShuttingDown /\ ~shutBefore /\ ~HasQuit(queued) /\ QuietBox(lbox)
  BY DEF NothingQuits
<1>3. ASSUME NEW t, Receives(t), Consume PROVE QuietBox(lbox')
  BY <1>1, <1>2, <1>3, QuietTail DEF Consume
<1>4. ASSUME IsItem
      PROVE  Handed \in Seq(Request) /\ Len(Handed) >= 1 /\ ~HasQuit(Handed)
  <2>1. Handed \in Seq(Request) /\ Len(Handed) >= 1
    BY <1>1, <1>4, HandedType
  <2>2. Quiet(Head(lbox)) /\ Head(lbox).type \in {"Request", "Transaction"}
    BY <1>1, <1>2, <1>4, QuietTail DEF IsItem, Receives
  <2> QED BY <2>1, <2>2 DEF Quiet, Handed
<1>5. ASSUME IsItem, Consume PROVE QuietBox(lbox')
  BY <1>3, <1>5 DEF IsItem
<1>6. ASSUME NEW before, NEW set, SendAllQueued(before, set)
      PROVE  ~isShuttingDown' /\ ~HasQuit(queued')
  BY <1>2, <1>6, QuietRequests DEF SendAllQueued, Send
<1>7. ASSUME FailItem PROVE Goal
  BY <1>2, <1>5, <1>7 DEF FailItem, listenerVars
<1>8. ASSUME QueueItem \/ ItemWhileConnecting PROVE Goal
  <2>1. ~HasQuit(Enqueued)
    <3>1. IsItem
      BY <1>8 DEF QueueItem, ItemWhileConnecting
    <3> QED BY <1>1, <1>2, <1>4, <3>1, QuietRequests DEF Enqueued
  <2> QED BY <1>2, <1>5, <1>8, <2>1 DEF QueueItem, ItemWhileConnecting, connecting
<1>9. ASSUME SendItem PROVE Goal
  <2> DEFINE members == SubSeq(Handed, 2, Len(Handed) - 1)
             both == <<Handed[1]>> \o UpToQuit(members) \o <<Handed[Len(Handed)]>>
             handed == IF Len(Handed) = 1 THEN Handed ELSE both
  <2>1. Handed \in Seq(Request) /\ Len(Handed) \in Nat /\ Len(Handed) >= 1 /\ ~HasQuit(Handed)
    BY <1>4, <1>9 DEF SendItem
  <2>2. members \in Seq(Request) /\ ~HasQuit(members)
    BY <2>1, SubSeqType, QuietPart
  <2>3. UpToQuit(members) \in Seq(Request) /\ ~HasQuit(UpToQuit(members))
    <3> HIDE DEF members
    <3> QED BY <2>2, CutType, QuietUpToQuit
  <2>4. /\ <<Handed[1]>> \in Seq(Request) /\ ~HasQuit(<<Handed[1]>>)
        /\ <<Handed[Len(Handed)]>> \in Seq(Request) /\ ~HasQuit(<<Handed[Len(Handed)]>>)
    BY <2>1 DEF HasQuit
  <2>5. ~HasQuit(handed)
    <3> DEFINE up == UpToQuit(members)
               first == <<Handed[1]>>
               last == <<Handed[Len(Handed)]>>
    <3> HIDE DEF up, first, last
    <3>1. first \in Seq(Request) /\ up \in Seq(Request) /\ last \in Seq(Request)
      BY <2>3, <2>4 DEF up, first, last
    <3>2. ~HasQuit(first) /\ ~HasQuit(up) /\ ~HasQuit(last)
      BY <2>3, <2>4 DEF up, first, last
    <3>3. first \o up \in Seq(Request) /\ ~HasQuit(first \o up)
      BY <3>1, <3>2, QuietRequests
    <3>4. ~HasQuit(first \o up \o last)
      BY <3>1, <3>2, <3>3, QuietRequests
    <3>5. ~HasQuit(both)
      BY <3>4 DEF up, first, last
    <3> HIDE DEF both
    <3> QED BY <2>1, <3>5
  <2>6. Send(handed, requests, queued, timerSet) /\ UNCHANGED shutBefore
    BY <1>9 DEF SendItem, connecting
  <2> HIDE DEF handed
  <2>7. ~isShuttingDown' /\ ~HasQuit(queued')
    BY <1>2, <2>5, <2>6 DEF Send
  <2> QED BY <1>2, <1>5, <1>9, <2>6, <2>7 DEF SendItem
<1>10. ~QuitWhileConnecting
  <2> SUFFICES ASSUME QuitWhileConnecting PROVE FALSE
    OBVIOUS
  <2>1. IsItem /\ Handed[1].op = "quit"
    BY DEF QuitWhileConnecting, IsItem
  <2>2. Handed \in Seq(Request) /\ Len(Handed) >= 1 /\ ~HasQuit(Handed)
    BY <1>4, <2>1
  <2>3. 1 \in DOMAIN Handed
    BY <2>2
  <2> QED BY <2>1, <2>2, <2>3 DEF HasQuit
<1>11. ASSUME OnConnected PROVE Goal
  <2>1. QuietBox(lbox') /\ UNCHANGED shutBefore
    BY <1>3, <1>11 DEF OnConnected
  <2>2. ~isShuttingDown' /\ ~HasQuit(queued')
    <3>1. CASE InitRequests(settings) # <<>>
      <4>1. Send(InitRequests(settings), requests, queued, timerSet)
        BY <1>11, <3>1 DEF OnConnected
      <4> QED BY <1>1, <1>2, <4>1, QuietInitRequests DEF Send
    <3>2. CASE InitRequests(settings) = <<>>
      BY <1>6, <1>11, <3>2 DEF OnConnected
    <3> QED BY <3>1, <3>2
  <2> QED BY <1>2, <2>1, <2>2
<1>12. ASSUME ReceiveInitializing PROVE Goal
  <2>1. QuietBox(lbox') /\ UNCHANGED shutBefore
    BY <1>3, <1>12 DEF ReceiveInitializing, connecting
  <2>2. ~isShuttingDown' /\ ~HasQuit(queued')
    <3>1. CASE initCount' = 0
      BY <1>6, <1>12, <3>1 DEF ReceiveInitializing
    <3>2. CASE initCount' # 0
      BY <1>2, <1>12, <3>2 DEF ReceiveInitializing
    <3> QED BY <3>1, <3>2
  <2> QED BY <1>2, <2>1, <2>2
<1>13. ASSUME OnConnectedAfterQuit \/ Receive \/ HandleReceiveTimeout \/ OnRemove
              \/ TerminatedConnected \/ TerminatedShuttingDown \/ Ignore
       PROVE  Goal
  <2>1. QuietBox(lbox')
    BY <1>3, <1>13 DEF OnConnectedAfterQuit, Receive, HandleReceiveTimeout, OnRemove,
         TerminatedConnected, TerminatedShuttingDown, Ignore, Ignored
  <2>2. UNCHANGED <<isShuttingDown, shutBefore, queued>>
    BY <1>13 DEF OnConnectedAfterQuit, Receive, HandleReceiveTimeout, OnRemove,
         TerminatedConnected, TerminatedShuttingDown, Ignore, connecting, sending, listenerVars
  <2> QED BY <1>2, <2>1, <2>2
<1>14. ASSUME OnAbort \/ OnShutdown PROVE Goal
  <2>1. QuietBox(lbox') /\ UNCHANGED <<isShuttingDown, shutBefore, queued>>
    BY <1>3, <1>14 DEF OnAbort, OnShutdown, Acknowledge, connecting, sending
  <2> QED BY <1>2, <2>1
<1>15. ASSUME TerminatedConnecting \/ TerminatedInitializing PROVE Goal
  BY <1>2, <1>3, <1>15, QuietRequests DEF TerminatedConnecting, TerminatedInitializing, FailQueued
<1>16. ASSUME TerminatedAwaitingDecoders PROVE Goal
  <2>1. QuietBox(<<>>)
    BY DEF QuietBox
  <2>2. QuietBox(lbox')
    BY <1>3, <1>16, <2>1 DEF TerminatedAwaitingDecoders
  <2> QED BY <1>2, <1>16, <2>2 DEF TerminatedAwaitingDecoders, sending
<1> QED
  BY <1>7, <1>8, <1>9, <1>10, <1>11, <1>12, <1>13, <1>14, <1>15, <1>16 DEF LNext


LEMMA QuitInvUnchanged ==
    ASSUME QuitInv, UNCHANGED clientVars,
           NothingQuits => /\ UNCHANGED <<isShuttingDown, shutBefore, queued>>
                           /\ QuietBox(lbox')
    PROVE  QuitInv'
<1>1. UNCHANGED <<admitted, sent, closing>>
  BY DEF clientVars
<1>2. CASE closing
  BY <1>1, <1>2 DEF QuitInv
<1>3. CASE ~closing
  <2>1. NothingQuits
    BY <1>3 DEF QuitInv
  <2>2. \A t \in Threads : NextItem(t)' = NextItem(t)
    BY <1>1 DEF NextItem
  <2> QED BY <1>1, <2>1, <2>2 DEF QuitInv, NothingQuits
<1> QED BY <1>2, <1>3

LEMMA QuitStep == TypeInv /\ QuitInv /\ [Next]_vars => QuitInv'
<1> SUFFICES ASSUME TypeInv, QuitInv, [Next]_vars PROVE QuitInv'
  OBVIOUS
<1>1. lbox \in Seq(ListenerMessage)
  BY DEF TypeInv, TypeOK, LTypeOK
<1>2. ASSUME NEW t \in ListenerSignals, Tell(t), NothingQuits PROVE QuietBox(lbox')
  BY <1>1, <1>2, QuietSignal DEF NothingQuits
<1>3. ASSUME UNCHANGED lbox, NothingQuits PROVE QuietBox(lbox')
  BY <1>3 DEF NothingQuits
<1>4. ASSUME UNCHANGED listenerVars
      PROVE  UNCHANGED <<isShuttingDown, shutBefore, queued>>
  BY <1>4 DEF listenerVars
<1>5. ASSUME NEW t \in Threads, Check(t) PROVE QuitInv'
  <2>1. UNCHANGED <<lbox, sent>> \/ closing
    BY <1>5 DEF Check
  <2>2. CASE closing
    BY <1>5, <2>2 DEF Check, QuitInv
  <2>3. CASE ~closing
    <3>1. NothingQuits
      BY <2>3 DEF QuitInv
    <3>2. /\ UNCHANGED <<lbox, sent, isShuttingDown, shutBefore, queued>>
          /\ admitted' = [admitted EXCEPT ![t] = TRUE]
          /\ closing' = HasQuit(NextItem(t).reqs)
      BY <1>5, <2>3 DEF Check, ClosedBy, listenerVars
    <3>3. \A u \in Threads : NextItem(u)' = NextItem(u)
      BY <3>2 DEF NextItem
    <3>4. \A u \in Threads : admitted'[u] => admitted[u] \/ u = t
      BY <3>2 DEF TypeInv, TypeOK
    <3>5. CASE closing'
      BY <3>5 DEF QuitInv
    <3>6. CASE ~closing'
      BY <3>1, <3>2, <3>3, <3>4, <3>6 DEF QuitInv, NothingQuits
    <3> QED BY <3>5, <3>6
  <2> QED BY <2>2, <2>3
<1>6. ASSUME NEW t \in Threads, Post(t) PROVE QuitInv'
  <2>1. CASE closing
    BY <1>6, <2>1 DEF Post, QuitInv
  <2>2. CASE ~closing
    <3>1. NothingQuits
      BY <2>2 DEF QuitInv
    <3>2. NextItem(t) \in ListenerMessage
      BY <1>6, NextItemType DEF Post, TypeInv, AdmittedHasItem, ListenerMessage
    <3>3. Quiet(NextItem(t))
      BY <1>6, <3>1 DEF Post, NothingQuits, Quiet
    <3>4. QuietBox(lbox')
      BY <1>1, <1>6, <3>1, <3>2, <3>3, QuietTold DEF Post, NothingQuits
    <3>5. \A u \in Threads : admitted'[u] => admitted[u] /\ NextItem(u)' = NextItem(u)
      BY <1>6 DEF Post, NextItem, TypeInv, TypeOK
    <3> QED BY <1>4, <1>6, <3>1, <3>4, <3>5 DEF Post, QuitInv, NothingQuits
  <2> QED BY <2>1, <2>2
<1>7. ASSUME NEW item, CompleteTransaction(item) PROVE QuitInv'
  BY <1>3, <1>4, <1>7, QuitInvUnchanged DEF CompleteTransaction, others
<1>8. ASSUME ListenerStep PROVE QuitInv'
  <2>1. UNCHANGED <<admitted, sent, closing>>
    BY <1>8 DEF ListenerStep, others, clientVars
  <2>2. CASE closing
    BY <2>1, <2>2 DEF QuitInv
  <2>3. CASE ~closing
    <3>1. NothingQuits
      BY <2>3 DEF QuitInv
    <3>2. ~isShuttingDown' /\ ~shutBefore' /\ ~HasQuit(queued') /\ QuietBox(lbox')
      BY <1>8, <3>1, ListenerQuiet DEF ListenerStep
    <3>3. \A t \in Threads : NextItem(t)' = NextItem(t)
      BY <2>1 DEF NextItem
    <3> QED BY <2>1, <3>1, <3>2, <3>3 DEF QuitInv, NothingQuits
  <2> QED BY <2>2, <2>3
<1>9. ASSUME NEW e \in Connections, IONext(e) \/ IOCrash(e),
             UNCHANGED listenerVars, UNCHANGED clientVars
      PROVE  QuitInv'
  <2>1. UNCHANGED lbox \/ \E t \in ListenerSignals : Tell(t)
    BY <1>9 DEF IONext, IOConnected, IOConnectFailed, IORequest, IOWriteAck, IOWriteFailed,
         IOShutdown, IOTerminated, IORejectRequest, IOShutdownAck, IOAbortAck, IOAborted,
         IOAbortTimeout, IOIgnore, IOCrash, IOStop, WritesNext, ListenerSignals
  <2> QED BY <1>2, <1>3, <1>4, <1>9, <2>1, QuitInvUnchanged
<1>10. ASSUME NEW e \in Connections, IOStep(e) PROVE QuitInv'
  BY <1>9, <1>10 DEF IOStep, others
<1>11. ASSUME Crash PROVE QuitInv'
  BY <1>9, <1>11 DEF Crash
<1>12. ASSUME NEW d \in Decoders, DecoderStep(d) PROVE QuitInv'
  <2>1. UNCHANGED lbox \/ Tell("Terminated")
    BY <1>12 DEF DecoderStep, DecodePartition, DecoderStop
  <2>2. UNCHANGED listenerVars /\ UNCHANGED clientVars
    BY <1>12 DEF DecoderStep, others
  <2> QED BY <1>2, <1>3, <1>4, <2>1, <2>2, QuitInvUnchanged DEF ListenerSignals
<1>13. ASSUME NEW c \in Connections, TcpRead(c), NothingQuits PROVE QuietBox(lbox')
  <2>1. \E data : lbox' = AfterTellingListener(lbox, <<[type |-> "Received", data |-> data]>>)
    BY <1>13 DEF TcpRead
  <2>2. PICK data : lbox' = AfterTellingListener(lbox, <<[type |-> "Received", data |-> data]>>)
    BY <2>1
  <2> DEFINE m == [type |-> "Received", data |-> data]
  <2>3. Quiet(m)
    BY DEF Quiet
  <2> HIDE DEF m
  <2>4. \A k \in DOMAIN (lbox \o <<m>>) :
            (lbox \o <<m>>)[k] = m \/ (k \in DOMAIN lbox /\ (lbox \o <<m>>)[k] = lbox[k])
    BY <1>1
  <2>5. lbox' = lbox \/ lbox' = lbox \o <<m>>
    BY <2>2 DEF AfterTellingListener, m
  <2> QED BY <1>13, <2>3, <2>4, <2>5 DEF NothingQuits, QuietBox
<1>14. ASSUME NEW c \in Connections, TcpStep(c) \/ Execute(c) PROVE QuitInv'
  <2>1. NothingQuits => QuietBox(lbox')
    BY <1>3, <1>13, <1>14 DEF TcpStep, TcpConnect, TcpWrite, TcpAbort, TcpQuit, Closes,
         Execute, ServerExecute, ServerSkip
  <2>2. UNCHANGED listenerVars /\ UNCHANGED clientVars
    BY <1>14 DEF TcpStep, Execute, user
  <2> QED BY <1>4, <2>1, <2>2, QuitInvUnchanged
<1>15. ASSUME Faulty PROVE QuitInv'
  <2>1. UNCHANGED lbox /\ UNCHANGED listenerVars /\ UNCHANGED clientVars
    BY <1>15 DEF Faulty, TcpConnectFail, TcpWriteFail, TcpDrop, Closes, user
  <2> QED BY <1>3, <1>4, <2>1, QuitInvUnchanged
<1>16. ASSUME ReceiveTimeoutFires PROVE QuitInv'
  <2>1. NothingQuits => QuietBox(lbox')
    <3>1. Tell("ReceiveTimeout")
      BY <1>16 DEF ReceiveTimeoutFires, FireReceiveTimeout, Tell
    <3> QED BY <1>2, <3>1 DEF ListenerSignals
  <2>2. UNCHANGED <<isShuttingDown, shutBefore, queued>> /\ UNCHANGED clientVars
    BY <1>16 DEF ReceiveTimeoutFires, FireReceiveTimeout
  <2> QED BY <2>1, <2>2, QuitInvUnchanged
<1>17. ASSUME NEW e \in Connections, ConnectTimeoutFires(e) \/ AbortTimeoutFires(e)
       PROVE  QuitInv'
  <2>1. UNCHANGED lbox /\ UNCHANGED listenerVars /\ UNCHANGED clientVars
    BY <1>17 DEF ConnectTimeoutFires, AbortTimeoutFires, FireConnectTimeout, FireAbortTimeout,
                 others
  <2> QED BY <1>3, <1>4, <2>1, QuitInvUnchanged
<1>18. ASSUME UNCHANGED vars PROVE QuitInv'
  <2>1. UNCHANGED lbox /\ UNCHANGED listenerVars /\ UNCHANGED clientVars
    BY <1>18 DEF vars
  <2> QED BY <1>3, <1>4, <2>1, QuitInvUnchanged
<1> QED
  BY <1>5, <1>6, <1>7, <1>8, <1>10, <1>11, <1>12, <1>14, <1>15, <1>16, <1>17, <1>18 DEF Next

(* Whichever thread sends QUIT and however the mailbox delays it, the      *)
(* listener shuts down only once updateState of AbstractAkkaConnection has *)
(* made the connection refuse what is sent next.                           *)
THEOREM ShutdownIsRefused == Spec => []RefusesBeforeShuttingDown
<1>1. Init => QuitInv
  BY DEF Init, LInit, QuitInv, NothingQuits, QuietBox, HasQuit
<1>2. QuitInv => RefusesBeforeShuttingDown
  BY DEF QuitInv, NothingQuits, RefusesBeforeShuttingDown
<1> QED BY <1>1, <1>2, TypeInit, TypeStep, QuitStep, PTL DEF Spec

-----------------------------------------------------------------------------
(* After QUIT.                                                             *)

(* The receive timeout is what makes a listener that is shutting down      *)
(* connect again: where it is not defined, or never fires, it does not.    *)
NeverTimesOut == ~ReceiveTimeoutDefined \/ "receive" \notin FaultKinds

Down == {"awaitingDecodersShutdown", "stopped"}
Inert == {NoIOActor, Stopped}
EndTypes == {"Connected", "Remove", "Abort", "Shutdown", "Terminated"}
NoneOf(box, types) == \A k \in DOMAIN box : box[k].type \notin types

(* Then nobody aborts a connection.                                        *)
NobodyAborts ==
    NeverTimesOut =>
      /\ ~ReceiveTimeoutDefined => ~timerRunning
      /\ NoneOf(lbox, {"ReceiveTimeout", "Abort"})
      /\ \A e \in Connections : NoneOf(io[e].box, {"Shutdown"})

(* What the two flags of QUIT say of the behaviour of the listener.        *)
QuitStates ==
    /\ shutBefore => lstate \in {"connecting", "reconnecting"} \cup Down
    /\ NeverTimesOut /\ isShuttingDown =>
         ~shutBefore /\ lstate \in {"shuttingDown"} \cup Down

(* What an IOActor tells the listener: EndTypes.  A Terminated of the      *)
(* mailbox is the last thing it has to say.                                *)
OneEnd(box, actor) ==
    \A k \in DOMAIN box : box[k].type = "Terminated" =>
        actor = Stopped /\ \A l \in DOMAIN box : l > k => box[l].type \notin EndTypes

(* At most one IOActor is alive, and none in `connecting` that does not    *)
(* wait for one; decoders are not stopped yet.                             *)
OneLives ==
    /\ \A d \in Decoders : NoneOf(dbox[d], {"PoisonPill"})
    /\ \A e \in Connections : (e > epoch => io[e] = NoIOActor) /\ (e < epoch => io[e] = Stopped)
    /\ OneEnd(lbox, io[epoch])
    /\ lstate = "connecting" => isConnecting \/ (io[epoch] = Stopped /\ NoneOf(lbox, EndTypes))

(* Nobody is left that could call the listener back.                       *)
NoneLives ==
    /\ \A e \in Connections : io[e] \in Inert
    /\ NoneOf(lbox, EndTypes \ {"Terminated"})

(* The inductive invariant.  After a QUIT that comes before the connection *)
(* (shutBefore) all may happen: it is not this flag the property is about. *)
LifeInv ==
    /\ NobodyAborts /\ QuitStates
    /\ ~shutBefore /\ lstate \notin Down => OneLives
    /\ ~shutBefore /\ lstate \in Down => NoneLives

LEMMA NoneOfTail ==
    ASSUME NEW S, NEW box \in Seq(S), box # <<>>, NEW types, NoneOf(box, types)
    PROVE  NoneOf(Tail(box), types)
<1>1. \A k \in DOMAIN Tail(box) : Tail(box)[k] = box[k + 1] /\ k + 1 \in DOMAIN box
  OBVIOUS
<1> QED BY <1>1 DEF NoneOf

LEMMA NoneOfConcat ==
    ASSUME NEW S, NEW box \in Seq(S), NEW ms \in Seq(S), NEW types,
           NoneOf(box, types), NoneOf(ms, types)
    PROVE  NoneOf(box \o ms, types)
<1>1. \A k \in DOMAIN (box \o ms) :
         \/ k \in DOMAIN box /\ (box \o ms)[k] = box[k]
         \/ k - Len(box) \in DOMAIN ms /\ (box \o ms)[k] = ms[k - Len(box)]
  OBVIOUS
<1> QED BY <1>1 DEF NoneOf

LEMMA OneEndTail ==
    ASSUME NEW S, NEW box \in Seq(S), box # <<>>, NEW actor, OneEnd(box, actor)
    PROVE  /\ OneEnd(Tail(box), actor)
           /\ Head(box).type = "Terminated" => actor = Stopped /\ NoneOf(Tail(box), EndTypes)
<1>1. /\ \A k \in DOMAIN Tail(box) : Tail(box)[k] = box[k + 1] /\ k + 1 \in DOMAIN box /\ k + 1 > 1
      /\ \A k, l \in DOMAIN Tail(box) : l > k => l + 1 > k + 1
      /\ Head(box) = box[1] /\ 1 \in DOMAIN box
  OBVIOUS
<1>2. OneEnd(Tail(box), actor)
  BY <1>1 DEF OneEnd
<1>3. Head(box).type = "Terminated" => actor = Stopped /\ NoneOf(Tail(box), EndTypes)
  BY <1>1 DEF OneEnd, NoneOf
<1> QED BY <1>2, <1>3

LEMMA OneEndAdded ==
    ASSUME NEW S, NEW box \in Seq(S), NEW m \in S, NEW actor, NEW next,
           OneEnd(box, actor), actor = Stopped => next = Stopped,
           m.type \in EndTypes => actor # Stopped,
           m.type = "Terminated" => next = Stopped
    PROVE  OneEnd(box \o <<m>>, next)
<1> DEFINE more == box \o <<m>>
<1>1. /\ \A k \in DOMAIN more : \/ k \in DOMAIN box /\ more[k] = box[k]
                                \/ k = Len(box) + 1 /\ more[k] = m
      /\ \A k, l \in DOMAIN more : k = Len(box) + 1 => ~(l > k)
  OBVIOUS
<1> HIDE DEF more
<1>2. ASSUME NEW k \in DOMAIN more, more[k].type = "Terminated"
      PROVE  next = Stopped /\ \A l \in DOMAIN more : l > k => more[l].type \notin EndTypes
  <2>1. CASE k \in DOMAIN box /\ more[k] = box[k]
    <3>1. actor = Stopped /\ \A l \in DOMAIN box : l > k => box[l].type \notin EndTypes
      BY <1>2, <2>1 DEF OneEnd
    <3>2. m.type \notin EndTypes
      BY <3>1
    <3> QED BY <1>1, <3>1, <3>2
  <2>2. CASE k = Len(box) + 1 /\ more[k] = m
    BY <1>1, <1>2, <2>2
  <2> QED BY <1>1, <1>2, <2>1, <2>2
<1>3. OneEnd(more, next)
  BY <1>2 DEF OneEnd
<1> QED BY <1>3 DEF more

LEMMA NoEnd ==
    ASSUME NEW box, NEW actor, NoneOf(box, EndTypes)
    PROVE  OneEnd(box, actor)
BY DEF NoneOf, OneEnd, EndTypes

LEMMA InertActors ==
    /\ NoIOActor # Stopped
    /\ NoIOActor.state = "none" /\ NoIOActor.box = <<>> /\ ~NoIOActor.connectTimer /\ ~NoIOActor.abortTimer
    /\ Stopped.state = "stopped" /\ Stopped.box = <<>>
    /\ NewIOActor.box = <<>>
    /\ \A ms : Told(NoIOActor, ms) = NoIOActor /\ Told(Stopped, ms) = Stopped
<1>1. /\ NoIOActor.state = "none" /\ NoIOActor.box = <<>> /\ ~NoIOActor.connectTimer
      /\ ~NoIOActor.abortTimer
      /\ Stopped.state = "stopped" /\ Stopped.box = <<>> /\ NewIOActor.box = <<>>
  BY DEF NoIOActor, Stopped, NewIOActor
<1> QED BY <1>1 DEF Told

LEMMA ToldKeeps ==
    ASSUME NEW actor \in IOType, NEW ms \in Seq(IOMessage),
           NoneOf(actor.box, {"Shutdown"}), NoneOf(ms, {"Shutdown"})
    PROVE  /\ NoneOf(Told(actor, ms).box, {"Shutdown"})
           /\ actor \in Inert => Told(actor, ms) = actor
<1>1. actor.box \in Seq(IOMessage) /\ NoneOf(actor.box \o ms, {"Shutdown"})
  BY NoneOfConcat DEF IOType
<1>2. [actor EXCEPT !.box = @ \o ms].box = actor.box \o ms
  BY DEF IOType
<1> QED BY <1>1, <1>2, InertActors DEF Told, Inert

LEMMA ToldSignalKeeps ==
    ASSUME NEW actor \in IOType, NoneOf(actor.box, {"Shutdown"}),
           NEW t \in IOSignals \ {"Shutdown"}
    PROVE  /\ NoneOf(Told(actor, <<Signal(t)>>).box, {"Shutdown"})
           /\ actor \in Inert => Told(actor, <<Signal(t)>>) = actor
<1>1. <<Signal(t)>> \in Seq(IOMessage)
  BY SignalType
<1>2. NoneOf(<<Signal(t)>>, {"Shutdown"})
  BY DEF NoneOf, Signal
<1> QED BY <1>1, <1>2, ToldKeeps

(* A message that does not abort, and that an IOActor sends as its last.   *)
LEMMA LifeGoesOn ==
    ASSUME TypeInv, LifeInv, UNCHANGED listenerVars, UNCHANGED dbox,
           NEW e \in Connections, NEW next,
           io' = [io EXCEPT ![e] = next],
           io[e] \in Inert => next = io[e],
           NeverTimesOut => NoneOf(next.box, {"Shutdown"}),
           \/ UNCHANGED lbox
           \/ \E m :
                /\ lbox' = AfterTellingListener(lbox, <<m>>)
                /\ NeverTimesOut => m.type \notin {"ReceiveTimeout", "Abort"}
                /\ m.type \in EndTypes => io[e] \notin Inert
                /\ m.type = "Terminated" => next = Stopped
    PROVE  LifeInv'
<1>1. /\ UNCHANGED <<lstate, epoch, isConnecting, isShuttingDown, shutBefore, timerRunning>>
      /\ lbox \in Seq(ListenerMessage) /\ io \in [Connections -> IOType] /\ epoch \in Connections
      /\ \A c \in Connections : io'[c] = IF c = e THEN next ELSE io[c]
  BY DEF listenerVars, TypeInv, TypeOK, LTypeOK
<1>2. \A c \in Connections : io[c] \in Inert => io'[c] = io[c]
  BY <1>1
<1>3. PICK m :
         \/ lbox' = lbox
         \/ /\ lbox' = lbox \o <<m>>
            /\ NeverTimesOut => m.type \notin {"ReceiveTimeout", "Abort"}
            /\ m.type \in EndTypes => io[e] \notin Inert
            /\ m.type = "Terminated" => next = Stopped
  BY DEF AfterTellingListener
<1>m. lbox \in Seq(ListenerMessage \cup {m}) /\ <<m>> \in Seq(ListenerMessage \cup {m})
  BY <1>1
<1>4. ASSUME NEW types, m.type \notin types, NoneOf(lbox, types) PROVE NoneOf(lbox', types)
  <2>1. NoneOf(<<m>>, types)
    BY <1>4 DEF NoneOf
  <2>2. NoneOf(lbox \o <<m>>, types)
    BY <1>m, <1>4, <2>1, NoneOfConcat
  <2> QED BY <1>3, <1>4, <2>2
<1>5. NobodyAborts'
  <2>1. NeverTimesOut => NoneOf(lbox', {"ReceiveTimeout", "Abort"})
    BY <1>3, <1>4 DEF LifeInv, NobodyAborts
  <2>2. NeverTimesOut => \A c \in Connections : NoneOf(io'[c].box, {"Shutdown"})
    BY <1>1 DEF LifeInv, NobodyAborts
  <2> QED BY <1>1, <2>1, <2>2 DEF LifeInv, NobodyAborts
<1>6. QuitStates'
  BY <1>1 DEF LifeInv, QuitStates
<1>7. ASSUME ~shutBefore', lstate' \notin Down PROVE OneLives'
  <2>1. OneLives
    BY <1>1, <1>7 DEF LifeInv
  <2>2. \A d \in Decoders : NoneOf(dbox'[d], {"PoisonPill"})
    BY <2>1 DEF OneLives
  <2>3. \A c \in Connections : /\ c > epoch' => io'[c] = NoIOActor
                               /\ c < epoch' => io'[c] = Stopped
    BY <1>1, <1>2, <2>1 DEF OneLives, Inert
  <2>4. io[e] \notin Inert => e = epoch
    BY <2>1, <1>1 DEF OneLives, Inert, Connections
  <2>5. io[epoch] = Stopped => io'[epoch] = Stopped
    BY <1>1, <1>2 DEF Inert
  <2>6. OneEnd(lbox', io'[epoch'])
    <3>1. CASE lbox' = lbox
      BY <1>1, <2>1, <2>5, <3>1 DEF OneLives, OneEnd
    <3>2. CASE lbox' # lbox
      <4>1. /\ m.type \in EndTypes => io[epoch] # Stopped
            /\ m.type = "Terminated" => io'[epoch] = Stopped
        BY <1>1, <1>3, <2>4, <3>2 DEF Inert, EndTypes
      <4>2. OneEnd(lbox \o <<m>>, io'[epoch])
        BY <1>m, <2>1, <2>5, <4>1, OneEndAdded DEF OneLives
      <4> QED BY <1>1, <1>3, <3>2, <4>2
    <3> QED BY <3>1, <3>2
  <2>7. lstate' = "connecting" => \/ isConnecting'
                                  \/ io'[epoch'] = Stopped /\ NoneOf(lbox', EndTypes)
    <3>1. SUFFICES ASSUME lstate' = "connecting", ~isConnecting'
                   PROVE  io'[epoch'] = Stopped /\ NoneOf(lbox', EndTypes)
      OBVIOUS
    <3>2. io[epoch] = Stopped /\ NoneOf(lbox, EndTypes)
      BY <1>1, <2>1, <3>1 DEF OneLives
    <3>3. lbox' = lbox \/ m.type \notin EndTypes
      BY <1>3, <2>4, <3>2 DEF Inert
    <3>4. NoneOf(lbox', EndTypes)
      BY <1>4, <3>2, <3>3
    <3> QED BY <1>1, <2>5, <3>2, <3>4
  <2> QED BY <2>2, <2>3, <2>6, <2>7 DEF OneLives
<1>8. ASSUME ~shutBefore', lstate' \in Down PROVE NoneLives'
  <2>1. NoneLives
    BY <1>1, <1>8 DEF LifeInv
  <2>2. \A c \in Connections : io'[c] \in Inert
    BY <1>2, <2>1 DEF NoneLives
  <2>3. lbox' = lbox \/ m.type \notin EndTypes \ {"Terminated"}
    BY <1>3, <2>1 DEF NoneLives
  <2>4. NoneOf(lbox', EndTypes \ {"Terminated"})
    BY <1>4, <2>1, <2>3 DEF NoneLives
  <2> QED BY <2>2, <2>4 DEF NoneLives
<1> QED BY <1>5, <1>6, <1>7, <1>8 DEF LifeInv

(* A step that touches neither the mailbox of the listener nor an IOActor. *)
LEMMA LifeUntouched ==
    ASSUME LifeInv, UNCHANGED <<lbox, io, dbox>>, UNCHANGED listenerVars
    PROVE  LifeInv'
BY DEF LifeInv, NobodyAborts, QuitStates, OneLives, NoneLives, listenerVars

LEMMA ActorsLive ==
    ASSUME TypeInv, LifeInv, UNCHANGED listenerVars, UNCHANGED dbox,
           NEW e \in Connections, IONext(e) \/ IOCrash(e)
    PROVE  LifeInv'
<1> DEFINE a == io[e]
<1>1. /\ a \in IOType /\ a.box \in Seq(IOMessage)
      /\ NeverTimesOut => NoneOf(a.box, {"Shutdown"})
  BY DEF TypeInv, TypeOK, IOType, LifeInv, NobodyAborts
<1>2. a.box # <<>>
  BY DEF IONext, IOConnected, IOConnectFailed, IORequest, IOWriteAck, IOWriteFailed,
         IOShutdown, IOTerminated, IORejectRequest, IOShutdownAck, IOAbortAck, IOAborted,
         IOAbortTimeout, IOIgnore, IOIgnored, IOCrash, IOReceives
<1>3. a \notin Inert
  BY <1>2, InertActors DEF Inert
<1>4. NeverTimesOut => ~IOShutdown(e)
  <2>1. Head(a.box) = a.box[1] /\ 1 \in DOMAIN a.box
    BY <1>1, <1>2
  <2> QED BY <1>1, <2>1 DEF IOShutdown, IOReceives, NoneOf
<1>5. NeverTimesOut => NoneOf(Tail(a.box), {"Shutdown"})
  BY <1>1, <1>2, NoneOfTail
<1>6. NoneOf(Stopped.box, {"Shutdown"})
  BY InertActors DEF NoneOf
<1>7. ASSUME NEW t, Tell(t)
      PROVE  \E m : lbox' = AfterTellingListener(lbox, <<m>>) /\ m.type = t
  BY <1>7 DEF Tell, Signal
<1>8. ASSUME NEW next, IOBecomes(e, next), next.box = a.box, next \in IOType,
             \/ UNCHANGED lbox
             \/ \E t \in {"Connected", "Remove", "Shutdown"} : Tell(t)
             \/ ~NeverTimesOut /\ Tell("Abort")
      PROVE  LifeInv'
  <2> DEFINE after == [next EXCEPT !.box = Tail(@)]
  <2>1. io' = [io EXCEPT ![e] = after]
    BY <1>8 DEF IOBecomes
  <2>2. after.box = Tail(a.box)
    BY <1>8 DEF IOType
  <2>3. \/ UNCHANGED lbox
        \/ \E m : /\ lbox' = AfterTellingListener(lbox, <<m>>)
                  /\ m.type \in {"Connected", "Remove", "Shutdown"}
                       \/ (~NeverTimesOut /\ m.type = "Abort")
    BY <1>7, <1>8
  <2> HIDE DEF after
  <2> QED BY <1>3, <1>5, <2>1, <2>2, <2>3, LifeGoesOn
<1>9. ASSUME IOStop(e) PROVE LifeInv'
  <2>1. io' = [io EXCEPT ![e] = Stopped]
    BY <1>9 DEF IOStop
  <2>2. \E m : lbox' = AfterTellingListener(lbox, <<m>>) /\ m.type = "Terminated"
    BY <1>7, <1>9 DEF IOStop
  <2> QED BY <1>3, <1>6, <2>1, <2>2, LifeGoesOn
<1>10. ASSUME NEW pending \in Seq(Request), WritesNext(e, pending) PROVE LifeInv'
  <2> DEFINE size == IF Len(pending) < MaxWriteBatchSize THEN Len(pending) ELSE MaxWriteBatchSize
             next == [a EXCEPT !.batch = SubSeq(pending, 1, size),
                               !.requests = Unwritten(pending, size),
                               !.canWrite = (pending = <<>>)]
  <2>1. IOBecomes(e, next) /\ UNCHANGED lbox
    BY <1>10 DEF WritesNext
  <2>2. size \in Nat /\ size <= Len(pending)
    BY SharedAssumption
  <2> HIDE DEF size
  <2>3. SubSeq(pending, 1, size) \in Seq(Request) /\ Unwritten(pending, size) \in Seq(Request)
    BY <2>2, SubSeqType DEF Unwritten
  <2>4. next.box = a.box /\ next \in IOType
    BY <1>1, <2>3 DEF IOType
  <2> HIDE DEF next
  <2> QED BY <1>8, <2>1, <2>4
<1>11. ASSUME IOConnected(e) PROVE LifeInv'
  <2> DEFINE next == [a EXCEPT !.state = "connected", !.connectTimer = FALSE, !.canWrite = TRUE]
  <2>1. IOBecomes(e, next) /\ Tell("Connected")
    BY <1>11 DEF IOConnected
  <2>2. next.box = a.box /\ next \in IOType
    BY <1>1 DEF IOType, IOStates
  <2> HIDE DEF next
  <2> QED BY <1>8, <2>1, <2>2
<1>12. ASSUME IOConnectFailed(e) \/ IOShutdownAck(e) \/ IOAborted(e) \/ IOCrash(e)
       PROVE  LifeInv'
  BY <1>9, <1>12 DEF IOConnectFailed, IOShutdownAck, IOAborted, IOCrash
<1>13. ASSUME IORequest(e) PROVE LifeInv'
  <2> DEFINE pending == Append(a.requests, Head(a.box).req)
             next == [a EXCEPT !.requests = pending]
  <2>1. pending \in Seq(Request)
    <3>1. Head(a.box) \in IOMessage /\ Head(a.box).type = "Request"
      BY <1>1, <1>2, <1>13 DEF IORequest, IOReceives
    <3>2. Head(a.box).req \in Request
      BY <3>1 DEF IOMessage, IOSignals
    <3> QED BY <1>1, <3>2 DEF IOType
  <2>2. CASE a.canWrite
    BY <1>10, <1>13, <2>1, <2>2 DEF IORequest
  <2>3. CASE ~a.canWrite
    <3>1. IOBecomes(e, next) /\ UNCHANGED lbox
      BY <1>13, <2>3 DEF IORequest
    <3>2. next.box = a.box /\ next \in IOType
      BY <1>1, <2>1 DEF IOType
    <3> HIDE DEF next
    <3> QED BY <1>8, <3>1, <3>2
  <2> QED BY <2>2, <2>3
<1>14. ASSUME IOWriteAck(e) PROVE LifeInv'
  BY <1>1, <1>10, <1>14 DEF IOWriteAck, IOType
<1>15. ASSUME IOWriteFailed(e) PROVE LifeInv'
  <2>1. Requeued(a) \in Seq(Request)
    BY <1>1, RequeuedType
  <2> QED BY <1>10, <1>15, <2>1 DEF IOWriteFailed
<1>16. ASSUME IOTerminated(e) PROVE LifeInv'
  <2> DEFINE next == [a EXCEPT !.state = "awaitingShutdown"]
  <2>1. IOBecomes(e, next) /\ Tell("Shutdown")
    BY <1>16 DEF IOTerminated
  <2>2. next.box = a.box /\ next \in IOType
    BY <1>1 DEF IOType, IOStates
  <2> HIDE DEF next
  <2> QED BY <1>8, <2>1, <2>2
<1>17. ASSUME IORejectRequest(e) PROVE LifeInv'
  <2>1. IOBecomes(e, a) /\ Tell("Remove")
    BY <1>17 DEF IORejectRequest
  <2> QED BY <1>1, <1>8, <2>1
<1>18. ASSUME IOAbortAck(e) PROVE LifeInv'
  <2> DEFINE next == [a EXCEPT !.state = "aborting", !.abortTimer = TRUE]
  <2>1. IOBecomes(e, next) /\ UNCHANGED lbox
    BY <1>18 DEF IOAbortAck
  <2>2. next.box = a.box /\ next \in IOType
    BY <1>1 DEF IOType, IOStates
  <2> HIDE DEF next
  <2> QED BY <1>8, <2>1, <2>2
<1>19. ASSUME IOAbortTimeout(e) PROVE LifeInv'
  <2> DEFINE next == [a EXCEPT !.box = Append(@, Signal("Terminated"))]
             after == [next EXCEPT !.box = Tail(@)]
  <2>1. CASE tcp[e].state # "open"
    <3>1. IOBecomes(e, a) /\ UNCHANGED lbox
      BY <1>19, <2>1 DEF IOAbortTimeout
    <3> QED BY <1>1, <1>8, <3>1
  <2>2. CASE tcp[e].state = "open"
    <3>1. io' = [io EXCEPT ![e] = after] /\ UNCHANGED lbox
      BY <1>19, <2>2 DEF IOAbortTimeout, IOBecomes
    <3>2. after.box = Tail(a.box \o <<Signal("Terminated")>>)
      <4>1. next.box = Append(a.box, Signal("Terminated")) /\ after.box = Tail(next.box)
        BY <1>1 DEF IOType
      <4>2. Append(a.box, Signal("Terminated")) = a.box \o <<Signal("Terminated")>>
        <5>1. Signal("Terminated") \in IOMessage
          BY SignalType DEF IOSignals
        <5> DEFINE m == Signal("Terminated")
        <5> HIDE DEF a, m
        <5> QED BY <1>1, <5>1 DEF m
      <4> QED BY <4>1, <4>2
    <3>3. <<Signal("Terminated")>> \in Seq(IOMessage) /\ NoneOf(<<Signal("Terminated")>>, {"Shutdown"})
      <4>1. Signal("Terminated") \in IOMessage
        BY SignalType DEF IOSignals
      <4> QED BY <4>1 DEF NoneOf, Signal
    <3>4. NeverTimesOut => NoneOf(after.box, {"Shutdown"})
      <4> DEFINE more == a.box \o <<Signal("Terminated")>>
      <4>1. NeverTimesOut => NoneOf(more, {"Shutdown"})
        BY <1>1, <3>3, NoneOfConcat
      <4>2. more \in Seq(IOMessage) /\ more # <<>>
        BY <1>1, <1>2, <3>3
      <4> HIDE DEF more
      <4>3. NeverTimesOut => NoneOf(Tail(more), {"Shutdown"})
        BY <4>1, <4>2, NoneOfTail
      <4> QED BY <3>2, <4>3 DEF more
    <3> HIDE DEF after
    <3> QED BY <1>3, <3>1, <3>4, LifeGoesOn
  <2> QED BY <2>1, <2>2
<1>20. ASSUME IOIgnore(e) PROVE LifeInv'
  <2>1. IOBecomes(e, a) /\ UNCHANGED lbox
    BY <1>20 DEF IOIgnore
  <2> QED BY <1>1, <1>8, <2>1
<1>21. ASSUME IOShutdown(e) PROVE LifeInv'
  <2> DEFINE next == [a EXCEPT !.state = "awaitingAbort"]
  <2>1. IOBecomes(e, next) /\ Tell("Abort") /\ ~NeverTimesOut
    BY <1>4, <1>21 DEF IOShutdown
  <2>2. next.box = a.box /\ next \in IOType
    BY <1>1 DEF IOType, IOStates
  <2> HIDE DEF next
  <2> QED BY <1>8, <2>1, <2>2
<1> QED
  BY <1>21, <1>11, <1>12, <1>13, <1>14, <1>15, <1>16, <1>17, <1>18, <1>19, <1>20 DEF IONext

LEMMA ConnectionsLive ==
    ASSUME TypeInv, LifeInv, UNCHANGED listenerVars, UNCHANGED dbox, NEW c \in Connections,
           \/ TcpConnect(c) \/ TcpConnectFail(c) \/ TcpWrite(c) \/ TcpWriteFail(c) \/ TcpRead(c)
           \/ TcpAbort(c) \/ TcpQuit(c) \/ TcpDrop(c) \/ ServerExecute(c) \/ ServerSkip(c)
           \/ FireConnectTimeout(c) \/ FireAbortTimeout(c)
    PROVE  LifeInv'
<1> DEFINE a == io[c]
<1>1. /\ a \in IOType /\ io \in [Connections -> IOType]
      /\ NeverTimesOut => NoneOf(a.box, {"Shutdown"})
  BY DEF TypeInv, TypeOK, LifeInv, NobodyAborts
<1>2. ASSUME NEW t \in IOSignals \ {"Shutdown"}, TellIO(c, t), UNCHANGED lbox PROVE LifeInv'
  <2> DEFINE next == Told(a, <<Signal(t)>>)
  <2>1. io' = [io EXCEPT ![c] = next]
    BY <1>2 DEF TellIO
  <2>2. /\ NeverTimesOut => NoneOf(next.box, {"Shutdown"})
        /\ a \in Inert => next = a
    BY <1>1, ToldSignalKeeps, InertActors DEF Inert
  <2> HIDE DEF next
  <2> QED BY <1>2, <2>1, <2>2, LifeGoesOn
<1>3. ASSUME TcpConnect(c) \/ TcpConnectFail(c) \/ TcpWrite(c) \/ TcpWriteFail(c) PROVE LifeInv'
  BY <1>2, <1>3 DEF TcpConnect, TcpConnectFail, TcpWrite, TcpWriteFail, IOSignals
<1>4. ASSUME TcpAbort(c) \/ TcpQuit(c) \/ TcpDrop(c) PROVE LifeInv'
  BY <1>2, <1>4 DEF TcpAbort, TcpQuit, TcpDrop, Closes, IOSignals
<1>5. ASSUME TcpRead(c) PROVE LifeInv'
  <2>1. \E data : lbox' = AfterTellingListener(lbox, <<[type |-> "Received", data |-> data]>>)
    BY <1>5 DEF TcpRead
  <2>2. \E m : lbox' = AfterTellingListener(lbox, <<m>>) /\ m.type = "Received"
    BY <2>1
  <2>3. io' = [io EXCEPT ![c] = a]
    BY <1>1, <1>5 DEF TcpRead
  <2> HIDE DEF a
  <2> QED BY <1>1, <2>2, <2>3, LifeGoesOn DEF a, EndTypes
<1>6. ASSUME ServerExecute(c) \/ ServerSkip(c) PROVE LifeInv'
  BY <1>6, LifeUntouched DEF ServerExecute, ServerSkip
<1>7. ASSUME NEW t \in {"ConnectTimeout", "AbortTimeout"}, NEW next \in IOType, UNCHANGED lbox,
             a.state # "stopped", a # NoIOActor,
             next.box = Told(a, <<Signal(t)>>).box, io' = [io EXCEPT ![c] = next]
      PROVE  LifeInv'
  <2>1. NeverTimesOut => NoneOf(next.box, {"Shutdown"})
    BY <1>1, <1>7, ToldSignalKeeps DEF IOSignals
  <2>2. a \notin Inert
    BY <1>7, InertActors DEF Inert
  <2> QED BY <1>7, <2>1, <2>2, LifeGoesOn
<1>8. ASSUME FireConnectTimeout(c) \/ FireAbortTimeout(c) PROVE LifeInv'
  <2>1. a.state # "stopped" /\ a # NoIOActor /\ UNCHANGED lbox
    BY <1>8, InertActors DEF FireConnectTimeout, FireAbortTimeout
  <2>2. /\ Told(a, <<Signal("ConnectTimeout")>>) \in IOType
        /\ Told(a, <<Signal("AbortTimeout")>>) \in IOType
    BY <1>1, ToldSignalType DEF IOSignals
  <2>3. \A b \in IOType : /\ [b EXCEPT !.connectTimer = FALSE] \in IOType
                          /\ [b EXCEPT !.connectTimer = FALSE].box = b.box
                          /\ [b EXCEPT !.abortTimer = FALSE] \in IOType
                          /\ [b EXCEPT !.abortTimer = FALSE].box = b.box
    BY DEF IOType
  <2>4. CASE FireConnectTimeout(c)
    BY <1>7, <2>1, <2>2, <2>3, <2>4 DEF FireConnectTimeout
  <2>5. CASE FireAbortTimeout(c)
    BY <1>7, <2>1, <2>2, <2>3, <2>5 DEF FireAbortTimeout
  <2> QED BY <1>8, <2>4, <2>5
<1> QED BY <1>3, <1>4, <1>5, <1>6, <1>8

LEMMA DecodersLive ==
    ASSUME TypeInv, LifeInv, NEW d \in Decoders, DecoderStep(d)
    PROVE  LifeInv'
<1>1. UNCHANGED <<lstate, epoch, isConnecting, isShuttingDown, shutBefore, timerRunning, io>>
  BY DEF DecoderStep, listenerVars
<1>2. dbox[d] \in Seq(DecoderMessage) /\ lbox \in Seq(ListenerMessage)
      /\ dbox \in [Decoders -> Seq(DecoderMessage)]
  BY DEF TypeInv, TypeOK, LTypeOK
<1>3. CASE DecodePartition(d)
  <2>1. UNCHANGED lbox /\ dbox' = [dbox EXCEPT ![d] = Tail(@)] /\ dbox[d] # <<>>
    BY <1>3 DEF DecodePartition
  <2>2. OneLives => NoneOf(Tail(dbox[d]), {"PoisonPill"})
    BY <1>2, <2>1, NoneOfTail DEF OneLives
  <2>3. OneLives => OneLives'
    BY <1>1, <1>2, <2>1, <2>2 DEF OneLives
  <2> QED BY <1>1, <2>1, <2>3 DEF LifeInv, NobodyAborts, QuitStates, NoneLives
<1>4. CASE DecoderStop(d)
  <2>1. ~OneLives
    <3>1. dbox[d][1].type = "PoisonPill" /\ 1 \in DOMAIN dbox[d]
      BY <1>2, <1>4 DEF DecoderStop
    <3> QED BY <3>1 DEF OneLives, NoneOf
  <2>2. lbox' = lbox \/ lbox' = lbox \o <<Signal("Terminated")>>
    BY <1>4 DEF DecoderStop, Tell, AfterTellingListener
  <2>3. ASSUME NEW types, "Terminated" \notin types, NoneOf(lbox, types) PROVE NoneOf(lbox', types)
    <3>1. <<Signal("Terminated")>> \in Seq(ListenerMessage)
      BY SignalType DEF ListenerSignals
    <3>2. NoneOf(<<Signal("Terminated")>>, types)
      BY <2>3 DEF NoneOf, Signal
    <3> QED BY <1>2, <2>2, <2>3, <3>1, <3>2, NoneOfConcat
  <2>4. NobodyAborts' /\ QuitStates' /\ (NoneLives => NoneLives')
    BY <1>1, <2>3, "Terminated" \notin {"ReceiveTimeout", "Abort"} DEF LifeInv, NobodyAborts, QuitStates, NoneLives
  <2> QED BY <1>1, <2>1, <2>4 DEF LifeInv
<1> QED BY <1>3, <1>4 DEF DecoderStep

(* The IOActors after a step of the listener: those that are not alive do  *)
(* not change, and none is told to abort.                                  *)
ActorsStay ==
    \A e \in Connections : /\ NeverTimesOut => NoneOf(io'[e].box, {"Shutdown"})
                           /\ io[e] \in Inert => io'[e] = io[e]

(* Whatever was under way before is no reason to connect or to stop.       *)
LEMMA ListenerGoesOn ==
    ASSUME TypeInv, LifeInv, lbox # <<>>, Consume, ActorsStay,
           UNCHANGED <<epoch, shutBefore>>, QuitStates',
           NeverTimesOut /\ ~ReceiveTimeoutDefined => ~timerRunning',
           OneLives => \A d \in Decoders : NoneOf(dbox'[d], {"PoisonPill"}),
           ~shutBefore => (lstate' \in Down <=> lstate \in Down),
           lstate' = "connecting" => lstate = "connecting" /\ isConnecting' = isConnecting
    PROVE  LifeInv'
<1>1. lbox \in Seq(ListenerMessage) /\ epoch \in Connections
  BY DEF TypeInv, TypeOK, LTypeOK
<1>2. ASSUME NEW types, NoneOf(lbox, types) PROVE NoneOf(lbox', types)
  BY <1>1, <1>2, NoneOfTail DEF Consume
<1>3. NobodyAborts'
  BY <1>2 DEF LifeInv, NobodyAborts, ActorsStay
<1>4. ASSUME ~shutBefore', lstate' \notin Down PROVE OneLives'
  <2>1. OneLives
    BY <1>4 DEF LifeInv
  <2>2. \A c \in Connections : /\ c > epoch' => io'[c] = NoIOActor
                               /\ c < epoch' => io'[c] = Stopped
    BY <2>1 DEF OneLives, Inert, ActorsStay
  <2>3. io[epoch] = Stopped => io'[epoch'] = Stopped
    BY <1>1 DEF Inert, ActorsStay
  <2>4. OneEnd(lbox', io[epoch])
    BY <1>1, <2>1, OneEndTail DEF Consume, OneLives
  <2>5. OneEnd(lbox', io'[epoch'])
    BY <2>3, <2>4 DEF OneEnd
  <2>6. lstate' = "connecting" => \/ isConnecting'
                                  \/ io'[epoch'] = Stopped /\ NoneOf(lbox', EndTypes)
    BY <1>2, <2>1, <2>3 DEF OneLives
  <2> QED BY <2>1, <2>2, <2>5, <2>6 DEF OneLives
<1>5. ASSUME ~shutBefore', lstate' \in Down PROVE NoneLives'
  <2>1. NoneLives
    BY <1>5 DEF LifeInv
  <2> QED BY <1>2, <2>1 DEF NoneLives, ActorsStay
<1> QED BY <1>3, <1>4, <1>5 DEF LifeInv

LEMMA ActorsTold ==
    ASSUME TypeInv, LifeInv, NEW ms \in Seq(IOMessage),
           NeverTimesOut => NoneOf(ms, {"Shutdown"}),
           io' = [io EXCEPT ![epoch] = Told(@, ms)]
    PROVE  ActorsStay
<1>1. io \in [Connections -> IOType] /\ epoch \in Connections
  BY DEF TypeInv, TypeOK, LTypeOK
<1>2. NeverTimesOut => \A e \in Connections : NoneOf(io[e].box, {"Shutdown"})
  BY DEF LifeInv, NobodyAborts
<1>3. /\ NeverTimesOut => NoneOf(Told(io[epoch], ms).box, {"Shutdown"})
      /\ io[epoch] \in Inert => Told(io[epoch], ms) = io[epoch]
  BY <1>1, <1>2, ToldKeeps, InertActors DEF Inert
<1>4. \A e \in Connections : io'[e] = IF e = epoch THEN Told(io[epoch], ms) ELSE io[e]
  BY <1>1
<1> QED BY <1>2, <1>3, <1>4 DEF ActorsStay

LEMMA ActorsSent ==
    ASSUME TypeInv, LifeInv, NEW rs \in Seq(Request), NEW before, NEW q, NEW set \in BOOLEAN,
           set => timerSet, Send(rs, before, q, set)
    PROVE  ActorsStay /\ (NeverTimesOut /\ ~ReceiveTimeoutDefined => ~timerRunning')
<1>1. IORequests(rs) \in Seq(IOMessage)
  BY IORequestsType
<1>2. NoneOf(IORequests(rs), {"Shutdown"})
  BY DEF NoneOf, IORequests
<1>3. ActorsStay
  BY <1>1, <1>2, ActorsTold DEF Send
<1>4. NeverTimesOut /\ ~ReceiveTimeoutDefined => ~timerRunning'
  BY DEF Send, LifeInv, NobodyAborts
<1> QED BY <1>3, <1>4

LEMMA ActorsUntouched ==
    ASSUME LifeInv, UNCHANGED io
    PROVE  ActorsStay
BY DEF LifeInv, NobodyAborts, ActorsStay

(* A new IOActor takes the place of one that has ended.                    *)
LEMMA ReconnectLives ==
    ASSUME TypeInv, LifeInv, lbox # <<>>, Consume, Reconnect, lstate \notin Down,
           UNCHANGED <<shutBefore, isShuttingDown, timerRunning, dbox>>,
           NeverTimesOut => ~isShuttingDown,
           ~shutBefore => io[epoch] = Stopped /\ NoneOf(lbox', EndTypes)
    PROVE  LifeInv'
<1>1. /\ lbox \in Seq(ListenerMessage) /\ epoch \in Connections /\ epoch + 1 \in Connections
      /\ io \in [Connections -> IOType]
  BY SharedAssumption DEF TypeInv, TypeOK, LTypeOK, Reconnect, Connections
<1>2. \A e \in Connections : io'[e] = IF e = epoch + 1 THEN NewIOActor ELSE io[e]
  BY <1>1 DEF Reconnect
<1>3. NobodyAborts'
  <2>1. NoneOf(NewIOActor.box, {"Shutdown"})
    BY InertActors DEF NoneOf
  <2>2. NeverTimesOut => NoneOf(lbox', {"ReceiveTimeout", "Abort"})
    BY <1>1, NoneOfTail DEF LifeInv, NobodyAborts, Consume
  <2> QED BY <1>2, <2>1, <2>2 DEF LifeInv, NobodyAborts
<1>4. QuitStates' /\ lstate' \notin Down
  BY DEF QuitStates, Reconnect, Down
<1>5. ASSUME ~shutBefore' PROVE OneLives'
  <2>1. OneLives
    BY <1>5 DEF LifeInv
  <2>2. \A c \in Connections : /\ c > epoch' => io'[c] = NoIOActor
                               /\ c < epoch' => io'[c] = Stopped
    BY <1>1, <1>2, <1>5, <2>1 DEF OneLives, Reconnect, Connections
  <2>3. OneEnd(lbox', io'[epoch'])
    BY <1>5, NoEnd
  <2>4. isConnecting'
    BY DEF Reconnect
  <2> QED BY <2>1, <2>2, <2>3, <2>4 DEF OneLives
<1> QED BY <1>3, <1>4, <1>5 DEF LifeInv

LEMMA ListenerLives ==
    ASSUME TypeInv, LifeInv, LNext
    PROVE  LifeInv'
<1>1. /\ lbox \in Seq(ListenerMessage) /\ queued \in Seq(Request) /\ requests \in Seq(Request)
      /\ settings \in SettingsType /\ timerSet \in BOOLEAN /\ epoch \in Connections
      /\ dbox \in [Decoders -> Seq(DecoderMessage)]
  BY DEF TypeInv, TypeOK, LTypeOK
<1>2. NobodyAborts /\ QuitStates
  BY DEF LifeInv
<1>3. ASSUME NEW t, Receives(t) PROVE lbox # <<>> /\ lbox[1].type = t /\ 1 \in DOMAIN lbox
  BY <1>1, <1>3 DEF Receives
<1>4. NeverTimesOut => ~Receives("ReceiveTimeout") /\ ~Receives("Abort")
  BY <1>2, <1>3 DEF NobodyAborts, NoneOf
<1>5. ASSUME IsItem PROVE lbox # <<>>
  BY <1>3, <1>5 DEF IsItem
<1>6. ASSUME lstate \in {"connecting", "initializing", "initialized", "reconnecting"}
      PROVE  NeverTimesOut => ~isShuttingDown
  BY <1>2, <1>6 DEF QuitStates, Down
<1>7. ASSUME lstate \in {"initializing", "initialized", "shuttingDown"}
      PROVE  ~shutBefore
  BY <1>2, <1>7 DEF QuitStates, Down
<1>8. ASSUME NEW rs \in Seq(Request), NEW before, NEW q, NEW set \in BOOLEAN, set => timerSet,
             Send(rs, before, q, set), lbox # <<>>, Consume, UNCHANGED <<epoch, shutBefore>>,
             OneLives => \A d \in Decoders : NoneOf(dbox'[d], {"PoisonPill"}),
             ~shutBefore, lstate \notin Down,
             lstate' \in {"initializing", "initialized", "shuttingDown"},
             NeverTimesOut /\ isShuttingDown' => lstate' = "shuttingDown"
      PROVE  LifeInv'
  <2>1. ActorsStay /\ (NeverTimesOut /\ ~ReceiveTimeoutDefined => ~timerRunning')
    BY <1>8, ActorsSent
  <2>2. QuitStates'
    BY <1>8 DEF QuitStates
  <2>3. lstate' \notin Down /\ lstate' # "connecting"
    BY <1>8 DEF Down
  <2> QED BY <1>8, <2>1, <2>2, <2>3, ListenerGoesOn
<1>9. ASSUME UNCHANGED dbox
      PROVE  OneLives => \A d \in Decoders : NoneOf(dbox'[d], {"PoisonPill"})
  BY <1>9 DEF OneLives
<1>10. ASSUME lbox # <<>>, Consume, UNCHANGED <<io, lstate, epoch, isConnecting, isShuttingDown,
                                               shutBefore, timerRunning, dbox>>
       PROVE  LifeInv'
  <2>1. QuitStates'
    BY <1>2, <1>10 DEF QuitStates
  <2>2. NeverTimesOut /\ ~ReceiveTimeoutDefined => ~timerRunning'
    BY <1>2, <1>10 DEF NobodyAborts
  <2> QED BY <1>9, <1>10, <2>1, <2>2, ActorsUntouched, ListenerGoesOn
<1>11. ASSUME FailItem \/ QueueItem \/ OnRemove \/ Ignore PROVE LifeInv'
  <2>1. lbox # <<>> /\ Consume
    BY <1>3, <1>5, <1>11 DEF FailItem, QueueItem, OnRemove, Ignore, Ignored
  <2> QED BY <1>10, <1>11, <2>1
       DEF FailItem, QueueItem, OnRemove, Ignore, listenerVars, connecting, timer
<1>12. ASSUME SendItem PROVE LifeInv'
  <2> DEFINE members == SubSeq(Handed, 2, Len(Handed) - 1)
             both == <<Handed[1]>> \o UpToQuit(members) \o <<Handed[Len(Handed)]>>
             handed == IF Len(Handed) = 1 THEN Handed ELSE both
  <2>1. /\ lstate = "initialized" /\ Consume /\ Send(handed, requests, queued, timerSet)
        /\ lstate' = (IF HasQuit(handed) THEN "shuttingDown" ELSE "initialized")
        /\ UNCHANGED <<epoch, shutBefore, dbox>>
    BY <1>12 DEF SendItem, BehaviourAfterSending, connecting
  <2>2. handed \in Seq(Request)
    <3>1. Handed \in Seq(Request) /\ Len(Handed) \in Nat /\ Len(Handed) >= 1
      BY <1>1, <1>12, HandedType DEF SendItem
    <3>2. members \in Seq(Request)
      BY <3>1, SubSeqType
    <3> DEFINE up == UpToQuit(members)
    <3>3. up \in Seq(Request)
      <4> HIDE DEF members
      <4> QED BY <3>2, CutType
    <3> HIDE DEF up
    <3>4. <<Handed[1]>> \o up \o <<Handed[Len(Handed)]>> \in Seq(Request)
      BY <3>1, <3>3
    <3> QED BY <3>1, <3>4 DEF up
  <2> HIDE DEF handed
  <2>3. isShuttingDown' = (isShuttingDown \/ HasQuit(handed))
    BY <2>1 DEF Send
  <2>4. lbox # <<>>
    BY <1>5, <1>12 DEF SendItem
  <2>5. (NeverTimesOut => ~isShuttingDown) /\ ~shutBefore /\ lstate \notin Down
    BY <1>6, <1>7, <2>1 DEF Down
  <2> QED BY <1>1, <1>8, <1>9, <2>1, <2>2, <2>3, <2>4, <2>5
<1>13. ASSUME QuitWhileConnecting \/ OnConnectedAfterQuit PROVE LifeInv'
  <2>1. lbox # <<>> /\ Consume /\ shutBefore' /\ (NeverTimesOut => ~isShuttingDown')
        /\ lstate' \in Down /\ UNCHANGED <<io, timerRunning>>
    BY <1>3, <1>6, <1>13
       DEF QuitWhileConnecting, OnConnectedAfterQuit, PoisonDecoders, Down, sending, timer
  <2>2. NobodyAborts'
    BY <1>1, <1>2, <2>1, NoneOfTail DEF NobodyAborts, Consume
  <2>3. QuitStates'
    BY <2>1 DEF QuitStates
  <2> QED BY <2>1, <2>2, <2>3 DEF LifeInv
<1>14. ASSUME ItemWhileConnecting PROVE LifeInv'
  <2>1. lbox # <<>> /\ Consume /\ lstate = "connecting" /\ lstate \notin Down
        /\ UNCHANGED <<isShuttingDown, shutBefore, timerRunning, dbox>>
    BY <1>5, <1>14 DEF ItemWhileConnecting, timer, Down
  <2>2. CASE isConnecting
    BY <1>10, <1>14, <2>1, <2>2 DEF ItemWhileConnecting, ReconnectUnlessConnecting
  <2>3. CASE ~isConnecting
    <3>1. Reconnect
      BY <1>14, <2>3 DEF ItemWhileConnecting, ReconnectUnlessConnecting
    <3>2. ~shutBefore => io[epoch] = Stopped /\ NoneOf(lbox, EndTypes)
      BY <2>1, <2>3 DEF LifeInv, OneLives
    <3>3. ~shutBefore => io[epoch] = Stopped /\ NoneOf(lbox', EndTypes)
      BY <1>1, <2>1, <3>2, NoneOfTail DEF Consume
    <3> QED BY <1>6, <2>1, <3>1, <3>3, ReconnectLives
  <2> QED BY <2>2, <2>3
<1>15. ASSUME OnConnected PROVE LifeInv'
  <2>1. /\ lbox # <<>> /\ Consume /\ lstate = "connecting" /\ ~shutBefore
        /\ UNCHANGED <<epoch, shutBefore, dbox>> /\ (NeverTimesOut => ~isShuttingDown)
        /\ lstate \notin Down
    BY <1>3, <1>6, <1>15 DEF OnConnected, Down
  <2>2. CASE InitRequests(settings) # <<>>
    <3>1. Send(InitRequests(settings), requests, queued, timerSet) /\ lstate' = "initializing"
      BY <1>15, <2>2 DEF OnConnected
    <3>2. NeverTimesOut => ~isShuttingDown'
      BY <1>1, <2>1, <3>1, QuietInitRequests DEF Send
    <3>3. InitRequests(settings) \in Seq(Request)
      BY <1>1, InitRequestsType
    <3> QED BY <1>1, <1>8, <1>9, <2>1, <3>1, <3>2, <3>3
  <2>3. CASE InitRequests(settings) = <<>>
    <3>1. SendAllQueued(requests, timerSet)
      BY <1>15, <2>3 DEF OnConnected
    <3>2. /\ Send(queued, requests, <<>>, timerSet)
          /\ lstate' = (IF isShuttingDown' THEN "shuttingDown" ELSE "initialized")
      BY <3>1 DEF SendAllQueued
    <3> QED BY <1>1, <1>8, <1>9, <2>1, <3>2
  <2> QED BY <2>2, <2>3
<1>16. ASSUME NEW data, ReceiveData(data)
       PROVE  OneLives => \A d \in Decoders : NoneOf(dbox'[d], {"PoisonPill"})
  <2>1. UNCHANGED dbox \/ \E d \in Decoders : \E p :
            p.type = "Partition" /\ dbox' = [dbox EXCEPT ![d] = Append(@, p)]
    BY <1>16 DEF ReceiveData
  <2>2. ASSUME OneLives, NEW d \in Decoders, NEW p, p.type = "Partition",
               dbox' = [dbox EXCEPT ![d] = Append(@, p)]
        PROVE  \A c \in Decoders : NoneOf(dbox'[c], {"PoisonPill"})
    <3>1. dbox[d] \in Seq(DecoderMessage) /\ NoneOf(dbox[d], {"PoisonPill"})
      BY <1>1, <2>2 DEF OneLives
    <3> DEFINE box == dbox[d]
    <3> HIDE DEF box
    <3>2. \A k \in DOMAIN Append(box, p) : \/ Append(box, p)[k] = p
                                           \/ k \in DOMAIN box /\ Append(box, p)[k] = box[k]
      BY <3>1 DEF box
    <3>3. NoneOf(Append(box, p), {"PoisonPill"})
      BY <2>2, <3>1, <3>2 DEF NoneOf, box
    <3> QED BY <1>1, <2>2, <3>3 DEF OneLives, box
  <2> QED BY <1>9, <2>1, <2>2
<1>17. ASSUME Receive PROVE LifeInv'
  <2>1. /\ lbox # <<>> /\ Consume /\ ~timerRunning'
        /\ UNCHANGED <<io, lstate, epoch, isConnecting, isShuttingDown, shutBefore>>
    BY <1>3, <1>17 DEF Receive, connecting
  <2>2. OneLives => \A d \in Decoders : NoneOf(dbox'[d], {"PoisonPill"})
    BY <1>16, <1>17 DEF Receive
  <2>3. QuitStates'
    BY <1>2, <2>1 DEF QuitStates
  <2> QED BY <2>1, <2>2, <2>3, ActorsUntouched, ListenerGoesOn
<1>18. ASSUME ReceiveInitializing PROVE LifeInv'
  <2>1. /\ lbox # <<>> /\ Consume /\ lstate = "initializing" /\ ~shutBefore
        /\ UNCHANGED <<epoch, shutBefore, isConnecting>> /\ lstate \notin Down
    BY <1>3, <1>6, <1>7, <1>18 DEF ReceiveInitializing, connecting, Down
  <2>2. OneLives => \A d \in Decoders : NoneOf(dbox'[d], {"PoisonPill"})
    BY <1>16, <1>18 DEF ReceiveInitializing
  <2>3. CASE initCount' = 0
    <3>1. SendAllQueued(Unanswered(Head(lbox).data), FALSE)
      BY <1>18, <2>3 DEF ReceiveInitializing
    <3>2. /\ Send(queued, Unanswered(Head(lbox).data), <<>>, FALSE)
          /\ lstate' = (IF isShuttingDown' THEN "shuttingDown" ELSE "initialized")
      BY <3>1 DEF SendAllQueued
    <3> QED BY <1>1, <1>8, <2>1, <2>2, <3>2
  <2>4. CASE initCount' # 0
    <3>1. ~timerRunning' /\ UNCHANGED <<io, lstate, isShuttingDown>>
      BY <1>18, <2>4 DEF ReceiveInitializing
    <3>2. QuitStates'
      BY <1>2, <2>1, <3>1 DEF QuitStates
    <3> QED BY <2>1, <2>2, <3>1, <3>2, ActorsUntouched, ListenerGoesOn
  <2> QED BY <2>3, <2>4
<1>19. ASSUME HandleReceiveTimeout \/ OnAbort \/ OnShutdown PROVE LifeInv'
  <2>1. PICK t \in {"ReceiveTimeout", "Abort", "Shutdown"}, s \in {"Shutdown", "AbortAck", "ShutdownAck"} :
          /\ lbox # <<>> /\ Consume /\ Receives(t) /\ lstate # "stopped"
          /\ io' = [io EXCEPT ![epoch] = Told(@, <<Signal(s)>>)]
          /\ t = "ReceiveTimeout" => lstate \in {"initializing", "initialized", "shuttingDown"}
          /\ t # "Shutdown" => lstate' = "reconnecting"
          /\ t = "Shutdown" =>
                lstate' = (IF lstate = "shuttingDown" THEN "shuttingDown" ELSE "reconnecting")
          /\ t = "Shutdown" => s = "ShutdownAck"
          /\ UNCHANGED <<epoch, shutBefore, isShuttingDown, timerRunning, dbox>>
    <3>1. CASE HandleReceiveTimeout
      BY <1>3, <3>1 DEF HandleReceiveTimeout, connecting
    <3>2. CASE OnAbort
      BY <1>3, <3>2 DEF OnAbort, Acknowledge, BehaviourAfter, connecting, sending, timer
    <3>3. CASE OnShutdown
      BY <1>3, <3>3 DEF OnShutdown, Acknowledge, BehaviourAfter, connecting, sending, timer
    <3> QED BY <1>19, <3>1, <3>2, <3>3
  <2>2. /\ <<Signal(s)>> \in Seq(IOMessage)
        /\ NeverTimesOut => t = "Shutdown" /\ NoneOf(<<Signal(s)>>, {"Shutdown"})
    <3>1. Signal(s) \in IOMessage
      BY SignalType DEF IOSignals
    <3>2. NeverTimesOut => t = "Shutdown"
      BY <1>4, <2>1
    <3> QED BY <2>1, <3>1, <3>2 DEF NoneOf, Signal
  <2>3. ActorsStay
    BY <2>1, <2>2, ActorsTold
  <2>4. ~shutBefore => lstate \notin Down
    BY <1>3, <2>1 DEF LifeInv, NoneLives, NoneOf, EndTypes, Down
  <2>5. QuitStates'
    BY <1>2, <2>1, <2>2, <2>4 DEF QuitStates, Down
  <2>6. lstate' \notin Down /\ lstate' # "connecting"
    BY <2>1 DEF Down
  <2>7. NeverTimesOut /\ ~ReceiveTimeoutDefined => ~timerRunning'
    BY <1>2, <2>1 DEF NobodyAborts
  <2> QED BY <1>9, <2>1, <2>3, <2>4, <2>5, <2>6, <2>7, ListenerGoesOn
<1>20. ASSUME Receives("Terminated"), Consume, lstate \notin Down
       PROVE  ~shutBefore => /\ OneLives /\ io[epoch] = Stopped
                             /\ NoneOf(lbox', EndTypes)
  <2>1. SUFFICES ASSUME ~shutBefore
                 PROVE  OneLives /\ io[epoch] = Stopped /\ NoneOf(lbox', EndTypes)
    OBVIOUS
  <2>2. OneLives /\ lbox # <<>> /\ Head(lbox).type = "Terminated"
    BY <1>20, <2>1 DEF LifeInv, Receives
  <2> QED BY <1>1, <1>20, <2>2, OneEndTail DEF OneLives, Consume
<1>21. ASSUME TerminatedConnecting PROVE LifeInv'
  <2>1. /\ Receives("Terminated") /\ lbox # <<>> /\ Consume /\ lstate = "connecting"
        /\ lstate \notin Down
        /\ UNCHANGED <<io, lstate, epoch, isShuttingDown, shutBefore, timerRunning, dbox>>
    BY <1>3, <1>21 DEF TerminatedConnecting, timer, Down
  <2>2. NobodyAborts' /\ QuitStates'
    BY <1>1, <1>2, <2>1, NoneOfTail DEF NobodyAborts, QuitStates, Consume
  <2>3. ~shutBefore => OneLives'
    BY <1>20, <2>1, NoEnd DEF OneLives
  <2> QED BY <2>1, <2>2, <2>3 DEF LifeInv
<1>22. ASSUME TerminatedInitializing \/ TerminatedConnected PROVE LifeInv'
  <2>1. /\ Receives("Terminated") /\ lbox # <<>> /\ Consume /\ Reconnect
        /\ lstate \in {"initializing", "initialized", "reconnecting"} /\ lstate \notin Down
        /\ UNCHANGED <<isShuttingDown, shutBefore, timerRunning, dbox>>
    BY <1>3, <1>22 DEF TerminatedInitializing, TerminatedConnected, timer, Down
  <2> QED BY <1>6, <1>20, <2>1, ReconnectLives
<1>23. ASSUME TerminatedShuttingDown PROVE LifeInv'
  <2>1. /\ Receives("Terminated") /\ lbox # <<>> /\ Consume /\ lstate = "shuttingDown"
        /\ lstate \notin Down /\ lstate' = "awaitingDecodersShutdown" /\ lstate' \in Down
        /\ UNCHANGED <<io, epoch, isShuttingDown, shutBefore, timerRunning>>
    BY <1>3, <1>23
       DEF TerminatedShuttingDown, PoisonDecoders, connecting, sending, timer, Down
  <2>2. ~shutBefore /\ OneLives /\ io[epoch] = Stopped /\ NoneOf(lbox', EndTypes)
    BY <1>7, <1>20, <2>1
  <2>3. NoneLives'
    <3>1. \A e \in Connections : io'[e] \in Inert
      BY <1>1, <2>1, <2>2 DEF OneLives, Inert, Connections
    <3>2. NoneOf(lbox', EndTypes \ {"Terminated"})
      BY <2>2 DEF NoneOf
    <3> QED BY <3>1, <3>2 DEF NoneLives
  <2>4. NobodyAborts' /\ QuitStates'
    BY <1>1, <1>2, <2>1, <2>2, NoneOfTail DEF NobodyAborts, QuitStates, Consume
  <2> QED BY <2>1, <2>3, <2>4 DEF LifeInv
<1>24. ASSUME TerminatedAwaitingDecoders PROVE LifeInv'
  <2>1. /\ Receives("Terminated") /\ lbox # <<>> /\ lstate \in Down
        /\ UNCHANGED <<epoch, isConnecting, isShuttingDown, shutBefore, timerRunning>>
    BY <1>3, <1>24 DEF TerminatedAwaitingDecoders, sending, timer, Down
  <2>2. CASE decodersLeft' # 0
    BY <1>10, <1>24, <2>1, <2>2 DEF TerminatedAwaitingDecoders
  <2>3. CASE decodersLeft' = 0
    <3>1. /\ lstate' = "stopped" /\ lbox' = <<>> /\ lstate' \in Down
          /\ \A e \in Connections : io'[e] = IF io[e].state = "none" THEN io[e] ELSE Stopped
      BY <1>24, <2>3 DEF TerminatedAwaitingDecoders, Down
    <3>2. \A types : NoneOf(lbox', types)
      BY <3>1 DEF NoneOf
    <3>3. NoneOf(Stopped.box, {"Shutdown"})
      BY InertActors DEF NoneOf
    <3>4. NobodyAborts'
      BY <1>2, <2>1, <3>1, <3>2, <3>3 DEF NobodyAborts
    <3>5. QuitStates'
      BY <1>2, <2>1, <3>1 DEF QuitStates, Down
    <3>6. ~shutBefore => \A e \in Connections : io'[e] \in Inert
      BY <2>1, <3>1 DEF LifeInv, NoneLives, Inert
    <3>7. ~shutBefore => NoneLives'
      BY <3>2, <3>6 DEF NoneLives
    <3> QED BY <2>1, <3>1, <3>4, <3>5, <3>7 DEF LifeInv
  <2> QED BY <2>2, <2>3
<1> QED
  BY <1>11, <1>12, <1>13, <1>14, <1>15, <1>17, <1>18, <1>19, <1>21, <1>22, <1>23, <1>24
     DEF LNext

LEMMA LifeInit == Init => LifeInv
<1> SUFFICES ASSUME Init PROVE LifeInv
  OBVIOUS
<1>1. /\ lbox = <<>> /\ lstate = "connecting" /\ epoch = 1 /\ isConnecting
      /\ ~isShuttingDown /\ ~shutBefore /\ ~timerRunning
      /\ dbox = [d \in Decoders |-> <<>>]
      /\ io = [e \in Connections |-> IF e = 1 THEN NewIOActor ELSE NoIOActor]
  BY DEF Init, LInit
<1>2. \A types : NoneOf(<<>>, types)
  BY DEF NoneOf
<1>3. NobodyAborts /\ QuitStates
  BY <1>1, <1>2, InertActors DEF NobodyAborts, QuitStates
<1>4. OneLives
  <2>1. \A e \in Connections : /\ e > epoch => io[e] = NoIOActor
                               /\ ~(e < epoch)
    BY <1>1 DEF Connections
  <2>2. OneEnd(lbox, io[epoch])
    BY <1>1, <1>2, NoEnd
  <2> QED BY <1>1, <1>2, <2>1, <2>2 DEF OneLives
<1> QED BY <1>1, <1>3, <1>4 DEF LifeInv, Down

LEMMA LifeStep ==
    ASSUME TypeInv, LifeInv, [Next]_vars
    PROVE  LifeInv'
<1>1. ASSUME NEW t \in Threads, Check(t) PROVE LifeInv'
  BY <1>1, LifeUntouched DEF Check, decoderVars
<1>2. ASSUME NEW t \in Threads, Post(t) PROVE LifeInv'
  <2>1. NextItem(t).type \in {"Request", "Transaction"}
    BY <1>2, NextItemType DEF Post, TypeInv, AdmittedHasItem, Item
  <2>2. /\ UNCHANGED listenerVars /\ UNCHANGED dbox /\ io' = [io EXCEPT ![epoch] = io[epoch]]
        /\ epoch \in Connections /\ (NeverTimesOut => NoneOf(io[epoch].box, {"Shutdown"}))
        /\ lbox' = AfterTellingListener(lbox, <<NextItem(t)>>)
    BY <1>2 DEF Post, decoderVars, TypeInv, TypeOK, LTypeOK, LifeInv, NobodyAborts
  <2> QED BY <2>1, <2>2, LifeGoesOn DEF EndTypes
<1>3. ASSUME NEW item, CompleteTransaction(item) PROVE LifeInv'
  BY <1>3, LifeUntouched DEF CompleteTransaction, decoderVars
<1>4. ASSUME ListenerStep PROVE LifeInv'
  BY <1>4, ListenerLives DEF ListenerStep
<1>5. ASSUME NEW d \in Decoders, DecoderStep(d) PROVE LifeInv'
  BY <1>5, DecodersLive
<1>6. ASSUME NEW c \in Connections, IOStep(c) PROVE LifeInv'
  BY <1>6, ActorsLive DEF IOStep, decoderVars
<1>7. ASSUME Crash PROVE LifeInv'
  BY <1>7, ActorsLive DEF Crash, decoderVars
<1>8. ASSUME NEW c \in Connections,
             TcpStep(c) \/ Execute(c) \/ ConnectTimeoutFires(c) \/ AbortTimeoutFires(c)
      PROVE  LifeInv'
  BY <1>8, ConnectionsLive
     DEF TcpStep, Execute, ConnectTimeoutFires, AbortTimeoutFires, user, decoderVars
<1>9. ASSUME Faulty PROVE LifeInv'
  BY <1>9, ConnectionsLive DEF Faulty, user, decoderVars
<1>10. ASSUME ReceiveTimeoutFires PROVE LifeInv'
  <2>1. ~NeverTimesOut
    BY <1>10 DEF NeverTimesOut, ReceiveTimeoutFires, FireReceiveTimeout, Fault, LifeInv, NobodyAborts
  <2>2. /\ UNCHANGED <<io, lstate, epoch, isConnecting, isShuttingDown, shutBefore, dbox>>
        /\ lbox' = lbox \/ lbox' = lbox \o <<Signal("ReceiveTimeout")>>
    BY <1>10 DEF ReceiveTimeoutFires, FireReceiveTimeout, AfterTellingListener
  <2>3. lbox \in Seq(ListenerMessage) /\ <<Signal("ReceiveTimeout")>> \in Seq(ListenerMessage)
    BY SignalType DEF TypeInv, TypeOK, LTypeOK, ListenerSignals
  <2>4. ASSUME NEW types \in SUBSET EndTypes, NoneOf(lbox, types) PROVE NoneOf(lbox', types)
    <3>1. NoneOf(<<Signal("ReceiveTimeout")>>, types)
      BY DEF NoneOf, Signal, EndTypes
    <3> QED BY <2>2, <2>3, <2>4, <3>1, NoneOfConcat
  <2>5. ASSUME OneEnd(lbox, io[epoch]) PROVE OneEnd(lbox', io[epoch])
    <3>1. Signal("ReceiveTimeout").type \notin EndTypes /\ Signal("ReceiveTimeout").type # "Terminated"
      BY DEF Signal, EndTypes
    <3>2. Signal("ReceiveTimeout") \in ListenerMessage
      BY SignalType DEF ListenerSignals
    <3>3. OneEnd(lbox \o <<Signal("ReceiveTimeout")>>, io[epoch])
      BY <2>3, <2>5, <3>1, <3>2, OneEndAdded
    <3> QED BY <2>2, <2>5, <3>3
  <2>6. (OneLives => OneLives') /\ (NoneLives => NoneLives')
    BY <2>2, <2>4, <2>5 DEF OneLives, NoneLives
  <2> QED BY <2>1, <2>2, <2>6 DEF LifeInv, NobodyAborts, QuitStates
<1>11. ASSUME UNCHANGED vars PROVE LifeInv'
  BY <1>11, LifeUntouched DEF vars
<1> QED
  BY <1>1, <1>2, <1>3, <1>4, <1>5, <1>6, <1>7, <1>8, <1>9, <1>10, <1>11 DEF Next

LEMMA EpochStays ==
    ASSUME NeverTimesOut, LifeInv, [Next]_vars, isShuttingDown
    PROVE  epoch' = epoch
<1>1. lstate \in {"shuttingDown"} \cup Down
  BY DEF LifeInv, QuitStates
<1>2. lstate \notin {"connecting", "initializing", "initialized", "reconnecting"}
  BY <1>1 DEF Down
<1>3. ASSUME LNext PROVE epoch' = epoch
  BY <1>2, <1>3
     DEF LNext, FailItem, QueueItem, SendItem, QuitWhileConnecting, ItemWhileConnecting,
         OnConnected, OnConnectedAfterQuit, Receive, ReceiveInitializing, HandleReceiveTimeout,
         OnRemove, OnAbort, OnShutdown, Acknowledge, TerminatedConnecting,
         TerminatedInitializing, TerminatedConnected, TerminatedShuttingDown,
         TerminatedAwaitingDecoders, Ignore, listenerVars, connecting
<1> QED
  BY <1>3
     DEF Next, Check, Post, CompleteTransaction, ListenerStep, DecoderStep, IOStep, TcpStep,
         Execute, ConnectTimeoutFires, AbortTimeoutFires, Faulty, Crash, ReceiveTimeoutFires,
         FireReceiveTimeout, user, vars, listenerVars

(* Once a QUIT is handed to an IOActor (not while the listener is still    *)
(* connecting) the listener opens no other connection, whichever           *)
(* connections are lost, refused or crash, and in whatever order the ends  *)
(* of the connection, its IOActor and the decoders are reported: where the *)
(* receive timeout is not defined, or does not fire.                       *)
THEOREM QuitIsFinal ==
    ASSUME NeverTimesOut
    PROVE  Spec => NoReconnectionAfterQuit
<1>1. TypeInv /\ LifeInv /\ [Next]_vars => LifeInv'
  BY LifeStep
<1>2. LifeInv /\ [Next]_vars => [isShuttingDown => epoch' = epoch]_vars
  BY EpochStays
<1> QED
  BY <1>1, <1>2, LifeInit, TypeInit, TypeStep, PTL DEF Spec, NoReconnectionAfterQuit

-----------------------------------------------------------------------------
(* What nobody forgets.                                                    *)

(* A request is rejected by an IOActor whose connection was dropped or     *)
(* aborted, and the Remove that follows takes another one away; QUEUED     *)
(* completes nobody.  Where neither can happen nothing is forgotten:       *)
(* connections may fail to open, writes may fail, IOActors may crash.      *)
Undropped == {"drop", "receive"} \cap FaultKinds = {}
SingleRequests == \A item \in Items : item.type = "Request"

(* Requests of no transaction; s says whether the listener is shutting     *)
(* down: only then a QUIT has left it.                                     *)
Mundane == {r \in Request : r.op # "multi"}
Allowed(s) == {r \in Mundane : r.op = "quit" => s}
Completing == {p \in Reply : p.kind # "queued"}

(* Nobody is aborted, and only a QUIT ends a connection.                   *)
CalmIO(s) ==
    {m \in IOMessage : /\ m.type \notin {"Shutdown", "AbortAck"}
                       /\ m.type = "Request" => m.req \in Allowed(s)
                       /\ m.type = "Terminated" => s}
CalmMessage(s) ==
    {m \in ListenerMessage :
        /\ m.type \notin {"Remove", "Abort", "ReceiveTimeout", "Transaction"}
        /\ m.type = "Request" => m.reqs \in Seq(Mundane)
        /\ m.type = "Shutdown" => s
        /\ m.type = "Received" => m.data.replies \in Seq(Completing) /\ m.data.rest \in Seq(Completing)}
CalmPart == {m \in DecoderMessage : m.type = "Partition" => m.replies \in Seq(Completing)}

(* No request comes behind the end of its connection.                      *)
NoneBehind(box) ==
    \A k, l \in DOMAIN box : k < l /\ box[k].type = "Terminated" => box[l].type # "Request"
CalmActor(a, s) ==
    /\ a.box \in Seq(CalmIO(s)) /\ NoneBehind(a.box)
    /\ a.requests \in Seq(Allowed(s)) /\ a.batch \in Seq(Allowed(s))
    /\ a.state \notin {"awaitingAbort", "aborting"}
    /\ a.state = "awaitingShutdown" => s /\ NoneOf(a.box, {"Request"})
CalmTcp(t, s) ==
    /\ t.wire \in Seq(Allowed(s)) /\ t.writing \in Seq(Allowed(s)) /\ t.net \in Seq(Completing)
    /\ ~t.abort /\ ~t.multi /\ (t.quit => s)
Calm == \A c \in Connections : CalmActor(io[c], isShuttingDown) /\ CalmTcp(tcp[c], isShuttingDown)
PillsLast ==
    \A d \in Decoders : \A k \in DOMAIN dbox[d] : dbox[d][k].type = "PoisonPill" => k = Len(dbox[d])
CalmInv ==
    /\ Calm
    /\ queued \in Seq(Mundane) /\ remaining \in Seq(Completing)
    /\ lbox \in Seq(CalmMessage(isShuttingDown))
    /\ dbox \in [Decoders -> Seq(CalmPart)]
    /\ PillsLast
    /\ shutBefore => lstate \in Down

LEMMA SeqGrows ==
    ASSUME NEW S, NEW T, S \subseteq T, NEW s \in Seq(S)
    PROVE  s \in Seq(T)
OBVIOUS

LEMMA SeqItems ==
    ASSUME NEW S, NEW s \in Seq(S)
    PROVE  \A k \in DOMAIN s : s[k] \in S
OBVIOUS

LEMMA SeqOver ==
    ASSUME NEW S, NEW T, NEW s \in Seq(T), \A k \in DOMAIN s : s[k] \in S
    PROVE  s \in Seq(S)
<1>1. Len(s) \in Nat /\ DOMAIN s = 1..Len(s) /\ s = [k \in 1..Len(s) |-> s[k]]
  OBVIOUS
<1> QED BY <1>1

LEMMA CalmGrows ==
    ASSUME NEW s \in BOOLEAN, NEW u \in BOOLEAN, s => u
    PROVE  /\ Allowed(s) \subseteq Allowed(u)
           /\ CalmIO(s) \subseteq CalmIO(u)
           /\ CalmMessage(s) \subseteq CalmMessage(u)
           /\ \A a : CalmActor(a, s) => CalmActor(a, u)
           /\ \A t : CalmTcp(t, s) => CalmTcp(t, u)
<1>1. Allowed(s) \subseteq Allowed(u)
  BY DEF Allowed
<1>2. CalmIO(s) \subseteq CalmIO(u)
  BY <1>1 DEF CalmIO
<1>3. CalmMessage(s) \subseteq CalmMessage(u)
  BY DEF CalmMessage
<1>4. /\ \A x \in Seq(Allowed(s)) : x \in Seq(Allowed(u))
      /\ \A x \in Seq(CalmIO(s)) : x \in Seq(CalmIO(u))
  BY <1>1, <1>2, SeqGrows
<1>5. \A a : CalmActor(a, s) => CalmActor(a, u)
  BY <1>4 DEF CalmActor
<1>6. \A t : CalmTcp(t, s) => CalmTcp(t, u)
  BY <1>4 DEF CalmTcp
<1> QED BY <1>1, <1>2, <1>3, <1>5, <1>6

LEMMA CalmSignals ==
    ASSUME NEW s \in BOOLEAN
    PROVE  /\ \A t \in IOSignals \ {"Shutdown", "AbortAck"} :
                (t = "Terminated" => s) => Signal(t) \in CalmIO(s)
           /\ \A t \in {"Connected", "Shutdown", "Terminated"} :
                (t = "Shutdown" => s) => Signal(t) \in CalmMessage(s)
<1>1. \A t : Signal(t).type = t
  BY DEF Signal
<1>2. \A t \in IOSignals \ {"Shutdown", "AbortAck"} :
         (t = "Terminated" => s) => Signal(t) \in CalmIO(s)
  BY <1>1, SignalType DEF CalmIO, IOSignals
<1>3. \A t \in {"Connected", "Shutdown", "Terminated"} :
         (t = "Shutdown" => s) => Signal(t) \in CalmMessage(s)
  BY <1>1, SignalType DEF CalmMessage, ListenerSignals
<1> QED BY <1>2, <1>3

LEMMA CalmNewActors ==
    ASSUME NEW s \in BOOLEAN
    PROVE  CalmActor(NoIOActor, s) /\ CalmActor(NewIOActor, s) /\ CalmActor(Stopped, s)
<1>1. ASSUME NEW a, a.box = <<>>, a.requests = <<>>, a.batch = <<>>,
             a.state \in {"none", "connecting", "stopped"}
      PROVE  CalmActor(a, s)
  BY <1>1 DEF CalmActor, NoneBehind
<1>2. CalmActor(NoIOActor, s)
  BY <1>1 DEF NoIOActor
<1>3. CalmActor(NewIOActor, s)
  BY <1>1 DEF NewIOActor, NoIOActor
<1>4. CalmActor(Stopped, s)
  BY <1>1 DEF Stopped, NoIOActor
<1> QED BY <1>2, <1>3, <1>4

LEMMA BehindTail ==
    ASSUME NEW S, NEW box \in Seq(S), box # <<>>, NoneBehind(box)
    PROVE  /\ NoneBehind(Tail(box))
           /\ Head(box).type = "Terminated" => NoneOf(Tail(box), {"Request"})
<1>1. /\ \A k \in DOMAIN Tail(box) : Tail(box)[k] = box[k + 1] /\ k + 1 \in DOMAIN box /\ 1 < k + 1
      /\ \A k, l \in DOMAIN Tail(box) : k < l => k + 1 < l + 1
      /\ Head(box) = box[1] /\ 1 \in DOMAIN box
  OBVIOUS
<1>2. NoneBehind(Tail(box))
  BY <1>1 DEF NoneBehind
<1>3. Head(box).type = "Terminated" => NoneOf(Tail(box), {"Request"})
  BY <1>1 DEF NoneBehind, NoneOf
<1> QED BY <1>2, <1>3

LEMMA BehindMore ==
    ASSUME NEW S, NEW box \in Seq(S), NEW ms \in Seq(S), NoneBehind(box),
           NoneOf(box, {"Terminated"}) \/ NoneOf(ms, {"Request"}),
           NoneOf(ms, {"Terminated"}) \/ NoneOf(ms, {"Request"})
    PROVE  NoneBehind(box \o ms)
<1> DEFINE more == box \o ms
<1>1. /\ \A k \in DOMAIN more :
           \/ k \in DOMAIN box /\ more[k] = box[k]
           \/ k - Len(box) \in DOMAIN ms /\ more[k] = ms[k - Len(box)] /\ k \notin DOMAIN box
      /\ \A k, l \in DOMAIN more : k < l /\ l \in DOMAIN box => k \in DOMAIN box
  OBVIOUS
<1> HIDE DEF more
<1>2. NoneBehind(more)
  BY <1>1 DEF NoneBehind, NoneOf
<1> QED BY <1>2 DEF more

(* An IOActor takes a message off its mailbox...                           *)
LEMMA CalmTaken ==
    ASSUME NEW s \in BOOLEAN, NEW a \in IOType, CalmActor(a, s), a.box # <<>>
    PROVE  /\ Tail(a.box) \in Seq(CalmIO(s)) /\ NoneBehind(Tail(a.box))
           /\ Head(a.box) \in CalmIO(s)
           /\ Head(a.box).type = "Terminated" => NoneOf(Tail(a.box), {"Request"})
           /\ \A types : NoneOf(a.box, types) => NoneOf(Tail(a.box), types)
           /\ \A types : NoneOf(a.box, types) => Head(a.box).type \notin types
<1>1. a.box \in Seq(CalmIO(s)) /\ NoneBehind(a.box)
  BY DEF CalmActor
<1>2. Tail(a.box) \in Seq(CalmIO(s)) /\ Head(a.box) \in CalmIO(s)
        /\ Head(a.box) = a.box[1] /\ 1 \in DOMAIN a.box
  BY <1>1
<1>3. \A types : NoneOf(a.box, types) => NoneOf(Tail(a.box), types)
  BY <1>1, NoneOfTail
<1>4. \A types : NoneOf(a.box, types) => Head(a.box).type \notin types
  BY <1>2 DEF NoneOf
<1> QED BY <1>1, <1>2, <1>3, <1>4, BehindTail

(* ...is told of something...                                              *)
LEMMA CalmTold ==
    ASSUME NEW s \in BOOLEAN, NEW a \in IOType, CalmActor(a, s), NEW m \in CalmIO(s),
           m.type # "Request"
    PROVE  CalmActor(Told(a, <<m>>), s)
<1>1. /\ a.box \in Seq(CalmIO(s)) /\ <<m>> \in Seq(CalmIO(s))
      /\ NoneBehind(a.box) /\ NoneOf(<<m>>, {"Request"})
  BY DEF CalmActor, NoneOf
<1> DEFINE box == a.box \o <<m>>
<1>2. box \in Seq(CalmIO(s)) /\ NoneBehind(box)
        /\ (NoneOf(a.box, {"Request"}) => NoneOf(box, {"Request"}))
  <2>1. box \in Seq(CalmIO(s))
    BY <1>1
  <2>2. NoneBehind(box)
    BY <1>1, BehindMore
  <2>3. NoneOf(a.box, {"Request"}) => NoneOf(box, {"Request"})
    BY <1>1, NoneOfConcat
  <2> QED BY <2>1, <2>2, <2>3
<1> HIDE DEF box
<1>3. CalmActor([a EXCEPT !.box = box], s)
  BY <1>2 DEF CalmActor, IOType
<1> QED BY <1>3 DEF Told, box

(* ...or is sent requests, when no QUIT was sent before.                   *)
LEMMA CalmSent ==
    ASSUME NEW u \in BOOLEAN, NEW a \in IOType, CalmActor(a, FALSE), NEW rs \in Seq(Allowed(u))
    PROVE  CalmActor(Told(a, IORequests(rs)), u)
<1> DEFINE ms == IORequests(rs)
           box == a.box \o ms
<1>1. /\ a.box \in Seq(CalmIO(u)) /\ NoneBehind(a.box) /\ NoneOf(a.box, {"Terminated"})
      /\ CalmActor(a, u) /\ a.state # "awaitingShutdown"
  <2>1. CalmActor(a, u)
    BY CalmGrows
  <2>2. a.box \in Seq(CalmIO(FALSE))
    BY DEF CalmActor
  <2>3. NoneOf(a.box, {"Terminated"})
    <3>1. \A k \in DOMAIN a.box : a.box[k] \in CalmIO(FALSE)
      BY <2>2, SeqItems
    <3>2. \A m \in CalmIO(FALSE) : m.type # "Terminated"
      BY DEF CalmIO
    <3> QED BY <3>1, <3>2 DEF NoneOf
  <2>4. a.state # "awaitingShutdown"
    BY DEF CalmActor
  <2> QED BY <2>1, <2>3, <2>4 DEF CalmActor
<1>2. ms \in Seq(CalmIO(u)) /\ NoneOf(ms, {"Terminated"})
  <2>1. DOMAIN rs = 1..Len(rs) /\ Len(rs) \in Nat /\ \A i \in DOMAIN rs : rs[i] \in Allowed(u)
    OBVIOUS
  <2>2. \A r \in Allowed(u) : /\ [type |-> "Request", req |-> r] \in IOMessage
                              /\ [type |-> "Request", req |-> r].type = "Request"
                              /\ [type |-> "Request", req |-> r].req = r
    BY DEF IOMessage, Allowed, Mundane
  <2>3. \A r \in Allowed(u) : [type |-> "Request", req |-> r] \in CalmIO(u)
    BY <2>2 DEF CalmIO
  <2>4. ms = [i \in 1..Len(rs) |-> [type |-> "Request", req |-> rs[i]]]
    BY <2>1 DEF IORequests
  <2>5. ms \in Seq(CalmIO(u))
    BY <2>1, <2>3, <2>4
  <2>6. \A i \in DOMAIN ms : ms[i].type = "Request"
    BY <2>1, <2>4
  <2> QED BY <2>5, <2>6 DEF NoneOf
<1> HIDE DEF ms
<1>3. box \in Seq(CalmIO(u)) /\ NoneBehind(box)
  BY <1>1, <1>2, BehindMore
<1> HIDE DEF box
<1>4. CalmActor([a EXCEPT !.box = box], u)
  BY <1>1, <1>3 DEF CalmActor, IOType
<1> QED BY <1>1, <1>4 DEF Told, box, ms

(* An IOActor and its connection.                                          *)
LEMMA CalmWrites ==
    ASSUME TypeInv, Calm, NEW e \in Connections, io[e].box # <<>>,
           io[e].state # "awaitingShutdown",
           NEW pending \in Seq(Allowed(isShuttingDown)), WritesNext(e, pending)
    PROVE  /\ CalmActor(io'[e], isShuttingDown) /\ CalmTcp(tcp'[e], isShuttingDown)
           /\ \A c \in Connections \ {e} : io'[c] = io[c] /\ tcp'[c] = tcp[c]
           /\ UNCHANGED <<lbox, outcome>>
<1> DEFINE s == isShuttingDown
           a == io[e]
           size == IF Len(pending) < MaxWriteBatchSize THEN Len(pending)
                                                       ELSE MaxWriteBatchSize
           x == SubSeq(pending, 1, size)
           y == Unwritten(pending, size)
           next == [a EXCEPT !.batch = x, !.requests = y, !.canWrite = (pending = <<>>)]
<1>1. /\ io \in [Connections -> IOType] /\ tcp \in [Connections -> TcpType] /\ a \in IOType
      /\ tcp[e] \in TcpType /\ s \in BOOLEAN /\ CalmActor(a, s) /\ CalmTcp(tcp[e], s)
  BY DEF TypeInv, TypeOK, LTypeOK, TcpTypeOK, Calm
<1>2. size \in Nat /\ size <= Len(pending)
  BY SharedAssumption
<1>3. x \in Seq(Allowed(s)) /\ y \in Seq(Allowed(s))
  <2> HIDE DEF size
  <2> QED BY <1>2, SubSeqType DEF Unwritten
<1>4. /\ io' = [io EXCEPT ![e] = [next EXCEPT !.box = Tail(@)]]
      /\ tcp' = tcp \/ tcp' = [tcp EXCEPT ![e].writing = x]
      /\ UNCHANGED <<lbox, outcome>>
  BY DEF WritesNext, IOBecomes
<1> HIDE DEF size, x, y
<1>5. LET b == [next EXCEPT !.box = Tail(@)]
      IN b.box = Tail(a.box) /\ b.requests = y /\ b.batch = x /\ b.state = a.state
  BY <1>1 DEF IOType
<1>6. CalmActor(io'[e], s)
  <2>1. /\ io'[e].box = Tail(a.box) /\ io'[e].requests = y /\ io'[e].batch = x
        /\ io'[e].state = a.state
    BY <1>1, <1>4, <1>5
  <2>2. Tail(a.box) \in Seq(CalmIO(s)) /\ NoneBehind(Tail(a.box))
    BY <1>1, CalmTaken
  <2> QED BY <1>1, <1>3, <2>1, <2>2 DEF CalmActor
<1>7. CalmTcp(tcp'[e], s)
  <2>1. CalmTcp([tcp[e] EXCEPT !.writing = x], s)
    BY <1>1, <1>3 DEF CalmTcp, TcpType
  <2> QED BY <1>1, <1>4, <2>1
<1> QED BY <1>1, <1>4, <1>6, <1>7

LEMMA WrittenAllowed ==
    ASSUME NEW s, NEW r \in Allowed(s)
    PROVE  Written(r) \in Allowed(s)
BY DEF Written, Allowed, Mundane, Request, Ops

LEMMA CalmRequeued ==
    ASSUME NEW s, NEW a, a.batch \in Seq(Allowed(s)), a.requests \in Seq(Allowed(s))
    PROVE  Requeued(a) \in Seq(Allowed(s))
<1> DEFINE n == Len(a.batch)
<1>1. n \in Nat /\ DOMAIN a.batch = 1..n
  OBVIOUS
<1>2. \A i \in 1..n : Written(a.batch[n + 1 - i]) \in Allowed(s)
  <2> TAKE i \in 1..n
  <2>1. a.batch[n + 1 - i] \in Allowed(s)
    BY <1>1
  <2> QED BY <2>1, WrittenAllowed
<1>3. [i \in 1..n |-> Written(a.batch[n + 1 - i])] \in Seq(Allowed(s))
  BY <1>1, <1>2
<1>4. Requeued(a) = [i \in 1..n |-> Written(a.batch[n + 1 - i])] \o a.requests
  BY <1>1 DEF Requeued
<1> QED BY <1>3, <1>4, ConcatProperties

LEMMA ActorsCalm ==
    ASSUME TypeInv, Calm, NEW e \in Connections, IONext(e) \/ IOCrash(e)
    PROVE  /\ CalmActor(io'[e], isShuttingDown) /\ CalmTcp(tcp'[e], isShuttingDown)
           /\ \A c \in Connections \ {e} : io'[c] = io[c] /\ tcp'[c] = tcp[c]
           /\ UNCHANGED outcome
           /\ \/ UNCHANGED lbox
              \/ \E t \in {"Connected", "Shutdown", "Terminated"} :
                   (t = "Shutdown" => isShuttingDown) /\ Tell(t)
<1> DEFINE s == isShuttingDown
           a == io[e]
           Goal == /\ CalmActor(io'[e], s) /\ CalmTcp(tcp'[e], s)
                   /\ \A c \in Connections \ {e} : io'[c] = io[c] /\ tcp'[c] = tcp[c]
                   /\ UNCHANGED outcome
                   /\ \/ UNCHANGED lbox
                      \/ \E t \in {"Connected", "Shutdown", "Terminated"} :
                           (t = "Shutdown" => s) /\ Tell(t)
<1>1. /\ io \in [Connections -> IOType] /\ tcp \in [Connections -> TcpType] /\ a \in IOType
      /\ tcp[e] \in TcpType /\ s \in BOOLEAN /\ CalmActor(a, s) /\ CalmTcp(tcp[e], s)
  BY DEF TypeInv, TypeOK, LTypeOK, TcpTypeOK, Calm
<1>2. a.box # <<>>
  BY DEF IONext, IOConnected, IOConnectFailed, IORequest, IOWriteAck, IOWriteFailed,
         IOShutdown, IOTerminated, IORejectRequest, IOShutdownAck, IOAbortAck, IOAborted,
         IOAbortTimeout, IOIgnore, IOIgnored, IOCrash, IOReceives
<1>3. /\ Tail(a.box) \in Seq(CalmIO(s)) /\ NoneBehind(Tail(a.box))
      /\ Head(a.box) \in CalmIO(s)
      /\ Head(a.box).type = "Terminated" => s /\ NoneOf(Tail(a.box), {"Request"})
      /\ Head(a.box).type = "Request" => Head(a.box).req \in Allowed(s)
      /\ Head(a.box).type \notin {"Shutdown", "AbortAck"}
      /\ a.state = "awaitingShutdown" => /\ NoneOf(Tail(a.box), {"Request"})
                                         /\ Head(a.box).type # "Request"
  <2>1. /\ Tail(a.box) \in Seq(CalmIO(s)) /\ NoneBehind(Tail(a.box))
        /\ Head(a.box) \in CalmIO(s)
        /\ Head(a.box).type = "Terminated" => NoneOf(Tail(a.box), {"Request"})
        /\ NoneOf(a.box, {"Request"}) => NoneOf(Tail(a.box), {"Request"})
        /\ NoneOf(a.box, {"Request"}) => Head(a.box).type \notin {"Request"}
    BY <1>1, <1>2, CalmTaken
  <2>2. \A m \in CalmIO(s) : /\ m.type = "Terminated" => s
                             /\ m.type = "Request" => m.req \in Allowed(s)
                             /\ m.type \notin {"Shutdown", "AbortAck"}
    BY DEF CalmIO
  <2> QED BY <1>1, <2>1, <2>2 DEF CalmActor
<1>4. ASSUME NEW next \in IOType, IOBecomes(e, next), next.box = a.box,
             next.requests \in Seq(Allowed(s)), next.batch = a.batch,
             next.state \in {a.state, "connected"}
               \/ (next.state = "awaitingShutdown" /\ s /\ NoneOf(Tail(a.box), {"Request"}))
      PROVE  CalmActor(io'[e], s) /\ \A c \in Connections \ {e} : io'[c] = io[c]
  <2> DEFINE after == [next EXCEPT !.box = Tail(@)]
  <2>1. io' = [io EXCEPT ![e] = after]
    BY <1>4 DEF IOBecomes
  <2>2. /\ after.box = Tail(a.box) /\ after.requests = next.requests
        /\ after.batch = a.batch /\ after.state = next.state
    BY <1>4 DEF IOType
  <2> HIDE DEF after
  <2>3. CalmActor(after, s)
    BY <1>1, <1>3, <1>4, <2>2 DEF CalmActor
  <2> QED BY <1>1, <2>1, <2>3
<1>5. ASSUME IOStop(e), UNCHANGED <<outcome, tcp>> PROVE Goal
  <2>1. io'[e] = Stopped /\ (\A c \in Connections \ {e} : io'[c] = io[c]) /\ Tell("Terminated")
    BY <1>1, <1>5 DEF IOStop
  <2>2. CalmActor(Stopped, s)
    BY <1>1, CalmNewActors
  <2> QED BY <1>1, <1>5, <2>1, <2>2
<1>6. ASSUME IOConnected(e) PROVE Goal
  <2> DEFINE next == [a EXCEPT !.state = "connected", !.connectTimer = FALSE, !.canWrite = TRUE]
  <2>1. /\ next \in IOType /\ next.box = a.box /\ next.requests = a.requests
        /\ next.batch = a.batch /\ next.state = "connected"
    BY <1>1 DEF IOType, IOStates
  <2>2. IOBecomes(e, next) /\ Tell("Connected") /\ UNCHANGED outcome
        /\ tcp' = [tcp EXCEPT ![e].state = "open"]
    BY <1>6 DEF IOConnected
  <2> HIDE DEF next
  <2>3. a.requests \in Seq(Allowed(s))
    BY <1>1 DEF CalmActor
  <2>4. CalmActor(io'[e], s) /\ \A c \in Connections \ {e} : io'[c] = io[c]
    BY <1>4, <2>1, <2>2, <2>3
  <2>5. CalmTcp(tcp'[e], s) /\ \A c \in Connections \ {e} : tcp'[c] = tcp[c]
    BY <1>1, <2>2 DEF CalmTcp, TcpType
  <2> QED BY <2>2, <2>4, <2>5
<1>7. ASSUME IOConnectFailed(e) \/ IOCrash(e) \/ IOShutdownAck(e) PROVE Goal
  BY <1>5, <1>7 DEF IOConnectFailed, IOCrash, IOShutdownAck
<1>8. ASSUME IORequest(e) PROVE Goal
  <2> DEFINE pending == Append(a.requests, Head(a.box).req)
             next == [a EXCEPT !.requests = pending]
  <2>1. a.state = "connected" /\ Head(a.box).type = "Request"
    BY <1>8 DEF IORequest, IOReceives
  <2>2. pending \in Seq(Allowed(s))
    BY <1>1, <1>3, <2>1 DEF CalmActor
  <2>3. \/ WritesNext(e, pending)
        \/ IOBecomes(e, next) /\ UNCHANGED <<lbox, outcome, tcp>>
    BY <1>8 DEF IORequest
  <2>4. next \in IOType /\ next.box = a.box /\ next.requests = pending /\ next.batch = a.batch
          /\ next.state = a.state
    <3>1. pending \in Seq(Request)
      BY <2>2, SeqGrows DEF Allowed, Mundane
    <3> HIDE DEF pending
    <3> QED BY <1>1, <3>1 DEF IOType
  <2> HIDE DEF pending, next
  <2>5. CASE WritesNext(e, pending)
    BY <1>2, <2>1, <2>2, <2>5, CalmWrites
  <2>6. CASE IOBecomes(e, next) /\ UNCHANGED <<lbox, outcome, tcp>>
    BY <1>1, <1>4, <2>2, <2>4, <2>6
  <2> QED BY <2>3, <2>5, <2>6
<1>9. ASSUME IOWriteAck(e) PROVE Goal
  <2>1. a.state = "connected" /\ WritesNext(e, a.requests) /\ a.requests \in Seq(Allowed(s))
    BY <1>1, <1>9 DEF IOWriteAck, CalmActor
  <2> QED BY <1>2, <2>1, CalmWrites
<1>10. ASSUME IOWriteFailed(e) PROVE Goal
  <2>1. a.state = "connected" /\ WritesNext(e, Requeued(a))
    BY <1>10 DEF IOWriteFailed
  <2>2. Requeued(a) \in Seq(Allowed(s))
    BY <1>1, CalmRequeued DEF CalmActor
  <2> QED BY <1>2, <2>1, <2>2, CalmWrites
<1>11. ASSUME IOTerminated(e) PROVE Goal
  <2> DEFINE next == [a EXCEPT !.state = "awaitingShutdown"]
  <2>1. /\ next \in IOType /\ next.box = a.box /\ next.requests = a.requests
        /\ next.batch = a.batch /\ next.state = "awaitingShutdown"
    BY <1>1 DEF IOType, IOStates
  <2>2. IOBecomes(e, next) /\ Tell("Shutdown") /\ UNCHANGED <<outcome, tcp>>
        /\ Head(a.box).type = "Terminated"
    BY <1>11 DEF IOTerminated, IOReceives
  <2> HIDE DEF next
  <2>3. a.requests \in Seq(Allowed(s))
    BY <1>1 DEF CalmActor
  <2>4. CalmActor(io'[e], s) /\ \A c \in Connections \ {e} : io'[c] = io[c]
    BY <1>3, <1>4, <2>1, <2>2, <2>3
  <2> QED BY <1>1, <1>3, <2>2, <2>4
<1>12. ASSUME IOIgnore(e) PROVE Goal
  <2>1. IOBecomes(e, a) /\ UNCHANGED <<lbox, outcome, tcp>>
    BY <1>12 DEF IOIgnore
  <2>2. a.requests \in Seq(Allowed(s))
    BY <1>1 DEF CalmActor
  <2> QED BY <1>1, <1>4, <2>1, <2>2
<1>13. ~IOShutdown(e) /\ ~IORejectRequest(e) /\ ~IOAbortAck(e) /\ ~IOAborted(e)
         /\ ~IOAbortTimeout(e)
  <2>1. a.state \notin {"awaitingAbort", "aborting"}
    BY <1>1 DEF CalmActor
  <2> QED BY <1>3, <2>1 DEF IOShutdown, IORejectRequest, IOAbortAck, IOAborted, IOAbortTimeout,
                           IOReceives
<1> QED BY <1>6, <1>7, <1>8, <1>9, <1>10, <1>11, <1>12, <1>13 DEF IONext

(* What the listener is told.                                              *)
LEMMA CalmHeard ==
    ASSUME NEW s, lbox \in Seq(CalmMessage(s)), NEW m \in CalmMessage(s)
    PROVE  AfterTellingListener(lbox, <<m>>) \in Seq(CalmMessage(s))
BY DEF AfterTellingListener

(* The connections and the server.                                         *)
LEMMA CalmUpdates ==
    ASSUME NEW s \in BOOLEAN, NEW t \in TcpType, CalmTcp(t, s)
    PROVE  /\ \A st : CalmTcp([t EXCEPT !.state = st], s)
           /\ CalmTcp([t EXCEPT !.writing = <<>>], s)
           /\ CalmTcp([t EXCEPT !.wire = t.wire \o t.writing, !.writing = <<>>], s)
           /\ t.wire # <<>> => CalmTcp([t EXCEPT !.wire = Tail(t.wire)], s)
<1>1. /\ t.wire \in Seq(Allowed(s)) /\ t.writing \in Seq(Allowed(s)) /\ t.net \in Seq(Completing)
      /\ ~t.abort /\ ~t.multi /\ (t.quit => s)
  BY DEF CalmTcp
<1>2. <<>> \in Seq(Allowed(s)) /\ t.wire \o t.writing \in Seq(Allowed(s))
        /\ (t.wire # <<>> => Tail(t.wire) \in Seq(Allowed(s)))
  BY <1>1
<1>3. ASSUME NEW w \in Seq(Allowed(s)), NEW x \in Seq(Allowed(s))
      PROVE  CalmTcp([t EXCEPT !.wire = w, !.writing = x], s)
  BY <1>1, <1>3 DEF CalmTcp, TcpType
<1>4. ASSUME NEW w \in Seq(Allowed(s)) PROVE CalmTcp([t EXCEPT !.wire = w], s)
  BY <1>1, <1>4 DEF CalmTcp, TcpType
<1>5. CalmTcp([t EXCEPT !.writing = <<>>], s)
  BY <1>1, <1>2 DEF CalmTcp, TcpType
<1>6. \A st : CalmTcp([t EXCEPT !.state = st], s)
  BY <1>1 DEF CalmTcp, TcpType
<1> QED BY <1>2, <1>3, <1>4, <1>5, <1>6

LEMMA CalmExecutes ==
    ASSUME TypeInv, Calm, NEW c \in Connections, ServerExecute(c)
    PROVE  CalmTcp(tcp'[c], isShuttingDown) /\ \A e \in Connections \ {c} : tcp'[e] = tcp[e]
<1> DEFINE s == isShuttingDown
           t == tcp[c]
           r == Head(t.wire)
           queues == t.multi /\ r.op # "exec"
           kind == IF queues THEN "queued"
                   ELSE IF r.op \in SessionOps /\ r.value \in Rejected THEN "error"
                   ELSE "ok"
           net == IF t.state = "open" THEN Append(t.net, [to |-> r.id, kind |-> kind]) ELSE t.net
           session == IF r.op \in SessionOps /\ kind = "ok"
                      THEN [t.settings EXCEPT ![r.op] = r.value] ELSE t.settings
           multi == (t.multi \/ r.op = "multi") /\ r.op # "exec"
           members == IF queues THEN Append(t.members, r.id)
                      ELSE IF r.op = "exec" THEN <<>> ELSE t.members
           quit == r.op = "quit"
           after == [t EXCEPT !.wire = Tail(t.wire), !.net = net, !.settings = session,
                              !.multi = multi, !.members = members, !.quit = quit]
<1>1. tcp' = [tcp EXCEPT ![c] = after]
  BY DEF ServerExecute
<1>2. /\ t \in TcpType /\ t.wire # <<>> /\ CalmTcp(t, s) /\ tcp \in [Connections -> TcpType]
  BY DEF TypeInv, TypeOK, TcpTypeOK, ServerExecute, Calm
<1>3. r \in Allowed(s) /\ Tail(t.wire) \in Seq(Allowed(s)) /\ t.net \in Seq(Completing) /\ ~t.multi
        /\ t.writing \in Seq(Allowed(s)) /\ ~t.abort
  BY <1>2, HeadTailProperties DEF CalmTcp
<1>4. r.op # "multi" /\ (r.op = "quit" => s) /\ r.id \in Ids \cup {Internal}
  BY <1>3 DEF Allowed, Mundane, Request
<1>5. net \in Seq(Completing)
  <2>1. [to |-> r.id, kind |-> kind] \in Completing
    BY <1>3, <1>4 DEF Completing, Reply
  <2> HIDE DEF kind, r, t
  <2> QED BY <1>3, <2>1
<1>6. ~multi /\ (quit => s)
  BY <1>3, <1>4
<1>7. /\ after.wire = Tail(t.wire) /\ after.net = net /\ after.multi = multi
      /\ after.quit = quit /\ after.writing = t.writing /\ after.abort = t.abort
  <2> HIDE DEF t, r, net, session, multi, members, quit
  <2> QED BY <1>2 DEF TcpType
<1> HIDE DEF after, net, multi, quit
<1>8. CalmTcp(after, s)
  BY <1>3, <1>5, <1>6, <1>7 DEF CalmTcp
<1> QED BY <1>1, <1>2, <1>8

LEMMA CalmReads ==
    ASSUME TypeInv, CalmInv, NEW c \in Connections, TcpRead(c)
    PROVE  Calm /\ lbox' \in Seq(CalmMessage(isShuttingDown))
             /\ CalmTcp(tcp'[c], isShuttingDown) /\ \A e \in Connections \ {c} : tcp'[e] = tcp[e]
<1> DEFINE s == isShuttingDown
<1>1. /\ tcp[c] \in TcpType /\ tcp[c].net \in Seq(Completing) /\ tcp[c].half \in BOOLEAN
      /\ CalmTcp(tcp[c], s) /\ tcp \in [Connections -> TcpType]
      /\ lbox \in Seq(CalmMessage(s)) /\ Calm
  BY DEF TypeInv, TypeOK, TcpTypeOK, TcpType, CalmInv, Calm, CalmTcp
<1>2. PICK n \in 0..Len(tcp[c].net), splits \in BOOLEAN :
        /\ splits => n < Len(tcp[c].net)
        /\ lbox' = AfterTellingListener(lbox,
              <<[type |-> "Received",
                 data |-> [resumes |-> tcp[c].half,
                           replies |-> SubSeq(tcp[c].net, 1, n),
                           rest |-> IF splits THEN <<tcp[c].net[n + 1]>> ELSE <<>>]]>>)
        /\ tcp' = [tcp EXCEPT ![c].net = SubSeq(@, n + 1, Len(@)), ![c].half = splits]
  BY DEF TcpRead
<1> DEFINE rest == IF splits THEN <<tcp[c].net[n + 1]>> ELSE <<>>
           read == SubSeq(tcp[c].net, 1, n)
           unread == SubSeq(tcp[c].net, n + 1, Len(tcp[c].net))
           data == [resumes |-> tcp[c].half, replies |-> read, rest |-> rest]
           msg == [type |-> "Received", data |-> data]
<1>3. n \in Nat /\ n <= Len(tcp[c].net) /\ Len(tcp[c].net) \in Nat
  BY <1>1, <1>2
<1>4. read \in Seq(Completing) /\ unread \in Seq(Completing)
  BY <1>1, <1>3, SubSeqType
<1>5. rest \in Seq(Completing)
  <2>1. splits => tcp[c].net[n + 1] \in Completing
    BY <1>1, <1>2, <1>3
  <2>2. <<>> \in Seq(Completing)
    OBVIOUS
  <2> QED BY <2>1, <2>2
<1>6. lbox' \in Seq(CalmMessage(s))
  <2>1. lbox' = AfterTellingListener(lbox, <<msg>>)
    BY <1>2
  <2> HIDE DEF read, rest
  <2>2. read \in Seq(Reply) /\ rest \in Seq(Reply)
    BY <1>4, <1>5, SeqGrows DEF Completing
  <2>3. data \in Data /\ data.replies = read /\ data.rest = rest
    BY <1>1, <2>2 DEF Data
  <2> HIDE DEF data
  <2>4. msg \in ListenerMessage /\ msg.type = "Received" /\ msg.data = data
    BY <2>3 DEF ListenerMessage
  <2> HIDE DEF msg
  <2>5. msg \in CalmMessage(s)
    BY <1>4, <1>5, <2>3, <2>4 DEF CalmMessage
  <2> QED BY <1>1, <2>1, <2>5, CalmHeard
<1>7. tcp' = [tcp EXCEPT ![c] = [tcp[c] EXCEPT !.net = unread, !.half = splits]]
  BY <1>1, <1>2
<1> HIDE DEF unread
<1>8. CalmTcp([tcp[c] EXCEPT !.net = unread, !.half = splits], s)
  BY <1>1, <1>4 DEF CalmTcp, TcpType
<1> QED BY <1>1, <1>6, <1>7, <1>8

LEMMA CalmCloses ==
    ASSUME TypeInv, Calm, NEW c \in Connections, Closes(c)
    PROVE  CalmTcp(tcp'[c], isShuttingDown) /\ \A e \in Connections \ {c} : tcp'[e] = tcp[e]
<1> DEFINE s == isShuttingDown
<1>1. tcp[c] \in TcpType /\ CalmTcp(tcp[c], s) /\ tcp \in [Connections -> TcpType]
        /\ tcp[c].writing \in Seq(Allowed(s)) /\ tcp[c].wire \in Seq(Allowed(s))
  BY DEF TypeInv, TypeOK, TcpTypeOK, Calm, CalmTcp
<1>2. PICK n \in 0..Len(tcp[c].writing) :
         tcp' = [tcp EXCEPT ![c].state = "closed", ![c].abort = FALSE, ![c].net = <<>>,
                            ![c].half = FALSE, ![c].writing = <<>>,
                            ![c].wire = @ \o SubSeq(tcp[c].writing, 1, n)]
  BY DEF Closes
<1> DEFINE wire == tcp[c].wire \o SubSeq(tcp[c].writing, 1, n)
           closed == [tcp[c] EXCEPT !.state = "closed", !.abort = FALSE, !.net = <<>>,
                                    !.half = FALSE, !.writing = <<>>, !.wire = wire]
<1>3. SubSeq(tcp[c].writing, 1, n) \in Seq(Allowed(s))
  BY <1>1, <1>2, SubSeqType
<1>4. wire \in Seq(Allowed(s))
  BY <1>1, <1>3
<1>5. tcp' = [tcp EXCEPT ![c] = closed]
  BY <1>1, <1>2
<1> HIDE DEF wire
<1>6. CalmTcp(closed, s)
  BY <1>1, <1>4 DEF CalmTcp, TcpType
<1> HIDE DEF closed
<1> QED BY <1>1, <1>5, <1>6

LEMMA ConnectionsCalm ==
    ASSUME TypeInv, CalmInv, Undropped, NEW c \in Connections,
           \/ TcpConnect(c) \/ TcpWrite(c) \/ TcpRead(c) \/ TcpAbort(c) \/ TcpQuit(c)
           \/ ServerExecute(c) \/ ServerSkip(c)
           \/ TcpConnectFail(c) \/ TcpWriteFail(c) \/ TcpDrop(c)
    PROVE  /\ CalmActor(io'[c], isShuttingDown) /\ CalmTcp(tcp'[c], isShuttingDown)
           /\ \A e \in Connections \ {c} : io'[e] = io[e] /\ tcp'[e] = tcp[e]
           /\ UNCHANGED lbox \/ TcpRead(c)
           /\ lbox' \in Seq(CalmMessage(isShuttingDown))
<1> DEFINE s == isShuttingDown
<1>1. /\ io \in [Connections -> IOType] /\ tcp \in [Connections -> TcpType]
      /\ io[c] \in IOType /\ tcp[c] \in TcpType /\ s \in BOOLEAN
      /\ CalmActor(io[c], s) /\ CalmTcp(tcp[c], s) /\ Calm
      /\ lbox \in Seq(CalmMessage(s))
  BY DEF TypeInv, TypeOK, LTypeOK, TcpTypeOK, CalmInv, Calm
<1>2. ASSUME NEW t \in {"Connected", "ConnectFailed", "WriteAck", "WriteFailed", "Terminated"},
             t = "Terminated" => s, TellIO(c, t)
      PROVE  CalmActor(io'[c], s) /\ \A e \in Connections \ {c} : io'[e] = io[e]
  <2>1. Signal(t) \in CalmIO(s) /\ Signal(t).type # "Request"
    BY <1>1, <1>2, CalmSignals DEF Signal, IOSignals
  <2>2. CalmActor(Told(io[c], <<Signal(t)>>), s)
    BY <1>1, <2>1, CalmTold
  <2> QED BY <1>1, <1>2, <2>2 DEF TellIO
<1>3. CASE TcpConnect(c) \/ TcpConnectFail(c)
  <2>1. UNCHANGED lbox /\ (TellIO(c, "Connected") \/ TellIO(c, "ConnectFailed"))
          /\ \E st : tcp' = [tcp EXCEPT ![c] = [tcp[c] EXCEPT !.state = st]]
    BY <1>1, <1>3 DEF TcpConnect, TcpConnectFail
  <2>2. CalmActor(io'[c], s) /\ \A e \in Connections \ {c} : io'[e] = io[e]
    BY <1>2, <2>1
  <2>3. PICK st : tcp' = [tcp EXCEPT ![c] = [tcp[c] EXCEPT !.state = st]]
    BY <2>1
  <2>4. CalmTcp([tcp[c] EXCEPT !.state = st], s)
    BY <1>1, CalmUpdates
  <2> QED BY <1>1, <2>1, <2>2, <2>3, <2>4
<1>4. CASE TcpWrite(c) \/ TcpWriteFail(c)
  <2>1. /\ UNCHANGED lbox /\ (TellIO(c, "WriteAck") \/ TellIO(c, "WriteFailed"))
        /\ \/ tcp' = [tcp EXCEPT ![c] = [tcp[c] EXCEPT !.writing = <<>>]]
           \/ tcp' = [tcp EXCEPT ![c] = [tcp[c] EXCEPT !.wire = tcp[c].wire \o tcp[c].writing,
                                                       !.writing = <<>>]]
    BY <1>1, <1>4 DEF TcpWrite, TcpWriteFail
  <2>2. CalmActor(io'[c], s) /\ \A e \in Connections \ {c} : io'[e] = io[e]
    BY <1>2, <2>1
  <2>3. CalmTcp(tcp'[c], s) /\ \A e \in Connections \ {c} : tcp'[e] = tcp[e]
    BY <1>1, <2>1, CalmUpdates
  <2> QED BY <1>1, <2>1, <2>2, <2>3
<1>5. CASE TcpRead(c)
  BY <1>1, <1>5, CalmReads DEF TcpRead
<1>6. ~TcpAbort(c) /\ ~TcpDrop(c)
  BY <1>1 DEF CalmTcp, TcpAbort, TcpDrop, Fault, Undropped
<1>7. CASE TcpQuit(c)
  <2>1. Closes(c) /\ s
    BY <1>1, <1>7 DEF TcpQuit, CalmTcp
  <2>2. TellIO(c, "Terminated") /\ UNCHANGED lbox
    BY <2>1 DEF Closes
  <2>3. CalmActor(io'[c], s) /\ \A e \in Connections \ {c} : io'[e] = io[e]
    BY <1>2, <2>1, <2>2
  <2> QED BY <1>1, <2>1, <2>2, <2>3, CalmCloses
<1>8. CASE ServerExecute(c)
  <2>1. UNCHANGED <<lbox, io>>
    BY <1>8 DEF ServerExecute
  <2> QED BY <1>1, <1>8, <2>1, CalmExecutes
<1>9. CASE ServerSkip(c)
  <2>1. UNCHANGED <<lbox, io>> /\ tcp[c].wire # <<>>
          /\ tcp' = [tcp EXCEPT ![c] = [tcp[c] EXCEPT !.wire = Tail(tcp[c].wire)]]
    BY <1>1, <1>9 DEF ServerSkip
  <2> QED BY <1>1, <2>1, CalmUpdates
<1> QED BY <1>3, <1>4, <1>5, <1>6, <1>7, <1>8, <1>9

(* The listener.                                                           *)
LEMMA MundaneConcat ==
    ASSUME NEW S, NEW x \in Seq(S), NEW y \in Seq(S)
    PROVE  x \o y \in Seq(S)
OBVIOUS

LEMMA MundaneInit ==
    ASSUME NEW g \in SettingsType
    PROVE  InitRequests(g) \in Seq(Mundane)
<1>1. \A op \in SessionOps : InitRequest(op, g) \in Seq(Mundane)
  <2> TAKE op \in SessionOps
  <2>1. [id |-> Internal, op |-> op, value |-> g[op]] \in Request /\ op # "multi"
    BY DEF Request, Ops, SettingsType, SessionOps
  <2>2. [id |-> Internal, op |-> op, value |-> g[op]] \in Mundane
    BY <2>1 DEF Mundane
  <2>3. <<>> \in Seq(Mundane) /\ <<[id |-> Internal, op |-> op, value |-> g[op]]>> \in Seq(Mundane)
    BY <2>2
  <2> QED BY <2>3 DEF InitRequest
<1>2. InitRequest("auth", g) \o InitRequest("select", g) \in Seq(Mundane)
  BY <1>1, MundaneConcat DEF SessionOps
<1> QED BY <1>1, <1>2, MundaneConcat DEF InitRequests, SessionOps

(* The first message of the listener.                                      *)
LEMMA CalmFirst ==
    ASSUME TypeInv, CalmInv, NEW type, Receives(type)
    PROVE  /\ lbox # <<>> /\ Tail(lbox) \in Seq(CalmMessage(isShuttingDown))
           /\ Head(lbox) \in ListenerMessage
           /\ type \notin {"Remove", "Abort", "ReceiveTimeout", "Transaction"}
           /\ type = "Request" => Handed \in Seq(Mundane) /\ Len(Handed) = 1
           /\ type = "Shutdown" => isShuttingDown
           /\ type = "Received" => /\ Head(lbox).data.replies \in Seq(Completing)
                                   /\ Head(lbox).data.rest \in Seq(Completing)
<1>1. lbox \in Seq(CalmMessage(isShuttingDown)) /\ lbox # <<>> /\ Head(lbox).type = type
  BY DEF CalmInv, Receives
<1>2. Head(lbox) \in CalmMessage(isShuttingDown) /\ Tail(lbox) \in Seq(CalmMessage(isShuttingDown))
  BY <1>1, HeadTailProperties
<1>3. \A m \in CalmMessage(isShuttingDown) :
        /\ m \in ListenerMessage
        /\ m.type \notin {"Remove", "Abort", "ReceiveTimeout", "Transaction"}
        /\ m.type = "Request" => m.reqs \in Seq(Mundane)
        /\ m.type = "Shutdown" => isShuttingDown
        /\ m.type = "Received" => m.data.replies \in Seq(Completing) /\ m.data.rest \in Seq(Completing)
  BY DEF CalmMessage
<1>4. \A m \in ListenerMessage : m.type = "Request" => Len(m.reqs) = 1
  BY DEF ListenerMessage, ListenerSignals, Item
<1> QED BY <1>1, <1>2, <1>3, <1>4 DEF Handed

(* What it hands to its IOActor while it is not shutting down.             *)
LEMMA CalmSends ==
    ASSUME TypeInv, Calm, ~isShuttingDown, NEW rs \in Seq(Mundane), NEW before, NEW q, NEW set,
           Send(rs, before, q, set), UNCHANGED tcp
    PROVE  Calm' /\ isShuttingDown' \in BOOLEAN
<1> DEFINE u == isShuttingDown'
<1>1. /\ io \in [Connections -> IOType] /\ epoch \in Connections /\ io[epoch] \in IOType
      /\ isShuttingDown = FALSE
  BY DEF TypeInv, TypeOK, LTypeOK
<1>2. io' = [io EXCEPT ![epoch] = Told(@, IORequests(rs))] /\ u = HasQuit(rs)
  BY <1>1 DEF Send, HasQuit
<1>3. u \in BOOLEAN
  BY <1>2 DEF HasQuit
<1>4. rs \in Seq(Allowed(u))
  <2>1. Len(rs) \in Nat /\ DOMAIN rs = 1..Len(rs) /\ \A i \in DOMAIN rs : rs[i] \in Mundane
    BY SeqItems
  <2>2. \A i \in DOMAIN rs : rs[i].op = "quit" => u
    BY <1>2 DEF HasQuit
  <2>3. \A i \in 1..Len(rs) : rs[i] \in Allowed(u)
    BY <2>1, <2>2 DEF Allowed
  <2> HIDE DEF u
  <2>4. rs = [i \in 1..Len(rs) |-> rs[i]]
    OBVIOUS
  <2> QED BY <2>1, <2>3, <2>4
<1>5. \A c \in Connections : CalmActor(io[c], FALSE) /\ CalmTcp(tcp[c], FALSE)
  BY <1>1 DEF Calm
<1>6. CalmActor(Told(io[epoch], IORequests(rs)), u)
  BY <1>1, <1>3, <1>4, <1>5, CalmSent
<1>7. \A c \in Connections : CalmActor(io[c], u) /\ CalmTcp(tcp[c], u)
  BY <1>3, <1>5, CalmGrows
<1>8. \A c \in Connections : CalmActor(io'[c], u) /\ CalmTcp(tcp'[c], u)
  BY <1>1, <1>2, <1>6, <1>7
<1> QED BY <1>3, <1>8 DEF Calm

LEMMA CalmReconnects ==
    ASSUME TypeInv, Calm, Reconnect, UNCHANGED <<tcp, isShuttingDown>>
    PROVE  Calm'
<1>1. io \in [Connections -> IOType] /\ isShuttingDown \in BOOLEAN
  BY DEF TypeInv, TypeOK, LTypeOK
<1>2. \A c \in Connections : io'[c] \in {io[c], NewIOActor}
  BY <1>1 DEF Reconnect
<1>3. CalmActor(NewIOActor, isShuttingDown)
  BY <1>1, CalmNewActors
<1> QED BY <1>2, <1>3 DEF Calm

(* The first replies pair with a half that was kept.                       *)
LEMMA CalmParsed ==
    ASSUME TypeInv, CalmInv, NEW data \in Data, data.replies \in Seq(Completing)
    PROVE  Parsed(data) \in Seq(Completing)
<1>1. remaining \in Seq(Completing)
  BY DEF CalmInv
<1>2. CASE remaining = <<>> \/ data.replies = <<>>
  BY <1>2 DEF Parsed
<1>3. CASE remaining # <<>> /\ data.replies # <<>>
  <2>1. Head(remaining) \in Completing /\ Tail(data.replies) \in Seq(Completing)
    BY <1>1, <1>3, HeadTailProperties
  <2>2. [to |-> Head(remaining).to, kind |-> "garbled"] \in Completing
    BY <2>1 DEF Completing, Reply
  <2> QED BY <1>3, <2>1, <2>2 DEF Parsed
<1> QED BY <1>2, <1>3

NoPills == \A d \in Decoders : NoneOf(dbox[d], {"PoisonPill"})

LEMMA LiveNoPills ==
    ASSUME LifeInv, CalmInv, lstate \notin Down
    PROVE  NoPills /\ ~shutBefore
BY DEF LifeInv, CalmInv, OneLives, NoPills

LEMMA CalmReceives ==
    ASSUME TypeInv, CalmInv, NoPills, Receives("Received"), ReceiveData(Head(lbox).data)
    PROVE  /\ remaining' \in Seq(Completing)
           /\ dbox' \in [Decoders -> Seq(CalmPart)]
           /\ PillsLast'
<1> DEFINE data == Head(lbox).data
           replies == Parsed(data)
           count == IF Len(replies) > Len(requests) THEN Len(requests) ELSE Len(replies)
           p == [type |-> "Partition", replies |-> replies,
                 reqs |-> SubSeq(requests, 1, count), skip |-> Len(replies) - count]
<1>1. LInv /\ data \in Data /\ data.replies \in Seq(Completing) /\ data.rest \in Seq(Completing)
        /\ remaining \in Seq(Completing) /\ dbox \in [Decoders -> Seq(CalmPart)]
        /\ lbox \in Seq(ListenerMessage)
  BY CalmFirst, ReceivedType DEF TypeInv, TypeOK, LTypeOK, LInv, CalmInv
<1>2. replies \in Seq(Completing) /\ requests \in Seq(Request)
  BY <1>1, CalmParsed DEF LInv, LTypeOK
<1>3. count \in Nat /\ count <= Len(requests) /\ count <= Len(replies)
  BY <1>2
<1>4. remaining' \in Seq(Completing)
  BY <1>1 DEF ReceiveData
<1>5. dbox' = dbox \/ \E d \in Decoders : dbox' = [dbox EXCEPT ![d] = Append(@, p)]
  BY DEF ReceiveData
<1>6. p \in CalmPart /\ p.type = "Partition"
  <2> HIDE DEF replies, count
  <2>1. SubSeq(requests, 1, count) \in Seq(Request) /\ Len(SubSeq(requests, 1, count)) = count
    BY <1>2, <1>3, SubSeqType
  <2>2. replies \in Seq(Reply)
    BY <1>2, SeqGrows DEF Completing
  <2>3. p \in Partition /\ p.replies = replies /\ p.type = "Partition"
    BY <1>2, <1>3, <2>1, <2>2 DEF Partition
  <2> HIDE DEF p
  <2> QED BY <1>2, <2>3 DEF CalmPart, DecoderMessage
<1> HIDE DEF p
<1>7. dbox' \in [Decoders -> Seq(CalmPart)]
  <2>1. \A d \in Decoders : Append(dbox[d], p) \in Seq(CalmPart)
    BY <1>1, <1>6
  <2> QED BY <1>1, <1>5, <2>1
<1>8. \A d \in Decoders : NoneOf(dbox'[d], {"PoisonPill"})
  <2>1. ASSUME NEW d \in Decoders PROVE NoneOf(Append(dbox[d], p), {"PoisonPill"})
    <3>1. dbox[d] \in Seq(CalmPart) /\ NoneOf(dbox[d], {"PoisonPill"})
      BY <1>1 DEF NoPills
    <3>2. \A k \in DOMAIN Append(dbox[d], p) :
             \/ k \in DOMAIN dbox[d] /\ Append(dbox[d], p)[k] = dbox[d][k]
             \/ Append(dbox[d], p)[k] = p
      BY <3>1
    <3> QED BY <1>6, <3>1, <3>2 DEF NoneOf
  <2> QED BY <1>1, <1>5, <2>1 DEF NoPills
<1>9. PillsLast'
  BY <1>8 DEF PillsLast, NoneOf
<1> QED BY <1>4, <1>7, <1>9

LEMMA CalmPoisons ==
    ASSUME CalmInv, NoPills, PoisonDecoders
    PROVE  dbox' \in [Decoders -> Seq(CalmPart)] /\ PillsLast' /\ lstate' \in Down
<1> DEFINE pill == Signal("PoisonPill")
<1>1. pill \in CalmPart /\ dbox \in [Decoders -> Seq(CalmPart)]
  BY DEF Signal, CalmPart, DecoderMessage, CalmInv
<1>2. dbox' = [d \in Decoders |-> IF d \in deadDecoders THEN dbox[d] ELSE Append(dbox[d], pill)]
  BY DEF PoisonDecoders
<1> HIDE DEF pill
<1>3. \A d \in Decoders : Append(dbox[d], pill) \in Seq(CalmPart)
  BY <1>1
<1>4. ASSUME NEW d \in Decoders, NEW k \in DOMAIN dbox'[d], dbox'[d][k].type = "PoisonPill"
      PROVE  k = Len(dbox'[d])
  <2>1. dbox[d] \in Seq(CalmPart) /\ \A j \in DOMAIN dbox[d] : dbox[d][j].type # "PoisonPill"
    BY <1>1 DEF NoPills, NoneOf
  <2>2. dbox'[d] = Append(dbox[d], pill)
    BY <1>2, <1>4, <2>1
  <2>3. k \in DOMAIN dbox[d] \/ k = Len(dbox'[d])
    BY <2>1, <2>2
  <2>4. k \in DOMAIN dbox[d] => dbox'[d][k] = dbox[d][k]
    BY <2>1, <2>2
  <2> QED BY <1>4, <2>1, <2>3, <2>4
<1>5. PillsLast'
  BY <1>4 DEF PillsLast
<1> QED BY <1>1, <1>2, <1>3, <1>5 DEF PoisonDecoders, Down

LEMMA ListenerCalm ==
    ASSUME TypeInv, LifeInv, CalmInv, Undropped, LNext, UNCHANGED tcp
    PROVE  CalmInv'
<1> DEFINE s == isShuttingDown
           u == isShuttingDown'
<1>1. /\ io \in [Connections -> IOType] /\ epoch \in Connections /\ io[epoch] \in IOType
      /\ s \in BOOLEAN /\ lbox \in Seq(ListenerMessage) /\ settings \in SettingsType
      /\ queued \in Seq(Mundane) /\ remaining \in Seq(Completing)
      /\ dbox \in [Decoders -> Seq(CalmPart)] /\ PillsLast /\ Calm
      /\ lbox \in Seq(CalmMessage(s))
      /\ shutBefore => lstate \in Down
  BY DEF TypeInv, TypeOK, LTypeOK, CalmInv
<1>2. NeverTimesOut /\ (s => lstate \in {"shuttingDown"} \cup Down /\ ~shutBefore)
  BY DEF Undropped, NeverTimesOut, LifeInv, QuitStates
<1>3. lstate \notin Down => NoPills /\ ~shutBefore
  BY LiveNoPills
<1>4. ASSUME NEW t, Receives(t), Consume, u \in BOOLEAN, s => u
      PROVE  lbox' \in Seq(CalmMessage(u))
  <2>1. lbox' \in Seq(CalmMessage(s))
    BY <1>4, CalmFirst DEF Consume
  <2>2. CalmMessage(s) \subseteq CalmMessage(u)
    BY <1>1, <1>4, CalmGrows
  <2> QED BY <2>1, <2>2, SeqGrows
<1>5. IsItem => Receives("Request") /\ Handed \in Seq(Mundane) /\ Len(Handed) = 1
  BY CalmFirst DEF IsItem
<1>6. IsItem => Enqueued \in Seq(Mundane)
  BY <1>1, <1>5, MundaneConcat DEF Enqueued
<1>7. ASSUME UNCHANGED <<io, isShuttingDown>> PROVE Calm'
  BY <1>1, <1>7 DEF Calm
<1>8. <<>> \in Seq(Mundane)
  OBVIOUS
<1>9. ASSUME UNCHANGED dbox PROVE dbox' \in [Decoders -> Seq(CalmPart)] /\ PillsLast'
  BY <1>1, <1>9 DEF PillsLast
<1>10. ASSUME FailItem \/ QueueItem PROVE CalmInv'
  <2>1. /\ IsItem /\ Consume /\ UNCHANGED <<io, dbox, lstate, shutBefore, isShuttingDown, remaining>>
        /\ queued' = queued \/ queued' = Enqueued
    BY <1>10 DEF FailItem, QueueItem, listenerVars, connecting
  <2>2. lbox' \in Seq(CalmMessage(u))
    BY <1>1, <1>4, <1>5, <2>1
  <2> QED BY <1>1, <1>6, <1>7, <1>9, <2>1, <2>2 DEF CalmInv
<1>11. ASSUME SendItem PROVE CalmInv'
  <2>1. /\ IsItem /\ Consume /\ lstate = "initialized" /\ UNCHANGED <<dbox, remaining, shutBefore>>
        /\ Send(Handed, requests, queued, timerSet)
    BY <1>5, <1>11 DEF SendItem, connecting
  <2>2. ~s /\ ~shutBefore
    BY <1>1, <1>2, <2>1 DEF Down
  <2>3. Calm' /\ u \in BOOLEAN
    BY <1>1, <1>5, <2>1, <2>2, CalmSends
  <2>4. lbox' \in Seq(CalmMessage(u))
    BY <1>4, <1>5, <2>1, <2>2, <2>3
  <2>5. queued' = queued
    BY <2>1 DEF Send
  <2> QED BY <1>1, <1>9, <2>1, <2>2, <2>3, <2>4, <2>5 DEF CalmInv
<1>12. ASSUME QuitWhileConnecting PROVE CalmInv'
  <2>1. /\ Receives("Request") /\ Consume /\ lstate = "connecting" /\ queued' = <<>>
        /\ PoisonDecoders /\ UNCHANGED <<io, remaining, isShuttingDown>>
    BY <1>12 DEF QuitWhileConnecting
  <2>2. dbox' \in [Decoders -> Seq(CalmPart)] /\ PillsLast' /\ lstate' \in Down
    BY <1>3, <2>1, CalmPoisons DEF Down
  <2>3. lbox' \in Seq(CalmMessage(u))
    BY <1>1, <1>4, <2>1
  <2> QED BY <1>1, <1>7, <1>8, <2>1, <2>2, <2>3 DEF CalmInv
<1>13. ASSUME ItemWhileConnecting PROVE CalmInv'
  <2>1. /\ IsItem /\ Consume /\ lstate = "connecting"
        /\ UNCHANGED <<dbox, remaining, isShuttingDown, shutBefore>>
        /\ queued' = queued \/ queued' = Enqueued
        /\ UNCHANGED io \/ Reconnect
    BY <1>13 DEF ItemWhileConnecting, ReconnectUnlessConnecting
  <2>2. lbox' \in Seq(CalmMessage(u))
    BY <1>1, <1>4, <1>5, <2>1
  <2>3. Calm'
    BY <1>1, <1>7, <2>1, CalmReconnects
  <2>4. ~shutBefore'
    BY <1>3, <2>1 DEF Down
  <2> QED BY <1>1, <1>6, <1>9, <2>1, <2>2, <2>3, <2>4 DEF CalmInv
<1>14. ASSUME OnConnected PROVE CalmInv'
  <2>1. /\ Receives("Connected") /\ Consume /\ lstate = "connecting"
        /\ UNCHANGED <<dbox, remaining, shutBefore>>
        /\ \/ Send(InitRequests(settings), requests, queued, timerSet)
           \/ Send(queued, requests, <<>>, timerSet)
    BY <1>14 DEF OnConnected, SendAllQueued
  <2>2. ~s /\ ~shutBefore
    BY <1>1, <1>2, <2>1 DEF Down
  <2>3. Calm' /\ u \in BOOLEAN /\ queued' \in {queued, <<>>}
    <3>1. InitRequests(settings) \in Seq(Mundane)
      BY <1>1, MundaneInit
    <3>2. CASE Send(InitRequests(settings), requests, queued, timerSet)
      BY <1>1, <2>2, <3>1, <3>2, CalmSends DEF Send
    <3>3. CASE Send(queued, requests, <<>>, timerSet)
      BY <1>1, <2>2, <3>3, CalmSends DEF Send
    <3> QED BY <2>1, <3>2, <3>3
  <2>4. lbox' \in Seq(CalmMessage(u))
    BY <1>4, <2>1, <2>2, <2>3
  <2> QED BY <1>1, <1>8, <1>9, <2>1, <2>2, <2>3, <2>4 DEF CalmInv
<1>15. ~OnConnectedAfterQuit /\ ~HandleReceiveTimeout /\ ~OnRemove /\ ~OnAbort
  <2>1. ~OnConnectedAfterQuit
    BY <1>3 DEF OnConnectedAfterQuit, Down
  <2>2. ~Receives("ReceiveTimeout") /\ ~Receives("Remove") /\ ~Receives("Abort")
    BY CalmFirst
  <2> QED BY <2>1, <2>2 DEF HandleReceiveTimeout, OnRemove, OnAbort, Acknowledge
<1>16. ASSUME Receive PROVE CalmInv'
  <2>1. /\ Receives("Received") /\ Consume /\ lstate \notin Down /\ ReceiveData(Head(lbox).data)
        /\ UNCHANGED <<io, isShuttingDown, shutBefore, queued, lstate>>
    BY <1>16 DEF Receive, connecting, Down
  <2>2. remaining' \in Seq(Completing) /\ dbox' \in [Decoders -> Seq(CalmPart)] /\ PillsLast'
    BY <1>3, <2>1, CalmReceives
  <2>3. lbox' \in Seq(CalmMessage(u))
    BY <1>1, <1>4, <2>1
  <2> QED BY <1>1, <1>3, <1>7, <2>1, <2>2, <2>3 DEF CalmInv
<1>17. ASSUME ReceiveInitializing PROVE CalmInv'
  <2>1. /\ Receives("Received") /\ Consume /\ lstate = "initializing" /\ ReceiveData(Head(lbox).data)
        /\ UNCHANGED shutBefore
        /\ \/ \E before : Send(queued, before, <<>>, FALSE)
           \/ UNCHANGED <<io, isShuttingDown, queued>>
    BY <1>17 DEF ReceiveInitializing, SendAllQueued, connecting
  <2>2. remaining' \in Seq(Completing) /\ dbox' \in [Decoders -> Seq(CalmPart)] /\ PillsLast'
    BY <1>3, <2>1, CalmReceives DEF Down
  <2>3. ~s /\ ~shutBefore
    BY <1>2, <1>3, <2>1 DEF Down
  <2>4. Calm' /\ u \in BOOLEAN /\ queued' \in {queued, <<>>}
    <3>1. CASE UNCHANGED <<io, isShuttingDown, queued>>
      BY <1>1, <1>7, <3>1
    <3>2. CASE \E before : Send(queued, before, <<>>, FALSE)
      BY <1>1, <2>3, <3>2, CalmSends DEF Send
    <3> QED BY <2>1, <3>1, <3>2
  <2>5. lbox' \in Seq(CalmMessage(u))
    BY <1>4, <2>1, <2>3, <2>4
  <2> QED BY <1>1, <1>8, <2>1, <2>2, <2>3, <2>4, <2>5 DEF CalmInv
<1>18. ASSUME OnShutdown PROVE CalmInv'
  <2>1. /\ Receives("Shutdown") /\ Consume
        /\ io' = [io EXCEPT ![epoch] = Told(@, <<Signal("ShutdownAck")>>)]
        /\ UNCHANGED <<dbox, remaining, shutBefore, isShuttingDown, queued>>
    BY <1>18 DEF OnShutdown, Acknowledge, connecting, sending
  <2>2. s /\ ~shutBefore
    BY <1>2, <2>1, CalmFirst
  <2>3. lbox' \in Seq(CalmMessage(u))
    BY <1>1, <1>4, <2>1
  <2>4. CalmActor(Told(io[epoch], <<Signal("ShutdownAck")>>), s)
    <3>1. Signal("ShutdownAck") \in CalmIO(s) /\ Signal("ShutdownAck").type # "Request"
      BY <1>1, CalmSignals DEF Signal, IOSignals
    <3> QED BY <1>1, <3>1, CalmTold DEF Calm
  <2>5. Calm'
    BY <1>1, <2>1, <2>4 DEF Calm
  <2> QED BY <1>1, <1>9, <2>1, <2>2, <2>3, <2>5 DEF CalmInv
<1>19. ASSUME TerminatedConnecting \/ TerminatedInitializing \/ TerminatedConnected PROVE CalmInv'
  <2>1. /\ Receives("Terminated") /\ Consume /\ lstate \notin Down
        /\ UNCHANGED <<dbox, remaining, shutBefore, isShuttingDown>>
        /\ queued' \in {queued, <<>>}
        /\ UNCHANGED io \/ Reconnect
    BY <1>19 DEF TerminatedConnecting, TerminatedInitializing, TerminatedConnected, FailQueued, Down
  <2>2. lbox' \in Seq(CalmMessage(u))
    BY <1>1, <1>4, <2>1
  <2>3. Calm'
    BY <1>1, <1>7, <2>1, CalmReconnects
  <2> QED BY <1>1, <1>3, <1>8, <1>9, <2>1, <2>2, <2>3 DEF CalmInv
<1>20. ASSUME TerminatedShuttingDown PROVE CalmInv'
  <2>1. /\ Receives("Terminated") /\ Consume /\ lstate = "shuttingDown" /\ PoisonDecoders
        /\ UNCHANGED <<io, remaining, shutBefore, isShuttingDown, queued>>
    BY <1>20 DEF TerminatedShuttingDown, connecting, sending
  <2>2. dbox' \in [Decoders -> Seq(CalmPart)] /\ PillsLast' /\ lstate' \in Down
    BY <1>3, <2>1, CalmPoisons DEF Down
  <2>3. lbox' \in Seq(CalmMessage(u))
    BY <1>1, <1>4, <2>1
  <2> QED BY <1>1, <1>7, <2>1, <2>2, <2>3 DEF CalmInv
<1>21. ASSUME TerminatedAwaitingDecoders PROVE CalmInv'
  <2>1. /\ Receives("Terminated") /\ lstate \in Down /\ lstate' \in Down
        /\ UNCHANGED <<remaining, shutBefore, isShuttingDown, queued>>
        /\ Consume \/ lbox' = <<>>
        /\ \/ UNCHANGED dbox
           \/ dbox' = [d \in Decoders |-> <<>>]
        /\ UNCHANGED io \/ \A e \in Connections : io'[e] \in {io[e], Stopped}
    BY <1>21 DEF TerminatedAwaitingDecoders, sending, Down
  <2>2. lbox' \in Seq(CalmMessage(u))
    <3>1. <<>> \in Seq(CalmMessage(u))
      OBVIOUS
    <3> QED BY <1>1, <1>4, <2>1, <3>1
  <2>3. Calm'
    <3>1. CalmActor(Stopped, s)
      BY <1>1, CalmNewActors
    <3> QED BY <1>1, <2>1, <3>1 DEF Calm
  <2>4. dbox' \in [Decoders -> Seq(CalmPart)] /\ PillsLast'
    <3>1. CASE dbox' = [d \in Decoders |-> <<>>]
      <4>1. \A d \in Decoders : dbox'[d] = <<>> /\ <<>> \in Seq(CalmPart)
        BY <3>1
      <4> QED BY <3>1, <4>1 DEF PillsLast
    <3> QED BY <1>9, <2>1, <3>1
  <2> QED BY <1>1, <2>1, <2>2, <2>3, <2>4 DEF CalmInv
<1>22. ASSUME Ignore PROVE CalmInv'
  <2>1. (\E t : Receives(t)) /\ Consume
        /\ UNCHANGED <<io, dbox, lstate, remaining, shutBefore, isShuttingDown, queued>>
    BY <1>22 DEF Ignore, Ignored, listenerVars
  <2>2. lbox' \in Seq(CalmMessage(u))
    BY <1>1, <1>4, <2>1
  <2> QED BY <1>1, <1>7, <1>9, <2>1, <2>2 DEF CalmInv
<1> QED BY <1>10, <1>11, <1>12, <1>13, <1>14, <1>15, <1>16, <1>17, <1>18, <1>19, <1>20, <1>21,
           <1>22 DEF LNext

LEMMA DecodersCalm ==
    ASSUME TypeInv, CalmInv, NEW d \in Decoders, DecodePartition(d) \/ DecoderStop(d),
           UNCHANGED <<io, tcp>>, UNCHANGED listenerVars
    PROVE  CalmInv'
<1>1. /\ dbox \in [Decoders -> Seq(CalmPart)] /\ PillsLast /\ dbox[d] \in Seq(CalmPart)
      /\ lbox \in Seq(CalmMessage(isShuttingDown)) /\ isShuttingDown \in BOOLEAN
  BY DEF TypeInv, TypeOK, LTypeOK, CalmInv
<1>2. \/ dbox[d] # <<>> /\ dbox' = [dbox EXCEPT ![d] = Tail(@)]
      \/ dbox' = [dbox EXCEPT ![d] = <<>>]
  BY DEF DecodePartition, DecoderStop
<1>3. dbox' \in [Decoders -> Seq(CalmPart)]
  <2>1. dbox[d] # <<>> => Tail(dbox[d]) \in Seq(CalmPart)
    BY <1>1, HeadTailProperties
  <2>2. <<>> \in Seq(CalmPart)
    OBVIOUS
  <2> QED BY <1>1, <1>2, <2>1, <2>2
<1>4. PillsLast'
  <2>1. ASSUME NEW k \in DOMAIN dbox'[d], dbox'[d][k].type = "PoisonPill" PROVE k = Len(dbox'[d])
    <3>1. dbox'[d] = Tail(dbox[d]) /\ dbox[d] # <<>>
      BY <1>1, <1>2, <2>1
    <3>2. k + 1 \in DOMAIN dbox[d] /\ dbox'[d][k] = dbox[d][k + 1] /\ Len(dbox'[d]) = Len(dbox[d]) - 1
            /\ k \in Nat
      BY <1>1, <2>1, <3>1
    <3> QED BY <1>1, <2>1, <3>2 DEF PillsLast
  <2>2. \A e \in Decoders \ {d} : dbox'[e] = dbox[e]
    BY <1>1, <1>2
  <2> QED BY <1>1, <2>1, <2>2 DEF PillsLast
<1>5. lbox' \in Seq(CalmMessage(isShuttingDown))
  <2>1. Signal("Terminated") \in CalmMessage(isShuttingDown)
    BY <1>1, CalmSignals
  <2> QED BY <1>1, <2>1, CalmHeard DEF DecodePartition, DecoderStop, Tell
<1> QED BY <1>3, <1>4, <1>5 DEF CalmInv, Calm, listenerVars

(* What a thread hands over is no transaction.                             *)
LEMMA ItemsCalm ==
    ASSUME SingleRequests, NEW t \in Threads, NEW k \in DOMAIN Workload[t]
    PROVE  /\ Workload[t][k] \in Item /\ Workload[t][k].type = "Request"
           /\ Workload[t][k].reqs \in Seq(Mundane) /\ Len(Workload[t][k].reqs) = 1
<1> DEFINE item == Workload[t][k]
<1>1. item \in Item
  BY WorkloadAssumption
<1>2. item.type = "Request"
  BY DEF SingleRequests, Items
<1>3. item.reqs \in Seq(Request) /\ Len(item.reqs) = 1
  BY <1>1, <1>2 DEF Item
<1>4. \A i \in DOMAIN item.reqs : item.reqs[i].op # "multi"
  BY <1>2, TransactionsAreRuns
<1> HIDE DEF item
<1>5. \A i \in DOMAIN item.reqs : item.reqs[i] \in Mundane
  BY <1>3, <1>4, SeqItems DEF Mundane
<1>6. item.reqs \in Seq(Mundane)
  BY <1>3, <1>5, SeqOver
<1> QED BY <1>1, <1>2, <1>3, <1>6 DEF item

LEMMA CalmStays ==
    ASSUME CalmInv, UNCHANGED <<lbox, dbox, io, tcp>>, UNCHANGED listenerVars
    PROVE  CalmInv'
BY DEF CalmInv, Calm, PillsLast, listenerVars

(* A step of one connection, with what it tells the listener.              *)
LEMMA OneCalm ==
    ASSUME CalmInv, NEW c \in Connections,
           CalmActor(io'[c], isShuttingDown), CalmTcp(tcp'[c], isShuttingDown),
           \A e \in Connections \ {c} : io'[e] = io[e] /\ tcp'[e] = tcp[e],
           lbox' \in Seq(CalmMessage(isShuttingDown)), UNCHANGED dbox, UNCHANGED listenerVars
    PROVE  CalmInv'
<1>1. UNCHANGED <<isShuttingDown, queued, remaining, shutBefore, lstate>>
  BY DEF listenerVars
<1>2. Calm'
  BY <1>1 DEF Calm, CalmInv
<1> QED BY <1>1, <1>2 DEF CalmInv, PillsLast

LEMMA CalmInit == Init => CalmInv
<1> SUFFICES ASSUME Init PROVE CalmInv
  OBVIOUS
<1>1. Calm
  <2>1. \A c \in Connections : io[c] \in {NewIOActor, NoIOActor} /\ tcp[c] = Fresh
          /\ isShuttingDown = FALSE
    BY DEF Init, LInit, TcpInit
  <2>2. CalmActor(NewIOActor, FALSE) /\ CalmActor(NoIOActor, FALSE)
    BY CalmNewActors
  <2>3. CalmTcp(Fresh, FALSE)
    BY DEF CalmTcp, Fresh
  <2> QED BY <2>1, <2>2, <2>3 DEF Calm
<1>2. /\ queued = <<>> /\ remaining = <<>> /\ lbox = <<>> /\ dbox = [d \in Decoders |-> <<>>]
      /\ ~shutBefore
  BY DEF Init, LInit
<1>3. \A S : <<>> \in Seq(S)
  OBVIOUS
<1> QED BY <1>1, <1>2, <1>3 DEF CalmInv, PillsLast

LEMMA CalmStep ==
    ASSUME Undropped, SingleRequests, TypeInv, LifeInv, CalmInv, [Next]_vars
    PROVE  CalmInv'
<1> DEFINE s == isShuttingDown
<1>1. /\ io \in [Connections -> IOType] /\ s \in BOOLEAN /\ Calm
      /\ lbox \in Seq(CalmMessage(s)) /\ tcp \in [Connections -> TcpType]
  BY DEF TypeInv, TypeOK, LTypeOK, TcpTypeOK, CalmInv
<1>2. ASSUME NEW t \in Threads, Check(t) PROVE CalmInv'
  BY <1>2, CalmStays DEF Check, decoderVars
<1>3. ASSUME NEW t \in Threads, Post(t) PROVE CalmInv'
  <2> DEFINE item == NextItem(t)
  <2>1. sent[t] + 1 \in DOMAIN Workload[t] /\ item = Workload[t][sent[t] + 1]
    BY <1>3, WorkloadAssumption DEF TypeInv, TypeOK, AdmittedHasItem, HasItem, Post, NextItem
  <2>2. item \in Item /\ item.type = "Request" /\ item.reqs \in Seq(Mundane)
    BY <2>1, ItemsCalm
  <2>3. lbox' = AfterTellingListener(lbox, <<item>>)
    BY <1>3 DEF Post
  <2> HIDE DEF item
  <2>4. item \in CalmMessage(s)
    BY <2>2 DEF CalmMessage, ListenerMessage
  <2>5. lbox' \in Seq(CalmMessage(s))
    BY <1>1, <2>3, <2>4, CalmHeard
  <2> QED BY <1>3, <2>5 DEF Post, decoderVars, CalmInv, Calm, PillsLast, listenerVars
<1>4. ASSUME NEW item \in Items, CompleteTransaction(item) PROVE CalmInv'
  BY <1>4 DEF CompleteTransaction, SingleRequests
<1>5. ASSUME ListenerStep PROVE CalmInv'
  BY <1>5, ListenerCalm DEF ListenerStep
<1>6. ASSUME NEW d \in Decoders, DecoderStep(d) PROVE CalmInv'
  BY <1>6, DecodersCalm DEF DecoderStep
<1>7. ASSUME NEW c \in Connections, IOStep(c) \/ (Crash /\ IOCrash(c)) PROVE CalmInv'
  <2>1. (IONext(c) \/ IOCrash(c)) /\ UNCHANGED dbox /\ UNCHANGED listenerVars
    BY <1>7 DEF IOStep, Crash, decoderVars
  <2>2. /\ CalmActor(io'[c], s) /\ CalmTcp(tcp'[c], s)
        /\ \A e \in Connections \ {c} : io'[e] = io[e] /\ tcp'[e] = tcp[e]
        /\ \/ UNCHANGED lbox
           \/ \E t \in {"Connected", "Shutdown", "Terminated"} : (t = "Shutdown" => s) /\ Tell(t)
    BY <1>1, <2>1, ActorsCalm
  <2>3. \A t \in {"Connected", "Shutdown", "Terminated"} :
           (t = "Shutdown" => s) => Signal(t) \in CalmMessage(s)
    BY <1>1, CalmSignals
  <2>4. lbox' \in Seq(CalmMessage(s))
    BY <1>1, <2>2, <2>3, CalmHeard DEF Tell
  <2> QED BY <2>1, <2>2, <2>4, OneCalm
<1>8. ASSUME NEW c \in Connections,
             \/ TcpStep(c) \/ Execute(c)
             \/ (Faulty /\ (TcpConnectFail(c) \/ TcpWriteFail(c) \/ TcpDrop(c)))
      PROVE  CalmInv'
  <2>1. UNCHANGED dbox /\ UNCHANGED listenerVars
    BY <1>8 DEF TcpStep, Execute, Faulty, user, decoderVars
  <2>2. \/ TcpConnect(c) \/ TcpWrite(c) \/ TcpRead(c) \/ TcpAbort(c) \/ TcpQuit(c)
        \/ ServerExecute(c) \/ ServerSkip(c)
        \/ TcpConnectFail(c) \/ TcpWriteFail(c) \/ TcpDrop(c)
    BY <1>8 DEF TcpStep, Execute
  <2> QED BY <2>1, <2>2, ConnectionsCalm, OneCalm
<1>9. ASSUME NEW c \in Connections, ConnectTimeoutFires(c) \/ AbortTimeoutFires(c) PROVE CalmInv'
  <2>1. UNCHANGED <<dbox, lbox, tcp>> /\ UNCHANGED listenerVars
    BY <1>9 DEF ConnectTimeoutFires, AbortTimeoutFires, FireConnectTimeout, FireAbortTimeout,
                decoderVars
  <2>2. \E t \in {"ConnectTimeout", "AbortTimeout"} :
          \/ io' = [io EXCEPT ![c] = [Told(@, <<Signal(t)>>) EXCEPT !.connectTimer = FALSE]]
          \/ io' = [io EXCEPT ![c] = [Told(@, <<Signal(t)>>) EXCEPT !.abortTimer = FALSE]]
    BY <1>9 DEF ConnectTimeoutFires, AbortTimeoutFires, FireConnectTimeout, FireAbortTimeout
  <2>3. PICK t \in {"ConnectTimeout", "AbortTimeout"} :
          \/ io' = [io EXCEPT ![c] = [Told(@, <<Signal(t)>>) EXCEPT !.connectTimer = FALSE]]
          \/ io' = [io EXCEPT ![c] = [Told(@, <<Signal(t)>>) EXCEPT !.abortTimer = FALSE]]
    BY <2>2
  <2> DEFINE b == Told(io[c], <<Signal(t)>>)
  <2>4. CalmActor(b, s) /\ b \in IOType
    <3>1. Signal(t) \in CalmIO(s) /\ Signal(t).type # "Request" /\ t \in IOSignals
      BY <1>1, CalmSignals DEF Signal, IOSignals
    <3> QED BY <1>1, <3>1, CalmTold, ToldSignalType DEF Calm
  <2>5. io'[c] \in {[b EXCEPT !.connectTimer = FALSE], [b EXCEPT !.abortTimer = FALSE]}
          /\ \A e \in Connections \ {c} : io'[e] = io[e]
    BY <1>1, <2>3
  <2> HIDE DEF b
  <2>6. CalmActor(io'[c], s)
    BY <2>4, <2>5 DEF CalmActor, IOType
  <2>7. CalmTcp(tcp'[c], s)
    BY <1>1, <2>1 DEF Calm
  <2> QED BY <1>1, <2>1, <2>5, <2>6, <2>7, OneCalm
<1>10. ~ReceiveTimeoutFires
  BY DEF ReceiveTimeoutFires, Fault, Undropped
<1>11. ASSUME UNCHANGED vars PROVE CalmInv'
  BY <1>11, CalmStays DEF vars
<1>12. ASSUME Faulty \/ Crash PROVE CalmInv'
  BY <1>7, <1>8, <1>12 DEF Faulty, Crash
<1> QED BY <1>2, <1>3, <1>4, <1>5, <1>6, <1>7, <1>8, <1>9, <1>10, <1>11, <1>12 DEF Next

(* Where the listener and the decoders keep what is not completed.         *)
InBox(i) ==
    \E n \in DOMAIN lbox : lbox[n].type \in {"Request", "Transaction"} /\ i \in IdsOf(lbox[n].reqs)
InParts(i) ==
    \E d \in Decoders : \E n \in DOMAIN dbox[d] :
        dbox[d][n].type = "Partition" /\ i \in IdsOf(dbox[d][n].reqs)
Holds(i) == i \in IdsOf(queued) \/ i \in IdsOf(requests) \/ InBox(i) \/ InParts(i)

(* A step that forgets nothing, and completes for good.                    *)
Keeps ==
    \A i \in Ids : outcome'[i] = "pending" =>
        outcome[i] = "pending" /\ (Holds(i) => Holds(i)')

LEMMA PartsOf ==
    ASSUME NEW i
    PROVE  i \in UNION {UNION {IdsOf(dbox[d][k].reqs) : k \in {n \in DOMAIN dbox[d] :
                                     dbox[d][n].type = "Partition"}} : d \in Decoders}
             <=> InParts(i)
<1> DEFINE Mine(d) == UNION {IdsOf(dbox[d][k].reqs) : k \in {n \in DOMAIN dbox[d] :
                                     dbox[d][n].type = "Partition"}}
           all == {Mine(d) : d \in Decoders}
           parts == UNION all
<1>1. \A d \in Decoders : Mine(d) \in all
  BY Zenon
<1>2. \A d \in Decoders : i \in Mine(d) <=> \E n \in DOMAIN dbox[d] :
           dbox[d][n].type = "Partition" /\ i \in IdsOf(dbox[d][n].reqs)
  OBVIOUS
<1>3. ASSUME i \in parts PROVE InParts(i)
  <2>1. PICK d \in Decoders : i \in Mine(d)
    BY <1>3, Zenon
  <2> QED BY <1>2, <2>1 DEF InParts
<1>4. ASSUME InParts(i) PROVE i \in parts
  <2> HIDE DEF Mine, all
  <2>1. PICK d \in Decoders : i \in Mine(d)
    BY <1>2, <1>4 DEF InParts
  <2> QED BY <1>1, <2>1
<1> QED BY <1>3, <1>4

TrackedIsHeld == \A i : i \in Tracked <=> Holds(i)
LEMMA TrackedHolds == TrackedIsHeld
<1> SUFFICES ASSUME NEW i PROVE i \in Tracked <=> Holds(i)
  BY DEF TrackedIsHeld
<1> DEFINE box == UNION {IdsOf(lbox[k].reqs) : k \in {n \in DOMAIN lbox :
                                     lbox[n].type \in {"Request", "Transaction"}}}
           parts == UNION {UNION {IdsOf(dbox[d][k].reqs) : k \in {n \in DOMAIN dbox[d] :
                                     dbox[d][n].type = "Partition"}} : d \in Decoders}
<1>1. i \in box <=> InBox(i)
  BY DEF InBox
<1>2. i \in parts <=> InParts(i)
  BY PartsOf
<1>3. Tracked = IdsOf(queued) \cup IdsOf(requests) \cup box \cup parts
  BY DEF Tracked
<1> HIDE DEF box, parts
<1> QED BY <1>1, <1>2, <1>3 DEF Holds

LEMMA CompletesForGood ==
    ASSUME outcome \in [Ids -> Outcomes], NEW ids, NEW result, result # "pending",
           outcome' = Complete(ids, result)
    PROVE  \A i \in Ids : outcome'[i] = "pending" => outcome[i] = "pending" /\ i \notin ids
BY DEF Complete

LEMMA IdsConcat ==
    ASSUME NEW S, NEW x \in Seq(S), NEW y \in Seq(S)
    PROVE  IdsOf(x \o y) = IdsOf(x) \cup IdsOf(y)
<1>1. /\ \A k \in DOMAIN (x \o y) : \/ k \in DOMAIN x /\ (x \o y)[k] = x[k]
                                    \/ k - Len(x) \in DOMAIN y /\ (x \o y)[k] = y[k - Len(x)]
      /\ \A k \in DOMAIN x : k \in DOMAIN (x \o y) /\ (x \o y)[k] = x[k]
      /\ \A k \in DOMAIN y : /\ k + Len(x) \in DOMAIN (x \o y)
                             /\ (x \o y)[k + Len(x)] = y[k]
  OBVIOUS
<1> DEFINE z == x \o y
<1> HIDE DEF z
<1>2. /\ \A k \in DOMAIN z : \/ k \in DOMAIN x /\ z[k] = x[k]
                             \/ k - Len(x) \in DOMAIN y /\ z[k] = y[k - Len(x)]
      /\ \A k \in DOMAIN x : k \in DOMAIN z /\ z[k] = x[k]
      /\ \A k \in DOMAIN y : k + Len(x) \in DOMAIN z /\ z[k + Len(x)] = y[k]
  BY <1>1 DEF z
<1>3. IdsOf(z) = IdsOf(x) \cup IdsOf(y)
  BY <1>2 DEF IdsOf
<1> QED BY <1>3 DEF z

(* Mailboxes.                                                              *)
LEMMA BoxTaken ==
    ASSUME TypeInv, lbox # <<>>, Consume, NEW i, InBox(i)
    PROVE  \/ InBox(i)'
           \/ Head(lbox).type \in {"Request", "Transaction"} /\ i \in IdsOf(Handed)
<1>1. lbox \in Seq(ListenerMessage) /\ lbox' = Tail(lbox)
  BY DEF TypeInv, TypeOK, LTypeOK, Consume
<1>2. PICK n \in DOMAIN lbox :
         lbox[n].type \in {"Request", "Transaction"} /\ i \in IdsOf(lbox[n].reqs)
  BY DEF InBox
<1>3. CASE n = 1
  BY <1>1, <1>2, <1>3 DEF Handed
<1>4. CASE n # 1
  <2>1. n - 1 \in DOMAIN Tail(lbox) /\ Tail(lbox)[n - 1] = lbox[n]
    BY <1>1, <1>2, <1>4
  <2> QED BY <1>1, <1>2, <2>1 DEF InBox
<1> QED BY <1>3, <1>4

LEMMA BoxTold ==
    ASSUME TypeInv, NEW m, lbox' = AfterTellingListener(lbox, <<m>>)
    PROVE  \A i : InBox(i) => InBox(i)'
<1>1. lbox \in Seq(ListenerMessage) /\ (lbox' = lbox \/ lbox' = lbox \o <<m>>)
  BY DEF TypeInv, TypeOK, LTypeOK, AfterTellingListener
<1>2. \A n \in DOMAIN lbox : n \in DOMAIN lbox' /\ lbox'[n] = lbox[n]
  BY <1>1
<1> QED BY <1>2 DEF InBox

LEMMA BoxSignalled ==
    ASSUME TypeInv, NEW t \in ListenerSignals, Tell(t)
    PROVE  \A i : InBox(i) => InBox(i)'
BY SignalType, BoxTold DEF Tell

LEMMA PartsPoisoned ==
    ASSUME TypeInv, PoisonDecoders
    PROVE  \A i : InParts(i) => InParts(i)'
<1>1. \A d \in Decoders : dbox[d] \in Seq(DecoderMessage)
         /\ dbox'[d] \in {dbox[d], Append(dbox[d], Signal("PoisonPill"))}
  BY DEF TypeInv, TypeOK, LTypeOK, PoisonDecoders
<1>2. \A d \in Decoders : \A n \in DOMAIN dbox[d] : n \in DOMAIN dbox'[d] /\ dbox'[d][n] = dbox[d][n]
  BY <1>1
<1> QED BY <1>2 DEF InParts

(* What is answered goes to a decoder.                                     *)
LEMMA PartsReceive ==
    ASSUME TypeInv, Receives("Received"), ReceiveData(Head(lbox).data)
    PROVE  /\ \A i : InParts(i) => InParts(i)'
           /\ \A i \in IdsOf(requests) : i \in IdsOf(Unanswered(Head(lbox).data)) \/ InParts(i)'
<1> DEFINE data == Head(lbox).data
           replies == Parsed(data)
           count == IF Len(replies) > Len(requests) THEN Len(requests) ELSE Len(replies)
           p == [type |-> "Partition", replies |-> replies,
                 reqs |-> SubSeq(requests, 1, count), skip |-> Len(replies) - count]
<1>1. LInv /\ data \in Data /\ requests \in Seq(Request)
        /\ dbox \in [Decoders -> Seq(DecoderMessage)]
  BY ReceivedType DEF TypeInv, TypeOK, LTypeOK, LInv
<1>2. replies \in Seq(Reply)
  BY <1>1, ParsedType
<1>3. \/ replies = <<>> /\ UNCHANGED dbox
      \/ replies # <<>> /\ \E d \in Decoders : dbox' = [dbox EXCEPT ![d] = Append(@, p)]
  BY DEF ReceiveData
<1>4. p.type = "Partition" /\ p.reqs = SubSeq(requests, 1, count)
  OBVIOUS
<1>5. Unanswered(data) = IF Len(replies) > Len(requests) THEN <<>>
                         ELSE SubSeq(requests, Len(replies) + 1, Len(requests))
  BY DEF Unanswered
<1> HIDE DEF replies, p
<1>6. CASE replies = <<>> /\ UNCHANGED dbox
  <2>1. Unanswered(data) = requests
    <3>1. Len(replies) = 0 /\ Len(requests) \in Nat
      BY <1>1, <1>6
    <3>2. ~(Len(replies) > Len(requests)) /\ Len(replies) + 1 = 1
      BY <3>1
    <3>3. SubSeq(requests, 1, Len(requests)) = requests
      BY <1>1
    <3> QED BY <1>5, <3>2, <3>3
  <2> QED BY <1>6, <2>1 DEF InParts
<1>7. CASE replies # <<>> /\ \E d \in Decoders : dbox' = [dbox EXCEPT ![d] = Append(@, p)]
  <2>1. PICK d \in Decoders : dbox' = [dbox EXCEPT ![d] = Append(@, p)]
    BY <1>7
  <2>2. /\ dbox'[d] = Append(dbox[d], p) /\ dbox[d] \in Seq(DecoderMessage)
        /\ \A e \in Decoders \ {d} : dbox'[e] = dbox[e]
    BY <1>1, <2>1
  <2>3. /\ \A n \in DOMAIN dbox[d] : n \in DOMAIN dbox'[d] /\ dbox'[d][n] = dbox[d][n]
        /\ Len(dbox[d]) + 1 \in DOMAIN dbox'[d] /\ dbox'[d][Len(dbox[d]) + 1] = p
    BY <2>2
  <2>4. \A i : InParts(i) => InParts(i)'
    BY <2>2, <2>3 DEF InParts
  <2>5. \A i \in IdsOf(p.reqs) : InParts(i)'
    BY <1>4, <2>3 DEF InParts
  <2>6. ASSUME NEW i \in IdsOf(requests) PROVE i \in IdsOf(Unanswered(data)) \/ i \in IdsOf(p.reqs)
    <3>1. PICK k \in DOMAIN requests : i = requests[k].id
      BY DEF IdsOf
    <3>2. Len(replies) \in Nat /\ Len(requests) \in Nat /\ k \in 1..Len(requests)
      BY <1>1, <1>2, <3>1
    <3>3. CASE k <= count
      <4>1. k \in DOMAIN p.reqs /\ p.reqs[k] = requests[k]
        BY <1>1, <1>4, <3>2, <3>3
      <4> QED BY <3>1, <4>1 DEF IdsOf
    <3>4. CASE k > count
      <4>1. ~(Len(replies) > Len(requests)) /\ k > Len(replies)
        BY <3>2, <3>4
      <4> DEFINE left == SubSeq(requests, Len(replies) + 1, Len(requests))
      <4>2. k - Len(replies) \in DOMAIN left /\ left[k - Len(replies)] = requests[k]
        BY <1>1, <3>2, <4>1
      <4>3. Unanswered(data) = left
        BY <1>5, <4>1
      <4> HIDE DEF left
      <4> QED BY <3>1, <4>2, <4>3 DEF IdsOf
    <3>5. count \in Nat
      BY <3>2
    <3> QED BY <3>2, <3>3, <3>4, <3>5
  <2> QED BY <2>4, <2>5, <2>6
<1> QED BY <1>3, <1>6, <1>7

LEMMA ListenerKeeps ==
    ASSUME TypeInv, LifeInv, CalmInv, Undropped, LNext, lstate' # "stopped"
    PROVE  Keeps
<1>1. /\ outcome \in [Ids -> Outcomes] /\ queued \in Seq(Request) /\ requests \in Seq(Request)
      /\ settings \in SettingsType
  BY DEF TypeInv, TypeOK, LTypeOK
<1>2. NeverTimesOut
  BY DEF Undropped, NeverTimesOut
<1>3. \A t : Receives(t) => lbox # <<>> /\ Head(lbox).type = t
  BY DEF Receives
<1>4. IsItem => /\ lbox # <<>> /\ Receives("Request") /\ Handed \in Seq(Request) /\ Len(Handed) = 1
                /\ IdsOf(Handed) = {Handed[1].id}
  <2>1. IsItem => lbox # <<>> /\ Receives("Request") /\ Handed \in Seq(Request) /\ Len(Handed) = 1
    BY <1>3, CalmFirst, SeqGrows DEF IsItem, Mundane
  <2> QED BY <2>1 DEF IdsOf
<1>5. ASSUME NEW t, t \notin {"Request", "Transaction"}, Receives(t), Consume
      PROVE  \A i : InBox(i) => InBox(i)'
  BY <1>3, <1>5, BoxTaken
<1>6. ASSUME IsItem, Consume
      PROVE  \A i : InBox(i) => InBox(i)' \/ i \in IdsOf(Handed)
  BY <1>4, <1>6, BoxTaken
<1>7. ASSUME UNCHANGED dbox PROVE \A i : InParts(i) => InParts(i)'
  BY <1>7 DEF InParts
<1>8. IsItem => IdsOf(Enqueued) = IdsOf(queued) \cup IdsOf(Handed)
  BY <1>1, <1>4, IdsConcat DEF Enqueued
<1>9. \A rs \in Seq(Request) : IdsOf(requests \o rs) = IdsOf(requests) \cup IdsOf(rs)
  BY <1>1, IdsConcat
<1>10. CASE FailItem
  <2>1. /\ IsItem /\ Consume /\ outcome' = Complete(IdsOf(Handed), "failed")
        /\ UNCHANGED <<dbox, queued, requests>>
    BY <1>4, <1>10 DEF FailItem, listenerVars
  <2> QED BY <1>1, <1>6, <1>7, <2>1, CompletesForGood DEF Keeps, Holds
<1>11. CASE QueueItem
  <2>1. IsItem /\ Consume /\ queued' = Enqueued /\ UNCHANGED <<dbox, outcome, requests>>
    BY <1>11 DEF QueueItem
  <2> QED BY <1>6, <1>7, <1>8, <2>1 DEF Keeps, Holds
<1>12. CASE SendItem
  <2>1. /\ IsItem /\ Consume /\ Send(Handed, requests, queued, timerSet)
        /\ outcome' = Complete(IdsOf(<<>>), "failed") /\ UNCHANGED dbox
    BY <1>4, <1>12 DEF SendItem
  <2>2. queued' = queued /\ requests' = requests \o Handed
    BY <2>1 DEF Send
  <2> QED BY <1>1, <1>4, <1>6, <1>7, <1>9, <2>1, <2>2, CompletesForGood DEF Keeps, Holds
<1>13. CASE QuitWhileConnecting
  <2>1. /\ IsItem /\ Consume /\ PoisonDecoders /\ UNCHANGED requests
        /\ outcome' = [Complete(IdsOf(queued), "failed") EXCEPT ![Handed[1].id] =
                           IF outcome[Handed[1].id] = "pending" THEN "ok" ELSE @]
    BY <1>13 DEF QuitWhileConnecting, IsItem
  <2>2. \A i : InParts(i) => InParts(i)'
    BY <2>1, PartsPoisoned
  <2>3. \A i \in Ids : outcome'[i] = "pending" =>
           outcome[i] = "pending" /\ i \notin IdsOf(queued) /\ i # Handed[1].id
    BY <1>1, <2>1 DEF Complete
  <2> QED BY <1>4, <1>6, <2>1, <2>2, <2>3 DEF Keeps, Holds
<1>14. CASE ItemWhileConnecting
  <2>1. /\ IsItem /\ Consume /\ UNCHANGED <<dbox, requests>>
        /\ \/ outcome' = Complete(IdsOf(Handed), "failed") /\ UNCHANGED queued
           \/ queued' = Enqueued /\ UNCHANGED outcome
    BY <1>14 DEF ItemWhileConnecting
  <2>2. CASE outcome' = Complete(IdsOf(Handed), "failed") /\ UNCHANGED queued
    BY <1>1, <1>6, <1>7, <2>1, <2>2, CompletesForGood DEF Keeps, Holds
  <2>3. CASE queued' = Enqueued /\ UNCHANGED outcome
    BY <1>6, <1>7, <1>8, <2>1, <2>3 DEF Keeps, Holds
  <2> QED BY <2>1, <2>2, <2>3
<1>15. CASE OnConnected
  <2>1. /\ Receives("Connected") /\ Consume /\ UNCHANGED <<dbox, outcome>>
        /\ \/ Send(InitRequests(settings), requests, queued, timerSet)
           \/ Send(queued, requests, <<>>, timerSet)
    BY <1>15 DEF OnConnected, SendAllQueued
  <2>2. IdsOf(requests) \subseteq IdsOf(requests')
          /\ IdsOf(queued) \subseteq IdsOf(queued') \cup IdsOf(requests')
    <3>1. CASE Send(InitRequests(settings), requests, queued, timerSet)
      <4>1. InitRequests(settings) \in Seq(Request)
        BY <1>1, InitRequestsType
      <4>2. requests' = requests \o InitRequests(settings) /\ queued' = queued
        BY <3>1 DEF Send
      <4> QED BY <1>9, <4>1, <4>2
    <3>2. CASE Send(queued, requests, <<>>, timerSet)
      <4>1. requests' = requests \o queued
        BY <3>2 DEF Send
      <4> QED BY <1>1, <1>9, <4>1
    <3> QED BY <2>1, <3>1, <3>2
  <2> QED BY <1>5, <1>7, <2>1, <2>2 DEF Keeps, Holds
<1>16. ~OnConnectedAfterQuit /\ ~HandleReceiveTimeout /\ ~OnRemove /\ ~OnAbort
  <2>1. ~OnConnectedAfterQuit
    BY DEF OnConnectedAfterQuit, CalmInv, Down
  <2>2. ~Receives("ReceiveTimeout") /\ ~Receives("Remove") /\ ~Receives("Abort")
    BY CalmFirst
  <2> QED BY <2>1, <2>2 DEF HandleReceiveTimeout, OnRemove, OnAbort, Acknowledge
<1>17. CASE Receive
  <2>1. /\ Receives("Received") /\ Consume /\ ReceiveData(Head(lbox).data)
        /\ requests' = Unanswered(Head(lbox).data) /\ UNCHANGED <<outcome, queued>>
    BY <1>17 DEF Receive
  <2>2. /\ \A i : InParts(i) => InParts(i)'
        /\ \A i \in IdsOf(requests) : i \in IdsOf(requests') \/ InParts(i)'
    BY <2>1, PartsReceive
  <2> QED BY <1>5, <2>1, <2>2 DEF Keeps, Holds
<1>18. CASE ReceiveInitializing
  <2> DEFINE left == Unanswered(Head(lbox).data)
  <2>1. /\ Receives("Received") /\ Consume /\ ReceiveData(Head(lbox).data) /\ UNCHANGED outcome
        /\ \/ Send(queued, left, <<>>, FALSE)
           \/ requests' = left /\ UNCHANGED queued
    BY <1>18 DEF ReceiveInitializing, SendAllQueued
  <2>2. /\ \A i : InParts(i) => InParts(i)'
        /\ \A i \in IdsOf(requests) : i \in IdsOf(left) \/ InParts(i)'
    BY <2>1, PartsReceive
  <2>3. left \in Seq(Request)
    BY <2>1, ReceivedType, UnansweredType DEF TypeInv, TypeOK, LTypeOK, LInv
  <2> HIDE DEF left
  <2>4. IdsOf(left) \subseteq IdsOf(requests')
          /\ IdsOf(queued) \subseteq IdsOf(queued') \cup IdsOf(requests')
    <3>1. CASE Send(queued, left, <<>>, FALSE)
      <4>1. requests' = left \o queued
        BY <3>1 DEF Send
      <4> QED BY <1>1, <2>3, <4>1, IdsConcat
    <3> QED BY <2>1, <3>1
  <2> QED BY <1>5, <2>1, <2>2, <2>4 DEF Keeps, Holds
<1>19. CASE OnShutdown \/ Ignore
  <2>1. (\E t : t \notin {"Request", "Transaction"} /\ Receives(t)) /\ Consume
        /\ UNCHANGED <<outcome, queued, requests, dbox>>
    BY <1>19 DEF OnShutdown, Acknowledge, Ignore, Ignored, sending, listenerVars
  <2> QED BY <1>5, <1>7, <2>1 DEF Keeps, Holds
<1>20. CASE TerminatedConnecting \/ TerminatedInitializing
  <2>1. /\ Receives("Terminated") /\ Consume /\ UNCHANGED <<requests, dbox>>
        /\ outcome' = Complete(IdsOf(queued), "failed")
    BY <1>20 DEF TerminatedConnecting, TerminatedInitializing, FailQueued
  <2> QED BY <1>1, <1>5, <1>7, <2>1, CompletesForGood DEF Keeps, Holds
<1>21. CASE TerminatedConnected
  <2>1. /\ Receives("Terminated") /\ Consume /\ UNCHANGED <<queued, dbox>>
        /\ outcome' = Complete(IdsOf(requests), "failed")
    BY <1>21 DEF TerminatedConnected, FailSent
  <2> QED BY <1>1, <1>5, <1>7, <2>1, CompletesForGood DEF Keeps, Holds
<1>22. CASE TerminatedShuttingDown
  <2>1. /\ Receives("Terminated") /\ Consume /\ PoisonDecoders
        /\ UNCHANGED <<outcome, queued, requests>>
    BY <1>22 DEF TerminatedShuttingDown, sending
  <2>2. \A i : InParts(i) => InParts(i)'
    BY <2>1, PartsPoisoned
  <2> QED BY <1>5, <2>1, <2>2 DEF Keeps, Holds
<1>23. CASE TerminatedAwaitingDecoders
  <2>1. /\ Receives("Terminated") /\ Consume /\ UNCHANGED <<outcome, dbox, queued, requests>>
    BY <1>23 DEF TerminatedAwaitingDecoders, sending
  <2> QED BY <1>5, <1>7, <2>1 DEF Keeps, Holds
<1> QED BY <1>10, <1>11, <1>12, <1>13, <1>14, <1>15, <1>16, <1>17, <1>18, <1>19, <1>20, <1>21,
           <1>22, <1>23 DEF LNext


(* What is decoded is completed; a decoder stops with an empty mailbox.    *)
LEMMA DecodersKeep ==
    ASSUME TypeInv, CalmInv, NEW d \in Decoders, DecodePartition(d) \/ DecoderStop(d),
           UNCHANGED listenerVars
    PROVE  Keeps
<1> DEFINE p == Head(dbox[d])
           Mine(i) == {k \in DOMAIN p.reqs : p.reqs[k].id = i}
<1>1. /\ dbox[d] \in Seq(CalmPart) /\ dbox[d] \in Seq(DecoderMessage) /\ dbox[d] # <<>>
      /\ dbox \in [Decoders -> Seq(DecoderMessage)] /\ PillsLast
      /\ outcome \in [Ids -> Outcomes] /\ UNCHANGED <<queued, requests>>
  BY DEF TypeInv, TypeOK, LTypeOK, CalmInv, DecodePartition, DecoderStop, listenerVars
<1>2. p \in CalmPart /\ p \in DecoderMessage /\ p = dbox[d][1]
  BY <1>1, HeadTailProperties
<1>3. /\ \A n \in DOMAIN dbox[d] : n # 1 => /\ n - 1 \in DOMAIN Tail(dbox[d])
                                            /\ Tail(dbox[d])[n - 1] = dbox[d][n]
      /\ \A n \in DOMAIN dbox[d] : Len(dbox[d]) = 1 => n = 1
      /\ 1 \in DOMAIN dbox[d]
  BY <1>1
<1> HIDE DEF p
<1>4. CASE DecodePartition(d)
  <2>1. p.type = "Partition" /\ dbox' = [dbox EXCEPT ![d] = Tail(@)] /\ UNCHANGED lbox
    BY <1>4 DEF DecodePartition, p
  <2>2. /\ p.replies \in Seq(Completing) /\ p.reqs \in Seq(Request) /\ p.skip \in Nat
        /\ p.skip + Len(p.reqs) = Len(p.replies)
    BY <1>2, <2>1 DEF CalmPart, DecoderMessage, Partition
  <2>3. \A k \in DOMAIN p.reqs : Verdict(p.reqs[k], p.replies[p.skip + k]) # "pending"
    <3>1. \A k \in DOMAIN p.reqs : p.replies[p.skip + k] \in Completing
      BY <2>2
    <3>2. \A r, reply : reply \in Completing => Verdict(r, reply) # "pending"
      BY DEF Verdict, Completing, Reply
    <3> QED BY <3>1, <3>2
  <2>4. \A i \in Ids : outcome'[i] = IF outcome[i] = "pending" /\ Mine(i) # {}
            THEN Verdict(p.reqs[CHOOSE k \in Mine(i) : TRUE],
                         p.replies[p.skip + (CHOOSE k \in Mine(i) : TRUE)])
            ELSE outcome[i]
    BY <1>1, <1>4 DEF DecodePartition, p
  <2>5. ASSUME NEW i \in Ids, outcome'[i] = "pending"
        PROVE  outcome[i] = "pending" /\ i \notin IdsOf(p.reqs)
    <3>1. Mine(i) # {} => (CHOOSE k \in Mine(i) : TRUE) \in DOMAIN p.reqs
      OBVIOUS
    <3>2. outcome[i] = "pending" /\ Mine(i) = {}
      BY <2>3, <2>4, <2>5, <3>1, Zenon
    <3> QED BY <3>2 DEF IdsOf
  <2>6. ASSUME NEW i, InParts(i) PROVE InParts(i)' \/ i \in IdsOf(p.reqs)
    <3>0. PICK e \in Decoders : \E n \in DOMAIN dbox[e] :
             dbox[e][n].type = "Partition" /\ i \in IdsOf(dbox[e][n].reqs)
      BY <2>6 DEF InParts
    <3>1. PICK n \in DOMAIN dbox[e] :
             dbox[e][n].type = "Partition" /\ i \in IdsOf(dbox[e][n].reqs)
      BY <3>0
    <3>2. dbox'[d] = Tail(dbox[d]) /\ \A x \in Decoders \ {d} : dbox'[x] = dbox[x]
      BY <1>1, <2>1
    <3>3. CASE e # d
      BY <3>1, <3>2, <3>3 DEF InParts
    <3>4. CASE e = d /\ n # 1
      <4>1. n - 1 \in DOMAIN dbox'[d] /\ dbox'[d][n - 1] = dbox[d][n]
        BY <1>3, <3>1, <3>2, <3>4
      <4> QED BY <3>1, <3>4, <4>1 DEF InParts
    <3>5. CASE e = d /\ n = 1
      BY <1>2, <3>1, <3>5
    <3> QED BY <3>3, <3>4, <3>5
  <2> QED BY <1>1, <2>1, <2>5, <2>6 DEF Keeps, Holds, InBox
<1>5. CASE DecoderStop(d)
  <2>1. /\ p.type = "PoisonPill" /\ dbox' = [dbox EXCEPT ![d] = <<>>]
        /\ Tell("Terminated") /\ UNCHANGED outcome
    BY <1>5 DEF DecoderStop, p
  <2>2. \A n \in DOMAIN dbox[d] : dbox[d][n] = p
    <3>1. Len(dbox[d]) = 1
      BY <1>1, <1>2, <1>3, <2>1 DEF PillsLast
    <3> QED BY <1>2, <1>3, <3>1
  <2>3. \A i : InParts(i) => InParts(i)'
    BY <1>1, <2>1, <2>2 DEF InParts
  <2>4. \A i : InBox(i) => InBox(i)'
    BY <2>1, BoxSignalled DEF ListenerSignals
  <2> QED BY <1>1, <2>1, <2>3, <2>4 DEF Keeps, Holds
<1> QED BY <1>4, <1>5

(* Nothing else is moved, whatever the listener is told.                   *)
LEMMA OthersKeep ==
    ASSUME \A i : InBox(i) => InBox(i)', UNCHANGED <<outcome, dbox>>, UNCHANGED listenerVars
    PROVE  Keeps
BY DEF Keeps, Holds, InParts, listenerVars

(* Only items of the workload are handed over.                             *)
InWorkload == \A t \in Threads : sent[t] <= Len(Workload[t])

LEMMA LastIds ==
    ASSUME NEW t \in Threads, NEW k \in DOMAIN Workload[t]
    PROVE  LastId(Workload[t][k]) \in Ids
BY RequestsAreFresh DEF LastId

LEMMA TrackedHoldsNext == TrackedIsHeld'
BY TrackedHolds, PTL

(* What is kept is not forgotten.                                          *)
LEMMA KeptIsNotForgotten ==
    ASSUME TypeInv, InWorkload, NothingForgotten, lstate # "stopped", Keeps,
           NEW t \in Threads, NEW k \in 1..sent[t], NEW i, i = LastId(Workload[t][k]),
           outcome'[i] = "pending"
    PROVE  i \in Tracked'
<1>1. (\A j : j \in Tracked <=> Holds(j))'
  BY TrackedHoldsNext DEF TrackedIsHeld
<1>2. k \in DOMAIN Workload[t] /\ i \in Ids
  <2>1. Workload[t] \in Seq(Item) /\ sent[t] \in Nat /\ sent[t] <= Len(Workload[t])
    BY WorkloadAssumption DEF TypeInv, TypeOK, InWorkload
  <2>2. k \in DOMAIN Workload[t]
    BY <2>1
  <2> QED BY <2>2, LastIds
<1>3. outcome[i] = "pending" /\ (Holds(i) => Holds(i)')
  BY <1>2 DEF Keeps
<1>4. i \in Tracked
  BY <1>3 DEF NothingForgotten
<1>5. Holds(i)
  BY <1>4, TrackedHolds DEF TrackedIsHeld
<1>6. Holds(i)'
  BY <1>3, <1>5
<1> QED BY <1>1, <1>6

(* A stopped listener stays stopped.                                       *)
LEMMA StoppedStays ==
    ASSUME LNext, lstate = "stopped"
    PROVE  lstate' = "stopped"
BY DEF LNext, FailItem, QueueItem, SendItem, QuitWhileConnecting, ItemWhileConnecting,
       OnConnected, OnConnectedAfterQuit, Receive, ReceiveInitializing, HandleReceiveTimeout,
       OnRemove, OnAbort, OnShutdown, Acknowledge, TerminatedConnecting, TerminatedInitializing,
       TerminatedConnected, TerminatedShuttingDown, TerminatedAwaitingDecoders, Ignore, listenerVars

(* Only a thread hands anything over, and what the others do forgets       *)
(* nothing.                                                                *)
LEMMA OtherStepsKeep ==
    ASSUME TypeInv, LifeInv, CalmInv, Undropped, SingleRequests, [Next]_vars, lstate' # "stopped"
    PROVE  \/ \E t \in Threads : Check(t) \/ Post(t)
           \/ lstate # "stopped" /\ Keeps /\ UNCHANGED sent
<1> DEFINE Done == lstate # "stopped" /\ Keeps /\ UNCHANGED sent
<1>1. ASSUME NEW item \in Items, CompleteTransaction(item) PROVE FALSE
  BY <1>1 DEF CompleteTransaction, SingleRequests
<1>2. ASSUME ListenerStep PROVE Done
  BY <1>2, StoppedStays, ListenerKeeps DEF ListenerStep, others, clientVars
<1>3. ASSUME NEW d \in Decoders, DecoderStep(d) PROVE Done
  <2>1. /\ DecodePartition(d) \/ DecoderStop(d)
        /\ UNCHANGED listenerVars /\ UNCHANGED lstate /\ UNCHANGED sent
    BY <1>3 DEF DecoderStep, others, clientVars, listenerVars
  <2> QED BY <2>1, DecodersKeep
<1>4. ASSUME NEW c \in Connections, IOStep(c) \/ (Crash /\ IOCrash(c)) PROVE Done
  <2>1. /\ IONext(c) \/ IOCrash(c)
        /\ UNCHANGED listenerVars /\ UNCHANGED <<dbox, lstate, sent>>
    BY <1>4 DEF IOStep, Crash, decoderVars, others, clientVars, listenerVars
  <2>2. /\ UNCHANGED outcome
        /\ UNCHANGED lbox \/ \E t \in {"Connected", "Shutdown", "Terminated"} : Tell(t)
    BY <2>1, ActorsCalm DEF CalmInv
  <2>3. \A i : InBox(i) => InBox(i)'
    BY <2>2, BoxSignalled DEF InBox, ListenerSignals
  <2> QED BY <2>1, <2>2, <2>3, OthersKeep
<1>5. ASSUME NEW c \in Connections,
             \/ TcpStep(c) \/ Execute(c)
             \/ (Faulty /\ (TcpConnectFail(c) \/ TcpWriteFail(c) \/ TcpDrop(c)))
      PROVE  Done
  <2>1. UNCHANGED listenerVars /\ UNCHANGED <<outcome, dbox, lstate, sent>>
    BY <1>5 DEF TcpStep, Execute, Faulty, user, decoderVars, clientVars, listenerVars
  <2>2. \/ TcpConnect(c) \/ TcpWrite(c) \/ TcpRead(c) \/ TcpAbort(c) \/ TcpQuit(c)
        \/ ServerExecute(c) \/ ServerSkip(c)
        \/ TcpConnectFail(c) \/ TcpWriteFail(c) \/ TcpDrop(c)
    BY <1>5 DEF TcpStep, Execute
  <2>3. UNCHANGED lbox \/ TcpRead(c)
    BY <2>2, ConnectionsCalm
  <2>4. UNCHANGED lbox \/ \E m : lbox' = AfterTellingListener(lbox, <<m>>)
    BY <2>3 DEF TcpRead
  <2>5. \A i : InBox(i) => InBox(i)'
    BY <2>4, BoxTold DEF InBox
  <2> QED BY <2>1, <2>5, OthersKeep
<1>6. ASSUME NEW c \in Connections, ConnectTimeoutFires(c) \/ AbortTimeoutFires(c) PROVE Done
  <2>1. UNCHANGED listenerVars /\ UNCHANGED <<lbox, outcome, dbox, lstate, sent>>
    BY <1>6 DEF ConnectTimeoutFires, AbortTimeoutFires, FireConnectTimeout, FireAbortTimeout,
                decoderVars, others, clientVars, listenerVars
  <2> QED BY <2>1, OthersKeep DEF InBox
<1>7. ~ReceiveTimeoutFires
  BY DEF ReceiveTimeoutFires, Fault, Undropped
<1>8. ASSUME UNCHANGED vars PROVE Done
  BY <1>8, OthersKeep DEF vars, InBox, listenerVars, clientVars
<1>9. ASSUME Faulty \/ Crash PROVE Done
  BY <1>4, <1>5, <1>9 DEF Faulty, Crash
<1> QED BY <1>1, <1>2, <1>3, <1>4, <1>5, <1>6, <1>7, <1>8, <1>9 DEF Next

LEMMA WorkloadStep ==
    ASSUME TypeInv, LifeInv, CalmInv, Undropped, SingleRequests, InWorkload, [Next]_vars
    PROVE  InWorkload'
<1>1. ASSUME NEW t \in Threads, Check(t) \/ Post(t) PROVE InWorkload'
  <2>1. HasItem(t) /\ sent' \in {sent, [sent EXCEPT ![t] = @ + 1]}
    BY <1>1 DEF Check, Post, TypeInv, AdmittedHasItem
  <2>2. sent \in [Threads -> Nat] /\ Workload[t] \in Seq(Item)
    BY WorkloadAssumption DEF TypeInv, TypeOK
  <2> QED BY <2>1, <2>2 DEF InWorkload, HasItem
<1>2. ASSUME UNCHANGED sent PROVE InWorkload'
  BY <1>2 DEF InWorkload
<1>3. \/ \E t \in Threads : Check(t) \/ Post(t)
      \/ UNCHANGED sent
  BY DEF Next, CompleteTransaction, ListenerStep, DecoderStep, IOStep, TcpStep, Execute,
         ConnectTimeoutFires, AbortTimeoutFires, Faulty, Crash, ReceiveTimeoutFires, user, others,
         clientVars, vars
<1> QED BY <1>1, <1>2, <1>3

(* What a thread hands over is refused, or in the listener's mailbox.      *)
LEMMA HandoverKeeps ==
    ASSUME TypeInv, InWorkload, SingleRequests, lstate' # "stopped",
           NEW t \in Threads, Check(t) \/ Post(t), NEW i, i = LastId(NextItem(t))
    PROVE  /\ Keeps /\ lstate # "stopped"
           /\ \A u \in Threads \ {t} : sent'[u] = sent[u]
           /\ \/ sent'[t] = sent[t]
              \/ /\ sent'[t] = sent[t] + 1 /\ sent[t] + 1 \in DOMAIN Workload[t]
                 /\ outcome'[i] # "pending" \/ InBox(i)'
<1> PICK item : item = NextItem(t)
  OBVIOUS
<1>1. /\ sent \in [Threads -> Nat] /\ outcome \in [Ids -> Outcomes]
      /\ lbox \in Seq(ListenerMessage) /\ UNCHANGED listenerVars /\ UNCHANGED <<lstate, dbox>>
    BY DEF TypeInv, TypeOK, LTypeOK, Check, Post, decoderVars, listenerVars
<1>2. HasItem(t)
  BY DEF Check, Post, TypeInv, AdmittedHasItem
<1>3. sent[t] + 1 \in DOMAIN Workload[t]
  BY <1>1, <1>2, WorkloadAssumption DEF HasItem
<1>4. item \in Item /\ item.type = "Request" /\ item.reqs \in Seq(Mundane) /\ Len(item.reqs) = 1
        /\ i \in Ids /\ i = LastId(item)
  BY <1>3, ItemsCalm, LastIds DEF NextItem
<1>5. CASE Check(t)
  <2>1. UNCHANGED lbox
    BY <1>5 DEF Check
  <2>2. \/ outcome' = Complete({i}, "refused") /\ sent' = [sent EXCEPT ![t] = @ + 1]
        \/ UNCHANGED <<outcome, sent>>
    BY <1>5 DEF Check
  <2>3. Keeps
    <3>1. \A j \in Ids : outcome'[j] = "pending" => outcome[j] = "pending"
      BY <1>1, <2>2, CompletesForGood
    <3> QED BY <1>1, <2>1, <3>1 DEF Keeps, Holds, InBox, InParts, listenerVars
  <2>4. outcome' = Complete({i}, "refused") => outcome'[i] # "pending"
    BY <1>1, <1>4, CompletesForGood
  <2> QED BY <1>1, <1>3, <2>2, <2>3, <2>4
<1>6. CASE Post(t)
  <2>1. /\ lbox' = lbox \o <<item>> /\ sent' = [sent EXCEPT ![t] = @ + 1] /\ UNCHANGED outcome
        /\ lbox' = AfterTellingListener(lbox, <<item>>)
    BY <1>1, <1>6 DEF Post, AfterTellingListener
  <2>2. Keeps
    BY <1>1, <2>1, BoxTold, OthersKeep
  <2>3. InBox(i)'
    <3>1. Len(lbox) + 1 \in DOMAIN lbox' /\ lbox'[Len(lbox) + 1] = item
      BY <1>1, <2>1
    <3>2. i \in IdsOf(item.reqs)
      BY <1>4 DEF LastId, IdsOf
    <3> QED BY <1>4, <3>1, <3>2 DEF InBox
  <2> QED BY <1>1, <1>3, <2>1, <2>2, <2>3
<1> QED BY <1>5, <1>6

LEMMA ForgetStep ==
    ASSUME TypeInv, LifeInv, CalmInv, InWorkload, Undropped, SingleRequests, NothingForgotten,
           [Next]_vars
    PROVE  NothingForgotten'
<1> SUFFICES ASSUME lstate' # "stopped", NEW t \in Threads, NEW k \in 1..sent'[t],
                    NEW i, i = LastId(Workload[t][k]), outcome'[i] = "pending"
             PROVE  i \in Tracked'
  BY DEF NothingForgotten
<1>1. CASE lstate # "stopped" /\ Keeps /\ UNCHANGED sent
  BY <1>1, KeptIsNotForgotten
<1>2. ASSUME NEW u \in Threads, Check(u) \/ Post(u) PROVE i \in Tracked'
  <2>1. /\ Keeps /\ lstate # "stopped"
        /\ \A x \in Threads \ {u} : sent'[x] = sent[x]
        /\ \/ sent'[u] = sent[u]
           \/ /\ sent'[u] = sent[u] + 1
              /\ \A j : j = LastId(NextItem(u)) => outcome'[j] # "pending" \/ InBox(j)'
    BY <1>2, HandoverKeeps
  <2>2. sent[t] \in Nat
    BY DEF TypeInv, TypeOK
  <2>3. CASE k \in 1..sent[t]
    BY <2>1, <2>3, KeptIsNotForgotten
  <2>4. CASE k \notin 1..sent[t]
    <3>1. t = u /\ k = sent[t] + 1
      BY <2>1, <2>2, <2>4
    <3>2. i = LastId(NextItem(u))
      BY <3>1 DEF NextItem
    <3>3. InBox(i)'
      BY <2>1, <2>2, <3>1, <3>2
    <3> QED BY <3>3, TrackedHoldsNext DEF TrackedIsHeld, Holds
  <2> QED BY <2>3, <2>4
<1> QED BY <1>1, <1>2, OtherStepsKeep

(* Every request handed over is completed, waits in the listener, or is    *)
(* with a decoder: connections may be refused, writes may fail and be      *)
(* repeated, IOActors may crash, the listener may reconnect and shut down, *)
(* replies may be split over reads, and none of it loses a request.        *)
(* Neither hypothesis can be left out.  An IOActor that drops or aborts    *)
(* its connection has Remove take the newest requests from the listener,   *)
(* whichever they are; and QUEUED, paired with another request than its    *)
(* own, completes nobody and leaves the listener.                          *)
THEOREM NobodyIsForgotten ==
    ASSUME Undropped, SingleRequests
    PROVE  Spec => []NothingForgotten
<1> DEFINE Inv == TypeInv /\ LifeInv /\ CalmInv /\ InWorkload /\ NothingForgotten
<1>1. Init => Inv
  <2>1. Init => InWorkload /\ NothingForgotten
    BY WorkloadAssumption DEF Init, InWorkload, NothingForgotten
  <2> QED BY <2>1, TypeInit, LifeInit, CalmInit
<1>2. Inv /\ [Next]_vars => Inv'
  <2> SUFFICES ASSUME Inv, [Next]_vars PROVE Inv'
    OBVIOUS
  <2> QED BY TypeStep, LifeStep, CalmStep, WorkloadStep, ForgetStep
<1> QED BY <1>1, <1>2, PTL DEF Spec

=============================================================================
