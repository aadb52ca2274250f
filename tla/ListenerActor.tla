--------------------------- MODULE ListenerActor ---------------------------
(***************************************************************************)
(* ListenerActor.scala: keeps the order of the requests of a connection,   *)
(* pairs every reply with the oldest unanswered request, and replaces the  *)
(* IOActor when it dies.  One action per case of its behaviours.           *)
(***************************************************************************)
EXTENDS ActorSystem, FiniteSets

ASSUME ListenerAssumption == IsFiniteSet(Decoders)

VARIABLES
    remaining,       \* remainingByteStringOpt
    initCount,       \* initializationRequestsCount
    isConnecting,
    isShuttingDown,
    shutBefore,      \* isShuttingDownBeforeConnected
    timerSet,        \* timeoutCancellableOpt.isDefined
    timerRunning,    \* a scheduled ReceiveTimeout has neither fired nor been cancelled
    queued,          \* queuedRequests
    requests,        \* sent and unanswered, oldest first
    settings,        \* authOpt, database and nameOpt
    decodersLeft     \* decodersCount

listenerVars == <<lstate, epoch, remaining, initCount, isConnecting, isShuttingDown, shutBefore,
                  timerSet, timerRunning, queued, requests, settings, decodersLeft>>
connecting == <<isConnecting, shutBefore, epoch, decodersLeft>>
timer == <<timerSet, timerRunning>>
sending == <<queued, requests, settings, isShuttingDown, timer>>

(* DecoderActor.Partition: some replies, and the requests of the last ones. *)
Partition == {p \in [type: {"Partition"}, replies: Seq(Reply), reqs: Seq(Request), skip: Nat] :
                  p.skip + Len(p.reqs) = Len(p.replies)}
DecoderMessage == Partition \cup [type: {"PoisonPill"}]

LTypeOK ==
    /\ lbox \in Seq(ListenerMessage)
    /\ lstate \in {"connecting", "initializing", "initialized", "reconnecting",
                   "shuttingDown", "awaitingDecodersShutdown", "stopped"}
    /\ epoch \in Connections
    /\ remaining \in Seq(Reply)
    /\ initCount \in Int
    /\ isConnecting \in BOOLEAN
    /\ isShuttingDown \in BOOLEAN
    /\ shutBefore \in BOOLEAN
    /\ timerSet \in BOOLEAN
    /\ timerRunning \in BOOLEAN
    /\ queued \in Seq(Request)
    /\ requests \in Seq(Request)
    /\ settings \in SettingsType
    /\ decodersLeft \in Int
    /\ dbox \in [Decoders -> Seq(DecoderMessage)]
    /\ deadDecoders \subseteq Decoders

-----------------------------------------------------------------------------
(* Sending.                                                                *)

(* Mutant: an empty client name does not clear the name.                   *)
RememberNonEmpty(s, rs) ==
    [op \in SessionOps |->
        LET Last(i) == /\ rs[i].op = op /\ rs[i].value # 0
                       /\ \A j \in DOMAIN rs : j > i => rs[j].op # op
        IN IF \E i \in DOMAIN rs : Last(i)
           THEN rs[CHOOSE i \in DOMAIN rs : Last(i)].value
           ELSE s[op]]

(* The settings after sending rs: for each of them, the last one wins.     *)
Remember(s, rs) ==
    [op \in SessionOps |->
        LET Last(i) == rs[i].op = op /\ \A j \in DOMAIN rs : j > i => rs[j].op # op
        IN IF \E i \in DOMAIN rs : Last(i)
           THEN rs[CHOOSE i \in DOMAIN rs : Last(i)].value
           ELSE s[op]]

HasQuit(rs) == \E i \in DOMAIN rs : rs[i].op = "quit"

(* send(requests...) hands over the requests that no QUIT precedes...      *)
UpToQuit(rs) ==
    SubSeq(rs, 1, Cardinality({i \in DOMAIN rs : \A j \in 1..i - 1 : rs[j].op # "quit"}))
(* ...and fails the rest.                                                  *)
AfterQuit(rs) == SubSeq(rs, Len(UpToQuit(rs)) + 1, Len(rs))

(* doSend for each of rs.  It schedules the receive timeout unless          *)
(* timeoutCancellableOpt, here `set`, holds one; a timer that a late        *)
(* ReceiveTimeout has made it forget while it runs counts as one with the  *)
(* next.  before is what is already sent and q what stays queued.          *)
Send(rs, before, q, set) ==
    /\ requests' = before \o rs
    /\ io' = [io EXCEPT ![epoch] = Told(@, IORequests(rs))]
    /\ settings' = Remember(settings, rs)
    /\ isShuttingDown' = (isShuttingDown \/ HasQuit(rs))
    /\ queued' = q
    /\ LET arms == rs # <<>> /\ ReceiveTimeoutDefined /\ ~set
       IN /\ timerSet' = (set \/ arms)
          /\ timerRunning' = (arms \/ (set /\ timerRunning))

Receives(t) == lbox # <<>> /\ Head(lbox).type = t
Consume == lbox' = Tail(lbox)
IsItem == Receives("Request") \/ Receives("Transaction")
Handed == Head(lbox).reqs

(* In the behaviours that `fail`: for a transaction only EXEC is failed.   *)
FailItem ==
    /\ lstate \in {"shuttingDown", "awaitingDecodersShutdown"}
    /\ IsItem /\ Consume
    /\ outcome' = Complete({Handed[Len(Handed)].id}, "failed")
    /\ UNCHANGED <<io, dbox, listenerVars>>

(* Mutant: MULTI is not queued with the rest of the transaction.           *)
EnqueuedWithoutMulti == queued \o SelectSeq(Handed, LAMBDA r : r.op # "multi")

Enqueued == queued \o Handed

QueueItem ==
    /\ lstate \in {"initializing", "reconnecting"}
    /\ IsItem /\ Consume
    /\ queued' = Enqueued
    /\ UNCHANGED <<io, outcome, lstate, remaining, initCount, connecting,
                   isShuttingDown, timer, requests, settings, dbox>>

(* Mutant: the listener goes on as if QUIT were any command.               *)
StaysInitialized(rs) == lstate

BehaviourAfterSending(rs) == IF HasQuit(rs) THEN "shuttingDown" ELSE lstate

(* sendReceive.  In a transaction MULTI, the requests and EXEC are handed  *)
(* to three calls of send.                                                 *)
SendItem ==
    /\ lstate = "initialized"
    /\ IsItem /\ Consume
    /\ LET members == SubSeq(Handed, 2, Len(Handed) - 1)
           sent == IF Len(Handed) = 1 THEN Handed
                   ELSE <<Handed[1]>> \o UpToQuit(members) \o <<Handed[Len(Handed)]>>
           dropped == IF Len(Handed) = 1 THEN <<>> ELSE AfterQuit(members)
       IN /\ Send(sent, requests, queued, timerSet)
          /\ outcome' = Complete(IdsOf(dropped), "failed")
          /\ lstate' = BehaviourAfterSending(sent)
    /\ UNCHANGED <<remaining, initCount, connecting, dbox>>

-----------------------------------------------------------------------------
(* Connecting.                                                             *)

(* reconnect(): a new IOActor.  What is left of a reply and the receive    *)
(* timer stay as they are.                                                 *)
Reconnect ==
    /\ epoch < MaxConnections
    /\ epoch' = epoch + 1
    /\ io' = [io EXCEPT ![epoch + 1] = NewIOActor]
    /\ isConnecting' = TRUE
    /\ lstate' = "connecting"

(* shutdown(): every decoder gets a PoisonPill.                            *)
PoisonDecoders ==
    /\ dbox' = [d \in Decoders |-> IF d \in deadDecoders THEN dbox[d]
                                   ELSE Append(dbox[d], Signal("PoisonPill"))]
    /\ lstate' = "awaitingDecodersShutdown"

QuitWhileConnecting ==
    /\ lstate = "connecting"
    /\ Receives("Request") /\ Handed[1].op = "quit" /\ Consume
    /\ outcome' = [Complete(IdsOf(queued), "failed") EXCEPT ![Handed[1].id] =
                       IF outcome[Handed[1].id] = "pending" THEN "ok" ELSE @]
    /\ queued' = <<>>
    /\ shutBefore' = TRUE
    /\ PoisonDecoders
    /\ UNCHANGED <<io, epoch, remaining, initCount, isConnecting,
                   isShuttingDown, timer, requests, settings, decodersLeft>>

(* Mutant: a request does not make the listener try again.                 *)
WaitForever == UNCHANGED <<io, epoch, isConnecting, lstate>>

ReconnectUnlessConnecting ==
    IF isConnecting THEN UNCHANGED <<io, epoch, isConnecting, lstate>> ELSE Reconnect

(* A request may be failed at once; a transaction is always queued.        *)
ItemWhileConnecting ==
    /\ lstate = "connecting"
    /\ IsItem /\ ~(Receives("Request") /\ Handed[1].op = "quit") /\ Consume
    /\ IF Receives("Request") /\ FailCommandOnConnecting
       THEN outcome' = Complete(IdsOf(Handed), "failed") /\ UNCHANGED queued
       ELSE queued' = Enqueued /\ UNCHANGED outcome
    /\ ReconnectUnlessConnecting
    /\ UNCHANGED <<remaining, initCount, isShuttingDown, shutBefore, timer, requests,
                   settings, decodersLeft, dbox>>

(* Mutant: databases are counted from one.                                 *)
InitRequestFromOne(op, s) ==
    IF s[op] = 0 THEN <<>> ELSE <<[id |-> Internal, op |-> op, value |-> s[op] + 1]>>

InitRequest(op, s) ==
    IF s[op] = 0 THEN <<>> ELSE <<[id |-> Internal, op |-> op, value |-> s[op]]>>
InitRequests(s) ==
    InitRequest("auth", s) \o InitRequest("select", s) \o InitRequest("setName", s)

(* Whatever follows onInitialized(): flush the queue, then settle.         *)
SendAllQueued(before, set) ==
    /\ Send(queued, before, <<>>, set)
    /\ lstate' = IF isShuttingDown' THEN "shuttingDown" ELSE "initialized"

OnConnected ==
    /\ lstate = "connecting" /\ ~shutBefore
    /\ Receives("Connected") /\ Consume
    /\ isConnecting' = FALSE
    /\ LET initial == InitRequests(settings)
       IN /\ initCount' = Len(initial)
          /\ IF initial # <<>>
             THEN Send(initial, requests, queued, timerSet) /\ lstate' = "initializing"
             ELSE SendAllQueued(requests, timerSet)
    /\ UNCHANGED <<epoch, outcome, remaining, shutBefore, decodersLeft, dbox>>

OnConnectedAfterQuit ==
    /\ lstate = "connecting" /\ shutBefore
    /\ Receives("Connected") /\ Consume
    /\ isConnecting' = FALSE
    /\ PoisonDecoders
    /\ UNCHANGED <<io, epoch, outcome, remaining, initCount, shutBefore,
                   sending, decodersLeft>>

(* Mutant: failAllQueuedRequests only empties the queue.                   *)
DropQueued == queued' = <<>> /\ UNCHANGED outcome

FailQueued ==
    /\ outcome' = Complete(IdsOf(queued), "failed")
    /\ queued' = <<>>

(* The connection could not be established.                                *)
TerminatedConnecting ==
    /\ lstate = "connecting"
    /\ Receives("Terminated") /\ Consume
    /\ isConnecting' = FALSE
    /\ FailQueued
    /\ UNCHANGED <<io, epoch, lstate, remaining, initCount, isShuttingDown,
                   shutBefore, timer, requests, settings, decodersLeft, dbox>>

-----------------------------------------------------------------------------
(* Receiving.                                                              *)

(* Mutant: a reply of which only the beginning has arrived is counted.     *)
ParsedTooFar(data) == data.replies \o data.rest

(* Protocol.count over remainingByteStringOpt ++ data.  When the read does *)
(* not resume what remains, the parser still reads on as if it did.        *)
Parsed(data) ==
    IF remaining = <<>> \/ data.replies = <<>> THEN data.replies
    ELSE LET rejoined == data.resumes /\ Head(data.replies) = Head(remaining)
             first == IF rejoined THEN Head(remaining)
                                  ELSE [to |-> Head(remaining).to, kind |-> "garbled"]
         IN <<first>> \o Tail(data.replies)

(* receiveData and handleData: the answered requests leave with their      *)
(* replies, for whichever decoder the router picks.                        *)
ReceiveData(data) ==
    LET replies == Parsed(data)
        count == IF Len(replies) > Len(requests) THEN Len(requests) ELSE Len(replies)
    IN /\ remaining' = IF replies = <<>> /\ remaining # <<>> THEN remaining ELSE data.rest
       /\ IF replies = <<>> THEN UNCHANGED dbox
          ELSE \E d \in Decoders \ deadDecoders :
                 dbox' = [dbox EXCEPT ![d] = Append(@,
                            [type |-> "Partition", replies |-> replies,
                             reqs |-> SubSeq(requests, 1, count),
                             skip |-> Len(replies) - count])]

(* Mutant: one request too many is popped.                                 *)
UnansweredButOne(data) ==
    SubSeq(requests, Len(Parsed(data)) + 2, Len(requests))

Unanswered(data) ==
    IF Len(Parsed(data)) > Len(requests) THEN <<>>
    ELSE SubSeq(requests, Len(Parsed(data)) + 1, Len(requests))

Receive ==
    /\ lstate \in {"initialized", "shuttingDown"}
    /\ Receives("Received") /\ Consume
    /\ ReceiveData(Head(lbox).data)
    /\ requests' = Unanswered(Head(lbox).data)
    /\ timerSet' = FALSE /\ timerRunning' = FALSE
    /\ UNCHANGED <<io, outcome, lstate, initCount, connecting, isShuttingDown,
                   queued, settings>>

ReceiveInitializing ==
    /\ lstate = "initializing"
    /\ Receives("Received") /\ Consume
    /\ LET data == Head(lbox).data
       IN /\ ReceiveData(data)
          /\ initCount' = initCount - Len(Parsed(data))
          /\ IF initCount' = 0
             THEN SendAllQueued(Unanswered(data), FALSE)
             ELSE /\ requests' = Unanswered(data)
                  /\ timerSet' = FALSE /\ timerRunning' = FALSE
                  /\ UNCHANGED <<io, lstate, isShuttingDown, queued, settings>>
    /\ UNCHANGED <<outcome, connecting>>

-----------------------------------------------------------------------------
(* Losing the connection.                                                  *)

HandleReceiveTimeout ==
    /\ lstate \in {"initializing", "initialized", "shuttingDown"}
    /\ Receives("ReceiveTimeout") /\ Consume
    /\ remaining' = <<>>
    /\ timerSet' = FALSE
    /\ io' = [io EXCEPT ![epoch] = Told(@, <<Signal("Shutdown")>>)]
    /\ lstate' = "reconnecting"
    /\ UNCHANGED <<outcome, initCount, connecting, isShuttingDown, timerRunning,
                   queued, requests, settings, dbox>>

(* A request the IOActor failed was the oldest, or so the listener thinks. *)
OnRemove ==
    /\ lstate # "stopped"
    /\ Receives("Remove") /\ Consume
    /\ requests # <<>>
    /\ requests' = Tail(requests)
    /\ UNCHANGED <<io, outcome, lstate, remaining, initCount, connecting,
                   isShuttingDown, timer, queued, settings, dbox>>

(* Mutant: shuttingDown has no case of its own for Shutdown.               *)
AlwaysReconnecting(signal) == "reconnecting"

BehaviourAfter(signal) ==
    IF lstate = "shuttingDown" /\ signal = "Shutdown" THEN lstate ELSE "reconnecting"

(* Abort and Shutdown of the IOActor.  Only shuttingDown has a case of its *)
(* own for Shutdown; everywhere else they lead to reconnecting.            *)
Acknowledge(signal, ack) ==
    /\ lstate # "stopped"
    /\ Receives(signal) /\ Consume
    /\ io' = [io EXCEPT ![epoch] = Told(@, <<Signal(ack)>>)]
    /\ lstate' = BehaviourAfter(signal)
    /\ UNCHANGED <<outcome, remaining, initCount, connecting, sending, dbox>>

OnAbort == Acknowledge("Abort", "AbortAck")
OnShutdown == Acknowledge("Shutdown", "ShutdownAck")

TerminatedInitializing ==
    /\ lstate = "initializing"
    /\ Receives("Terminated") /\ Consume
    /\ FailQueued
    /\ Reconnect
    /\ UNCHANGED <<remaining, initCount, isShuttingDown, shutBefore, timer, requests,
                   settings, decodersLeft, dbox>>

(* Mutant: failAllSentRequests leaves the requests where they are.         *)
FailSentAndKeep ==
    /\ outcome' = Complete(IdsOf(requests), "failed")
    /\ UNCHANGED requests

FailSent ==
    /\ outcome' = Complete(IdsOf(requests), "failed")
    /\ requests' = <<>>

TerminatedConnected ==
    /\ lstate \in {"initialized", "reconnecting"}
    /\ Receives("Terminated") /\ Consume
    /\ FailSent
    /\ Reconnect
    /\ UNCHANGED <<remaining, initCount, isShuttingDown, shutBefore, timer, queued,
                   settings, decodersLeft, dbox>>

TerminatedShuttingDown ==
    /\ lstate = "shuttingDown"
    /\ Receives("Terminated") /\ Consume
    /\ PoisonDecoders
    /\ UNCHANGED <<io, outcome, remaining, initCount, connecting, sending>>

(* Any Terminated counts as a decoder's.  Stopping the listener stops its  *)
(* IOActors and its decoders.                                              *)
TerminatedAwaitingDecoders ==
    /\ lstate = "awaitingDecodersShutdown"
    /\ Receives("Terminated")
    /\ decodersLeft' = decodersLeft - 1
    /\ IF decodersLeft' = 0
       THEN /\ lstate' = "stopped"
            /\ lbox' = <<>>
            /\ io' = [e \in Connections |-> IF io[e].state = "none" THEN io[e]
                                            ELSE Stopped]
            /\ dbox' = [d \in Decoders |-> <<>>]
       ELSE Consume /\ UNCHANGED <<lstate, io, dbox>>
    /\ UNCHANGED <<outcome, epoch, remaining, initCount, isConnecting, shutBefore, sending>>

(* Messages a behaviour has an empty case for, or none.                    *)
Ignored ==
    \/ Receives("ReceiveTimeout") /\ lstate \in {"connecting", "reconnecting"}
    \/ Receives("ReceiveTimeout") /\ lstate = "awaitingDecodersShutdown"
    \/ Receives("Received") /\ lstate \in {"connecting", "reconnecting"}
    \/ Receives("Received") /\ lstate = "awaitingDecodersShutdown"
    \/ Receives("Connected") /\ lstate # "connecting"

Ignore == Ignored /\ Consume /\ UNCHANGED <<io, dbox, outcome, listenerVars>>

(* The scheduler fires the receive timeout.                                *)
FireReceiveTimeout ==
    /\ timerRunning
    /\ timerRunning' = FALSE
    /\ lbox' = AfterTellingListener(lbox, <<Signal("ReceiveTimeout")>>)
    /\ UNCHANGED <<io, outcome, lstate, epoch, remaining, initCount, isConnecting,
                   isShuttingDown, shutBefore, timerSet, queued, requests, settings,
                   decodersLeft, dbox>>

LInit ==
    /\ lbox = <<>>
    /\ lstate = "connecting"
    /\ epoch = 1
    /\ remaining = <<>>
    /\ initCount = 0
    /\ isConnecting = TRUE
    /\ isShuttingDown = FALSE
    /\ shutBefore = FALSE
    /\ timerSet = FALSE
    /\ timerRunning = FALSE
    /\ queued = <<>>
    /\ requests = <<>>
    /\ settings = InitialSettings
    /\ decodersLeft = Cardinality(Decoders)
    /\ dbox = [d \in Decoders |-> <<>>]
    /\ deadDecoders = {}
    /\ io = [e \in Connections |-> IF e = 1 THEN NewIOActor ELSE NoIOActor]

LNext ==
    \/ FailItem \/ QueueItem \/ SendItem
    \/ QuitWhileConnecting \/ ItemWhileConnecting
    \/ OnConnected \/ OnConnectedAfterQuit
    \/ Receive \/ ReceiveInitializing
    \/ HandleReceiveTimeout \/ OnRemove \/ OnAbort \/ OnShutdown
    \/ TerminatedConnecting \/ TerminatedInitializing \/ TerminatedConnected
    \/ TerminatedShuttingDown \/ TerminatedAwaitingDecoders
    \/ Ignore

=============================================================================
