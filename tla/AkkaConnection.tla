-------------------------- MODULE AkkaConnection --------------------------
(***************************************************************************)
(* One non-blocking connection: user threads, the ListenerActor, the       *)
(* current IOActor, the decoders, and the TCP connections to the server.   *)
(*                                                                         *)
(* The threads run AkkaNonBlockingConnection.send.  Reading isShuttingDown *)
(* and telling the listener are two steps, between which another thread    *)
(* may send QUIT.                                                          *)
(***************************************************************************)
EXTENDS ListenerActor, IOActor, DecoderActor, TcpServer

Lists == INSTANCE SequencesExt

CONSTANTS
    Threads,
    Workload,    \* Workload[t]: the items thread t sends, in order
    Blocking     \* a thread waits for its last item before it sends the next

ASSUME WorkloadAssumption ==
    /\ Workload \in [Threads -> Seq(Item)]
    /\ Blocking \in BOOLEAN

(* Every call of a command makes a Request, with a promise, of its own.    *)
ASSUME RequestsAreDistinct ==
    \A t, u \in Threads : \A k \in DOMAIN Workload[t], l \in DOMAIN Workload[u] :
        \A i \in DOMAIN Workload[t][k].reqs, j \in DOMAIN Workload[u][l].reqs :
            (Workload[t][k].reqs[i].id = Workload[u][l].reqs[j].id
               /\ Workload[t][k].reqs[i].id # Internal) => t = u /\ k = l /\ i = j

(* A request that is handed over has its bytes, and a thread holds the     *)
(* future of the last one of every item.                                   *)
ASSUME RequestsAreFresh ==
    \A t \in Threads : \A k \in DOMAIN Workload[t] :
        LET rs == Workload[t][k].reqs
        IN rs[Len(rs)].id \in Ids /\ \A i \in DOMAIN rs : rs[i].op # "spent"

(* Transaction.scala: the library puts its MULTI, which is one for all and *)
(* nobody waits for, before the requests of a transaction, and an EXEC     *)
(* after them; users send neither.                                         *)
ASSUME TransactionsAreRuns ==
    \A t \in Threads : \A k \in DOMAIN Workload[t] :
        LET rs == Workload[t][k].reqs
            First(i) == Workload[t][k].type = "Transaction" /\ i = 1
            Last(i) == Workload[t][k].type = "Transaction" /\ i = Len(rs)
        IN \A i \in DOMAIN rs : /\ (rs[i].op = "multi") = First(i)
                                /\ (rs[i].id = Internal) = First(i)
                                /\ (rs[i].op = "exec") = Last(i)

VARIABLES
    sent,        \* sent[t]: how many items thread t has disposed of
    admitted,    \* admitted[t]: the thread is past the check of isShuttingDown
    closing      \* isShuttingDown of AbstractAkkaConnection

clientVars == <<sent, admitted, closing>>
vars == <<lbox, listenerVars, io, dbox, deadDecoders, outcome, tcp, faults, executed,
          clientVars>>
decoderVars == <<dbox, deadDecoders>>
others == <<faults, executed, clientVars>>

NextItem(t) == Workload[t][sent[t] + 1]
HasItem(t) == sent[t] < Len(Workload[t])
LastId(item) == item.reqs[Len(item.reqs)].id

(* Mutant: updateState has no case for QUIT.                               *)
ClosedByNothing(item) == closing

(* updateState for the requests of an item.                                *)
ClosedBy(item) == HasQuit(item.reqs)

(* send: refuse, or update the state and go on.                            *)
Check(t) ==
    /\ HasItem(t) /\ ~admitted[t]
    /\ Blocking /\ sent[t] > 0 => outcome[LastId(Workload[t][sent[t]])] # "pending"
    /\ IF closing
       THEN /\ outcome' = Complete({LastId(NextItem(t))}, "refused")
            /\ sent' = [sent EXCEPT ![t] = @ + 1]
            /\ UNCHANGED <<admitted, closing>>
       ELSE /\ admitted' = [admitted EXCEPT ![t] = TRUE]
            /\ closing' = ClosedBy(NextItem(t))
            /\ UNCHANGED <<sent, outcome>>
    /\ UNCHANGED <<lbox, listenerVars, io, decoderVars, tcp, faults, executed>>

(* Protocol.send: listenerActor ! request.                                 *)
Post(t) ==
    /\ admitted[t]
    /\ lbox' = AfterTellingListener(lbox, <<NextItem(t)>>)
    /\ admitted' = [admitted EXCEPT ![t] = FALSE]
    /\ sent' = [sent EXCEPT ![t] = @ + 1]
    /\ UNCHANGED <<outcome, listenerVars, io, decoderVars, tcp, faults, executed, closing>>

(* Transaction.scala: when EXEC is completed, the requests of the          *)
(* transaction that are not are completed too.                             *)
CompleteTransaction(item) ==
    LET exec == LastId(item)
        ids == IdsOf(item.reqs) \ {Internal}
    IN /\ item.type = "Transaction"
       /\ outcome[exec] \in {"ok", "failed", "wrong"}
       /\ \E i \in ids : outcome[i] = "pending"
       /\ outcome' = Complete(ids, outcome[exec])
       /\ UNCHANGED <<lbox, listenerVars, io, decoderVars, tcp, others>>

Items == UNION {{Workload[t][i] : i \in DOMAIN Workload[t]} : t \in Threads}

-----------------------------------------------------------------------------
(* The steps of the parts.                                                 *)
ListenerStep == LNext /\ UNCHANGED <<deadDecoders, tcp, others>>
IOStep(e) == IONext(e) /\ UNCHANGED <<listenerVars, decoderVars, others>>
DecoderStep(d) ==
    /\ DecodePartition(d) \/ DecoderStop(d)
    /\ UNCHANGED <<listenerVars, io, tcp, others>>

user == <<outcome, listenerVars, decoderVars, clientVars>>
TcpStep(c) ==
    /\ TcpConnect(c) \/ TcpWrite(c) \/ TcpRead(c) \/ TcpAbort(c) \/ TcpQuit(c)
    /\ UNCHANGED user
Execute(c) == (ServerExecute(c) \/ ServerSkip(c)) /\ UNCHANGED user
Faulty ==
    /\ \E c \in Connections : TcpConnectFail(c) \/ TcpWriteFail(c) \/ TcpDrop(c)
    /\ UNCHANGED user
Crash ==
    /\ Fault("crash")
    /\ \E c \in Connections : IOCrash(c)
    /\ UNCHANGED <<listenerVars, decoderVars, executed, clientVars>>
ReceiveTimeoutFires ==
    /\ FireReceiveTimeout /\ Fault("receive")
    /\ UNCHANGED <<deadDecoders, tcp, executed, clientVars>>
ConnectTimeoutFires(e) ==
    /\ FireConnectTimeout(e) /\ Fault("connect")
    /\ UNCHANGED <<listenerVars, decoderVars, executed, clientVars>>
AbortTimeoutFires(e) ==
    /\ FireAbortTimeout(e)
    /\ UNCHANGED <<listenerVars, decoderVars, others>>

Init ==
    /\ LInit /\ TcpInit
    /\ outcome = [i \in Ids |-> "pending"]
    /\ sent = [t \in Threads |-> 0]
    /\ admitted = [t \in Threads |-> FALSE]
    /\ closing = FALSE

Next ==
    \/ \E t \in Threads : Check(t) \/ Post(t)
    \/ \E item \in Items : CompleteTransaction(item)
    \/ ListenerStep
    \/ \E d \in Decoders : DecoderStep(d)
    \/ \E c \in Connections :
          IOStep(c) \/ TcpStep(c) \/ Execute(c)
            \/ ConnectTimeoutFires(c) \/ AbortTimeoutFires(c)
    \/ Faulty \/ Crash \/ ReceiveTimeoutFires

Spec == Init /\ [][Next]_vars

(* Actors are scheduled, sockets are served, threads run, the server works *)
(* through what it receives, and a scheduled AbortTimeout fires.  Faults   *)
(* need not happen.                                                        *)
Fairness ==
    /\ \A t \in Threads : WF_vars(Check(t)) /\ WF_vars(Post(t))
    /\ \A item \in Items : WF_vars(CompleteTransaction(item))
    /\ WF_vars(ListenerStep)
    /\ \A d \in Decoders : WF_vars(DecoderStep(d))
    /\ \A c \in Connections :
          /\ WF_vars(IOStep(c)) /\ WF_vars(TcpStep(c)) /\ WF_vars(Execute(c))
          /\ WF_vars(AbortTimeoutFires(c))

FairSpec == Spec /\ Fairness

-----------------------------------------------------------------------------
(* Properties.                                                             *)

TypeOK ==
    /\ LTypeOK /\ TcpTypeOK
    /\ io \in [Connections -> IOType]
    /\ outcome \in [Ids -> Outcomes]
    /\ sent \in [Threads -> Nat]
    /\ admitted \in [Threads -> BOOLEAN]
    /\ closing \in BOOLEAN

(* A request is completed with the reply the server wrote for it, across   *)
(* batches, reads that split replies, and reconnections (handleData of     *)
(* ListenerActor pairs by position only).                                  *)
RepliesReachTheirRequests == \A i \in Ids : outcome[i] # "wrong"

(* No request slips in unnoticed: the listener begins to shut down only     *)
(* when the connection already refuses requests (updateState of            *)
(* AbstractAkkaConnection), whatever the thread that sent QUIT and the     *)
(* mailbox have done in between.                                           *)
RefusesBeforeShuttingDown == isShuttingDown \/ shutBefore => closing

(* No request is executed twice: neither a repeated write nor a            *)
(* reconnection sends one again that the server has already received.      *)
ExecutedAtMostOnce ==
    \A m, n \in DOMAIN executed :
        \A k \in DOMAIN executed[m].ids, l \in DOMAIN executed[n].ids :
            executed[m].ids[k] = executed[n].ids[l] /\ executed[m].ids[k] # Internal
                => m = n /\ k = l

(* A transaction's commands are executed together, all of them, in their   *)
(* order, with nothing from another thread between them.                   *)
TransactionsAreAtomic ==
    \A item \in Items : item.type = "Transaction" =>
        \A m \in DOMAIN executed :
            (\E k \in DOMAIN executed[m].ids : executed[m].ids[k] \in IdsOf(item.reqs) \ {Internal})
               => executed[m].ids = [k \in 1..Len(item.reqs) - 1 |-> item.reqs[k + 1].id]

(* The connection the listener believes it has.                            *)
Working ==
    /\ lstate \in {"initializing", "initialized", "shuttingDown"}
    /\ io[epoch].state = "connected"
    /\ tcp[epoch].state = "open"

RequestsIn(box) ==
    Lists!FlattenSeq([k \in DOMAIN box |-> IF box[k].type = "Request" THEN <<box[k].req>> ELSE <<>>])
WriteFailed(actor) == \E k \in DOMAIN actor.box : actor.box[k].type = "WriteFailed"

(* What was sent and not yet executed, oldest first.                       *)
OnTheirWay ==
    tcp[epoch].wire \o tcp[epoch].writing
      \o (IF WriteFailed(io[epoch]) THEN io[epoch].batch ELSE <<>>)
      \o io[epoch].requests \o RequestsIn(io[epoch].box)

(* The replies that were delivered to the listener, oldest first.          *)
Delivered ==
    Lists!FlattenSeq([k \in DOMAIN lbox |->
                        IF lbox[k].type = "Received" THEN lbox[k].data.replies ELSE <<>>])
Names(s) == [k \in DOMAIN s |-> s[k].to]
Asked(s) == [k \in DOMAIN s |-> s[k].id]

(* While the connection works, the requests the listener believes to be    *)
(* unanswered are, one by one and in this order, those whose replies it    *)
(* has not looked at, those under way to it, and those not yet executed.   *)
(* Everything handleData does rests on it.                                 *)
PipelineInOrder ==
    Working => Asked(requests) =
                 Names(Delivered) \o Names(tcp[epoch].net) \o Asked(OnTheirWay)

(* While the connection works, the server's session, after what is on its  *)
(* way, has the password, database and name the listener would restore     *)
(* after a reconnection.                                                   *)
SessionIsRestorable ==
    Working => Remember(tcp[epoch].settings, OnTheirWay) = settings

(* Remove finds a request to remove: NoSuchElementException would restart  *)
(* the listener with none of its state.                                    *)
RemoveFindsARequest ==
    (lstate # "stopped" /\ Receives("Remove")) => requests # <<>>

Tracked ==
    IdsOf(queued) \cup IdsOf(requests)
      \cup (UNION {IdsOf(lbox[k].reqs) : k \in {n \in DOMAIN lbox :
                                     lbox[n].type \in {"Request", "Transaction"}}})
      \cup UNION {UNION {IdsOf(dbox[d][k].reqs) : k \in {n \in DOMAIN dbox[d] :
                                     dbox[d][n].type = "Partition"}} : d \in Decoders}

(* A request that was handed over and is not completed is still known to   *)
(* the listener or to a decoder: nobody waits for a future that everybody  *)
(* has forgotten.                                                          *)
NothingForgotten ==
    lstate # "stopped" =>
        \A t \in Threads : \A k \in 1..sent[t] :
            outcome[LastId(Workload[t][k])] = "pending" => LastId(Workload[t][k]) \in Tracked

(* After a QUIT was handed to an IOActor (isShuttingDown of ListenerActor)  *)
(* no new connection is opened.  A QUIT that is answered in `connecting`   *)
(* (isShuttingDownBeforeConnected) is not meant: after it, an established  *)
(* connection that is lost is made again.                                  *)
NoReconnectionAfterQuit == [][isShuttingDown => epoch' = epoch]_vars

(* The requests the server has executed.                                   *)
Executed == UNION {{executed[m].ids[k] : k \in DOMAIN executed[m].ids} : m \in DOMAIN executed}

(* Every request that is handed over is eventually completed.  A QUIT may  *)
(* be left pending: in shuttingDown nobody fails what was sent.            *)
EverythingIsCompleted ==
    \A t \in Threads : \A k \in DOMAIN Workload[t] :
        ~HasQuit(Workload[t][k].reqs) =>
            ((sent[t] >= k) ~> (outcome[LastId(Workload[t][k])] # "pending"))

(* Transactions.md: every command of a transaction is completed with its   *)
(* result once the transaction is executed.                                *)
TransactionsAreCompletedOnceExecuted ==
    \A item \in Items : item.type = "Transaction" =>
        (LastId(item) \in Executed) ~> (\A i \in IdsOf(item.reqs) \ {Internal} :
                                          outcome[i] # "pending")

(* Automatic reconnection: the listener does not wait forever for the old  *)
(* IOActor to end.                                                         *)
ReconnectingEnds == (lstate = "reconnecting") ~> (lstate # "reconnecting")

(* awaitTermination after QUIT returns.                                    *)
QuitStopsTheListener == closing ~> (lstate = "stopped")

(* The connection implements RequestService.                               *)
QuitIds == {r.id : r \in {q \in UNION {{item.reqs[k] : k \in DOMAIN item.reqs} : item \in Items} :
                           q.op = "quit"}}
Service == INSTANCE RequestService WITH ran <- Executed \ {Internal}, Local <- QuitIds
ImplementsService == Service!Spec

=============================================================================
