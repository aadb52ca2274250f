------------------------------ MODULE IOActor ------------------------------
(***************************************************************************)
(* IOActor.scala: opens one TCP connection, writes the requests it is sent *)
(* in batches, one write at a time, and tells the listener when the        *)
(* connection is gone.  One action per case of its behaviours; e is the    *)
(* number of the IOActor and of its connection.                            *)
(***************************************************************************)
EXTENDS ActorSystem

IOReceives(e, t) == io[e].box # <<>> /\ Head(io[e].box).type = t

(* IOActor e takes a message and becomes actor.                            *)
IOBecomes(e, actor) == io' = [io EXCEPT ![e] = [actor EXCEPT !.box = Tail(@)]]
(* Its listener watches it.                                                *)
IOStop(e) == io' = [io EXCEPT ![e] = Stopped] /\ Tell("Terminated")

(* write(requests) has read the buffer of a request to its end and given   *)
(* it back to the pool, and encode() keeps the buffer it has: nothing is   *)
(* left to be written.  Only a command without arguments keeps its bytes.  *)
(* That the pool may have handed the buffer to another request is left out.*)
Written(r) == IF r.op \in ZeroArgOps THEN r ELSE [r EXCEPT !.op = "spent"]

(* requeueBatch(): each request of the batch is pushed at the front.       *)
Requeued(actor) ==
    [i \in DOMAIN actor.batch |-> Written(actor.batch[Len(actor.batch) + 1 - i])]
      \o actor.requests

(* Mutant: a full batch is taken without its last request.                 *)
UnwrittenOffByOne(pending, size) ==
    SubSeq(pending, IF size = MaxWriteBatchSize THEN size ELSE size + 1, Len(pending))

Unwritten(pending, size) == SubSeq(pending, size + 1, Len(pending))

(* write(): the next batch is handed to the connection, or it is noted     *)
(* that nothing is being written.                                          *)
WritesNext(e, pending) ==
    LET size == IF Len(pending) < MaxWriteBatchSize THEN Len(pending)
                                                    ELSE MaxWriteBatchSize
    IN /\ IOBecomes(e, [io[e] EXCEPT !.batch = SubSeq(pending, 1, size),
                                     !.requests = Unwritten(pending, size),
                                     !.canWrite = (pending = <<>>)])
       /\ tcp' = IF pending # <<>> /\ tcp[e].state = "open"
                 THEN [tcp EXCEPT ![e].writing = SubSeq(pending, 1, size)] ELSE tcp
       /\ UNCHANGED <<lbox, outcome>>

IOConnected(e) ==
    /\ io[e].state = "connecting"
    /\ IOReceives(e, "Connected")
    /\ Tell("Connected")
    /\ IOBecomes(e, [io[e] EXCEPT !.state = "connected", !.connectTimer = FALSE,
                                  !.canWrite = TRUE])
    /\ tcp' = [tcp EXCEPT ![e].state = "open"]
    /\ UNCHANGED outcome

(* CommandFailed(Connect) or ConnectTimeout.                               *)
IOConnectFailed(e) ==
    /\ io[e].state = "connecting"
    /\ IOReceives(e, "ConnectFailed") \/ IOReceives(e, "ConnectTimeout")
    /\ IOStop(e)
    /\ UNCHANGED <<outcome, tcp>>

IORequest(e) ==
    /\ io[e].state = "connected"
    /\ IOReceives(e, "Request")
    /\ LET pending == Append(io[e].requests, Head(io[e].box).req)
       IN IF io[e].canWrite
          THEN WritesNext(e, pending)
          ELSE IOBecomes(e, [io[e] EXCEPT !.requests = pending])
                 /\ UNCHANGED <<lbox, outcome, tcp>>

IOWriteAck(e) ==
    /\ io[e].state = "connected"
    /\ IOReceives(e, "WriteAck")
    /\ WritesNext(e, io[e].requests)

(* Encoding a request throws (a null argument): supervisorStrategy of the  *)
(* listener stops the IOActor.  Nobody closes its connection.              *)
IOCrash(e) ==
    /\ io[e].state = "connected"
    /\ \/ IOReceives(e, "Request") /\ io[e].canWrite
       \/ IOReceives(e, "WriteAck") /\ io[e].requests # <<>>
    /\ IOStop(e)
    /\ UNCHANGED <<outcome, tcp>>

IOWriteFailed(e) ==
    /\ io[e].state = "connected"
    /\ IOReceives(e, "WriteFailed")
    /\ WritesNext(e, Requeued(io[e]))

(* abort(), in whatever behaviour.                                         *)
IOShutdown(e) ==
    /\ IOReceives(e, "Shutdown")
    /\ Tell("Abort")
    /\ IOBecomes(e, [io[e] EXCEPT !.state = "awaitingAbort"])
    /\ UNCHANGED <<outcome, tcp>>

(* The connection died.                                                    *)
IOTerminated(e) ==
    /\ io[e].state # "aborting"
    /\ IOReceives(e, "Terminated")
    /\ Tell("Shutdown")
    /\ IOBecomes(e, [io[e] EXCEPT !.state = "awaitingShutdown"])
    /\ UNCHANGED <<outcome, tcp>>

(* Mutant: a request is rejected without being failed.                     *)
IOForgetRequest(e) ==
    /\ io[e].state \in {"awaitingShutdown", "awaitingAbort"}
    /\ IOReceives(e, "Request")
    /\ Tell("Remove")
    /\ IOBecomes(e, io[e])
    /\ UNCHANGED <<outcome, tcp>>

IORejectRequest(e) ==
    /\ io[e].state \in {"awaitingShutdown", "awaitingAbort"}
    /\ IOReceives(e, "Request")
    /\ outcome' = Complete({Head(io[e].box).req.id}, "failed")
    /\ Tell("Remove")
    /\ IOBecomes(e, io[e])
    /\ UNCHANGED tcp

(* Mutant: the acknowledgement does not stop the actor.                    *)
IOShutdownAckIgnored(e) ==
    /\ io[e].state = "awaitingShutdown"
    /\ IOReceives(e, "ShutdownAck")
    /\ IOBecomes(e, io[e])
    /\ UNCHANGED <<lbox, outcome, tcp>>

IOShutdownAck(e) ==
    /\ io[e].state = "awaitingShutdown"
    /\ IOReceives(e, "ShutdownAck")
    /\ IOStop(e)
    /\ UNCHANGED <<outcome, tcp>>

IOAbortAck(e) ==
    /\ io[e].state = "awaitingAbort"
    /\ IOReceives(e, "AbortAck")
    /\ tcp' = [tcp EXCEPT ![e].abort = (tcp[e].state = "open")]
    /\ IOBecomes(e, [io[e] EXCEPT !.state = "aborting", !.abortTimer = TRUE])
    /\ UNCHANGED <<lbox, outcome>>

IOAborted(e) ==
    /\ io[e].state = "aborting"
    /\ IOReceives(e, "Terminated")
    /\ IOStop(e)
    /\ UNCHANGED <<outcome, tcp>>

(* context.stop(connection): the watched connection reports its end, if it *)
(* had not ended before.                                                   *)
IOAbortTimeout(e) ==
    /\ io[e].state = "aborting"
    /\ IOReceives(e, "AbortTimeout")
    /\ IF tcp[e].state = "open"
       THEN /\ tcp' = [tcp EXCEPT ![e].state = "closed"]
            /\ IOBecomes(e, [io[e] EXCEPT !.box = Append(@, Signal("Terminated"))])
       ELSE IOBecomes(e, io[e]) /\ UNCHANGED tcp
    /\ UNCHANGED <<lbox, outcome>>

(* Empty cases, and messages a behaviour only logs.                        *)
IOIgnored(e) ==
    \/ /\ io[e].state \in {"awaitingShutdown", "awaitingAbort", "aborting"}
       /\ IOReceives(e, "WriteAck") \/ IOReceives(e, "WriteFailed")
    \/ io[e].state # "connecting" /\ IOReceives(e, "ConnectTimeout")
    \/ io[e].state # "awaitingAbort" /\ IOReceives(e, "AbortAck")
    \/ io[e].state # "awaitingShutdown" /\ IOReceives(e, "ShutdownAck")
    \/ io[e].state \in {"connecting", "aborting"} /\ IOReceives(e, "Request")

IOIgnore(e) == IOIgnored(e) /\ IOBecomes(e, io[e]) /\ UNCHANGED <<lbox, outcome, tcp>>

(* The scheduler fires ConnectTimeout or AbortTimeout.                     *)
FireConnectTimeout(e) ==
    /\ io[e].connectTimer /\ io[e].state # "stopped"
    /\ io' = [io EXCEPT ![e] = [Told(@, <<Signal("ConnectTimeout")>>)
                                  EXCEPT !.connectTimer = FALSE]]
    /\ UNCHANGED <<lbox, outcome, tcp>>

FireAbortTimeout(e) ==
    /\ io[e].abortTimer /\ io[e].state # "stopped"
    /\ io' = [io EXCEPT ![e] = [Told(@, <<Signal("AbortTimeout")>>)
                                  EXCEPT !.abortTimer = FALSE]]
    /\ UNCHANGED <<lbox, outcome, tcp>>

IONext(e) ==
    \/ IOConnected(e) \/ IOConnectFailed(e)
    \/ IORequest(e) \/ IOWriteAck(e) \/ IOWriteFailed(e)
    \/ IOShutdown(e) \/ IOTerminated(e) \/ IORejectRequest(e) \/ IOShutdownAck(e)
    \/ IOAbortAck(e) \/ IOAborted(e) \/ IOAbortTimeout(e)
    \/ IOIgnore(e)

=============================================================================
