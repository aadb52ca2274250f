---------------------------- MODULE ActorSystem ----------------------------
(***************************************************************************)
(* What the actors of one scredis connection share: the requests they pass *)
(* around, the FIFO mailboxes of the ListenerActor and of its IOActor, and *)
(* the outcome of every request's promise.                                 *)
(*                                                                         *)
(* An Akka mailbox is one FIFO queue fed by many senders.  A message to a  *)
(* stopped actor goes to the dead letters, that is, nowhere.               *)
(***************************************************************************)
EXTENDS Integers, Sequences

CONSTANTS
    Ids,              \* the identities of the requests the users make
    Values,           \* passwords, database indices and client names
    Rejected,         \* the values the server answers with an error
    Decoders,         \* the DecoderActors of the listener
    MaxConnections,   \* bound: IOActors the listener creates, one connection each
    FailCommandOnConnecting,   \* fail-command-on-connecting of reference.conf
    ReceiveTimeoutDefined,     \* receiveTimeoutOpt.isDefined
    InitialSettings,           \* authOpt, database and nameOpt of the constructor
    MaxWriteBatchSize          \* the requests one write can carry

SessionOps == {"auth", "select", "setName"}
ZeroArgOps == {"quit", "multi", "exec"}
(* "spent" is a command the IOActor holds whose encoded bytes are gone.    *)
Ops == SessionOps \cup ZeroArgOps \cup {"command", "spent"}

(* Settings a connection is initialised with; 0 is None (or database 0).   *)
SettingsType == [SessionOps -> Values]

(* Id 0 is a request no user waits for: MULTI and the initial requests.    *)
Internal == 0
Request == [id: Ids \cup {Internal}, op: Ops, value: Values]
Connections == 1..MaxConnections

(* What Client.send hands over: one request, or a transaction as the run   *)
(* MULTI, its requests, EXEC.                                              *)
Item ==
    {i \in [type: {"Request", "Transaction"}, reqs: Seq(Request)] :
        IF i.type = "Request" THEN Len(i.reqs) = 1 ELSE Len(i.reqs) >= 2}

ASSUME SharedAssumption ==
    /\ Ids \subseteq Nat \ {Internal}
    /\ Values \subseteq Nat /\ 0 \in Values
    /\ Rejected \subseteq Values
    /\ MaxConnections \in Nat \ {0}
    /\ MaxWriteBatchSize \in Nat \ {0}
    /\ FailCommandOnConnecting \in BOOLEAN
    /\ ReceiveTimeoutDefined \in BOOLEAN
    /\ InitialSettings \in SettingsType

VARIABLES
    lbox,      \* mailbox of the ListenerActor
    lstate,    \* behaviour of the ListenerActor, "stopped" when it is dead
    epoch,     \* the IOActors created so far; number epoch is ioActor
    io,        \* the IOActors
    dbox,      \* mailboxes of the DecoderActors
    deadDecoders,
    tcp,       \* the TCP connections, one per IOActor, described in TcpServer
    outcome    \* outcome[i]: what the promise of request i was completed with

(* A reply: the request the server wrote it for, and what it says.  A      *)
(* garbled reply was put together from the bytes of two.                   *)
Reply == [to: Ids \cup {Internal}, kind: {"ok", "queued", "error", "garbled"}]

(* The bytes of one TCP read: the replies that end in it, whether the      *)
(* first of them began in an earlier read, and the reply, if any, that     *)
(* only begins in it.                                                      *)
Data == [resumes: BOOLEAN, replies: Seq(Reply), rest: Seq(Reply)]

Outcomes == {"pending", "ok", "failed", "wrong", "refused"}

Signal(t) == [type |-> t]

ListenerSignals == {"Connected", "Remove", "Abort", "Shutdown",
                    "ReceiveTimeout", "Terminated"}
ListenerMessage ==
    Item \cup [type: ListenerSignals] \cup [type: {"Received"}, data: Data]

IOSignals == {"Connected", "ConnectFailed", "ConnectTimeout", "WriteAck",
              "WriteFailed", "Terminated", "Shutdown", "AbortAck",
              "ShutdownAck", "AbortTimeout"}
IOMessage == [type: IOSignals] \cup [type: {"Request"}, req: Request]

IORequests(rs) == [i \in DOMAIN rs |-> [type |-> "Request", req |-> rs[i]]]

(* An IOActor: its behaviour ("none" before it is created, "stopped" when  *)
(* it is dead), its mailbox and its fields.                                *)
IOStates == {"none", "connecting", "connected", "awaitingShutdown", "awaitingAbort",
             "aborting", "stopped"}
IOType ==
    [state: IOStates,
     box: Seq(IOMessage),
     batch: Seq(Request),       \* the last write, until it is acknowledged
     requests: Seq(Request),    \* not written yet
     canWrite: BOOLEAN,
     connectTimer: BOOLEAN,     \* ConnectTimeout is scheduled
     abortTimer: BOOLEAN]       \* AbortTimeout is scheduled
NoIOActor ==
    [state |-> "none", box |-> <<>>, batch |-> <<>>, requests |-> <<>>,
     canWrite |-> FALSE, connectTimer |-> FALSE, abortTimer |-> FALSE]

(* preStart() connects and schedules ConnectTimeout.                       *)
NewIOActor == [NoIOActor EXCEPT !.state = "connecting", !.connectTimer = TRUE]
Stopped == [NoIOActor EXCEPT !.state = "stopped"]

AfterTellingListener(box, ms) == IF lstate = "stopped" THEN box ELSE box \o ms
Tell(signal) == lbox' = AfterTellingListener(lbox, <<Signal(signal)>>)
Told(actor, ms) ==
    IF actor.state \in {"none", "stopped"} THEN actor ELSE [actor EXCEPT !.box = @ \o ms]

(* Completing a promise twice changes nothing: the IllegalStateException   *)
(* is swallowed.                                                           *)
Complete(ids, result) ==
    [i \in Ids |-> IF i \in ids /\ outcome[i] = "pending" THEN result
                                                          ELSE outcome[i]]
IdsOf(rs) == {rs[i].id : i \in DOMAIN rs}

=============================================================================
