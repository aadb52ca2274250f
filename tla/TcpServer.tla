----------------------------- MODULE TcpServer -----------------------------
(***************************************************************************)
(* What surrounds the actors: Akka's TCP connections and the Redis server  *)
(* behind them, as the code under src/ uses them (external).               *)
(*                                                                         *)
(* A connection carries one write at a time, delivers what it reads to the *)
(* listener that was registered with it, and reports its end to the        *)
(* IOActor that watches it.  The server answers the commands of one        *)
(* connection in order.  What the server received it may still execute     *)
(* when the connection is gone.                                            *)
(***************************************************************************)
EXTENDS ActorSystem

CONSTANTS
    FaultKinds,    \* which of the faults below happen
    MaxFaults,     \* bound: how many of them
    SplitReplies   \* whether a reply may arrive in two reads

ASSUME FaultAssumption ==
    /\ FaultKinds \subseteq {"connect", "drop", "write", "receive", "crash"}
    /\ MaxFaults \in Nat
    /\ SplitReplies \in BOOLEAN

VARIABLES
    faults,     \* faults so far
    executed    \* what the server executed, in order

Fresh == [state |-> "none",
          writing |-> <<>>,     \* the write being carried out
          abort |-> FALSE,      \* Tcp.Abort was requested
          wire |-> <<>>,        \* received by the server, not executed
          net |-> <<>>,         \* replies not yet read
          half |-> FALSE,       \* the first half of Head(net) was read
          settings |-> [op \in SessionOps |-> 0],
          multi |-> FALSE,      \* between MULTI and EXEC
          members |-> <<>>,     \* queued by MULTI
          quit |-> FALSE]       \* the server closes the connection

TcpType ==
    [state: {"none", "established", "open", "closed"},
     writing: Seq(Request), abort: BOOLEAN, wire: Seq(Request), net: Seq(Reply),
     half: BOOLEAN, settings: SettingsType, multi: BOOLEAN,
     members: Seq(Ids \cup {Internal}), quit: BOOLEAN]

Execution == [conn: Connections, ids: Seq(Ids \cup {Internal}), settings: SettingsType]

TcpTypeOK ==
    /\ tcp \in [Connections -> TcpType]
    /\ faults \in 0..MaxFaults
    /\ executed \in Seq(Execution)

TellIO(c, t) == io' = [io EXCEPT ![c] = Told(@, <<Signal(t)>>)]

(* A fault is bounded, and spares the last connection the model has.       *)
Fault(kind) ==
    /\ kind \in FaultKinds
    /\ faults < MaxFaults /\ epoch < MaxConnections
    /\ faults' = faults + 1

TcpConnect(c) ==
    /\ io[c].state = "connecting" /\ tcp[c].state = "none"
    /\ tcp' = [tcp EXCEPT ![c].state = "established"]
    /\ TellIO(c, "Connected")
    /\ UNCHANGED <<lbox, faults, executed>>

TcpConnectFail(c) ==
    /\ io[c].state = "connecting" /\ tcp[c].state = "none"
    /\ Fault("connect")
    /\ tcp' = [tcp EXCEPT ![c].state = "closed"]
    /\ TellIO(c, "ConnectFailed")
    /\ UNCHANGED <<lbox, executed>>

TcpWrite(c) ==
    /\ tcp[c].state = "open" /\ tcp[c].writing # <<>>
    /\ tcp' = [tcp EXCEPT ![c].wire = @ \o tcp[c].writing, ![c].writing = <<>>]
    /\ TellIO(c, "WriteAck")
    /\ UNCHANGED <<lbox, faults, executed>>

(* CommandFailed(Write): nothing was written.                              *)
TcpWriteFail(c) ==
    /\ tcp[c].state = "open" /\ tcp[c].writing # <<>>
    /\ Fault("write")
    /\ tcp' = [tcp EXCEPT ![c].writing = <<>>]
    /\ TellIO(c, "WriteFailed")
    /\ UNCHANGED <<lbox, executed>>

(* A read ends after some whole replies, and perhaps within the next.      *)
TcpRead(c) ==
    /\ tcp[c].state = "open" /\ tcp[c].net # <<>>
    /\ \E n \in 0..Len(tcp[c].net), splits \in BOOLEAN :
         /\ splits => SplitReplies /\ n < Len(tcp[c].net) /\ ~(n = 0 /\ tcp[c].half)
         /\ n > 0 \/ splits
         /\ lbox' = AfterTellingListener(lbox,
              <<[type |-> "Received",
                 data |-> [resumes |-> tcp[c].half,
                           replies |-> SubSeq(tcp[c].net, 1, n),
                           rest |-> IF splits THEN <<tcp[c].net[n + 1]>> ELSE <<>>]]>>)
         /\ tcp' = [tcp EXCEPT ![c].net = SubSeq(@, n + 1, Len(@)), ![c].half = splits]
    /\ UNCHANGED <<io, faults, executed>>

(* The connection ends; some of a write under way may have left.           *)
Closes(c) ==
    /\ \E n \in 0..Len(tcp[c].writing) :
         tcp' = [tcp EXCEPT ![c].state = "closed", ![c].abort = FALSE, ![c].net = <<>>,
                            ![c].half = FALSE, ![c].writing = <<>>,
                            ![c].wire = @ \o SubSeq(tcp[c].writing, 1, n)]
    /\ TellIO(c, "Terminated")
    /\ UNCHANGED <<lbox, executed>>

TcpAbort(c) == tcp[c].state = "open" /\ tcp[c].abort /\ Closes(c) /\ UNCHANGED faults
TcpQuit(c) ==
    /\ tcp[c].state = "open" /\ tcp[c].quit /\ tcp[c].net = <<>>
    /\ Closes(c) /\ UNCHANGED faults
TcpDrop(c) == tcp[c].state = "open" /\ Fault("drop") /\ Closes(c)

(* The server takes the next command of a connection.                      *)
ServerExecute(c) ==
    /\ tcp[c].wire # <<>> /\ ~tcp[c].quit
    /\ Head(tcp[c].wire).op # "spent"
    /\ LET r == Head(tcp[c].wire)
           t == tcp[c]
           queues == t.multi /\ r.op # "exec"
           kind == IF queues THEN "queued"
                   ELSE IF r.op \in SessionOps /\ r.value \in Rejected THEN "error"
                   ELSE "ok"
           ids == IF r.op = "exec" THEN Append(t.members, r.id) ELSE <<r.id>>
       IN /\ tcp' = [tcp EXCEPT ![c] =
               [t EXCEPT !.wire = Tail(@),
                         !.net = IF t.state = "open"
                                 THEN Append(@, [to |-> r.id, kind |-> kind]) ELSE @,
                         !.settings = IF r.op \in SessionOps /\ kind = "ok"
                                      THEN [@ EXCEPT ![r.op] = r.value] ELSE @,
                         !.multi = (@ \/ r.op = "multi") /\ r.op # "exec",
                         !.members = IF queues THEN Append(@, r.id)
                                     ELSE IF r.op = "exec" THEN <<>> ELSE @,
                         !.quit = (r.op = "quit")]]
          /\ executed' = IF queues \/ r.id = Internal THEN executed
                         ELSE Append(executed, [conn |-> c, ids |-> ids,
                                                settings |-> tcp'[c].settings])
    /\ UNCHANGED <<lbox, io, faults>>

(* Of a spent command no byte arrives.                                     *)
ServerSkip(c) ==
    /\ tcp[c].wire # <<>> /\ Head(tcp[c].wire).op = "spent"
    /\ tcp' = [tcp EXCEPT ![c].wire = Tail(@)]
    /\ UNCHANGED <<lbox, io, faults, executed>>

TcpInit ==
    /\ tcp = [c \in Connections |-> Fresh]
    /\ faults = 0
    /\ executed = <<>>

=============================================================================
