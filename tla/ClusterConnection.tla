------------------------- MODULE ClusterConnection -------------------------
(***************************************************************************)
(* ClusterConnection: the cache of slots and connections, redirections and *)
(* retries of requests, error counts, the update of the cache and quit.    *)
(*                                                                         *)
(* One call is one `send` with all its retries.  Each retry runs in the    *)
(* callback of the attempt before, on any thread: between two steps of one *)
(* call any other call, update or quit may step.  What the code does inside *)
(* this.synchronized is one step; what it reads outside is a step apart.   *)
(***************************************************************************)
EXTENDS ClusterNodes

CONSTANTS
    Requests,              \* the requests users send
    Nodes,                 \* the seed nodes of the constructor
    Kind,                  \* Kind[r]: "key", "count" (of a slot), "any" or "other"
    SlotOf,                \* SlotOf[r], for kinds "key" and "count"
    Updates,               \* updateCache runs; bound: as many as are ever started
    FirstUpdate,           \* the one the constructor starts
    MaxRetries,            \* maxRetries
    MaxHashMisses,         \* maxHashMisses
    MaxConnectionMisses,   \* maxConnectionMisses, 3 in the code
    ConnectTimeout,        \* connectTimeout, tryAgainWait and clusterDownWait,
    TryAgainWait,          \* in a common unit
    ClusterDownWait

Calls == Requests \cup Updates

ASSUME NodesAssumption == Nodes # {} /\ Nodes \subseteq Servers
ASSUME UpdatesAssumption == FirstUpdate \in Updates /\ Updates \cap Requests = {}
ASSUME KindAssumption ==
    /\ Kind \in [Requests -> {"key", "count", "any", "other"}]
    /\ SlotOf \in [Requests -> Slots]
ASSUME LimitsAssumption ==
    /\ MaxRetries \in Nat /\ MaxHashMisses \in Nat /\ MaxConnectionMisses \in Nat
    /\ ConnectTimeout \in Nat \ {0} /\ TryAgainWait \in Nat /\ ClusterDownWait \in Nat \ {0}

VARIABLES
    connections,   \* connections[s]: which connection to s, and its error count
    hashSlots,
    hashMisses,
    call,          \* call[c]: where the send of c stands
    update,        \* update[u]: where the updateCache u stands
    quit           \* where quit() stands, what it has still to close, and the
                   \* connections whose QUIT nobody will answer
clusterVars == <<connections, hashSlots, hashMisses>>
vars == <<nodeVars, clusterVars, call, update, quit>>

NoConnection == [con |-> 0, errors |-> 0]
Connected(conns) == {s \in Servers : conns[s] # NoConnection}
Listed(conns) == {<<s, conns[s].con>> : s \in Connected(conns)}

(* The connections made to S most recently, with no errors yet.            *)
Fresh(S) == [s \in S |-> [con |-> Len(cons[s]) + 1, errors |-> 0]]
With(conns, S) == [s \in Servers |-> IF s \in S THEN Fresh(S)[s] ELSE conns[s]]
NoConnections == [s \in Servers |-> NoConnection]

(* The kind of call c: an update asks CLUSTER INFO, then CLUSTER SLOTS.    *)
AboutSlot(c) == c \in Requests /\ Kind[c] \in {"key", "count"}

---------------------------------------------------------------------------
(* send(request, server, ...) with its default arguments.                  *)
Sending(s) ==
    [stage |-> "start", server |-> s, tried |-> {}, retry |-> MaxRetries,
     left |-> ConnectTimeout, downs |-> 0, attempts |-> 0, con |-> 0,
     answer |-> Answer("none", NoServer)]
NotSending(stage, result) ==
    [Sending(NoServer) EXCEPT !.stage = stage, !.answer = Answer(result, NoServer)]
Ended(result) == NotSending("done", result)

(* send(request): which server to begin with.                              *)
FirstServers(c) ==
    IF AboutSlot(c) /\ hashSlots[SlotOf[c]] # NoServer THEN {hashSlots[SlotOf[c]]}
    ELSE IF Kind[c] = "any" THEN Connected(connections) ELSE {}

(* The constructor waits for its updateCache, and throws if it takes too   *)
(* long: then there is no ClusterConnection to send with or to quit.       *)
Constructed == update[FirstUpdate].stage = "done"

SendRequest(r) ==
    /\ Constructed
    /\ call[r].stage = "idle"
    /\ \/ \E s \in FirstServers(r) : call' = [call EXCEPT ![r] = Sending(s)]
       \/ /\ FirstServers(r) = {}    \* connections.head throws
          /\ call' = [call EXCEPT ![r] =
               CASE Kind[r] = "key" -> NotSending("choosing", "none")
                 [] Kind[r] = "any" -> Ended("thrown")
                 [] OTHER -> Ended("failed")]
    /\ UNCHANGED <<nodeVars, clusterVars, update, quit>>

(* Without a cached server, the first connection; the map may have been    *)
(* emptied before it is looked at, or between connections.isEmpty and head. *)
Choose(r) ==
    /\ call[r].stage = "choosing"
    /\ \/ \E s \in Connected(connections) : call' = [call EXCEPT ![r] = Sending(s)]
       \/ /\ Connected(connections) = {}
          /\ \E result \in {"failed", "thrown"} : call' = [call EXCEPT ![r] = Ended(result)]
    /\ UNCHANGED <<nodeVars, clusterVars, update, quit>>

(* quit() has terminated the ActorSystem: its actors are gone, and it      *)
(* neither makes connections nor schedules anything.                       *)
Terminated == quit.stage = "terminated"

Beginning(c) == call[c].stage \in {"start", "waiting"}
OutOfRetries(c) == call[c].retry <= 0
AlwaysMissing(s) == {s}
Missing(s) == {s} \ Connected(connections)

(* The beginning of one attempt: connections.getOrElse(server,             *)
(* createConnectionIfMissing(server)), whose lookup under the lock finds   *)
(* what the first one missed.                                              *)
Attempt(c) ==
    /\ Beginning(c) /\ ~OutOfRetries(c)
    /\ Terminated => Missing(call[c].server) = {}
    /\ LET s == call[c].server
       IN /\ cons' = Making(Missing(s))
          /\ connections' = With(connections, Missing(s))
          /\ call' = [call EXCEPT ![c].stage = "picked", ![c].con = connections'[s].con,
                                  ![c].attempts = @ + 1]
    /\ UNCHANGED <<owner, dead, moves, faults, hashSlots, hashMisses, update, quit>>

GiveUp(c) ==
    /\ Beginning(c) /\ OutOfRetries(c)
    /\ call' = [call EXCEPT ![c] = Ended("failed")]
    /\ UNCHANGED <<nodeVars, clusterVars, update, quit>>

(* makeConnection throws on a terminated ActorSystem: at the caller of     *)
(* send, into the future of recoverWith, or, in what was delayed, where    *)
(* nobody sees it; the latter may as well never run.                       *)
CannotAttempt(c) ==
    /\ Terminated
    /\ Beginning(c) /\ ~OutOfRetries(c)
    /\ \/ /\ call[c].stage = "waiting"
          /\ call' = [call EXCEPT ![c].stage = "stranded"]
       \/ /\ call[c].stage = "start" /\ Missing(call[c].server) # {}
          /\ call' = [call EXCEPT ![c] =
               Ended(IF c \in Requests /\ call[c].attempts = 0 THEN "thrown" ELSE "failed")]
    /\ UNCHANGED <<nodeVars, clusterVars, update, quit>>

(* AkkaNonBlockingConnection.send refuses what comes after QUIT; the       *)
(* listener of an open connection may be gone with its ActorSystem.        *)
Delivered == IF Terminated THEN "stranded" ELSE "sent"
Post(c) ==
    /\ call[c].stage = "picked"
    /\ call' = IF cons[call[c].server][call[c].con] = "open"
                 THEN [call EXCEPT ![c].stage = Delivered]
                 ELSE [call EXCEPT ![c].stage = "answered", ![c].answer = Answer("io", NoServer)]
    /\ UNCHANGED <<nodeVars, clusterVars, update, quit>>

---------------------------------------------------------------------------
(* The node and its connection.                                            *)

(* recoverWith leaves a result alone: the call ends with it.               *)
Answered(c, a) ==
    call' = [call EXCEPT ![c] =
               IF a.type \in {"ok", "notOk"} THEN Ended(a.type)
               ELSE [@ EXCEPT !.stage = "answered", !.answer = a]]
AnswersTo(c) == IF AboutSlot(c) THEN AnswersToKey(call[c].server, SlotOf[c])
                                ELSE {Answer("ok", NoServer)}
ErrorsTo(c) ==
    IF AboutSlot(c) THEN ErrorsToKey(call[c].server, SlotOf[c])
    ELSE IF c \in Updates /\ update[c].stage = "info" THEN {Answer("notOk", NoServer)}
    ELSE {}

Reply(c) ==
    /\ call[c].stage = "sent"
    /\ call[c].server \notin dead
    /\ \E a \in AnswersTo(c) : Answered(c, a)
    /\ update' = IF c \in Updates /\ update[c].stage = "slots"
                   THEN [update EXCEPT ![c].view = owner] ELSE update
    /\ UNCHANGED <<owner, dead, cons, moves, faults, clusterVars, quit>>

ReplyError(c) ==
    /\ call[c].stage = "sent"
    /\ call[c].server \notin dead
    /\ Faulty
    /\ \E a \in ErrorsTo(c) : Answered(c, a)
    /\ UNCHANGED <<owner, dead, cons, moves, clusterVars, update, quit>>

(* The connection is lost before the reply; the server may have executed   *)
(* the request all the same.                                               *)
Lose(c) ==
    /\ call[c].stage = "sent"
    /\ Fails(call[c].server)
    /\ Answered(c, Answer("io", NoServer))
    /\ UNCHANGED <<owner, dead, cons, moves, clusterVars, update, quit>>

---------------------------------------------------------------------------
(* updateCache.  Its CLUSTER INFO and CLUSTER SLOTS go to any node, and    *)
(* Map.head throws when there is none.                                     *)
NoUpdate(stage) ==
    [stage |-> stage, retry |-> 0, view |-> [k \in Slots |-> NoServer],
     connections |-> NoConnections]
Idle == {u \in Updates : update[u].stage = "idle"}

UpdateFails(u) ==
    /\ update[u].stage \in {"info", "slots"}
    /\ call[u].stage = "done"
    /\ \/ call[u].answer.type = "failed"
       \/ call[u].answer.type = "notOk" /\ (update[u].retry <= 1 \/ Terminated)
       \/ /\ call[u].answer.type = "ok" /\ update[u].stage = "info"
          /\ Connected(connections) = {}
       \/ /\ call[u].answer.type = "ok" /\ update[u].stage = "slots"
          /\ Terminated /\ Connected(connections) # Servers
    /\ update' = [update EXCEPT ![u] = NoUpdate("done")]
    /\ UNCHANGED <<nodeVars, clusterVars, call, quit>>

ClusterNotOk(u) ==
    /\ update[u].stage = "info"
    /\ call[u].stage = "done" /\ call[u].answer.type = "notOk"
    /\ update[u].retry > 1 /\ ~Terminated
    /\ update' = [update EXCEPT ![u].stage = "waiting", ![u].retry = @ - 1]
    /\ UNCHANGED <<nodeVars, clusterVars, call, quit>>

(* After clusterDownWait.                                                  *)
UpdateAgain(u) ==
    /\ update[u].stage = "waiting"
    /\ \/ /\ \E s \in Connected(connections) : call' = [call EXCEPT ![u] = Sending(s)]
          /\ update' = [update EXCEPT ![u].stage = "info"]
       \/ /\ Connected(connections) = {}
          /\ update' = [update EXCEPT ![u] = NoUpdate("done")]
          /\ UNCHANGED call
    /\ UNCHANGED <<nodeVars, clusterVars, quit>>

ClusterOk(u) ==
    /\ update[u].stage = "info"
    /\ call[u].stage = "done" /\ call[u].answer.type = "ok"
    /\ update' = [update EXCEPT ![u].stage = "slots"]
    /\ \E s \in Connected(connections) : call' = [call EXCEPT ![u] = Sending(s)]
    /\ UNCHANGED <<nodeVars, clusterVars, quit>>

(* newConnections: what `connections` is now, and a new connection to      *)
(* every other server the reply names, as a master or as a replica.        *)
ReadConnections(u) ==
    /\ update[u].stage = "slots"
    /\ call[u].stage = "done" /\ call[u].answer.type = "ok"
    /\ LET new == Servers \ Connected(connections)
       IN /\ Terminated => new = {}
          /\ cons' = Making(new)
          /\ update' = [update EXCEPT ![u].stage = "write",
                                      ![u].connections = With(connections, new)]
    /\ UNCHANGED <<owner, dead, moves, faults, clusterVars, call, quit>>

(* ... which are assigned under the lock, whatever has happened since.     *)
WriteCache(u) ==
    /\ update[u].stage = "write"
    /\ connections' = update[u].connections
    /\ hashSlots' = update[u].view
    /\ update' = [update EXCEPT ![u] = NoUpdate("done")]
    /\ UNCHANGED <<nodeVars, hashMisses, call, quit>>

---------------------------------------------------------------------------
(* recoverWith: what follows an answer.                                    *)

(* The recursive send, with the server that answered among the tried ones. *)
Again(c, s, retry, left) ==
    [call[c] EXCEPT !.stage = "start", !.server = s, !.tried = @ \cup {call[c].server},
                    !.retry = retry, !.left = left, !.con = 0,
                    !.answer = Answer("none", NoServer)]
RedirectedNowhere(c) == Again(c, call[c].server, call[c].retry - 1, call[c].left)
RedirectedForFree(c) == Again(c, call[c].answer.to, call[c].retry, call[c].left)
Redirected(c) == Again(c, call[c].answer.to, call[c].retry - 1, call[c].left)

(* updateHashMisses; a new updateCache throws when no server is connected. *)
Moved(c) ==
    /\ call[c].stage = "answered" /\ call[c].answer.type = "moved"
    /\ hashSlots' = [hashSlots EXCEPT ![SlotOf[c]] = call[c].answer.to]
    /\ IF hashMisses < MaxHashMisses
         THEN /\ hashMisses' = hashMisses + 1
              /\ call' = [call EXCEPT ![c] = Redirected(c)]
              /\ UNCHANGED update
         ELSE /\ hashMisses' = 0
              /\ \/ /\ MaxRetries <= 0
                    /\ call' = [call EXCEPT ![c] = Redirected(c)]
                    /\ UNCHANGED update
                 \/ /\ MaxRetries > 0 /\ Connected(connections) = {}
                    /\ call' = [call EXCEPT ![c] = Ended("failed")]
                    /\ UNCHANGED update
                 \/ /\ MaxRetries > 0
                    /\ \E u \in Idle, s \in Connected(connections) :
                         /\ update' = [update EXCEPT ![u].stage = "info",
                                                     ![u].retry = MaxRetries]
                         /\ call' = [call EXCEPT ![c] = Redirected(c), ![u] = Sending(s)]
    /\ UNCHANGED <<nodeVars, connections, quit>>

Ask(c) ==
    /\ call[c].stage = "answered" /\ call[c].answer.type = "ask"
    /\ call' = [call EXCEPT ![c] = Redirected(c)]
    /\ UNCHANGED <<nodeVars, clusterVars, update, quit>>

(* delayed: what waits is begun later, or fails as nothing is scheduled on *)
(* a terminated ActorSystem.                                               *)
Delayed(r) == IF Terminated THEN Ended("failed") ELSE [r EXCEPT !.stage = "waiting"]

(* After tryAgainWait.                                                     *)
TryAgain(c) ==
    /\ call[c].stage = "answered" /\ call[c].answer.type = "tryAgain"
    /\ call' = [call EXCEPT ![c] = Delayed(Again(c, call[c].server, call[c].retry - 1,
                                                 call[c].left - TryAgainWait))]
    /\ UNCHANGED <<nodeVars, clusterVars, update, quit>>


(* After clusterDownWait; neither `retry` nor the tried servers change.    *)
ClusterDown(c) ==
    /\ call[c].stage = "answered" /\ call[c].answer.type = "clusterDown"
    /\ LET left == call[c].left - ClusterDownWait
       IN call' = [call EXCEPT ![c] =
            IF left <= 0 THEN Ended("failed")
            ELSE Delayed([Again(c, call[c].server, call[c].retry, left)
                            EXCEPT !.tried = call[c].tried, !.downs = @ + 1])]
    /\ UNCHANGED <<nodeVars, clusterVars, update, quit>>

(* closeConnection of the connection n to s, and its effect on `cons`.     *)
ClosingNothing(s, n) == cons
Closing(s, n) == [cons EXCEPT ![s][n] = IF @ = "open" THEN "closing" ELSE @]

ErrorsInExcess(s) == connections[s].errors > MaxConnectionMisses
TooManyErrors(s) == connections[s].errors >= MaxConnectionMisses

(* When no connection is left, begin anew with the seed nodes.             *)
NoRecovery(conns) == {}
Recovery(conns) == IF Connected(conns) = {} THEN Nodes ELSE {}

(* RedisIOException: updateServerErrors counts the error, or closes and    *)
(* removes the connection.                                                 *)
CountError(c) ==
    /\ call[c].stage = "answered" /\ call[c].answer.type = "io"
    /\ call' = [call EXCEPT ![c].stage = "failing", ![c].con = 0]
    /\ LET s == call[c].server
           removed == [connections EXCEPT ![s] = NoConnection]
       IN \/ /\ s \notin Connected(connections)
             /\ UNCHANGED <<connections, cons>>
          \/ /\ s \in Connected(connections) /\ ~TooManyErrors(s)
             /\ connections' = [connections EXCEPT ![s].errors = @ + 1]
             /\ UNCHANGED cons
          \/ /\ s \in Connected(connections) /\ TooManyErrors(s)
             /\ Terminated => Recovery(removed) = {}
             /\ connections' = With(removed, Recovery(removed))
             /\ cons' = [t \in Servers |->
                  Closing(s, connections[s].con)[t]
                    \o (IF t \in Recovery(removed) THEN <<"open">> ELSE <<>>)]
    /\ UNCHANGED <<owner, dead, moves, faults, hashSlots, hashMisses, update, quit>>

(* ... with the seed nodes, for which no connections can be made any more. *)
CannotRecover(c) ==
    /\ Terminated
    /\ call[c].stage = "answered" /\ call[c].answer.type = "io"
    /\ LET s == call[c].server
       IN /\ s \in Connected(connections) /\ TooManyErrors(s)
          /\ Recovery([connections EXCEPT ![s] = NoConnection]) # {}
          /\ cons' = Closing(s, connections[s].con)
    /\ call' = [call EXCEPT ![c] = Ended("failed")]
    /\ UNCHANGED <<owner, dead, moves, faults, clusterVars, update, quit>>

(* ... then the next server is looked up outside the lock.                 *)
Untried(c) == Connected(connections) \ (call[c].tried \cup {call[c].server})
AnyServer(c) ==
    /\ call[c].stage = "failing"
    /\ \E s \in Untried(c) :
         call' = [call EXCEPT ![c] = Again(c, s, call[c].retry, call[c].left)]
    /\ UNCHANGED <<nodeVars, clusterVars, update, quit>>
NextServer(c) ==
    /\ call[c].stage = "failing"
    /\ \/ \E s \in Untried(c) :
            call' = [call EXCEPT ![c] = Again(c, s, call[c].retry, call[c].left)]
       \/ Untried(c) = {} /\ call' = [call EXCEPT ![c] = Ended("failed")]
    /\ UNCHANGED <<nodeVars, clusterVars, update, quit>>

---------------------------------------------------------------------------
(* quit().  toClose are the connections it has taken out of the map; it    *)
(* closes one, waits on its thread until that one has ended, and goes on.  *)
(* The future of a QUIT that the connection refuses, or that is lost with  *)
(* the connection, never completes.                                        *)
Quit ==
    /\ Constructed
    /\ quit.stage = "no"
    /\ connections' = NoConnections
    /\ quit' = [quit EXCEPT !.stage = "closing", !.toClose = Listed(connections)]
    /\ UNCHANGED <<nodeVars, hashSlots, hashMisses, call, update>>

QuitCloses(s, n) ==
    /\ quit.stage = "closing" /\ quit.awaited = {}
    /\ <<s, n>> \in quit.toClose
    /\ cons' = Closing(s, n)
    /\ quit' = [quit EXCEPT !.awaited = {<<s, n>>}, !.toClose = @ \ {<<s, n>>},
                            !.unanswered = @ \cup IF cons[s][n] = "open" THEN {} ELSE {<<s, n>>}]
    /\ UNCHANGED <<owner, dead, moves, faults, clusterVars, call, update>>

(* awaitTermination returns when the listener has stopped.                 *)
QuitAwaits ==
    /\ \E p \in quit.awaited :
         /\ cons[p[1]][p[2]] \in {"closed", "lost"}
         /\ quit' = [quit EXCEPT !.awaited = {}, !.unanswered =
                       @ \cup IF cons[p[1]][p[2]] = "lost" THEN {p} ELSE {}]
    /\ UNCHANGED <<nodeVars, clusterVars, call, update>>

(* The ActorSystem that the constructor was given is left alone; its own   *)
(* (systemState.shouldTerminate) is terminated, with all the connections   *)
(* that are left, whoever waits for a reply there.                         *)
QuitEnds ==
    /\ quit.stage = "closing" /\ quit.toClose = {} /\ quit.awaited = {}
    /\ quit.unanswered = {}
    /\ \/ quit' = [quit EXCEPT !.stage = "done"] /\ UNCHANGED call
       \/ /\ quit' = [quit EXCEPT !.stage = "terminated"]
          /\ call' = [c \in Calls |-> IF call[c].stage = "sent"
                        THEN [call[c] EXCEPT !.stage = "stranded"] ELSE call[c]]
    /\ UNCHANGED <<nodeVars, clusterVars, update>>

---------------------------------------------------------------------------
Environment ==
    /\ \/ Reshard
       \/ \E s \in Servers : Die(s)
    /\ UNCHANGED <<clusterVars, call, update, quit>>

(* The requests that wait for a reply of the connection n to s.            *)
SentTo(s, n) ==
    {c \in Calls : call[c].stage = "sent" /\ call[c].server = s /\ call[c].con = n}

(* QUIT is answered, and before it what the connection was given earlier.  *)
Ends(s, n) ==
    /\ ~Terminated
    /\ SentTo(s, n) = {}
    /\ Becomes(s, n, "closed")
    /\ UNCHANGED <<faults, clusterVars, call, update, quit>>

(* The connection is lost in shuttingDown: the listener stops, and what it *)
(* was waiting for is never completed.                                     *)
QuitIsLost(s, n) ==
    /\ ~Terminated
    /\ Fails(s)
    /\ Becomes(s, n, "lost")
    /\ call' = [c \in Calls |-> IF c \in SentTo(s, n)
                  THEN [call[c] EXCEPT !.stage = "stranded"] ELSE call[c]]
    /\ UNCHANGED <<clusterVars, update, quit>>

(* The receive timeout of shuttingDown fails all there is, and reconnects. *)
QuitTimesOut(s, n) ==
    /\ ~Terminated
    /\ Fails(s)
    /\ Becomes(s, n, "stuck")
    /\ call' = [c \in Calls |-> IF c \in SentTo(s, n)
                  THEN [call[c] EXCEPT !.stage = "answered", !.answer = Answer("io", NoServer)]
                  ELSE call[c]]
    /\ UNCHANGED <<clusterVars, update, quit>>

Init ==
    /\ owner \in [Slots -> Servers]
    /\ dead = {} /\ moves = 0 /\ faults = 0
    /\ cons = [s \in Servers |-> IF s \in Nodes THEN <<"open">> ELSE <<>>]
    /\ connections = [s \in Servers |->
         IF s \in Nodes THEN [con |-> 1, errors |-> 0] ELSE NoConnection]
    /\ hashSlots = [k \in Slots |-> NoServer]
    /\ hashMisses = 0
    /\ \E first \in Nodes :
         call = [c \in Calls |->
           IF c = FirstUpdate /\ MaxRetries > 0 THEN Sending(first)
           ELSE NotSending("idle", "none")]
    /\ update = [u \in Updates |->
         IF u # FirstUpdate THEN NoUpdate("idle")
         ELSE [NoUpdate(IF MaxRetries > 0 THEN "info" ELSE "done") EXCEPT !.retry = MaxRetries]]
    /\ quit = [stage |-> "no", toClose |-> {}, awaited |-> {}, unanswered |-> {}]

CallStep(c) ==
    \/ Attempt(c) \/ GiveUp(c) \/ CannotAttempt(c) \/ Post(c)
    \/ Moved(c) \/ Ask(c) \/ TryAgain(c) \/ ClusterDown(c)
    \/ CountError(c) \/ CannotRecover(c) \/ NextServer(c)
UpdateStep(u) ==
    \/ UpdateFails(u) \/ ClusterNotOk(u) \/ UpdateAgain(u) \/ ClusterOk(u)
    \/ ReadConnections(u) \/ WriteCache(u)
QuitStep ==
    \/ \E s \in Servers : \E n \in 1..Len(cons[s]) : QuitCloses(s, n)
    \/ QuitAwaits \/ QuitEnds
NodeStep ==
    \/ \E c \in Calls : Reply(c) \/ ReplyError(c) \/ Lose(c)
    \/ \E s \in Servers : \E n \in 1..Len(cons[s]) :
         Ends(s, n) \/ QuitIsLost(s, n) \/ QuitTimesOut(s, n)
    \/ Environment

Next ==
    \/ \E r \in Requests : SendRequest(r) \/ Choose(r)
    \/ \E c \in Calls : CallStep(c)
    \/ \E u \in Updates : UpdateStep(u)
    \/ Quit
    \/ QuitStep
    \/ NodeStep

Spec == Init /\ [][Next]_vars

(* Callbacks run, a request on an open connection is answered or fails,    *)
(* and servers that are alive answer QUIT.                                 *)
Fairness ==
    /\ \A r \in Requests : WF_vars(Choose(r))
    /\ \A c \in Calls : WF_vars(CallStep(c)) /\ WF_vars(Reply(c) \/ Lose(c))
    /\ \A u \in Updates : WF_vars(UpdateStep(u))
    /\ WF_vars(QuitStep)
    /\ WF_vars(\E s \in Servers \ dead : \E n \in 1..Len(cons[s]) : Ends(s, n))
FairSpec == Spec /\ Fairness

---------------------------------------------------------------------------
(* Properties.                                                             *)

Results == {"none", "ok", "notOk", "moved", "ask", "tryAgain", "clusterDown", "io",
            "failed", "thrown"}
Stages == {"idle", "choosing", "start", "waiting", "picked", "sent", "answered", "failing",
           "stranded", "done"}
Entries == [con: Nat, errors: Nat]
CallType ==
    [stage: Stages, server: Servers \cup {NoServer}, tried: SUBSET Servers, retry: Int, left: Int,
     downs: Nat, attempts: Nat, con: Nat,
     answer: [type: Results, to: Servers \cup {NoServer}]]
UpdateType ==
    [stage: {"idle", "info", "waiting", "slots", "write", "done"}, retry: Int,
     view: [Slots -> Servers \cup {NoServer}], connections: [Servers -> Entries]]
QuitType ==
    [stage: {"no", "closing", "done", "terminated"}, toClose: SUBSET (Servers \X Nat),
     awaited: SUBSET (Servers \X Nat), unanswered: SUBSET (Servers \X Nat)]

(* The state is well formed; error counts and hash misses are in bounds.   *)
TypeOK ==
    /\ NodesType
    /\ connections \in [Servers -> Entries]
    /\ \A s \in Servers : connections[s].errors <= MaxConnectionMisses
    /\ hashSlots \in [Slots -> Servers \cup {NoServer}]
    /\ hashMisses \in 0..MaxHashMisses
    /\ call \in [Calls -> CallType]
    /\ update \in [Updates -> UpdateType]
    /\ quit \in QuitType

(* Until quit() there is always a connection to begin with, whatever was   *)
(* removed for its errors or overwritten by an update of the cache:        *)
(* connections.head (ClusterConnection.send) never throws before.          *)
UsableUntilQuit ==
    quit.stage = "no" =>
      /\ Connected(connections) # {}
      /\ \A r \in Requests : call[r].answer.type # "thrown"

(* However redirections, TRYAGAIN, CLUSTERDOWN and lost connections follow *)
(* one another, and though only some of them count down `retry`, a send    *)
(* makes no more attempts than its retries, its time and the servers allow. *)
AttemptsAreBounded ==
    \A c \in Calls :
      call[c].attempts <= MaxRetries + ConnectTimeout + Cardinality(Servers) - 2

(* While servers and connections are well and nobody quits, slots may move *)
(* fewer times than there are retries: a request about a key then succeeds, *)
(* however old the slots it starts from or an update writes meanwhile.     *)
NoFailureWithoutACause ==
    faults = 0 /\ quit.stage = "no" /\ moves < MaxRetries =>
      \A r \in Requests :
        Kind[r] = "key" /\ call[r].stage = "done" => call[r].answer.type = "ok"

(* The connections that somebody will still use or close.                  *)
Held ==
    Listed(connections) \cup quit.toClose
      \cup UNION {Listed(update[u].connections) : u \in Updates}

(* A connection that is open is only let go by closing it; the exception   *)
(* is the assignment of updateCache (WriteCache), which overwrites what    *)
(* others have put into the map since it was read.                         *)
OnlyAnUpdateLosesConnections ==
    [][\/ \A p \in Held \ Held' : cons[p[1]][p[2]] = "open" => cons'[p[1]][p[2]] # "open"
       \/ \E u \in Updates : update[u].stage = "write" /\ update'[u].stage = "done"]_vars

(* Every request ends: no chain of redirections, errors and waits goes on  *)
(* forever.  The exceptions: quit() has terminated the ActorSystem under   *)
(* the request, or its connection was told to QUIT and was lost before.    *)
Stranded(r) ==
    /\ call[r].stage = "stranded"
    /\ Terminated \/ cons[call[r].server][call[r].con] = "lost"

(* quit() completes once nobody else holds the connections it has to close *)
(* and they are open: a connection that an update brought back after it    *)
(* was closed, or brings back before quit() has closed it, never answers.  *)
(* The exceptions are those it closes whose server is dead, or which are   *)
(* lost or time out before the answer to QUIT.                             *)
Unanswerable(p) == p[1] \in dead \/ cons[p[1]][p[2]] \in {"lost", "stuck"}
QuitCompletes ==
    (/\ quit.stage = "closing" /\ quit.unanswered = {}
     /\ \A p \in quit.toClose :
          /\ cons[p[1]][p[2]] = "open"
          /\ p \notin Listed(connections)
          /\ \A u \in Updates : p \notin Listed(update[u].connections))
      ~> \/ quit.stage \in {"done", "terminated"}
         \/ \E p \in quit.awaited \cup quit.unanswered : Unanswerable(p)

=============================================================================
