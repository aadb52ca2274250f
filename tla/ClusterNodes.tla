---------------------------- MODULE ClusterNodes ----------------------------
(***************************************************************************)
(* What a ClusterConnection talks to: the servers of a Redis cluster, each *)
(* slot owned by one of them, and the AkkaNonBlockingConnections to them.  *)
(* Of a connection only this is left: a request is answered, or fails with *)
(* a RedisIOException whether or not it was executed; after QUIT every new *)
(* request fails at once, and the QUIT may be answered, be lost or time    *)
(* out (AkkaConnection is the whole of it).                                *)
(***************************************************************************)
EXTENDS Integers, Sequences, FiniteSets

CONSTANTS
    Servers,
    NoServer,      \* None
    Slots,         \* hash slots
    MaxMoves,      \* bound: slots that change their owner
    MaxFaults      \* bound: lost connections, dead servers and errors

ASSUME NoServerAssumption == NoServer \notin Servers
ASSUME ServersAreFinite == IsFiniteSet(Servers)
ASSUME BoundsAssumption == MaxMoves \in Nat /\ MaxFaults \in Nat

VARIABLES
    owner,      \* owner[k] is the server of slot k
    dead,       \* servers that answer nothing any more
    cons,       \* cons[s] are the states of the connections made to s so far
    moves,      \* how often a slot has changed its owner
    faults      \* how many faults there have been
nodeVars == <<owner, dead, cons, moves, faults>>

(* "closing": told to QUIT; "closed": QUIT was answered and the listener   *)
(* has stopped; "lost": it has stopped, the QUIT unanswered; "stuck": it   *)
(* reconnects and never stops.                                             *)
ConStates == {"open", "closing", "closed", "lost", "stuck"}
NodesType ==
    /\ owner \in [Slots -> Servers]
    /\ dead \in SUBSET Servers
    /\ cons \in [Servers -> Seq(ConStates)]
    /\ moves \in 0..MaxMoves
    /\ faults \in 0..MaxFaults

(* makeConnection, for each server of S.                                   *)
Making(S) == [s \in Servers |-> IF s \in S THEN Append(cons[s], "open") ELSE cons[s]]

Faulty == faults < MaxFaults /\ faults' = faults + 1

Answer(type, to) == [type |-> type, to |-> to]

(* What server s says to a request about slot k.  No request is ever       *)
(* preceded by ASKING, so the target of an ASK only knows the slot's owner. *)
AnswersToKey(s, k) ==
    {Answer(IF owner[k] = s THEN "ok" ELSE "moved", owner[k])}
ErrorsToKey(s, k) ==
    {Answer("clusterDown", NoServer)}
      \cup {Answer("tryAgain", NoServer) : t \in {s} \cap {owner[k]}}
      \cup {Answer("ask", t) : t \in IF owner[k] = s THEN Servers \ {s} ELSE {}}

Reshard ==
    /\ moves < MaxMoves /\ moves' = moves + 1
    /\ \E k \in Slots, s \in Servers \ dead :
         owner[k] # s /\ owner' = [owner EXCEPT ![k] = s]
    /\ UNCHANGED <<dead, cons, faults>>

Die(s) ==
    /\ Faulty
    /\ s \notin dead
    /\ dead' = dead \cup {s}
    /\ UNCHANGED <<owner, cons, moves>>

(* What becomes of a connection that was told to QUIT.                     *)
Becomes(s, n, state) ==
    /\ cons[s][n] = "closing"
    /\ cons' = [cons EXCEPT ![s][n] = state]
    /\ UNCHANGED <<owner, dead, moves>>

(* A fault of the connections to s; those to a dead server cost nothing.   *)
Fails(s) == IF s \in dead THEN UNCHANGED faults ELSE Faulty

=============================================================================
