---------------------- MODULE ClusterConnection_proofs ----------------------
(***************************************************************************)
(* What ClusterConnection keeps true for any number of servers, slots,     *)
(* requests, updates, faults and changes of owners, and for any limits:    *)
(* its types, how many attempts a request makes, that there is always a    *)
(* connection until quit(), and what the cache is worth.                   *)
(***************************************************************************)
EXTENDS ClusterConnection, FiniteSetTheorems, SequenceTheorems, TLAPS

(* The calls keep within their budget: an attempt is paid by a retry, by a *)
(* wait for CLUSTERDOWN or by a server that was not tried before.          *)
Reached(r) == r.tried \cup {r.server}
Spent(r) == (MaxRetries - r.retry) + r.downs + Cardinality(Reached(r))
Budget(r) ==
    /\ r.stage \in {"idle", "choosing", "done"} => r.attempts = 0
    /\ r.stage \notin {"idle", "choosing", "done"} =>
         /\ r.server \in Servers
         /\ r.retry \in 0..MaxRetries
         /\ r.stage \notin {"start", "waiting"} => r.retry > 0
         /\ r.downs < ConnectTimeout
         /\ r.left <= ConnectTimeout - r.downs
         /\ r.attempts <= Spent(r) - (IF r.stage \in {"start", "waiting"} THEN 1 ELSE 0)
         /\ r.answer.type \in {"moved", "ask"} => r.answer.to \in Servers

CallsOK == call \in [Calls -> CallType] /\ \A c \in Calls : Budget(call[c])
MapOK ==
    /\ connections \in [Servers -> Entries]
    /\ \A s \in Servers : connections[s].errors <= MaxConnectionMisses
SlotsOK ==
    /\ hashSlots \in [Slots -> Servers \cup {NoServer}]
    /\ hashMisses \in 0..MaxHashMisses
UpdateEntriesOK ==
    \A u \in Updates : \A s \in Servers : update[u].connections[s].errors <= MaxConnectionMisses
UpdatesOK == update \in [Updates -> UpdateType] /\ UpdateEntriesOK
QuitOK == quit \in QuitType
ClusterInv == NodesType /\ CallsOK /\ MapOK /\ SlotsOK /\ UpdatesOK /\ QuitOK

---------------------------------------------------------------------------
(* Sets of servers.                                                        *)

LEMMA ReachedCardinality ==
    ASSUME NEW T \in SUBSET Servers, NEW s \in Servers
    PROVE  /\ Cardinality(T) \in Nat
           /\ Cardinality(T) <= Cardinality(Servers)
           /\ Cardinality(T \cup {s}) \in Nat
           /\ Cardinality(T) <= Cardinality(T \cup {s})
           /\ s \notin T => Cardinality(T \cup {s}) = Cardinality(T) + 1
<1>1. IsFiniteSet(T) /\ Cardinality(T) \in Nat /\ Cardinality(T) <= Cardinality(Servers)
  <2>1. IsFiniteSet(T) /\ Cardinality(T) <= Cardinality(Servers)
    BY ServersAreFinite, FS_Subset
  <2> QED BY <2>1, FS_CardinalityType
<1>2. CASE s \in T
  <2>1. T \cup {s} = T
    BY <1>2
  <2> QED BY <1>1, <1>2, <2>1
<1>3. CASE s \notin T
  <2>1. Cardinality(T \cup {s}) = Cardinality(T) + 1
    BY <1>1, <1>3, FS_AddElement
  <2> QED BY <1>1, <1>3, <2>1
<1> QED BY <1>2, <1>3

LEMMA OneServer == ASSUME NEW s \in Servers PROVE Cardinality({} \cup {s}) = 1
<1>1. {} \cup {s} = {s}
  OBVIOUS
<1> QED BY <1>1, FS_Singleton

---------------------------------------------------------------------------
(* The records a call goes through.                                        *)

LEMMA SendingOK ==
    ASSUME NEW s \in Servers PROVE Sending(s) \in CallType /\ Budget(Sending(s))
<1>1. MaxRetries \in Nat /\ ConnectTimeout \in Nat /\ ConnectTimeout > 0
  BY LimitsAssumption
<1>2. Sending(s) \in CallType
  BY <1>1 DEF Sending, CallType, Answer, Results, Stages
<1>3. Cardinality(Reached(Sending(s))) = 1
  BY OneServer DEF Sending, Reached
<1>4. Budget(Sending(s))
  <2>1. /\ Sending(s).stage = "start" /\ Sending(s).server = s /\ Sending(s).retry = MaxRetries
        /\ Sending(s).downs = 0 /\ Sending(s).left = ConnectTimeout /\ Sending(s).attempts = 0
        /\ Sending(s).answer.type = "none"
    BY DEF Sending, Answer
  <2> QED BY <1>1, <1>3, <2>1 DEF Budget, Spent
<1> QED BY <1>2, <1>4

LEMMA NotSendingOK ==
    ASSUME NEW stage \in {"idle", "choosing", "done"}, NEW result \in Results
    PROVE  NotSending(stage, result) \in CallType /\ Budget(NotSending(stage, result))
<1>1. MaxRetries \in Int /\ ConnectTimeout \in Int
  BY LimitsAssumption
<1> DEFINE r == NotSending(stage, result)
<1>2. Sending(NoServer) \in CallType
  BY <1>1 DEF Sending, CallType, Answer, Results, Stages
<1>3. r \in CallType
  BY <1>2 DEF NotSending, CallType, Stages, Answer
<1>4. Sending(NoServer).attempts = 0
  BY DEF Sending
<1>5. r.stage = stage /\ r.attempts = 0
  BY <1>2, <1>4 DEF NotSending, CallType
<1> HIDE DEF r
<1>6. Budget(r)
  BY <1>5 DEF Budget
<1> QED BY <1>3, <1>6 DEF r

LEMMA EndedOK ==
    ASSUME NEW result \in Results PROVE Ended(result) \in CallType /\ Budget(Ended(result))
BY NotSendingOK DEF Ended

LEMMA AgainOK ==
    ASSUME CallsOK, NEW c \in Calls, call[c].stage \in {"answered", "failing"},
           NEW s \in Servers, NEW retry \in Int, NEW left \in Int, left <= call[c].left,
           \/ retry = call[c].retry - 1
           \/ retry = call[c].retry /\ s \notin Reached(call[c])
    PROVE  Again(c, s, retry, left) \in CallType /\ Budget(Again(c, s, retry, left))
<1> DEFINE r == call[c]
           a == Again(c, s, retry, left)
<1>1. r \in CallType /\ Budget(r) /\ r.stage \in {"answered", "failing"}
  BY DEF CallsOK
<1>2. /\ a.stage = "start" /\ a.server = s /\ a.tried = r.tried \cup {r.server}
      /\ a.retry = retry /\ a.left = left /\ a.downs = r.downs /\ a.attempts = r.attempts
      /\ a.answer.type = "none"
  BY <1>1 DEF Again, CallType, Answer
<1>3. a \in CallType
  BY <1>1 DEF Again, CallType, Answer, Results, Stages, Budget
<1>4. Reached(a) = Reached(r) \cup {s} /\ Reached(r) \in SUBSET Servers
  BY <1>1, <1>2 DEF Reached, Budget, CallType
<1>5. /\ Cardinality(Reached(r)) \in Nat /\ Cardinality(Reached(a)) \in Nat
      /\ Cardinality(Reached(r)) <= Cardinality(Reached(a))
      /\ s \notin Reached(r) => Cardinality(Reached(a)) = Cardinality(Reached(r)) + 1
  BY <1>4, ReachedCardinality
<1>6. /\ MaxRetries \in Nat /\ ConnectTimeout \in Nat /\ r.retry \in 0..MaxRetries /\ r.retry > 0
      /\ r.downs \in Nat /\ r.left \in Int /\ r.attempts \in Nat
      /\ r.downs < ConnectTimeout /\ r.left <= ConnectTimeout - r.downs
      /\ r.attempts <= (MaxRetries - r.retry) + r.downs + Cardinality(Reached(r))
  BY <1>1, LimitsAssumption, <1>5 DEF Budget, CallType, Spent
<1>7. a.attempts <= Spent(a) - 1
  BY <1>2, <1>5, <1>6 DEF Spent
<1> HIDE DEF a, r
<1> QED BY <1>2, <1>3, <1>6, <1>7 DEF Budget, a, r

(* An answer that is not a result is followed up; so is an ended call.     *)
LEMMA StageOK ==
    ASSUME CallsOK, NEW c \in Calls,
           NEW stage \in {"picked", "sent", "answered", "failing", "stranded"},
           call[c].stage \in {"start", "waiting", "picked", "sent", "answered", "failing"},
           NEW con \in Nat, NEW attempts \in Nat,
           NEW answer \in [type: Results, to: Servers \cup {NoServer}],
           answer.type \in {"moved", "ask"} => answer.to \in Servers,
           IF Beginning(c) THEN call[c].retry > 0 /\ attempts <= call[c].attempts + 1
                           ELSE attempts = call[c].attempts,
           NEW r, r = [call[c] EXCEPT !.stage = stage, !.con = con, !.attempts = attempts,
                                      !.answer = answer]
    PROVE  r \in CallType /\ Budget(r)
<1>1. call[c] \in CallType /\ Budget(call[c])
  BY DEF CallsOK
<1>2. r \in CallType
  BY <1>1 DEF CallType, Stages
<1>3. /\ r.stage = stage /\ r.server = call[c].server /\ r.tried = call[c].tried
      /\ r.retry = call[c].retry /\ r.left = call[c].left /\ r.downs = call[c].downs
      /\ r.attempts = attempts /\ r.answer = answer
  BY <1>1 DEF CallType
<1>4. Reached(r) = Reached(call[c]) /\ Reached(r) \in SUBSET Servers
  BY <1>1, <1>3 DEF Reached, Budget, CallType
<1>5. Cardinality(Reached(r)) \in Nat
  BY <1>4, ServersAreFinite, FS_Subset, FS_CardinalityType
<1>6. Spent(r) = Spent(call[c]) /\ Spent(r) \in Int
  BY <1>1, <1>3, <1>4, <1>5, LimitsAssumption DEF Spent, CallType
<1>7. r.attempts <= Spent(r)
  BY <1>1, <1>3, <1>6 DEF Budget, CallType, Beginning
<1>8. r.retry > 0
  BY <1>1, <1>3 DEF Budget, Beginning
<1> QED BY <1>1, <1>2, <1>3, <1>6, <1>7, <1>8 DEF Budget

(* The stage alone changes.                                                *)
LEMMA StageOnlyOK ==
    ASSUME CallsOK, NEW c \in Calls, NEW stage \in {"sent", "stranded"},
           call[c].stage \in {"waiting", "picked", "sent"}, Beginning(c) => call[c].retry > 0,
           NEW r, r = [call[c] EXCEPT !.stage = stage]
    PROVE  r \in CallType /\ Budget(r)
<1>1. call[c] \in CallType /\ Budget(call[c])
  BY DEF CallsOK
<1>2. /\ r.stage = stage /\ r.server = call[c].server /\ r.tried = call[c].tried
      /\ r.retry = call[c].retry /\ r.left = call[c].left /\ r.downs = call[c].downs
      /\ r.attempts = call[c].attempts /\ r.answer = call[c].answer
  BY <1>1 DEF CallType
<1>3. r \in CallType
  BY <1>1 DEF CallType, Stages
<1>4. Reached(r) = Reached(call[c]) /\ Reached(r) \in SUBSET Servers
  BY <1>1, <1>2 DEF Reached, Budget, CallType
<1>5. Cardinality(Reached(r)) \in Nat
  BY <1>4, ServersAreFinite, FS_Subset, FS_CardinalityType
<1>6. Spent(r) = Spent(call[c]) /\ Spent(r) \in Int
  BY <1>1, <1>2, <1>4, <1>5, LimitsAssumption DEF Spent, CallType
<1>7. r.attempts <= Spent(r) /\ r.retry > 0
  BY <1>1, <1>2, <1>6 DEF Budget, CallType, Beginning
<1> QED BY <1>1, <1>2, <1>3, <1>6, <1>7 DEF Budget

(* delayed: a retry that waits is as good as one that begins.              *)
LEMMA DelayedOK ==
    ASSUME NEW r \in CallType, Budget(r), r.stage = "start"
    PROVE  Delayed(r) \in CallType /\ Budget(Delayed(r))
<1>1. Ended("failed") \in CallType /\ Budget(Ended("failed"))
  BY EndedOK DEF Results
<1> DEFINE w == [r EXCEPT !.stage = "waiting"]
<1>2. /\ w \in CallType /\ w.stage = "waiting" /\ w.server = r.server /\ w.tried = r.tried
      /\ w.retry = r.retry /\ w.left = r.left /\ w.downs = r.downs
      /\ w.attempts = r.attempts /\ w.answer = r.answer
  BY DEF CallType, Stages
<1> HIDE DEF w
<1>3. Spent(w) = Spent(r)
  BY <1>2 DEF Spent, Reached
<1>4. Budget(w)
  BY <1>2, <1>3 DEF Budget
<1>5. Delayed(r) = IF Terminated THEN Ended("failed") ELSE w
  BY DEF Delayed, w
<1> QED BY <1>1, <1>2, <1>4, <1>5

LEMMA CallKept ==
    ASSUME CallsOK, NEW c \in Calls, NEW r \in CallType, Budget(r),
           call' = [call EXCEPT ![c] = r]
    PROVE  CallsOK'
<1>1. call' \in [Calls -> CallType]
  BY DEF CallsOK
<1>2. ASSUME NEW d \in Calls PROVE Budget(call'[d])
  BY DEF CallsOK
<1> QED BY <1>1, <1>2 DEF CallsOK

(* The calls S, which wait for a reply, get none, or fail together.        *)
Strand(S) == [c \in Calls |-> IF c \in S THEN [call[c] EXCEPT !.stage = "stranded"] ELSE call[c]]
Fail(S) ==
    [c \in Calls |-> IF c \in S
       THEN [call[c] EXCEPT !.stage = "answered", !.answer = Answer("io", NoServer)] ELSE call[c]]

LEMMA TogetherOK ==
    ASSUME CallsOK, NEW S \in SUBSET Calls, \A c \in S : call[c].stage = "sent",
           call' = Strand(S) \/ call' = Fail(S)
    PROVE  CallsOK'
<1>1. ASSUME NEW c \in S, NEW r, r = [call[c] EXCEPT !.stage = "stranded"]
      PROVE  r \in CallType /\ Budget(r)
  BY <1>1, StageOnlyOK DEF Beginning
<1>2. ASSUME NEW c \in S,
             NEW r, r = [call[c] EXCEPT !.stage = "answered", !.answer = Answer("io", NoServer)]
      PROVE  r \in CallType /\ Budget(r)
  <2> DEFINE con == call[c].con
             attempts == call[c].attempts
             answer == Answer("io", NoServer)
  <2>1. /\ c \in Calls /\ call[c] \in CallType /\ ~Beginning(c)
        /\ call[c].stage \in {"start", "waiting", "picked", "sent", "answered", "failing"}
    BY DEF CallsOK, Beginning
  <2>2. r = [call[c] EXCEPT !.stage = "answered", !.con = con, !.attempts = attempts, !.answer = answer]
    BY <1>2, <2>1 DEF CallType
  <2>3. answer \in [type: Results, to: Servers \cup {NoServer}] /\ answer.type \notin {"moved", "ask"}
    BY DEF Answer, Results
  <2>4. con \in Nat /\ attempts \in Nat /\ attempts = call[c].attempts
    BY <2>1 DEF CallType
  <2> HIDE DEF con, attempts, answer
  <2> QED BY <2>1, <2>2, <2>3, <2>4, StageOK
<1>3. call \in [Calls -> CallType] /\ \A c \in Calls : Budget(call[c])
  BY DEF CallsOK
<1>4. CASE call' = Strand(S)
  <2>1. ASSUME NEW c \in Calls PROVE call'[c] \in CallType /\ Budget(call'[c])
    BY <1>1, <1>3, <1>4 DEF Strand
  <2>2. call' = [c \in Calls |-> call'[c]]
    BY <1>4 DEF Strand
  <2> QED BY <2>1, <2>2 DEF CallsOK
<1>5. CASE call' = Fail(S)
  <2>1. ASSUME NEW c \in Calls PROVE call'[c] \in CallType /\ Budget(call'[c])
    BY <1>2, <1>3, <1>5 DEF Fail
  <2>2. call' = [c \in Calls |-> call'[c]]
    BY <1>5 DEF Fail
  <2> QED BY <2>1, <2>2 DEF CallsOK
<1> QED BY <1>4, <1>5

---------------------------------------------------------------------------
(* What the nodes say.                                                     *)

AnswerSet == [type: Results, to: Servers \cup {NoServer}]

LEMMA AnswersOK ==
    ASSUME ClusterInv, NEW c \in Calls, call[c].stage = "sent", NEW a \in AnswersTo(c) \cup ErrorsTo(c)
    PROVE  a \in AnswerSet /\ (a.type \in {"moved", "ask"} => a.to \in Servers)
<1>1. call[c].server \in Servers
  BY DEF ClusterInv, CallsOK, Budget
<1>2. CASE AboutSlot(c)
  <2>1. SlotOf[c] \in Slots
    BY <1>2, KindAssumption DEF AboutSlot
  <2>2. owner[SlotOf[c]] \in Servers
    BY <2>1 DEF ClusterInv, NodesType
  <2>3. a \in AnswersToKey(call[c].server, SlotOf[c]) \cup ErrorsToKey(call[c].server, SlotOf[c])
    BY <1>2 DEF AnswersTo, ErrorsTo
  <2> QED BY <1>1, <2>2, <2>3 DEF AnswersToKey, ErrorsToKey, Answer, AnswerSet, Results
<1>3. CASE ~AboutSlot(c)
  BY <1>3 DEF AnswersTo, ErrorsTo, Answer, AnswerSet, Results
<1> QED BY <1>2, <1>3

LEMMA AnsweredOK ==
    ASSUME ClusterInv, NEW c \in Calls, call[c].stage \in {"picked", "sent"}, NEW a \in AnswerSet,
           a.type \in {"moved", "ask"} => a.to \in Servers, Answered(c, a)
    PROVE  CallsOK'
<1>1. CallsOK /\ call[c] \in CallType
  BY DEF ClusterInv, CallsOK
<1>2. CASE a.type \in {"ok", "notOk"}
  <2>1. call' = [call EXCEPT ![c] = Ended(a.type)]
    BY <1>2 DEF Answered
  <2>2. Ended(a.type) \in CallType /\ Budget(Ended(a.type))
    BY EndedOK DEF AnswerSet
  <2> QED BY <1>1, <2>1, <2>2, CallKept
<1>3. CASE a.type \notin {"ok", "notOk"}
  <2> DEFINE r == [call[c] EXCEPT !.stage = "answered", !.answer = a]
  <2>1. call' = [call EXCEPT ![c] = r]
    BY <1>3 DEF Answered
  <2>2. r = [call[c] EXCEPT !.stage = "answered", !.con = call[c].con,
                            !.attempts = call[c].attempts, !.answer = a]
    BY <1>1 DEF CallType
  <2>3. call[c].con \in Nat /\ call[c].attempts \in Nat
    BY <1>1 DEF CallType
  <2>4. r \in CallType /\ Budget(r)
    <3>1. a \in [type: Results, to: Servers \cup {NoServer}]
      BY DEF AnswerSet
    <3>2. ~Beginning(c) /\ call[c].stage \in {"start", "waiting", "picked", "sent", "answered", "failing"}
      BY DEF Beginning
    <3>3. r \in CallType /\ Budget(r)
      <4> DEFINE con == call[c].con
                 attempts == call[c].attempts
      <4>1. r = [call[c] EXCEPT !.stage = "answered", !.con = con, !.attempts = attempts, !.answer = a]
        BY <2>2
      <4> HIDE DEF r, con, attempts
      <4>2. con \in Nat /\ attempts \in Nat /\ attempts = call[c].attempts
        BY <2>3 DEF con, attempts
      <4> QED BY <1>1, <4>1, <4>2, <3>1, <3>2, StageOK
    <3> QED BY <3>3
  <2> QED BY <1>1, <2>1, <2>4, CallKept
<1> QED BY <1>2, <1>3

---------------------------------------------------------------------------
(* The map of connections.                                                 *)

LEMMA WithOK ==
    ASSUME NodesType, NEW conns \in [Servers -> Entries],
           \A s \in Servers : conns[s].errors <= MaxConnectionMisses, NEW S \in SUBSET Servers
    PROVE  /\ With(conns, S) \in [Servers -> Entries]
           /\ \A s \in Servers : With(conns, S)[s].errors <= MaxConnectionMisses
           /\ Connected(With(conns, S)) = Connected(conns) \cup S
<1>1. \A s \in Servers : Len(cons[s]) \in Nat
  BY DEF NodesType
<1>2. \A s \in Servers :
        With(conns, S)[s] = IF s \in S THEN [con |-> Len(cons[s]) + 1, errors |-> 0] ELSE conns[s]
  BY DEF With, Fresh
<1>3. With(conns, S) \in [Servers -> Entries]
  BY <1>1 DEF With, Fresh, Entries
<1>4. ASSUME NEW s \in Servers PROVE With(conns, S)[s].errors <= MaxConnectionMisses
  <2>1. CASE s \in S
    <3>1. With(conns, S)[s] = [con |-> Len(cons[s]) + 1, errors |-> 0]
      BY <1>2, <2>1
    <3>2. With(conns, S)[s].errors = 0
      BY <3>1
    <3> QED BY <3>2, LimitsAssumption
  <2>2. CASE s \notin S
    BY <1>2, <2>2
  <2> QED BY <2>1, <2>2
<1>5. \A s \in S : [con |-> Len(cons[s]) + 1, errors |-> 0] # NoConnection
  BY <1>1 DEF NoConnection
<1>6. Connected(With(conns, S)) = Connected(conns) \cup S
  BY <1>2, <1>5 DEF Connected
<1> QED BY <1>3, <1>4, <1>6

LEMMA MakingOK ==
    ASSUME NodesType, NEW S \in SUBSET Servers PROVE Making(S) \in [Servers -> Seq(ConStates)]
<1>1. "open" \in ConStates
  BY DEF ConStates
<1> QED BY <1>1 DEF NodesType, Making

LEMMA NoConnectionsOK ==
    /\ NoConnections \in [Servers -> Entries]
    /\ \A s \in Servers : NoConnections[s].errors <= MaxConnectionMisses
BY LimitsAssumption DEF NoConnections, NoConnection, Entries

LEMMA ClosingOK ==
    ASSUME NodesType, NEW s \in Servers, NEW n \in 1..Len(cons[s])
    PROVE  Closing(s, n) \in [Servers -> Seq(ConStates)]
BY DEF NodesType, Closing, ConStates

---------------------------------------------------------------------------
(* The steps of a call.                                                    *)

LEMMA SendRequestOK ==
    ASSUME ClusterInv, NEW r \in Requests, SendRequest(r) PROVE CallsOK'
<1>1. r \in Calls /\ CallsOK
  BY DEF Calls, ClusterInv
<1>2. FirstServers(r) \subseteq Servers
  BY KindAssumption DEF FirstServers, AboutSlot, Connected, ClusterInv, SlotsOK
<1>3. CASE \E s \in FirstServers(r) : call' = [call EXCEPT ![r] = Sending(s)]
  BY <1>1, <1>2, <1>3, SendingOK, CallKept
<1>4. CASE \E stage \in {"choosing", "done"}, result \in Results :
             call' = [call EXCEPT ![r] = NotSending(stage, result)]
  BY <1>1, <1>4, NotSendingOK, CallKept
<1>5. {"none", "thrown", "failed"} \subseteq Results
  BY DEF Results
<1> QED BY <1>3, <1>4, <1>5 DEF SendRequest, Ended

LEMMA ChooseOK ==
    ASSUME ClusterInv, NEW r \in Requests, Choose(r) PROVE CallsOK'
<1>1. r \in Calls /\ CallsOK /\ Connected(connections) \subseteq Servers
  BY DEF Calls, ClusterInv, Connected
<1>2. {"thrown", "failed"} \subseteq Results
  BY DEF Results
<1> QED BY <1>1, <1>2, SendingOK, EndedOK, CallKept DEF Choose

LEMMA AttemptOK ==
    ASSUME ClusterInv, NEW c \in Calls, Attempt(c) PROVE NodesType' /\ MapOK' /\ CallsOK'
<1> DEFINE s == call[c].server
<1>1. call[c] \in CallType /\ Budget(call[c]) /\ Beginning(c) /\ call[c].stage \in {"start", "waiting"}
  BY DEF ClusterInv, CallsOK, Attempt, Beginning
<1>2. s \in Servers /\ Missing(s) \in SUBSET Servers
  BY <1>1 DEF Budget, Missing
<1>3. cons' = Making(Missing(s)) /\ connections' = With(connections, Missing(s))
  BY DEF Attempt
<1>4. NodesType'
  BY <1>2, <1>3, MakingOK DEF Attempt, ClusterInv, NodesType
<1>5. MapOK'
  BY <1>2, <1>3, WithOK DEF ClusterInv, MapOK
<1>6. connections'[s].con \in Nat /\ call[c].attempts + 1 \in Nat
  BY <1>1, <1>2, <1>5 DEF MapOK, Entries, CallType
<1>7. call[c].retry > 0
  BY <1>1 DEF Attempt, OutOfRetries, CallType
<1> DEFINE r == [call[c] EXCEPT !.stage = "picked", !.con = connections'[s].con, !.attempts = @ + 1]
<1>8. call' = [call EXCEPT ![c] = r]
  BY DEF Attempt
<1>9. r \in CallType /\ Budget(r)
  <2> DEFINE con == connections'[s].con
             attempts == call[c].attempts + 1
             answer == call[c].answer
  <2>1. r = [call[c] EXCEPT !.stage = "picked", !.con = con, !.attempts = attempts, !.answer = answer]
    BY <1>1 DEF CallType
  <2>2. answer \in AnswerSet /\ (answer.type \in {"moved", "ask"} => answer.to \in Servers)
    BY <1>1 DEF CallType, Budget, AnswerSet
  <2>3. attempts \in Nat /\ con \in Nat /\ attempts <= call[c].attempts + 1
    BY <1>1, <1>6 DEF CallType
  <2> HIDE DEF r, con, attempts, answer
  <2> QED BY <1>1, <1>7, <2>1, <2>2, <2>3, StageOK DEF ClusterInv, AnswerSet
<1> HIDE DEF r
<1> QED BY <1>4, <1>5, <1>8, <1>9, CallKept DEF ClusterInv

LEMMA PostOK ==
    ASSUME ClusterInv, NEW c \in Calls, Post(c) PROVE CallsOK'
<1>1. call[c] \in CallType /\ Budget(call[c]) /\ call[c].stage = "picked" /\ CallsOK
  BY DEF ClusterInv, CallsOK, Post
<1>2. CASE \E stage \in {"sent", "stranded"} : call' = [call EXCEPT ![c].stage = stage]
  <2>1. PICK stage \in {"sent", "stranded"} : call' = [call EXCEPT ![c].stage = stage]
    BY <1>2
  <2> DEFINE r == [call[c] EXCEPT !.stage = stage]
  <2>2. call' = [call EXCEPT ![c] = r]
    BY <2>1
  <2>3. r = [call[c] EXCEPT !.stage = stage] /\ ~Beginning(c)
    BY <1>1 DEF Beginning
  <2> HIDE DEF r
  <2>4. r \in CallType /\ Budget(r)
    BY <1>1, <2>3, StageOnlyOK
  <2> QED BY <1>1, <2>2, <2>4, CallKept
<1>3. CASE call' = [call EXCEPT ![c].stage = "answered", ![c].answer = Answer("io", NoServer)]
  <2>1. Answer("io", NoServer) \in AnswerSet /\ Answer("io", NoServer).type = "io"
    BY DEF Answer, AnswerSet, Results
  <2>2. Answered(c, Answer("io", NoServer))
    BY <1>3, <2>1 DEF Answered
  <2> QED BY <1>1, <2>1, <2>2, AnsweredOK
<1> QED BY <1>2, <1>3 DEF Post, Delivered

LEMMA CannotAttemptOK ==
    ASSUME ClusterInv, NEW c \in Calls, CannotAttempt(c) PROVE CallsOK'
<1>1. call[c] \in CallType /\ Budget(call[c]) /\ CallsOK /\ Beginning(c)
  BY DEF ClusterInv, CallsOK, CannotAttempt
<1>2. CASE call[c].stage = "waiting" /\ call' = [call EXCEPT ![c].stage = "stranded"]
  <2> DEFINE r == [call[c] EXCEPT !.stage = "stranded"]
  <2>1. call' = [call EXCEPT ![c] = r]
    BY <1>2
  <2>2. call[c].retry > 0
    BY <1>1 DEF CannotAttempt, OutOfRetries, CallType
  <2>3. r = [call[c] EXCEPT !.stage = "stranded"]
    OBVIOUS
  <2> HIDE DEF r
  <2>4. r \in CallType /\ Budget(r)
    BY <1>1, <1>2, <2>2, <2>3, StageOnlyOK
  <2> QED BY <1>1, <2>1, <2>4, CallKept
<1>3. CASE \E result \in {"thrown", "failed"} : call' = [call EXCEPT ![c] = Ended(result)]
  <2>1. {"thrown", "failed"} \subseteq Results
    BY DEF Results
  <2> QED BY <1>1, <1>3, <2>1, EndedOK, CallKept
<1> QED BY <1>2, <1>3 DEF CannotAttempt

LEMMA RepliesOK ==
    ASSUME ClusterInv, NEW c \in Calls, Reply(c) \/ ReplyError(c) \/ Lose(c) PROVE CallsOK'
<1>1. call[c].stage = "sent"
  BY DEF Reply, ReplyError, Lose
<1>2. CASE \E a \in AnswersTo(c) \cup ErrorsTo(c) : Answered(c, a)
  BY <1>1, <1>2, AnswersOK, AnsweredOK
<1>3. CASE Answered(c, Answer("io", NoServer))
  <2>1. Answer("io", NoServer) \in AnswerSet /\ Answer("io", NoServer).type = "io"
    BY DEF Answer, AnswerSet, Results
  <2> QED BY <1>1, <1>3, <2>1, AnsweredOK
<1> QED BY <1>2, <1>3 DEF Reply, ReplyError, Lose

(* The recursive sends.                                                    *)
LEMMA FollowedUp ==
    ASSUME ClusterInv, NEW c \in Calls, call[c].stage = "answered"
    PROVE  /\ call[c] \in CallType /\ Budget(call[c]) /\ CallsOK
           /\ call[c].server \in Servers /\ call[c].retry \in Int /\ call[c].left \in Int
           /\ call[c].answer.type \in {"moved", "ask"} => call[c].answer.to \in Servers
BY DEF ClusterInv, CallsOK, Budget, CallType

LEMMA RedirectedOK ==
    ASSUME ClusterInv, NEW c \in Calls, call[c].stage = "answered",
           call[c].answer.type \in {"moved", "ask"}
    PROVE  Redirected(c) \in CallType /\ Budget(Redirected(c))
BY FollowedUp, AgainOK DEF Redirected

LEMMA MovedOK ==
    ASSUME ClusterInv, NEW c \in Calls, Moved(c) PROVE CallsOK' /\ SlotsOK' /\ UpdatesOK'
<1>1. /\ CallsOK /\ UpdatesOK /\ SlotsOK /\ call[c].stage = "answered"
      /\ call[c].answer.type = "moved" /\ call[c].answer.to \in Servers
  BY FollowedUp DEF Moved, ClusterInv
<1>2. Redirected(c) \in CallType /\ Budget(Redirected(c))
  BY <1>1, RedirectedOK
<1>3. hashSlots' \in [Slots -> Servers \cup {NoServer}]
  BY <1>1 DEF Moved, SlotsOK
<1>4. hashMisses' \in 0..MaxHashMisses
  BY <1>1, LimitsAssumption DEF Moved, SlotsOK
<1>5. CASE call' = [call EXCEPT ![c] = Redirected(c)] /\ UNCHANGED update
  <2>1. CallsOK'
    BY <1>1, <1>2, <1>5, CallKept
  <2>2. UpdatesOK'
    BY <1>1, <1>5 DEF UpdatesOK, UpdateEntriesOK
  <2> QED BY <1>3, <1>4, <2>1, <2>2 DEF SlotsOK
<1>6. CASE call' = [call EXCEPT ![c] = Ended("failed")] /\ UNCHANGED update
  <2>1. Ended("failed") \in CallType /\ Budget(Ended("failed"))
    BY EndedOK DEF Results
  <2>2. CallsOK'
    BY <1>1, <1>6, <2>1, CallKept
  <2>3. UpdatesOK'
    BY <1>1, <1>6 DEF UpdatesOK, UpdateEntriesOK
  <2> QED BY <1>3, <1>4, <2>2, <2>3 DEF SlotsOK
<1>7. CASE \E u \in Idle, s \in Connected(connections) :
             /\ update' = [update EXCEPT ![u].stage = "info", ![u].retry = MaxRetries]
             /\ call' = [call EXCEPT ![c] = Redirected(c), ![u] = Sending(s)]
  <2>1. PICK u \in Idle, s \in Connected(connections) :
             /\ update' = [update EXCEPT ![u].stage = "info", ![u].retry = MaxRetries]
             /\ call' = [call EXCEPT ![c] = Redirected(c), ![u] = Sending(s)]
    BY <1>7
  <2>2. u \in Updates /\ u \in Calls /\ s \in Servers
    BY DEF Idle, Calls, Connected
  <2>3. Sending(s) \in CallType /\ Budget(Sending(s))
    BY <2>2, SendingOK
  <2>4. CallsOK'
    BY <1>1, <1>2, <2>1, <2>2, <2>3 DEF CallsOK
  <2>5. MaxRetries \in Int
    BY LimitsAssumption
  <2>6. update' \in [Updates -> UpdateType]
    <3> DEFINE next == [update[u] EXCEPT !.stage = "info", !.retry = MaxRetries]
    <3>1. update \in [Updates -> UpdateType]
      BY <1>1 DEF UpdatesOK
    <3>2. next \in UpdateType
      BY <2>2, <2>5, <3>1 DEF UpdateType
    <3>3. update' = [update EXCEPT ![u] = next]
      BY <2>1
    <3> HIDE DEF next
    <3> QED BY <2>2, <3>1, <3>2, <3>3
  <2>7. \A v \in Updates : update'[v].connections = update[v].connections
    BY <1>1, <2>1, <2>2 DEF UpdatesOK, UpdateType
  <2>8. UpdatesOK'
    BY <1>1, <2>6, <2>7 DEF UpdatesOK, UpdateEntriesOK
  <2> QED BY <1>3, <1>4, <2>4, <2>8 DEF SlotsOK
<1> QED BY <1>5, <1>6, <1>7 DEF Moved

LEMMA TryAgainOK ==
    ASSUME ClusterInv, NEW c \in Calls, Ask(c) \/ TryAgain(c) PROVE CallsOK'
<1>1. CASE Ask(c)
  BY <1>1, FollowedUp, RedirectedOK, CallKept DEF Ask
<1>2. CASE TryAgain(c)
  <2>1. call[c].stage = "answered"
    BY <1>2 DEF TryAgain
  <2>2. /\ CallsOK /\ call[c].server \in Servers /\ call[c].retry - 1 \in Int
        /\ call[c].left - TryAgainWait \in Int /\ call[c].left - TryAgainWait <= call[c].left
    BY <2>1, FollowedUp, LimitsAssumption
  <2> DEFINE r == Again(c, call[c].server, call[c].retry - 1, call[c].left - TryAgainWait)
  <2>3. r \in CallType /\ Budget(r)
    BY <2>1, <2>2, AgainOK
  <2>4. r.stage = "start"
    BY <2>1, FollowedUp DEF Again, CallType
  <2>5. call' = [call EXCEPT ![c] = Delayed(r)]
    BY <1>2 DEF TryAgain
  <2> HIDE DEF r
  <2>6. Delayed(r) \in CallType /\ Budget(Delayed(r))
    BY <2>3, <2>4, DelayedOK
  <2> QED BY <2>2, <2>5, <2>6, CallKept
<1> QED BY <1>1, <1>2

LEMMA ClusterDownOK ==
    ASSUME ClusterInv, NEW c \in Calls, ClusterDown(c) PROVE CallsOK'
<1> DEFINE left == call[c].left - ClusterDownWait
           r == [Again(c, call[c].server, call[c].retry, left)
                   EXCEPT !.tried = call[c].tried, !.downs = @ + 1]
<1>1. call[c].stage = "answered"
  BY DEF ClusterDown
<1>2. /\ call[c] \in CallType /\ Budget(call[c]) /\ CallsOK
      /\ call[c].server \in Servers /\ call[c].retry \in Int /\ call[c].left \in Int
  BY <1>1, FollowedUp
<1>3. CASE left <= 0
  <2>1. Ended("failed") \in CallType /\ Budget(Ended("failed"))
    BY EndedOK DEF Results
  <2> QED BY <1>2, <1>3, <2>1, CallKept DEF ClusterDown
<1>4. CASE ~(left <= 0)
  <2>1. left \in Int /\ left > 0 /\ left < call[c].left
    BY <1>2, <1>4, LimitsAssumption
  <2>2. call' = [call EXCEPT ![c] = Delayed(r)]
    BY <1>4 DEF ClusterDown
  <2>3. /\ r.stage = "start" /\ r.server = call[c].server /\ r.tried = call[c].tried
        /\ r.retry = call[c].retry /\ r.left = left /\ r.downs = call[c].downs + 1
        /\ r.attempts = call[c].attempts /\ r.answer.type = "none"
    BY <1>2 DEF Again, CallType, Answer
  <2>4. r \in CallType
    <3>1. Again(c, call[c].server, call[c].retry, left) \in CallType
      BY <1>2, <2>1 DEF Again, CallType, Answer, Results, Stages
    <3>2. call[c].tried \in SUBSET Servers
      BY <1>2 DEF CallType
    <3> DEFINE b == Again(c, call[c].server, call[c].retry, left)
    <3>3. b.downs + 1 \in Nat
      BY <3>1 DEF CallType
    <3>4. r = [b EXCEPT !.tried = call[c].tried, !.downs = b.downs + 1]
      OBVIOUS
    <3> HIDE DEF b, r
    <3> QED BY <3>1, <3>2, <3>3, <3>4 DEF CallType, b
  <2>5. Reached(r) = Reached(call[c]) /\ Reached(r) \in SUBSET Servers
    BY <1>2, <2>3 DEF Reached, CallType
  <2>6. Cardinality(Reached(r)) \in Nat
    BY <2>5, ServersAreFinite, FS_Subset, FS_CardinalityType
  <2> HIDE DEF r, left
  <2>7. /\ r.retry \in 0..MaxRetries /\ r.downs < ConnectTimeout
        /\ r.left <= ConnectTimeout - r.downs /\ r.attempts <= Spent(r) - 1
    BY <1>1, <1>2, <2>1, <2>3, <2>5, <2>6, LimitsAssumption DEF Budget, CallType, Spent
  <2>8. Budget(r)
    BY <1>2, <2>3, <2>7 DEF Budget
  <2>9. Delayed(r) \in CallType /\ Budget(Delayed(r))
    BY <2>3, <2>4, <2>8, DelayedOK
  <2> QED BY <1>2, <2>2, <2>9, CallKept
<1> QED BY <1>3, <1>4

LEMMA ClosingAnyOK ==
    ASSUME NodesType, NEW s \in Servers, NEW n PROVE Closing(s, n) \in [Servers -> Seq(ConStates)]
<1> DEFINE q == [cons[s] EXCEPT ![n] = IF @ = "open" THEN "closing" ELSE @]
<1>1. cons \in [Servers -> Seq(ConStates)] /\ cons[s] \in Seq(ConStates)
  BY DEF NodesType
<1>2. Len(cons[s]) \in Nat /\ \A i \in 1..Len(cons[s]) : cons[s][i] \in ConStates
  BY <1>1
<1>3. q \in [1..Len(cons[s]) -> ConStates]
  <2> DEFINE f == cons[s]
             D == 1..Len(cons[s])
             e == IF f[n] = "open" THEN "closing" ELSE f[n]
  <2>1. f \in [D -> ConStates]
    BY <1>1
  <2>2. n \in D => e \in ConStates
    BY <1>2 DEF ConStates
  <2>3. q = [f EXCEPT ![n] = e]
    OBVIOUS
  <2> HIDE DEF f, D, e, q
  <2>4. q \in [D -> ConStates]
    BY <2>1, <2>2, <2>3
  <2> QED BY <2>4 DEF D
<1>4. q \in Seq(ConStates)
  BY <1>2, <1>3, SeqDef
<1>5. Closing(s, n) = [cons EXCEPT ![s] = q]
  BY DEF Closing
<1> HIDE DEF q
<1> QED BY <1>1, <1>4, <1>5

LEMMA CannotRecoverOK ==
    ASSUME ClusterInv, NEW c \in Calls, CannotRecover(c) PROVE NodesType' /\ CallsOK'
<1> DEFINE s == call[c].server
<1>1. CallsOK /\ s \in Servers
  BY FollowedUp DEF CannotRecover
<1>2. cons' = Closing(s, connections[s].con)
  BY DEF CannotRecover
<1>3. NodesType'
  BY <1>1, <1>2, ClosingAnyOK DEF CannotRecover, ClusterInv, NodesType
<1>4. Ended("failed") \in CallType /\ Budget(Ended("failed"))
  BY EndedOK DEF Results
<1> QED BY <1>1, <1>3, <1>4, CallKept DEF CannotRecover

LEMMA CountErrorOK ==
    ASSUME ClusterInv, NEW c \in Calls, CountError(c) PROVE NodesType' /\ MapOK' /\ CallsOK'
<1> DEFINE s == call[c].server
           removed == [connections EXCEPT ![s] = NoConnection]
<1>1. /\ call[c] \in CallType /\ Budget(call[c]) /\ CallsOK /\ s \in Servers
      /\ call[c].stage = "answered"
  BY FollowedUp DEF CountError
<1>2. CallsOK'
  <2> DEFINE r == [call[c] EXCEPT !.stage = "failing", !.con = 0]
             con == 0
             attempts == call[c].attempts
             answer == call[c].answer
  <2>1. r = [call[c] EXCEPT !.stage = "failing", !.con = con, !.attempts = attempts, !.answer = answer]
    BY <1>1 DEF CallType
  <2>2. answer \in AnswerSet /\ (answer.type \in {"moved", "ask"} => answer.to \in Servers)
    BY <1>1 DEF CallType, Budget, AnswerSet
  <2>3. attempts \in Nat /\ con \in Nat /\ attempts = call[c].attempts /\ ~Beginning(c)
    BY <1>1 DEF CallType, Beginning
  <2>4. call' = [call EXCEPT ![c] = r]
    BY DEF CountError
  <2>5. r \in CallType /\ Budget(r)
    <3> HIDE DEF r, con, attempts, answer
    <3> QED BY <1>1, <2>1, <2>2, <2>3, StageOK DEF AnswerSet
  <2> QED BY <1>1, <2>4, <2>5, CallKept
<1>3. CASE s \notin Connected(connections) /\ UNCHANGED <<connections, cons>>
  BY <1>2, <1>3 DEF CountError, ClusterInv, NodesType, MapOK
<1>4. CASE /\ ~TooManyErrors(s)
           /\ connections' = [connections EXCEPT ![s].errors = @ + 1] /\ UNCHANGED cons
  <2>1. connections[s].errors \in Nat /\ connections[s].errors + 1 <= MaxConnectionMisses
    BY <1>1, <1>4, LimitsAssumption DEF ClusterInv, MapOK, Entries, TooManyErrors
  <2>2. connections' \in [Servers -> Entries]
    BY <1>1, <1>4, <2>1 DEF ClusterInv, MapOK, Entries
  <2>3. connections'[s].errors = connections[s].errors + 1
    BY <1>1, <1>4 DEF ClusterInv, MapOK, Entries
  <2>4. ASSUME NEW t \in Servers PROVE connections'[t].errors <= MaxConnectionMisses
    <3>1. CASE t = s
      BY <2>1, <2>3, <3>1
    <3>2. CASE t # s
      BY <1>1, <1>4, <3>2 DEF ClusterInv, MapOK
    <3> QED BY <3>1, <3>2
  <2>5. NodesType'
    BY <1>4 DEF CountError, ClusterInv, NodesType
  <2> QED BY <1>2, <2>2, <2>4, <2>5 DEF MapOK
<1>5. CASE /\ s \in Connected(connections)
           /\ connections' = With(removed, Recovery(removed))
           /\ cons' = [t \in Servers |->
                Closing(s, connections[s].con)[t]
                  \o (IF t \in Recovery(removed) THEN <<"open">> ELSE <<>>)]
  <2>1. removed \in [Servers -> Entries]
    BY <1>1 DEF ClusterInv, MapOK, Entries, NoConnection
  <2>2. ASSUME NEW t \in Servers PROVE removed[t].errors <= MaxConnectionMisses
    <3>1. CASE t = s
      <4>1. removed[t].errors = 0
        BY <1>1, <3>1 DEF ClusterInv, MapOK, NoConnection
      <4> QED BY <4>1, LimitsAssumption
    <3>2. CASE t # s
      BY <1>1, <3>2 DEF ClusterInv, MapOK
    <3> QED BY <3>1, <3>2
  <2>3. Recovery(removed) \in SUBSET Servers
    BY NodesAssumption DEF Recovery
  <2>4. MapOK'
    <3> HIDE DEF removed
    <3> QED BY <1>5, <2>1, <2>2, <2>3, WithOK DEF ClusterInv, MapOK
  <2>5. Closing(s, connections[s].con) \in [Servers -> Seq(ConStates)]
    BY <1>1, ClosingAnyOK DEF ClusterInv
  <2>6. cons' \in [Servers -> Seq(ConStates)]
    <3> DEFINE closed == Closing(s, connections[s].con)
               added(t) == IF t \in Recovery(removed) THEN <<"open">> ELSE <<>>
    <3>1. ASSUME NEW t \in Servers PROVE closed[t] \in Seq(ConStates) /\ added(t) \in Seq(ConStates)
      <4>1. <<"open">> \in Seq(ConStates) /\ << >> \in Seq(ConStates)
        BY DEF ConStates
      <4>2. added(t) \in {<<"open">>, << >>}
        OBVIOUS
      <4>3. closed[t] \in Seq(ConStates)
        BY <2>5
      <4> HIDE DEF closed, added
      <4> QED BY <4>1, <4>2, <4>3
    <3>2. ASSUME NEW t \in Servers PROVE closed[t] \o added(t) \in Seq(ConStates)
      <4> HIDE DEF closed, added
      <4> QED BY <3>1
    <3> QED BY <1>5, <3>2
  <2>7. NodesType'
    BY <2>6 DEF CountError, ClusterInv, NodesType
  <2> QED BY <1>2, <2>4, <2>7
<1> QED BY <1>3, <1>4, <1>5 DEF CountError

LEMMA NextServerOK ==
    ASSUME ClusterInv, NEW c \in Calls, NextServer(c) PROVE CallsOK'
<1>1. /\ call[c] \in CallType /\ Budget(call[c]) /\ CallsOK /\ call[c].stage = "failing"
      /\ call[c].retry \in Int /\ call[c].left \in Int
  BY DEF ClusterInv, CallsOK, CallType, NextServer
<1>2. CASE \E s \in Untried(c) : call' = [call EXCEPT ![c] = Again(c, s, call[c].retry, call[c].left)]
  <2>1. PICK s \in Untried(c) : call' = [call EXCEPT ![c] = Again(c, s, call[c].retry, call[c].left)]
    BY <1>2
  <2>2. s \in Servers /\ s \notin Reached(call[c])
    BY DEF Untried, Connected, Reached
  <2>3. /\ Again(c, s, call[c].retry, call[c].left) \in CallType
        /\ Budget(Again(c, s, call[c].retry, call[c].left))
    BY <1>1, <2>2, AgainOK
  <2> QED BY <1>1, <2>1, <2>3, CallKept
<1>3. CASE call' = [call EXCEPT ![c] = Ended("failed")]
  <2>1. Ended("failed") \in CallType /\ Budget(Ended("failed"))
    BY EndedOK DEF Results
  <2> QED BY <1>1, <1>3, <2>1, CallKept
<1> QED BY <1>2, <1>3 DEF NextServer

LEMMA GiveUpOK ==
    ASSUME ClusterInv, NEW c \in Calls, GiveUp(c) PROVE CallsOK'
<1>1. Ended("failed") \in CallType /\ Budget(Ended("failed"))
  BY EndedOK DEF Results
<1> QED BY <1>1, CallKept DEF GiveUp, ClusterInv

---------------------------------------------------------------------------
(* Updates, quit and the environment.                                      *)

LEMMA UpdateGoesOnOK ==
    ASSUME UpdatesOK, NEW u \in Updates, NEW stage \in {"info", "waiting", "slots"},
           \/ update' = [update EXCEPT ![u].stage = stage]
           \/ update' = [update EXCEPT ![u].stage = stage, ![u].retry = @ - 1]
    PROVE  UpdatesOK'
<1> DEFINE p == [update[u] EXCEPT !.stage = stage]
           q == [update[u] EXCEPT !.stage = stage, !.retry = update[u].retry - 1]
<1>1. update \in [Updates -> UpdateType] /\ update[u] \in UpdateType
  BY DEF UpdatesOK
<1>2. update[u].retry - 1 \in Int
  BY <1>1 DEF UpdateType
<1>3. p \in UpdateType /\ p.connections = update[u].connections
  BY <1>1 DEF UpdateType
<1>4. q \in UpdateType /\ q.connections = update[u].connections
  BY <1>1, <1>2 DEF UpdateType
<1>5. update' = [update EXCEPT ![u] = p] \/ update' = [update EXCEPT ![u] = q]
  OBVIOUS
<1> HIDE DEF p, q
<1>6. update' \in [Updates -> UpdateType]
  BY <1>1, <1>3, <1>4, <1>5
<1>7. \A v \in Updates : update'[v].connections = update[v].connections
  BY <1>1, <1>3, <1>4, <1>5
<1> QED BY <1>6, <1>7 DEF UpdatesOK, UpdateEntriesOK

LEMMA UpdateAsksOK ==
    ASSUME ClusterInv, NEW u \in Updates, NEW s \in Connected(connections),
           call' = [call EXCEPT ![u] = Sending(s)]
    PROVE  CallsOK'
<1>1. s \in Servers /\ u \in Calls
  BY DEF Connected, Calls
<1> QED BY <1>1, SendingOK, CallKept DEF ClusterInv

LEMMA NoUpdateOK ==
    ASSUME NEW stage \in {"idle", "done", "info"}
    PROVE  /\ NoUpdate(stage) \in UpdateType
           /\ \A s \in Servers : NoUpdate(stage).connections[s].errors <= MaxConnectionMisses
<1>1. NoUpdate(stage) \in UpdateType
  BY NoConnectionsOK DEF NoUpdate, UpdateType
<1> QED BY <1>1, NoConnectionsOK DEF NoUpdate

LEMMA UpdateEndsOK ==
    ASSUME UpdatesOK, NEW u \in Updates, update' = [update EXCEPT ![u] = NoUpdate("done")]
    PROVE  UpdatesOK'
<1>1. update' \in [Updates -> UpdateType]
  BY NoUpdateOK DEF UpdatesOK
<1>2. ASSUME NEW v \in Updates, NEW s \in Servers
      PROVE  update'[v].connections[s].errors <= MaxConnectionMisses
  <2>1. CASE v = u
    BY <2>1, NoUpdateOK DEF UpdatesOK
  <2>2. CASE v # u
    BY <2>2 DEF UpdatesOK, UpdateEntriesOK
  <2> QED BY <2>1, <2>2
<1> QED BY <1>1, <1>2 DEF UpdatesOK, UpdateEntriesOK

LEMMA ReadConnectionsOK ==
    ASSUME ClusterInv, NEW u \in Updates, ReadConnections(u)
    PROVE  /\ NodesType' /\ UpdatesOK'
           /\ update'[u].connections = With(connections, Servers \ Connected(connections))
<1> DEFINE new == Servers \ Connected(connections)
           conns == With(connections, new)
<1>1. cons' = Making(new)
      /\ update' = [update EXCEPT ![u].stage = "write", ![u].connections = conns]
  BY DEF ReadConnections
<1>2. NodesType /\ MapOK /\ UpdatesOK /\ new \in SUBSET Servers
  BY DEF ClusterInv
<1>3. NodesType'
  BY <1>1, <1>2, MakingOK DEF ReadConnections, NodesType
<1>4. conns \in [Servers -> Entries] /\ \A s \in Servers : conns[s].errors <= MaxConnectionMisses
  BY <1>2, WithOK DEF MapOK
<1> HIDE DEF conns
<1>5. update' \in [Updates -> UpdateType]
  BY <1>1, <1>2, <1>4, ZenonT(30) DEF UpdatesOK, UpdateType
<1>6. \A v \in Updates : update'[v].connections = IF v = u THEN conns ELSE update[v].connections
  BY <1>1, <1>2 DEF UpdatesOK, UpdateType
<1>7. UpdateEntriesOK'
  BY <1>2, <1>4, <1>6 DEF UpdatesOK, UpdateEntriesOK
<1> QED BY <1>3, <1>5, <1>6, <1>7 DEF UpdatesOK, conns

LEMMA WriteCacheOK ==
    ASSUME ClusterInv, NEW u \in Updates, WriteCache(u) PROVE MapOK' /\ SlotsOK' /\ UpdatesOK'
<1>1. UpdatesOK /\ SlotsOK
  BY DEF ClusterInv
<1>2. update[u].connections \in [Servers -> Entries] /\ update[u].view \in [Slots -> Servers \cup {NoServer}]
  BY <1>1 DEF UpdatesOK, UpdateType
<1>3. MapOK'
  BY <1>1, <1>2 DEF WriteCache, MapOK, UpdatesOK, UpdateEntriesOK
<1>4. SlotsOK'
  BY <1>1, <1>2 DEF WriteCache, SlotsOK
<1> QED BY <1>1, <1>3, <1>4, UpdateEndsOK DEF WriteCache

LEMMA ReplyUpdatesOK ==
    ASSUME ClusterInv, NEW c \in Calls, Reply(c) PROVE UpdatesOK'
<1>1. UpdatesOK /\ owner \in [Slots -> Servers \cup {NoServer}]
  BY DEF ClusterInv, NodesType
<1>2. CASE UNCHANGED update
  BY <1>1, <1>2 DEF UpdatesOK, UpdateEntriesOK
<1>3. CASE c \in Updates /\ update' = [update EXCEPT ![c].view = owner]
  <2> DEFINE next == [update[c] EXCEPT !.view = owner]
  <2>1. update \in [Updates -> UpdateType] /\ update[c] \in UpdateType
    BY <1>1, <1>3 DEF UpdatesOK
  <2>2. next \in UpdateType /\ next.connections = update[c].connections
    BY <1>1, <2>1 DEF UpdateType
  <2>3. update' = [update EXCEPT ![c] = next]
    BY <1>3
  <2> HIDE DEF next
  <2>4. /\ update' \in [Updates -> UpdateType]
        /\ \A v \in Updates : update'[v].connections = update[v].connections
    BY <2>1, <2>2, <2>3
  <2> QED BY <1>1, <2>4 DEF UpdatesOK, UpdateEntriesOK
<1> QED BY <1>2, <1>3 DEF Reply

LEMMA QuitStepsOK ==
    ASSUME ClusterInv, Quit \/ QuitStep PROVE NodesType' /\ MapOK' /\ QuitOK'
<1>1. CASE Quit
  <2>1. Listed(connections) \in SUBSET (Servers \X Nat)
    BY DEF Listed, Connected, ClusterInv, MapOK, Entries
  <2>2. quit' \in QuitType
    BY <1>1, <2>1 DEF Quit, ClusterInv, QuitOK, QuitType
  <2>3. MapOK'
    BY <1>1, NoConnectionsOK DEF Quit, MapOK
  <2>4. NodesType'
    BY <1>1 DEF Quit, ClusterInv, NodesType, nodeVars
  <2> QED BY <2>2, <2>3, <2>4 DEF QuitOK
<1>2. ASSUME NEW s \in Servers, NEW n \in 1..Len(cons[s]), QuitCloses(s, n)
      PROVE  NodesType' /\ MapOK' /\ QuitOK'
  <2>1. NodesType'
    BY <1>2, ClosingOK DEF QuitCloses, ClusterInv, NodesType
  <2>2. MapOK'
    BY <1>2 DEF QuitCloses, ClusterInv, MapOK, clusterVars
  <2>3. {<<s, n>>} \in SUBSET (Servers \X Nat) /\ quit \in QuitType
    BY <1>2 DEF QuitCloses, ClusterInv, QuitOK, QuitType
  <2>4. quit' \in QuitType
    <3> DEFINE unanswered == quit.unanswered \cup IF cons[s][n] = "open" THEN {} ELSE {<<s, n>>}
    <3>1. quit' = [quit EXCEPT !.awaited = {<<s, n>>}, !.toClose = quit.toClose \ {<<s, n>>},
                               !.unanswered = unanswered]
      BY <1>2, Zenon DEF QuitCloses
    <3>2. unanswered \in SUBSET (Servers \X Nat)
      BY <2>3 DEF QuitType
    <3> HIDE DEF unanswered
    <3> QED BY <2>3, <3>1, <3>2 DEF QuitType
  <2> QED BY <2>1, <2>2, <2>4 DEF QuitOK
<1>3. CASE QuitAwaits
  <2>1. PICK p \in quit.awaited :
          quit' = [quit EXCEPT !.awaited = {}, !.unanswered =
                     @ \cup IF cons[p[1]][p[2]] = "lost" THEN {p} ELSE {}]
    BY <1>3 DEF QuitAwaits
  <2>2. quit \in QuitType /\ p \in Servers \X Nat
    BY DEF ClusterInv, QuitOK, QuitType
  <2> DEFINE unanswered == quit.unanswered \cup IF cons[p[1]][p[2]] = "lost" THEN {p} ELSE {}
  <2>3. unanswered \in SUBSET (Servers \X Nat)
    BY <2>2 DEF QuitType
  <2>4. quit' = [quit EXCEPT !.awaited = {}, !.unanswered = unanswered]
    BY <2>1
  <2> HIDE DEF unanswered
  <2>5. quit' \in QuitType
    BY <2>2, <2>3, <2>4 DEF QuitType
  <2>6. NodesType' /\ MapOK'
    BY <1>3 DEF QuitAwaits, ClusterInv, NodesType, MapOK, nodeVars, clusterVars
  <2> QED BY <2>5, <2>6 DEF QuitOK
<1>4. CASE QuitEnds
  <2>1. quit' = [quit EXCEPT !.stage = "done"] \/ quit' = [quit EXCEPT !.stage = "terminated"]
    BY <1>4 DEF QuitEnds
  <2>2. quit' \in QuitType
    BY <2>1 DEF ClusterInv, QuitOK, QuitType
  <2>3. NodesType' /\ MapOK'
    BY <1>4 DEF QuitEnds, ClusterInv, NodesType, MapOK, nodeVars, clusterVars
  <2> QED BY <2>2, <2>3 DEF QuitOK
<1> QED BY <1>1, <1>2, <1>3, <1>4 DEF QuitStep

LEMMA QuitCallsOK ==
    ASSUME ClusterInv, Quit \/ QuitStep
    PROVE  CallsOK' /\ UNCHANGED <<hashSlots, hashMisses, update>>
<1>1. CallsOK
  BY DEF ClusterInv
<1>2. CASE QuitEnds
  <2> DEFINE S == {c \in Calls : call[c].stage = "sent"}
  <2>1. UNCHANGED call \/ call' = Strand(S)
    BY <1>2 DEF QuitEnds, Strand
  <2>2. CallsOK'
    BY <1>1, <2>1, TogetherOK DEF CallsOK
  <2> QED BY <1>2, <2>2 DEF QuitEnds, clusterVars
<1>3. CASE UNCHANGED call
  <2>1. CallsOK'
    BY <1>1, <1>3 DEF CallsOK
  <2> QED BY <2>1 DEF Quit, QuitStep, QuitCloses, QuitAwaits, QuitEnds, clusterVars
<1> QED BY <1>2, <1>3 DEF Quit, QuitStep, QuitCloses, QuitAwaits

LEMMA NodesOK == ASSUME ClusterInv, Environment PROVE NodesType'
<1>1. CASE Reshard
  BY <1>1, BoundsAssumption DEF Reshard, ClusterInv, NodesType
<1>2. CASE \E s \in Servers : Die(s)
  BY <1>2, BoundsAssumption DEF Die, Faulty, ClusterInv, NodesType
<1> QED BY <1>1, <1>2 DEF Environment

LEMMA FailsOK == ASSUME NodesType, NEW s, Fails(s) PROVE faults' \in 0..MaxFaults
BY BoundsAssumption DEF Fails, Faulty, NodesType

(* What becomes of a connection that was told to QUIT.                     *)
QuitGoes(s, n) == Ends(s, n) \/ QuitIsLost(s, n) \/ QuitTimesOut(s, n)

LEMMA QuitGoesOK ==
    ASSUME ClusterInv, NEW s \in Servers, NEW n \in 1..Len(cons[s]), QuitGoes(s, n)
    PROVE  NodesType' /\ CallsOK' /\ UNCHANGED <<clusterVars, update, quit>>
<1>1. CallsOK /\ NodesType
  BY DEF ClusterInv
<1>2. PICK state \in {"closed", "lost", "stuck"} : Becomes(s, n, state)
  BY DEF QuitGoes, Ends, QuitIsLost, QuitTimesOut
<1>3. state \in ConStates
  BY DEF ConStates
<1>4. cons' \in [Servers -> Seq(ConStates)]
  BY <1>1, <1>2, <1>3 DEF Becomes, NodesType
<1>5. faults' \in 0..MaxFaults
  BY <1>1, FailsOK DEF QuitGoes, Ends, QuitIsLost, QuitTimesOut, NodesType
<1>6. NodesType'
  BY <1>1, <1>2, <1>4, <1>5 DEF Becomes, NodesType
<1>7. SentTo(s, n) \in SUBSET Calls /\ \A c \in SentTo(s, n) : call[c].stage = "sent"
  BY DEF SentTo
<1>8. CallsOK'
  <2>1. CASE Ends(s, n)
    BY <1>1, <2>1 DEF Ends, CallsOK
  <2>2. CASE QuitIsLost(s, n)
    <3>1. call' = Strand(SentTo(s, n))
      BY <2>2 DEF QuitIsLost, Strand
    <3> QED BY <1>1, <1>7, <3>1, TogetherOK
  <2>3. CASE QuitTimesOut(s, n)
    <3>1. call' = Fail(SentTo(s, n))
      BY <2>3 DEF QuitTimesOut, Fail
    <3> QED BY <1>1, <1>7, <3>1, TogetherOK
  <2> QED BY <2>1, <2>2, <2>3 DEF QuitGoes
<1> QED BY <1>6, <1>8 DEF QuitGoes, Ends, QuitIsLost, QuitTimesOut

---------------------------------------------------------------------------
(* The invariant.                                                          *)

LEMMA ClusterInitInv == Init => ClusterInv
<1> SUFFICES ASSUME Init PROVE ClusterInv
  OBVIOUS
<1>1. NodesType
  <2>1. cons \in [Servers -> Seq(ConStates)]
    <3>1. <<"open">> \in Seq(ConStates) /\ << >> \in Seq(ConStates)
      BY DEF ConStates
    <3>2. cons = [s \in Servers |-> IF s \in Nodes THEN <<"open">> ELSE << >>]
      BY DEF Init
    <3> QED BY <3>1, <3>2
  <2> QED BY <2>1, BoundsAssumption DEF Init, NodesType
<1>2. PICK first \in Nodes :
        call = [c \in Calls |-> IF c = FirstUpdate /\ MaxRetries > 0 THEN Sending(first)
                                 ELSE NotSending("idle", "none")]
  BY DEF Init
<1>3. CallsOK
  <2>1. first \in Servers
    BY NodesAssumption
  <2>2. Sending(first) \in CallType /\ Budget(Sending(first))
    BY <2>1, SendingOK
  <2>3. NotSending("idle", "none") \in CallType /\ Budget(NotSending("idle", "none"))
    BY NotSendingOK DEF Results
  <2> QED BY <1>2, <2>2, <2>3 DEF CallsOK
<1>4. MapOK
  <2>1. connections \in [Servers -> Entries]
    BY DEF Init, NoConnection, Entries
  <2>2. \A s \in Servers : connections[s].errors = 0
    BY DEF Init, NoConnection
  <2> QED BY <2>1, <2>2, LimitsAssumption DEF MapOK
<1>5. SlotsOK
  BY LimitsAssumption DEF Init, SlotsOK
<1>6. UpdatesOK
  <2> DEFINE constructing == [NoUpdate(IF MaxRetries > 0 THEN "info" ELSE "done") EXCEPT !.retry = MaxRetries]
  <2>1. /\ NoUpdate("idle") \in UpdateType
        /\ \A s \in Servers : NoUpdate("idle").connections[s].errors <= MaxConnectionMisses
    BY NoUpdateOK
  <2>2. constructing \in UpdateType /\ \A s \in Servers : constructing.connections[s].errors <= MaxConnectionMisses
    <3>1. ASSUME NEW stage \in {"info", "done"}
          PROVE  /\ [NoUpdate(stage) EXCEPT !.retry = MaxRetries] \in UpdateType
                 /\ [NoUpdate(stage) EXCEPT !.retry = MaxRetries].connections = NoUpdate(stage).connections
      BY NoUpdateOK, LimitsAssumption, SMTT(30) DEF UpdateType
    <3> QED BY <3>1, NoUpdateOK
  <2>3. update = [u \in Updates |-> IF u # FirstUpdate THEN NoUpdate("idle") ELSE constructing]
    BY DEF Init
  <2> HIDE DEF constructing
  <2> QED BY <2>1, <2>2, <2>3 DEF UpdatesOK, UpdateEntriesOK
<1>7. QuitOK
  BY DEF Init, QuitOK, QuitType
<1> QED BY <1>1, <1>3, <1>4, <1>5, <1>6, <1>7 DEF ClusterInv

LEMMA CallStepInv == ASSUME ClusterInv, NEW c \in Calls, CallStep(c) PROVE ClusterInv'
<1>1. CASE Attempt(c)
  BY <1>1, AttemptOK DEF Attempt, ClusterInv, SlotsOK, UpdatesOK, UpdateEntriesOK, QuitOK
<1>2. CASE CountError(c)
  BY <1>2, CountErrorOK DEF CountError, ClusterInv, SlotsOK, UpdatesOK, UpdateEntriesOK, QuitOK
<1>3. CASE Moved(c)
  BY <1>3, MovedOK DEF Moved, nodeVars, ClusterInv, NodesType, MapOK, QuitOK
<1>4. CASE \/ GiveUp(c) \/ CannotAttempt(c) \/ Post(c) \/ Ask(c) \/ TryAgain(c)
           \/ ClusterDown(c) \/ NextServer(c)
  <2>1. CallsOK'
    BY <1>4, GiveUpOK, CannotAttemptOK, PostOK, TryAgainOK, ClusterDownOK, NextServerOK
  <2>2. UNCHANGED <<nodeVars, clusterVars, update, quit>>
    BY <1>4 DEF GiveUp, CannotAttempt, Post, Ask, TryAgain, ClusterDown, NextServer
  <2> QED BY <2>1, <2>2 DEF nodeVars, clusterVars, ClusterInv, NodesType, MapOK, SlotsOK,
                           UpdatesOK, UpdateEntriesOK, QuitOK
<1>5. CASE CannotRecover(c)
  BY <1>5, CannotRecoverOK DEF CannotRecover, clusterVars, ClusterInv, MapOK, SlotsOK, UpdatesOK,
                               UpdateEntriesOK, QuitOK
<1> QED BY <1>1, <1>2, <1>3, <1>4, <1>5 DEF CallStep

LEMMA UpdateStepInv == ASSUME ClusterInv, NEW u \in Updates, UpdateStep(u) PROVE ClusterInv'
<1>1. CASE UpdateFails(u)
  <2>1. UpdatesOK'
    BY <1>1, UpdateEndsOK DEF UpdateFails, ClusterInv
  <2> QED BY <1>1, <2>1 DEF UpdateFails, nodeVars, clusterVars, ClusterInv, NodesType, CallsOK,
                            MapOK, SlotsOK, QuitOK
<1>2. CASE ClusterNotOk(u) \/ UpdateAgain(u) \/ ClusterOk(u)
  <2>1. UNCHANGED <<nodeVars, clusterVars, quit>>
    BY <1>2 DEF ClusterNotOk, UpdateAgain, ClusterOk
  <2>2. CallsOK'
    <3>1. UNCHANGED call \/ \E s \in Connected(connections) : call' = [call EXCEPT ![u] = Sending(s)]
      BY <1>2 DEF ClusterNotOk, UpdateAgain, ClusterOk
    <3> QED BY <3>1, UpdateAsksOK DEF ClusterInv, CallsOK
  <2>3. UpdatesOK'
    <3>1. CASE update' = [update EXCEPT ![u] = NoUpdate("done")]
      BY <3>1, UpdateEndsOK DEF ClusterInv
    <3>2. CASE update' # [update EXCEPT ![u] = NoUpdate("done")]
      BY <1>2, <3>2, UpdateGoesOnOK DEF ClusterNotOk, UpdateAgain, ClusterOk, ClusterInv
    <3> QED BY <3>1, <3>2
  <2> QED BY <2>1, <2>2, <2>3 DEF nodeVars, clusterVars, ClusterInv, NodesType, MapOK, SlotsOK, QuitOK
<1>3. CASE ReadConnections(u)
  BY <1>3, ReadConnectionsOK DEF ReadConnections, clusterVars, ClusterInv, CallsOK, MapOK, SlotsOK, QuitOK
<1>4. CASE WriteCache(u)
  BY <1>4, WriteCacheOK DEF WriteCache, nodeVars, ClusterInv, NodesType, CallsOK, QuitOK
<1> QED BY <1>1, <1>2, <1>3, <1>4 DEF UpdateStep

LEMMA NodeStepInv == ASSUME ClusterInv, NodeStep PROVE ClusterInv'
<1>1. ASSUME NEW c \in Calls, Reply(c) \/ ReplyError(c) \/ Lose(c) PROVE ClusterInv'
  <2>1. CallsOK'
    BY <1>1, RepliesOK
  <2>2. NodesType'
    <3>1. faults' \in 0..MaxFaults
      BY <1>1, FailsOK, BoundsAssumption DEF Reply, ReplyError, Lose, Faulty, ClusterInv, NodesType
    <3> QED BY <1>1, <3>1 DEF Reply, ReplyError, Lose, ClusterInv, NodesType
  <2>3. UpdatesOK'
    BY <1>1, ReplyUpdatesOK DEF ReplyError, Lose, ClusterInv, UpdatesOK, UpdateEntriesOK
  <2>4. UNCHANGED <<clusterVars, quit>>
    BY <1>1 DEF Reply, ReplyError, Lose
  <2> QED BY <2>1, <2>2, <2>3, <2>4 DEF clusterVars, ClusterInv, MapOK, SlotsOK, QuitOK
<1>2. CASE Environment
  <2>1. UNCHANGED <<clusterVars, call, update, quit>>
    BY <1>2 DEF Environment
  <2> QED BY <1>2, <2>1, NodesOK DEF clusterVars, ClusterInv, CallsOK, MapOK, SlotsOK,
                                     UpdatesOK, UpdateEntriesOK, QuitOK
<1>3. ASSUME NEW s \in Servers, NEW n \in 1..Len(cons[s]), QuitGoes(s, n) PROVE ClusterInv'
  BY <1>3, QuitGoesOK DEF clusterVars, ClusterInv, MapOK, SlotsOK, UpdatesOK, UpdateEntriesOK, QuitOK
<1> QED BY <1>1, <1>2, <1>3 DEF NodeStep, QuitGoes

LEMMA ClusterStepInv == ClusterInv /\ [Next]_vars => ClusterInv'
<1> SUFFICES ASSUME ClusterInv, [Next]_vars PROVE ClusterInv'
  OBVIOUS
<1>1. ASSUME NEW r \in Requests, SendRequest(r) \/ Choose(r) PROVE ClusterInv'
  <2>1. CallsOK'
    BY <1>1, SendRequestOK, ChooseOK
  <2> QED BY <1>1, <2>1 DEF SendRequest, Choose, nodeVars, clusterVars, ClusterInv, NodesType, MapOK,
                            SlotsOK, UpdatesOK, UpdateEntriesOK, QuitOK
<1>2. CASE Quit \/ QuitStep
  BY <1>2, QuitStepsOK, QuitCallsOK DEF ClusterInv, SlotsOK, UpdatesOK, UpdateEntriesOK
<1>3. CASE UNCHANGED vars
  BY <1>3 DEF vars, nodeVars, clusterVars, ClusterInv, NodesType, CallsOK, MapOK, SlotsOK,
              UpdatesOK, UpdateEntriesOK, QuitOK
<1> QED BY <1>1, <1>2, <1>3, CallStepInv, UpdateStepInv, NodeStepInv DEF Next

(* The state of ClusterConnection is well formed: no server collects more  *)
(* errors, and the cache no more misses, than the limits allow.            *)
THEOREM ClusterTypeCorrect == Spec => []TypeOK
<1>1. ClusterInv => TypeOK
  BY DEF ClusterInv, TypeOK, CallsOK, MapOK, SlotsOK, UpdatesOK, QuitOK
<1> QED BY ClusterInitInv, ClusterStepInv, <1>1, PTL DEF Spec

(* ClusterConnection.send makes only so many attempts, however MOVED, ASK, *)
(* TRYAGAIN, CLUSTERDOWN and lost connections follow one another.          *)
THEOREM ClusterAttemptsBounded == Spec => []AttemptsAreBounded
<1>1. ClusterInv => AttemptsAreBounded
  <2> SUFFICES ASSUME ClusterInv, NEW c \in Calls
               PROVE  call[c].attempts <= MaxRetries + ConnectTimeout + Cardinality(Servers) - 2
    BY DEF AttemptsAreBounded
  <2> DEFINE r == call[c]
  <2>1. r \in CallType /\ Budget(r)
    BY DEF ClusterInv, CallsOK
  <2>2. PICK server \in Nodes : server \in Servers
    BY NodesAssumption
  <2>3. Cardinality(Servers) \in Nat /\ Cardinality(Servers) >= 1
    <3>1. Cardinality(Servers) \in Nat
      BY ServersAreFinite, FS_CardinalityType
    <3>2. {server} \in SUBSET Servers /\ Cardinality({server}) = 1
      BY <2>2, FS_Singleton
    <3> QED BY <3>1, <3>2, ServersAreFinite, FS_Subset
  <2>4. CASE r.stage \in {"idle", "choosing", "done"}
    BY <2>1, <2>3, <2>4, LimitsAssumption DEF Budget
  <2>5. CASE r.stage \notin {"idle", "choosing", "done"}
    <3>1. Reached(r) \in SUBSET Servers
      BY <2>1, <2>5 DEF Budget, Reached, CallType
    <3>2. Cardinality(Reached(r)) \in Nat /\ Cardinality(Reached(r)) <= Cardinality(Servers)
      BY <2>2, <3>1, ReachedCardinality
    <3>3. /\ r.attempts \in Nat /\ r.retry \in 0..MaxRetries /\ r.downs \in Nat
          /\ r.downs < ConnectTimeout /\ (r.stage \notin {"start", "waiting"} => r.retry > 0)
          /\ r.attempts <= Spent(r) - (IF r.stage \in {"start", "waiting"} THEN 1 ELSE 0)
      BY <2>1, <2>5 DEF Budget, CallType
    <3> HIDE DEF r
    <3>4. r.attempts <= MaxRetries + ConnectTimeout + Cardinality(Servers) - 2
      BY <2>3, <3>2, <3>3, LimitsAssumption DEF Spent
    <3> QED BY <3>4 DEF r
  <2> QED BY <2>4, <2>5
<1> QED BY ClusterInitInv, ClusterStepInv, <1>1, PTL DEF Spec

---------------------------------------------------------------------------
(* There is always a connection.                                           *)

(* A request is only thrown back when there is no connection; what an      *)
(* update is about to assign has connections, too.                         *)
NoneThrown == \A c \in Calls : call[c].answer.type # "thrown"
Usable ==
    /\ quit.stage = "no" => Connected(connections) # {} /\ NoneThrown
    /\ \A u \in Updates : update[u].stage = "write" => Connected(update[u].connections) # {}

LEMMA QuitIsForGood ==
    ASSUME ClusterInv, Quit \/ QuitStep, quit'.stage = "no"
    PROVE  quit.stage = "no" /\ UNCHANGED <<connections, call>>
<1>1. quit \in QuitType
  BY DEF ClusterInv, QuitOK
<1>2. ~Quit
  BY <1>1 DEF Quit, QuitType
<1>3. ASSUME NEW s \in Servers, NEW n \in 1..Len(cons[s]), QuitCloses(s, n) PROVE FALSE
  <2>1. quit.stage = "closing" /\ quit'.stage = quit.stage
    BY <1>1, <1>3 DEF QuitCloses, QuitType
  <2> QED BY <2>1
<1>4. ~QuitEnds
  BY <1>1 DEF QuitEnds, QuitType
<1>5. QuitAwaits
  BY <1>2, <1>3, <1>4 DEF QuitStep
<1> QED BY <1>1, <1>5 DEF QuitAwaits, QuitType, clusterVars

LEMMA SomeServer == Servers # {} /\ Nodes # {} /\ Nodes \subseteq Servers
BY NodesAssumption

LEMMA CountErrorKeepsConnections ==
    ASSUME ClusterInv, NEW c \in Calls, CountError(c), Connected(connections) # {}
    PROVE  Connected(connections') # {}
<1> DEFINE s == call[c].server
           removed == [connections EXCEPT ![s] = NoConnection]
<1>1. connections \in [Servers -> Entries] /\ s \in Servers
  BY FollowedUp DEF CountError, ClusterInv, MapOK
<1>2. CASE UNCHANGED connections
  BY <1>2
<1>3. CASE connections' = [connections EXCEPT ![s].errors = @ + 1]
  <2>1. connections'[s].errors = connections[s].errors + 1 /\ connections[s].errors \in Nat
    BY <1>1, <1>3 DEF Entries
  <2>2. connections'[s] # NoConnection
    BY <2>1 DEF NoConnection
  <2> QED BY <1>1, <2>2 DEF Connected
<1>4. CASE connections' = With(removed, Recovery(removed))
  <2>1. removed \in [Servers -> Entries]
    BY <1>1 DEF Entries, NoConnection
  <2>2. \A t \in Servers : removed[t].errors <= MaxConnectionMisses
    <3>1. NoConnection.errors <= MaxConnectionMisses
      BY LimitsAssumption DEF NoConnection
    <3>2. ASSUME NEW t \in Servers PROVE removed[t] = NoConnection \/ removed[t] = connections[t]
      BY <1>1
    <3> HIDE DEF removed
    <3> QED BY <3>1, <3>2 DEF ClusterInv, MapOK
  <2>3. Recovery(removed) \in SUBSET Servers /\ (Connected(removed) = {} => Recovery(removed) # {})
    BY SomeServer DEF Recovery
  <2> HIDE DEF removed
  <2>4. Connected(connections') = Connected(removed) \cup Recovery(removed)
    BY <1>4, <2>1, <2>2, <2>3, WithOK DEF ClusterInv
  <2> QED BY <2>3, <2>4
<1> QED BY <1>2, <1>3, <1>4 DEF CountError

LEMMA ConnectedKept ==
    ASSUME ClusterInv, Usable, Next, quit'.stage = "no"
    PROVE  quit.stage = "no" /\ Connected(connections') # {}
<1>1. CASE Quit \/ QuitStep
  BY <1>1, QuitIsForGood DEF Usable
<1>2. ASSUME NEW c \in Calls, Attempt(c) PROVE quit.stage = "no" /\ Connected(connections') # {}
  <2>1. quit.stage = "no" /\ Connected(connections) # {}
    BY <1>2 DEF Attempt, Usable
  <2>2. call[c].server \in Servers
    BY <1>2 DEF Attempt, Beginning, ClusterInv, CallsOK, Budget
  <2>3. Missing(call[c].server) \in SUBSET Servers
    BY <2>2 DEF Missing
  <2>4. Connected(connections') = Connected(connections) \cup Missing(call[c].server)
    BY <1>2, <2>3, WithOK DEF Attempt, ClusterInv, MapOK
  <2> QED BY <2>1, <2>4
<1>3. ASSUME NEW c \in Calls, CountError(c) PROVE quit.stage = "no" /\ Connected(connections') # {}
  BY <1>3, CountErrorKeepsConnections DEF CountError, Usable
<1>4. ASSUME NEW u \in Updates, WriteCache(u) PROVE quit.stage = "no" /\ Connected(connections') # {}
  BY <1>4 DEF WriteCache, Usable
<1>5. CASE UNCHANGED <<connections, quit>>
  BY <1>5 DEF Usable
<1>6. ASSUME NEW c \in Calls, CallStep(c), ~Attempt(c), ~CountError(c) PROVE UNCHANGED <<connections, quit>>
  BY <1>6 DEF CallStep, GiveUp, CannotAttempt, Post, Moved, Ask, TryAgain, ClusterDown,
              CannotRecover, NextServer, clusterVars
<1>7. ASSUME NEW u \in Updates, UpdateStep(u), ~WriteCache(u) PROVE UNCHANGED <<connections, quit>>
  BY <1>7 DEF UpdateStep, UpdateFails, ClusterNotOk, UpdateAgain, ClusterOk, ReadConnections, clusterVars
<1>8. ASSUME NodeStep \/ \E r \in Requests : SendRequest(r) \/ Choose(r)
      PROVE  UNCHANGED <<connections, quit>>
  BY <1>8 DEF NodeStep, Reply, ReplyError, Lose, Ends, QuitIsLost, QuitTimesOut, Environment,
              SendRequest, Choose, clusterVars
<1> QED BY <1>1, <1>2, <1>3, <1>4, <1>5, <1>6, <1>7, <1>8 DEF Next

LEMMA UpdatesKeepConnections ==
    ASSUME ClusterInv, Usable, [Next]_vars, NEW v \in Updates, update'[v].stage = "write"
    PROVE  Connected(update'[v].connections) # {}
<1>1. UpdatesOK /\ update[v] \in UpdateType
  BY DEF ClusterInv, UpdatesOK
<1>2. CASE update'[v].connections = update[v].connections /\ update[v].stage = "write"
  BY <1>2 DEF Usable
<1>3. CASE ReadConnections(v)
  <2>1. update'[v].connections = With(connections, Servers \ Connected(connections))
    BY <1>3, ReadConnectionsOK
  <2>2. Servers \ Connected(connections) \in SUBSET Servers
    OBVIOUS
  <2>3. Connected(update'[v].connections) = Connected(connections) \cup (Servers \ Connected(connections))
    BY <2>1, <2>2, WithOK DEF ClusterInv, MapOK
  <2> QED BY <2>3, SomeServer
<1>4. ASSUME NEW u \in Updates, UpdateStep(u), ~(u = v /\ ReadConnections(u))
      PROVE  update'[v].connections = update[v].connections /\ update[v].stage = "write"
  <2>1. CASE u # v
    BY <1>1, <1>4, <2>1 DEF UpdateStep, UpdateFails, ClusterNotOk, UpdateAgain, ClusterOk,
                            ReadConnections, WriteCache, UpdatesOK
  <2>2. CASE u = v /\ (UpdateFails(u) \/ WriteCache(u))
    <3>1. update'[v].stage = "done"
      BY <1>1, <2>2 DEF UpdateFails, WriteCache, NoUpdate, UpdatesOK
    <3> QED BY <3>1
  <2>3. CASE u = v /\ ClusterNotOk(u)
    <3>1. update'[v].stage = "waiting"
      BY <1>1, <2>3 DEF ClusterNotOk, UpdatesOK, UpdateType
    <3> QED BY <3>1
  <2>4. CASE u = v /\ ClusterOk(u)
    <3>1. update'[v].stage = "slots"
      BY <1>1, <2>4 DEF ClusterOk, UpdatesOK, UpdateType
    <3> QED BY <3>1
  <2>5. CASE u = v /\ UpdateAgain(u)
    <3>1. update'[v].stage \in {"info", "done"}
      BY <1>1, <2>5 DEF UpdateAgain, NoUpdate, UpdatesOK, UpdateType
    <3> QED BY <3>1
  <2> QED BY <1>4, <2>1, <2>2, <2>3, <2>4, <2>5 DEF UpdateStep
<1>5. ASSUME NEW c \in Calls, Moved(c)
      PROVE  update'[v].connections = update[v].connections /\ update[v].stage = "write"
  <2>1. CASE UNCHANGED update
    BY <2>1
  <2>2. ASSUME NEW u \in Idle, update' = [update EXCEPT ![u].stage = "info", ![u].retry = MaxRetries]
        PROVE  u # v /\ update'[v] = update[v]
    BY <1>1, <2>2 DEF Idle, UpdatesOK, UpdateType
  <2> QED BY <1>5, <2>1, <2>2 DEF Moved
<1>6. ASSUME NEW c \in Calls, Reply(c)
      PROVE  update'[v].connections = update[v].connections /\ update[v].stage = "write"
  BY <1>1, <1>6 DEF Reply, UpdatesOK, UpdateType
<1>7. CASE UNCHANGED update
  BY <1>2, <1>7
<1>8. ASSUME NEW c \in Calls, CallStep(c), ~Moved(c) PROVE UNCHANGED update
  BY <1>8 DEF CallStep, Attempt, GiveUp, CannotAttempt, Post, Ask, TryAgain, ClusterDown,
              CountError, CannotRecover, NextServer
<1>9. ASSUME NodeStep, ~(\E c \in Calls : Reply(c)) PROVE UNCHANGED update
  BY <1>9 DEF NodeStep, ReplyError, Lose, Ends, QuitIsLost, QuitTimesOut, Environment
<1>10. ASSUME Quit \/ QuitStep \/ \E r \in Requests : SendRequest(r) \/ Choose(r)
       PROVE  UNCHANGED update
  BY <1>10 DEF Quit, QuitStep, QuitCloses, QuitAwaits, QuitEnds, SendRequest, Choose
<1>11. CASE UNCHANGED vars
  BY <1>7, <1>11 DEF vars
<1> QED BY <1>2, <1>3, <1>4, <1>5, <1>6, <1>7, <1>8, <1>9, <1>10, <1>11 DEF Next

(* A step that sends a call on, or ends it otherwise, throws nothing.      *)
LEMMA NotThrown ==
    /\ \A s \in Servers : Sending(s).answer.type # "thrown"
    /\ \A result \in Results \ {"thrown"} : Ended(result).answer.type # "thrown"
<1>1. ASSUME NEW s \in Servers PROVE Sending(s).answer.type # "thrown"
  <2>1. Sending(s).answer.type = "none"
    BY DEF Sending, Answer
  <2> QED BY <2>1
<1>2. ASSUME NEW result \in Results \ {"thrown"} PROVE Ended(result).answer.type # "thrown"
  <2>1. Ended(result).answer = [type |-> result, to |-> NoServer]
    BY DEF Ended, NotSending, Sending, Answer
  <2>2. Ended(result).answer.type = result
    BY <2>1
  <2> QED BY <2>2
<1> QED BY <1>1, <1>2

LEMMA CallThrowsNothing ==
    ASSUME CallsOK, NoneThrown, NEW c \in Calls, NEW r, r.answer.type # "thrown",
           call' = [call EXCEPT ![c] = r]
    PROVE  NoneThrown'
BY DEF CallsOK, NoneThrown

LEMMA AgainThrowsNothing ==
    ASSUME CallsOK, NEW c \in Calls, NEW s, NEW retry, NEW left
    PROVE  Again(c, s, retry, left).answer.type # "thrown"
<1>1. call[c] \in CallType
  BY DEF CallsOK
<1>2. Again(c, s, retry, left).answer = Answer("none", NoServer)
  BY <1>1 DEF Again, CallType
<1> QED BY <1>2 DEF Answer

LEMMA AnsweredThrowsNothing ==
    ASSUME CallsOK, NoneThrown, NEW c \in Calls, NEW a, a.type # "thrown", Answered(c, a)
    PROVE  NoneThrown'
<1>1. call[c] \in CallType
  BY DEF CallsOK
<1>2. CASE a.type \in {"ok", "notOk"}
  <2>1. call' = [call EXCEPT ![c] = Ended(a.type)]
    BY <1>2 DEF Answered
  <2>2. Ended(a.type).answer.type # "thrown"
    BY <1>2, NotThrown DEF Results
  <2> QED BY <2>1, <2>2, CallThrowsNothing
<1>3. CASE a.type \notin {"ok", "notOk"}
  <2> DEFINE r == [call[c] EXCEPT !.stage = "answered", !.answer = a]
  <2>1. call' = [call EXCEPT ![c] = r] /\ r.answer.type # "thrown"
    BY <1>1, <1>3 DEF Answered, CallType
  <2> HIDE DEF r
  <2> QED BY <2>1, CallThrowsNothing
<1> QED BY <1>2, <1>3

LEMMA AnswersThrowNothing ==
    ASSUME NEW c \in Calls, NEW a \in AnswersTo(c) \cup ErrorsTo(c) \cup {Answer("io", NoServer)}
    PROVE  a.type # "thrown"
BY DEF AnswersTo, ErrorsTo, AnswersToKey, ErrorsToKey, Answer

(* The one call that throws finds no connection.                           *)
LEMMA SendRequestThrowsNothing ==
    ASSUME ClusterInv, NoneThrown, Connected(connections) # {}, NEW r \in Requests, SendRequest(r)
    PROVE  NoneThrown'
<1>1. r \in Calls /\ CallsOK
  BY DEF Calls, ClusterInv
<1>2. FirstServers(r) \subseteq Servers
  BY KindAssumption DEF FirstServers, AboutSlot, Connected, ClusterInv, SlotsOK
<1>3. ASSUME NEW s \in FirstServers(r), call' = [call EXCEPT ![r] = Sending(s)] PROVE NoneThrown'
  BY <1>1, <1>2, <1>3, NotThrown, CallThrowsNothing
<1>4. CASE FirstServers(r) = {} /\ call' = [call EXCEPT ![r] =
             CASE Kind[r] = "key" -> NotSending("choosing", "none")
               [] Kind[r] = "any" -> Ended("thrown")
               [] OTHER -> Ended("failed")]
  <2>1. Kind[r] # "any"
    BY <1>4 DEF FirstServers, AboutSlot
  <2>2. NotSending("choosing", "none").answer.type = "none"
    <3>1. NotSending("choosing", "none").answer = Answer("none", NoServer)
      BY DEF NotSending, Sending
    <3> QED BY <3>1 DEF Answer
  <2>3. Ended("failed").answer.type # "thrown"
    BY NotThrown DEF Results
  <2>4. \/ call' = [call EXCEPT ![r] = NotSending("choosing", "none")]
        \/ call' = [call EXCEPT ![r] = Ended("failed")]
    BY <1>4, <2>1
  <2> QED BY <1>1, <2>2, <2>3, <2>4, CallThrowsNothing
<1> QED BY <1>3, <1>4 DEF SendRequest

LEMMA ChooseThrowsNothing ==
    ASSUME ClusterInv, NoneThrown, Connected(connections) # {}, NEW r \in Requests, Choose(r)
    PROVE  NoneThrown'
<1>1. r \in Calls /\ CallsOK
  BY DEF Calls, ClusterInv
<1>2. PICK s \in Connected(connections) : call' = [call EXCEPT ![r] = Sending(s)]
  BY DEF Choose
<1>3. s \in Servers
  BY DEF Connected
<1> QED BY <1>1, <1>2, <1>3, NotThrown, CallThrowsNothing

LEMMA MovedThrowsNothing ==
    ASSUME ClusterInv, NoneThrown, NEW c \in Calls, Moved(c) PROVE NoneThrown'
<1>1. CallsOK
  BY DEF ClusterInv
<1>2. Redirected(c).answer.type # "thrown"
  BY <1>1, AgainThrowsNothing DEF Redirected
<1>3. Ended("failed").answer.type # "thrown"
  BY NotThrown DEF Results
<1>4. CASE call' = [call EXCEPT ![c] = Redirected(c)] \/ call' = [call EXCEPT ![c] = Ended("failed")]
  BY <1>1, <1>2, <1>3, <1>4, CallThrowsNothing
<1>5. ASSUME NEW u \in Idle, NEW s \in Connected(connections),
             call' = [call EXCEPT ![c] = Redirected(c), ![u] = Sending(s)]
      PROVE  NoneThrown'
  <2>1. u \in Calls /\ s \in Servers
    BY DEF Idle, Calls, Connected
  <2>2. Sending(s).answer.type # "thrown"
    BY <2>1, NotThrown
  <2>3. ASSUME NEW d \in Calls PROVE call'[d].answer.type # "thrown"
    BY <1>1, <1>2, <1>5, <2>1, <2>2 DEF CallsOK, NoneThrown
  <2> QED BY <2>3 DEF NoneThrown
<1> QED BY <1>4, <1>5 DEF Moved

LEMMA CallStepThrowsNothing ==
    ASSUME ClusterInv, NoneThrown, quit.stage = "no", NEW c \in Calls, CallStep(c)
    PROVE  NoneThrown'
<1>1. CallsOK /\ call[c] \in CallType /\ call[c].answer.type # "thrown"
  BY DEF ClusterInv, CallsOK, NoneThrown
<1>2. Ended("failed").answer.type # "thrown" /\ ~Terminated
  BY NotThrown DEF Results, Terminated
<1>3. CASE Attempt(c)
  <2> DEFINE r == [call[c] EXCEPT !.stage = "picked", !.con = connections'[call[c].server].con,
                                  !.attempts = @ + 1]
  <2>1. call' = [call EXCEPT ![c] = r] /\ r.answer.type # "thrown"
    BY <1>1, <1>3 DEF Attempt, CallType
  <2> HIDE DEF r
  <2> QED BY <1>1, <2>1, CallThrowsNothing
<1>4. CASE Post(c)
  <2>1. CASE call' = [call EXCEPT ![c].stage = "sent"]
    <3> DEFINE r == [call[c] EXCEPT !.stage = "sent"]
    <3>1. call' = [call EXCEPT ![c] = r] /\ r.answer.type # "thrown"
      BY <1>1, <2>1 DEF CallType
    <3> HIDE DEF r
    <3> QED BY <1>1, <3>1, CallThrowsNothing
  <2>2. CASE call' = [call EXCEPT ![c].stage = "answered", ![c].answer = Answer("io", NoServer)]
    <3>1. Answered(c, Answer("io", NoServer))
      BY <2>2 DEF Answered, Answer
    <3> QED BY <1>1, <3>1, AnswersThrowNothing, AnsweredThrowsNothing
  <2> QED BY <1>2, <1>4, <2>1, <2>2 DEF Post, Delivered
<1>5. CASE GiveUp(c)
  BY <1>1, <1>2, <1>5, CallThrowsNothing DEF GiveUp
<1>6. CASE Moved(c)
  BY <1>6, MovedThrowsNothing
<1>7. CASE Ask(c)
  <2>1. Redirected(c).answer.type # "thrown"
    BY <1>1, AgainThrowsNothing DEF Redirected
  <2> QED BY <1>1, <1>7, <2>1, CallThrowsNothing DEF Ask
<1>11. CASE TryAgain(c)
  <2> DEFINE a == Again(c, call[c].server, call[c].retry - 1, call[c].left - TryAgainWait)
             r == [a EXCEPT !.stage = "waiting"]
  <2>1. r.answer = a.answer
    BY <1>1 DEF Again, CallType
  <2>2. a.answer.type # "thrown"
    BY <1>1, AgainThrowsNothing
  <2>3. call' = [call EXCEPT ![c] = r]
    BY <1>2, <1>11 DEF TryAgain, Delayed
  <2> HIDE DEF r, a
  <2> QED BY <1>1, <2>1, <2>2, <2>3, CallThrowsNothing
<1>8. CASE ClusterDown(c)
  <2> DEFINE left == call[c].left - ClusterDownWait
             a == Again(c, call[c].server, call[c].retry, left)
             b == [a EXCEPT !.tried = call[c].tried, !.downs = @ + 1]
             r == [b EXCEPT !.stage = "waiting"]
  <2>1. r.answer = a.answer
    BY <1>1 DEF Again, CallType
  <2>2. a.answer.type # "thrown"
    BY <1>1, AgainThrowsNothing
  <2>3. call' = [call EXCEPT ![c] = Ended("failed")] \/ call' = [call EXCEPT ![c] = r]
    BY <1>2, <1>8 DEF ClusterDown, Delayed
  <2> HIDE DEF r, a
  <2> QED BY <1>1, <1>2, <2>1, <2>2, <2>3, CallThrowsNothing
<1>9. CASE CountError(c)
  <2> DEFINE r == [call[c] EXCEPT !.stage = "failing", !.con = 0]
  <2>1. call' = [call EXCEPT ![c] = r] /\ r.answer.type # "thrown"
    BY <1>1, <1>9 DEF CountError, CallType
  <2> HIDE DEF r
  <2> QED BY <1>1, <2>1, CallThrowsNothing
<1>10. CASE NextServer(c)
  BY <1>1, <1>2, <1>10, AgainThrowsNothing, CallThrowsNothing DEF NextServer
<1> QED BY <1>2, <1>3, <1>4, <1>5, <1>6, <1>7, <1>8, <1>9, <1>10, <1>11
        DEF CallStep, CannotAttempt, CannotRecover

LEMMA TogetherThrowsNothing ==
    ASSUME CallsOK, NoneThrown, NEW S \in SUBSET Calls, call' = Strand(S) \/ call' = Fail(S)
    PROVE  NoneThrown'
<1>1. ASSUME NEW c \in Calls PROVE call[c] \in CallType /\ call[c].answer.type # "thrown"
  BY DEF CallsOK, NoneThrown
<1>2. ASSUME NEW c \in Calls PROVE call'[c].answer \in {call[c].answer, Answer("io", NoServer)}
  BY <1>1 DEF Strand, Fail, CallType
<1> QED BY <1>1, <1>2 DEF NoneThrown, Answer

LEMMA ThrowsNothing ==
    ASSUME ClusterInv, NoneThrown, quit.stage = "no", Connected(connections) # {}, Next
    PROVE  NoneThrown'
<1>1. CallsOK
  BY DEF ClusterInv
<1>2. ASSUME NEW c \in Calls, Reply(c) \/ ReplyError(c) \/ Lose(c) PROVE NoneThrown'
  <2>1. PICK a \in AnswersTo(c) \cup ErrorsTo(c) \cup {Answer("io", NoServer)} : Answered(c, a)
    BY <1>2 DEF Reply, ReplyError, Lose
  <2> QED BY <1>1, <2>1, AnswersThrowNothing, AnsweredThrowsNothing
<1>3. ASSUME NEW u \in Updates, UpdateAgain(u) \/ ClusterOk(u) PROVE NoneThrown'
  <2>1. PICK s \in Connected(connections) : call' = [call EXCEPT ![u] = Sending(s)]
    BY <1>3 DEF UpdateAgain, ClusterOk
  <2>2. u \in Calls /\ s \in Servers
    BY DEF Calls, Connected
  <2> QED BY <1>1, <2>1, <2>2, NotThrown, CallThrowsNothing
<1>4. CASE UNCHANGED call
  BY <1>4 DEF NoneThrown
<1>5. ASSUME NEW u \in Updates, UpdateStep(u), ~UpdateAgain(u), ~ClusterOk(u) PROVE UNCHANGED call
  BY <1>5 DEF UpdateStep, UpdateFails, ClusterNotOk, ReadConnections, WriteCache
<1>6. ASSUME Quit \/ QuitStep \/ Environment PROVE UNCHANGED call
  BY <1>6 DEF Quit, QuitStep, QuitCloses, QuitAwaits, QuitEnds, Environment
<1>7. ASSUME NEW s \in Servers, NEW n \in 1..Len(cons[s]), QuitGoes(s, n) PROVE NoneThrown'
  <2>1. UNCHANGED call \/ call' = Strand(SentTo(s, n)) \/ call' = Fail(SentTo(s, n))
    BY <1>7 DEF QuitGoes, Ends, QuitIsLost, QuitTimesOut, Strand, Fail
  <2>2. SentTo(s, n) \in SUBSET Calls
    BY DEF SentTo
  <2> QED BY <1>1, <1>4, <2>1, <2>2, TogetherThrowsNothing
<1> QED BY <1>2, <1>3, <1>4, <1>5, <1>6, <1>7, SendRequestThrowsNothing, ChooseThrowsNothing,
           CallStepThrowsNothing DEF Next, NodeStep, QuitGoes

LEMMA UsableInit == Init => Usable
<1> SUFFICES ASSUME Init PROVE Usable
  OBVIOUS
<1>1. Connected(connections) # {}
  <2>1. PICK s \in Nodes : s \in Servers
    BY SomeServer
  <2>2. connections[s] = [con |-> 1, errors |-> 0]
    BY <2>1 DEF Init
  <2>3. connections[s] # NoConnection
    BY <2>2 DEF NoConnection
  <2> QED BY <2>1, <2>3 DEF Connected
<1>2. NoneThrown
  <2>1. PICK server \in Nodes :
          call = [c \in Calls |-> IF c = FirstUpdate /\ MaxRetries > 0 THEN Sending(server)
                                 ELSE NotSending("idle", "none")]
    BY DEF Init
  <2>2. NotSending("idle", "none").answer = Answer("none", NoServer)
    BY DEF NotSending, Sending
  <2>3. Sending(server).answer.type # "thrown"
    BY SomeServer, NotThrown
  <2> QED BY <2>1, <2>2, <2>3 DEF NoneThrown, Answer
<1>3. ASSUME NEW u \in Updates PROVE update[u].stage # "write"
  <2>1. \A stage : NoUpdate(stage).stage = stage
    BY DEF NoUpdate
  <2>2. \A stage : [NoUpdate(stage) EXCEPT !.retry = MaxRetries].stage = stage
    BY DEF NoUpdate
  <2> QED BY <2>1, <2>2 DEF Init
<1> QED BY <1>1, <1>2, <1>3 DEF Usable

LEMMA UsableStep == ClusterInv /\ Usable /\ [Next]_vars => Usable'
<1> SUFFICES ASSUME ClusterInv, Usable, [Next]_vars PROVE Usable'
  OBVIOUS
<1>1. ASSUME NEW u \in Updates, update'[u].stage = "write"
      PROVE  Connected(update'[u].connections) # {}
  BY <1>1, UpdatesKeepConnections
<1>2. CASE UNCHANGED vars
  BY <1>1, <1>2 DEF vars, clusterVars, Usable, Connected, NoneThrown
<1>3. CASE Next
  <2>1. ASSUME quit'.stage = "no" PROVE Connected(connections') # {} /\ NoneThrown'
    <3>1. quit.stage = "no" /\ Connected(connections') # {}
      BY <1>3, <2>1, ConnectedKept
    <3> QED BY <1>3, <3>1, ThrowsNothing DEF Usable
  <2> QED BY <1>1, <2>1 DEF Usable, Connected
<1> QED BY <1>2, <1>3

(* connections.head (ClusterConnection.send) never throws before quit().   *)
THEOREM ClusterUsableUntilQuit == Spec => []UsableUntilQuit
<1>1. Usable => UsableUntilQuit
  BY DEF Usable, NoneThrown, UsableUntilQuit, Calls
<1> QED BY UsableInit, UsableStep, ClusterInitInv, ClusterStepInv, <1>1, PTL DEF Spec

---------------------------------------------------------------------------
(* What the cache of slots and connections is worth: nobody but an update  *)
(* of the cache loses an open connection, and requests fail for a reason   *)
(* only.                                                                   *)

(* A map names connections that were made; `made` are the connections of   *)
(* each server, now or in the next state.                                  *)
Named(conns, made) == \A s \in Connected(conns) : conns[s].con \in 1..Len(made[s])

Staged == \A u \in Updates : update[u].stage # "write" => update[u].connections = NoConnections
CacheInv ==
    /\ Named(connections, cons)
    /\ \A u \in Updates : Named(update[u].connections, cons)
    /\ Staged
    /\ quit.stage = "no" => quit.toClose = {}

---------------------------------------------------------------------------
(* Connections are made and never unmade.                                  *)

LEMMA MakingGrows ==
    ASSUME NodesType, NEW S \in SUBSET Servers, NEW s \in Servers
    PROVE  /\ Len(Making(S)[s]) \in Nat /\ Len(cons[s]) \in Nat
           /\ Len(cons[s]) <= Len(Making(S)[s])
           /\ s \in S => Len(Making(S)[s]) = Len(cons[s]) + 1
           /\ \A n \in 1..Len(cons[s]) : Making(S)[s][n] = cons[s][n]
<1>1. cons[s] \in Seq(ConStates) /\ "open" \in ConStates
  BY DEF NodesType, ConStates
<1>2. Len(cons[s]) \in Nat
  BY <1>1
<1>3. Making(S)[s] = IF s \in S THEN Append(cons[s], "open") ELSE cons[s]
  BY DEF Making
<1> QED BY <1>1, <1>2, <1>3

(* What CountError leaves of the connections.                              *)
Removed(s, n, R) ==
    [t \in Servers |-> Closing(s, n)[t] \o (IF t \in R THEN <<"open">> ELSE <<>>)]

LEMMA OneOpen == /\ <<"open">> \in Seq(ConStates) /\ Len(<<"open">>) = 1
                 /\ << >> \in Seq(ConStates) /\ Len(<< >>) = 0
<1>1. "open" \in ConStates
  BY DEF ConStates
<1> QED BY <1>1

LEMMA RemovedGrows ==
    ASSUME NodesType, NEW s \in Servers, NEW n \in 1..Len(cons[s]), NEW R \in SUBSET Servers,
           NEW t \in Servers
    PROVE  /\ Len(Removed(s, n, R)[t]) \in Nat /\ Len(cons[t]) \in Nat
           /\ Len(cons[t]) <= Len(Removed(s, n, R)[t])
           /\ t \in R => Len(Removed(s, n, R)[t]) = Len(cons[t]) + 1
           /\ Removed(s, n, R)[s][n] # "open"
<1> DEFINE new == IF t \in R THEN <<"open">> ELSE <<>>
<1>1. /\ cons[t] \in Seq(ConStates) /\ cons[s] \in Seq(ConStates) /\ Len(cons[t]) \in Nat
      /\ cons \in [Servers -> Seq(ConStates)]
  BY DEF NodesType
<1>2. Closing(s, n)[t] \in Seq(ConStates) /\ Closing(s, n)[s] \in Seq(ConStates)
  BY ClosingOK
<1>3. /\ Len(Closing(s, n)[t]) = Len(cons[t]) /\ Len(Closing(s, n)[s]) = Len(cons[s])
      /\ Closing(s, n)[s][n] # "open"
  <2>1. Closing(s, n)[s] = [cons[s] EXCEPT ![n] = IF @ = "open" THEN "closing" ELSE @]
    BY <1>1 DEF Closing
  <2>2. t # s => Closing(s, n)[t] = cons[t]
    BY <1>1 DEF Closing
  <2>3. n \in DOMAIN cons[s]
    BY <1>1
  <2>4. Len(Closing(s, n)[s]) = Len(cons[s])
    BY <1>1, <2>1
  <2>5. Closing(s, n)[s][n] = IF cons[s][n] = "open" THEN "closing" ELSE cons[s][n]
    BY <2>1, <2>3
  <2> QED BY <2>2, <2>4, <2>5
<1>4. Closing(s, n)[s][n] # "open"
  BY <1>3
<1>5. new \in Seq(ConStates) /\ Len(new) = IF t \in R THEN 1 ELSE 0
  BY OneOpen
<1>6. Removed(s, n, R)[t] = Closing(s, n)[t] \o new
  BY DEF Removed
<1> HIDE DEF new
<1>7. Len(Removed(s, n, R)[t]) = Len(cons[t]) + (IF t \in R THEN 1 ELSE 0)
  <2>1. Len(Closing(s, n)[t] \o new) = Len(Closing(s, n)[t]) + Len(new)
    <3>1. Closing(s, n)[t] \in Seq(ConStates) /\ new \in Seq(ConStates)
      BY <1>2, <1>5
    <3> QED BY <3>1, ConcatProperties
  <2> QED BY <1>3, <1>5, <1>6, <2>1
<1>8. Removed(s, n, R)[s][n] # "open"
  <2> DEFINE more == IF s \in R THEN <<"open">> ELSE <<>>
  <2>1. more \in Seq(ConStates)
    BY OneOpen
  <2>2. Removed(s, n, R)[s] = Closing(s, n)[s] \o more
    BY DEF Removed
  <2> HIDE DEF more
  <2>3. Removed(s, n, R)[s][n] = Closing(s, n)[s][n]
    BY <1>2, <1>3, <2>1, <2>2
  <2> QED BY <2>3, <1>4
<1> QED BY <1>1, <1>7, <1>8

LEMMA ConsGrow ==
    ASSUME ClusterInv, CacheInv, [Next]_vars, NEW s \in Servers
    PROVE  Len(cons[s]) \in Nat /\ Len(cons'[s]) \in Nat /\ Len(cons[s]) <= Len(cons'[s])
<1>1. NodesType /\ cons \in [Servers -> Seq(ConStates)] /\ Len(cons[s]) \in Nat
  BY DEF ClusterInv, NodesType
<1>2. CASE cons' = cons
  BY <1>1, <1>2
<1>3. ASSUME NEW S \in SUBSET Servers, cons' = Making(S) PROVE Len(cons'[s]) \in Nat /\ Len(cons[s]) <= Len(cons'[s])
  BY <1>1, <1>3, MakingGrows
<1>4. ASSUME NEW c \in Calls, CountError(c), cons' # cons
      PROVE  Len(cons'[s]) \in Nat /\ Len(cons[s]) <= Len(cons'[s])
  <2> DEFINE t == call[c].server
             R == Recovery([connections EXCEPT ![t] = NoConnection])
  <2>1. t \in Servers
    BY <1>4, FollowedUp DEF CountError
  <2>2. t \in Connected(connections) /\ cons' = Removed(t, connections[t].con, R)
    BY <1>4 DEF CountError, Removed
  <2>3. connections[t].con \in 1..Len(cons[t])
    BY <2>2 DEF CacheInv, Named
  <2>4. R \in SUBSET Servers
    BY NodesAssumption DEF Recovery
  <2> HIDE DEF R, t
  <2> QED BY <1>1, <2>1, <2>2, <2>3, <2>4, RemovedGrows
<1>5. ASSUME NEW t \in Servers, NEW n, NEW x, cons' = [cons EXCEPT ![t][n] = x]
      PROVE  Len(cons'[s]) \in Nat /\ Len(cons[s]) <= Len(cons'[s])
  <2>1. CASE s = t
    <3>1. cons'[s] = [cons[s] EXCEPT ![n] = x]
      BY <1>1, <1>5, <2>1
    <3> QED BY <1>1, <3>1
  <2>2. CASE s # t
    BY <1>1, <1>5, <2>2
  <2> QED BY <2>1, <2>2
<1>6. ASSUME NEW c \in Calls, CallStep(c), ~CountError(c), ~CannotRecover(c)
      PROVE  cons' = cons \/ \E S \in SUBSET Servers : cons' = Making(S)
  <2>1. CASE Attempt(c)
    <3>1. call[c].server \in Servers
      BY <2>1 DEF Attempt, Beginning, ClusterInv, CallsOK, Budget
    <3> QED BY <2>1, <3>1 DEF Attempt, Missing
  <2> QED BY <1>6, <2>1 DEF CallStep, GiveUp, CannotAttempt, Post, Moved, Ask, TryAgain, ClusterDown,
                            NextServer, nodeVars
<1>7. ASSUME NEW u \in Updates, UpdateStep(u)
      PROVE  cons' = cons \/ \E S \in SUBSET Servers : cons' = Making(S)
  <2>1. CASE ReadConnections(u)
    BY <2>1 DEF ReadConnections
  <2> QED BY <1>7, <2>1 DEF UpdateStep, UpdateFails, ClusterNotOk, UpdateAgain, ClusterOk, WriteCache,
                            nodeVars
<1>8. CASE \/ Quit \/ QuitAwaits \/ QuitEnds \/ UNCHANGED vars
           \/ \E r \in Requests : SendRequest(r) \/ Choose(r)
  BY <1>2, <1>8 DEF Quit, SendRequest, Choose, vars, QuitAwaits, QuitEnds, nodeVars
<1>9. ASSUME NEW t \in Servers, NEW n \in 1..Len(cons[t]), QuitCloses(t, n) \/ QuitGoes(t, n)
      PROVE  Len(cons'[s]) \in Nat /\ Len(cons[s]) <= Len(cons'[s])
  <2>1. \E x : cons' = [cons EXCEPT ![t][n] = x]
    BY <1>9 DEF QuitCloses, Closing, QuitGoes, Ends, QuitIsLost, QuitTimesOut, Becomes
  <2> QED BY <2>1, <1>5
<1>11. ASSUME NEW c \in Calls, CannotRecover(c)
       PROVE  Len(cons'[s]) \in Nat /\ Len(cons[s]) <= Len(cons'[s])
  <2>1. call[c].server \in Servers
    BY <1>11, FollowedUp DEF CannotRecover
  <2>2. \E n, x : cons' = [cons EXCEPT ![call[c].server][n] = x]
    BY <1>11 DEF CannotRecover, Closing
  <2> QED BY <2>1, <2>2, <1>5
<1>10. CASE Environment \/ \E c \in Calls : Reply(c) \/ ReplyError(c) \/ Lose(c)
  BY <1>2, <1>10 DEF Environment, Reshard, Die, Reply, ReplyError, Lose
<1> QED BY <1>1, <1>2, <1>3, <1>4, <1>6, <1>7, <1>8, <1>9, <1>10, <1>11
        DEF Next, QuitStep, NodeStep, QuitGoes

---------------------------------------------------------------------------
(* What is in the maps stays in the maps, or is closed.                    *)

LEMMA NamedStays ==
    ASSUME NEW conns, NEW made, NEW more,
           \A s \in Servers : Len(made[s]) \in Nat /\ Len(more[s]) \in Nat /\ Len(made[s]) <= Len(more[s]),
           Named(conns, made)
    PROVE  Named(conns, more)
<1> SUFFICES ASSUME NEW s \in Connected(conns) PROVE conns[s].con \in 1..Len(more[s])
  BY DEF Named
<1>1. s \in Servers /\ conns[s].con \in 1..Len(made[s])
  BY DEF Named, Connected
<1> QED BY <1>1

(* Every connection that is added to a map is made in the same step.       *)
LEMMA NamedWith ==
    ASSUME NodesType, NEW conns, Named(conns, cons), NEW S \in SUBSET Servers
    PROVE  Named(With(conns, S), Making(S))
<1> SUFFICES ASSUME NEW s \in Connected(With(conns, S))
             PROVE  With(conns, S)[s].con \in 1..Len(Making(S)[s])
  BY DEF Named
<1>1. s \in Servers
  BY DEF Connected
<1>2. /\ Len(Making(S)[s]) \in Nat /\ Len(cons[s]) \in Nat
      /\ Len(cons[s]) <= Len(Making(S)[s])
      /\ s \in S => Len(Making(S)[s]) = Len(cons[s]) + 1
  BY <1>1, MakingGrows
<1>3. CASE s \in S
  <2>1. With(conns, S)[s].con = Len(cons[s]) + 1
    BY <1>1, <1>3 DEF With, Fresh
  <2> QED BY <1>2, <1>3, <2>1
<1>4. CASE s \notin S
  <2>1. With(conns, S)[s] = conns[s]
    BY <1>1, <1>4 DEF With
  <2>2. s \in Connected(conns)
    BY <1>1, <2>1 DEF Connected
  <2>3. conns[s].con \in 1..Len(cons[s])
    BY <2>2 DEF Named
  <2> QED BY <1>2, <2>1, <2>3
<1> QED BY <1>3, <1>4

LEMMA ListedWith ==
    ASSUME NEW conns, NEW S, S \cap Connected(conns) = {}
    PROVE  Listed(conns) \subseteq Listed(With(conns, S))
<1> SUFFICES ASSUME NEW s \in Connected(conns)
             PROVE  s \in Connected(With(conns, S)) /\ With(conns, S)[s].con = conns[s].con
  BY DEF Listed
<1>1. s \in Servers /\ s \notin S
  BY DEF Connected
<1>2. With(conns, S)[s] = conns[s]
  BY <1>1 DEF With
<1> QED BY <1>1, <1>2 DEF Connected

LEMMA NothingListed == Listed(NoConnections) = {} /\ \A made : Named(NoConnections, made)
<1>1. Connected(NoConnections) = {}
  BY DEF Connected, NoConnections
<1> QED BY <1>1 DEF Listed, Named

(* An error closes the connection it removes and keeps the others.         *)
LEMMA CountErrorLosesNothing ==
    ASSUME ClusterInv, CacheInv, NEW c \in Calls, CountError(c)
    PROVE  /\ Named(connections', cons')
           /\ \A p \in Listed(connections) : p \in Listed(connections') \/ cons'[p[1]][p[2]] # "open"
<1> DEFINE s == call[c].server
           n == connections[s].con
           removed == [connections EXCEPT ![s] = NoConnection]
           R == Recovery(removed)
<1>1. s \in Servers /\ connections \in [Servers -> Entries] /\ NodesType
  BY FollowedUp DEF CountError, ClusterInv, MapOK
<1>2. Named(connections, cons)
  BY DEF CacheInv
<1>3. CASE UNCHANGED <<connections, cons>>
  BY <1>2, <1>3
<1>4. CASE connections' = [connections EXCEPT ![s].errors = @ + 1] /\ cons' = cons /\ s \in Connected(connections)
  <2>1. \A t \in Servers : connections'[t].con = connections[t].con
    BY <1>1, <1>4 DEF Entries
  <2>2. connections[s].errors \in Nat
    BY <1>1 DEF Entries
  <2>3. connections'[s].errors = connections[s].errors + 1
    BY <1>1, <1>4 DEF Entries
  <2>4. connections'[s].errors # 0
    BY <2>2, <2>3
  <2>5. connections'[s] # NoConnection
    BY <2>4 DEF NoConnection
  <2>6. \A t \in Servers \ {s} : connections'[t] = connections[t]
    BY <1>1, <1>4
  <2>7. Connected(connections') = Connected(connections)
    BY <1>4, <2>5, <2>6 DEF Connected
  <2>8. Listed(connections') = Listed(connections)
    BY <2>1, <2>7 DEF Listed, Connected
  <2>9. Named(connections', cons')
    BY <1>2, <1>4, <2>1, <2>7 DEF Named, Connected
  <2> QED BY <2>8, <2>9
<1>5. CASE s \in Connected(connections) /\ connections' = With(removed, R) /\ cons' = Removed(s, n, R)
  <2>1. n \in 1..Len(cons[s]) /\ R \in SUBSET Servers
    BY <1>2, <1>5, NodesAssumption DEF Named, Recovery
  <2>2. R \cap Connected(removed) = {}
    BY DEF Recovery
  <2>3. \A t \in Servers \ {s} : removed[t] = connections[t]
    BY <1>1
  <2>4. removed[s] = NoConnection
    BY <1>1
  <2>5. \A t \in Connected(removed) : t \in Connected(connections) /\ t # s
    BY <2>3, <2>4 DEF Connected
  <2>6. ASSUME NEW t \in Connected(connections')
        PROVE  connections'[t].con \in 1..Len(cons'[t])
    <3>1. t \in Servers
      BY DEF Connected
    <3>2. /\ Len(cons'[t]) \in Nat /\ Len(cons[t]) \in Nat /\ Len(cons[t]) <= Len(cons'[t])
          /\ t \in R => Len(cons'[t]) = Len(cons[t]) + 1
      BY <1>1, <1>5, <2>1, <3>1, RemovedGrows
    <3>3. CASE t \in R
      <4>1. connections'[t].con = Len(cons[t]) + 1
        BY <1>5, <3>1, <3>3 DEF With, Fresh
      <4> QED BY <3>2, <3>3, <4>1
    <3>4. CASE t \notin R
      <4>1. connections'[t] = removed[t]
        BY <1>5, <3>1, <3>4 DEF With
      <4>2. t \in Connected(removed)
        BY <3>1, <4>1 DEF Connected
      <4>3. t \in Connected(connections) /\ connections'[t] = connections[t]
        BY <2>3, <2>5, <3>1, <4>1, <4>2
      <4>4. connections[t].con \in 1..Len(cons[t])
        BY <1>2, <4>3 DEF Named
      <4> QED BY <3>2, <4>3, <4>4
    <3> QED BY <3>3, <3>4
  <2>7. ASSUME NEW t \in Connected(connections)
        PROVE  <<t, connections[t].con>> \in Listed(connections') \/ cons'[t][connections[t].con] # "open"
    <3>1. CASE t = s
      <4>1. Removed(s, n, R)[s][n] # "open"
        BY <1>1, <2>1, RemovedGrows
      <4> QED BY <1>5, <3>1, <4>1
    <3>2. CASE t # s
      <4>1. t \in Servers /\ t \in Connected(removed) /\ removed[t] = connections[t]
        BY <2>3, <3>2 DEF Connected
      <4>2. <<t, removed[t].con>> \in Listed(removed)
        BY <4>1 DEF Listed
      <4>3. Listed(removed) \subseteq Listed(With(removed, R))
        BY <2>2, ListedWith
      <4> QED BY <1>5, <4>1, <4>2, <4>3
    <3> QED BY <3>1, <3>2
  <2>8. Named(connections', cons')
    BY <2>6 DEF Named
  <2>9. ASSUME NEW p \in Listed(connections)
        PROVE  p \in Listed(connections') \/ cons'[p[1]][p[2]] # "open"
    <3>1. PICK t \in Connected(connections) : p = <<t, connections[t].con>>
      BY DEF Listed
    <3> QED BY <2>7, <3>1
  <2> QED BY <2>8, <2>9
<1> QED BY <1>3, <1>4, <1>5 DEF CountError, Removed

---------------------------------------------------------------------------
(* What becomes of the map of connections, of the updates and of quit().   *)

LEMMA ConnectionsKept ==
    ASSUME ClusterInv, CacheInv, [Next]_vars, ~Quit, ~(\E u \in Updates : WriteCache(u))
    PROVE  /\ Named(connections', cons')
           /\ \A p \in Listed(connections) : p \in Listed(connections') \/ cons'[p[1]][p[2]] # "open"
<1>1. Named(connections, cons) /\ NodesType
  BY DEF CacheInv, ClusterInv
<1>2. Named(connections, cons')
  BY <1>1, ConsGrow, NamedStays
<1>3. CASE UNCHANGED connections
  BY <1>2, <1>3
<1>4. ASSUME NEW c \in Calls, Attempt(c)
      PROVE  /\ Named(connections', cons')
             /\ \A p \in Listed(connections) : p \in Listed(connections')
  <2> DEFINE S == Missing(call[c].server)
  <2>1. call[c].server \in Servers
    BY <1>4 DEF Attempt, Beginning, ClusterInv, CallsOK, Budget
  <2>2. S \in SUBSET Servers /\ S \cap Connected(connections) = {}
    BY <2>1 DEF Missing
  <2>3. cons' = Making(S) /\ connections' = With(connections, S)
    BY <1>4 DEF Attempt
  <2> HIDE DEF S
  <2>4. Named(connections', cons')
    BY <1>1, <2>2, <2>3, NamedWith
  <2>5. Listed(connections) \subseteq Listed(With(connections, S))
    BY <2>2, ListedWith
  <2> QED BY <2>3, <2>4, <2>5
<1>5. ASSUME NEW c \in Calls, CallStep(c), ~Attempt(c), ~CountError(c) PROVE UNCHANGED connections
  BY <1>5 DEF CallStep, GiveUp, CannotAttempt, Post, Moved, Ask, TryAgain, ClusterDown,
              CannotRecover, NextServer, clusterVars
<1>6. ASSUME NEW u \in Updates, UpdateStep(u), ~WriteCache(u) PROVE UNCHANGED connections
  BY <1>6 DEF UpdateStep, UpdateFails, ClusterNotOk, UpdateAgain, ClusterOk, ReadConnections, clusterVars
<1>7. ASSUME \/ \E r \in Requests : SendRequest(r) \/ Choose(r)
             \/ QuitStep \/ NodeStep \/ UNCHANGED vars
      PROVE  UNCHANGED connections
  BY <1>7 DEF SendRequest, Choose, QuitStep, QuitCloses, QuitAwaits, QuitEnds, NodeStep, Reply,
              ReplyError, Lose, Ends, QuitIsLost, QuitTimesOut, Environment, clusterVars, vars
<1> QED BY <1>3, <1>4, <1>5, <1>6, <1>7, CountErrorLosesNothing DEF Next

(* The map of an update is what it was, or the one it has just read.       *)
LEMMA UpdateKept ==
    ASSUME ClusterInv, CacheInv, [Next]_vars, NEW v \in Updates, ~WriteCache(v)
    PROVE  /\ Named(update'[v].connections, cons')
           /\ update'[v].stage # "write" => update'[v].connections = NoConnections
           /\ Listed(update[v].connections) \subseteq Listed(update'[v].connections)
<1>1. /\ update[v] \in UpdateType /\ update \in [Updates -> UpdateType] /\ NodesType
      /\ Named(update[v].connections, cons) /\ Named(connections, cons)
      /\ update[v].stage # "write" => update[v].connections = NoConnections
  BY DEF ClusterInv, UpdatesOK, CacheInv, Staged
<1>2. Named(update[v].connections, cons')
  BY <1>1, ConsGrow, NamedStays
<1>3. CASE /\ update'[v].connections = update[v].connections
           /\ update[v].stage = "write" => update'[v].stage = "write"
  BY <1>1, <1>2, <1>3
<1>4. CASE update'[v].connections = NoConnections /\ update[v].stage # "write"
  BY <1>1, <1>4, NothingListed
<1>5. CASE ReadConnections(v)
  <2>1. /\ update'[v].connections = With(connections, Servers \ Connected(connections))
        /\ cons' = Making(Servers \ Connected(connections))
    BY <1>5, ReadConnectionsOK DEF ReadConnections
  <2>2. Servers \ Connected(connections) \in SUBSET Servers
    OBVIOUS
  <2>3. Named(update'[v].connections, cons')
    BY <1>1, <2>1, <2>2, NamedWith
  <2>4. update'[v].stage = "write" /\ update[v].stage = "slots"
    BY <1>1, <1>5 DEF ReadConnections, UpdateType
  <2>5. Listed(update[v].connections) = {}
    BY <1>1, <2>4, NothingListed
  <2> QED BY <2>3, <2>4, <2>5
<1>6. ASSUME NEW u \in Updates, UpdateStep(u), ~(u = v /\ ReadConnections(u))
      PROVE  \/ /\ update'[v].connections = update[v].connections
                /\ update[v].stage = "write" => update'[v].stage = "write"
             \/ update'[v].connections = NoConnections /\ update[v].stage # "write"
  <2>1. CASE u # v
    BY <1>1, <1>6, <2>1 DEF UpdateStep, UpdateFails, ClusterNotOk, UpdateAgain, ClusterOk,
                            ReadConnections, WriteCache
  <2>2. CASE u = v /\ UpdateFails(u)
    <3>1. update'[v] = NoUpdate("done") /\ update[v].stage # "write"
      BY <1>1, <2>2 DEF UpdateFails
    <3> QED BY <3>1 DEF NoUpdate
  <2>3. CASE u = v /\ (ClusterNotOk(u) \/ ClusterOk(u))
    BY <1>1, <2>3 DEF ClusterNotOk, ClusterOk, UpdateType
  <2>4. CASE u = v /\ UpdateAgain(u)
    <3>1. update[v].stage = "waiting"
      BY <2>4 DEF UpdateAgain
    <3>2. CASE update' = [update EXCEPT ![u].stage = "info"]
      BY <1>1, <2>4, <3>1, <3>2 DEF UpdateType
    <3>3. CASE update' = [update EXCEPT ![u] = NoUpdate("done")]
      <4>1. update'[v] = NoUpdate("done")
        BY <1>1, <2>4, <3>3
      <4> QED BY <3>1, <4>1 DEF NoUpdate
    <3> QED BY <2>4, <3>2, <3>3 DEF UpdateAgain
  <2> QED BY <1>6, <2>1, <2>2, <2>3, <2>4 DEF UpdateStep
<1>7. ASSUME NEW c \in Calls, Moved(c)
      PROVE  /\ update'[v].connections = update[v].connections
             /\ update[v].stage = "write" => update'[v].stage = "write"
  <2>1. CASE UNCHANGED update
    BY <2>1
  <2>2. ASSUME NEW u \in Idle, update' = [update EXCEPT ![u].stage = "info", ![u].retry = MaxRetries]
        PROVE  /\ update'[v].connections = update[v].connections
               /\ update[v].stage = "write" => update'[v].stage = "write"
    BY <1>1, <2>2 DEF Idle, UpdateType
  <2> QED BY <1>7, <2>1, <2>2 DEF Moved
<1>8. ASSUME NEW c \in Calls, Reply(c)
      PROVE  /\ update'[v].connections = update[v].connections
             /\ update[v].stage = "write" => update'[v].stage = "write"
  BY <1>1, <1>8 DEF Reply, UpdateType
<1>9. CASE UNCHANGED update
  BY <1>3, <1>9
<1>10. ASSUME NEW c \in Calls, CallStep(c), ~Moved(c) PROVE UNCHANGED update
  BY <1>10 DEF CallStep, Attempt, GiveUp, CannotAttempt, Post, Ask, TryAgain, ClusterDown,
               CountError, CannotRecover, NextServer
<1>11. ASSUME NodeStep, ~(\E c \in Calls : Reply(c)) PROVE UNCHANGED update
  BY <1>11 DEF NodeStep, ReplyError, Lose, Ends, QuitIsLost, QuitTimesOut, Environment
<1>12. ASSUME Quit \/ QuitStep \/ \E r \in Requests : SendRequest(r) \/ Choose(r)
       PROVE  UNCHANGED update
  BY <1>12 DEF Quit, QuitStep, QuitCloses, QuitAwaits, QuitEnds, SendRequest, Choose
<1>13. CASE UNCHANGED vars
  BY <1>9, <1>13 DEF vars
<1> QED BY <1>3, <1>4, <1>5, <1>6, <1>7, <1>8, <1>9, <1>10, <1>11, <1>12, <1>13 DEF Next

(* quit() takes a connection from its list when it closes it.              *)
LEMMA ToCloseKept ==
    ASSUME ClusterInv, CacheInv, [Next]_vars
    PROVE  /\ quit'.stage = "no" => quit'.toClose = {}
           /\ \A p \in quit.toClose : p \in quit'.toClose \/ cons'[p[1]][p[2]] # "open"
<1>1. quit \in QuitType /\ (quit.stage = "no" => quit.toClose = {}) /\ cons \in [Servers -> Seq(ConStates)]
  BY DEF ClusterInv, QuitOK, CacheInv, NodesType
<1>2. CASE UNCHANGED quit
  BY <1>1, <1>2
<1>3. CASE Quit
  <2>1. quit.toClose = {} /\ quit'.stage = "closing"
    BY <1>1, <1>3 DEF Quit, QuitType
  <2> QED BY <2>1
<1>4. ASSUME NEW s \in Servers, NEW n \in 1..Len(cons[s]), QuitCloses(s, n)
      PROVE  /\ quit'.stage = "closing"
             /\ \A p \in quit.toClose : p \in quit'.toClose \/ cons'[p[1]][p[2]] # "open"
  <2>1. quit'.stage = "closing" /\ quit'.toClose = quit.toClose \ {<<s, n>>}
    BY <1>1, <1>4 DEF QuitCloses, QuitType
  <2>2. cons'[s] = [cons[s] EXCEPT ![n] = IF @ = "open" THEN "closing" ELSE @]
    BY <1>1, <1>4 DEF QuitCloses, Closing
  <2>3. n \in DOMAIN cons[s]
    BY <1>1
  <2>4. cons'[s][n] # "open"
    BY <2>2, <2>3
  <2> QED BY <2>1, <2>4
<1>5. CASE QuitAwaits \/ QuitEnds
  <2>1. quit'.toClose = quit.toClose
    BY <1>1, <1>5 DEF QuitAwaits, QuitEnds, QuitType
  <2>2. quit'.stage \in {quit.stage, "done", "terminated"}
    BY <1>1, <1>5 DEF QuitAwaits, QuitEnds, QuitType
  <2> QED BY <1>1, <2>1, <2>2
<1>6. ASSUME NEW c \in Calls, CallStep(c) PROVE UNCHANGED quit
  BY <1>6 DEF CallStep, Attempt, GiveUp, CannotAttempt, Post, Moved, Ask, TryAgain, ClusterDown,
              CountError, CannotRecover, NextServer
<1>7. ASSUME NEW u \in Updates, UpdateStep(u) PROVE UNCHANGED quit
  BY <1>7 DEF UpdateStep, UpdateFails, ClusterNotOk, UpdateAgain, ClusterOk, ReadConnections, WriteCache
<1>8. ASSUME (\E r \in Requests : SendRequest(r) \/ Choose(r)) \/ NodeStep \/ UNCHANGED vars
      PROVE  UNCHANGED quit
  BY <1>8 DEF SendRequest, Choose, NodeStep, Reply, ReplyError, Lose, Ends, QuitIsLost, QuitTimesOut,
              Environment, vars
<1> QED BY <1>2, <1>3, <1>4, <1>5, <1>6, <1>7, <1>8 DEF Next, QuitStep

---------------------------------------------------------------------------

LEMMA CacheInit == Init => CacheInv
<1> SUFFICES ASSUME Init PROVE CacheInv
  OBVIOUS
<1>1. Named(connections, cons)
  <2> SUFFICES ASSUME NEW s \in Connected(connections) PROVE connections[s].con \in 1..Len(cons[s])
    BY DEF Named
  <2>1. s \in Servers /\ connections[s] # NoConnection
    BY DEF Connected
  <2>2. s \in Nodes
    BY <2>1 DEF Init
  <2>3. connections[s].con = 1 /\ cons[s] = <<"open">>
    BY <2>1, <2>2 DEF Init
  <2> QED BY <2>3
<1>2. \A u \in Updates : update[u].connections = NoConnections /\ update[u].stage # "write"
  BY DEF Init, NoUpdate
<1>3. quit.toClose = {}
  BY DEF Init
<1> QED BY <1>1, <1>2, <1>3, NothingListed DEF CacheInv, Staged

LEMMA CacheStep == ClusterInv /\ CacheInv /\ [Next]_vars => CacheInv'
<1> SUFFICES ASSUME ClusterInv, CacheInv, [Next]_vars PROVE CacheInv'
  OBVIOUS
<1>1. Named(connections', cons')
  <2>1. CASE Quit
    BY <2>1, NothingListed DEF Quit
  <2>2. ASSUME NEW u \in Updates, WriteCache(u) PROVE Named(connections', cons')
    BY <2>2 DEF WriteCache, nodeVars, CacheInv
  <2> QED BY <2>1, <2>2, ConnectionsKept
<1>2. ASSUME NEW u \in Updates
      PROVE  /\ Named(update'[u].connections, cons')
             /\ update'[u].stage # "write" => update'[u].connections = NoConnections
  <2>1. CASE WriteCache(u)
    <3>1. update'[u] = NoUpdate("done")
      BY <2>1 DEF WriteCache, ClusterInv, UpdatesOK
    <3>2. update'[u].connections = NoConnections
      BY <3>1 DEF NoUpdate
    <3> QED BY <3>2, NothingListed
  <2> QED BY <2>1, UpdateKept
<1>3. quit'.stage = "no" => quit'.toClose = {}
  BY ToCloseKept
<1> QED BY <1>1, <1>2, <1>3 DEF CacheInv, Staged

(* Until it is closed, a connection is in the map, in the hands of quit(), *)
(* or in the map an update is about to assign: only the assignment of      *)
(* updateCache, which overwrites the map, lets go of an open one.          *)
THEOREM OnlyUpdatesLose == Spec => OnlyAnUpdateLosesConnections
<1> DEFINE Lost == \E p \in Held \ Held' : cons[p[1]][p[2]] = "open" /\ cons'[p[1]][p[2]] = "open"
           Writes == \E u \in Updates : update[u].stage = "write" /\ update'[u].stage = "done"
<1>1. ASSUME ClusterInv, CacheInv, [Next]_vars PROVE ~Lost \/ Writes
  <2>1. ASSUME NEW u \in Updates, WriteCache(u) PROVE Writes
    <3>1. update'[u] = NoUpdate("done") /\ update[u].stage = "write"
      BY <1>1, <2>1 DEF WriteCache, ClusterInv, UpdatesOK
    <3>2. update'[u].stage = "done"
      BY <3>1 DEF NoUpdate
    <3> QED BY <3>1, <3>2
  <2>2. ASSUME ~(\E u \in Updates : WriteCache(u)), NEW p \in Held \ Held'
        PROVE  cons'[p[1]][p[2]] # "open"
    <3>1. p \notin Listed(connections') /\ p \notin quit'.toClose
      BY <2>2 DEF Held, Listed, Connected
    <3>2. \A u \in Updates : p \notin Listed(update'[u].connections)
      BY <2>2 DEF Held, Listed, Connected
    <3>3. CASE p \in quit.toClose
      BY <1>1, <3>1, <3>3, ToCloseKept
    <3>4. ASSUME NEW u \in Updates, p \in Listed(update[u].connections) PROVE FALSE
      <4>1. Listed(update[u].connections) \subseteq Listed(update'[u].connections)
        BY <1>1, <2>2, UpdateKept
      <4> QED BY <3>2, <3>4, <4>1
    <3>5. CASE p \in Listed(connections)
      <4>1. CASE Quit
        <5>1. quit'.toClose = Listed(connections)
          BY <1>1, <4>1 DEF Quit, ClusterInv, QuitOK, QuitType
        <5> QED BY <3>1, <3>5, <5>1
      <4> QED BY <1>1, <2>2, <3>1, <3>5, <4>1, ConnectionsKept
    <3> QED BY <2>2, <3>3, <3>4, <3>5 DEF Held
  <2> QED BY <2>1, <2>2
<1>2. ClusterInv /\ CacheInv /\ [Next]_vars => (~Lost \/ Writes)
  BY <1>1
<1>3. (~Lost \/ Writes) =>
        [\/ \A p \in Held \ Held' : cons[p[1]][p[2]] = "open" => cons'[p[1]][p[2]] # "open"
         \/ \E u \in Updates : update[u].stage = "write" /\ update'[u].stage = "done"]_vars
  OBVIOUS
<1> HIDE DEF Lost, Writes
<1> QED BY ClusterInitInv, ClusterStepInv, CacheInit, CacheStep, <1>2, <1>3, PTL
        DEF Spec, OnlyAnUpdateLosesConnections

---------------------------------------------------------------------------
(* As long as nothing fails and nobody quits, and slots move fewer times   *)
(* than there are retries, a request needs no more redirections than slots *)
(* have moved: a server that is not the owner of its slot was the owner    *)
(* before one of the moves, and that move has not been paid for.           *)

Undisturbed == faults = 0 /\ quit.stage = "no" /\ moves < MaxRetries

OnItsWay == {"start", "picked", "sent", "answered"}
Target(r) == IF r.stage = "answered" THEN r.answer.to ELSE r.server
Paid(r) == IF r.stage = "answered" THEN MaxRetries - r.retry + 1 ELSE MaxRetries - r.retry
InTime(r, holder, m) == Paid(r) <= m /\ (Target(r) # holder => Paid(r) < m)

(* Where call c stands, r, when the slots are owned as `own` says after m  *)
(* moves, and the connections are those of `made`.                         *)
Well(c, r, own, m, made) ==
    /\ r.stage \in OnItsWay \cup {"idle", "done"}
    /\ r.stage \in {"picked", "sent"} => r.con \in 1..Len(made[r.server])
    /\ r.stage = "answered" => AboutSlot(c) /\ r.answer.type = "moved"
    /\ r.stage = "done" /\ (c \in Updates \/ Kind[c] = "key") => r.answer.type = "ok"
    /\ r.stage \in OnItsWay =>
         IF AboutSlot(c) THEN InTime(r, own[SlotOf[c]], m) ELSE r.retry = MaxRetries

CallsWell == \A c \in Calls : Well(c, call[c], owner, moves, cons)
AllOpen == \A s \in Servers : \A n \in 1..Len(cons[s]) : cons[s][n] = "open"
(* The slots the cache knows: all of them, from the first update on.       *)
CacheKnown ==
    /\ moves = 0 => \A k \in Slots : hashSlots[k] \in {NoServer, owner[k]}
    /\ Constructed => \A k \in Slots : hashSlots[k] # NoServer
HasRead(u) == update[u].stage = "write" \/ (update[u].stage = "slots" /\ call[u].stage = "done")
ViewsKnown ==
    \A u \in Updates : HasRead(u) =>
      \A k \in Slots : update[u].view[k] # NoServer /\ (moves = 0 => update[u].view[k] = owner[k])
Calm == dead = {} /\ CallsWell /\ AllOpen /\ CacheKnown /\ ViewsKnown
CalmInv == Undisturbed => Calm

LEMMA UndisturbedBefore ==
    ASSUME ClusterInv, [Next]_vars, Undisturbed'
    PROVE  Undisturbed /\ faults' = faults /\ quit'.stage = quit.stage
<1>1. faults \in Nat /\ moves \in Nat /\ MaxRetries \in Nat /\ quit \in QuitType
  BY LimitsAssumption, BoundsAssumption DEF ClusterInv, NodesType, QuitOK
<1>2. faults' \in {faults, faults + 1} /\ moves' \in {moves, moves + 1}
  <2>1. ASSUME NEW c \in Calls, CallStep(c) PROVE UNCHANGED <<faults, moves>>
    BY <2>1 DEF CallStep, Attempt, GiveUp, CannotAttempt, Post, Moved, Ask, TryAgain, ClusterDown,
                CountError, CannotRecover, NextServer, nodeVars
  <2>2. ASSUME NEW u \in Updates, UpdateStep(u) PROVE UNCHANGED <<faults, moves>>
    BY <2>2 DEF UpdateStep, UpdateFails, ClusterNotOk, UpdateAgain, ClusterOk, ReadConnections,
                WriteCache, nodeVars
  <2>3. ASSUME (\E r \in Requests : SendRequest(r) \/ Choose(r)) \/ Quit \/ QuitStep \/ UNCHANGED vars
        PROVE  UNCHANGED <<faults, moves>>
    BY <2>3 DEF SendRequest, Choose, Quit, QuitStep, QuitCloses, QuitAwaits, QuitEnds, nodeVars, vars
  <2>4. ASSUME NodeStep PROVE faults' \in {faults, faults + 1} /\ moves' \in {moves, moves + 1}
    BY <2>4 DEF NodeStep, Reply, ReplyError, Lose, Ends, QuitIsLost, QuitTimesOut, Becomes, Fails,
                Environment, Reshard, Die, Faulty
  <2> QED BY <2>1, <2>2, <2>3, <2>4 DEF Next
<1>3. quit'.stage = "no" => quit.stage = "no"
  <2>1. CASE Quit \/ QuitStep
    BY <2>1, QuitIsForGood
  <2>2. ASSUME ~Quit, ~QuitStep PROVE UNCHANGED quit
    BY <2>2 DEF Next, CallStep, Attempt, GiveUp, CannotAttempt, Post, Moved, Ask, TryAgain, ClusterDown,
                CountError, CannotRecover, NextServer, UpdateStep, UpdateFails, ClusterNotOk, UpdateAgain,
                ClusterOk, ReadConnections, WriteCache, SendRequest, Choose, NodeStep, Reply, ReplyError,
                Lose, Ends, QuitIsLost, QuitTimesOut, Environment, vars
  <2> QED BY <2>1, <2>2
<1> QED BY <1>1, <1>2, <1>3 DEF Undisturbed

(* A call that does not step, and one that becomes r.                      *)
LEMMA WellStays ==
    ASSUME ClusterInv, CacheInv, [Next]_vars, CallsWell, NEW d \in Calls
    PROVE  Well(d, call[d], owner, moves, cons')
<1>1. Budget(call[d]) /\ Well(d, call[d], owner, moves, cons)
  BY DEF ClusterInv, CallsOK, CallsWell
<1>2. call[d].stage \in {"picked", "sent"} =>
        /\ call[d].server \in Servers
        /\ Len(cons[call[d].server]) \in Nat /\ Len(cons'[call[d].server]) \in Nat
        /\ Len(cons[call[d].server]) <= Len(cons'[call[d].server])
  BY <1>1, ConsGrow DEF Budget
<1>3. call[d].stage \in {"picked", "sent"} => call[d].con \in 1..Len(cons'[call[d].server])
  BY <1>1, <1>2 DEF Well
<1> QED BY <1>1, <1>3 DEF Well

LEMMA WellKept ==
    ASSUME ClusterInv, CacheInv, [Next]_vars, CallsWell, UNCHANGED <<owner, moves>>,
           NEW c \in Calls, NEW r, Well(c, r, owner, moves, cons'),
           call' = [call EXCEPT ![c] = r]
    PROVE  CallsWell'
<1> SUFFICES ASSUME NEW d \in Calls PROVE Well(d, call'[d], owner, moves, cons')
  BY DEF CallsWell
<1>1. call \in [Calls -> CallType]
  BY DEF ClusterInv, CallsOK
<1>2. CASE d = c
  BY <1>1, <1>2
<1>3. CASE d # c
  <2>1. call'[d] = call[d]
    BY <1>1, <1>3
  <2> QED BY <2>1, WellStays
<1> QED BY <1>2, <1>3

LEMMA SendingWell ==
    ASSUME NEW c \in Calls, NEW s \in Servers, NEW own, NEW m \in Nat, NEW made,
           AboutSlot(c) => (own[SlotOf[c]] # s => 0 < m)
    PROVE  Well(c, Sending(s), own, m, made)
<1> DEFINE r == Sending(s)
<1>1. MaxRetries \in Nat
  BY LimitsAssumption
<1>2. r.stage = "start" /\ r.server = s /\ r.retry = MaxRetries
  BY DEF Sending
<1> HIDE DEF r
<1>3. Paid(r) = 0 /\ Target(r) = s
  BY <1>1, <1>2 DEF Paid, Target
<1>4. Well(c, r, own, m, made)
  BY <1>2, <1>3 DEF Well, InTime, OnItsWay
<1> QED BY <1>4 DEF r

LEMMA EndedWell ==
    ASSUME NEW c \in Calls, NEW result \in Results, NEW own, NEW m, NEW made,
           c \in Updates \/ Kind[c] = "key" => result = "ok"
    PROVE  Well(c, Ended(result), own, m, made)
<1> DEFINE r == Ended(result)
<1>1. r.stage = "done" /\ r.answer = Answer(result, NoServer)
  BY DEF Ended, NotSending, Sending
<1>2. r.answer.type = result
  BY <1>1 DEF Answer
<1> HIDE DEF r
<1>3. Well(c, r, own, m, made)
  BY <1>1, <1>2 DEF Well, OnItsWay
<1> QED BY <1>3 DEF r

---------------------------------------------------------------------------
(* The steps of a call, when nothing has failed.                           *)

LEMMA SendRequestWell ==
    ASSUME ClusterInv, CacheInv, [Next]_vars, Calm, NEW c \in Requests, SendRequest(c)
    PROVE  CallsWell'
<1>1. /\ CallsWell /\ c \in Calls /\ c \notin Updates /\ moves \in Nat /\ UNCHANGED <<owner, moves>>
      /\ hashSlots \in [Slots -> Servers \cup {NoServer}] /\ NoServer \notin Servers
  BY UpdatesAssumption, BoundsAssumption, NoServerAssumption
     DEF Calm, Calls, ClusterInv, NodesType, SlotsOK, SendRequest, nodeVars
<1>2. AboutSlot(c) => /\ SlotOf[c] \in Slots /\ hashSlots[SlotOf[c]] \in Servers
                      /\ moves = 0 => hashSlots[SlotOf[c]] = owner[SlotOf[c]]
  BY <1>1, KindAssumption DEF Calm, CacheKnown, SendRequest, AboutSlot
<1>3. AboutSlot(c) => FirstServers(c) = {hashSlots[SlotOf[c]]}
  BY <1>1, <1>2 DEF FirstServers
<1>4. FirstServers(c) \subseteq Servers
  BY <1>1, <1>2, <1>3 DEF FirstServers, Connected
<1>5. ASSUME NEW s \in FirstServers(c), call' = [call EXCEPT ![c] = Sending(s)] PROVE CallsWell'
  <2>1. s \in Servers /\ (AboutSlot(c) => (owner[SlotOf[c]] # s => 0 < moves))
    BY <1>1, <1>2, <1>3, <1>4, <1>5
  <2>2. Well(c, Sending(s), owner, moves, cons')
    BY <1>1, <2>1, SendingWell
  <2> QED BY <1>1, <1>5, <2>2, WellKept
<1>6. ASSUME FirstServers(c) = {},
             call' = [call EXCEPT ![c] =
               CASE Kind[c] = "key" -> NotSending("choosing", "none")
                 [] Kind[c] = "any" -> Ended("thrown")
                 [] OTHER -> Ended("failed")]
      PROVE  CallsWell'
  <2>1. Kind[c] # "key"
    BY <1>3, <1>6 DEF AboutSlot
  <2>2. \E result \in {"thrown", "failed"} : call' = [call EXCEPT ![c] = Ended(result)]
    BY <1>6, <2>1
  <2>3. PICK result \in {"thrown", "failed"} : call' = [call EXCEPT ![c] = Ended(result)]
    BY <2>2
  <2>4. result \in Results
    BY DEF Results
  <2>5. Well(c, Ended(result), owner, moves, cons')
    BY <1>1, <2>1, <2>4, EndedWell
  <2> QED BY <1>1, <2>3, <2>5, WellKept
<1> QED BY <1>5, <1>6 DEF SendRequest

LEMMA AttemptWell ==
    ASSUME ClusterInv, CacheInv, [Next]_vars, Calm, NEW c \in Calls, Attempt(c)
    PROVE  CallsWell'
<1> DEFINE s == call[c].server
           r == [call[c] EXCEPT !.stage = "picked", !.con = connections'[s].con, !.attempts = @ + 1]
<1>1. /\ CallsWell /\ UNCHANGED <<owner, moves>> /\ call[c] \in CallType /\ Budget(call[c])
      /\ call[c].stage = "start" /\ NodesType /\ MapOK
  BY DEF Calm, CallsWell, Well, OnItsWay, ClusterInv, CallsOK, Attempt, Beginning
<1>2. s \in Servers /\ Missing(s) \in SUBSET Servers
  BY <1>1 DEF Budget, Missing
<1>3. connections' = With(connections, Missing(s)) /\ call' = [call EXCEPT ![c] = r]
  BY DEF Attempt
<1>4. s \in Connected(connections')
  <2>1. Connected(With(connections, Missing(s))) = Connected(connections) \cup Missing(s)
    BY <1>1, <1>2, WithOK DEF MapOK
  <2>2. s \in Connected(With(connections, Missing(s)))
    BY <1>2, <2>1 DEF Missing
  <2> QED BY <1>3, <2>2 DEF Connected
<1>5. Named(connections', cons')
  <2>1. ~Quit /\ ~(\E u \in Updates : WriteCache(u))
    <3>1. UNCHANGED <<quit, update>>
      BY DEF Attempt
    <3>2. ~Quit
      BY <3>1 DEF Quit, ClusterInv, QuitOK, QuitType
    <3>3. ASSUME NEW u \in Updates, WriteCache(u) PROVE FALSE
      <4>1. update'[u] = NoUpdate("done") /\ update[u].stage = "write"
        BY <3>3 DEF WriteCache, ClusterInv, UpdatesOK
      <4>2. update'[u].stage = "done"
        BY <4>1 DEF NoUpdate
      <4> QED BY <3>1, <4>1, <4>2
    <3> QED BY <3>2, <3>3
  <2> QED BY <2>1, ConnectionsKept
<1>6. connections'[s].con \in 1..Len(cons'[s])
  BY <1>4, <1>5 DEF Named
<1>7. /\ r.stage = "picked" /\ r.server = s /\ r.retry = call[c].retry
      /\ r.con = connections'[s].con
  BY <1>1 DEF CallType
<1>8. Well(c, call[c], owner, moves, cons)
  BY <1>1 DEF CallsWell
<1> HIDE DEF r
<1>9. Paid(r) = Paid(call[c]) /\ Target(r) = Target(call[c])
  BY <1>1, <1>7 DEF Paid, Target
<1>10. Well(c, r, owner, moves, cons')
  BY <1>1, <1>6, <1>7, <1>8, <1>9 DEF Well, InTime, OnItsWay
<1> QED BY <1>1, <1>3, <1>10, WellKept

(* The connection is open, and not refused.                                *)
LEMMA PostWell ==
    ASSUME ClusterInv, CacheInv, Undisturbed, [Next]_vars, Calm, NEW c \in Calls, Post(c)
    PROVE  CallsWell'
<1> DEFINE r == [call[c] EXCEPT !.stage = "sent"]
<1>1. /\ CallsWell /\ UNCHANGED <<owner, moves>> /\ call[c] \in CallType /\ Budget(call[c])
      /\ call[c].stage = "picked" /\ call \in [Calls -> CallType]
  BY DEF Calm, ClusterInv, CallsOK, Post, nodeVars
<1>2. Well(c, call[c], owner, moves, cons) /\ Well(c, call[c], owner, moves, cons')
  BY <1>1, WellStays DEF CallsWell
<1>3. call[c].server \in Servers /\ call[c].con \in 1..Len(cons[call[c].server])
  BY <1>1, <1>2 DEF Well, Budget
<1>4. cons[call[c].server][call[c].con] = "open"
  BY <1>3 DEF Calm, AllOpen
<1>5. call' = [call EXCEPT ![c] = r]
  BY <1>1, <1>4 DEF Post, Delivered, Terminated, Undisturbed
<1>6. /\ r.stage = "sent" /\ r.server = call[c].server /\ r.retry = call[c].retry
      /\ r.con = call[c].con
  BY <1>1 DEF CallType
<1> HIDE DEF r
<1>7. Paid(r) = Paid(call[c]) /\ Target(r) = Target(call[c])
  BY <1>1, <1>6 DEF Paid, Target
<1>8. Well(c, r, owner, moves, cons')
  BY <1>1, <1>2, <1>6, <1>7 DEF Well, InTime, OnItsWay
<1> QED BY <1>1, <1>5, <1>8, WellKept

(* A server that is asked for a slot it does not own names the owner: the  *)
(* redirection is paid for by the move that took the slot away.            *)
LEMMA ReplyWell ==
    ASSUME ClusterInv, CacheInv, [Next]_vars, Calm, NEW c \in Calls, Reply(c)
    PROVE  CallsWell'
<1>1. /\ CallsWell /\ UNCHANGED <<owner, moves>> /\ call[c] \in CallType /\ Budget(call[c])
      /\ call[c].stage = "sent" /\ call \in [Calls -> CallType] /\ moves \in Nat /\ MaxRetries \in Nat
  BY LimitsAssumption, BoundsAssumption DEF Calm, ClusterInv, NodesType, CallsOK, Reply
<1>2. Well(c, call[c], owner, moves, cons')
  BY <1>1, WellStays
<1>3. PICK a \in AnswersTo(c) : Answered(c, a)
  BY DEF Reply
<1>4. CASE a.type = "ok"
  <2>1. call' = [call EXCEPT ![c] = Ended("ok")]
    BY <1>3, <1>4 DEF Answered
  <2>2. Well(c, Ended("ok"), owner, moves, cons')
    BY EndedWell DEF Results
  <2> QED BY <1>1, <2>1, <2>2, WellKept
<1>5. CASE a.type # "ok"
  <2> DEFINE k == SlotOf[c]
             s == call[c].server
             r == [call[c] EXCEPT !.stage = "answered", !.answer = a]
  <2>1. AboutSlot(c)
    BY <1>5 DEF AnswersTo, Answer
  <2>2. a = Answer("moved", owner[k]) /\ owner[k] # s
    BY <1>3, <1>5, <2>1 DEF AnswersTo, AnswersToKey, Answer
  <2>3. a.type = "moved" /\ a.to = owner[k]
    BY <2>2 DEF Answer
  <2>4. call' = [call EXCEPT ![c] = r]
    BY <1>3, <2>3 DEF Answered
  <2>5. r.stage = "answered" /\ r.answer = a /\ r.retry = call[c].retry
    BY <1>1 DEF CallType
  <2>6. Paid(call[c]) < moves /\ Paid(call[c]) = MaxRetries - call[c].retry
    BY <1>1, <1>2, <2>1, <2>2 DEF Well, InTime, OnItsWay, Target, Paid
  <2> HIDE DEF r
  <2>7. Paid(r) = Paid(call[c]) + 1 /\ Target(r) = owner[k]
    BY <1>1, <2>3, <2>5, <2>6 DEF Paid, Target, CallType
  <2>8. Paid(call[c]) \in Int
    BY <1>1, <2>6 DEF CallType
  <2>9. Paid(r) <= moves
    BY <1>1, <2>6, <2>7, <2>8
  <2>10. Well(c, r, owner, moves, cons')
    BY <2>1, <2>3, <2>5, <2>7, <2>9 DEF Well, InTime, OnItsWay
  <2> QED BY <1>1, <2>4, <2>10, WellKept
<1> QED BY <1>4, <1>5

LEMMA RedirectedWell ==
    ASSUME ClusterInv, CacheInv, [Next]_vars, Calm, NEW c \in Calls, Moved(c)
    PROVE  Well(c, Redirected(c), owner, moves, cons')
<1> DEFINE r == Redirected(c)
<1>1. /\ call[c] \in CallType /\ call[c].stage = "answered" /\ MaxRetries \in Nat
      /\ Well(c, call[c], owner, moves, cons')
  BY WellStays, LimitsAssumption DEF Calm, ClusterInv, CallsOK, Moved
<1>2. r.stage = "start" /\ r.server = call[c].answer.to /\ r.retry = call[c].retry - 1
  BY <1>1 DEF Redirected, Again, CallType
<1> HIDE DEF r
<1>3. Target(r) = Target(call[c]) /\ Paid(r) = MaxRetries - (call[c].retry - 1)
  BY <1>1, <1>2 DEF Target, Paid
<1>4. Paid(r) = Paid(call[c])
  BY <1>1, <1>3 DEF Paid, CallType
<1>5. Well(c, r, owner, moves, cons')
  BY <1>1, <1>2, <1>3, <1>4 DEF Well, InTime, OnItsWay
<1> QED BY <1>5 DEF r

LEMMA MovedWell ==
    ASSUME ClusterInv, CacheInv, [Next]_vars, Calm, Connected(connections) # {},
           NEW c \in Calls, Moved(c)
    PROVE  CallsWell'
<1>1. /\ CallsWell /\ UNCHANGED <<owner, moves>> /\ call \in [Calls -> CallType] /\ moves \in Nat
      /\ Well(c, Redirected(c), owner, moves, cons')
  <2>1. UNCHANGED <<owner, moves>>
    BY DEF Moved, nodeVars
  <2>2. CallsWell /\ call \in [Calls -> CallType] /\ moves \in Nat
    BY BoundsAssumption DEF Calm, ClusterInv, NodesType, CallsOK
  <2> QED BY <2>1, <2>2, RedirectedWell
<1>2. CASE call' = [call EXCEPT ![c] = Redirected(c)]
  BY <1>1, <1>2, WellKept
<1>3. ASSUME NEW u \in Idle, NEW s \in Connected(connections),
             call' = [call EXCEPT ![c] = Redirected(c), ![u] = Sending(s)]
      PROVE  CallsWell'
  <2>1. u \in Updates /\ u \in Calls /\ u \notin Requests /\ s \in Servers
    BY UpdatesAssumption DEF Idle, Calls, Connected
  <2>2. Well(u, Sending(s), owner, moves, cons')
    BY <1>1, <2>1, SendingWell DEF AboutSlot
  <2>3. ASSUME NEW d \in Calls PROVE Well(d, call'[d], owner, moves, cons')
    <3>1. CASE d = u
      BY <1>1, <1>3, <2>1, <2>2, <3>1
    <3>2. CASE d # u /\ d = c
      BY <1>1, <1>3, <2>1, <3>2
    <3>3. CASE d # u /\ d # c
      <4>1. call'[d] = call[d]
        BY <1>1, <1>3, <3>3
      <4> QED BY <1>1, <4>1, WellStays
    <3> QED BY <3>1, <3>2, <3>3
  <2> QED BY <1>1, <2>3 DEF CallsWell
<1> QED BY <1>2, <1>3 DEF Moved

LEMMA UpdateAsksWell ==
    ASSUME ClusterInv, CacheInv, [Next]_vars, Calm, Connected(connections) # {},
           NEW u \in Updates, UpdateAgain(u) \/ ClusterOk(u)
    PROVE  CallsWell'
<1>1. /\ CallsWell /\ UNCHANGED <<owner, moves>> /\ moves \in Nat
      /\ u \in Calls /\ u \notin Requests
  BY BoundsAssumption, UpdatesAssumption DEF Calm, ClusterInv, NodesType, Calls, UpdateAgain, ClusterOk, nodeVars
<1>2. PICK s \in Connected(connections) : call' = [call EXCEPT ![u] = Sending(s)]
  BY DEF UpdateAgain, ClusterOk
<1>3. s \in Servers
  BY DEF Connected
<1>4. Well(u, Sending(s), owner, moves, cons')
  BY <1>1, <1>3, SendingWell DEF AboutSlot
<1> QED BY <1>1, <1>2, <1>4, WellKept

(* A move pays for the redirection it causes.                              *)
LEMMA ReshardWell ==
    ASSUME ClusterInv, Calm, Reshard, UNCHANGED call PROVE CallsWell'
<1> SUFFICES ASSUME NEW c \in Calls PROVE Well(c, call[c], owner', moves', cons')
  BY DEF CallsWell
<1>1. /\ Well(c, call[c], owner, moves, cons) /\ moves \in Nat /\ moves' = moves + 1 /\ cons' = cons
      /\ call[c] \in CallType /\ MaxRetries \in Nat
  BY LimitsAssumption, BoundsAssumption DEF Calm, CallsWell, ClusterInv, NodesType, CallsOK, Reshard
<1>2. Paid(call[c]) \in Int
  BY <1>1 DEF Paid, CallType
<1>3. ASSUME call[c].stage \in OnItsWay, AboutSlot(c) PROVE InTime(call[c], owner'[SlotOf[c]], moves')
  <2>1. Paid(call[c]) <= moves
    BY <1>1, <1>3 DEF Well, InTime
  <2> QED BY <1>1, <1>2, <2>1 DEF InTime
<1> QED BY <1>1, <1>3 DEF Well

(* What follows a failure does not happen, and no call runs out of retries. *)
LEMMA NothingFails ==
    ASSUME ClusterInv, Undisturbed, Calm, NEW c \in Calls
    PROVE  /\ ~GiveUp(c) /\ ~CannotAttempt(c) /\ ~Ask(c) /\ ~TryAgain(c) /\ ~ClusterDown(c)
           /\ ~CountError(c) /\ ~CannotRecover(c) /\ ~NextServer(c)
           /\ c \in Requests => ~Choose(c)
           /\ c \in Updates => ~ClusterNotOk(c)
           /\ c \in Updates /\ Connected(connections) # {} => ~UpdateFails(c)
<1>1. /\ Well(c, call[c], owner, moves, cons) /\ call[c] \in CallType /\ MaxRetries \in Nat /\ moves \in Nat
      /\ moves < MaxRetries
  BY LimitsAssumption, BoundsAssumption DEF Calm, CallsWell, ClusterInv, NodesType, CallsOK, Undisturbed
<1>2. ~GiveUp(c)
  <2> SUFFICES ASSUME call[c].stage = "start" PROVE call[c].retry > 0
    BY <1>1 DEF GiveUp, Beginning, OutOfRetries, CallType, Well, OnItsWay
  <2>1. CASE AboutSlot(c)
    <3>1. MaxRetries - call[c].retry <= moves
      BY <1>1, <2>1 DEF Well, InTime, Paid, OnItsWay
    <3> QED BY <1>1, <3>1 DEF CallType
  <2>2. CASE ~AboutSlot(c)
    BY <1>1, <2>2 DEF Well, OnItsWay
  <2> QED BY <2>1, <2>2
<1>3. ~Ask(c) /\ ~TryAgain(c) /\ ~ClusterDown(c) /\ ~CountError(c) /\ ~NextServer(c) /\ ~Choose(c)
  BY <1>1 DEF Well, OnItsWay, Ask, TryAgain, ClusterDown, CountError, NextServer, Choose
<1>6. ~Terminated
  BY DEF Undisturbed, Terminated
<1>7. ~CannotAttempt(c) /\ ~CannotRecover(c)
  BY <1>6 DEF CannotAttempt, CannotRecover
<1>4. c \in Updates => ~ClusterNotOk(c)
  BY <1>1 DEF Well, ClusterNotOk
<1>5. c \in Updates /\ Connected(connections) # {} => ~UpdateFails(c)
  BY <1>1, <1>6 DEF Well, UpdateFails
<1> QED BY <1>2, <1>3, <1>4, <1>5, <1>7

LEMMA NobodyQuits ==
    ASSUME Calm, NEW s \in Servers, NEW n \in 1..Len(cons[s]) PROVE ~QuitGoes(s, n)
BY DEF Calm, AllOpen, QuitGoes, Ends, QuitIsLost, QuitTimesOut, Becomes

LEMMA CallsWellStep ==
    ASSUME ClusterInv, CacheInv, Usable, Undisturbed, Calm, [Next]_vars, UNCHANGED faults
    PROVE  CallsWell'
<1>1. CallsWell /\ Connected(connections) # {} /\ faults \in Nat /\ dead = {}
  BY BoundsAssumption DEF Calm, Usable, Undisturbed, ClusterInv, NodesType
<1>2. CASE UNCHANGED <<call, owner, moves>>
  BY <1>1, <1>2, WellStays DEF CallsWell
<1>3. ASSUME NEW c \in Calls, CallStep(c) PROVE CallsWell'
  BY <1>1, <1>3, AttemptWell, PostWell, MovedWell, NothingFails DEF CallStep
<1>4. ASSUME NEW u \in Updates, UpdateStep(u) PROVE CallsWell'
  <2>1. u \in Calls
    BY DEF Calls
  <2>2. CASE UpdateAgain(u) \/ ClusterOk(u)
    BY <1>1, <2>2, UpdateAsksWell
  <2>3. CASE ReadConnections(u) \/ WriteCache(u)
    BY <1>2, <2>3 DEF ReadConnections, WriteCache, nodeVars
  <2> QED BY <1>1, <1>4, <2>1, <2>2, <2>3, NothingFails DEF UpdateStep
<1>5. ASSUME Quit \/ QuitStep \/ UNCHANGED vars PROVE UNCHANGED <<call, owner, moves>>
  BY <1>5 DEF Undisturbed, Quit, QuitStep, QuitCloses, QuitAwaits, QuitEnds, vars, nodeVars
<1>6. ASSUME NEW c \in Calls, ReplyError(c) \/ Lose(c) PROVE FALSE
  BY <1>1, <1>6 DEF ReplyError, Lose, Fails, Faulty
<1>7. ASSUME NEW s \in Servers, Die(s) PROVE FALSE
  BY <1>1, <1>7 DEF Die, Faulty
<1>8. CASE Environment
  BY <1>7, <1>8, ReshardWell DEF Environment
<1>9. ASSUME NEW s \in Servers, NEW n \in 1..Len(cons[s]), QuitGoes(s, n) PROVE FALSE
  BY <1>9, NobodyQuits
<1>10. ASSUME NEW r \in Requests, Choose(r) PROVE FALSE
  BY <1>10, NothingFails DEF Calls
<1> QED BY <1>2, <1>3, <1>4, <1>5, <1>6, <1>8, <1>9, <1>10, SendRequestWell, ReplyWell
        DEF Next, NodeStep, QuitGoes

---------------------------------------------------------------------------
(* The connections stay open, and the cache and the views know the slots.  *)

LEMMA AllOpenStep ==
    ASSUME ClusterInv, CacheInv, Undisturbed, Calm, [Next]_vars, quit'.stage = "no"
    PROVE  AllOpen'
<1>1. AllOpen /\ NodesType
  BY DEF Calm, ClusterInv
<1>2. CASE UNCHANGED cons
  BY <1>1, <1>2 DEF AllOpen
<1>3. ASSUME NEW S \in SUBSET Servers, cons' = Making(S) PROVE AllOpen'
  <2> SUFFICES ASSUME NEW s \in Servers, NEW n \in 1..Len(cons'[s]) PROVE cons'[s][n] = "open"
    BY DEF AllOpen
  <2>1. cons[s] \in Seq(ConStates) /\ Len(cons[s]) \in Nat
    BY <1>1 DEF NodesType
  <2>2. cons'[s] = IF s \in S THEN Append(cons[s], "open") ELSE cons[s]
    BY <1>3 DEF Making
  <2>3. \A i \in 1..Len(cons[s]) : cons[s][i] = "open"
    BY <1>1 DEF AllOpen
  <2>4. CASE s \in S
    <3>1. cons'[s] = Append(cons[s], "open") /\ Len(cons'[s]) = Len(cons[s]) + 1
      BY <2>1, <2>2, <2>4
    <3>2. n = Len(cons[s]) + 1 \/ n \in 1..Len(cons[s])
      BY <2>1, <3>1
    <3> QED BY <2>1, <2>3, <3>1, <3>2
  <2> QED BY <2>2, <2>3, <2>4
<1>4. ASSUME NEW c \in Calls, CallStep(c) PROVE AllOpen'
  <2>1. CASE Attempt(c)
    <3>1. call[c].server \in Servers
      BY <2>1 DEF Attempt, Beginning, ClusterInv, CallsOK, Budget
    <3> QED BY <1>3, <2>1, <3>1 DEF Attempt, Missing
  <2>2. CASE Post(c) \/ Moved(c)
    BY <1>2, <2>2 DEF Post, Moved, nodeVars
  <2> QED BY <1>4, <2>1, <2>2, NothingFails DEF CallStep
<1>5. ASSUME NEW u \in Updates, UpdateStep(u) PROVE AllOpen'
  <2>1. CASE ReadConnections(u)
    BY <1>3, <2>1 DEF ReadConnections
  <2>2. CASE UpdateFails(u) \/ ClusterNotOk(u) \/ UpdateAgain(u) \/ ClusterOk(u) \/ WriteCache(u)
    BY <1>2, <2>2 DEF UpdateFails, ClusterNotOk, UpdateAgain, ClusterOk, WriteCache, nodeVars
  <2> QED BY <1>5, <2>1, <2>2 DEF UpdateStep
<1>6. ASSUME QuitStep PROVE UNCHANGED cons
  <2>1. ASSUME NEW s \in Servers, NEW n, QuitCloses(s, n) PROVE FALSE
    BY <2>1 DEF Undisturbed, QuitCloses
  <2> QED BY <1>6, <2>1 DEF QuitStep, QuitAwaits, QuitEnds, nodeVars
<1>7. ASSUME Quit \/ (\E r \in Requests : SendRequest(r) \/ Choose(r)) \/ UNCHANGED vars
      PROVE  UNCHANGED cons
  BY <1>7 DEF Quit, SendRequest, Choose, vars, nodeVars
<1>8. ASSUME NEW s \in Servers, NEW n \in 1..Len(cons[s]), QuitGoes(s, n) PROVE FALSE
  BY <1>8, NobodyQuits
<1>9. ASSUME Environment \/ \E c \in Calls : Reply(c) \/ ReplyError(c) \/ Lose(c) PROVE UNCHANGED cons
  BY <1>9 DEF Environment, Reshard, Die, Reply, ReplyError, Lose
<1> QED BY <1>2, <1>4, <1>5, <1>6, <1>7, <1>8, <1>9 DEF Next, NodeStep, QuitGoes

(* What an update has read are the owners at the time, also if the slots   *)
(* have moved since.                                                       *)
LEMMA ViewsKnownStep ==
    ASSUME ClusterInv, Usable, Undisturbed, Calm, [Next]_vars, UNCHANGED faults,
           NEW u \in Updates, HasRead(u)', NEW k \in Slots
    PROVE  update'[u].view[k] # NoServer /\ (moves' = 0 => update'[u].view[k] = owner'[k])
<1>1. /\ update[u] \in UpdateType /\ update \in [Updates -> UpdateType] /\ NodesType
      /\ call \in [Calls -> CallType] /\ u \in Calls /\ u \notin Requests
      /\ moves \in Nat /\ faults \in Nat /\ owner[k] \in Servers /\ Connected(connections) # {}
  BY BoundsAssumption, UpdatesAssumption
     DEF ClusterInv, UpdatesOK, CallsOK, NodesType, Calls, Usable, Undisturbed
<1>2. HasRead(u) => update[u].view[k] # NoServer /\ (moves = 0 => update[u].view[k] = owner[k])
  BY DEF Calm, ViewsKnown
<1>3. CASE UNCHANGED <<update, call, owner, moves>>
  BY <1>2, <1>3 DEF HasRead
<1>4. CASE Reply(u)
  <2>1. call[u].stage = "sent" /\ owner' = owner /\ moves' = moves
    BY <1>4 DEF Reply
  <2>2. CASE update[u].stage = "slots"
    <3>1. update' = [update EXCEPT ![u].view = owner]
      BY <1>4, <2>2 DEF Reply
    <3>2. update'[u].view = owner
      BY <1>1, <3>1 DEF UpdateType
    <3> QED BY <1>1, <2>1, <3>2, NoServerAssumption
  <2>3. CASE update[u].stage # "slots"
    <3>1. update' = update
      BY <1>4, <2>3 DEF Reply
    <3>2. update[u].stage = "write"
      BY <2>3, <3>1 DEF HasRead
    <3> QED BY <1>2, <2>1, <3>1, <3>2 DEF HasRead
  <2> QED BY <2>2, <2>3
<1>5. CASE UNCHANGED <<owner, moves>> /\ update'[u] = update[u] /\ call'[u] = call[u]
  BY <1>2, <1>5 DEF HasRead
<1>6. ASSUME NEW c \in Calls \ {u}, Reply(c)
      PROVE  UNCHANGED <<owner, moves>> /\ update'[u] = update[u] /\ call'[u] = call[u]
  BY <1>1, <1>6 DEF Reply, Answered
<1>7. ASSUME NEW r \in Requests, SendRequest(r)
      PROVE  UNCHANGED <<owner, moves>> /\ update'[u] = update[u] /\ call'[u] = call[u]
  BY <1>1, <1>7 DEF SendRequest, nodeVars
<1>23. ASSUME NEW r \in Requests, Choose(r) PROVE FALSE
  BY <1>23, NothingFails DEF Calls
<1>8. ASSUME NEW c \in Calls, Attempt(c) \/ Post(c)
      PROVE  UNCHANGED <<owner, moves, update>> /\ (call'[u] = call[u] \/ call'[u].stage # "done")
  <2>1. UNCHANGED <<owner, moves, update>>
    BY <1>8 DEF Attempt, Post, nodeVars
  <2>2. c # u => call'[u] = call[u]
    BY <1>1, <1>8 DEF Attempt, Post
  <2>3. CASE Attempt(c)
    BY <1>1, <2>1, <2>2, <2>3 DEF Attempt, CallType
  <2>4. CASE Post(c) /\ c = u
    <3>1. Delivered # "done"
      BY DEF Delivered
    <3>2. \/ call' = [call EXCEPT ![c].stage = Delivered]
          \/ call' = [call EXCEPT ![c].stage = "answered", ![c].answer = Answer("io", NoServer)]
      BY <2>4 DEF Post
    <3> QED BY <1>1, <2>1, <2>4, <3>1, <3>2 DEF CallType
  <2> QED BY <1>8, <2>1, <2>2, <2>3, <2>4
<1>9. CASE UNCHANGED <<owner, moves, update>> /\ (call'[u] = call[u] \/ call'[u].stage # "done")
  BY <1>2, <1>9 DEF HasRead
<1>10. ASSUME NEW c \in Calls, Moved(c)
       PROVE  /\ UNCHANGED <<owner, moves>>
              /\ \/ update'[u] = update[u] /\ call'[u] = call[u]
                 \/ update'[u].stage = "info"
  <2>1. UNCHANGED <<owner, moves>>
    BY <1>10 DEF Moved, nodeVars
  <2>2. c # u
    BY <1>1, <1>10 DEF Calm, CallsWell, Well, Moved, AboutSlot
  <2>3. CASE UNCHANGED update /\ \E r : call' = [call EXCEPT ![c] = r]
    BY <1>1, <2>1, <2>2, <2>3
  <2>4. ASSUME NEW v \in Idle, NEW s \in Connected(connections),
               update' = [update EXCEPT ![v].stage = "info", ![v].retry = MaxRetries],
               call' = [call EXCEPT ![c] = Redirected(c), ![v] = Sending(s)]
        PROVE  \/ update'[u] = update[u] /\ call'[u] = call[u]
               \/ update'[u].stage = "info"
    BY <1>1, <2>2, <2>4 DEF Idle, UpdateType
  <2> QED BY <1>10, <2>1, <2>3, <2>4 DEF Moved
<1>11. ASSUME NEW c \in Calls, CallStep(c) PROVE Attempt(c) \/ Post(c) \/ Moved(c)
  BY <1>11, NothingFails DEF CallStep
<1>12. CASE update'[u].stage \in {"info", "done"}
  BY <1>12 DEF HasRead
<1>13. ASSUME NEW v \in Updates, UpdateStep(v), v # u
       PROVE  UNCHANGED <<owner, moves>> /\ update'[u] = update[u] /\ call'[u] = call[u]
  BY <1>1, <1>13 DEF UpdateStep, UpdateFails, ClusterNotOk, UpdateAgain, ClusterOk, ReadConnections,
                     WriteCache, nodeVars
<1>22. CASE UpdateAgain(u)
  <2>1. update'[u].stage = "info"
    BY <1>1, <1>22 DEF UpdateAgain, UpdateType
  <2> QED BY <1>12, <2>1
<1>14. CASE ClusterOk(u)
  <2>1. update'[u].stage = "slots" /\ \E s \in Servers : call'[u] = Sending(s)
    BY <1>1, <1>14 DEF ClusterOk, UpdateType, Connected
  <2>2. call'[u].stage = "start"
    BY <2>1 DEF Sending
  <2> QED BY <2>1, <2>2 DEF HasRead
<1>15. CASE ReadConnections(u)
  <2>1. HasRead(u) /\ UNCHANGED <<owner, moves>>
    BY <1>15 DEF ReadConnections, HasRead
  <2>2. update'[u].view = update[u].view
    BY <1>1, <1>15 DEF ReadConnections, UpdateType
  <2> QED BY <1>2, <2>1, <2>2
<1>16. CASE WriteCache(u)
  <2>1. update'[u] = NoUpdate("done")
    BY <1>1, <1>16 DEF WriteCache
  <2> QED BY <1>12, <2>1 DEF NoUpdate
<1>17. ASSUME Quit \/ QuitStep \/ UNCHANGED vars PROVE UNCHANGED <<update, call, owner, moves>>
  BY <1>17 DEF Undisturbed, Quit, QuitStep, QuitCloses, QuitAwaits, QuitEnds, vars, nodeVars
<1>18. ASSUME NEW c \in Calls, ReplyError(c) \/ Lose(c) PROVE FALSE
  BY <1>1, <1>18 DEF ReplyError, Lose, Fails, Faulty, Calm
<1>19. CASE Environment
  <2>1. ASSUME NEW s \in Servers, Die(s) PROVE FALSE
    BY <1>1, <2>1 DEF Die, Faulty
  <2>2. moves' = moves + 1 /\ UNCHANGED <<update, call>>
    BY <1>19, <2>1 DEF Environment, Reshard
  <2>3. HasRead(u)
    BY <2>2 DEF HasRead
  <2> QED BY <1>1, <1>2, <2>2, <2>3
<1>20. ASSUME NEW s \in Servers, NEW n \in 1..Len(cons[s]), QuitGoes(s, n) PROVE FALSE
  BY <1>20, NobodyQuits
<1>21. ASSUME UpdateStep(u) PROVE UpdateAgain(u) \/ ClusterOk(u) \/ ReadConnections(u) \/ WriteCache(u)
  BY <1>1, <1>21, NothingFails DEF UpdateStep
<1> QED BY <1>3, <1>4, <1>5, <1>6, <1>7, <1>8, <1>9, <1>10, <1>11, <1>12, <1>13, <1>14, <1>15, <1>16,
           <1>17, <1>18, <1>19, <1>20, <1>21, <1>22, <1>23 DEF Next, NodeStep, QuitGoes

(* Nobody but WriteCache ends an update, when nothing fails.               *)
LEMMA ConstructedBefore ==
    ASSUME ClusterInv, Usable, Undisturbed, Calm, [Next]_vars, ~(\E u \in Updates : WriteCache(u)),
           Constructed'
    PROVE  Constructed
<1> DEFINE f == FirstUpdate
<1>1. /\ f \in Updates /\ f \in Calls /\ update \in [Updates -> UpdateType] /\ update[f] \in UpdateType
      /\ Connected(connections) # {} /\ update'[f].stage = "done"
  BY UpdatesAssumption DEF ClusterInv, UpdatesOK, Calls, Usable, Undisturbed, Constructed
<1>2. CASE update'[f].stage = update[f].stage
  BY <1>1, <1>2 DEF Constructed
<1>3. ASSUME NEW u \in Updates, UpdateStep(u) PROVE update[f].stage = "done"
  <2>1. u \in Calls
    BY DEF Calls
  <2>2. UpdateAgain(u) \/ ClusterOk(u) \/ ReadConnections(u)
    BY <1>1, <1>3, <2>1, NothingFails DEF UpdateStep
  <2>3. CASE u = f
    BY <1>1, <2>2, <2>3 DEF UpdateAgain, ClusterOk, ReadConnections, UpdateType
  <2>4. CASE u # f
    BY <1>1, <2>2, <2>4 DEF UpdateAgain, ClusterOk, ReadConnections
  <2> QED BY <2>3, <2>4
<1>4. ASSUME NEW c \in Calls, Moved(c) PROVE update'[f].stage = update[f].stage
  <2>1. CASE UNCHANGED update
    BY <2>1
  <2>2. ASSUME NEW v \in Idle, update' = [update EXCEPT ![v].stage = "info", ![v].retry = MaxRetries]
        PROVE  update'[f].stage = update[f].stage
    BY <1>1, <2>2 DEF Idle, UpdateType
  <2> QED BY <1>4, <2>1, <2>2 DEF Moved
<1>5. ASSUME NEW c \in Calls, Reply(c) PROVE update'[f].stage = update[f].stage
  BY <1>1, <1>5 DEF Reply, UpdateType
<1>6. ASSUME NEW c \in Calls, CallStep(c), ~Moved(c) PROVE UNCHANGED update
  BY <1>6 DEF CallStep, Attempt, GiveUp, CannotAttempt, Post, Ask, TryAgain, ClusterDown, CountError,
              CannotRecover, NextServer
<1>7. ASSUME NodeStep, ~(\E c \in Calls : Reply(c)) PROVE UNCHANGED update
  BY <1>7 DEF NodeStep, ReplyError, Lose, Ends, QuitIsLost, QuitTimesOut, Environment
<1>8. ASSUME \/ Quit \/ QuitStep
             \/ \E r \in Requests : SendRequest(r) \/ Choose(r)
             \/ UNCHANGED vars
      PROVE  UNCHANGED update
  BY <1>8 DEF Quit, QuitStep, QuitCloses, QuitAwaits, QuitEnds, SendRequest, Choose, vars
<1> QED BY <1>1, <1>2, <1>3, <1>4, <1>5, <1>6, <1>7, <1>8 DEF Next, Constructed

LEMMA CacheKnownStep ==
    ASSUME ClusterInv, Usable, Undisturbed, Calm, [Next]_vars, UNCHANGED faults
    PROVE  CacheKnown'
<1>1. /\ CacheKnown /\ NodesType /\ SlotsOK /\ moves \in Nat /\ faults \in Nat /\ dead = {}
  BY BoundsAssumption DEF Calm, ClusterInv, NodesType
<1>2. ASSUME NEW u \in Updates, WriteCache(u) PROVE CacheKnown'
  <2>1. HasRead(u) /\ hashSlots' = update[u].view /\ UNCHANGED <<owner, moves>>
    BY <1>2 DEF HasRead, WriteCache, nodeVars
  <2>2. \A k \in Slots : hashSlots'[k] # NoServer /\ (moves' = 0 => hashSlots'[k] = owner'[k])
    BY <2>1 DEF Calm, ViewsKnown
  <2> QED BY <2>2 DEF CacheKnown
<1>3. ASSUME ~(\E u \in Updates : WriteCache(u)), Constructed' PROVE Constructed
  BY <1>3, ConstructedBefore
<1>4. ASSUME NEW c \in Calls, Moved(c) PROVE CacheKnown'
  <2>1. /\ call[c].stage = "answered" /\ Well(c, call[c], owner, moves, cons) /\ Budget(call[c])
        /\ call[c].answer.type = "moved" /\ call[c].retry \in 0..MaxRetries /\ MaxRetries \in Nat
    BY <1>4, LimitsAssumption DEF Moved, Calm, CallsWell, ClusterInv, CallsOK, Budget
  <2>2. AboutSlot(c) /\ SlotOf[c] \in Slots
    BY <2>1, KindAssumption DEF Well, AboutSlot
  <2>3. MaxRetries - call[c].retry + 1 <= moves
    BY <2>1, <2>2 DEF Well, InTime, Paid, OnItsWay
  <2>4. moves # 0
    BY <1>1, <2>1, <2>3
  <2>5. call[c].answer.to \in Servers
    BY <2>1 DEF Budget
  <2>6. hashSlots' = [hashSlots EXCEPT ![SlotOf[c]] = call[c].answer.to] /\ moves' = moves
    BY <1>4 DEF Moved, nodeVars
  <2>7. ~(\E u \in Updates : WriteCache(u))
    <3>1. ASSUME NEW u \in Updates, WriteCache(u) PROVE FALSE
      <4>1. call' = call
        BY <3>1 DEF WriteCache
      <4>2. Well(c, call[c], owner, moves, cons) /\ call \in [Calls -> CallType]
        BY <2>1 DEF ClusterInv, CallsOK
      <4>3. update'[u] = NoUpdate("done") /\ update[u].stage = "write"
        BY <3>1 DEF WriteCache, ClusterInv, UpdatesOK
      <4>4. update'[u].stage = "done"
        BY <4>3 DEF NoUpdate
      <4>5. update'[u].stage \in {update[u].stage, "info"}
        <5>1. CASE UNCHANGED update
          BY <5>1
        <5>2. ASSUME NEW v \in Idle, update' = [update EXCEPT ![v].stage = "info", ![v].retry = MaxRetries]
              PROVE  update'[u].stage \in {update[u].stage, "info"}
          BY <5>2 DEF Idle, UpdateType, ClusterInv, UpdatesOK
        <5> QED BY <1>4, <5>1, <5>2 DEF Moved
      <4> QED BY <4>3, <4>4, <4>5
    <3> QED BY <3>1
  <2>8. ASSUME Constructed', NEW k \in Slots PROVE hashSlots'[k] # NoServer
    <3>1. hashSlots[k] # NoServer
      BY <1>1, <1>3, <2>7, <2>8 DEF CacheKnown
    <3> QED BY <1>1, <2>2, <2>5, <2>6, <3>1, NoServerAssumption DEF SlotsOK
  <2> QED BY <2>4, <2>6, <2>8 DEF CacheKnown
<1>5. ASSUME ~(\E u \in Updates : WriteCache(u)), UNCHANGED hashSlots,
             moves' # 0 \/ UNCHANGED <<owner, moves>>
      PROVE  CacheKnown'
  BY <1>1, <1>3, <1>5 DEF CacheKnown
<1>6. ASSUME ~(\E u \in Updates : WriteCache(u)), ~(\E c \in Calls : Moved(c)) PROVE UNCHANGED hashSlots
  <2>1. ASSUME NEW c \in Calls, CallStep(c) PROVE UNCHANGED hashSlots
    BY <1>6, <2>1 DEF CallStep, Attempt, GiveUp, CannotAttempt, Post, Ask, TryAgain, ClusterDown,
                      CountError, CannotRecover, NextServer, clusterVars
  <2>2. ASSUME NEW u \in Updates, UpdateStep(u) PROVE UNCHANGED hashSlots
    BY <1>6, <2>2 DEF UpdateStep, UpdateFails, ClusterNotOk, UpdateAgain, ClusterOk, ReadConnections,
                      clusterVars
  <2>3. ASSUME \/ Quit \/ QuitStep \/ NodeStep
               \/ \E r \in Requests : SendRequest(r) \/ Choose(r)
               \/ UNCHANGED vars
        PROVE  UNCHANGED hashSlots
    BY <2>3 DEF Quit, QuitStep, QuitCloses, QuitAwaits, QuitEnds, NodeStep, Reply, ReplyError, Lose, Ends,
                QuitIsLost, QuitTimesOut, Environment, SendRequest, Choose, clusterVars, vars
  <2> QED BY <2>1, <2>2, <2>3 DEF Next
<1>7. moves' # 0 \/ UNCHANGED <<owner, moves>>
  <2>1. ASSUME NEW c \in Calls, CallStep(c) PROVE UNCHANGED <<owner, moves>>
    BY <2>1 DEF CallStep, Attempt, GiveUp, CannotAttempt, Post, Moved, Ask, TryAgain, ClusterDown,
                CountError, CannotRecover, NextServer, nodeVars
  <2>2. ASSUME NEW u \in Updates, UpdateStep(u) PROVE UNCHANGED <<owner, moves>>
    BY <2>2 DEF UpdateStep, UpdateFails, ClusterNotOk, UpdateAgain, ClusterOk, ReadConnections,
                WriteCache, nodeVars
  <2>3. ASSUME \/ Quit \/ QuitStep
               \/ \E r \in Requests : SendRequest(r) \/ Choose(r)
               \/ UNCHANGED vars
        PROVE  UNCHANGED <<owner, moves>>
    BY <2>3 DEF Quit, QuitStep, QuitCloses, QuitAwaits, QuitEnds, SendRequest, Choose, vars, nodeVars
  <2>4. ASSUME NodeStep PROVE moves' = moves + 1 \/ UNCHANGED <<owner, moves>>
    BY <2>4 DEF NodeStep, Reply, ReplyError, Lose, Ends, QuitIsLost, QuitTimesOut, Becomes,
                Environment, Reshard, Die
  <2> QED BY <1>1, <2>1, <2>2, <2>3, <2>4 DEF Next
<1> QED BY <1>2, <1>4, <1>5, <1>6, <1>7

LEMMA CalmInit == Init => CalmInv
<1> SUFFICES ASSUME Init, Undisturbed PROVE Calm
  BY DEF CalmInv
<1>1. MaxRetries \in Nat /\ moves = 0 /\ 0 < MaxRetries
  BY LimitsAssumption DEF Init, Undisturbed
<1>2. FirstUpdate \in Updates /\ FirstUpdate \notin Requests
  BY UpdatesAssumption
<1>3. CallsWell
  <2> SUFFICES ASSUME NEW c \in Calls PROVE Well(c, call[c], owner, moves, cons)
    BY DEF CallsWell
  <2>1. PICK first \in Nodes :
          call = [d \in Calls |-> IF d = FirstUpdate /\ MaxRetries > 0 THEN Sending(first)
                                 ELSE NotSending("idle", "none")]
    BY DEF Init
  <2>2. CASE c = FirstUpdate
    <3>1. call[c] = Sending(first) /\ first \in Servers /\ ~AboutSlot(c)
      BY <1>1, <1>2, <2>1, <2>2, SomeServer DEF AboutSlot
    <3>2. Well(c, Sending(first), owner, moves, cons)
      BY <1>1, <3>1, SendingWell
    <3> QED BY <3>1, <3>2
  <2>3. CASE c # FirstUpdate
    <3>1. call[c] = NotSending("idle", "none")
      BY <2>1, <2>3
    <3>2. call[c].stage = "idle"
      BY <3>1 DEF NotSending, Sending
    <3> QED BY <3>2 DEF Well, OnItsWay
  <2> QED BY <2>2, <2>3
<1>4. AllOpen
  <2> SUFFICES ASSUME NEW s \in Servers, NEW n \in 1..Len(cons[s]) PROVE cons[s][n] = "open"
    BY DEF AllOpen
  <2>1. cons[s] = IF s \in Nodes THEN <<"open">> ELSE << >>
    BY DEF Init
  <2>2. CASE s \in Nodes
    <3>1. cons[s] = <<"open">> /\ Len(<<"open">>) = 1
      BY <2>1, <2>2
    <3>2. n = 1
      BY <3>1
    <3> QED BY <3>1, <3>2
  <2>3. CASE s \notin Nodes
    <3>1. cons[s] = << >> /\ Len(<< >>) = 0
      BY <2>1, <2>3
    <3> QED BY <3>1
  <2> QED BY <2>2, <2>3
<1>5. ASSUME NEW u \in Updates PROVE update[u].stage \in {"idle", "info"}
  <2>1. u # FirstUpdate => update[u].stage = "idle"
    BY DEF Init, NoUpdate
  <2>2. u = FirstUpdate => update[u].stage = "info"
    <3> DEFINE n == NoUpdate(IF MaxRetries > 0 THEN "info" ELSE "done")
    <3>1. u = FirstUpdate => update[u] = [n EXCEPT !.retry = MaxRetries]
      BY DEF Init
    <3>2. n = NoUpdate("info")
      BY <1>1
    <3>3. [NoUpdate("info") EXCEPT !.retry = MaxRetries].stage = "info"
      BY DEF NoUpdate
    <3> QED BY <3>1, <3>2, <3>3
  <2> QED BY <2>1, <2>2
<1>6. ViewsKnown
  BY <1>5 DEF ViewsKnown, HasRead
<1>7. CacheKnown
  <2>1. ~Constructed
    BY <1>2, <1>5 DEF Constructed
  <2> QED BY <2>1 DEF CacheKnown, Init
<1> QED BY <1>3, <1>4, <1>6, <1>7 DEF Calm, Init

LEMMA CalmStep == ClusterInv /\ CacheInv /\ Usable /\ CalmInv /\ [Next]_vars => CalmInv'
<1> SUFFICES ASSUME ClusterInv, CacheInv, Usable, CalmInv, [Next]_vars, Undisturbed' PROVE Calm'
  BY DEF CalmInv
<1>1. Undisturbed /\ UNCHANGED faults /\ quit'.stage = "no"
  BY UndisturbedBefore DEF Undisturbed
<1>2. Calm
  BY <1>1 DEF CalmInv
<1>3. CallsWell'
  BY <1>1, <1>2, CallsWellStep
<1>4. AllOpen'
  BY <1>1, <1>2, AllOpenStep
<1>5. CacheKnown'
  BY <1>1, <1>2, CacheKnownStep
<1>6. ViewsKnown'
  BY <1>1, <1>2, ViewsKnownStep DEF ViewsKnown
<1>7. dead' = {}
  <2>1. dead = {} /\ faults \in Nat
    BY <1>2, BoundsAssumption DEF Calm, ClusterInv, NodesType
  <2>2. ASSUME NEW s \in Servers, Die(s) PROVE FALSE
    BY <1>1, <2>1, <2>2 DEF Die, Faulty
  <2>3. ASSUME NEW c \in Calls, CallStep(c) PROVE UNCHANGED dead
    BY <2>3 DEF CallStep, Attempt, GiveUp, CannotAttempt, Post, Moved, Ask, TryAgain, ClusterDown,
                CountError, CannotRecover, NextServer, nodeVars
  <2>4. ASSUME NEW u \in Updates, UpdateStep(u) PROVE UNCHANGED dead
    BY <2>4 DEF UpdateStep, UpdateFails, ClusterNotOk, UpdateAgain, ClusterOk, ReadConnections,
                WriteCache, nodeVars
  <2>5. ASSUME \/ Quit \/ QuitStep
               \/ \E r \in Requests : SendRequest(r) \/ Choose(r)
               \/ UNCHANGED vars
        PROVE  UNCHANGED dead
    BY <2>5 DEF Quit, QuitStep, QuitCloses, QuitAwaits, QuitEnds, SendRequest, Choose, vars, nodeVars
  <2>6. ASSUME NodeStep PROVE UNCHANGED dead
    BY <2>2, <2>6 DEF NodeStep, Reply, ReplyError, Lose, Ends, QuitIsLost, QuitTimesOut, Becomes,
                      Environment, Reshard
  <2> QED BY <2>1, <2>3, <2>4, <2>5, <2>6 DEF Next
<1> QED BY <1>3, <1>4, <1>5, <1>6, <1>7 DEF Calm

(* While servers and connections are well, nobody quits, and slots move    *)
(* fewer times than there are retries, ClusterConnection.send brings every *)
(* request about a key to the owner of its slot.                           *)
THEOREM FailuresHaveACause == Spec => []NoFailureWithoutACause
<1>1. CalmInv => NoFailureWithoutACause
  <2> SUFFICES ASSUME CalmInv, Undisturbed, NEW r \in Requests, Kind[r] = "key", call[r].stage = "done"
               PROVE  call[r].answer.type = "ok"
    BY DEF NoFailureWithoutACause, Undisturbed
  <2>1. Well(r, call[r], owner, moves, cons)
    BY DEF CalmInv, Calm, CallsWell, Calls
  <2> QED BY <2>1 DEF Well
<1>2. ClusterInv /\ Usable /\ [Next]_vars => Usable'
  BY UsableStep
<1> QED BY ClusterInitInv, ClusterStepInv, CacheInit, CacheStep, UsableInit, CalmInit, CalmStep, <1>1, <1>2,
           PTL DEF Spec

=============================================================================
