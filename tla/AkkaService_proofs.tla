------------------------- MODULE AkkaService_proofs -------------------------
(***************************************************************************)
(* What a connection promises, for every workload and under the faults of  *)
(* Whole: the server executes each transaction as a whole, its session is  *)
(* the one the listener would restore, and the connection implements       *)
(* RequestService.  The requests on the way to the server are in runs,     *)
(* each transaction from its MULTI to its EXEC with nothing in between,    *)
(* they bring its session to the settings of the listener, and no reply on *)
(* the way back claims the success of a request that was not executed.     *)
(***************************************************************************)
EXTENDS AkkaPairing_proofs

-----------------------------------------------------------------------------
(* The settings of a session.                                              *)

Zeros == [op \in SessionOps |-> 0]

(* Item i of rs is the last one that sets op.                              *)
LastSet(rs, op, i) == rs[i].op = op /\ \A j \in DOMAIN rs : j > i => rs[j].op # op

LEMMA ZerosType == Zeros \in SettingsType
BY SharedAssumption DEF Zeros, SettingsType

LEMMA RememberFacts ==
    ASSUME NEW s \in SettingsType, NEW rs \in Seq(Request), NEW op \in SessionOps
    PROVE  /\ \A i \in DOMAIN rs : LastSet(rs, op, i) => Remember(s, rs)[op] = rs[i].value
           /\ (\A i \in DOMAIN rs : rs[i].op # op) => Remember(s, rs)[op] = s[op]
<1>1. Remember(s, rs)[op] = IF \E i \in DOMAIN rs : LastSet(rs, op, i)
                            THEN rs[CHOOSE i \in DOMAIN rs : LastSet(rs, op, i)].value
                            ELSE s[op]
  BY DEF Remember, LastSet
<1>2. ASSUME NEW i \in DOMAIN rs, LastSet(rs, op, i) PROVE Remember(s, rs)[op] = rs[i].value
  <2> DEFINE k == CHOOSE j \in DOMAIN rs : LastSet(rs, op, j)
  <2>1. k \in DOMAIN rs /\ LastSet(rs, op, k)
    BY <1>2
  <2>2. Remember(s, rs)[op] = rs[k].value
    BY <1>1, <1>2
  <2> HIDE DEF k
  <2>3. k \in Nat /\ i \in Nat
    BY <2>1
  <2>4. k = i
    BY <1>2, <2>1, <2>3 DEF LastSet
  <2> QED BY <2>2, <2>4
<1>3. ASSUME \A i \in DOMAIN rs : rs[i].op # op PROVE Remember(s, rs)[op] = s[op]
  BY <1>1, <1>3 DEF LastSet
<1> QED BY <1>2, <1>3

LEMMA LastSetExists ==
    ASSUME NEW rs \in Seq(Request), NEW op, NEW i \in DOMAIN rs, rs[i].op = op
    PROVE  \E k \in DOMAIN rs : LastSet(rs, op, k)
<1> DEFINE n == Len(rs)
           S == {m \in 1..n : rs[n + 1 - m].op = op}
<1>1. n \in Nat /\ DOMAIN rs = 1..n
  OBVIOUS
<1> HIDE DEF n
<1>2. n + 1 - i \in S
  <2>1. n + 1 - i \in 1..n /\ n + 1 - (n + 1 - i) = i
    BY <1>1
  <2> QED BY <2>1
<1>3. PICK m \in S : \A l \in S : m <= l
  <2>1. S \in SUBSET (1..n) /\ S # {}
    BY <1>2
  <2> HIDE DEF S
  <2> QED BY <1>1, <2>1, LeastNumber
<1> DEFINE k == n + 1 - m
<1>4. k \in DOMAIN rs /\ rs[k].op = op
  BY <1>1
<1>5. ASSUME NEW j \in DOMAIN rs, j > k PROVE rs[j].op # op
  <2>1. n + 1 - j \in 1..n /\ n + 1 - (n + 1 - j) = j /\ n + 1 - j < m
    BY <1>1, <1>5
  <2> HIDE DEF k
  <2>2. n + 1 - j \notin S
    BY <1>1, <1>3, <2>1
  <2> QED BY <2>1, <2>2
<1> HIDE DEF k
<1> QED BY <1>4, <1>5 DEF LastSet

(* Either op is never set, or one request is the last to set it.           *)
LEMMA SetOrNot ==
    ASSUME NEW rs \in Seq(Request), NEW op
    PROVE  \/ \A i \in DOMAIN rs : rs[i].op # op
           \/ \E k \in DOMAIN rs : LastSet(rs, op, k)
BY LastSetExists

LEMMA SettingsEqual ==
    ASSUME NEW s \in SettingsType, NEW z \in SettingsType, \A op \in SessionOps : s[op] = z[op]
    PROVE  s = z
BY DEF SettingsType

LEMMA RememberNothing ==
    ASSUME NEW s \in SettingsType
    PROVE  Remember(s, <<>>) = s
<1>1. <<>> \in Seq(Request) /\ DOMAIN <<>> = {}
  OBVIOUS
<1>2. \A op \in SessionOps : Remember(s, <<>>)[op] = s[op]
  BY <1>1, RememberFacts
<1> QED BY <1>1, <1>2, RememberType, SettingsEqual

(* One after the other.                                                    *)
LEMMA RememberMore ==
    ASSUME NEW s \in SettingsType, NEW p \in Seq(Request), NEW q \in Seq(Request)
    PROVE  Remember(s, p \o q) = Remember(Remember(s, p), q)
<1> DEFINE u == p \o q
           z == Remember(s, p)
<1>1. /\ u \in Seq(Request) /\ Len(p) \in Nat /\ Len(q) \in Nat /\ Len(u) = Len(p) + Len(q)
      /\ DOMAIN u = 1..Len(u) /\ DOMAIN p = 1..Len(p) /\ DOMAIN q = 1..Len(q)
      /\ \A k \in 1..Len(p) : u[k] = p[k]
      /\ \A k \in 1..Len(q) : u[Len(p) + k] = q[k]
  OBVIOUS
<1>2. z \in SettingsType
  BY RememberType
<1> HIDE DEF u, z
<1>3. ASSUME NEW op \in SessionOps PROVE Remember(s, u)[op] = Remember(z, q)[op]
  <2>a. \A k \in DOMAIN u : k \in DOMAIN p \/ (k - Len(p) \in DOMAIN q /\ u[k] = q[k - Len(p)])
    <3> TAKE k \in DOMAIN u
    <3> DEFINE j == k - Len(p)
    <3>1. k \in 1..Len(p) \/ (j \in 1..Len(q) /\ k = Len(p) + j)
      BY <1>1
    <3> HIDE DEF j
    <3>2. j \in 1..Len(q) /\ k = Len(p) + j => u[k] = q[j]
      BY <1>1
    <3> QED BY <1>1, <3>1, <3>2 DEF j
  <2>1. CASE \E k \in DOMAIN q : LastSet(q, op, k)
    <3>1. PICK k \in DOMAIN q : LastSet(q, op, k)
      BY <2>1
    <3> DEFINE i == Len(p) + k
    <3>2. i \in DOMAIN u /\ u[i] = q[k]
      BY <1>1
    <3>3. ASSUME NEW j \in DOMAIN u, j > i PROVE u[j].op # op
      <4>1. j \notin DOMAIN p /\ j - Len(p) > k
        BY <1>1, <3>3
      <4> QED BY <2>a, <3>1, <4>1 DEF LastSet
    <3> HIDE DEF i
    <3>4. LastSet(u, op, i)
      BY <3>1, <3>2, <3>3 DEF LastSet
    <3> QED BY <1>1, <1>2, <3>1, <3>2, <3>4, RememberFacts
  <2>2. CASE \A k \in DOMAIN q : q[k].op # op
    <3>1. Remember(z, q)[op] = z[op]
      BY <1>2, <2>2, RememberFacts
    <3>2. CASE \E k \in DOMAIN p : LastSet(p, op, k)
      <4>1. PICK k \in DOMAIN p : LastSet(p, op, k)
        BY <3>2
      <4>2. k \in DOMAIN u /\ u[k] = p[k]
        BY <1>1
      <4>3. ASSUME NEW j \in DOMAIN u, j > k PROVE u[j].op # op
        <5>1. j \in DOMAIN p => u[j] = p[j]
          BY <1>1
        <5> QED BY <2>2, <2>a, <4>1, <4>3, <5>1 DEF LastSet
      <4>4. LastSet(u, op, k)
        BY <4>1, <4>2, <4>3 DEF LastSet
      <4> QED BY <1>1, <3>1, <4>1, <4>2, <4>4, RememberFacts, SMTT(30) DEF z
    <3>3. CASE \A k \in DOMAIN p : p[k].op # op
      <4>1. \A k \in DOMAIN u : u[k].op # op
        BY <1>1, <2>2, <2>a, <3>3
      <4>2. Remember(s, u)[op] = s[op]
        BY <1>1, <4>1, RememberFacts
      <4>3. Remember(s, p)[op] = s[op]
        BY <3>3, RememberFacts
      <4> QED BY <3>1, <4>2, <4>3 DEF z
    <3> QED BY <3>2, <3>3, SetOrNot
  <2> QED BY <2>1, <2>2, SetOrNot
<1>4. Remember(s, u) \in SettingsType /\ Remember(z, q) \in SettingsType
  BY <1>1, <1>2, RememberType
<1>5. Remember(s, u) = Remember(z, q)
  BY <1>3, <1>4, SettingsEqual
<1> QED BY <1>5 DEF u, z

LEMMA RememberOne ==
    ASSUME NEW s \in SettingsType, NEW r \in Request
    PROVE  Remember(s, <<r>>) = IF r.op \in SessionOps THEN [s EXCEPT ![r.op] = r.value] ELSE s
<1> DEFINE o == <<r>>
           z == IF r.op \in SessionOps THEN [s EXCEPT ![r.op] = r.value] ELSE s
<1>1. o \in Seq(Request) /\ DOMAIN o = {1} /\ o[1] = r
  OBVIOUS
<1>2. z \in SettingsType
  BY DEF SettingsType, Request
<1>3. \A op \in SessionOps : z[op] = IF r.op = op THEN r.value ELSE s[op]
  BY DEF SettingsType
<1> HIDE DEF o, z
<1>4. ASSUME NEW op \in SessionOps PROVE Remember(s, o)[op] = z[op]
  <2>1. CASE r.op = op
    <3>1. 1 \in DOMAIN o /\ LastSet(o, op, 1)
      BY <1>1, <2>1 DEF LastSet
    <3> QED BY <1>1, <1>3, <2>1, <3>1, RememberFacts
  <2>2. CASE r.op # op
    BY <1>1, <1>3, <2>2, RememberFacts
  <2> QED BY <2>1, <2>2
<1>5. Remember(s, o) = z
  BY <1>1, <1>2, <1>4, RememberType, SettingsEqual
<1> QED BY <1>5 DEF o, z

(* No setting is sent in a transaction, and the server accepts every one.  *)
Accepted(r) == r.op \in SessionOps => r.value \notin Rejected
Acceptable(s) == \A op \in SessionOps : s[op] # 0 => s[op] \notin Rejected
SessionsAreAccepted ==
    /\ \A item \in Items : \A i \in DOMAIN item.reqs :
         item.reqs[i].op \in SessionOps => item.type = "Request" /\ Accepted(item.reqs[i])
    /\ Acceptable(InitialSettings)

LEMMA RememberAccepted ==
    ASSUME NEW s \in SettingsType, Acceptable(s), NEW rs \in Seq(Request),
           \A k \in DOMAIN rs : Accepted(rs[k])
    PROVE  Acceptable(Remember(s, rs))
<1> SUFFICES ASSUME NEW op \in SessionOps, Remember(s, rs)[op] # 0
             PROVE  Remember(s, rs)[op] \notin Rejected
  BY DEF Acceptable
<1>1. CASE \A i \in DOMAIN rs : rs[i].op # op
  <2>1. Remember(s, rs)[op] = s[op]
    BY <1>1, RememberFacts
  <2> QED BY <2>1 DEF Acceptable
<1>2. CASE \E k \in DOMAIN rs : LastSet(rs, op, k)
  <2>1. PICK k \in DOMAIN rs : LastSet(rs, op, k)
    BY <1>2
  <2>2. Remember(s, rs)[op] = rs[k].value
    BY <2>1, RememberFacts
  <2>3. rs[k].op = op /\ Accepted(rs[k])
    BY <2>1 DEF LastSet
  <2> QED BY <2>2, <2>3 DEF Accepted
<1> QED BY <1>1, <1>2, SetOrNot

(* The initialisation requests bring a session to s.                       *)
LEMMA RememberInit ==
    ASSUME NEW s \in SettingsType
    PROVE  /\ Remember(Zeros, InitRequests(s)) = s /\ Remember(s, InitRequests(s)) = s
           /\ InitRequests(s) = <<>> => s = Zeros
<1>1. ASSUME NEW op \in SessionOps, NEW z \in SettingsType, z[op] \in {0, s[op]}
      PROVE  /\ InitRequest(op, s) \in Seq(Request)
             /\ Remember(z, InitRequest(op, s)) = [z EXCEPT ![op] = s[op]]
  <2> DEFINE r == [id |-> Internal, op |-> op, value |-> s[op]]
             after == [z EXCEPT ![op] = s[op]]
  <2>1. r \in Request /\ r.op = op /\ r.value = s[op]
    BY DEF Request, Ops, SettingsType
  <2>2. s[op] = z[op] => after = z
    BY DEF SettingsType
  <2> HIDE DEF r
  <2>3. InitRequest(op, s) = IF s[op] = 0 THEN <<>> ELSE <<r>>
    BY DEF InitRequest, r
  <2>4. Remember(z, <<>>) = z /\ Remember(z, <<r>>) = after
    BY <2>1, RememberNothing, RememberOne
  <2>5. <<>> \in Seq(Request) /\ <<r>> \in Seq(Request)
    BY <2>1
  <2> HIDE DEF after
  <2>6. Remember(z, InitRequest(op, s)) = after
    BY <1>1, <2>2, <2>3, <2>4
  <2>7. InitRequest(op, s) \in Seq(Request)
    BY <2>3, <2>5
  <2> QED BY <2>6, <2>7 DEF after
<1> DEFINE a == InitRequest("auth", s)
           b == InitRequest("select", s)
           c == InitRequest("setName", s)
<1>2. ASSUME NEW z \in SettingsType, \A op \in SessionOps : z[op] \in {0, s[op]}
      PROVE  Remember(z, InitRequests(s)) = s
  <2> DEFINE z1 == [z EXCEPT !["auth"] = s["auth"]]
             z2 == [z1 EXCEPT !["select"] = s["select"]]
             z3 == [z2 EXCEPT !["setName"] = s["setName"]]
  <2>1. z1 \in SettingsType /\ \A op \in SessionOps : z1[op] = IF op = "auth" THEN s[op] ELSE z[op]
    BY DEF SettingsType, SessionOps
  <2>2. a \in Seq(Request) /\ Remember(z, a) = z1
    BY <1>1, <1>2 DEF SessionOps
  <2> HIDE DEF z1
  <2>3. z2 \in SettingsType /\ \A op \in SessionOps : z2[op] = IF op = "select" THEN s[op] ELSE z1[op]
    BY <2>1 DEF SettingsType, SessionOps
  <2>4. b \in Seq(Request) /\ Remember(z1, b) = z2
    <3>1. "select" \in SessionOps /\ z1["select"] \in {0, s["select"]}
      BY <1>2, <2>1 DEF SessionOps
    <3> QED BY <1>1, <2>1, <3>1
  <2> HIDE DEF z2
  <2>5. z3 \in SettingsType /\ \A op \in SessionOps : z3[op] = IF op = "setName" THEN s[op] ELSE z2[op]
    BY <2>3 DEF SettingsType, SessionOps
  <2>6. c \in Seq(Request) /\ Remember(z2, c) = z3
    <3>1. "setName" \in SessionOps /\ z2["setName"] \in {0, s["setName"]}
      BY <1>2, <2>1, <2>3 DEF SessionOps
    <3> QED BY <1>1, <2>3, <3>1
  <2> HIDE DEF z3, a, b, c
  <2>7. z3 = s
    BY <2>1, <2>3, <2>5, SettingsEqual DEF SessionOps
  <2>8. InitRequests(s) = (a \o b) \o c
    BY DEF InitRequests, a, b, c
  <2>9. a \o b \in Seq(Request) /\ Remember(z, a \o b) = z2
    BY <2>2, <2>4, <2>6, RememberMore
  <2> DEFINE ab == a \o b
  <2>10. ab \in Seq(Request) /\ Remember(z, ab) = z2 /\ InitRequests(s) = ab \o c
    BY <2>8, <2>9
  <2> HIDE DEF ab
  <2>11. Remember(z, ab \o c) = Remember(z2, c)
    BY <2>6, <2>10, RememberMore
  <2> QED BY <2>6, <2>7, <2>10, <2>11
<1>3. Remember(Zeros, InitRequests(s)) = s
  <2>1. \A op \in SessionOps : Zeros[op] = 0
    BY DEF Zeros
  <2> QED BY <1>2, <2>1, ZerosType
<1>4. Remember(s, InitRequests(s)) = s
  BY <1>2
<1> QED BY <1>3, <1>4, ZerosType, RememberNothing

-----------------------------------------------------------------------------
(* Runs of requests.                                                       *)

Kept(r) == SessionsAreAccepted => Accepted(r)
Single(r) ==
    \/ r.id = Internal /\ r.op \in SessionOps /\ Kept(r)
    \/ \E item \in Items : item.type = "Request" /\ r = item.reqs[1]
First(r) == Single(r) \/ (r.op = "multi" /\ r.id = Internal)
Last(r) == Single(r) \/ r.op = "exec"

(* r and q are next to one another in a transaction.                       *)
Inside(r, q) ==
    \E item \in Items : /\ item.type = "Transaction"
                        /\ \E j \in 1..Len(item.reqs) - 1 : /\ r = item.reqs[j]
                                                            /\ q = item.reqs[j + 1]

(* What may come after r.  The server closes the connection after a QUIT,  *)
(* and sendReceive fails what comes after it in a transaction.             *)
Follows(r, q) == r.op = "quit" \/ Inside(r, q) \/ (Last(r) /\ First(q))
InRuns(s) == \A k \in 1..Len(s) - 1 : Follows(s[k], s[k + 1])
AllKept(s) == \A k \in DOMAIN s : Kept(s[k])
Rounded(s) == InRuns(s) /\ (s # <<>> => First(s[1]) /\ Last(s[Len(s)])) /\ AllKept(s)

LEMMA ItemFacts ==
    ASSUME NEW item \in Items
    PROVE  /\ item \in Item /\ item.reqs \in Seq(Request) /\ Len(item.reqs) \in Nat
           /\ item.type \in {"Request", "Transaction"}
           /\ item.type = "Request" => Len(item.reqs) = 1
           /\ item.type = "Transaction" => Len(item.reqs) >= 2
           /\ \A i \in 1..Len(item.reqs) :
                /\ item.reqs[i].op = "multi" <=> item.type = "Transaction" /\ i = 1
                /\ item.reqs[i].id = Internal <=> item.type = "Transaction" /\ i = 1
                /\ item.reqs[i].op = "exec" <=> item.type = "Transaction" /\ i = Len(item.reqs)
                /\ item.reqs[i].op # "spent"
           /\ item.reqs[Len(item.reqs)].id \in Ids
<1>1. PICK t \in Threads : item \in {Workload[t][i] : i \in DOMAIN Workload[t]}
  BY DEF Items
<1>2. PICK k \in DOMAIN Workload[t] : item = Workload[t][k]
  BY <1>1
<1>3. item \in Item
  BY <1>2, WorkloadAssumption
<1>4. item.reqs \in Seq(Request) /\ Len(item.reqs) \in Nat /\ DOMAIN item.reqs = 1..Len(item.reqs)
  BY <1>3 DEF Item
<1>5. /\ item.type \in {"Request", "Transaction"}
      /\ item.type = "Request" => Len(item.reqs) = 1
      /\ item.type = "Transaction" => Len(item.reqs) >= 2
  BY <1>3 DEF Item
<1>6. ASSUME NEW i \in 1..Len(item.reqs)
      PROVE  /\ item.reqs[i].op = "multi" <=> item.type = "Transaction" /\ i = 1
             /\ item.reqs[i].id = Internal <=> item.type = "Transaction" /\ i = 1
             /\ item.reqs[i].op = "exec" <=> item.type = "Transaction" /\ i = Len(item.reqs)
             /\ item.reqs[i].op # "spent"
  <2>1. i \in DOMAIN Workload[t][k].reqs
    BY <1>2, <1>4
  <2> QED BY <1>2, <2>1, TransactionsAreRuns, RequestsAreFresh
<1>7. item.reqs[Len(item.reqs)].id \in Ids
  BY <1>2, RequestsAreFresh
<1> QED BY <1>3, <1>4, <1>5, <1>6, <1>7

LEMMA ItemKept ==
    ASSUME NEW item \in Items
    PROVE  AllKept(item.reqs)
BY DEF AllKept, Kept, SessionsAreAccepted, Accepted

LEMMA SingleKept ==
    ASSUME NEW r, Single(r)
    PROVE  Kept(r)
<1> SUFFICES ASSUME NEW item \in Items, item.type = "Request", r = item.reqs[1] PROVE Kept(r)
  BY DEF Single
<1>1. 1 \in DOMAIN item.reqs
  BY ItemFacts
<1> QED BY <1>1, ItemKept DEF AllKept

LEMMA KeptConcat ==
    ASSUME NEW s \in Seq(Request), NEW z \in Seq(Request), AllKept(s), AllKept(z)
    PROVE  AllKept(s \o z)
<1> DEFINE u == s \o z
<1>1. /\ DOMAIN u = 1..Len(s) + Len(z) /\ DOMAIN s = 1..Len(s) /\ DOMAIN z = 1..Len(z)
      /\ Len(s) \in Nat /\ Len(z) \in Nat
      /\ \A k \in 1..Len(s) + Len(z) : u[k] = IF k <= Len(s) THEN s[k] ELSE z[k - Len(s)]
  OBVIOUS
<1> HIDE DEF u
<1>2. ASSUME NEW k \in DOMAIN u PROVE Kept(u[k])
  <2>1. (k <= Len(s) => k \in DOMAIN s) /\ (~(k <= Len(s)) => k - Len(s) \in DOMAIN z)
    BY <1>1
  <2> QED BY <1>1, <2>1 DEF AllKept
<1> QED BY <1>2 DEF AllKept, u

(* A request has one place in one item.                                    *)
LEMMA ItemsApart ==
    ASSUME NEW item \in Items, NEW other \in Items,
           NEW i \in 1..Len(item.reqs), NEW j \in 1..Len(other.reqs),
           item.reqs[i].id = other.reqs[j].id, item.reqs[i].id # Internal
    PROVE  item = other /\ i = j
<1>1. PICK t \in Threads : \E k \in DOMAIN Workload[t] : item = Workload[t][k]
  BY DEF Items
<1>2. PICK k \in DOMAIN Workload[t] : item = Workload[t][k]
  BY <1>1
<1>3. PICK u \in Threads : \E l \in DOMAIN Workload[u] : other = Workload[u][l]
  BY DEF Items
<1>4. PICK l \in DOMAIN Workload[u] : other = Workload[u][l]
  BY <1>3
<1>5. i \in DOMAIN Workload[t][k].reqs /\ j \in DOMAIN Workload[u][l].reqs
  BY <1>2, <1>4, ItemFacts
<1>6. t = u /\ k = l /\ i = j
  BY <1>2, <1>4, <1>5, RequestsAreDistinct
<1> QED BY <1>2, <1>4, <1>6

(* Of what follows r in a transaction, there is one.                       *)
LEMMA InsideFacts ==
    ASSUME NEW r, NEW q, Inside(r, q)
    PROVE  ~Single(r) /\ r.op # "exec" /\ r.op # "spent"
<1>1. PICK item \in Items : /\ item.type = "Transaction"
                            /\ \E j \in 1..Len(item.reqs) - 1 : r = item.reqs[j]
  BY DEF Inside
<1>2. PICK j \in 1..Len(item.reqs) - 1 : r = item.reqs[j]
  BY <1>1
<1>3. j \in 1..Len(item.reqs) /\ j # Len(item.reqs) /\ Len(item.reqs) \in Nat
  BY ItemFacts
<1>4. r.op # "exec" /\ r.op # "spent" /\ (r.id = Internal <=> j = 1) /\ (r.op = "multi" <=> j = 1)
  BY <1>1, <1>2, <1>3, ItemFacts
<1>5. ASSUME NEW other \in Items, other.type = "Request", r = other.reqs[1] PROVE FALSE
  <2>1. 1 \in 1..Len(other.reqs) /\ other.reqs[1].id # Internal
    BY <1>5, ItemFacts
  <2> QED BY <1>1, <1>2, <1>3, <1>5, <2>1, ItemsApart
<1> QED BY <1>4, <1>5 DEF Single, SessionOps

LEMMA RunsConcat ==
    ASSUME NEW s \in Seq(Request), NEW z \in Seq(Request), InRuns(s), InRuns(z),
           s # <<>> /\ z # <<>> => Follows(s[Len(s)], z[1])
    PROVE  InRuns(s \o z)
<1> DEFINE u == s \o z
<1>1. /\ Len(s) \in Nat /\ Len(z) \in Nat /\ Len(u) = Len(s) + Len(z)
      /\ \A k \in 1..Len(s) : u[k] = s[k]
      /\ \A k \in 1..Len(z) : u[Len(s) + k] = z[k]
  OBVIOUS
<1> HIDE DEF u
<1>2. ASSUME NEW k \in 1..Len(u) - 1 PROVE Follows(u[k], u[k + 1])
  <2>1. CASE k + 1 <= Len(s)
    <3>1. k \in 1..Len(s) - 1 /\ k \in 1..Len(s) /\ k + 1 \in 1..Len(s)
      BY <1>1, <2>1
    <3> QED BY <1>1, <3>1 DEF InRuns
  <2>2. CASE k = Len(s)
    <3>1. k \in 1..Len(s) /\ 1 \in 1..Len(z) /\ s # <<>> /\ z # <<>>
      BY <1>1, <2>2
    <3>2. u[k] = s[Len(s)] /\ u[k + 1] = z[1]
      BY <1>1, <2>2, <3>1
    <3> QED BY <3>1, <3>2
  <2>3. CASE k > Len(s)
    <3> DEFINE j == k - Len(s)
    <3>1. j \in 1..Len(z) - 1 /\ j \in 1..Len(z) /\ j + 1 \in 1..Len(z)
          /\ k = Len(s) + j /\ k + 1 = Len(s) + (j + 1)
      BY <1>1, <2>3
    <3> HIDE DEF j
    <3>2. u[k] = z[j] /\ u[k + 1] = z[j + 1]
      BY <1>1, <3>1
    <3> QED BY <3>1, <3>2 DEF InRuns
  <2> QED BY <1>1, <2>1, <2>2, <2>3
<1> QED BY <1>2 DEF InRuns, u

LEMMA RunsParts ==
    ASSUME NEW s \in Seq(Request), NEW z \in Seq(Request), InRuns(s \o z)
    PROVE  InRuns(s) /\ InRuns(z) /\ (s # <<>> /\ z # <<>> => Follows(s[Len(s)], z[1]))
<1> DEFINE u == s \o z
<1>1. /\ Len(s) \in Nat /\ Len(z) \in Nat /\ Len(u) = Len(s) + Len(z)
      /\ \A k \in 1..Len(s) : u[k] = s[k]
      /\ \A k \in 1..Len(z) : u[Len(s) + k] = z[k]
  OBVIOUS
<1>2. \A k \in 1..Len(u) - 1 : Follows(u[k], u[k + 1])
  BY DEF InRuns
<1> HIDE DEF u
<1>3. ASSUME NEW k \in 1..Len(s) - 1 PROVE Follows(s[k], s[k + 1])
  <2>1. k \in 1..Len(u) - 1 /\ k \in 1..Len(s) /\ k + 1 \in 1..Len(s)
    BY <1>1
  <2> QED BY <1>1, <1>2, <2>1
<1>4. ASSUME NEW k \in 1..Len(z) - 1 PROVE Follows(z[k], z[k + 1])
  <2>1. /\ Len(s) + k \in 1..Len(u) - 1 /\ k \in 1..Len(z) /\ k + 1 \in 1..Len(z)
        /\ (Len(s) + k) + 1 = Len(s) + (k + 1)
    BY <1>1
  <2>2. u[Len(s) + k] = z[k] /\ u[(Len(s) + k) + 1] = z[k + 1]
    BY <1>1, <2>1
  <2> QED BY <1>2, <2>1, <2>2
<1>5. ASSUME s # <<>>, z # <<>> PROVE Follows(s[Len(s)], z[1])
  <2>1. Len(s) \in 1..Len(u) - 1 /\ Len(s) \in 1..Len(s) /\ 1 \in 1..Len(z)
    BY <1>1, <1>5
  <2> QED BY <1>1, <1>2, <2>1
<1> QED BY <1>3, <1>4, <1>5 DEF InRuns

LEMMA ConcatEnds ==
    ASSUME NEW s \in Seq(Request), NEW z \in Seq(Request)
    PROVE  /\ s \o z \in Seq(Request)
           /\ s \o z = <<>> <=> s = <<>> /\ z = <<>>
           /\ s # <<>> => (s \o z)[1] = s[1]
           /\ s = <<>> => s \o z = z
           /\ z = <<>> => s \o z = s
           /\ z # <<>> => (s \o z)[Len(s \o z)] = z[Len(z)]
<1> DEFINE u == s \o z
<1>1. /\ u \in Seq(Request) /\ Len(s) \in Nat /\ Len(z) \in Nat /\ Len(u) = Len(s) + Len(z)
      /\ \A k \in 1..Len(s) + Len(z) : u[k] = IF k <= Len(s) THEN s[k] ELSE z[k - Len(s)]
  BY ConcatProperties
<1>2. (s = <<>> => u = z) /\ (z = <<>> => u = s)
  BY ConcatEmptySeq
<1>3. (s = <<>> <=> Len(s) = 0) /\ (z = <<>> <=> Len(z) = 0) /\ (u = <<>> <=> Len(u) = 0)
  BY <1>1, EmptySeq
<1> HIDE DEF u
<1>4. s # <<>> => u[1] = s[1]
  BY <1>1, <1>3
<1>5. z # <<>> => u[Len(u)] = z[Len(z)]
  BY <1>1, <1>3
<1>6. u = <<>> <=> s = <<>> /\ z = <<>>
  BY <1>1, <1>3
<1> QED BY <1>1, <1>2, <1>4, <1>5, <1>6 DEF u

LEMMA RoundedConcat ==
    ASSUME NEW s \in Seq(Request), NEW z \in Seq(Request), Rounded(s), Rounded(z)
    PROVE  Rounded(s \o z)
<1>1. InRuns(s \o z)
  BY RunsConcat DEF Rounded, Follows
<1>2. AllKept(s \o z)
  BY KeptConcat DEF Rounded
<1> QED BY <1>1, <1>2, ConcatEnds DEF Rounded

LEMMA RoundedNothing == Rounded(<<>>)
BY DEF Rounded, InRuns, AllKept

LEMMA RoundedSingle ==
    ASSUME NEW r, Single(r)
    PROVE  Rounded(<<r>>)
<1>1. Len(<<r>>) = 1 /\ <<r>>[1] = r /\ DOMAIN <<r>> = {1}
  OBVIOUS
<1>2. Kept(r)
  BY SingleKept
<1> QED BY <1>1, <1>2 DEF Rounded, InRuns, First, Last, AllKept

(* What a user hands over.                                                 *)
LEMMA ItemRounded ==
    ASSUME NEW item \in Items
    PROVE  Rounded(item.reqs)
<1> DEFINE rs == item.reqs
<1>1. rs \in Seq(Request) /\ Len(rs) \in Nat /\ item.type \in {"Request", "Transaction"}
  BY ItemFacts
<1>2. CASE item.type = "Request"
  <2>1. Len(rs) = 1 /\ Single(rs[1])
    BY <1>2, ItemFacts DEF Single
  <2> QED BY <1>1, <2>1, ItemKept DEF Rounded, InRuns, First, Last
<1>3. CASE item.type = "Transaction"
  <2>1. Len(rs) >= 2
    BY <1>3, ItemFacts
  <2>2. 1 \in 1..Len(rs) /\ Len(rs) \in 1..Len(rs)
    BY <1>1, <2>1
  <2>3. rs[1].op = "multi" /\ rs[1].id = Internal /\ rs[Len(rs)].op = "exec"
    BY <1>3, <2>2, ItemFacts
  <2>4. InRuns(rs)
    BY <1>3 DEF InRuns, Follows, Inside
  <2> QED BY <2>3, <2>4, ItemKept DEF Rounded, First, Last
<1> QED BY <1>1, <1>2, <1>3

(* The requests of a transaction that are sent: all, or those up to QUIT.   *)
LEMMA QuitCuts ==
    ASSUME NEW rs \in Seq(Request)
    PROVE  \E n \in 0..Len(rs) : /\ UpToQuit(rs) = SubSeq(rs, 1, n)
                                 /\ n = Len(rs) \/ (n >= 1 /\ rs[n].op = "quit")
<1> DEFINE S == {i \in DOMAIN rs : \A j \in 1..i - 1 : rs[j].op # "quit"}
           n == Cardinality(S)
<1>1. n \in Nat /\ n <= Len(rs) /\ Len(rs) \in Nat /\ DOMAIN rs = 1..Len(rs)
  BY CutLength
<1>2. IsFiniteSet(1..Len(rs)) /\ S \subseteq 1..Len(rs)
  BY <1>1, FS_Interval
<1>3. IsFiniteSet(S)
  BY <1>2, FS_Subset
<1>4. ASSUME NEW i \in S PROVE i <= n
  <2>1. 1..i \subseteq S
    <3>1. i \in 1..Len(rs) /\ \A j \in 1..i - 1 : rs[j].op # "quit"
      BY <1>1
    <3> QED BY <1>1, <3>1
  <2>2. i \in Nat /\ i >= 1
    BY <1>1
  <2>3. Cardinality(1..i) = i
    BY <2>2, FS_Interval
  <2> HIDE DEF S
  <2>4. Cardinality(1..i) <= n
    BY <1>3, <2>1, FS_Subset
  <2> QED BY <2>3, <2>4
<1>5. S \subseteq 1..n
  BY <1>1, <1>4
<1>6. S = 1..n
  <2>1. IsFiniteSet(1..n) /\ Cardinality(1..n) = n
    BY <1>1, FS_Interval
  <2> HIDE DEF S
  <2> QED BY <1>5, <2>1, FS_Subset
<1>7. UpToQuit(rs) = SubSeq(rs, 1, n)
  BY DEF UpToQuit
<1>8. ASSUME n # Len(rs) PROVE n >= 1 /\ rs[n].op = "quit"
  <2>1. n + 1 \in 1..Len(rs) /\ n + 1 \notin 1..n
    <3>1. n \in Nat /\ n <= Len(rs) /\ Len(rs) \in Nat /\ n # Len(rs)
      BY <1>1, <1>8
    <3> HIDE DEF n
    <3> QED BY <3>1
  <2>2. n + 1 \in DOMAIN rs /\ n + 1 \notin S
    BY <1>1, <1>6, <2>1
  <2>3. PICK j \in 1..(n + 1) - 1 : rs[j].op = "quit"
    BY <2>2
  <2> HIDE DEF n
  <2>4. n \in 1..n /\ j \in 1..n
    BY <1>1, <2>3
  <2>5. \A i \in 1..n - 1 : rs[i].op # "quit"
    BY <1>6, <2>4
  <2>6. j = n
    BY <1>1, <2>3, <2>4, <2>5
  <2> QED BY <2>3, <2>4, <2>6
<1> HIDE DEF n
<1>9. n \in 0..Len(rs)
  BY <1>1
<1> QED BY <1>7, <1>8, <1>9

LEMMA SentRounded ==
    ASSUME NEW item \in Items, NEW sent1,
           sent1 = IF Len(item.reqs) = 1 THEN item.reqs
                   ELSE <<item.reqs[1]>> \o UpToQuit(SubSeq(item.reqs, 2, Len(item.reqs) - 1))
                          \o <<item.reqs[Len(item.reqs)]>>
    PROVE  sent1 \in Seq(Request) /\ Rounded(sent1)
<1> DEFINE rs == item.reqs
           L == Len(rs)
<1>1. rs \in Seq(Request) /\ L \in Nat
  BY ItemFacts
<1>2. CASE L = 1
  BY <1>1, <1>2, ItemRounded
<1>3. CASE L # 1
  <2> DEFINE members == SubSeq(rs, 2, L - 1)
             end == rs[L]
  <2>1. L >= 2 /\ item.type = "Transaction"
    BY <1>1, <1>3, ItemFacts
  <2>2. /\ members \in Seq(Request) /\ Len(members) = L - 2
        /\ \A k \in 1..L - 2 : members[k] = rs[k + 1]
    <3>1. \A k \in 2..L - 1 : rs[k] \in Request
      BY <1>1
    <3>2. /\ members \in Seq(Request) /\ Len(members) = IF 2 <= L - 1 THEN (L - 1) - 2 + 1 ELSE 0
          /\ \A k \in 1..(L - 1) - 2 + 1 : members[k] = rs[2 + k - 1]
      BY <1>1, <3>1, SubSeqProperties
    <3>3. (L - 1) - 2 + 1 = L - 2
      BY <1>1
    <3>4. \A k \in 1..L - 2 : 2 + k - 1 = k + 1
      BY <1>1
    <3> HIDE DEF members
    <3> QED BY <1>1, <2>1, <3>2, <3>3, <3>4
  <2> HIDE DEF members
  <2>3. PICK n \in 0..Len(members) : /\ UpToQuit(members) = SubSeq(members, 1, n)
                                     /\ n = Len(members) \/ (n >= 1 /\ members[n].op = "quit")
    BY <2>2, QuitCuts
  <2> DEFINE up == SubSeq(members, 1, n)
             p == SubSeq(rs, 1, n + 1)
             z == SubSeq(rs, (n + 1) + 1, Len(rs))
  <2>4. n \in Nat /\ n + 1 \in Nat /\ n + 1 <= L - 1 /\ n <= L - 2
    BY <1>1, <2>1, <2>2
  <2>5. p \in Seq(Request) /\ z \in Seq(Request) /\ Len(p) = n + 1 /\ rs = p \o z
    <3>1. n + 1 \in Nat /\ n + 1 <= Len(rs)
      BY <1>1, <2>4
    <3> HIDE DEF rs
    <3> DEFINE i == n + 1
    <3>2. i \in Nat /\ i <= Len(rs)
      BY <3>1
    <3> HIDE DEF i
    <3>3. /\ SubSeq(rs, 1, i) \in Seq(Request) /\ SubSeq(rs, i + 1, Len(rs)) \in Seq(Request)
          /\ Len(SubSeq(rs, 1, i)) = i
          /\ rs = SubSeq(rs, 1, i) \o SubSeq(rs, i + 1, Len(rs))
      BY <1>1, <3>2, CutInTwo
    <3> QED BY <3>3 DEF i
  <2>6. /\ \A k \in 1..n + 1 : p[k] = rs[k]
        /\ up \in Seq(Request) /\ Len(up) = n /\ \A k \in 1..n : up[k] = rs[k + 1]
    <3>1. \A k \in 1..n + 1 : k \in 1..L
      BY <1>1, <2>4
    <3>2. \A k \in 1..n : k \in 1..L - 2 /\ members[k] \in Request
      BY <1>1, <2>2, <2>4
    <3>3. \A k \in 1..n + 1 : p[k] = rs[k]
      BY <1>1, <2>4, <3>1
    <3>4. up \in Seq(Request) /\ Len(up) = n /\ \A k \in 1..n : up[k] = members[k]
      BY <2>2, <2>4, <3>2
    <3> QED BY <2>2, <3>2, <3>3, <3>4
  <2> HIDE DEF p, z, up
  <2>7. p = <<rs[1]>> \o up
    <3> DEFINE u == <<rs[1]>> \o up
    <3>1. rs[1] \in Request /\ <<rs[1]>> \in Seq(Request)
      BY <1>1, <2>1
    <3>2. /\ u \in Seq(Request) /\ Len(u) = n + 1 /\ u[1] = rs[1]
          /\ \A k \in 1..n : u[k + 1] = up[k]
      BY <2>4, <2>6, <3>1
    <3> HIDE DEF u
    <3>3. \A k \in 1..n + 1 : p[k] = u[k]
      <4> TAKE k \in 1..n + 1
      <4>1. CASE k = 1
        <5>1. 1 \in 1..n + 1
          BY <2>4
        <5> QED BY <2>6, <3>2, <4>1, <5>1
      <4>2. CASE k # 1
        <5> DEFINE i == k - 1
        <5>1. i \in 1..n /\ k = i + 1
          BY <2>4, <4>2
        <5> HIDE DEF i
        <5>2. u[i + 1] = up[i] /\ up[i] = rs[i + 1] /\ p[k] = rs[k]
          BY <2>6, <3>2, <5>1
        <5> QED BY <5>1, <5>2
      <4> QED BY <4>1, <4>2
    <3>4. p = u
      BY <2>5, <3>2, <3>3, SeqEqual
    <3> QED BY <3>4 DEF u
  <2>8. sent1 = p \o <<end>>
    BY <1>3, <2>3, <2>7 DEF up, members
  <2>9. end \in Request /\ <<end>> \in Seq(Request) /\ Len(<<end>>) = 1 /\ <<end>>[1] = end /\ <<end>> # <<>>
    BY <1>1, <2>1
  <2>10. InRuns(p)
    <3>1. InRuns(rs)
      BY ItemRounded DEF Rounded
    <3> QED BY <2>5, <3>1, RunsParts
  <2>11. Follows(p[n + 1], end)
    <3>1. CASE n = L - 2
      <4>1. n + 1 \in 1..L - 1 /\ L = (n + 1) + 1 /\ n + 1 \in 1..n + 1
        BY <1>1, <2>4, <3>1
      <4>2. p[n + 1] = rs[n + 1] /\ end = rs[(n + 1) + 1]
        BY <2>6, <4>1
      <4> QED BY <2>1, <4>1, <4>2 DEF Follows, Inside
    <3>2. CASE n # L - 2
      <4>1. n >= 1 /\ members[n].op = "quit"
        BY <2>2, <2>3, <3>2
      <4>2. n \in 1..L - 2 /\ n + 1 \in 1..n + 1
        BY <1>1, <2>4, <4>1
      <4>3. p[n + 1].op = "quit"
        BY <2>2, <2>6, <4>1, <4>2
      <4> QED BY <4>3 DEF Follows
    <3> QED BY <3>1, <3>2
  <2>12. InRuns(<<end>>)
    BY <2>9 DEF InRuns
  <2>13. sent1 \in Seq(Request) /\ InRuns(sent1)
    BY <2>5, <2>8, <2>9, <2>10, <2>11, <2>12, RunsConcat, ConcatEnds, ZenonT(30)
  <2>14. p # <<>> /\ p[1] = rs[1]
    BY <2>4, <2>5, <2>6
  <2>15. sent1[1] = rs[1] /\ sent1[Len(sent1)] = end
    BY <2>5, <2>8, <2>9, <2>14, ConcatEnds
  <2>16. rs[1].op = "multi" /\ rs[1].id = Internal /\ end.op = "exec"
    <3>1. 1 \in 1..L /\ L \in 1..L
      BY <1>1, <2>1
    <3> QED BY <2>1, <3>1, ItemFacts
  <2>17. AllKept(p) /\ AllKept(<<end>>)
    <3>0. AllKept(rs)
      BY ItemKept
    <3>1. DOMAIN rs = 1..L /\ DOMAIN p = 1..n + 1 /\ DOMAIN <<end>> = {1}
      BY <1>1, <2>5
    <3>2. \A k \in 1..n + 1 : k \in 1..L
      BY <1>1, <2>4
    <3>3. L \in 1..L
      BY <1>1, <2>1
    <3> QED BY <2>6, <2>9, <3>0, <3>1, <3>2, <3>3 DEF AllKept
  <2>18. AllKept(sent1)
    BY <2>5, <2>8, <2>9, <2>17, KeptConcat
  <2> QED BY <2>13, <2>15, <2>16, <2>18 DEF Rounded, First, Last
<1> QED BY <1>2, <1>3

LEMMA InitRounded ==
    ASSUME NEW s \in SettingsType, SessionsAreAccepted => Acceptable(s)
    PROVE  InitRequests(s) \in Seq(Request) /\ Rounded(InitRequests(s))
<1>1. ASSUME NEW op \in SessionOps
      PROVE  InitRequest(op, s) \in Seq(Request) /\ Rounded(InitRequest(op, s))
  <2> DEFINE r == [id |-> Internal, op |-> op, value |-> s[op]]
  <2>1. r \in Request /\ (s[op] # 0 => Single(r))
    BY DEF Request, Ops, SettingsType, Single, Kept, Accepted, Acceptable
  <2> HIDE DEF r
  <2>2. InitRequest(op, s) = <<>> \/ (s[op] # 0 /\ InitRequest(op, s) = <<r>>)
    BY DEF InitRequest, r
  <2>3. Rounded(<<>>) /\ (s[op] # 0 => Rounded(<<r>>))
    BY <2>1, RoundedNothing, RoundedSingle
  <2>4. <<>> \in Seq(Request) /\ <<r>> \in Seq(Request)
    BY <2>1
  <2> QED BY <2>2, <2>3, <2>4
<1> DEFINE a == InitRequest("auth", s)
           b == InitRequest("select", s)
           c == InitRequest("setName", s)
<1>2. /\ a \in Seq(Request) /\ b \in Seq(Request) /\ c \in Seq(Request)
      /\ Rounded(a) /\ Rounded(b) /\ Rounded(c)
  BY <1>1 DEF SessionOps
<1>3. InitRequests(s) = (a \o b) \o c
  BY DEF InitRequests
<1> HIDE DEF a, b, c
<1>4. a \o b \in Seq(Request) /\ Rounded(a \o b)
  BY <1>2, RoundedConcat, ConcatEnds
<1> DEFINE ab == a \o b
<1>5. ab \in Seq(Request) /\ Rounded(ab) /\ InitRequests(s) = ab \o c
  BY <1>3, <1>4
<1> HIDE DEF ab
<1>6. ab \o c \in Seq(Request) /\ Rounded(ab \o c)
  BY <1>2, <1>5, RoundedConcat, ConcatEnds
<1> QED BY <1>5, <1>6

-----------------------------------------------------------------------------
(* The requests in the mailbox of an IOActor.                              *)

Ask(m) == IF m.type = "Request" THEN <<m.req>> ELSE <<>>
AsksOf(box) == [k \in DOMAIN box |-> Ask(box[k])]
Asks(box, s) == s \in Seq(Request) /\ Flat(AsksOf(box), s)

LEMMA AskTypes ==
    /\ \A m \in IOMessage : Ask(m) \in Seq(Request)
    /\ \A box \in Seq(IOMessage) :
         /\ AsksOf(box) \in Seq(Seq(Request)) /\ Len(AsksOf(box)) = Len(box)
         /\ \A k \in 1..Len(box) : AsksOf(box)[k] = Ask(box[k])
<1>1. ASSUME NEW m \in IOMessage PROVE Ask(m) \in Seq(Request)
  <2>1. m.type = "Request" => m.req \in Request
    BY DEF IOMessage, IOSignals
  <2>2. m.type = "Request" => <<m.req>> \in Seq(Request)
    BY <2>1
  <2>3. <<>> \in Seq(Request)
    OBVIOUS
  <2> QED BY <2>2, <2>3 DEF Ask
<1>2. ASSUME NEW box \in Seq(IOMessage)
      PROVE  /\ AsksOf(box) \in Seq(Seq(Request)) /\ Len(AsksOf(box)) = Len(box)
             /\ \A k \in 1..Len(box) : AsksOf(box)[k] = Ask(box[k])
  <2>1. \A k \in 1..Len(box) : Ask(box[k]) \in Seq(Request)
    BY <1>1
  <2> QED BY <2>1 DEF AsksOf
<1> QED BY <1>1, <1>2

LEMMA AsksConcat ==
    ASSUME NEW box \in Seq(IOMessage), NEW ms \in Seq(IOMessage)
    PROVE  AsksOf(box \o ms) = AsksOf(box) \o AsksOf(ms)
<1> DEFINE u == box \o ms
           x == AsksOf(u)
           y == AsksOf(box)
           z == AsksOf(ms)
           v == y \o z
           T == Seq(Request)
<1>1. /\ u \in Seq(IOMessage) /\ Len(u) = Len(box) + Len(ms)
      /\ \A k \in 1..Len(box) + Len(ms) : u[k] = IF k <= Len(box) THEN box[k] ELSE ms[k - Len(box)]
  BY ConcatProperties
<1> HIDE DEF u
<1>2. /\ x \in Seq(T) /\ Len(x) = Len(u) /\ \A k \in 1..Len(u) : x[k] = Ask(u[k])
      /\ y \in Seq(T) /\ Len(y) = Len(box) /\ \A k \in 1..Len(box) : y[k] = Ask(box[k])
      /\ z \in Seq(T) /\ Len(z) = Len(ms) /\ \A k \in 1..Len(ms) : z[k] = Ask(ms[k])
  BY <1>1, AskTypes
<1> HIDE DEF x, y, z, T
<1>3. /\ v \in Seq(T) /\ Len(v) = Len(box) + Len(ms)
      /\ \A k \in 1..Len(box) + Len(ms) : v[k] = IF k <= Len(box) THEN y[k] ELSE z[k - Len(box)]
  <2>1. /\ v \in Seq(T) /\ Len(v) = Len(y) + Len(z)
        /\ \A k \in 1..Len(y) + Len(z) : v[k] = IF k <= Len(y) THEN y[k] ELSE z[k - Len(y)]
    <3>1. y \in Seq(T) /\ z \in Seq(T)
      BY <1>2
    <3> QED BY <3>1, ConcatProperties
  <2>2. Len(y) = Len(box) /\ Len(z) = Len(ms)
    BY <1>2
  <2> HIDE DEF v
  <2> QED BY <2>1, <2>2
<1> HIDE DEF v
<1>4. Len(box) \in Nat /\ Len(ms) \in Nat
  OBVIOUS
<1>5. \A k \in 1..Len(x) : x[k] = v[k]
  <2> TAKE k \in 1..Len(x)
  <2>1. k \in 1..Len(box) + Len(ms) /\ k \in 1..Len(u)
    BY <1>1, <1>2
  <2>2. CASE k <= Len(box)
    <3>1. k \in 1..Len(box)
      BY <1>4, <2>1, <2>2
    <3> QED BY <1>1, <1>2, <1>3, <2>1, <2>2, <3>1
  <2>3. CASE ~(k <= Len(box))
    <3>1. k - Len(box) \in 1..Len(ms)
      BY <1>4, <2>1, <2>3
    <3> QED BY <1>1, <1>2, <1>3, <2>1, <2>3, <3>1
  <2> QED BY <2>2, <2>3
<1>6. x = v
  BY <1>1, <1>2, <1>3, <1>5, SeqEqual
<1> QED BY <1>6 DEF x, y, z, v, u

LEMMA AsksMore ==
    ASSUME NEW box \in Seq(IOMessage), NEW ms \in Seq(IOMessage),
           NEW s, NEW t, Asks(box, s), Asks(ms, t)
    PROVE  Asks(box \o ms, s \o t)
<1> DEFINE y == AsksOf(box)
           z == AsksOf(ms)
<1>1. y \in Seq(Seq(Request)) /\ z \in Seq(Seq(Request)) /\ AsksOf(box \o ms) = y \o z
  BY AskTypes, AsksConcat
<1>2. s \in Seq(Request) /\ t \in Seq(Request) /\ Flat(y, s) /\ Flat(z, t)
  BY DEF Asks
<1> HIDE DEF y, z
<1>3. Flat(y \o z, s \o t) /\ s \o t \in Seq(Request)
  BY <1>1, <1>2, FlatConcat
<1> QED BY <1>1, <1>3 DEF Asks

LEMMA AsksTail ==
    ASSUME NEW box \in Seq(IOMessage), box # <<>>, NEW s, Asks(box, s)
    PROVE  \E z \in Seq(Request) : s = Ask(Head(box)) \o z /\ Asks(Tail(box), z)
<1> DEFINE y == AsksOf(box)
<1>1. y \in Seq(Seq(Request)) /\ y # <<>> /\ Head(y) = Ask(Head(box)) /\ Tail(y) = AsksOf(Tail(box))
  BY AskTypes DEF AsksOf
<1>2. s \in Seq(Request) /\ Flat(y, s)
  BY DEF Asks
<1> HIDE DEF y
<1>3. PICK z \in Seq(Request) : s = Head(y) \o z /\ Flat(Tail(y), z)
  BY <1>1, <1>2, FlatTail
<1> QED BY <1>1, <1>3 DEF Asks

LEMMA AsksNothing ==
    ASSUME NEW box \in Seq(IOMessage), NoneOf(box, {"Request"})
    PROVE  \A s : Asks(box, s) <=> s = <<>>
<1> DEFINE y == AsksOf(box)
<1>1. y \in Seq(Seq(Request)) /\ Len(y) = Len(box) /\ \A k \in 1..Len(box) : y[k] = Ask(box[k])
  BY AskTypes
<1>2. \A k \in 1..Len(box) : Ask(box[k]) = <<>>
  BY DEF NoneOf, Ask
<1>3. \A k \in DOMAIN y : y[k] = <<>>
  <2>1. DOMAIN y = 1..Len(box)
    BY <1>1
  <2> HIDE DEF y
  <2> QED BY <1>1, <1>2, <2>1
<1>4. <<>> \in Seq(Request)
  OBVIOUS
<1> HIDE DEF y
<1>5. \A s \in Seq(Request) : Flat(y, s) <=> s = <<>>
  BY <1>1, <1>3, FlatNothing
<1> QED BY <1>4, <1>5 DEF Asks, y

LEMMA AsksRequests ==
    ASSUME NEW rs \in Seq(Request)
    PROVE  IORequests(rs) \in Seq(IOMessage) /\ Asks(IORequests(rs), rs)
<1> DEFINE ms == IORequests(rs)
           y == AsksOf(ms)
<1>1. ms \in Seq(IOMessage) /\ Len(ms) = Len(rs)
      /\ \A k \in 1..Len(rs) : ms[k].type = "Request" /\ ms[k].req = rs[k]
  BY IORequestsType DEF IORequests
<1> HIDE DEF ms
<1>2. y \in Seq(Seq(Request)) /\ Len(y) = Len(ms) /\ \A k \in 1..Len(ms) : y[k] = Ask(ms[k])
  BY <1>1, AskTypes
<1> HIDE DEF y
<1>3. \A k \in 1..Len(rs) : y[k] = <<rs[k]>>
  <2> TAKE k \in 1..Len(rs)
  <2>1. Ask(ms[k]) = <<ms[k].req>>
    BY <1>1 DEF Ask
  <2> QED BY <1>1, <1>2, <2>1
<1>4. Flat(y, rs)
  BY <1>1, <1>2, <1>3, FlatSingles
<1> QED BY <1>1, <1>4 DEF Asks, y, ms

(* A message that is no request.                                           *)
LEMMA AsksSignal ==
    ASSUME NEW box \in Seq(IOMessage), NEW m \in IOMessage, m.type # "Request",
           NEW s, Asks(box, s)
    PROVE  Asks(box \o <<m>>, s)
<1>1. <<m>> \in Seq(IOMessage) /\ NoneOf(<<m>>, {"Request"})
  BY DEF NoneOf
<1>2. Asks(<<m>>, <<>>)
  BY <1>1, AsksNothing
<1>3. Asks(box \o <<m>>, s \o <<>>)
  BY <1>1, <1>2, AsksMore
<1>4. s \o <<>> = s
  BY DEF Asks
<1> QED BY <1>3, <1>4

LEMMA AsksHead ==
    ASSUME NEW box \in Seq(IOMessage), box # <<>>, NEW s, Asks(box, s)
    PROVE  /\ Head(box).type # "Request" => Asks(Tail(box), s)
           /\ Head(box).type = "Request" => /\ Head(box).req \in Request
                                            /\ \E z : s = <<Head(box).req>> \o z /\ Asks(Tail(box), z)
<1>1. PICK z \in Seq(Request) : s = Ask(Head(box)) \o z /\ Asks(Tail(box), z)
  BY AsksTail
<1>2. ASSUME Head(box).type # "Request" PROVE Asks(Tail(box), s)
  <2>1. s = <<>> \o z
    BY <1>1, <1>2 DEF Ask
  <2>2. s = z
    BY <2>1
  <2> QED BY <1>1, <2>2
<1>3. ASSUME Head(box).type = "Request"
      PROVE  Head(box).req \in Request /\ \E y : s = <<Head(box).req>> \o y /\ Asks(Tail(box), y)
  <2>1. Head(box) \in IOMessage
    OBVIOUS
  <2>2. Head(box).req \in Request
    BY <1>3, <2>1 DEF IOMessage, IOSignals
  <2>3. s = <<Head(box).req>> \o z
    BY <1>1, <1>3 DEF Ask
  <2> QED BY <1>1, <2>2, <2>3
<1> QED BY <1>2, <1>3

-----------------------------------------------------------------------------
(* What the server expects of a connection.                                *)

(* The server may execute r next: what comes after a QUIT it never does;   *)
(* in a transaction it has queued those between MULTI and r.               *)
Expects(t, r) ==
    \/ t.quit
    \/ ~t.multi /\ First(r)
    \/ t.multi /\ \E item \in Items :
         /\ item.type = "Transaction"
         /\ \E j \in 1..Len(item.reqs) - 1 :
              /\ t.members = [k \in 1..j - 1 |-> item.reqs[k + 1].id]
              /\ r = item.reqs[j + 1]
Ordered(t, l) == InRuns(l) /\ (l # <<>> => Expects(t, l[1]))
Ended(t, l) == IF l = <<>> THEN t.quit \/ ~t.multi ELSE Last(l[Len(l)])

(* The requests l bring the session of t to g.                             *)
Leads(t, l, g) == Ended(t, l) /\ (SessionsAreAccepted => Remember(t.settings, l) = g)

(* What is executed together: a request, or a transaction without MULTI.   *)
Members(item) == [k \in 1..Len(item.reqs) - 1 |-> item.reqs[k + 1].id]
WholeItem(ids) ==
    \E item \in Items : \/ item.type = "Request" /\ ids = <<item.reqs[1].id>>
                        \/ item.type = "Transaction" /\ ids = Members(item)

(* What a command does to the server's transaction.                        *)
Runs(t, r, u) ==
    /\ u.quit = (r.op = "quit")
    /\ u.multi = ((t.multi \/ r.op = "multi") /\ r.op # "exec")
    /\ u.members = IF t.multi /\ r.op # "exec" THEN Append(t.members, r.id)
                   ELSE IF r.op = "exec" THEN <<>> ELSE t.members

LEMMA SingleFacts ==
    ASSUME NEW r, Single(r)
    PROVE  /\ r.op \notin {"multi", "exec"} /\ \A q : ~Inside(r, q)
           /\ r.id # Internal => WholeItem(<<r.id>>)
<1>1. CASE r.id = Internal /\ r.op \in SessionOps
  BY <1>1, InsideFacts DEF SessionOps
<1>2. ASSUME NEW item \in Items, item.type = "Request", r = item.reqs[1]
      PROVE  r.op \notin {"multi", "exec"} /\ WholeItem(<<r.id>>)
  <2>1. 1 \in 1..Len(item.reqs)
    BY <1>2, ItemFacts
  <2> QED BY <1>2, <2>1, ItemFacts DEF WholeItem
<1> QED BY <1>1, <1>2, InsideFacts DEF Single

LEMMA InsideNext ==
    ASSUME NEW item \in Items, item.type = "Transaction", NEW j \in 2..Len(item.reqs),
           NEW q, Inside(item.reqs[j], q)
    PROVE  j < Len(item.reqs) /\ q = item.reqs[j + 1]
<1>1. PICK other \in Items : /\ other.type = "Transaction"
                             /\ \E i \in 1..Len(other.reqs) - 1 : /\ item.reqs[j] = other.reqs[i]
                                                                  /\ q = other.reqs[i + 1]
  BY DEF Inside
<1>2. PICK i \in 1..Len(other.reqs) - 1 : item.reqs[j] = other.reqs[i] /\ q = other.reqs[i + 1]
  BY <1>1
<1>3. Len(item.reqs) \in Nat /\ Len(other.reqs) \in Nat
  BY ItemFacts
<1>4. j \in 1..Len(item.reqs) /\ i \in 1..Len(other.reqs) /\ j # 1
  BY <1>3
<1>5. item.reqs[j].id # Internal
  BY <1>4, ItemFacts
<1>6. item = other /\ j = i
  BY <1>2, <1>4, <1>5, ItemsApart
<1> QED BY <1>2, <1>3, <1>6

LEMMA MultiNext ==
    ASSUME NEW r, r.op = "multi", NEW q, Inside(r, q)
    PROVE  \E item \in Items : item.type = "Transaction" /\ q = item.reqs[1 + 1] /\ Len(item.reqs) >= 2
<1>1. PICK item \in Items : /\ item.type = "Transaction"
                            /\ \E i \in 1..Len(item.reqs) - 1 : r = item.reqs[i] /\ q = item.reqs[i + 1]
  BY DEF Inside
<1>2. PICK i \in 1..Len(item.reqs) - 1 : r = item.reqs[i] /\ q = item.reqs[i + 1]
  BY <1>1
<1>3. i \in 1..Len(item.reqs) /\ Len(item.reqs) >= 2
  BY <1>1, ItemFacts
<1>4. i = 1
  BY <1>2, <1>3, ItemFacts
<1> QED BY <1>1, <1>2, <1>3, <1>4

(* A member of a transaction, or its EXEC.                                 *)
LEMMA MemberFacts ==
    ASSUME NEW item \in Items, item.type = "Transaction", NEW j \in 2..Len(item.reqs)
    PROVE  /\ item.reqs[j].op # "multi" /\ item.reqs[j].id # Internal
           /\ item.reqs[j].op = "exec" <=> j = Len(item.reqs)
           /\ ~Single(item.reqs[j])
           /\ Last(item.reqs[j]) <=> j = Len(item.reqs)
<1>1. j \in 1..Len(item.reqs) /\ j # 1 /\ Len(item.reqs) \in Nat
  BY ItemFacts
<1>2. /\ item.reqs[j].op # "multi" /\ item.reqs[j].id # Internal
      /\ item.reqs[j].op = "exec" <=> j = Len(item.reqs)
  BY <1>1, ItemFacts
<1>3. ~Single(item.reqs[j])
  <2> SUFFICES ASSUME NEW other \in Items, other.type = "Request", item.reqs[j] = other.reqs[1]
               PROVE  FALSE
    BY <1>2 DEF Single
  <2>1. 1 \in 1..Len(other.reqs)
    BY ItemFacts
  <2>2. item = other
    BY <1>1, <1>2, <2>1, ItemsApart
  <2> QED BY <2>2
<1> QED BY <1>2, <1>3 DEF Last

(* The server takes a command it expects.                                  *)
LEMMA RunsOn ==
    ASSUME NEW t, NEW u, NEW r \in Request, ~t.quit, t.multi \in BOOLEAN,
           t.members # <<>> => t.multi, t.members \in Seq(Idents), Runs(t, r, u), Expects(t, r)
    PROVE  /\ u.members # <<>> => u.multi
           /\ \A q : Follows(r, q) => Expects(u, q)
           /\ Last(r) => u.quit \/ ~u.multi
           /\ ~(t.multi /\ r.op # "exec") /\ r.id # Internal =>
                WholeItem(IF r.op = "exec" THEN Append(t.members, r.id) ELSE <<r.id>>)
<1> DEFINE Goal ==
             /\ u.members # <<>> => u.multi
             /\ \A q : Follows(r, q) => Expects(u, q)
             /\ Last(r) => u.quit \/ ~u.multi
             /\ ~(t.multi /\ r.op # "exec") /\ r.id # Internal =>
                  WholeItem(IF r.op = "exec" THEN Append(t.members, r.id) ELSE <<r.id>>)
<1>1. CASE ~t.multi /\ Single(r)
  <2>1. r.op \notin {"multi", "exec"} /\ (\A q : ~Inside(r, q)) /\ t.members = <<>>
        /\ (r.id # Internal => WholeItem(<<r.id>>))
    BY <1>1, SingleFacts
  <2>2. ~u.multi /\ u.members = <<>> /\ (r.op = "quit" => u.quit)
    BY <1>1, <2>1 DEF Runs
  <2> QED BY <2>1, <2>2 DEF Follows, Expects
<1>2. CASE ~t.multi /\ r.op = "multi" /\ r.id = Internal
  <2>1. u.multi /\ u.members = <<>>
    BY <1>2 DEF Runs
  <2>2. ~Last(r) /\ r.op # "quit" /\ r.op # "exec"
    BY <1>2, SingleFacts DEF Last
  <2>3. ASSUME NEW q, Inside(r, q) PROVE Expects(u, q)
    <3>1. PICK item \in Items : item.type = "Transaction" /\ q = item.reqs[1 + 1] /\ Len(item.reqs) >= 2
      BY <1>2, <2>3, MultiNext
    <3>2. 1 \in 1..Len(item.reqs) - 1
      BY <3>1, ItemFacts
    <3>3. u.members = [k \in 1..1 - 1 |-> item.reqs[k + 1].id]
      BY <2>1
    <3> QED BY <2>1, <3>1, <3>2, <3>3 DEF Expects
  <2> QED BY <1>2, <2>1, <2>2, <2>3 DEF Follows
<1>3. ASSUME t.multi, NEW item \in Items, item.type = "Transaction", NEW j \in 1..Len(item.reqs) - 1,
             t.members = [k \in 1..j - 1 |-> item.reqs[k + 1].id], r = item.reqs[j + 1]
      PROVE  Goal
  <2> DEFINE L == Len(item.reqs)
             i == j + 1
             more == Append(t.members, r.id)
  <2>1. L \in Nat /\ j \in Nat /\ j >= 1 /\ i \in 2..L /\ j = i - 1 /\ j + 1 = i
    BY <1>3, ItemFacts
  <2>2. /\ r.op # "multi" /\ r.id # Internal /\ ~Single(r)
        /\ (r.op = "exec" <=> i = L) /\ (Last(r) <=> i = L)
    <3>1. r = item.reqs[i]
      BY <1>3
    <3> HIDE DEF i
    <3> QED BY <1>3, <2>1, <3>1, MemberFacts
  <2>3. more = [k \in 1..j |-> item.reqs[k + 1].id]
    <3> DEFINE g == [k \in 1..j |-> item.reqs[k + 1].id]
    <3>1. \A k \in 1..j : item.reqs[k + 1].id \in Idents
      <4> TAKE k \in 1..j
      <4>1. k + 1 \in 1..L
        BY <2>1
      <4>2. item.reqs[k + 1] \in Request
        BY <4>1, ItemFacts
      <4> QED BY <4>2 DEF Request, Idents
    <3>2. g \in Seq(Idents) /\ Len(g) = j /\ \A k \in 1..j : g[k] = item.reqs[k + 1].id
      <4>1. g \in [1..j -> Idents] /\ j \in Nat
        BY <2>1, <3>1, Zenon
      <4>2. \A k \in 1..j : g[k] = item.reqs[k + 1].id
        OBVIOUS
      <4> HIDE DEF g
      <4>3. g \in Seq(Idents) /\ Len(g) = j
        BY <4>1
      <4> QED BY <4>2, <4>3
    <3>3. Len(t.members) = j - 1 /\ \A k \in 1..j - 1 : t.members[k] = item.reqs[k + 1].id
      BY <1>3, <2>1
    <3> HIDE DEF g
    <3>4. r.id \in Idents
      BY DEF Request, Idents
    <3>5. /\ more \in Seq(Idents) /\ Len(more) = j
          /\ \A k \in 1..j - 1 : more[k] = t.members[k]
          /\ more[j] = r.id
      BY <2>1, <3>3, <3>4
    <3>6. \A k \in 1..j : more[k] = g[k]
      <4> TAKE k \in 1..j
      <4>1. CASE k = j
        BY <1>3, <2>1, <3>2, <3>5, <4>1
      <4>2. CASE k # j
        <5>1. k \in 1..j - 1
          BY <2>1, <4>2
        <5> QED BY <3>2, <3>3, <3>5, <5>1
      <4> QED BY <4>1, <4>2
    <3> HIDE DEF more
    <3>7. more = g
      BY <3>2, <3>5, <3>6, SeqEqual
    <3> QED BY <3>7 DEF g
  <2> HIDE DEF more
  <2>4. CASE i = L
    <3>1. r.op = "exec" /\ ~u.multi /\ u.members = <<>> /\ ~u.quit
      BY <2>2, <2>4 DEF Runs
    <3>2. ASSUME NEW q, Inside(r, q) PROVE FALSE
      BY <3>1, <3>2, InsideFacts
    <3>3. more = Members(item)
      BY <2>1, <2>3, <2>4 DEF Members
    <3>4. WholeItem(more)
      BY <1>3, <3>3 DEF WholeItem
    <3> QED BY <2>2, <3>1, <3>2, <3>4 DEF Follows, Expects, more
  <2>5. CASE i # L
    <3>1. r.op # "exec" /\ ~Last(r) /\ u.multi /\ u.members = more
      BY <1>3, <2>2, <2>5 DEF Runs, more
    <3>2. ASSUME NEW q, Inside(r, q) PROVE Expects(u, q)
      <4>1. i < L /\ q = item.reqs[i + 1]
        BY <1>3, <2>1, <3>2, InsideNext, ZenonT(30)
      <4>2. i \in 1..L - 1 /\ i - 1 = j
        BY <2>1, <4>1
      <4>3. u.members = [k \in 1..i - 1 |-> item.reqs[k + 1].id]
        BY <2>3, <3>1, <4>2
      <4> QED BY <1>3, <3>1, <4>1, <4>2, <4>3 DEF Expects
    <3>3. r.op = "quit" => \A q : Expects(u, q)
      BY DEF Runs, Expects
    <3>4. \A q : Follows(r, q) => Expects(u, q)
      BY <3>1, <3>2, <3>3 DEF Follows
    <3> QED BY <1>3, <3>1, <3>4
  <2> QED BY <2>4, <2>5
<1>4. (~t.multi /\ First(r)) \/ t.multi
  BY DEF Expects
<1>5. CASE t.multi
  <2>1. PICK item \in Items :
          /\ item.type = "Transaction"
          /\ \E j \in 1..Len(item.reqs) - 1 :
               /\ t.members = [k \in 1..j - 1 |-> item.reqs[k + 1].id]
               /\ r = item.reqs[j + 1]
    BY <1>5 DEF Expects
  <2> QED BY <1>3, <1>5, <2>1
<1> QED BY <1>1, <1>2, <1>4, <1>5 DEF First

LEMMA OrderedNothing == \A t : Ordered(t, <<>>)
BY DEF Ordered, InRuns

LEMMA OrderedPart ==
    ASSUME NEW t, NEW s \in Seq(Request), NEW z \in Seq(Request), Ordered(t, s \o z)
    PROVE  Ordered(t, s)
<1>1. InRuns(s)
  BY RunsParts DEF Ordered
<1>2. s # <<>> => s \o z # <<>> /\ (s \o z)[1] = s[1]
  BY ConcatEnds
<1> QED BY <1>1, <1>2 DEF Ordered

(* Requests that begin and end with whole items are sent.                  *)
LEMMA OrderedMore ==
    ASSUME NEW t, NEW l \in Seq(Request), NEW rs \in Seq(Request), Rounded(rs),
           Ordered(t, l), Ended(t, l)
    PROVE  Ordered(t, l \o rs) /\ Ended(t, l \o rs)
<1>1. CASE rs = <<>>
  BY <1>1, ConcatEnds
<1>2. CASE rs # <<>> /\ l = <<>>
  <2>1. l \o rs = rs
    BY <1>2, ConcatEnds
  <2>2. First(rs[1]) /\ Last(rs[Len(rs)]) /\ InRuns(rs)
    BY <1>2 DEF Rounded
  <2>3. t.quit \/ ~t.multi
    BY <1>2 DEF Ended
  <2>4. Expects(t, rs[1])
    BY <2>2, <2>3 DEF Expects
  <2> QED BY <1>2, <2>1, <2>2, <2>4 DEF Ordered, Ended
<1>3. CASE rs # <<>> /\ l # <<>>
  <2> DEFINE u == l \o rs
  <2>1. First(rs[1]) /\ Last(rs[Len(rs)]) /\ InRuns(rs)
    BY <1>3 DEF Rounded
  <2>2. Last(l[Len(l)]) /\ InRuns(l) /\ Expects(t, l[1])
    BY <1>3 DEF Ordered, Ended
  <2>3. Follows(l[Len(l)], rs[1])
    BY <2>1, <2>2 DEF Follows
  <2>4. InRuns(u)
    BY <2>1, <2>2, <2>3, RunsConcat
  <2>5. u # <<>> /\ u[1] = l[1] /\ u[Len(u)] = rs[Len(rs)]
    BY <1>3, ConcatEnds
  <2> HIDE DEF u
  <2> QED BY <2>1, <2>2, <2>4, <2>5 DEF Ordered, Ended, u
<1> QED BY <1>1, <1>2, <1>3

(* The server takes the first of them.                                     *)
LEMMA OrderedRuns ==
    ASSUME NEW t, NEW u, NEW r \in Request, ~t.quit, t.multi \in BOOLEAN,
           t.members # <<>> => t.multi, t.members \in Seq(Idents), Runs(t, r, u),
           NEW l \in Seq(Request), Ordered(t, <<r>> \o l)
    PROVE  Expects(t, r) /\ Ordered(u, l) /\ (Ended(t, <<r>> \o l) => Ended(u, l))
<1> DEFINE o == <<r>>
           w == o \o l
<1>1. o \in Seq(Request) /\ o # <<>> /\ Len(o) = 1 /\ o[1] = r
  OBVIOUS
<1> HIDE DEF o
<1>2. /\ w # <<>> /\ w[1] = r /\ (l = <<>> => w[Len(w)] = r)
      /\ l # <<>> => w[Len(w)] = l[Len(l)]
  BY <1>1, ConcatEnds
<1>3. Expects(t, r) /\ InRuns(l) /\ (l # <<>> => Follows(r, l[1]))
  <2>1. InRuns(w) /\ Expects(t, r)
    BY <1>2 DEF Ordered, o
  <2> QED BY <1>1, <2>1, RunsParts
<1>4. /\ \A q : Follows(r, q) => Expects(u, q)
      /\ Last(r) => u.quit \/ ~u.multi
  BY <1>3, RunsOn
<1>5. Ordered(u, l)
  BY <1>3, <1>4 DEF Ordered
<1>6. ASSUME Ended(t, w) PROVE Ended(u, l)
  BY <1>2, <1>4, <1>6 DEF Ended
<1> QED BY <1>3, <1>5, <1>6 DEF o

LEMMA LeadsMore ==
    ASSUME NEW t, t.settings \in SettingsType, NEW l \in Seq(Request), NEW rs \in Seq(Request),
           Rounded(rs), NEW g, Ordered(t, l), Leads(t, l, g)
    PROVE  Ordered(t, l \o rs) /\ Leads(t, l \o rs, Remember(g, rs))
<1>1. Ordered(t, l \o rs) /\ Ended(t, l \o rs)
  BY OrderedMore DEF Leads
<1>2. Remember(t.settings, l \o rs) = Remember(Remember(t.settings, l), rs)
  BY RememberMore
<1> QED BY <1>1, <1>2 DEF Leads

(* What the server changes in the session on r.                            *)
Sets(t, r, u) ==
    u.settings = IF /\ r.op \in SessionOps /\ r.value \notin Rejected
                    /\ ~(t.multi /\ r.op # "exec")
                 THEN [t.settings EXCEPT ![r.op] = r.value] ELSE t.settings

(* No setting that is expected is refused, or put off by a MULTI.          *)
LEMMA ExpectedSets ==
    ASSUME SessionsAreAccepted, NEW t, NEW u, NEW r \in Request, t.settings \in SettingsType,
           ~t.quit, t.multi \in BOOLEAN, Expects(t, r), Sets(t, r, u)
    PROVE  u.settings = Remember(t.settings, <<r>>)
<1>1. Remember(t.settings, <<r>>)
        = IF r.op \in SessionOps THEN [t.settings EXCEPT ![r.op] = r.value] ELSE t.settings
  BY RememberOne
<1>2. CASE r.op \notin SessionOps
  BY <1>1, <1>2 DEF Sets
<1>3. CASE r.op \in SessionOps
  <2>1. r.op \notin {"multi", "exec"}
    BY <1>3 DEF SessionOps
  <2>2. ~t.multi
    <3> SUFFICES ASSUME t.multi PROVE FALSE
      OBVIOUS
    <3>1. PICK item \in Items :
            /\ item.type = "Transaction"
            /\ \E j \in 1..Len(item.reqs) - 1 : r = item.reqs[j + 1]
      BY DEF Expects
    <3>2. PICK j \in 1..Len(item.reqs) - 1 : r = item.reqs[j + 1]
      BY <3>1
    <3>3. j + 1 \in DOMAIN item.reqs
      BY <3>2, ItemFacts
    <3> QED BY <1>3, <3>1, <3>2, <3>3 DEF SessionsAreAccepted
  <2>3. Single(r)
    BY <2>1, <2>2 DEF Expects, First
  <2>4. r.value \notin Rejected
    BY <1>3, <2>3, SingleKept DEF Kept, Accepted
  <2> QED BY <1>1, <1>3, <2>2, <2>4 DEF Sets
<1> QED BY <1>2, <1>3

LEMMA LeadsRuns ==
    ASSUME NEW t, NEW u, NEW r \in Request, t.settings \in SettingsType,
           u.settings \in SettingsType,
           ~t.quit, t.multi \in BOOLEAN, Expects(t, r), Sets(t, r, u),
           NEW l \in Seq(Request), NEW g, Leads(t, <<r>> \o l, g), Ended(u, l)
    PROVE  Leads(u, l, g)
<1> SUFFICES ASSUME SessionsAreAccepted PROVE Remember(u.settings, l) = g
  BY DEF Leads
<1> DEFINE o == <<r>>
<1>1. o \in Seq(Request)
  OBVIOUS
<1>2. u.settings = Remember(t.settings, o) /\ Remember(t.settings, o \o l) = g
  BY ExpectedSets DEF Leads
<1> HIDE DEF o
<1> QED BY <1>1, <1>2, RememberMore

-----------------------------------------------------------------------------
(* One IOActor and its connection.                                         *)

(* What is on the way to the server, s being what is in the mailbox.       *)
Way(a, t, s) == (t.wire \o t.writing) \o (a.requests \o s)

(* What the listener hands over can still reach the server.                *)
Feeding(a, t) == t.state = "open" /\ a.state = "connected"
Unused(a, t) ==
    /\ a.requests = <<>> /\ NoneOf(a.box, {"Request"}) /\ t.wire = <<>> /\ t.writing = <<>>
    /\ ~t.multi /\ t.members = <<>> /\ t.settings = Zeros
Orderly(a, t, g) ==
    /\ t.members # <<>> => t.multi
    /\ Ordered(t, t.wire \o t.writing)
    /\ Feeding(a, t) =>
         \E s : Asks(a.box, s) /\ Ordered(t, Way(a, t, s)) /\ Leads(t, Way(a, t, s), g)
    /\ a.state \in {"none", "connecting"} => Unused(a, t) /\ g = Zeros

(* The server expects the same as before.                                  *)
SameTurn(t, u) ==
    /\ u.quit = t.quit /\ u.multi = t.multi /\ u.members = t.members
    /\ u.settings = t.settings

LEMMA TurnStays ==
    ASSUME NEW t, NEW u, SameTurn(t, u)
    PROVE  \A l : /\ Ordered(t, l) <=> Ordered(u, l)
                  /\ \A g : Leads(t, l, g) <=> Leads(u, l, g)
BY DEF SameTurn, Ordered, Ended, Expects, Leads

LEMMA WayTypes ==
    ASSUME NEW a \in IOType, NEW t \in TcpType, NEW s \in Seq(Request)
    PROVE  /\ t.wire \o t.writing \in Seq(Request) /\ a.requests \o s \in Seq(Request)
           /\ Way(a, t, s) \in Seq(Request)
BY ActorFields, ConnectionFields, ConcatEnds DEF Way

(* Nothing of what is on the way has changed.                              *)
LEMMA OrderlyStays ==
    ASSUME NEW g, NEW a, NEW t, NEW b, NEW u, Orderly(a, t, g), SameTurn(t, u),
           u.wire = t.wire, u.writing = t.writing,
           Feeding(b, u) => /\ Feeding(a, t) /\ b.requests = a.requests
                            /\ \A s : Asks(a.box, s) => Asks(b.box, s),
           b.state \in {"none", "connecting"} =>
              /\ a.state \in {"none", "connecting"} /\ b.requests = a.requests
              /\ NoneOf(a.box, {"Request"}) => NoneOf(b.box, {"Request"})
    PROVE  Orderly(b, u, g)
<1>1. \A l : (Ordered(t, l) <=> Ordered(u, l)) /\ (Leads(t, l, g) <=> Leads(u, l, g))
  BY TurnStays
<1>2. ASSUME Feeding(b, u)
      PROVE  \E s : Asks(b.box, s) /\ Ordered(u, Way(b, u, s)) /\ Leads(u, Way(b, u, s), g)
  <2>1. PICK s : Asks(a.box, s) /\ Ordered(t, Way(a, t, s)) /\ Leads(t, Way(a, t, s), g)
    BY <1>2 DEF Orderly
  <2>2. Way(b, u, s) = Way(a, t, s)
    BY <1>2 DEF Way
  <2> QED BY <1>1, <1>2, <2>1, <2>2
<1>3. b.state \in {"none", "connecting"} => Unused(b, u)
  BY DEF Orderly, Unused, SameTurn
<1>4. (u.members # <<>> => u.multi) /\ Ordered(u, u.wire \o u.writing)
  BY <1>1 DEF Orderly, SameTurn
<1> QED BY <1>2, <1>3, <1>4 DEF Orderly

(* The IOActor is told a signal.                                           *)
LEMMA OrderlyHears ==
    ASSUME NEW g, NEW a \in IOType, NEW t, NEW b, NEW u, NEW m, Orderly(a, t, g),
           Hears(a, b, m), m # "Request",
           SameTurn(t, u), u.wire = t.wire, u.writing = t.writing,
           Feeding(b, u) => t.state = "open"
    PROVE  Orderly(b, u, g)
<1>1. a.box \in Seq(IOMessage) /\ b.requests = a.requests /\ b.state = a.state
  BY ActorFields DEF Hears
<1>2. b.box = a.box \/ \E x \in IOMessage : b.box = a.box \o <<x>> /\ x.type # "Request"
  BY DEF Hears
<1>3. \A s : Asks(a.box, s) => Asks(b.box, s)
  BY <1>1, <1>2, AsksSignal
<1>4. NoneOf(a.box, {"Request"}) => NoneOf(b.box, {"Request"})
  BY HeardNone
<1>5. Feeding(b, u) => Feeding(a, t)
  BY <1>1 DEF Feeding
<1> QED BY <1>1, <1>3, <1>4, <1>5, OrderlyStays

(* The IOActor takes a message, and keeps its requests.                    *)
LEMMA OrderlyTakes ==
    ASSUME NEW g, NEW a \in IOType, NEW t, NEW b, NEW u, Orderly(a, t, g),
           a.box # <<>>, b.box = Tail(a.box), b.requests = a.requests,
           SameTurn(t, u), u.wire = t.wire, u.writing = t.writing,
           Feeding(b, u) => Feeding(a, t) /\ Head(a.box).type # "Request",
           b.state \in {"none", "connecting"} => a.state \in {"none", "connecting"}
    PROVE  Orderly(b, u, g)
<1>1. a.box \in Seq(IOMessage)
  BY ActorFields
<1>2. Head(a.box).type # "Request" => \A s : Asks(a.box, s) => Asks(b.box, s)
  BY <1>1, AsksHead
<1>3. NoneOf(a.box, {"Request"}) => NoneOf(b.box, {"Request"})
  BY <1>1, NoneOfTail
<1> QED BY <1>2, <1>3, OrderlyStays

LEMMA OrderlyStopped ==
    ASSUME NEW g, NEW a, NEW t, Orderly(a, t, g)
    PROVE  Orderly(Stopped, t, g)
<1>1. Stopped.state = "stopped"
  BY InertActors
<1> QED BY <1>1, OrderlyStays DEF Feeding, SameTurn

(* A batch leaves for the connection.                                      *)
LEMMA WritesParts ==
    ASSUME ConnTypes, NEW e \in Connections,
           io[e].state = "connected", io[e].box # <<>>, tcp[e].writing = <<>>,
           NEW pending \in Seq(Request), WritesNext(e, pending)
    PROVE  /\ io'[e] \in IOType /\ tcp'[e] \in TcpType
           /\ io'[e].box = Tail(io[e].box) /\ io'[e].state = "connected"
           /\ SameTurn(tcp[e], tcp'[e]) /\ tcp'[e].state = tcp[e].state
           /\ tcp'[e].wire = tcp[e].wire
           /\ tcp[e].state = "open" => pending = tcp'[e].writing \o io'[e].requests
           /\ tcp[e].state # "open" => tcp'[e] = tcp[e]
<1> DEFINE a == io[e]
           t == tcp[e]
           b == io'[e]
           u == tcp'[e]
<1> DEFINE n == IF Len(pending) < MaxWriteBatchSize THEN Len(pending) ELSE MaxWriteBatchSize
           actor == [io[e] EXCEPT !.batch = SubSeq(pending, 1, n),
                                  !.requests = Unwritten(pending, n),
                                  !.canWrite = (pending = <<>>)]
<1>1. n \in Nat /\ n <= Len(pending)
  <2>1. Len(pending) \in Nat /\ MaxWriteBatchSize \in Nat
    BY SharedAssumption
  <2> QED BY <2>1
<1>2. /\ IOBecomes(e, actor)
      /\ tcp' = IF pending # <<>> /\ tcp[e].state = "open"
                THEN [tcp EXCEPT ![e].writing = SubSeq(pending, 1, n)] ELSE tcp
  BY Zenon DEF WritesNext
<1> HIDE DEF n
<1>3. SubSeq(pending, 1, n) \in Seq(Request) /\ Unwritten(pending, n) \in Seq(Request)
  <2>1. n + 1 \in Nat \ {0} /\ Len(pending) \in Nat /\ 1 \in Nat \ {0}
    BY <1>1
  <2> QED BY <1>1, <2>1, SubSeqType DEF Unwritten
<1>4. /\ actor \in IOType /\ actor.box = a.box /\ actor.requests = Unwritten(pending, n)
      /\ actor.state = "connected"
  <2>1. io[e] \in IOType
    BY DEF ConnTypes
  <2> QED BY <1>3, <2>1 DEF IOType
<1> HIDE DEF actor
<1>5. /\ b \in IOType /\ b.box = Tail(a.box) /\ b.state = "connected"
      /\ b.requests = SubSeq(pending, n + 1, Len(pending))
  BY <1>2, <1>4, Became DEF ConnTypes, Unwritten
<1>6. /\ u \in TcpType /\ t \in TcpType /\ u.state = t.state /\ u.wire = t.wire /\ SameTurn(t, u)
      /\ u.writing = IF pending # <<>> /\ t.state = "open" THEN SubSeq(pending, 1, n) ELSE <<>>
  <2>1. tcp[e] \in TcpType
    BY DEF ConnTypes
  <2> QED BY <1>2, <2>1 DEF ConnTypes, TcpType, SameTurn
<1>7. pending = <<>> => SubSeq(pending, 1, n) = <<>>
  BY <1>1
<1>8. pending = SubSeq(pending, 1, n) \o SubSeq(pending, n + 1, Len(pending))
  BY <1>1, CutInTwo
<1>9. t.state # "open" => u = t
  BY <1>2
<1> QED BY <1>5, <1>6, <1>7, <1>8, <1>9

ReqSeqs == Seq(Request)
Cat(p, q) == p \o q

LEMMA Regroup ==
    ASSUME NEW p \in ReqSeqs, NEW q \in ReqSeqs, NEW z \in ReqSeqs
    PROVE  Cat(p, Cat(q, z)) = Cat(Cat(p, q), z)
BY ConcatAssociative DEF ReqSeqs, Cat

LEMMA Joined ==
    ASSUME NEW p \in ReqSeqs, NEW q \in ReqSeqs
    PROVE  Cat(p, q) \in ReqSeqs /\ Cat(p, <<>>) = p /\ Cat(<<>>, p) = p
BY ConcatEnds DEF ReqSeqs, Cat

(* What is written, taken, sent: the way stays, or grows at its end.       *)
LEMMA WayWrites ==
    ASSUME NEW w \in ReqSeqs, NEW f \in ReqSeqs, NEW r \in ReqSeqs, NEW z \in ReqSeqs
    PROVE  Cat(Cat(w, f), Cat(r, z)) = Cat(Cat(w, <<>>), Cat(Cat(f, r), z))
<1>1. Cat(r, z) \in ReqSeqs /\ Cat(w, <<>>) = w
  BY Joined
<1>2. Cat(f, Cat(r, z)) = Cat(Cat(f, r), z)
  BY Regroup
<1>3. Cat(w, Cat(f, Cat(r, z))) = Cat(Cat(w, f), Cat(r, z))
  BY <1>1, Regroup
<1> QED BY <1>1, <1>2, <1>3

LEMMA WayMore ==
    ASSUME NEW w \in ReqSeqs, NEW f \in ReqSeqs, NEW r \in ReqSeqs, NEW y \in ReqSeqs,
           NEW z \in ReqSeqs
    PROVE  Cat(Cat(w, f), Cat(r, Cat(z, y))) = Cat(Cat(Cat(w, f), Cat(r, z)), y)
<1>1. Cat(r, z) \in ReqSeqs /\ Cat(w, f) \in ReqSeqs
  BY Joined
<1>2. Cat(r, Cat(z, y)) = Cat(Cat(r, z), y)
  BY Regroup
<1>3. Cat(Cat(w, f), Cat(Cat(r, z), y)) = Cat(Cat(Cat(w, f), Cat(r, z)), y)
  BY <1>1, Regroup
<1> QED BY <1>2, <1>3

LEMMA WritesOrderly ==
    ASSUME NEW g, ConnTypes, NEW e \in Connections, OneWrite(io[e], tcp[e]),
           Orderly(io[e], tcp[e], g),
           IORequest(e) \/ IOWriteAck(e)
    PROVE  Orderly(io'[e], tcp'[e], g)
<1> DEFINE a == io[e]
           t == tcp[e]
           b == io'[e]
           u == tcp'[e]
           m == Head(a.box)
<1>1. /\ io \in [Connections -> IOType] /\ a \in IOType /\ t \in TcpType /\ Orderly(a, t, g)
      /\ a.box \in Seq(IOMessage) /\ a.requests \in Seq(Request)
      /\ t.wire \in Seq(Request) /\ t.writing \in Seq(Request)
  BY ActorFields, ConnectionFields DEF ConnTypes
<1>2. a.state = "connected" /\ a.box # <<>> /\ m.type \in {"Request", "WriteAck"} /\ m \in IOMessage
  BY <1>1, HeadAndTail DEF IORequest, IOWriteAck, IOReceives
<1>3. m.type = "Request" => m.req \in Request
  BY <1>2 DEF IOMessage, IOSignals
<1>4. m.type = "WriteAck" => t.writing = <<>>
  <2>1. m.type = "WriteAck" => 1 \in Acks(a.box)
    BY <1>1, <1>2 DEF Acks, AckTypes
  <2> QED BY <1>2, <2>1 DEF OneWrite
<1> DEFINE more == IF m.type = "Request" THEN <<m.req>> ELSE <<>>
           pending == a.requests \o more
<1>5. more \in Seq(Request) /\ pending \in Seq(Request)
  <2>1. more \in Seq(Request)
    BY <1>3
  <2> HIDE DEF more
  <2> QED BY <1>1, <2>1, ConcatEnds
<1>6. ASSUME NEW s, Asks(a.box, s)
      PROVE  \E z \in Seq(Request) : s = more \o z /\ Asks(Tail(a.box), z)
  <2>1. PICK z \in Seq(Request) : s = Ask(m) \o z /\ Asks(Tail(a.box), z)
    BY <1>1, <1>2, <1>6, AsksTail
  <2> QED BY <2>1 DEF Ask
<1>7. ASSUME IORequest(e), ~a.canWrite
      PROVE  b.box = Tail(a.box) /\ b.state = "connected" /\ b.requests = pending /\ u = t
  <2> DEFINE next == Append(a.requests, m.req)
             actor == [a EXCEPT !.requests = next]
  <2>1. m.type = "Request" /\ IOBecomes(e, actor) /\ UNCHANGED tcp
    BY <1>7 DEF IORequest, IOReceives
  <2>2. next \in Seq(Request) /\ next = pending
    BY <1>1, <1>3, <2>1, AppendConcat, SMTT(30)
  <2> HIDE DEF next, pending
  <2>3. actor \in IOType /\ actor.box = a.box /\ actor.requests = next /\ actor.state = a.state
    BY <1>1, <2>2 DEF IOType
  <2> HIDE DEF actor
  <2> QED BY <1>1, <1>2, <2>1, <2>2, <2>3, Became
<1>8. ASSUME ~(IORequest(e) /\ ~a.canWrite)
      PROVE  WritesNext(e, pending) /\ t.writing = <<>>
  <2>1. CASE IORequest(e) /\ a.canWrite
    <3>1. m.type = "Request" /\ WritesNext(e, Append(a.requests, m.req))
      BY <2>1 DEF IORequest, IOReceives
    <3>2. Append(a.requests, m.req) = pending
      BY <1>1, <1>3, <3>1, AppendConcat, ZenonT(30)
    <3>3. t.writing = <<>>
      BY <1>2, <2>1 DEF OneWrite
    <3> QED BY <3>1, <3>2, <3>3
  <2>2. CASE IOWriteAck(e)
    <3>1. m.type = "WriteAck" /\ WritesNext(e, a.requests)
      BY <2>2 DEF IOWriteAck, IOReceives
    <3>2. more = <<>> /\ more \in Seq(Request)
      BY <3>1
    <3> HIDE DEF more
    <3>3. pending = a.requests
      BY <1>1, <3>2, ConcatEnds
    <3> QED BY <1>4, <3>1, <3>3
  <2> QED BY <1>8, <2>1, <2>2
<1> HIDE DEF more
<1>9. /\ b.box = Tail(a.box) /\ b.state = "connected" /\ SameTurn(t, u) /\ u.state = t.state
      /\ u.wire = t.wire /\ u.writing \in Seq(Request)
      /\ b.requests \in Seq(Request) \/ t.state # "open"
      /\ t.state # "open" => u = t
      /\ t.state = "open" => \A z \in Seq(Request) :
           (u.wire \o u.writing) \o (b.requests \o z) = (t.wire \o t.writing) \o (pending \o z)
  <2>1. CASE IORequest(e) /\ ~a.canWrite
    BY <1>1, <1>5, <1>7, <2>1 DEF SameTurn
  <2>2. CASE ~(IORequest(e) /\ ~a.canWrite)
    <3>1. WritesNext(e, pending) /\ t.writing = <<>>
      BY <1>8, <2>2
    <3>2. /\ b \in IOType /\ u \in TcpType /\ b.box = Tail(a.box) /\ b.state = "connected"
          /\ SameTurn(t, u) /\ u.state = t.state /\ u.wire = t.wire
          /\ t.state = "open" => pending = u.writing \o b.requests
          /\ t.state # "open" => u = t
      <4> HIDE DEF pending
      <4> QED BY <1>2, <1>5, <3>1, WritesParts
    <3>3. u.writing \in Seq(Request) /\ b.requests \in Seq(Request)
      BY <3>2, ActorFields, ConnectionFields
    <3> HIDE DEF pending, a, b, t, u
    <3>4. ASSUME t.state = "open", NEW z \in Seq(Request)
          PROVE  (u.wire \o u.writing) \o (b.requests \o z) = (t.wire \o t.writing) \o (pending \o z)
      <4>1. (u.wire \o u.writing) \o (b.requests \o z) = (u.wire \o <<>>) \o ((u.writing \o b.requests) \o z)
        <5>1. u.wire \in ReqSeqs /\ u.writing \in ReqSeqs /\ b.requests \in ReqSeqs /\ z \in ReqSeqs
          BY <1>1, <3>2, <3>3, <3>4 DEF ReqSeqs
        <5>2. Cat(Cat(u.wire, u.writing), Cat(b.requests, z))
                = Cat(Cat(u.wire, <<>>), Cat(Cat(u.writing, b.requests), z))
          BY <5>1, WayWrites
        <5> QED BY <5>2 DEF Cat
      <4>2. u.wire \o <<>> = t.wire \o t.writing
        BY <3>1, <3>2
      <4>3. (u.writing \o b.requests) \o z = pending \o z
        BY <3>2, <3>4
      <4> QED BY <4>1, <4>2, <4>3, Zenon
    <3> QED BY <3>2, <3>3, <3>4
  <2> QED BY <2>1, <2>2
<1> HIDE DEF a, b, t, u, m
<1>10. CASE t.state # "open"
  <2>1. u = t /\ b.state = "connected" /\ ~Feeding(b, u)
    BY <1>9, <1>10 DEF Feeding
  <2> QED BY <1>1, <2>1, OrderlyStays DEF SameTurn, a, b, t, u
<1>11. CASE t.state = "open"
  <2>1. PICK s : Asks(a.box, s) /\ Ordered(t, Way(a, t, s)) /\ Leads(t, Way(a, t, s), g)
    BY <1>1, <1>2, <1>11 DEF Orderly, Feeding
  <2>2. PICK z \in Seq(Request) : s = more \o z /\ Asks(Tail(a.box), z)
    BY <1>6, <2>1
  <2>3. Way(b, u, z) = Way(a, t, s)
    <3>1. (t.wire \o t.writing) \o (a.requests \o (more \o z))
            = (t.wire \o t.writing) \o (pending \o z)
      <4>1. /\ t.wire \in ReqSeqs /\ t.writing \in ReqSeqs /\ a.requests \in ReqSeqs
            /\ more \in ReqSeqs /\ z \in ReqSeqs
        BY <1>1, <1>5, <2>2 DEF ReqSeqs
      <4> HIDE DEF pending
      <4>2. Cat(a.requests, Cat(more, z)) = Cat(Cat(a.requests, more), z)
        BY <4>1, Regroup
      <4> QED BY <4>2 DEF Cat, pending
    <3> QED BY <1>9, <1>11, <2>2, <3>1 DEF Way
  <2>4. Ordered(u, Way(b, u, z)) /\ Leads(u, Way(b, u, z), g)
    BY <1>9, <2>1, <2>3, TurnStays
  <2>5. Ordered(u, u.wire \o u.writing)
    <3>1. u.wire \o u.writing \in Seq(Request) /\ b.requests \o z \in Seq(Request)
      BY <1>1, <1>9, <1>11, ConcatEnds
    <3> QED BY <2>4, <3>1, OrderedPart DEF Way
  <2>6. u.members # <<>> => u.multi
    BY <1>1, <1>9 DEF Orderly, SameTurn
  <2>7. Asks(b.box, z)
    BY <1>9, <2>2
  <2> QED BY <1>9, <2>4, <2>5, <2>6, <2>7 DEF Orderly, b, u
<1> QED BY <1>10, <1>11

(* Every case of the behaviours of an IOActor.                             *)
LEMMA IOOrderly ==
    ASSUME NEW g, ConnTypes, NEW e \in Connections, CleanActor(io[e]), OneWrite(io[e], tcp[e]),
           Orderly(io[e], tcp[e], g), IONext(e)
    PROVE  Orderly(io'[e], tcp'[e], g)
<1> DEFINE a == io[e]
           t == tcp[e]
           b == io'[e]
           u == tcp'[e]
<1>1. /\ io \in [Connections -> IOType] /\ tcp \in [Connections -> TcpType]
      /\ a \in IOType /\ t \in TcpType /\ Orderly(a, t, g)
      /\ a.box \in Seq(IOMessage) /\ a.box \in Seq(CleanIO)
  BY ActorFields DEF ConnTypes, CleanActor
<1>2. ASSUME NEW m, IOReceives(e, m)
      PROVE  a.box # <<>> /\ Head(a.box).type = m /\ Head(a.box) \in CleanIO
  <2>1. a.box # <<>> /\ Head(a.box).type = m
    BY <1>2 DEF IOReceives
  <2> QED BY <1>1, <2>1, HeadAndTail
<1>3. ASSUME NEW actor \in IOType, IOBecomes(e, actor), actor.box = a.box,
             actor.requests = a.requests
      PROVE  b.box = Tail(a.box) /\ b.requests = a.requests /\ b.state = actor.state
  BY <1>1, <1>3, Became
<1>4. ASSUME NEW s \in IOStates, IOBecomes(e, [a EXCEPT !.state = s])
      PROVE  b.box = Tail(a.box) /\ b.requests = a.requests /\ b.state = s
  <2> DEFINE actor == [a EXCEPT !.state = s]
  <2>1. actor \in IOType /\ actor.box = a.box /\ actor.requests = a.requests /\ actor.state = s
    BY <1>1 DEF IOType
  <2> HIDE DEF actor
  <2> QED BY <1>3, <1>4, <2>1 DEF actor
<1>5. ASSUME IOBecomes(e, a) PROVE b.box = Tail(a.box) /\ b.requests = a.requests /\ b.state = a.state
  BY <1>1, <1>3, <1>5
(* It feeds the connection no longer.                                      *)
<1>6. ASSUME SameTurn(t, u), u.wire = t.wire, u.writing = t.writing,
             b.state \notin {"none", "connecting", "connected"}
      PROVE  Orderly(b, u, g)
  <2> HIDE DEF a, t, b, u
  <2> QED BY <1>1, <1>6, OrderlyStays DEF Feeding
<1>7. ASSUME UNCHANGED tcp PROVE u = t /\ SameTurn(t, u)
  BY <1>7 DEF SameTurn
<1>8. ASSUME IOStop(e), UNCHANGED tcp PROVE Orderly(b, u, g)
  <2>1. b = Stopped /\ u = t
    BY <1>1, <1>8 DEF IOStop
  <2> HIDE DEF a, t, b, u
  <2> QED BY <1>1, <2>1, OrderlyStopped
<1>9. CASE IOConnected(e)
  <2> DEFINE actor == [a EXCEPT !.state = "connected", !.connectTimer = FALSE, !.canWrite = TRUE]
  <2>1. a.state = "connecting" /\ a.box # <<>> /\ IOBecomes(e, actor)
    BY <1>2, <1>9 DEF IOConnected
  <2>2. actor \in IOType /\ actor.box = a.box /\ actor.requests = a.requests /\ actor.state = "connected"
    BY <1>1 DEF IOType, IOStates
  <2> HIDE DEF actor
  <2>3. b.box = Tail(a.box) /\ b.requests = a.requests /\ b.state = "connected"
    BY <1>3, <2>1, <2>2
  <2>4. u.wire = t.wire /\ u.writing = t.writing /\ SameTurn(t, u)
    BY <1>1, <1>9 DEF IOConnected, TcpType, SameTurn
  <2> HIDE DEF a, t, b, u
  <2>5. Unused(a, t) /\ g = Zeros
    BY <1>1, <2>1 DEF Orderly
  <2>6. NoneOf(b.box, {"Request"}) /\ b.box \in Seq(IOMessage)
    BY <1>1, <2>1, <2>3, <2>5, NoneOfTail, HeadAndTail DEF Unused
  <2>7. Asks(b.box, <<>>)
    BY <2>6, AsksNothing
  <2>8. u.wire = <<>> /\ u.writing = <<>> /\ b.requests = <<>> /\ ~u.multi /\ u.members = <<>>
    BY <2>3, <2>4, <2>5 DEF Unused, SameTurn
  <2>9. <<>> \o <<>> = <<>>
    OBVIOUS
  <2>10. Way(b, u, <<>>) = <<>> /\ u.wire \o u.writing = <<>>
    BY <2>8, <2>9 DEF Way
  <2>11. Ordered(u, <<>>) /\ Leads(u, <<>>, g)
    <3>1. u.settings = Zeros
      BY <2>4, <2>5 DEF Unused, SameTurn
    <3>2. Remember(Zeros, <<>>) = Zeros
      BY ZerosType, RememberNothing
    <3> QED BY <2>5, <2>8, <3>1, <3>2, OrderedNothing DEF Ended, Leads
  <2> QED BY <2>3, <2>7, <2>8, <2>10, <2>11 DEF Orderly, b, u
<1>10. CASE IOConnectFailed(e) \/ IOShutdownAck(e) \/ IOAborted(e)
  BY <1>8, <1>10 DEF IOConnectFailed, IOShutdownAck, IOAborted
<1>11. CASE IORequest(e) \/ IOWriteAck(e)
  BY <1>11, WritesOrderly
<1>12. CASE IOWriteFailed(e)
  BY <1>2, <1>12 DEF IOWriteFailed, CleanIO
<1>13. CASE IOShutdown(e)
  BY <1>4, <1>6, <1>7, <1>13 DEF IOShutdown, IOStates
<1>14. CASE IOTerminated(e)
  BY <1>4, <1>6, <1>7, <1>14 DEF IOTerminated, IOStates
<1>15. CASE IORejectRequest(e)
  BY <1>5, <1>6, <1>7, <1>15 DEF IORejectRequest
<1>16. CASE IOAbortAck(e)
  <2> DEFINE actor == [a EXCEPT !.state = "aborting", !.abortTimer = TRUE]
  <2>1. IOBecomes(e, actor)
    BY <1>16 DEF IOAbortAck
  <2>2. actor \in IOType /\ actor.box = a.box /\ actor.requests = a.requests /\ actor.state = "aborting"
    BY <1>1 DEF IOType, IOStates
  <2> HIDE DEF actor
  <2>3. b.state = "aborting"
    BY <1>3, <2>1, <2>2
  <2>4. u.wire = t.wire /\ u.writing = t.writing /\ SameTurn(t, u)
    BY <1>1, <1>16 DEF IOAbortAck, TcpType, SameTurn
  <2> QED BY <1>6, <2>3, <2>4
<1>17. CASE IOAbortTimeout(e)
  <2>1. a.state = "aborting"
    BY <1>17 DEF IOAbortTimeout
  <2>2. CASE t.state # "open"
    BY <1>5, <1>6, <1>7, <1>17, <2>1, <2>2 DEF IOAbortTimeout
  <2>3. CASE t.state = "open"
    <3> DEFINE more == Append(a.box, Signal("Terminated"))
               actor == [a EXCEPT !.box = more]
    <3>1. IOBecomes(e, actor)
      BY <1>17, <2>3 DEF IOAbortTimeout
    <3>2. actor.state = a.state
      BY <1>1 DEF IOType
    <3> HIDE DEF actor
    <3>3. b.state = "aborting"
      BY <1>1, <2>1, <3>1, <3>2 DEF IOBecomes
    <3>4. u.wire = t.wire /\ u.writing = t.writing /\ SameTurn(t, u)
      BY <1>1, <1>17, <2>3 DEF IOAbortTimeout, TcpType, SameTurn
    <3> QED BY <1>6, <3>3, <3>4
  <2> QED BY <2>2, <2>3
<1>18. CASE IOIgnore(e)
  <2>1. /\ u = t /\ SameTurn(t, u) /\ a.box # <<>>
        /\ b.box = Tail(a.box) /\ b.requests = a.requests /\ b.state = a.state
        /\ Head(a.box).type = "Request" => a.state \in {"connecting", "awaitingShutdown", "awaitingAbort", "aborting"}
    BY <1>2, <1>5, <1>7, <1>18 DEF IOIgnore, IOIgnored
  <2> HIDE DEF a, t, b, u
  <2>2. Feeding(b, u) => Feeding(a, t) /\ Head(a.box).type # "Request"
    BY <2>1 DEF Feeding
  <2>3. Orderly(b, u, g)
    BY <1>1, <2>1, <2>2, OrderlyTakes
  <2> QED BY <2>3 DEF b, u
<1> QED
  BY <1>9, <1>10, <1>11, <1>12, <1>13, <1>14, <1>15, <1>16, <1>17, <1>18 DEF IONext

(* The connection carries out its write.                                   *)
LEMMA OrderlySent ==
    ASSUME NEW g, NEW a \in IOType, NEW t \in TcpType, NEW u \in TcpType,
           Orderly(a, t, g), SameTurn(t, u),
           u.state = t.state, u.wire = t.wire \o t.writing, u.writing = <<>>
    PROVE  Orderly(a, u, g)
<1>1. \A l : (Ordered(t, l) <=> Ordered(u, l)) /\ (Leads(t, l, g) <=> Leads(u, l, g))
  BY TurnStays
<1>2. u.wire \o u.writing = t.wire \o t.writing
  <2>1. u.wire \in Seq(Request)
    BY ConnectionFields
  <2> QED BY <2>1, ConcatEnds
<1>3. \A s : Way(a, u, s) = Way(a, t, s)
  BY <1>2 DEF Way
<1>4. Unused(a, t) => Unused(a, u)
  <2>1. <<>> \o <<>> = <<>>
    OBVIOUS
  <2> QED BY <2>1 DEF Unused, SameTurn
<1> QED BY <1>1, <1>2, <1>3, <1>4 DEF Orderly, Feeding, SameTurn

(* It ends; the server has received a part of the write.                   *)
LEMMA OrderlyCut ==
    ASSUME NEW g, NEW a \in IOType, NEW t \in TcpType, NEW u \in TcpType,
           Orderly(a, t, g), SameTurn(t, u),
           u.state = "closed", NEW n \in 0..Len(t.writing),
           u.wire = t.wire \o SubSeq(t.writing, 1, n), u.writing = <<>>
    PROVE  Orderly(a, u, g)
<1> DEFINE p == SubSeq(t.writing, 1, n)
           z == SubSeq(t.writing, n + 1, Len(t.writing))
<1>1. t.wire \in Seq(Request) /\ t.writing \in Seq(Request) /\ u.wire \in Seq(Request)
  BY ConnectionFields
<1>2. p \in Seq(Request) /\ z \in Seq(Request) /\ t.writing = p \o z
  <2> DEFINE w == t.writing
  <2>1. w \in Seq(Request) /\ n \in Nat /\ n <= Len(w)
    BY <1>1
  <2> HIDE DEF w
  <2>2. /\ SubSeq(w, 1, n) \in Seq(Request) /\ SubSeq(w, n + 1, Len(w)) \in Seq(Request)
        /\ w = SubSeq(w, 1, n) \o SubSeq(w, n + 1, Len(w))
    BY <2>1, CutInTwo
  <2> QED BY <2>2 DEF w
<1> HIDE DEF z
<1>3. t.wire \o t.writing = u.wire \o z
  <2> HIDE DEF p
  <2>1. t.wire \in ReqSeqs /\ p \in ReqSeqs /\ z \in ReqSeqs
    BY <1>1, <1>2 DEF ReqSeqs
  <2>2. Cat(t.wire, Cat(p, z)) = Cat(Cat(t.wire, p), z)
    BY <2>1, Regroup
  <2>3. t.wire \o (p \o z) = (t.wire \o p) \o z
    BY <2>2 DEF Cat
  <2>4. u.wire = t.wire \o p
    BY DEF p
  <2> QED BY <1>2, <2>3, <2>4
<1>4. Ordered(t, u.wire)
  BY <1>1, <1>2, <1>3, OrderedPart DEF Orderly
<1>5. Ordered(u, u.wire) /\ u.wire \o u.writing = u.wire
  BY <1>1, <1>4, TurnStays, ConcatEnds
<1>6. Unused(a, t) => Unused(a, u)
  <2>1. t.writing = <<>> => p = <<>>
    <3>1. t.writing = <<>> => n = 0
      OBVIOUS
    <3> QED BY <3>1
  <2>2. <<>> \o <<>> = <<>>
    OBVIOUS
  <2> HIDE DEF p
  <2>3. u.wire = t.wire \o p
    BY DEF p
  <2> QED BY <2>1, <2>2, <2>3 DEF Unused, SameTurn
<1> QED BY <1>5, <1>6 DEF Orderly, Feeding, SameTurn

(* What the timers and the connection do.                                  *)
LEMMA ConnectionOrderly ==
    ASSUME NEW g, ConnTypes, Whole, NEW c \in Connections, Orderly(io[c], tcp[c], g),
           \/ TcpConnect(c) \/ TcpConnectFail(c) \/ TcpWrite(c) \/ TcpRead(c)
           \/ TcpAbort(c) \/ TcpQuit(c) \/ TcpDrop(c)
           \/ (FireConnectTimeout(c) \/ FireAbortTimeout(c)) /\ UNCHANGED tcp
    PROVE  Orderly(io'[c], tcp'[c], g)
<1> DEFINE a == io[c]
           t == tcp[c]
           b == io'[c]
           u == tcp'[c]
<1>1. /\ io \in [Connections -> IOType] /\ tcp \in [Connections -> TcpType]
      /\ a \in IOType /\ t \in TcpType /\ u \in TcpType /\ Orderly(a, t, g)
      /\ "Connected" \in IOSignals /\ "ConnectFailed" \in IOSignals /\ "WriteAck" \in IOSignals
      /\ "Terminated" \in IOSignals /\ "ConnectTimeout" \in IOSignals /\ "AbortTimeout" \in IOSignals
  BY DEF ConnTypes, IOSignals
<1>2. ASSUME NEW s \in IOSignals, TellIO(c, s) PROVE Hears(a, b, s)
  <2>1. b = Told(a, <<Signal(s)>>)
    BY <1>1, <1>2 DEF TellIO
  <2> HIDE DEF a, b
  <2> QED BY <1>1, <2>1, ToldHears
<1>3. CASE TcpConnect(c) \/ TcpConnectFail(c)
  <2>1. PICK s \in {"Connected", "ConnectFailed"} : TellIO(c, s)
    BY <1>3 DEF TcpConnect, TcpConnectFail
  <2>2. Hears(a, b, s)
    BY <1>1, <1>2, <2>1
  <2>3. u.state # "open" /\ u.wire = t.wire /\ u.writing = t.writing /\ SameTurn(t, u)
    BY <1>1, <1>3 DEF TcpConnect, TcpConnectFail, TcpType, SameTurn
  <2> HIDE DEF a, t, b, u
  <2>4. Orderly(b, u, g)
    BY <1>1, <2>2, <2>3, OrderlyHears DEF Feeding
  <2> QED BY <2>4 DEF b, u
<1>4. CASE TcpWrite(c)
  <2>1. Hears(a, b, "WriteAck")
    BY <1>1, <1>2, <1>4 DEF TcpWrite
  <2>2. /\ t.state = "open" /\ u.state = t.state /\ SameTurn(t, u)
        /\ u.wire = t.wire \o t.writing /\ u.writing = <<>>
    BY <1>1, <1>4 DEF TcpWrite, TcpType, SameTurn
  <2> HIDE DEF a, t, b, u
  <2>3. Orderly(a, u, g)
    BY <1>1, <2>2, OrderlySent
  <2>4. Orderly(b, u, g)
    BY <1>1, <2>1, <2>2, <2>3, OrderlyHears DEF SameTurn
  <2> QED BY <2>4 DEF b, u
<1>5. CASE TcpAbort(c) \/ TcpQuit(c) \/ TcpDrop(c)
  <2>1. Closes(c)
    BY <1>5 DEF TcpAbort, TcpQuit, TcpDrop
  <2>2. Hears(a, b, "Terminated")
    BY <1>1, <1>2, <2>1 DEF Closes
  <2>3. PICK n \in 0..Len(t.writing) :
           tcp' = [tcp EXCEPT ![c].state = "closed", ![c].abort = FALSE, ![c].net = <<>>,
                              ![c].half = FALSE, ![c].writing = <<>>,
                              ![c].wire = @ \o SubSeq(tcp[c].writing, 1, n)]
    BY <2>1 DEF Closes
  <2>4. /\ u.state = "closed" /\ u.writing = <<>> /\ SameTurn(t, u)
        /\ u.wire = t.wire \o SubSeq(t.writing, 1, n)
    <3> DEFINE wire == t.wire \o SubSeq(t.writing, 1, n)
               closed == [t EXCEPT !.state = "closed", !.abort = FALSE, !.net = <<>>,
                                   !.half = FALSE, !.writing = <<>>, !.wire = wire]
    <3>1. tcp' = [tcp EXCEPT ![c] = closed]
      BY <2>3
    <3>2. u = closed
      BY <1>1, <3>1 DEF TcpType
    <3>3. t \in TcpType
      BY <1>1
    <3> HIDE DEF wire, t, u
    <3>4. /\ u.state = "closed" /\ u.writing = <<>> /\ u.wire = wire
          /\ SameTurn(t, u)
      BY <3>2, <3>3 DEF TcpType, SameTurn
    <3> QED BY <3>4 DEF wire
  <2> HIDE DEF a, t, b, u
  <2>5. Orderly(a, u, g)
    BY <1>1, <2>4, OrderlyCut
  <2>6. Orderly(b, u, g)
    BY <1>1, <2>2, <2>4, <2>5, OrderlyHears DEF SameTurn, Feeding
  <2> QED BY <2>6 DEF b, u
<1>6. CASE TcpRead(c)
  <2>1. io' = io
    BY <1>6 DEF TcpRead
  <2>2. u.state = t.state /\ u.wire = t.wire /\ u.writing = t.writing /\ SameTurn(t, u)
    <3>1. PICK n, splits :
             tcp' = [tcp EXCEPT ![c].net = SubSeq(@, n + 1, Len(@)), ![c].half = splits]
      BY <1>6, Zenon DEF TcpRead
    <3> DEFINE rest == SubSeq(t.net, n + 1, Len(t.net))
    <3>2. u = [t EXCEPT !.net = rest, !.half = splits]
      BY <1>1, <3>1
    <3> HIDE DEF rest, u
    <3> QED BY <1>1, <3>2 DEF TcpType, SameTurn
  <2>3. b = a
    BY <2>1
  <2> HIDE DEF a, t, b, u
  <2>4. Orderly(b, u, g)
    BY <1>1, <2>2, <2>3, OrderlyStays DEF Feeding
  <2> QED BY <2>4 DEF b, u
<1>7. CASE (FireConnectTimeout(c) \/ FireAbortTimeout(c)) /\ UNCHANGED tcp
  <2>1. PICK s \in {"ConnectTimeout", "AbortTimeout"} :
          \/ b = [Told(a, <<Signal(s)>>) EXCEPT !.connectTimer = FALSE]
          \/ b = [Told(a, <<Signal(s)>>) EXCEPT !.abortTimer = FALSE]
    BY <1>1, <1>7 DEF FireConnectTimeout, FireAbortTimeout
  <2>2. u = t
    BY <1>7
  <2> HIDE DEF a, t, b, u
  <2>3. Hears(a, b, s)
    BY <1>1, <2>1, ToldHears
  <2>4. Orderly(b, u, g)
    BY <1>1, <2>2, <2>3, OrderlyHears DEF SameTurn, Feeding
  <2> QED BY <2>4 DEF b, u
<1> QED BY <1>3, <1>4, <1>5, <1>6, <1>7

(* The server takes the first command, r.                                  *)
Takes(t, r, u) ==
    /\ t.wire # <<>> /\ ~t.quit /\ r = Head(t.wire) /\ Runs(t, r, u) /\ Sets(t, r, u)
    /\ u.state = t.state /\ u.writing = t.writing /\ u.wire = Tail(t.wire)

LEMMA TakesFirst ==
    ASSUME NEW t \in TcpType, NEW u \in TcpType, NEW r, Takes(t, r, u)
    PROVE  /\ r \in Request /\ <<r>> \in ReqSeqs /\ u.wire \in ReqSeqs /\ t.writing \in ReqSeqs
           /\ t.wire = Cat(<<r>>, u.wire)
<1> DEFINE w == t.wire
<1>1. w \in Seq(Request) /\ w # <<>> /\ r = Head(w) /\ u.wire = Tail(w) /\ t.writing \in Seq(Request)
  BY ConnectionFields DEF Takes
<1> HIDE DEF w
<1>2. Head(w) \in Request /\ Tail(w) \in Seq(Request) /\ <<Head(w)>> \in Seq(Request)
      /\ w = <<Head(w)>> \o Tail(w)
  BY <1>1, HeadAndTail
<1> QED BY <1>1, <1>2 DEF ReqSeqs, Cat, w

LEMMA TakesOrdered ==
    ASSUME NEW t \in TcpType, NEW u \in TcpType, NEW r, Takes(t, r, u),
           t.members # <<>> => t.multi,
           NEW l \in ReqSeqs, NEW w, w = Cat(<<r>>, l), Ordered(t, w)
    PROVE  Expects(t, r) /\ Ordered(u, l) /\ \A g : Leads(t, w, g) => Leads(u, l, g)
<1>1. r \in Request
  BY TakesFirst
<1>2. ~t.quit /\ Runs(t, r, u) /\ Sets(t, r, u)
  BY DEF Takes
<1>3. /\ t.members \in Seq(Idents) /\ t.multi \in BOOLEAN /\ l \in Seq(Request)
      /\ t.settings \in SettingsType /\ u.settings \in SettingsType
  BY DEF TcpType, Idents, ReqSeqs
<1>4. w = <<r>> \o l
  BY DEF Cat
<1>5. Ordered(t, <<r>> \o l)
  BY <1>4
<1>6. Expects(t, r) /\ Ordered(u, l) /\ (Ended(t, <<r>> \o l) => Ended(u, l))
  BY <1>1, <1>2, <1>3, <1>5, OrderedRuns
<1>7. ASSUME NEW g, Leads(t, <<r>> \o l, g) PROVE Leads(u, l, g)
  <2>1. Ended(u, l)
    BY <1>6, <1>7 DEF Leads
  <2> QED BY <1>1, <1>2, <1>3, <1>6, <1>7, <2>1, LeadsRuns
<1> QED BY <1>4, <1>6, <1>7

LEMMA TakesMembers ==
    ASSUME NEW t \in TcpType, NEW u \in TcpType, NEW r, Takes(t, r, u),
           t.members # <<>> => t.multi,
           Expects(t, r)
    PROVE  /\ u.members # <<>> => u.multi
           /\ ~(t.multi /\ r.op # "exec") /\ r.id # Internal =>
                WholeItem(IF r.op = "exec" THEN Append(t.members, r.id) ELSE <<r.id>>)
<1>1. r \in Request
  BY TakesFirst
<1>2. ~t.quit /\ Runs(t, r, u)
  BY DEF Takes
<1>3. t.members \in Seq(Idents) /\ t.multi \in BOOLEAN
  BY DEF TcpType, Idents
<1> QED BY <1>1, <1>2, <1>3, RunsOn

(* It was the turn of that command.                                        *)
LEMMA TurnTaken ==
    ASSUME NEW g, NEW a \in IOType, NEW t \in TcpType, NEW u \in TcpType, Orderly(a, t, g),
           NEW r, Takes(t, r, u)
    PROVE  Expects(t, r) /\ Orderly(a, u, g)
<1> DEFINE o == <<r>>
           left == Cat(u.wire, t.writing)
<1>1. r \in Request /\ o \in ReqSeqs /\ u.wire \in ReqSeqs /\ t.writing \in ReqSeqs
      /\ t.wire = Cat(o, u.wire)
  BY TakesFirst
<1>2. a.requests \in Seq(Request) /\ (t.members # <<>> => t.multi)
      /\ Ordered(t, Cat(t.wire, t.writing))
  BY ActorFields DEF Orderly, Cat
<1>3. u.state = t.state /\ u.writing = t.writing /\ t.wire # <<>>
  BY DEF Takes
<1> HIDE DEF o
<1>4. left \in ReqSeqs
  BY <1>1, Joined
<1>5. Cat(t.wire, t.writing) = Cat(o, left)
  BY <1>1, Regroup
<1> HIDE DEF left
<1>6. ASSUME NEW l \in ReqSeqs, Ordered(t, Cat(o, l))
      PROVE  Expects(t, r) /\ Ordered(u, l) /\ (Leads(t, Cat(o, l), g) => Leads(u, l, g))
  BY <1>2, <1>6, TakesOrdered DEF o
<1>7. Expects(t, r) /\ Ordered(u, left)
  BY <1>2, <1>4, <1>5, <1>6
<1>8. u.members # <<>> => u.multi
  BY <1>2, <1>7, TakesMembers
<1>9. ASSUME Feeding(a, u)
      PROVE  \E s : Asks(a.box, s) /\ Ordered(u, Way(a, u, s)) /\ Leads(u, Way(a, u, s), g)
  <2>1. Feeding(a, t)
    BY <1>3, <1>9 DEF Feeding
  <2>2. PICK s : Asks(a.box, s) /\ Ordered(t, Way(a, t, s)) /\ Leads(t, Way(a, t, s), g)
    BY <2>1 DEF Orderly
  <2> DEFINE z == Cat(a.requests, s)
             l == Cat(left, z)
  <2>3. s \in Seq(Request)
    BY <2>2 DEF Asks
  <2>4. z \in ReqSeqs
    BY <1>2, <2>3, Joined DEF ReqSeqs
  <2> HIDE DEF z
  <2>5. l \in ReqSeqs
    BY <1>4, <2>4, Joined
  <2>6. Cat(Cat(o, left), z) = Cat(o, l)
    BY <1>1, <1>4, <2>4, Regroup
  <2>7. Way(a, t, s) = Cat(Cat(t.wire, t.writing), z) /\ Way(a, u, s) = l
    BY <1>3 DEF Way, Cat, z, left
  <2> HIDE DEF l
  <2>8. Way(a, t, s) = Cat(o, l)
    BY <1>5, <2>6, <2>7
  <2>9. Ordered(u, l) /\ Leads(u, l, g)
    BY <1>6, <2>2, <2>5, <2>8
  <2> QED BY <2>2, <2>7, <2>9
<1>10. a.state \notin {"none", "connecting"}
  BY <1>3 DEF Orderly, Unused
<1>11. Ordered(u, u.wire \o u.writing)
  BY <1>3, <1>7 DEF Cat, left
<1> QED BY <1>7, <1>8, <1>9, <1>10, <1>11 DEF Orderly

(* What is executed is whole.                                              *)
LEMMA ServerOrderly ==
    ASSUME NEW g, ConnTypes, NEW c \in Connections, Orderly(io[c], tcp[c], g), ServerExecute(c)
    PROVE  /\ Orderly(io'[c], tcp'[c], g) /\ UNCHANGED io
           /\ \A d \in Connections : d # c => tcp'[d] = tcp[d]
           /\ UNCHANGED executed \/ \E x : executed' = Append(executed, x) /\ WholeItem(x.ids)
<1> DEFINE a == io[c]
           t == tcp[c]
           u == tcp'[c]
           r == Head(t.wire)
           queues == t.multi /\ r.op # "exec"
           ids == IF r.op = "exec" THEN Append(t.members, r.id) ELSE <<r.id>>
<1>1. a \in IOType /\ t \in TcpType /\ u \in TcpType /\ Orderly(a, t, g)
  BY DEF ConnTypes
<1>2. /\ t.wire # <<>> /\ ~t.quit /\ UNCHANGED io /\ u.writing = t.writing /\ u.wire = Tail(t.wire)
      /\ u.members = IF queues THEN Append(t.members, r.id)
                     ELSE IF r.op = "exec" THEN <<>> ELSE t.members
      /\ \A d \in Connections : d # c => tcp'[d] = tcp[d]
  <2>1. ~t.quit
    BY DEF ServerExecute
  <2> QED BY <2>1, ExecuteChanges
<1>3. /\ u.state = t.state /\ u.quit = (r.op = "quit")
      /\ u.multi = ((t.multi \/ r.op = "multi") /\ r.op # "exec") /\ Sets(t, r, u)
  <2> DEFINE kind == IF queues THEN "queued"
                     ELSE IF r.op \in SessionOps /\ r.value \in Rejected THEN "error" ELSE "ok"
             net == IF t.state = "open" THEN Append(t.net, [to |-> r.id, kind |-> kind]) ELSE t.net
             session == IF r.op \in SessionOps /\ kind = "ok"
                        THEN [t.settings EXCEPT ![r.op] = r.value] ELSE t.settings
             multi == (t.multi \/ r.op = "multi") /\ r.op # "exec"
             members == IF queues THEN Append(t.members, r.id)
                        ELSE IF r.op = "exec" THEN <<>> ELSE t.members
             quit == r.op = "quit"
             after == [t EXCEPT !.wire = Tail(t.wire), !.net = net, !.settings = session,
                                !.multi = multi, !.members = members, !.quit = quit]
  <2>1. tcp' = [tcp EXCEPT ![c] = after]
    BY DEF ServerExecute
  <2>2. u = after
    BY <2>1 DEF ConnTypes
  <2> HIDE DEF net, session, multi, members, quit, u
  <2>3. u.state = t.state /\ u.quit = quit /\ u.multi = multi /\ u.settings = session
    BY <1>1, <2>2 DEF TcpType
  <2>4. u.settings = session
    BY <2>3
  <2>5. Sets(t, r, u)
    BY <2>4 DEF session, Sets
  <2> QED BY <2>3, <2>5 DEF quit, multi
<1>4. Takes(t, r, u)
  BY <1>2, <1>3 DEF Takes, Runs
<1>5. io'[c] = a
  BY <1>2
<1> HIDE DEF a, t, u, r
<1>6. Expects(t, r) /\ Orderly(a, u, g)
  BY <1>1, <1>4, TurnTaken
<1>7. ~queues /\ r.id # Internal => WholeItem(ids)
  <2>1. t.members # <<>> => t.multi
    BY <1>1 DEF Orderly
  <2> QED BY <1>1, <1>4, <1>6, <2>1, TakesMembers
<1>8. executed' = IF queues \/ r.id = Internal THEN executed
                  ELSE Append(executed, [conn |-> c, ids |-> ids, settings |-> u.settings])
  BY DEF ServerExecute, t, u, r
<1>9. UNCHANGED executed \/ \E x : executed' = Append(executed, x) /\ WholeItem(x.ids)
  <2>1. CASE queues \/ r.id = Internal
    BY <1>8, <2>1
  <2>2. CASE ~(queues \/ r.id = Internal)
    <3> DEFINE x == [conn |-> c, ids |-> ids, settings |-> u.settings]
    <3>1. x.ids = ids /\ executed' = Append(executed, x)
      BY <1>8, <2>2
    <3> HIDE DEF x, ids
    <3> QED BY <1>7, <2>2, <3>1
  <2> QED BY <2>1, <2>2
<1> QED BY <1>2, <1>5, <1>6, <1>9 DEF u

-----------------------------------------------------------------------------
(* What the listener does.                                                 *)

(* It sends runs of requests to an IOActor that has connected.             *)
LEMMA SendOrderly ==
    ASSUME NEW g, NEW a \in IOType, NEW t \in TcpType, NEW qs \in Seq(Request), Rounded(qs),
           Orderly(a, t, g), a.state \notin {"none", "connecting"},
           NEW b, b = Told(a, IORequests(qs))
    PROVE  Orderly(b, t, Remember(g, qs))
<1>1. CASE a.state = "stopped"
  <2>1. b = a /\ ~Feeding(a, t)
    BY <1>1 DEF Told, Feeding
  <2> QED BY <2>1 DEF Orderly
<1>2. CASE a.state # "stopped"
  <2>1. b = [a EXCEPT !.box = @ \o IORequests(qs)]
    BY <1>2 DEF Told
  <2>2. b.state = a.state /\ b.requests = a.requests /\ b.box = a.box \o IORequests(qs)
    BY <2>1 DEF IOType
  <2>3. ASSUME Feeding(b, t)
        PROVE  \E s : /\ Asks(b.box, s) /\ Ordered(t, Way(b, t, s))
                      /\ Leads(t, Way(b, t, s), Remember(g, qs))
    <3>1. PICK s : Asks(a.box, s) /\ Ordered(t, Way(a, t, s)) /\ Leads(t, Way(a, t, s), g)
      BY <2>2, <2>3 DEF Orderly, Feeding
    <3>2. IORequests(qs) \in Seq(IOMessage) /\ Asks(IORequests(qs), qs) /\ a.box \in Seq(IOMessage)
      BY AsksRequests, ActorFields
    <3>3. Asks(b.box, s \o qs)
      BY <2>2, <3>1, <3>2, AsksMore
    <3>4. s \in Seq(Request) /\ Way(a, t, s) \in Seq(Request)
      BY <3>1, WayTypes DEF Asks
    <3>5. Way(b, t, s \o qs) = Way(a, t, s) \o qs
      <4>1. /\ t.wire \in ReqSeqs /\ t.writing \in ReqSeqs /\ a.requests \in ReqSeqs
            /\ s \in ReqSeqs /\ qs \in ReqSeqs
        BY <3>4, ActorFields, ConnectionFields DEF ReqSeqs
      <4>2. Cat(Cat(t.wire, t.writing), Cat(a.requests, Cat(s, qs)))
              = Cat(Cat(Cat(t.wire, t.writing), Cat(a.requests, s)), qs)
        BY <4>1, WayMore
      <4> QED BY <2>2, <4>2 DEF Cat, Way
    <3> DEFINE l == Way(a, t, s)
    <3>6. l \in Seq(Request) /\ Ordered(t, l) /\ Leads(t, l, g) /\ t.settings \in SettingsType
      BY <3>1, <3>4 DEF TcpType
    <3> HIDE DEF l
    <3>7. Ordered(t, l \o qs) /\ Leads(t, l \o qs, Remember(g, qs))
      BY <3>6, LeadsMore
    <3> QED BY <3>3, <3>5, <3>7 DEF l
  <2> QED BY <2>2, <2>3 DEF Orderly
<1> QED BY <1>1, <1>2

(* What waits in the mailbox of the listener is what users handed over.    *)
Handover == \A k \in DOMAIN lbox : lbox[k].type \in {"Request", "Transaction"} => lbox[k] \in Items

(* What the current connection is to lead its session to.                  *)
Meant(c, g) ==
    c = epoch => /\ lstate \in Receiving => g = settings
                 /\ lstate = "connecting" => g = Zeros
Bound(c) == \E g \in SettingsType : Orderly(io[c], tcp[c], g) /\ Meant(c, g)
Restorable == SessionsAreAccepted => Acceptable(settings)

(* Nothing was handed over between the parts of a transaction.             *)
AtomInv ==
    /\ \A c \in Connections : Bound(c)
    /\ Rounded(queued) /\ Handover /\ Restorable
    /\ \A m \in DOMAIN executed : WholeItem(executed[m].ids)

LEMMA HandoverFirst ==
    ASSUME lbox \in Seq(ListenerMessage), lbox # <<>>, Handover
    PROVE  /\ Consume => Handover'
           /\ IsItem => Head(lbox) \in Items /\ Handed \in Seq(Request) /\ Rounded(Handed)
<1>1. /\ \A k \in DOMAIN Tail(lbox) : Tail(lbox)[k] = lbox[k + 1] /\ k + 1 \in DOMAIN lbox
      /\ Head(lbox) = lbox[1] /\ 1 \in DOMAIN lbox
  OBVIOUS
<1>2. Consume => Handover'
  BY <1>1 DEF Handover, Consume
<1>3. ASSUME IsItem PROVE Head(lbox) \in Items
  BY <1>1, <1>3 DEF Handover, IsItem, Receives
<1> QED BY <1>2, <1>3, ItemRounded, ItemFacts DEF Handed

LEMMA HandoverTold ==
    ASSUME lbox \in Seq(ListenerMessage), Handover, NEW m,
           m.type \in {"Request", "Transaction"} => m \in Items,
           lbox' = lbox \/ lbox' = lbox \o <<m>>
    PROVE  Handover'
<1>1. CASE lbox' = lbox
  BY <1>1 DEF Handover
<1>2. CASE lbox' = lbox \o <<m>>
  <2>1. \A k \in DOMAIN (lbox \o <<m>>) : (k \in DOMAIN lbox /\ (lbox \o <<m>>)[k] = lbox[k])
                                          \/ (lbox \o <<m>>)[k] = m
    OBVIOUS
  <2> QED BY <1>2, <2>1 DEF Handover
<1> QED BY <1>1, <1>2

(* When it sends, its IOActor has connected.                               *)
LEMMA SendsConnected ==
    ASSUME TypeInv, LifeInv, PairInv,
           lstate \in Receiving \/ (lstate = "connecting" /\ ~shutBefore /\ Receives("Connected"))
    PROVE  io[epoch].state \notin {"none", "connecting"}
<1>1. Live
  BY DEF LifeInv, QuitStates, Live, Down, Receiving
<1>2. PairTypes /\ Current
  BY <1>1, PairTyped DEF PairInv
<1>3. CASE lstate \in Receiving
  BY <1>2, <1>3 DEF Current, Paired, Flowing, Ready
<1>4. CASE lstate = "connecting" /\ Receives("Connected")
  <2>1. Starting(lbox, requests, remaining, io[epoch], tcp[epoch])
    BY <1>2, <1>4 DEF Current, Paired
  <2>2. ~NoneOf(lbox, {"Connected"})
    BY <1>2, <1>4, NoneOfHead DEF PairTypes, Receives
  <2> QED BY <2>1, <2>2 DEF Starting, HasConnected
<1> QED BY <1>3, <1>4

LEMMA OrderlyNew ==
    ASSUME NEW g, NEW t, Orderly(NoIOActor, t, g)
    PROVE  Orderly(NewIOActor, t, g)
<1>1. /\ NewIOActor.state = "connecting" /\ NoIOActor.state = "none"
      /\ NewIOActor.requests = NoIOActor.requests /\ NewIOActor.box = NoIOActor.box
  BY DEF NewIOActor, NoIOActor
<1> QED BY <1>1, OrderlyStays DEF Feeding, SameTurn

AllBound == \A c \in Connections : Bound(c)'

(* The session is to become what it was to.                                *)
Undisturbed == UNCHANGED <<epoch, settings>>
         /\ (lstate' = lstate \/ lstate' \notin Receiving \cup {"connecting"})

LEMMA UndisturbedMeans ==
    ASSUME Undisturbed, NEW c, NEW g, Meant(c, g)
    PROVE  Meant(c, g)'
BY DEF Undisturbed, Meant

LEMMA BoundStays ==
    ASSUME NEW c, Bound(c), Undisturbed,
           \A g \in SettingsType : Orderly(io[c], tcp[c], g) => Orderly(io'[c], tcp'[c], g)
    PROVE  Bound(c)'
<1>1. PICK g \in SettingsType : Orderly(io[c], tcp[c], g) /\ Meant(c, g)
  BY DEF Bound
<1>2. Orderly(io'[c], tcp'[c], g) /\ Meant(c, g)'
  BY <1>1, UndisturbedMeans
<1> QED BY <1>2 DEF Bound

LEMMA TellsBound ==
    ASSUME TypeInv, AtomInv, UNCHANGED tcp, Undisturbed, NEW s \in IOSignals,
           io' = [io EXCEPT ![epoch] = Told(@, <<Signal(s)>>)]
    PROVE  AllBound
<1>1. io \in [Connections -> IOType] /\ epoch \in Connections /\ io[epoch] \in IOType
  BY DEF TypeInv, TypeOK, LTypeOK
<1>2. /\ io'[epoch] = Told(io[epoch], <<Signal(s)>>)
      /\ \A c \in Connections : c # epoch => io'[c] = io[c]
  BY <1>1
<1>3. Hears(io[epoch], io'[epoch], s)
  BY <1>1, <1>2, ToldHears
<1>4. s # "Request" /\ (Feeding(io'[epoch], tcp[epoch]) => tcp[epoch].state = "open")
  BY DEF IOSignals, Feeding
<1>5. ASSUME NEW g, Orderly(io[epoch], tcp[epoch], g) PROVE Orderly(io'[epoch], tcp[epoch], g)
  BY <1>1, <1>3, <1>4, <1>5, OrderlyHears DEF SameTurn
<1> QED BY <1>2, <1>5, BoundStays DEF AllBound, AtomInv

LEMMA ReconnectBound ==
    ASSUME TypeInv, Delivery, AtomInv, UNCHANGED tcp, Reconnect
    PROVE  AllBound
<1>1. io \in [Connections -> IOType] /\ epoch \in Connections
  BY DEF TypeInv, TypeOK, LTypeOK
<1>2. epoch + 1 \in Connections /\ epoch + 1 > epoch
  BY <1>1, SharedAssumption DEF Reconnect, Connections
<1>3. io[epoch + 1] = NoIOActor
  BY <1>2 DEF Delivery, NoneBeyond
<1>4. \A c \in Connections : io'[c] = IF c = epoch + 1 THEN NewIOActor ELSE io[c]
  BY <1>1 DEF Reconnect
<1>5. epoch' = epoch + 1 /\ lstate' = "connecting" /\ lstate' \notin Receiving
  BY DEF Reconnect, Receiving
<1> SUFFICES ASSUME NEW c \in Connections PROVE Bound(c)'
  BY DEF AllBound
<1>6. PICK g \in SettingsType : Orderly(io[c], tcp[c], g)
  BY DEF AtomInv, Bound
<1>7. CASE c = epoch + 1
  <2>1. Orderly(NewIOActor, tcp[c], g)
    BY <1>3, <1>6, <1>7, OrderlyNew
  <2>2. g = Zeros
    BY <1>3, <1>6, <1>7 DEF Orderly, NoIOActor
  <2>3. Meant(c, g)'
    BY <1>5, <2>2 DEF Meant
  <2> QED BY <1>4, <1>7, <2>1, <2>3 DEF Bound
<1>8. CASE c # epoch + 1
  <2>1. Meant(c, g)'
    BY <1>5, <1>8 DEF Meant
  <2> QED BY <1>4, <1>6, <1>8, <2>1 DEF Bound
<1> QED BY <1>7, <1>8

LEMMA SendsBound ==
    ASSUME TypeInv, AtomInv, UNCHANGED <<tcp, epoch>>,
           io[epoch].state \notin {"none", "connecting"},
           NEW qs \in Seq(Request), Rounded(qs), NEW before, NEW q, NEW set, Send(qs, before, q, set),
           lstate' # "connecting",
           \A g \in SettingsType : Meant(epoch, g) => Remember(g, qs) = Remember(settings, qs)
    PROVE  AllBound /\ Restorable'
<1>1. io \in [Connections -> IOType] /\ epoch \in Connections /\ io[epoch] \in IOType
      /\ tcp[epoch] \in TcpType /\ settings \in SettingsType
  BY DEF TypeInv, TypeOK, LTypeOK, TcpTypeOK
<1>2. /\ io'[epoch] = Told(io[epoch], IORequests(qs)) /\ settings' = Remember(settings, qs)
      /\ \A c \in Connections : c # epoch => io'[c] = io[c]
  BY <1>1 DEF Send
<1>3. PICK g \in SettingsType : Orderly(io[epoch], tcp[epoch], g) /\ Meant(epoch, g)
  BY <1>1 DEF AtomInv, Bound
<1> DEFINE after == Remember(g, qs)
<1>4. after \in SettingsType /\ after = settings'
  BY <1>2, <1>3, RememberType
<1>5. Orderly(io'[epoch], tcp[epoch], after)
  BY <1>1, <1>2, <1>3, SendOrderly
<1> HIDE DEF after
<1>6. Meant(epoch, after)'
  BY <1>4 DEF Meant
<1>7. Bound(epoch)'
  BY <1>4, <1>5, <1>6 DEF Bound
<1>8. ASSUME NEW c \in Connections, c # epoch PROVE Bound(c)'
  <2>1. PICK h \in SettingsType : Orderly(io[c], tcp[c], h)
    BY DEF AtomInv, Bound
  <2>2. Meant(c, h)'
    BY <1>8 DEF Meant
  <2> QED BY <1>2, <1>8, <2>1, <2>2 DEF Bound
<1>9. Restorable'
  <2> SUFFICES ASSUME SessionsAreAccepted PROVE Acceptable(settings')
    BY DEF Restorable, SessionsAreAccepted, Items
  <2>1. \A k \in DOMAIN qs : Accepted(qs[k])
    BY DEF Rounded, AllKept, Kept
  <2> QED BY <1>1, <1>2, <2>1, RememberAccepted DEF AtomInv, Restorable
<1> QED BY <1>7, <1>8, <1>9 DEF AllBound

(* Every case of its behaviours.                                           *)
OrderKept == AllBound /\ Rounded(queued)' /\ Handover' /\ Restorable'

LEMMA ListenerOrderly ==
    ASSUME TypeInv, LifeInv, Delivery, PairInv, AtomInv, LNext, UNCHANGED tcp
    PROVE  OrderKept
<1>1. /\ lbox \in Seq(ListenerMessage) /\ queued \in Seq(Request) /\ settings \in SettingsType
      /\ Rounded(queued) /\ Handover /\ Restorable
  BY DEF TypeInv, TypeOK, LTypeOK, AtomInv
<1>u. ASSUME UNCHANGED io, Undisturbed PROVE AllBound
  BY <1>u, BoundStays DEF AllBound, AtomInv
<1>s. ASSUME UNCHANGED settings PROVE Restorable'
  BY <1>1, <1>s DEF Restorable, SessionsAreAccepted, Items
<1>e. Rounded(<<>>)
  BY RoundedNothing
<1>2. ASSUME NEW t, Receives(t), Consume PROVE Handover'
  BY <1>1, <1>2, HandoverFirst DEF Receives
<1>3. ASSUME IsItem, Consume
      PROVE  Handover' /\ Head(lbox) \in Items /\ Handed \in Seq(Request) /\ Rounded(Handed)
  <2>1. lbox # <<>>
    BY <1>3 DEF IsItem, Receives
  <2> QED BY <1>1, <1>3, <2>1, HandoverFirst
<1>4. ASSUME IsItem, Consume PROVE Rounded(Enqueued)
  BY <1>1, <1>3, <1>4, RoundedConcat DEF Enqueued
<1>5. ASSUME UNCHANGED queued PROVE Rounded(queued)'
  BY <1>1, <1>5
<1>6. ASSUME queued' = <<>> PROVE Rounded(queued)'
  BY <1>e, <1>6
<1>7. ASSUME queued' = Enqueued, IsItem, Consume PROVE Rounded(queued)'
  BY <1>4, <1>7
<1>k. ASSUME AllBound, Rounded(queued)', Handover', Restorable' PROVE OrderKept
  BY <1>k DEF OrderKept
(* It sends, to what it has to.                                            *)
<1>9. ASSUME lstate \in Receiving \/ (lstate = "connecting" /\ ~shutBefore /\ Receives("Connected")),
             UNCHANGED epoch, lstate' # "connecting",
             NEW qs \in Seq(Request), Rounded(qs), NEW before, NEW q, NEW set, Send(qs, before, q, set),
             lstate = "connecting" => Remember(Zeros, qs) = Remember(settings, qs)
      PROVE  AllBound /\ Restorable'
  <2>1. io[epoch].state \notin {"none", "connecting"}
    BY <1>9, SendsConnected
  <2>2. \A g \in SettingsType : Meant(epoch, g) => Remember(g, qs) = Remember(settings, qs)
    BY <1>9 DEF Meant
  <2> QED BY <1>9, <2>1, <2>2, SendsBound
<1>10. ASSUME FailItem \/ QueueItem PROVE OrderKept
  <2>1. IsItem /\ Consume /\ UNCHANGED io /\ (UNCHANGED queued \/ queued' = Enqueued)
        /\ UNCHANGED <<settings, epoch, lstate>>
    BY <1>10 DEF FailItem, QueueItem, listenerVars, connecting
  <2>2. Undisturbed
    BY <2>1 DEF Undisturbed
  <2> QED BY <1>u, <1>s, <1>k, <1>3, <1>5, <1>7, <2>1, <2>2
<1>11. ASSUME SendItem PROVE OrderKept
  <2> DEFINE rs == IF Len(Handed) = 1 THEN Handed
                   ELSE <<Handed[1]>> \o UpToQuit(SubSeq(Handed, 2, Len(Handed) - 1))
                          \o <<Handed[Len(Handed)]>>
  <2>1. /\ IsItem /\ Consume /\ Send(rs, requests, queued, timerSet)
        /\ lstate = "initialized" /\ lstate' = BehaviourAfterSending(rs) /\ UNCHANGED connecting
    BY <1>11 DEF SendItem
  <2>2. rs \in Seq(Request) /\ Rounded(rs)
    BY <1>3, <2>1, SentRounded DEF Handed
  <2> HIDE DEF rs
  <2>3. lstate \in Receiving /\ lstate # "connecting" /\ lstate' # "connecting" /\ UNCHANGED epoch
    BY <2>1 DEF Receiving, BehaviourAfterSending, connecting
  <2>4. AllBound /\ Restorable'
    BY <1>9, <2>1, <2>2, <2>3
  <2>5. UNCHANGED queued
    BY <2>1 DEF Send
  <2> QED BY <1>k, <1>3, <1>5, <2>1, <2>4, <2>5
<1>12. ASSUME ItemWhileConnecting PROVE OrderKept
  <2>1. /\ IsItem /\ Consume /\ (UNCHANGED queued \/ queued' = Enqueued)
        /\ UNCHANGED <<io, epoch, lstate>> \/ Reconnect
        /\ UNCHANGED settings
    BY <1>12 DEF ItemWhileConnecting, ReconnectUnlessConnecting
  <2>2. AllBound
    BY <1>u, <2>1, ReconnectBound DEF Undisturbed
  <2> QED BY <1>s, <1>k, <1>3, <1>5, <1>7, <2>1, <2>2
<1>13. ASSUME OnConnected PROVE OrderKept
  <2> DEFINE initial == InitRequests(settings)
  <2>1. Receives("Connected") /\ Consume /\ lstate = "connecting" /\ ~shutBefore /\ UNCHANGED epoch
    BY <1>13 DEF OnConnected
  <2>2. /\ initial \in Seq(Request) /\ Rounded(initial)
        /\ Remember(Zeros, initial) = settings /\ Remember(settings, initial) = settings
        /\ initial = <<>> => settings = Zeros
    BY <1>1, InitRounded, RememberInit DEF Restorable
  <2>3. \/ Send(initial, requests, queued, timerSet) /\ lstate' = "initializing"
        \/ initial = <<>> /\ SendAllQueued(requests, timerSet)
    BY <1>13 DEF OnConnected
  <2> HIDE DEF initial
  <2>4. CASE Send(initial, requests, queued, timerSet) /\ lstate' = "initializing"
    <3>1. AllBound /\ Restorable'
      BY <1>9, <2>1, <2>2, <2>4
    <3>2. UNCHANGED queued
      BY <2>4 DEF Send
    <3> QED BY <1>k, <1>2, <1>5, <2>1, <3>1, <3>2
  <2>5. CASE initial = <<>> /\ SendAllQueued(requests, timerSet)
    <3>1. Send(queued, requests, <<>>, timerSet) /\ lstate' # "connecting"
      BY <2>5 DEF SendAllQueued
    <3>2. Remember(Zeros, queued) = Remember(settings, queued)
      BY <2>2, <2>5
    <3>3. AllBound /\ Restorable'
      BY <1>1, <1>9, <2>1, <3>1, <3>2
    <3>4. queued' = <<>>
      BY <3>1 DEF Send
    <3> QED BY <1>k, <1>2, <1>6, <2>1, <3>3, <3>4
  <2> QED BY <2>3, <2>4, <2>5
<1>14. ASSUME ReceiveInitializing PROVE OrderKept
  <2>1. Receives("Received") /\ Consume /\ lstate = "initializing" /\ UNCHANGED epoch
    BY <1>14 DEF ReceiveInitializing, connecting
  <2>2. \/ SendAllQueued(Unanswered(Head(lbox).data), FALSE)
        \/ UNCHANGED <<io, queued, settings, lstate>>
    BY <1>14 DEF ReceiveInitializing
  <2>3. CASE SendAllQueued(Unanswered(Head(lbox).data), FALSE)
    <3>1. Send(queued, Unanswered(Head(lbox).data), <<>>, FALSE) /\ lstate' # "connecting"
      BY <2>3 DEF SendAllQueued
    <3>2. lstate \in Receiving /\ lstate # "connecting"
      BY <2>1 DEF Receiving
    <3>3. AllBound /\ Restorable'
      BY <1>1, <1>9, <2>1, <3>1, <3>2
    <3>4. queued' = <<>>
      BY <3>1 DEF Send
    <3> QED BY <1>k, <1>2, <1>6, <2>1, <3>3, <3>4
  <2>4. CASE UNCHANGED <<io, queued, settings, lstate>>
    <3>1. Undisturbed
      BY <2>1, <2>4 DEF Undisturbed
    <3> QED BY <1>u, <1>s, <1>k, <1>2, <1>5, <2>1, <2>4, <3>1
  <2> QED BY <2>2, <2>3, <2>4
<1>15. ASSUME \/ QuitWhileConnecting \/ OnConnectedAfterQuit \/ Receive \/ OnRemove
              \/ TerminatedShuttingDown \/ Ignore \/ TerminatedConnecting
       PROVE  OrderKept
  <2>1. \E t : Receives(t) /\ Consume
    BY <1>15 DEF QuitWhileConnecting, OnConnectedAfterQuit, Receive, OnRemove, TerminatedShuttingDown,
                 Ignore, Ignored, TerminatedConnecting
  <2>2. UNCHANGED <<io, settings>> /\ (UNCHANGED queued \/ queued' = <<>>)
    BY <1>15 DEF QuitWhileConnecting, OnConnectedAfterQuit, Receive, OnRemove, TerminatedShuttingDown,
                 Ignore, TerminatedConnecting, FailQueued, sending, listenerVars
  <2>3. UNCHANGED epoch /\ (lstate' = lstate \/ lstate' = "awaitingDecodersShutdown")
    BY <1>15 DEF QuitWhileConnecting, OnConnectedAfterQuit, Receive, OnRemove, TerminatedShuttingDown,
                 Ignore, TerminatedConnecting, PoisonDecoders, connecting, listenerVars
  <2>4. Undisturbed
    BY <2>2, <2>3 DEF Undisturbed, Receiving
  <2> QED BY <1>u, <1>s, <1>k, <1>2, <1>5, <1>6, <2>1, <2>2, <2>4
<1>16. ASSUME TerminatedInitializing \/ TerminatedConnected
       PROVE  OrderKept
  <2>1. /\ Receives("Terminated") /\ Consume /\ Reconnect /\ (UNCHANGED queued \/ queued' = <<>>)
        /\ UNCHANGED settings
    BY <1>16 DEF TerminatedInitializing, TerminatedConnected, FailQueued
  <2>2. AllBound
    BY <2>1, ReconnectBound
  <2> QED BY <1>s, <1>k, <1>2, <1>5, <1>6, <2>1, <2>2
<1>17. ASSUME HandleReceiveTimeout \/ OnAbort \/ OnShutdown
       PROVE  OrderKept
  <2>1. PICK s \in IOSignals : io' = [io EXCEPT ![epoch] = Told(@, <<Signal(s)>>)]
    BY <1>17 DEF HandleReceiveTimeout, OnAbort, OnShutdown, Acknowledge, IOSignals
  <2>2. (\E t : Receives(t) /\ Consume) /\ UNCHANGED <<queued, settings>>
    BY <1>17 DEF HandleReceiveTimeout, OnAbort, OnShutdown, Acknowledge, sending
  <2>3. UNCHANGED epoch /\ (lstate' = lstate \/ lstate' = "reconnecting")
    BY <1>17 DEF HandleReceiveTimeout, OnAbort, OnShutdown, Acknowledge, BehaviourAfter, connecting
  <2>4. Undisturbed
    BY <2>2, <2>3 DEF Undisturbed, Receiving
  <2>5. AllBound
    BY <2>1, <2>4, TellsBound
  <2> QED BY <1>s, <1>k, <1>2, <1>5, <2>2, <2>5
<1>18. ASSUME TerminatedAwaitingDecoders PROVE OrderKept
  <2>1. /\ UNCHANGED <<queued, settings, epoch>>
        /\ (Receives("Terminated") /\ Consume) \/ lbox' = <<>>
        /\ io' = io \/ io' = [e \in Connections |-> IF io[e].state = "none" THEN io[e] ELSE Stopped]
        /\ lstate' = lstate \/ lstate' = "stopped"
    BY <1>18 DEF TerminatedAwaitingDecoders, sending
  <2>2. Undisturbed
    BY <2>1 DEF Undisturbed, Receiving
  <2>3. ASSUME NEW c \in Connections, NEW g, Orderly(io[c], tcp[c], g)
        PROVE  Orderly(io'[c], tcp'[c], g)
    BY <2>1, <2>3, OrderlyStopped
  <2>4. AllBound
    BY <2>2, <2>3, BoundStays DEF AllBound, AtomInv
  <2>5. lbox' = <<>> => Handover'
    BY DEF Handover
  <2> QED BY <1>s, <1>k, <1>2, <1>5, <2>1, <2>4, <2>5
<1> QED
  BY <1>10, <1>11, <1>12, <1>13, <1>14, <1>15, <1>16, <1>17, <1>18 DEF LNext

LEMMA AtomInit == Init => AtomInv
<1> SUFFICES ASSUME Init PROVE AtomInv
  OBVIOUS
<1>1. /\ lbox = <<>> /\ queued = <<>> /\ executed = <<>> /\ settings = InitialSettings
      /\ epoch = 1 /\ lstate = "connecting"
      /\ io = [e \in Connections |-> IF e = 1 THEN NewIOActor ELSE NoIOActor]
      /\ tcp = [c \in Connections |-> Fresh]
  BY DEF Init, LInit, TcpInit
<1>2. Orderly(NoIOActor, Fresh, Zeros)
  <2>1. /\ Fresh.wire = <<>> /\ Fresh.writing = <<>> /\ Fresh.members = <<>> /\ ~Fresh.multi
        /\ Fresh.state = "none" /\ NoIOActor.requests = <<>> /\ NoIOActor.box = <<>>
    BY DEF Fresh, NoIOActor
  <2>z. Fresh.settings = Zeros
    BY DEF Fresh, Zeros
  <2>2. <<>> \o <<>> = <<>>
    OBVIOUS
  <2>3. Ordered(Fresh, Fresh.wire \o Fresh.writing)
    BY <2>1, <2>2, OrderedNothing
  <2>4. Unused(NoIOActor, Fresh)
    BY <2>1, <2>z DEF Unused, NoneOf
  <2> QED BY <2>1, <2>3, <2>4 DEF Orderly, Feeding
<1>3. Orderly(NewIOActor, Fresh, Zeros)
  BY <1>2, OrderlyNew
<1>4. ASSUME NEW c \in Connections PROVE Bound(c)
  <2>1. Orderly(io[c], tcp[c], Zeros)
    BY <1>1, <1>2, <1>3
  <2>2. Meant(c, Zeros)
    BY <1>1 DEF Meant, Receiving
  <2> QED BY <2>1, <2>2, ZerosType DEF Bound
<1>5. Restorable
  BY <1>1 DEF Restorable, SessionsAreAccepted
<1> QED BY <1>1, <1>4, <1>5, RoundedNothing DEF AtomInv, Handover

sessionVars == <<lstate, epoch, settings, queued>>

LEMMA SessionKept ==
    ASSUME UNCHANGED sessionVars
    PROVE  Undisturbed /\ (Restorable => Restorable') /\ (Rounded(queued) => Rounded(queued)')
BY DEF sessionVars, Undisturbed, Restorable, SessionsAreAccepted, Items

LEMMA AtomKept ==
    ASSUME AtomInv, UNCHANGED <<io, tcp, executed>>, UNCHANGED sessionVars, Handover'
    PROVE  AtomInv'
<1>1. \A c \in Connections : Bound(c)'
  BY SessionKept, BoundStays DEF AtomInv
<1> QED BY <1>1, SessionKept DEF AtomInv

(* A step of one connection.                                               *)
LEMMA OneOrderly ==
    ASSUME AtomInv, NEW c \in Connections, Handover',
           \A g : Orderly(io[c], tcp[c], g) => Orderly(io'[c], tcp'[c], g),
           \A d \in Connections : d # c => io'[d] = io[d] /\ tcp'[d] = tcp[d],
           UNCHANGED executed, UNCHANGED sessionVars
    PROVE  AtomInv'
<1>1. ASSUME NEW d \in Connections PROVE Bound(d)'
  <2>1. \A g \in SettingsType : Orderly(io[d], tcp[d], g) => Orderly(io'[d], tcp'[d], g)
    OBVIOUS
  <2> QED BY <2>1, SessionKept, BoundStays DEF AtomInv
<1> QED BY <1>1, SessionKept DEF AtomInv

(* What others than users tell the listener is no item.                    *)
LEMMA SignalHandover ==
    ASSUME TypeInv, AtomInv, UNCHANGED lbox \/ \E t \in ListenerSignals : Tell(t)
    PROVE  Handover'
<1>1. lbox \in Seq(ListenerMessage) /\ Handover
  BY DEF TypeInv, TypeOK, LTypeOK, AtomInv
<1>2. CASE UNCHANGED lbox
  BY <1>2, <1>1 DEF Handover
<1>3. CASE \E t \in ListenerSignals : Tell(t)
  <2>1. PICK t \in ListenerSignals : Tell(t)
    BY <1>3
  <2> DEFINE m == Signal(t)
  <2>2. m.type \notin {"Request", "Transaction"} /\ (lbox' = lbox \/ lbox' = lbox \o <<m>>)
    BY <2>1 DEF Signal, ListenerSignals, Tell, AfterTellingListener
  <2> HIDE DEF m
  <2> QED BY <1>1, <2>2, HandoverTold
<1> QED BY <1>2, <1>3

LEMMA ReadHandover ==
    ASSUME TypeInv, AtomInv, NEW c \in Connections, TcpRead(c)
    PROVE  Handover'
<1>1. lbox \in Seq(ListenerMessage) /\ Handover
  BY DEF TypeInv, TypeOK, LTypeOK, AtomInv
<1>2. PICK n \in 0..Len(tcp[c].net), splits \in BOOLEAN :
        lbox' = AfterTellingListener(lbox,
              <<[type |-> "Received",
                 data |-> [resumes |-> tcp[c].half,
                           replies |-> SubSeq(tcp[c].net, 1, n),
                           rest |-> IF splits THEN <<tcp[c].net[n + 1]>> ELSE <<>>]]>>)
  BY DEF TcpRead
<1> DEFINE data == [resumes |-> tcp[c].half, replies |-> SubSeq(tcp[c].net, 1, n),
                    rest |-> IF splits THEN <<tcp[c].net[n + 1]>> ELSE <<>>]
           m == [type |-> "Received", data |-> data]
<1>3. lbox' = lbox \/ lbox' = lbox \o <<m>>
  BY <1>2 DEF AfterTellingListener
<1> HIDE DEF data
<1>4. m.type = "Received"
  OBVIOUS
<1> HIDE DEF m
<1> QED BY <1>1, <1>3, <1>4, HandoverTold

(* A user hands over an item.                                              *)
LEMMA PostHandover ==
    ASSUME TypeInv, AtomInv, NEW t \in Threads, Post(t)
    PROVE  Handover'
<1> DEFINE m == NextItem(t)
<1>1. lbox \in Seq(ListenerMessage) /\ Handover /\ HasItem(t) /\ sent[t] \in Nat
  BY DEF TypeInv, TypeOK, LTypeOK, AtomInv, AdmittedHasItem, Post
<1>2. m \in Items
  <2>1. sent[t] + 1 \in DOMAIN Workload[t]
    BY <1>1, WorkloadAssumption DEF HasItem
  <2> QED BY <2>1 DEF Items, NextItem
<1>3. lbox' = lbox \/ lbox' = lbox \o <<m>>
  BY DEF Post, AfterTellingListener
<1> HIDE DEF m
<1> QED BY <1>1, <1>2, <1>3, HandoverTold

LEMMA AtomStep ==
    ASSUME Whole, TypeInv, TypeInv', LifeInv, Delivery, CleanInv, PairInv, AtomInv, [Next]_vars
    PROVE  AtomInv'
<1>1. /\ ConnTypes /\ Handover /\ executed \in Seq(Execution)
      /\ \A c \in Connections : /\ CleanActor(io[c]) /\ CleanTcp(tcp[c]) /\ ConnInv(io[c], tcp[c])
                                /\ OneWrite(io[c], tcp[c])
  BY DEF TypeInv, TypeOK, TcpTypeOK, ConnTypes, CleanInv, Delivery, AtomInv, ConnInv
<1>u. ASSUME UNCHANGED <<lbox, io, tcp, executed>>, UNCHANGED sessionVars PROVE AtomInv'
  BY <1>u, SignalHandover, AtomKept
<1>2. ASSUME NEW t \in Threads, Check(t) PROVE AtomInv'
  BY <1>2, <1>u DEF Check, listenerVars, sessionVars
<1>3. ASSUME NEW item, CompleteTransaction(item) PROVE AtomInv'
  BY <1>3, <1>u DEF CompleteTransaction, listenerVars, others, sessionVars
<1>4. ASSUME NEW t \in Threads, Post(t) PROVE AtomInv'
  <2>1. UNCHANGED <<io, tcp, executed>> /\ UNCHANGED sessionVars
    BY <1>4 DEF Post, listenerVars, sessionVars
  <2> QED BY <1>4, <2>1, PostHandover, AtomKept
<1>5. ASSUME ListenerStep PROVE AtomInv'
  <2>1. LNext /\ UNCHANGED <<tcp, executed>>
    BY <1>5 DEF ListenerStep, others
  <2>2. OrderKept
    BY <2>1, ListenerOrderly
  <2> QED BY <2>1, <2>2 DEF AtomInv, AllBound, OrderKept
<1>6. ASSUME NEW d \in Decoders, DecoderStep(d) PROVE AtomInv'
  <2>1. UNCHANGED <<io, tcp, executed>> /\ UNCHANGED sessionVars
    BY <1>6 DEF DecoderStep, listenerVars, others, sessionVars
  <2>2. UNCHANGED lbox \/ Tell("Terminated")
    BY <1>6 DEF DecoderStep, DecodePartition, DecoderStop
  <2>3. Handover'
    BY <2>2, SignalHandover DEF ListenerSignals
  <2> QED BY <2>1, <2>3, AtomKept
<1>7. ASSUME NEW c \in Connections,
             \/ IONext(c)
             \/ ((FireConnectTimeout(c) \/ FireAbortTimeout(c)) /\ UNCHANGED tcp),
             UNCHANGED executed, UNCHANGED sessionVars
      PROVE  AtomInv'
  <2>1. OneForward(c)
    BY <1>1, <1>7, IOForward
  <2>2. ASSUME NEW g, Orderly(io[c], tcp[c], g) PROVE Orderly(io'[c], tcp'[c], g)
    BY <1>1, <1>7, <2>2, IOOrderly, ConnectionOrderly
  <2>3. UNCHANGED lbox \/ \E t \in ListenerSignals : Tell(t)
    BY <1>7 DEF IONext, IOConnected, IOConnectFailed, IORequest, IOWriteAck, IOWriteFailed,
         IOShutdown, IOTerminated, IORejectRequest, IOShutdownAck, IOAbortAck, IOAborted,
         IOAbortTimeout, IOIgnore, IOStop, WritesNext, ListenerSignals,
         FireConnectTimeout, FireAbortTimeout
  <2>4. Handover'
    BY <2>3, SignalHandover
  <2> QED BY <1>7, <2>1, <2>2, <2>4, OneOrderly DEF OneForward
<1>8. ASSUME NEW c \in Connections, IOStep(c) PROVE AtomInv'
  BY <1>7, <1>8 DEF IOStep, listenerVars, others, sessionVars
<1>9. ASSUME NEW c \in Connections, ConnectTimeoutFires(c) \/ AbortTimeoutFires(c) PROVE AtomInv'
  <2>1. /\ (FireConnectTimeout(c) \/ FireAbortTimeout(c)) /\ UNCHANGED tcp
        /\ UNCHANGED executed /\ UNCHANGED sessionVars
    BY <1>9 DEF ConnectTimeoutFires, AbortTimeoutFires, FireConnectTimeout, FireAbortTimeout,
                listenerVars, others, sessionVars
  <2> QED BY <1>7, <2>1
<1>10. ~Crash
  BY DEF Crash, Fault, Whole
<1>11. ASSUME NEW c \in Connections, UNCHANGED user, UNCHANGED executed,
              \/ TcpConnect(c) \/ TcpWrite(c) \/ TcpRead(c) \/ TcpAbort(c) \/ TcpQuit(c)
              \/ TcpConnectFail(c) \/ TcpDrop(c)
       PROVE  AtomInv'
  <2>1. OneForward(c)
    BY <1>1, <1>11, ConnectionForward
  <2>2. ASSUME NEW g, Orderly(io[c], tcp[c], g) PROVE Orderly(io'[c], tcp'[c], g)
    BY <1>1, <1>11, <2>2, ConnectionOrderly
  <2>3. Handover'
    <3>1. CASE TcpRead(c)
      BY <3>1, ReadHandover
    <3>2. CASE TcpConnect(c) \/ TcpWrite(c) \/ TcpConnectFail(c)
      <4>1. UNCHANGED lbox
        BY <3>2, Zenon DEF TcpConnect, TcpWrite, TcpConnectFail
      <4> QED BY <4>1, SignalHandover
    <3>3. CASE TcpAbort(c) \/ TcpQuit(c) \/ TcpDrop(c)
      <4>1. UNCHANGED lbox
        BY <3>3, Zenon DEF TcpAbort, TcpQuit, TcpDrop, Closes
      <4> QED BY <4>1, SignalHandover
    <3> QED BY <1>11, <3>1, <3>2, <3>3
  <2>4. UNCHANGED sessionVars
    BY <1>11 DEF user, listenerVars, sessionVars
  <2> QED BY <1>11, <2>1, <2>2, <2>3, <2>4, OneOrderly DEF OneForward
<1>12. ASSUME NEW c \in Connections, Execute(c) PROVE AtomInv'
  <2>1. ~ServerSkip(c)
    <3> DEFINE w == tcp[c].wire
    <3>1. w \in Seq(Encodable)
      BY <1>1 DEF CleanTcp
    <3>2. w # <<>> => Head(w).op # "spent"
      BY <3>1 DEF Encodable
    <3> QED BY <3>2 DEF ServerSkip
  <2>2. ServerExecute(c) /\ UNCHANGED lbox /\ UNCHANGED sessionVars
    BY <1>12, <2>1 DEF Execute, user, listenerVars, ServerExecute, sessionVars
  <2>g. PICK h : Orderly(io[c], tcp[c], h)
    BY DEF AtomInv, Bound
  <2>3. /\ UNCHANGED io
        /\ \A d \in Connections : d # c => tcp'[d] = tcp[d]
        /\ UNCHANGED executed \/ \E x : executed' = Append(executed, x) /\ WholeItem(x.ids)
    BY <1>1, <2>2, <2>g, ServerOrderly
  <2>o. ASSUME NEW g, Orderly(io[c], tcp[c], g) PROVE Orderly(io'[c], tcp'[c], g)
    BY <1>1, <2>2, <2>o, ServerOrderly
  <2>4. ASSUME NEW d \in Connections PROVE Bound(d)'
    <3>1. \A g \in SettingsType : Orderly(io[d], tcp[d], g) => Orderly(io'[d], tcp'[d], g)
      BY <2>3, <2>o
    <3> QED BY <2>2, <3>1, SessionKept, BoundStays DEF AtomInv
  <2>5. \A m \in DOMAIN executed' : WholeItem(executed'[m].ids)
    <3>1. CASE UNCHANGED executed
      BY <3>1 DEF AtomInv
    <3>2. CASE \E x : executed' = Append(executed, x) /\ WholeItem(x.ids)
      <4>1. PICK x : executed' = Append(executed, x) /\ WholeItem(x.ids)
        BY <3>2
      <4>2. \A m \in DOMAIN executed' : \/ m \in DOMAIN executed /\ executed'[m] = executed[m]
                                        \/ executed'[m] = x
        BY <1>1, <4>1
      <4> QED BY <4>1, <4>2 DEF AtomInv
    <3> QED BY <2>3, <3>1, <3>2
  <2>6. Handover'
    BY <2>2, SignalHandover
  <2> QED BY <2>2, <2>4, <2>5, <2>6, SessionKept DEF AtomInv
<1>13. ASSUME NEW c \in Connections, TcpStep(c) PROVE AtomInv'
  <2>1. UNCHANGED user /\ UNCHANGED executed
    BY <1>13 DEF TcpStep, TcpConnect, TcpWrite, TcpRead, TcpAbort, TcpQuit, Closes
  <2> QED BY <1>11, <1>13, <2>1 DEF TcpStep
<1>14. ASSUME Faulty PROVE AtomInv'
  <2>1. PICK c \in Connections : TcpConnectFail(c) \/ TcpWriteFail(c) \/ TcpDrop(c)
    BY <1>14 DEF Faulty
  <2>2. ~TcpWriteFail(c)
    BY DEF TcpWriteFail, Fault, Whole
  <2>3. UNCHANGED user /\ UNCHANGED executed
    BY <1>14, <2>1, <2>2 DEF Faulty, TcpConnectFail, TcpDrop, Closes
  <2> QED BY <1>11, <2>1, <2>2, <2>3
<1>15. ASSUME ReceiveTimeoutFires PROVE AtomInv'
  <2>1. UNCHANGED <<io, tcp, executed>> /\ UNCHANGED sessionVars /\ Tell("ReceiveTimeout")
    BY <1>15 DEF ReceiveTimeoutFires, FireReceiveTimeout, Tell, sessionVars
  <2>2. Handover'
    BY <2>1, SignalHandover DEF ListenerSignals
  <2> QED BY <2>1, <2>2, AtomKept
<1>16. ASSUME UNCHANGED vars PROVE AtomInv'
  BY <1>16, <1>u DEF vars, listenerVars, sessionVars
<1> QED
  BY <1>2, <1>3, <1>4, <1>5, <1>6, <1>8, <1>9, <1>10, <1>12, <1>13, <1>14, <1>15, <1>16 DEF Next

LEMMA AtomMeans == AtomInv => TransactionsAreAtomic
<1> SUFFICES ASSUME AtomInv, NEW item \in Items, item.type = "Transaction", NEW m \in DOMAIN executed,
                    NEW k \in DOMAIN executed[m].ids,
                    executed[m].ids[k] \in IdsOf(item.reqs) \ {Internal}
             PROVE  executed[m].ids = [j \in 1..Len(item.reqs) - 1 |-> item.reqs[j + 1].id]
  BY DEF TransactionsAreAtomic
<1> DEFINE ids == executed[m].ids
<1>1. WholeItem(ids) /\ k \in DOMAIN ids /\ ids[k] \in IdsOf(item.reqs) /\ ids[k] # Internal
  BY DEF AtomInv
<1> HIDE DEF ids
<1>2. item.reqs \in Seq(Request) /\ Len(item.reqs) \in Nat
  BY ItemFacts
<1>3. PICK i \in 1..Len(item.reqs) : ids[k] = item.reqs[i].id
  BY <1>1, <1>2 DEF IdsOf
<1>4. PICK other \in Items : \/ other.type = "Request" /\ ids = <<other.reqs[1].id>>
                             \/ other.type = "Transaction" /\ ids = Members(other)
  BY <1>1 DEF WholeItem
<1>5. Len(other.reqs) \in Nat
  BY ItemFacts
<1>6. CASE other.type = "Request" /\ ids = <<other.reqs[1].id>>
  <2>1. k = 1 /\ ids[k] = other.reqs[1].id
    BY <1>1, <1>6
  <2>2. 1 \in 1..Len(other.reqs)
    BY <1>6, ItemFacts
  <2>3. item = other
    BY <1>1, <1>3, <2>1, <2>2, ItemsApart
  <2> QED BY <1>6, <2>3
<1>7. CASE other.type = "Transaction" /\ ids = Members(other)
  <2>1. k \in 1..Len(other.reqs) - 1 /\ ids[k] = other.reqs[k + 1].id
    BY <1>1, <1>7 DEF Members
  <2>2. k + 1 \in 1..Len(other.reqs)
    BY <1>5, <2>1
  <2>3. item = other
    BY <1>1, <1>3, <2>1, <2>2, ItemsApart
  <2> QED BY <1>7, <2>3 DEF Members, ids
<1> QED BY <1>4, <1>6, <1>7

(* Redis executes the commands of a transaction together, all of them, in  *)
(* their order and with no other command between them, whatever other      *)
(* threads hand over at the same time, however the IOActors cut batches,   *)
(* and when the connection is lost between MULTI and EXEC: sendReceive and *)
(* sendAllQueuedRequests of ListenerActor, and the batches of IOActor,     *)
(* never part a transaction.  It is for every workload, and every system   *)
(* where no write fails, no IOActor crashes and no connection is dropped   *)
(* within a reply.                                                         *)
THEOREM TransactionsStayWhole ==
    ASSUME Whole
    PROVE  Spec => []TransactionsAreAtomic
<1> DEFINE I == TypeInv /\ LifeInv /\ Delivery /\ CleanInv /\ PairInv /\ AtomInv
<1>1. Init => I
  BY TypeInit, LifeInit, DeliveryInit, CleanInit, PairInit, AtomInit
<1>2. I /\ [Next]_vars => I'
  <2> SUFFICES ASSUME I, [Next]_vars PROVE I'
    OBVIOUS
  <2>1. TypeInv'
    BY TypeStep
  <2>2. LifeInv' /\ Delivery'
    BY <2>1, LifeStep, DeliveryStep
  <2>3. CleanInv'
    BY <2>1, CleanStep
  <2>4. PairInv'
    BY <2>1, <2>2, PairStep
  <2>5. AtomInv'
    BY <2>1, AtomStep
  <2> QED BY <2>1, <2>2, <2>3, <2>4, <2>5
<1>3. I => TransactionsAreAtomic
  BY AtomMeans
<1> QED BY <1>1, <1>2, <1>3, PTL DEF Spec

-----------------------------------------------------------------------------
(* The session is restorable.                                              *)

LEMMA AsksOne ==
    ASSUME NEW box \in Seq(IOMessage), NEW s, Asks(box, s)
    PROVE  s = RequestsIn(box)
<1> DEFINE ls == AsksOf(box)
           z == Lists!FlattenSeq(ls)
<1>1. ls \in Seq(Seq(Request)) /\ s \in Seq(Request) /\ Flat(ls, s)
  BY AskTypes DEF Asks
<1>2. z = RequestsIn(box)
  BY DEF AsksOf, Ask, RequestsIn
<1> HIDE DEF ls
<1>3. z \in Seq(Request) /\ Flat(ls, z)
  BY <1>1, FlattenIsFlat
<1> HIDE DEF z
<1> QED BY <1>1, <1>2, <1>3, FlatIsUnique

(* No write has failed, and the batch is with the connection.              *)
LEMMA OnTheWay ==
    ASSUME TypeInv, CleanInv, epoch \in Connections
    PROVE  OnTheirWay = Way(io[epoch], tcp[epoch], RequestsIn(io[epoch].box))
<1> DEFINE a == io[epoch]
           w == tcp[epoch].wire
           x == tcp[epoch].writing
           y == a.requests
           u == RequestsIn(a.box)
           z == w \o x
<1>1. a \in IOType /\ a.box \in Seq(IOMessage) /\ tcp[epoch] \in TcpType
  BY ActorFields DEF TypeInv, TypeOK, TcpTypeOK
<1>2. w \in Seq(Request) /\ x \in Seq(Request) /\ y \in Seq(Request) /\ u \in Seq(Request)
  BY <1>1, ActorFields, RequestsInType DEF TcpType
<1>3. ~WriteFailed(a)
  <2>1. a.box \in Seq(CleanIO)
    BY DEF CleanInv, CleanActor
  <2>2. \A k \in DOMAIN a.box : a.box[k] \in CleanIO
    BY <2>1
  <2> QED BY <2>2 DEF CleanIO, WriteFailed
<1>4. OnTheirWay = ((z \o <<>>) \o y) \o u /\ Way(a, tcp[epoch], u) = z \o (y \o u)
  BY <1>3 DEF OnTheirWay, Way
<1> HIDE DEF a, w, x, y, u
<1>5. z \in Seq(Request)
  BY <1>2
<1> HIDE DEF z
<1>6. z \o <<>> = z
  BY <1>5
<1>7. (z \o y) \o u = z \o (y \o u)
  BY <1>2, <1>5, RequestsGroup
<1>8. OnTheirWay = Way(a, tcp[epoch], u)
  BY <1>4, <1>6, <1>7, Zenon
<1> QED BY <1>8 DEF a, u

LEMMA AtomRestores ==
    ASSUME TypeInv, CleanInv, AtomInv, SessionsAreAccepted
    PROVE  SessionIsRestorable
<1> SUFFICES ASSUME Working PROVE Remember(tcp[epoch].settings, OnTheirWay) = settings
  BY DEF SessionIsRestorable
<1> DEFINE a == io[epoch]
           t == tcp[epoch]
<1>1. /\ epoch \in Connections /\ a.box \in Seq(IOMessage)
      /\ lstate \in Receiving /\ Feeding(a, t)
  BY ActorFields DEF TypeInv, TypeOK, LTypeOK, Working, Receiving, Feeding
<1>2. PICK g \in SettingsType : Orderly(a, t, g) /\ Meant(epoch, g)
  BY <1>1 DEF AtomInv, Bound
<1>3. g = settings
  BY <1>1, <1>2 DEF Meant
<1>4. OnTheirWay = Way(a, t, RequestsIn(a.box))
  BY <1>1, OnTheWay
<1> HIDE DEF a, t
<1>5. PICK s : Asks(a.box, s) /\ Leads(t, Way(a, t, s), g)
  BY <1>1, <1>2 DEF Orderly
<1>6. s = RequestsIn(a.box)
  BY <1>1, <1>5, AsksOne
<1>7. Remember(t.settings, OnTheirWay) = g
  BY <1>4, <1>5, <1>6 DEF Leads
<1> QED BY <1>3, <1>7 DEF t

(* While a connection works, the server's session, once it has executed    *)
(* what is on its way to it, has the password, the database and the name   *)
(* that ListenerActor holds in authOpt, database and nameOpt and would     *)
(* restore after a reconnection: what doSend remembers and the requests of *)
(* initialize() that a new connection begins with never drift apart.  It   *)
(* is for every workload whose settings the server accepts and that sends  *)
(* none in a transaction: doSend remembers a setting before it is          *)
(* answered, so that a refused one would be restored too.  No write fails, *)
(* no IOActor crashes and no connection is dropped within a reply.         *)
THEOREM SessionStaysRestorable ==
    ASSUME Whole, SessionsAreAccepted
    PROVE  Spec => []SessionIsRestorable
<1> DEFINE I == TypeInv /\ LifeInv /\ Delivery /\ CleanInv /\ PairInv /\ AtomInv
<1>1. Init => I
  BY TypeInit, LifeInit, DeliveryInit, CleanInit, PairInit, AtomInit
<1>2. I /\ [Next]_vars => I'
  <2> SUFFICES ASSUME I, [Next]_vars PROVE I'
    OBVIOUS
  <2>1. TypeInv'
    BY TypeStep
  <2>2. LifeInv' /\ Delivery'
    BY <2>1, LifeStep, DeliveryStep
  <2>3. CleanInv'
    BY <2>1, CleanStep
  <2>4. PairInv'
    BY <2>1, <2>2, PairStep
  <2>5. AtomInv'
    BY <2>1, AtomStep
  <2> QED BY <2>1, <2>2, <2>3, <2>4, <2>5
<1>3. I => SessionIsRestorable
  BY AtomRestores
<1> QED BY <1>1, <1>2, <1>3, PTL DEF Spec

-----------------------------------------------------------------------------
(* The refinement of RequestService.                                       *)

(* No reply claims the success of a request the server has not executed:   *)
(* on the network, in the mailboxes, or as an outcome.  E is what has been *)
(* executed.                                                               *)
TrueReply(E) == {p \in Reply : p.kind = "ok" => p.to \in E \cup {Internal}}
TrueMessage(E) == {m \in ListenerMessage : m.type = "Received" => m.data.replies \in Seq(TrueReply(E))}
TruePart(E) == {m \in DecoderMessage : m.type = "Partition" => m.replies \in Seq(TrueReply(E))}
TrueNets == \A c \in Connections : tcp[c].net \in Seq(TrueReply(Executed))
TrueOutcomes == \A i \in Ids : outcome[i] = "ok" => i \in Executed \cup QuitIds
TruthInv ==
    /\ TrueNets
    /\ lbox \in Seq(TrueMessage(Executed))
    /\ \A d \in Decoders : dbox[d] \in Seq(TruePart(Executed))
    /\ TrueOutcomes

LEMMA TruthGrows ==
    ASSUME NEW E, NEW F, E \subseteq F
    PROVE  /\ \A s \in Seq(TrueReply(E)) : s \in Seq(TrueReply(F))
           /\ \A s \in Seq(TrueMessage(E)) : s \in Seq(TrueMessage(F))
           /\ \A s \in Seq(TruePart(E)) : s \in Seq(TruePart(F))
<1>1. ASSUME NEW S, NEW T, S \subseteq T, NEW s \in Seq(S) PROVE s \in Seq(T)
  BY <1>1
<1>2. TrueReply(E) \subseteq TrueReply(F)
  BY DEF TrueReply
<1>3. \A s \in Seq(TrueReply(E)) : s \in Seq(TrueReply(F))
  BY <1>1, <1>2
<1>4. TrueMessage(E) \subseteq TrueMessage(F) /\ TruePart(E) \subseteq TruePart(F)
  BY <1>3 DEF TrueMessage, TruePart
<1> QED BY <1>1, <1>3, <1>4

LEMMA TruthTypes ==
    ASSUME NEW E
    PROVE  /\ TrueReply(E) \subseteq Reply
           /\ \A s \in Seq(TrueMessage(E)) : s \in Seq(ListenerMessage)
           /\ \A s \in Seq(TruePart(E)) : s \in Seq(DecoderMessage)
           /\ \A t \in ListenerSignals : Signal(t) \in TrueMessage(E)
           /\ \A item \in Item : item \in TrueMessage(E)
           /\ Signal("PoisonPill") \in TruePart(E)
<1>1. ASSUME NEW S, NEW T, S \subseteq T, NEW s \in Seq(S) PROVE s \in Seq(T)
  BY <1>1
<1>2. TrueReply(E) \subseteq Reply
  BY DEF TrueReply
<1>3. \A s \in Seq(TrueMessage(E)) : s \in Seq(ListenerMessage)
  BY <1>1 DEF TrueMessage
<1>4. \A s \in Seq(TruePart(E)) : s \in Seq(DecoderMessage)
  BY <1>1 DEF TruePart
<1>5. \A t \in ListenerSignals : Signal(t) \in TrueMessage(E)
  BY SignalType DEF TrueMessage, Signal, ListenerSignals
<1>6. \A item \in Item : item \in TrueMessage(E)
  BY DEF TrueMessage, ListenerMessage, Item
<1>7. Signal("PoisonPill") \in TruePart(E)
  BY DEF TruePart, DecoderMessage, Signal
<1> QED BY <1>2, <1>3, <1>4, <1>5, <1>6, <1>7

(* What nobody has executed since is as true as it was.                    *)
LEMMA TruthLasts ==
    ASSUME TruthInv, Executed \subseteq Executed'
    PROVE  /\ \A c \in Connections : tcp[c].net \in Seq(TrueReply(Executed'))
           /\ lbox \in Seq(TrueMessage(Executed'))
           /\ \A d \in Decoders : dbox[d] \in Seq(TruePart(Executed'))
           /\ \A i \in Ids : outcome[i] = "ok" => i \in Executed' \cup QuitIds
<1> DEFINE E == Executed
           F == Executed'
<1>1. E \subseteq F
  OBVIOUS
<1> HIDE DEF E, F
<1>2. /\ \A s \in Seq(TrueReply(E)) : s \in Seq(TrueReply(F))
      /\ \A s \in Seq(TrueMessage(E)) : s \in Seq(TrueMessage(F))
      /\ \A s \in Seq(TruePart(E)) : s \in Seq(TruePart(F))
  BY <1>1, TruthGrows
<1>3. /\ \A c \in Connections : tcp[c].net \in Seq(TrueReply(E))
      /\ lbox \in Seq(TrueMessage(E))
      /\ \A d \in Decoders : dbox[d] \in Seq(TruePart(E))
      /\ \A i \in Ids : outcome[i] = "ok" => i \in E \cup QuitIds
  BY DEF TruthInv, TrueNets, TrueOutcomes, E
<1>4. /\ \A c \in Connections : tcp[c].net \in Seq(TrueReply(F))
      /\ lbox \in Seq(TrueMessage(F))
      /\ \A d \in Decoders : dbox[d] \in Seq(TruePart(F))
      /\ \A i \in Ids : outcome[i] = "ok" => i \in F \cup QuitIds
  BY <1>1, <1>2, <1>3
<1> QED BY <1>4 DEF F

(* A step on which nothing is executed: it is enough that what it changes  *)
(* remains true.                                                           *)
LEMMA TruthStays ==
    ASSUME TruthInv, UNCHANGED executed,
           UNCHANGED outcome \/ TrueOutcomes',
           (\A c \in Connections : tcp'[c].net = tcp[c].net) \/ TrueNets',
           UNCHANGED lbox \/ lbox' \in Seq(TrueMessage(Executed)),
           UNCHANGED dbox \/ \A d \in Decoders : dbox'[d] \in Seq(TruePart(Executed))
    PROVE  TruthInv'
<1>1. Executed' = Executed
  BY DEF Executed
<1>2. TrueNets'
  BY <1>1 DEF TruthInv, TrueNets
<1>3. TrueOutcomes'
  BY <1>1 DEF TruthInv, TrueOutcomes, QuitIds, Items
<1>4. lbox' \in Seq(TrueMessage(Executed')) /\ \A d \in Decoders : dbox'[d] \in Seq(TruePart(Executed'))
  BY <1>1 DEF TruthInv
<1> QED BY <1>2, <1>3, <1>4 DEF TruthInv

LEMMA TellsTruth ==
    ASSUME TruthInv, UNCHANGED lbox \/ \E t \in ListenerSignals : Tell(t)
    PROVE  lbox' \in Seq(TrueMessage(Executed))
<1> DEFINE M == TrueMessage(Executed)
<1>1. lbox \in Seq(M) /\ \A t \in ListenerSignals : Signal(t) \in M
  BY TruthTypes DEF TruthInv
<1> HIDE DEF M
<1>2. CASE \E t \in ListenerSignals : Tell(t)
  <2>1. PICK t \in ListenerSignals : Tell(t)
    BY <1>2
  <2> DEFINE m == Signal(t)
  <2>2. m \in M /\ (lbox' = lbox \/ lbox' = lbox \o <<m>>)
    BY <1>1, <2>1 DEF Tell, AfterTellingListener
  <2> HIDE DEF m
  <2>3. lbox' \in Seq(M)
    BY <1>1, <2>2
  <2> QED BY <2>3 DEF M
<1>3. CASE UNCHANGED lbox
  BY <1>1, <1>3 DEF M
<1> QED BY <1>2, <1>3

(* What is completed with anything but "ok" claims nothing.                *)
LEMMA CompletesTrue ==
    ASSUME TruthInv, UNCHANGED executed, NEW ids, NEW result, outcome' = Complete(ids, result),
           result = "ok" => ids \cap Ids \subseteq Executed \cup QuitIds
    PROVE  TrueOutcomes'
<1>1. Executed' = Executed /\ QuitIds' = QuitIds
  BY DEF Executed, QuitIds, Items
<1> QED BY <1>1 DEF TruthInv, TrueOutcomes, Complete

LEMMA TruthInit == Init => TruthInv
<1> SUFFICES ASSUME Init PROVE TruthInv
  OBVIOUS
<1>1. /\ lbox = <<>> /\ tcp = [c \in Connections |-> Fresh] /\ dbox = [d \in Decoders |-> <<>>]
      /\ outcome = [i \in Ids |-> "pending"]
  BY DEF Init, LInit, TcpInit
<1>2. \A S : <<>> \in Seq(S)
  OBVIOUS
<1>3. TrueNets
  BY <1>1, <1>2 DEF TrueNets, Fresh
<1>4. TrueOutcomes
  BY <1>1 DEF TrueOutcomes
<1> QED BY <1>1, <1>2, <1>3, <1>4 DEF TruthInv

-----------------------------------------------------------------------------
(* Replies under way.                                                      *)

LEMMA NetStays ==
    ASSUME TypeInv, NEW e \in Connections, NEW u, tcp' = [tcp EXCEPT ![e] = u],
           u.net = tcp[e].net
    PROVE  \A c \in Connections : tcp'[c].net = tcp[c].net
<1>1. tcp \in [Connections -> TcpType]
  BY DEF TypeInv, TypeOK, TcpTypeOK
<1> QED BY <1>1

LEMMA FieldsApart ==
    ASSUME NEW t \in TcpType, NEW v
    PROVE  /\ [t EXCEPT !.writing = v].net = t.net
           /\ [t EXCEPT !.state = v].net = t.net
           /\ [t EXCEPT !.abort = v].net = t.net
BY DEF TcpType

LEMMA IONets ==
    ASSUME TypeInv, NEW e \in Connections,
           IONext(e) \/ ((FireConnectTimeout(e) \/ FireAbortTimeout(e)) /\ UNCHANGED tcp)
    PROVE  /\ \A c \in Connections : tcp'[c].net = tcp[c].net
           /\ UNCHANGED lbox \/ \E t \in ListenerSignals : Tell(t)
           /\ UNCHANGED outcome \/ \E ids : outcome' = Complete(ids, "failed")
<1> DEFINE t == tcp[e]
<1>1. t \in TcpType
  BY DEF TypeInv, TypeOK, TcpTypeOK
<1> DEFINE Same == \A c \in Connections : tcp'[c].net = tcp[c].net
<1>n. ASSUME NEW u, tcp' = [tcp EXCEPT ![e] = u], u.net = t.net PROVE Same
  BY <1>n, NetStays
<1>u. UNCHANGED tcp => Same
  OBVIOUS
<1>2. ASSUME NEW pending, WritesNext(e, pending) PROVE Same
  <2>1. PICK w : UNCHANGED tcp \/ tcp' = [tcp EXCEPT ![e].writing = w]
    BY <1>2 DEF WritesNext
  <2> DEFINE u == [t EXCEPT !.writing = w]
  <2>2. UNCHANGED tcp \/ tcp' = [tcp EXCEPT ![e] = u]
    BY <2>1
  <2>3. u.net = t.net
    BY <1>1, FieldsApart
  <2> HIDE DEF u, Same, t
  <2> QED BY <1>n, <1>u, <2>2, <2>3
<1>3. ASSUME IORequest(e) \/ IOWriteAck(e) \/ IOWriteFailed(e) PROVE Same
  <2>1. UNCHANGED tcp \/ \E pending : WritesNext(e, pending)
    BY <1>3, Zenon DEF IORequest, IOWriteAck, IOWriteFailed
  <2> HIDE DEF Same
  <2> QED BY <1>2, <1>u, <2>1
<1>4. ASSUME IOConnected(e) PROVE Same
  <2> DEFINE u == [t EXCEPT !.state = "open"]
  <2>1. tcp' = [tcp EXCEPT ![e] = u]
    BY <1>4 DEF IOConnected
  <2>2. u.net = t.net
    BY <1>1, FieldsApart
  <2> HIDE DEF u, Same, t
  <2> QED BY <1>n, <2>1, <2>2
<1>5. ASSUME IOAbortAck(e) PROVE Same
  <2> DEFINE u == [t EXCEPT !.abort = (t.state = "open")]
  <2>1. tcp' = [tcp EXCEPT ![e] = u]
    BY <1>5 DEF IOAbortAck
  <2>2. u.net = t.net
    BY <1>1, FieldsApart
  <2> HIDE DEF u, Same, t
  <2> QED BY <1>n, <2>1, <2>2
<1>6. ASSUME IOAbortTimeout(e) PROVE Same
  <2> DEFINE u == [t EXCEPT !.state = "closed"]
  <2>1. UNCHANGED tcp \/ tcp' = [tcp EXCEPT ![e] = u]
    BY <1>6 DEF IOAbortTimeout
  <2>2. u.net = t.net
    BY <1>1, FieldsApart
  <2> HIDE DEF u, Same, t
  <2> QED BY <1>n, <1>u, <2>1, <2>2
<1>7. ASSUME \/ IOConnectFailed(e) \/ IOShutdown(e) \/ IOTerminated(e) \/ IORejectRequest(e)
             \/ IOShutdownAck(e) \/ IOAborted(e) \/ IOIgnore(e)
             \/ ((FireConnectTimeout(e) \/ FireAbortTimeout(e)) /\ UNCHANGED tcp)
      PROVE  Same
  <2>1. UNCHANGED tcp
    BY <1>7, Zenon DEF IOConnectFailed, IOShutdown, IOTerminated, IORejectRequest, IOShutdownAck,
                       IOAborted, IOIgnore
  <2> QED BY <2>1
<1>8. \A c \in Connections : tcp'[c].net = tcp[c].net
  BY <1>3, <1>4, <1>5, <1>6, <1>7 DEF IONext
<1>9. UNCHANGED lbox \/ \E m \in ListenerSignals : Tell(m)
  BY DEF IONext, IOConnected, IOConnectFailed, IORequest, IOWriteAck, IOWriteFailed,
         IOShutdown, IOTerminated, IORejectRequest, IOShutdownAck, IOAbortAck, IOAborted,
         IOAbortTimeout, IOIgnore, IOStop, WritesNext, ListenerSignals,
         FireConnectTimeout, FireAbortTimeout
<1>10. UNCHANGED outcome \/ \E ids : outcome' = Complete(ids, "failed")
  BY DEF IONext, IOConnected, IOConnectFailed, IORequest, IOWriteAck, IOWriteFailed, IOShutdown,
         IOTerminated, IORejectRequest, IOShutdownAck, IOAbortAck, IOAborted, IOAbortTimeout, IOIgnore,
         WritesNext, FireConnectTimeout, FireAbortTimeout
<1> QED BY <1>8, <1>9, <1>10

(* What is read was written.                                               *)
LEMMA ReadsTrue ==
    ASSUME TypeInv, TruthInv, NEW c \in Connections, TcpRead(c)
    PROVE  TrueNets' /\ lbox' \in Seq(TrueMessage(Executed))
<1> DEFINE t == tcp[c]
           M == TrueMessage(Executed)
           R == TrueReply(Executed)
<1>1. /\ tcp \in [Connections -> TcpType] /\ t \in TcpType /\ lbox \in Seq(M)
      /\ \A d \in Connections : tcp[d].net \in Seq(R)
  BY DEF TypeInv, TypeOK, TcpTypeOK, TruthInv, TrueNets
<1>2. Executed' = Executed
  BY DEF TcpRead, Executed
<1>3. PICK n \in 0..Len(t.net), splits \in BOOLEAN :
       /\ splits => n < Len(t.net)
       /\ lbox' = AfterTellingListener(lbox,
            <<[type |-> "Received",
               data |-> [resumes |-> t.half,
                         replies |-> SubSeq(t.net, 1, n),
                         rest |-> IF splits THEN <<t.net[n + 1]>> ELSE <<>>]]>>)
       /\ tcp' = [tcp EXCEPT ![c].net = SubSeq(@, n + 1, Len(@)), ![c].half = splits]
  BY DEF TcpRead
<1> DEFINE net == t.net
           left == SubSeq(net, n + 1, Len(net))
           replies == SubSeq(net, 1, n)
           rest == IF splits THEN <<net[n + 1]>> ELSE <<>>
           data == [resumes |-> t.half, replies |-> replies, rest |-> rest]
           m == [type |-> "Received", data |-> data]
<1>4. net \in Seq(R) /\ net \in Seq(Reply) /\ t.half \in BOOLEAN
  BY <1>1 DEF TcpType
<1>5. n \in Nat /\ n <= Len(net) /\ Len(net) \in Nat
  BY <1>4
<1>6. lbox' = lbox \/ lbox' = lbox \o <<m>>
  BY <1>3 DEF AfterTellingListener
<1>7. \A d \in Connections : tcp'[d].net = IF d = c THEN left ELSE tcp[d].net
  BY <1>1, <1>3 DEF TcpType
<1>h. rest = (IF splits THEN <<net[n + 1]>> ELSE <<>>) /\ (splits => n < Len(net))
  BY <1>3
<1> HIDE DEF net, rest, R
<1>8. left \in Seq(R) /\ replies \in Seq(R) /\ replies \in Seq(Reply)
  BY <1>4, <1>5, CutInTwo
<1> HIDE DEF left, replies
<1>9. rest \in Seq(Reply)
  <2>1. splits => net[n + 1] \in Reply
    BY <1>4, <1>5, <1>h
  <2> QED BY <1>h, <2>1
<1>10. data \in Data
  BY <1>4, <1>8, <1>9 DEF Data
<1>11. data.replies = replies
  OBVIOUS
<1> HIDE DEF data
<1>12. m \in ListenerMessage /\ m.data = data
  BY <1>10 DEF ListenerMessage
<1> HIDE DEF m
<1>13. m \in M
  BY <1>8, <1>11, <1>12 DEF TrueMessage, R
<1> HIDE DEF M
<1>14. lbox' \in Seq(M)
  BY <1>1, <1>6, <1>13, SMTT(30)
<1>15. \A d \in Connections : tcp'[d].net \in Seq(R)
  BY <1>1, <1>7, <1>8
<1> QED BY <1>2, <1>14, <1>15 DEF TrueNets, M, R

(* The end of a connection loses its replies.                              *)
LEMMA ConnectionTrue ==
    ASSUME TypeInv, TruthInv, NEW c \in Connections,
           \/ TcpConnect(c) \/ TcpWrite(c) \/ TcpRead(c) \/ TcpAbort(c) \/ TcpQuit(c)
           \/ TcpConnectFail(c) \/ TcpDrop(c)
    PROVE  /\ UNCHANGED executed /\ lbox' \in Seq(TrueMessage(Executed))
           /\ (\A d \in Connections : tcp'[d].net = tcp[d].net) \/ TrueNets'
<1>1. tcp \in [Connections -> TcpType] /\ lbox \in Seq(TrueMessage(Executed)) /\ TrueNets
  BY DEF TypeInv, TypeOK, TcpTypeOK, TruthInv
<1>2. CASE TcpConnect(c) \/ TcpConnectFail(c)
  <2>1. UNCHANGED <<lbox, executed>> /\ \E s : tcp' = [tcp EXCEPT ![c].state = s]
    BY <1>2, Zenon DEF TcpConnect, TcpConnectFail
  <2> QED BY <1>1, <2>1 DEF TcpType
<1>3. CASE TcpWrite(c)
  <2>1. UNCHANGED <<lbox, executed>>
        /\ tcp' = [tcp EXCEPT ![c].wire = @ \o tcp[c].writing, ![c].writing = <<>>]
    BY <1>3, Zenon DEF TcpWrite
  <2> QED BY <1>1, <2>1 DEF TcpType
<1>4. CASE TcpRead(c)
  <2>1. UNCHANGED executed
    BY <1>4 DEF TcpRead
  <2> QED BY <1>4, <2>1, ReadsTrue
<1>5. CASE TcpAbort(c) \/ TcpQuit(c) \/ TcpDrop(c)
  <2>1. Closes(c) /\ UNCHANGED <<lbox, executed>>
    BY <1>5, Zenon DEF TcpAbort, TcpQuit, TcpDrop, Closes
  <2>2. PICK n \in 0..Len(tcp[c].writing) :
          tcp' = [tcp EXCEPT ![c].state = "closed", ![c].abort = FALSE, ![c].net = <<>>,
                             ![c].half = FALSE, ![c].writing = <<>>,
                             ![c].wire = @ \o SubSeq(tcp[c].writing, 1, n)]
    BY <2>1 DEF Closes
  <2>3. \A d \in Connections : tcp'[d].net = IF d = c THEN <<>> ELSE tcp[d].net
    BY <1>1, <2>2 DEF TcpType
  <2>4. Executed' = Executed
    BY <2>1 DEF Executed
  <2>5. TrueNets'
    <3> DEFINE R == TrueReply(Executed)
    <3>1. \A d \in Connections : tcp[d].net \in Seq(R)
      BY <1>1 DEF TrueNets
    <3> HIDE DEF R
    <3>2. <<>> \in Seq(R)
      OBVIOUS
    <3>3. \A d \in Connections : tcp'[d].net \in Seq(R)
      BY <2>3, <3>1, <3>2
    <3> QED BY <2>4, <3>3 DEF TrueNets, R
  <2> QED BY <1>1, <2>1, <2>5
<1> QED BY <1>2, <1>3, <1>4, <1>5

(* The server answers "ok" once it has executed.                           *)
LEMMA ExecutedGrows ==
    ASSUME executed \in Seq(Execution), NEW x, executed' = Append(executed, x), NEW S,
           S = {x.ids[k] : k \in DOMAIN x.ids}
    PROVE  Executed' = Executed \cup S
<1> DEFINE xs == executed'
<1>1. /\ \A m \in DOMAIN xs : \/ m \in DOMAIN executed /\ xs[m] = executed[m]
                              \/ xs[m] = x
      /\ \A m \in DOMAIN executed : m \in DOMAIN xs /\ xs[m] = executed[m]
      /\ \E m \in DOMAIN xs : xs[m] = x
  <2>1. Len(executed) + 1 \in DOMAIN Append(executed, x) /\ Append(executed, x)[Len(executed) + 1] = x
    OBVIOUS
  <2> QED BY <2>1
<1> HIDE DEF xs
<1>2. Executed' = UNION {{xs[m].ids[k] : k \in DOMAIN xs[m].ids} : m \in DOMAIN xs}
  BY DEF Executed, xs
<1> QED BY <1>1, <1>2 DEF Executed

(* What the execution of a command does to the replies, and to what has    *)
(* been executed.                                                          *)
LEMMA ServerAnswers ==
    ASSUME TypeInv, NEW c \in Connections, ServerExecute(c)
    PROVE  /\ UNCHANGED lbox
           /\ \E p \in Reply, S \in SUBSET (Ids \cup {Internal}) :
                /\ Executed' = Executed \cup S
                /\ p \in TrueReply(Executed')
                /\ S = {} \/ \E x : executed' = Append(executed, x) /\ S = {x.ids[k] : k \in DOMAIN x.ids}
                /\ \A d \in Connections : \/ tcp'[d].net = tcp[d].net
                                         \/ tcp'[d].net = Append(tcp[d].net, p)
<1> DEFINE t == tcp[c]
           r == Head(t.wire)
           queues == t.multi /\ r.op # "exec"
           k == IF queues THEN "queued"
                ELSE IF r.op \in SessionOps /\ r.value \in Rejected THEN "error" ELSE "ok"
           p == [to |-> r.id, kind |-> k]
           net == IF t.state = "open" THEN Append(t.net, p) ELSE t.net
           session == IF r.op \in SessionOps /\ k = "ok" THEN [t.settings EXCEPT ![r.op] = r.value]
                      ELSE t.settings
           multi == (t.multi \/ r.op = "multi") /\ r.op # "exec"
           members == IF queues THEN Append(t.members, r.id)
                      ELSE IF r.op = "exec" THEN <<>> ELSE t.members
           quit == r.op = "quit"
           after == [t EXCEPT !.wire = Tail(t.wire), !.net = net, !.settings = session,
                              !.multi = multi, !.members = members, !.quit = quit]
           ids == IF r.op = "exec" THEN Append(t.members, r.id) ELSE <<r.id>>
           x == [conn |-> c, ids |-> ids, settings |-> tcp'[c].settings]
<1>1. /\ tcp \in [Connections -> TcpType] /\ t \in TcpType /\ executed \in Seq(Execution)
      /\ t.wire \in Seq(Request) /\ t.members \in Seq(Idents)
  BY ConnectionFields DEF TypeInv, TypeOK, TcpTypeOK
<1>2. /\ t.wire # <<>> /\ UNCHANGED lbox /\ tcp' = [tcp EXCEPT ![c] = after]
      /\ executed' = IF queues \/ r.id = Internal THEN executed ELSE Append(executed, x)
  <2>1. tcp' = [tcp EXCEPT ![c] = after]
    BY DEF ServerExecute
  <2>2. executed' = IF queues \/ r.id = Internal THEN executed ELSE Append(executed, x)
    BY DEF ServerExecute
  <2>3. t.wire # <<>> /\ UNCHANGED lbox
    BY DEF ServerExecute
  <2> QED BY <2>1, <2>2, <2>3
<1>3. r \in Request /\ r.id \in Idents
  <2> DEFINE w == t.wire
  <2>1. w \in Seq(Request) /\ w # <<>>
    BY <1>1, <1>2
  <2> HIDE DEF w
  <2>2. Head(w) \in Request
    BY <2>1
  <2>3. Head(w).id \in Idents
    BY <2>2 DEF Request, Idents
  <2> QED BY <2>2, <2>3 DEF w
<1>4. k \in {"ok", "queued", "error"} /\ (k = "ok" => ~queues)
  OBVIOUS
<1>5. \A d \in Connections : tcp'[d].net = IF d = c THEN net ELSE tcp[d].net
  <2> HIDE DEF net, session, multi, members, quit
  <2>1. after.net = net
    BY <1>1 DEF TcpType
  <2> QED BY <1>1, <1>2, <2>1
<1>6. p \in Reply /\ p.to = r.id /\ p.kind = k
  BY <1>3, <1>4 DEF Reply, Idents
<1>7. \A d \in Connections : tcp'[d].net = tcp[d].net \/ tcp'[d].net = Append(tcp[d].net, p)
  BY <1>5
<1>8. ids \in Seq(Idents) /\ (\E j \in DOMAIN ids : ids[j] = r.id) /\ x.ids = ids
  <2> DEFINE ms == t.members
             i == r.id
  <2>1. ms \in Seq(Idents) /\ i \in Idents
    BY <1>1, <1>3
  <2> HIDE DEF ms, i
  <2>2. /\ Append(ms, i) \in Seq(Idents) /\ <<i>> \in Seq(Idents)
        /\ Len(ms) + 1 \in DOMAIN Append(ms, i) /\ Append(ms, i)[Len(ms) + 1] = i
        /\ 1 \in DOMAIN <<i>> /\ <<i>>[1] = i
    BY <2>1
  <2> QED BY <2>2 DEF ms, i
<1> HIDE DEF t, r, k, p, net, x, ids, queues
<1>9. CASE queues \/ r.id = Internal
  <2>1. Executed' = Executed \cup {}
    BY <1>2, <1>9 DEF Executed
  <2>2. p \in TrueReply(Executed')
    BY <1>4, <1>6, <1>9 DEF TrueReply
  <2> QED BY <1>2, <1>6, <1>7, <2>1, <2>2
<1>10. CASE ~(queues \/ r.id = Internal)
  <2> DEFINE S == {x.ids[j] : j \in DOMAIN x.ids}
  <2>1. executed' = Append(executed, x)
    BY <1>2, <1>10
  <2>2. S \in SUBSET (Ids \cup {Internal}) /\ r.id \in S
    BY <1>8 DEF Idents
  <2>3. S = {x.ids[j] : j \in DOMAIN x.ids}
    OBVIOUS
  <2> HIDE DEF S
  <2>4. Executed' = Executed \cup S
    BY <1>1, <2>1, <2>3, ExecutedGrows
  <2>5. p \in TrueReply(Executed')
    BY <1>6, <2>2, <2>4 DEF TrueReply
  <2>6. \E y : executed' = Append(executed, y) /\ S = {y.ids[j] : j \in DOMAIN y.ids}
    BY <2>1, <2>3
  <2> QED BY <1>2, <1>6, <1>7, <2>2, <2>4, <2>5, <2>6
<1> QED BY <1>9, <1>10

LEMMA ServerTrue ==
    ASSUME TypeInv, TruthInv, NEW c \in Connections, ServerExecute(c),
           UNCHANGED <<outcome, dbox>>
    PROVE  TruthInv'
<1>1. PICK p \in Reply, S \in SUBSET (Ids \cup {Internal}) :
        /\ Executed' = Executed \cup S
        /\ p \in TrueReply(Executed')
        /\ \A d \in Connections : tcp'[d].net = tcp[d].net \/ tcp'[d].net = Append(tcp[d].net, p)
  BY ServerAnswers
<1>2. /\ \A d \in Connections : tcp[d].net \in Seq(TrueReply(Executed'))
      /\ lbox \in Seq(TrueMessage(Executed'))
      /\ \A d \in Decoders : dbox[d] \in Seq(TruePart(Executed'))
      /\ \A i \in Ids : outcome[i] = "ok" => i \in Executed' \cup QuitIds
  BY <1>1, TruthLasts
<1>3. TrueNets'
  <2> DEFINE R == TrueReply(Executed')
  <2>1. p \in R /\ \A d \in Connections : tcp[d].net \in Seq(R)
    BY <1>1, <1>2
  <2> HIDE DEF R
  <2>2. \A d \in Connections : Append(tcp[d].net, p) \in Seq(R)
    BY <2>1
  <2>3. \A d \in Connections : tcp'[d].net \in Seq(R)
    BY <1>1, <2>1, <2>2
  <2> QED BY <2>3 DEF TrueNets, R
<1>4. TrueOutcomes'
  <2>1. QuitIds' = QuitIds
    BY DEF QuitIds, Items
  <2> QED BY <1>2, <2>1 DEF TrueOutcomes
<1>5. UNCHANGED lbox
  BY ServerAnswers
<1> QED BY <1>2, <1>3, <1>4, <1>5 DEF TruthInv

-----------------------------------------------------------------------------
(* Replies that are handed to the decoders, and what becomes of them.      *)

LEMMA DecodersTrue ==
    ASSUME TypeInv, TruthInv, Sound, NEW d \in Decoders, DecodePartition(d) \/ DecoderStop(d),
           UNCHANGED executed
    PROVE  /\ \A e \in Decoders : dbox'[e] \in Seq(TruePart(Executed))
           /\ TrueOutcomes'
<1> DEFINE E == Executed
           P == TruePart(E)
           box == dbox[d]
<1>1. /\ dbox \in [Decoders -> Seq(DecoderMessage)]
      /\ \A e \in Decoders : dbox[e] \in Seq(P)
      /\ box \in Seq(P) /\ box \in Seq(DecoderMessage) /\ AllMatched(box)
  BY DEF TypeInv, TypeOK, LTypeOK, TruthInv, Sound
<1>2. Executed' = Executed /\ QuitIds' = QuitIds
  BY DEF Executed, QuitIds, Items
<1>3. \A i \in Ids : outcome[i] = "ok" => i \in E \cup QuitIds
  BY DEF TruthInv, TrueOutcomes
<1>4. CASE DecoderStop(d)
  <2>1. dbox' = [dbox EXCEPT ![d] = <<>>] /\ UNCHANGED outcome
    BY <1>4 DEF DecoderStop
  <2> HIDE DEF P
  <2>2. \A e \in Decoders : dbox'[e] \in Seq(P)
    BY <1>1, <2>1
  <2> QED BY <1>2, <1>3, <2>1, <2>2 DEF P, TrueOutcomes
<1>5. CASE DecodePartition(d)
  <2> DEFINE p == Head(box)
             Mine(i) == {k \in DOMAIN p.reqs : p.reqs[k].id = i}
  <2>1. /\ box # <<>> /\ p.type = "Partition" /\ dbox' = [dbox EXCEPT ![d] = Tail(@)]
        /\ outcome' = [i \in Ids |->
             IF outcome[i] = "pending" /\ Mine(i) # {}
             THEN Verdict(p.reqs[CHOOSE k \in Mine(i) : TRUE],
                          p.replies[p.skip + (CHOOSE k \in Mine(i) : TRUE)])
             ELSE outcome[i]]
    BY <1>5 DEF DecodePartition
  <2>2. /\ p \in Partition /\ Matched(p) /\ p.replies \in Seq(TrueReply(E))
        /\ \A e \in Decoders : dbox'[e] \in Seq(P)
    <3> HIDE DEF P, box
    <3>1. p \in P /\ Tail(box) \in Seq(P) /\ p \in DecoderMessage /\ Matched(p)
      BY <1>1, <2>1, HeadAndTail, MatchedTail
    <3>2. \A e \in Decoders : dbox'[e] \in Seq(P)
      BY <1>1, <2>1, <3>1 DEF box
    <3> HIDE DEF p
    <3>3. p \in Partition
      BY <2>1, <3>1 DEF DecoderMessage
    <3>4. p.replies \in Seq(TrueReply(E))
      BY <2>1, <3>1 DEF P, TruePart
    <3> QED BY <3>1, <3>2, <3>3, <3>4
  <2> HIDE DEF p
  <2>3. ASSUME NEW i \in Ids, outcome'[i] = "ok" PROVE i \in E \cup QuitIds
    <3>1. CASE outcome[i] = "pending" /\ Mine(i) # {}
      <4> DEFINE k == CHOOSE k \in Mine(i) : TRUE
      <4>1. k \in DOMAIN p.reqs /\ p.reqs[k].id = i
        BY <3>1
      <4>2. Verdict(p.reqs[k], p.replies[p.skip + k]) = "ok"
        BY <2>1, <2>3, <3>1
      <4> HIDE DEF k
      <4>3. p.reqs \in Seq(Request) /\ p.skip \in Nat /\ p.skip + Len(p.reqs) = Len(p.replies)
        BY <2>2 DEF Partition
      <4> DEFINE reply == p.replies[p.skip + k]
                 r == p.reqs[k]
      <4>4. reply \in TrueReply(E)
        <5>1. p.skip + k \in 1..Len(p.replies)
          BY <4>1, <4>3
        <5> QED BY <2>2, <5>1
      <4>5. reply.to = r.id /\ reply.kind # "garbled" /\ reply \in Reply
        BY <2>2, <4>1, <4>4 DEF Matched, TrueReply
      <4>6. Verdict(r, reply) = "ok" /\ r.id = i
        BY <4>1, <4>2
      <4> HIDE DEF reply, r
      <4>7. reply.kind = "ok"
        BY <4>5, <4>6 DEF Verdict, Reply
      <4>8. i # Internal
        BY SharedAssumption
      <4> QED BY <4>4, <4>5, <4>6, <4>7, <4>8 DEF TrueReply
    <3>2. CASE ~(outcome[i] = "pending" /\ Mine(i) # {})
      BY <1>3, <2>1, <2>3, <3>2
    <3> QED BY <3>1, <3>2
  <2>4. TrueOutcomes'
    BY <1>2, <2>3 DEF TrueOutcomes
  <2> QED BY <2>2, <2>4
<1> QED BY <1>4, <1>5

LEMMA ReceiveTrue ==
    ASSUME TypeInv, LifeInv, PairInv, TruthInv, lstate \in Receiving, Receives("Received"),
           ReceiveData(Head(lbox).data)
    PROVE  \A d \in Decoders : dbox'[d] \in Seq(TruePart(Executed))
<1> DEFINE data == Head(lbox).data
           replies == Parsed(data)
           count == IF Len(replies) > Len(requests) THEN Len(requests) ELSE Len(replies)
           p == [type |-> "Partition", replies |-> replies,
                 reqs |-> SubSeq(requests, 1, count), skip |-> Len(replies) - count]
           P == TruePart(Executed)
           M == TrueMessage(Executed)
<1>1. /\ PairTypes /\ dbox \in [Decoders -> Seq(DecoderMessage)] /\ lbox # <<>>
      /\ Head(lbox).type = "Received" /\ requests \in Seq(Request)
      /\ \A d \in Decoders : dbox[d] \in Seq(P)
      /\ lbox \in Seq(M)
  BY PairTyped DEF TypeInv, TypeOK, LTypeOK, Receives, PairTypes, TruthInv
<1>2. Live
  BY DEF LifeInv, QuitStates, Live, Down, Receiving
<1>3. replies = data.replies /\ Len(data.replies) <= Len(requests) /\ data \in Data
  BY <1>1, <1>2, ListenerReads DEF PairInv
<1>4. data.replies \in Seq(TrueReply(Executed))
  <2> HIDE DEF M
  <2>1. Head(lbox) \in M
    BY <1>1
  <2> QED BY <1>1, <2>1 DEF M, TrueMessage
<1>5. \/ UNCHANGED dbox
      \/ \E d \in Decoders : dbox' = [dbox EXCEPT ![d] = Append(@, p)]
  BY DEF ReceiveData
<1>6. /\ p.reqs = SubSeq(requests, 1, count) /\ p.replies = replies /\ p.skip = Len(replies) - count
      /\ p.type = "Partition"
  OBVIOUS
<1>t. p = [type |-> "Partition", replies |-> replies, reqs |-> p.reqs, skip |-> p.skip]
  OBVIOUS
<1> HIDE DEF data, replies, p
<1>7. p \in P
  <2>1. Len(replies) \in Nat /\ Len(requests) \in Nat /\ replies \in Seq(Reply)
    BY <1>1, <1>3 DEF Data
  <2>2. count = Len(replies)
    BY <1>3, <2>1
  <2>3. p.reqs \in Seq(Request) /\ Len(p.reqs) = Len(replies) /\ p.skip = 0
    <3>1. count \in Nat /\ count <= Len(requests)
      BY <1>3, <2>1, <2>2
    <3> HIDE DEF count
    <3>2. SubSeq(requests, 1, count) \in Seq(Request) /\ Len(SubSeq(requests, 1, count)) = count
      BY <1>1, <3>1, CutInTwo
    <3>3. p.skip = 0
      BY <1>6, <2>1, <2>2
    <3> QED BY <1>6, <2>2, <3>2, <3>3
  <2>4. p \in Partition
    BY <1>t, <2>1, <2>3 DEF Partition
  <2> QED BY <1>3, <1>4, <1>6, <2>4 DEF P, TruePart, DecoderMessage
<1> HIDE DEF P
<1>8. ASSUME NEW d \in Decoders, dbox' = [dbox EXCEPT ![d] = Append(@, p)], NEW e \in Decoders
      PROVE  dbox'[e] \in Seq(P)
  <2>1. Append(dbox[d], p) \in Seq(P)
    BY <1>1, <1>7
  <2> QED BY <1>1, <1>8, <2>1
<1> QED BY <1>1, <1>5, <1>8 DEF P

LEMMA PoisonTrue ==
    ASSUME TypeInv, TruthInv, PoisonDecoders
    PROVE  \A d \in Decoders : dbox'[d] \in Seq(TruePart(Executed))
<1> DEFINE P == TruePart(Executed)
           m == Signal("PoisonPill")
<1>1. m \in P /\ \A d \in Decoders : dbox[d] \in Seq(P)
  BY TruthTypes DEF TruthInv
<1>2. \A d \in Decoders : dbox'[d] = dbox[d] \/ dbox'[d] = Append(dbox[d], m)
  BY DEF PoisonDecoders
<1> HIDE DEF P, m
<1>3. \A d \in Decoders : Append(dbox[d], m) \in Seq(P)
  BY <1>1
<1>4. \A d \in Decoders : dbox'[d] \in Seq(P)
  BY <1>1, <1>2, <1>3
<1> QED BY <1>4 DEF P

(* QUIT succeeds without the server: it is the only request that does.     *)
LEMMA QuitTrue ==
    ASSUME TypeInv, AtomInv, TruthInv, QuitWhileConnecting, UNCHANGED executed
    PROVE  /\ TrueOutcomes'
           /\ \A i \in Ids : outcome'[i] = outcome[i] \/ (outcome[i] = "pending" /\ outcome'[i] \in {"ok", "failed"})
<1> DEFINE r == Handed[1]
<1>1. /\ outcome' = [Complete(IdsOf(queued), "failed") EXCEPT ![r.id] =
                        IF outcome[r.id] = "pending" THEN "ok" ELSE @]
      /\ lbox # <<>> /\ Head(lbox).type = "Request" /\ r.op = "quit" /\ IsItem
  BY DEF QuitWhileConnecting, Receives, IsItem
<1>2. Head(lbox) \in Items /\ lbox \in Seq(ListenerMessage)
  BY <1>1, HandoverFirst DEF AtomInv, TypeInv, TypeOK, LTypeOK
<1>3. r.id \in QuitIds
  <2> DEFINE item == Head(lbox)
  <2>1. item \in Items /\ 1 \in DOMAIN item.reqs /\ r = item.reqs[1]
    <3>1. item.reqs \in Seq(Request) /\ Len(item.reqs) = 1
      BY <1>1, <1>2, ItemFacts
    <3> QED BY <1>2, <3>1 DEF Handed
  <2> HIDE DEF item, r
  <2>2. r \in {q \in UNION {{it.reqs[k] : k \in DOMAIN it.reqs} : it \in Items} : q.op = "quit"}
    BY <1>1, <2>1
  <2> QED BY <2>2 DEF QuitIds
<1>4. Executed' = Executed /\ QuitIds' = QuitIds
  BY DEF Executed, QuitIds, Items
<1> HIDE DEF r
<1>5. \A i \in Ids : \/ outcome'[i] = outcome[i]
                     \/ outcome[i] = "pending" /\ outcome'[i] = "failed"
                     \/ outcome[i] = "pending" /\ outcome'[i] = "ok" /\ i = r.id
  BY <1>1 DEF Complete
<1>6. TrueOutcomes'
  BY <1>3, <1>4, <1>5 DEF TrueOutcomes, TruthInv
<1> QED BY <1>5, <1>6

-----------------------------------------------------------------------------
(* The listener claims no success but that of a QUIT.                      *)

(* No promise is completed twice.                                          *)
Settled == \A i \in Ids : outcome[i] # "pending" => outcome'[i] = outcome[i]

LEMMA CompletesSettled ==
    ASSUME TypeInv, UNCHANGED outcome \/ \E ids, result : outcome' = Complete(ids, result)
    PROVE  Settled
BY DEF Settled, Complete

(* What the listener does with its mailbox, the promises and the mailboxes *)
(* of the decoders.                                                        *)
LEMMA ListenerDoes ==
    ASSUME LNext
    PROVE  /\ lbox # <<>> /\ (Consume \/ lbox' = <<>>)
           /\ \/ UNCHANGED outcome \/ \E ids : outcome' = Complete(ids, "failed")
              \/ QuitWhileConnecting
           /\ \/ UNCHANGED dbox \/ PoisonDecoders
              \/ lstate \in Receiving /\ Receives("Received") /\ ReceiveData(Head(lbox).data)
              \/ dbox' = [d \in Decoders |-> <<>>]
<1> DEFINE Box == lbox # <<>> /\ (Consume \/ lbox' = <<>>)
           Promises == \/ UNCHANGED outcome \/ \E ids : outcome' = Complete(ids, "failed")
                       \/ QuitWhileConnecting
           Boxes == \/ UNCHANGED dbox \/ PoisonDecoders
                    \/ lstate \in Receiving /\ Receives("Received") /\ ReceiveData(Head(lbox).data)
                    \/ dbox' = [d \in Decoders |-> <<>>]
<1>1. ASSUME FailItem \/ SendItem PROVE Box /\ Promises /\ Boxes
  BY <1>1, Zenon DEF FailItem, SendItem, IsItem, Receives
<1>2. ASSUME ItemWhileConnecting PROVE Box /\ Promises /\ Boxes
  BY <1>2, Zenon DEF ItemWhileConnecting, IsItem, Receives
<1>3. ASSUME TerminatedConnecting \/ TerminatedInitializing \/ TerminatedConnected
      PROVE  Box /\ Promises /\ Boxes
  BY <1>3, Zenon DEF TerminatedConnecting, TerminatedInitializing, TerminatedConnected, FailQueued,
                     FailSent, Receives
<1>4. ASSUME QueueItem \/ OnConnected \/ HandleReceiveTimeout \/ OnRemove \/ OnAbort \/ OnShutdown
      PROVE  Box /\ Promises /\ Boxes
  BY <1>4, Zenon DEF QueueItem, OnConnected, HandleReceiveTimeout, OnRemove, OnAbort, OnShutdown,
                     Acknowledge, IsItem, Receives
<1>5. ASSUME Ignore PROVE Box /\ Promises /\ Boxes
  BY <1>5, Zenon DEF Ignore, Ignored, Receives
<1>6. ASSUME QuitWhileConnecting PROVE Box /\ Promises /\ Boxes
  BY <1>6, Zenon DEF QuitWhileConnecting, Receives
<1>7. ASSUME OnConnectedAfterQuit \/ TerminatedShuttingDown PROVE Box /\ Promises /\ Boxes
  BY <1>7, Zenon DEF OnConnectedAfterQuit, TerminatedShuttingDown, Receives
<1>8. ASSUME Receive \/ ReceiveInitializing PROVE Box /\ Promises /\ Boxes
  <2>1. lstate \in Receiving /\ Receives("Received") /\ ReceiveData(Head(lbox).data)
        /\ UNCHANGED outcome /\ Consume
    BY <1>8 DEF Receive, ReceiveInitializing, Receiving
  <2> QED BY <2>1 DEF Receives
<1>9. ASSUME TerminatedAwaitingDecoders PROVE Box /\ Promises /\ Boxes
  BY <1>9 DEF TerminatedAwaitingDecoders, Receives
<1>10. Box /\ Promises /\ Boxes
  <2> HIDE DEF Box, Promises, Boxes
  <2> QED BY <1>1, <1>2, <1>3, <1>4, <1>5, <1>6, <1>7, <1>8, <1>9 DEF LNext
<1> QED BY <1>10

LEMMA ListenerTrue ==
    ASSUME TypeInv, LifeInv, PairInv, AtomInv, TruthInv, ListenerStep
    PROVE  TruthInv' /\ Settled /\ UNCHANGED executed
<1>1. LNext /\ UNCHANGED executed /\ UNCHANGED tcp
  BY DEF ListenerStep, others
<1>2. lbox' \in Seq(TrueMessage(Executed))
  <2> DEFINE M == TrueMessage(Executed)
  <2>1. lbox \in Seq(M) /\ lbox # <<>> /\ (lbox' = Tail(lbox) \/ lbox' = <<>>)
    BY <1>1, ListenerDoes DEF TruthInv, Consume
  <2> HIDE DEF M
  <2>2. Tail(lbox) \in Seq(M)
    BY <2>1, HeadAndTail
  <2>3. <<>> \in Seq(M)
    OBVIOUS
  <2>4. lbox' \in Seq(M)
    BY <2>1, <2>2, <2>3
  <2> QED BY <2>4 DEF M
<1>3. \A d \in Decoders : dbox'[d] \in Seq(TruePart(Executed))
  <2>1. CASE UNCHANGED dbox
    BY <2>1 DEF TruthInv
  <2>2. CASE PoisonDecoders
    BY <2>2, PoisonTrue
  <2>3. CASE lstate \in Receiving /\ Receives("Received") /\ ReceiveData(Head(lbox).data)
    BY <2>3, ReceiveTrue
  <2>4. CASE dbox' = [d \in Decoders |-> <<>>]
    <3>1. \A d \in Decoders : dbox'[d] = <<>>
      BY <2>4
    <3>2. \A S : <<>> \in Seq(S)
      OBVIOUS
    <3> QED BY <3>1, <3>2
  <2> QED BY <1>1, <2>1, <2>2, <2>3, <2>4, ListenerDoes
<1>4. (UNCHANGED outcome \/ TrueOutcomes') /\ Settled
  <2>1. CASE UNCHANGED outcome
    BY <2>1 DEF Settled
  <2>2. CASE \E ids : outcome' = Complete(ids, "failed")
    <3>1. PICK ids : outcome' = Complete(ids, "failed")
      BY <2>2
    <3>2. TrueOutcomes'
      BY <1>1, <3>1, CompletesTrue
    <3>3. Settled
      BY <3>1, CompletesSettled
    <3> QED BY <3>2, <3>3
  <2>3. CASE QuitWhileConnecting
    BY <1>1, <2>3, QuitTrue DEF Settled
  <2> QED BY <1>1, <2>1, <2>2, <2>3, ListenerDoes
<1>5. TruthInv'
  BY <1>1, <1>2, <1>3, <1>4, TruthStays
<1> QED BY <1>1, <1>4, <1>5

(* When the EXEC of a transaction has succeeded, all of it was executed.   *)
LEMMA TransactionTrue ==
    ASSUME TypeInv, AtomInv, TruthInv, NEW item \in Items, item.type = "Transaction",
           outcome[LastId(item)] = "ok"
    PROVE  IdsOf(item.reqs) \ {Internal} \subseteq Executed
<1> DEFINE n == Len(item.reqs)
           exec == item.reqs[n]
<1>1. /\ item.reqs \in Seq(Request) /\ n \in Nat /\ n >= 2
      /\ \A i \in 1..n : /\ item.reqs[i].id = Internal <=> i = 1
                         /\ item.reqs[i].op = "exec" <=> i = n
      /\ exec.id \in Ids /\ LastId(item) = exec.id
  BY ItemFacts DEF LastId
<1>2. exec.id \in Executed \cup QuitIds
  BY <1>1 DEF TruthInv, TrueOutcomes
<1>3. n \in 1..n /\ exec.id # Internal /\ exec.op = "exec"
  BY <1>1
<1>4. exec.id \notin QuitIds
  <2> SUFFICES ASSUME exec.id \in QuitIds PROVE FALSE
    OBVIOUS
  <2>1. PICK r \in UNION {{it.reqs[k] : k \in DOMAIN it.reqs} : it \in Items} :
          r.op = "quit" /\ exec.id = r.id
    BY DEF QuitIds
  <2>2. PICK other \in Items : r \in {other.reqs[k] : k \in DOMAIN other.reqs}
    BY <2>1
  <2>3. PICK k \in DOMAIN other.reqs : r = other.reqs[k]
    BY <2>2
  <2>4. k \in 1..Len(other.reqs)
    BY <2>3, ItemFacts
  <2>5. item = other /\ n = k
    BY <1>3, <2>1, <2>3, <2>4, ItemsApart
  <2>6. r = exec
    BY <2>3, <2>5
  <2> QED BY <1>3, <2>1, <2>6
<1>5. PICK m \in DOMAIN executed : exec.id \in {executed[m].ids[k] : k \in DOMAIN executed[m].ids}
  BY <1>2, <1>4 DEF Executed
<1>6. PICK k \in DOMAIN executed[m].ids : executed[m].ids[k] = exec.id
  BY <1>5
<1>7. exec.id \in IdsOf(item.reqs) \ {Internal}
  BY <1>1, <1>3 DEF IdsOf
<1>8. executed[m].ids = [j \in 1..n - 1 |-> item.reqs[j + 1].id]
  BY <1>6, <1>7, AtomMeans DEF TransactionsAreAtomic
<1>9. ASSUME NEW i \in IdsOf(item.reqs) \ {Internal} PROVE i \in Executed
  <2>1. PICK j \in 1..n : i = item.reqs[j].id
    BY <1>1 DEF IdsOf
  <2>2. j - 1 \in 1..n - 1 /\ (j - 1) + 1 = j
    BY <1>1, <2>1
  <2>3. j - 1 \in DOMAIN executed[m].ids /\ executed[m].ids[j - 1] = i
    BY <1>8, <2>1, <2>2
  <2> QED BY <2>3 DEF Executed
<1> QED BY <1>9

LEMMA TruthStep ==
    ASSUME Whole, TypeInv, LifeInv, CleanInv, PairInv, Sound, AtomInv, TruthInv, [Next]_vars
    PROVE  /\ TruthInv'
           /\ \/ UNCHANGED executed /\ Settled
              \/ UNCHANGED outcome /\ \E c \in Connections : ServerExecute(c)
<1> DEFINE Executes == UNCHANGED outcome /\ \E c \in Connections : ServerExecute(c)
           Goal == TruthInv' /\ ((UNCHANGED executed /\ Settled) \/ Executes)
<1>u. ASSUME UNCHANGED <<lbox, dbox, tcp, outcome, executed>> PROVE Goal
  BY <1>u, TruthStays DEF Settled
<1>s. ASSUME UNCHANGED <<dbox, outcome, executed>>, \A c \in Connections : tcp'[c].net = tcp[c].net,
             UNCHANGED lbox \/ \E t \in ListenerSignals : Tell(t)
      PROVE  Goal
  <2>1. lbox' \in Seq(TrueMessage(Executed))
    BY <1>s, TellsTruth
  <2> QED BY <1>s, <2>1, TruthStays DEF Settled
<1>2. ASSUME NEW t \in Threads, Check(t) PROVE Goal
  <2>1. UNCHANGED <<lbox, dbox, tcp, executed>>
    BY <1>2 DEF Check, decoderVars
  <2>2. CASE UNCHANGED outcome
    BY <1>u, <2>1, <2>2
  <2>3. CASE ~UNCHANGED outcome
    <3>1. PICK ids : outcome' = Complete(ids, "refused")
      BY <1>2, <2>3 DEF Check
    <3>2. TrueOutcomes'
      BY <2>1, <3>1, CompletesTrue
    <3>3. Settled
      BY <3>1, CompletesSettled
    <3> QED BY <2>1, <3>2, <3>3, TruthStays
  <2> QED BY <2>2, <2>3
<1>3. ASSUME NEW item \in Items, CompleteTransaction(item) PROVE Goal
  <2> DEFINE ids == IdsOf(item.reqs) \ {Internal}
             result == outcome[LastId(item)]
  <2>1. UNCHANGED <<lbox, dbox, tcp, executed>> /\ outcome' = Complete(ids, result)
        /\ item.type = "Transaction"
    BY <1>3 DEF CompleteTransaction, decoderVars, others
  <2>2. result = "ok" => ids \subseteq Executed
    BY <2>1, TransactionTrue
  <2> HIDE DEF ids, result
  <2>3. TrueOutcomes'
    BY <2>1, <2>2, CompletesTrue
  <2>4. Settled
    BY <2>1, CompletesSettled
  <2> QED BY <2>1, <2>3, <2>4, TruthStays
<1>4. ASSUME NEW t \in Threads, Post(t) PROVE Goal
  <2> DEFINE m == NextItem(t)
             M == TrueMessage(Executed)
  <2>1. UNCHANGED <<dbox, tcp, outcome, executed>> /\ (lbox' = lbox \/ lbox' = lbox \o <<m>>)
        /\ HasItem(t)
    BY <1>4 DEF Post, decoderVars, AfterTellingListener, TypeInv, AdmittedHasItem
  <2>2. m \in Item
    BY <2>1, NextItemType DEF TypeInv
  <2>3. m \in M /\ lbox \in Seq(M)
    BY <2>2, TruthTypes DEF TruthInv
  <2> HIDE DEF m, M
  <2>4. lbox \o <<m>> \in Seq(M)
    BY <2>3
  <2>5. lbox' \in Seq(M)
    BY <2>1, <2>3, <2>4
  <2> QED BY <2>1, <2>5, TruthStays DEF M, Settled
<1>5. ASSUME ListenerStep PROVE Goal
  BY <1>5, ListenerTrue
<1>6. ASSUME NEW d \in Decoders, DecoderStep(d) PROVE Goal
  <2>1. (DecodePartition(d) \/ DecoderStop(d)) /\ UNCHANGED <<tcp, executed>>
    BY <1>6 DEF DecoderStep, others
  <2>2. UNCHANGED lbox \/ \E t \in ListenerSignals : Tell(t)
    BY <2>1 DEF DecodePartition, DecoderStop, ListenerSignals
  <2>3. lbox' \in Seq(TrueMessage(Executed))
    BY <2>2, TellsTruth
  <2>4. (\A e \in Decoders : dbox'[e] \in Seq(TruePart(Executed))) /\ TrueOutcomes'
    BY <2>1, DecodersTrue
  <2>5. Settled
    <3>1. CASE DecoderStop(d)
      BY <3>1 DEF DecoderStop, Settled
    <3>2. CASE DecodePartition(d)
      BY <3>2 DEF DecodePartition, Settled
    <3> QED BY <2>1, <3>1, <3>2
  <2> QED BY <2>1, <2>3, <2>4, <2>5, TruthStays
<1>7. ASSUME NEW e \in Connections,
             \/ IONext(e)
             \/ ((FireConnectTimeout(e) \/ FireAbortTimeout(e)) /\ UNCHANGED tcp),
             UNCHANGED <<dbox, executed>>
      PROVE  Goal
  <2>1. /\ \A c \in Connections : tcp'[c].net = tcp[c].net
        /\ UNCHANGED lbox \/ \E t \in ListenerSignals : Tell(t)
        /\ UNCHANGED outcome \/ \E ids : outcome' = Complete(ids, "failed")
    BY <1>7, IONets
  <2>2. CASE UNCHANGED outcome
    BY <1>7, <1>s, <2>1, <2>2
  <2>3. CASE \E ids : outcome' = Complete(ids, "failed")
    <3>1. PICK ids : outcome' = Complete(ids, "failed")
      BY <2>3
    <3>2. TrueOutcomes'
      BY <1>7, <3>1, CompletesTrue
    <3>3. Settled
      BY <3>1, CompletesSettled
    <3>4. lbox' \in Seq(TrueMessage(Executed))
      BY <2>1, TellsTruth
    <3> QED BY <1>7, <2>1, <3>2, <3>3, <3>4, TruthStays
  <2> QED BY <2>1, <2>2, <2>3
<1>8. ASSUME NEW e \in Connections, IOStep(e) PROVE Goal
  BY <1>7, <1>8 DEF IOStep, decoderVars, others
<1>9. ASSUME NEW e \in Connections, ConnectTimeoutFires(e) \/ AbortTimeoutFires(e) PROVE Goal
  <2>1. /\ (FireConnectTimeout(e) \/ FireAbortTimeout(e)) /\ UNCHANGED tcp
        /\ UNCHANGED <<dbox, executed>>
    BY <1>9 DEF ConnectTimeoutFires, AbortTimeoutFires, FireConnectTimeout, FireAbortTimeout,
                decoderVars, others
  <2> QED BY <1>7, <2>1
<1>10. ~Crash
  BY DEF Crash, Fault, Whole
<1>11. ASSUME NEW c \in Connections, UNCHANGED user,
              \/ TcpConnect(c) \/ TcpWrite(c) \/ TcpRead(c) \/ TcpAbort(c) \/ TcpQuit(c)
              \/ TcpConnectFail(c) \/ TcpDrop(c)
       PROVE  Goal
  <2>1. /\ UNCHANGED executed /\ lbox' \in Seq(TrueMessage(Executed))
        /\ (\A d \in Connections : tcp'[d].net = tcp[d].net) \/ TrueNets'
    BY <1>11, ConnectionTrue
  <2>2. UNCHANGED <<outcome, dbox>>
    BY <1>11 DEF user, decoderVars
  <2> QED BY <2>1, <2>2, TruthStays DEF Settled
<1>12. ASSUME NEW c \in Connections, Execute(c) PROVE Goal
  <2>1. UNCHANGED <<outcome, dbox>>
    BY <1>12 DEF Execute, user, decoderVars
  <2>2. CASE ServerExecute(c)
    BY <2>1, <2>2, ServerTrue
  <2>3. ~ServerSkip(c)
    <3> DEFINE w == tcp[c].wire
    <3>1. w \in Seq(Encodable)
      BY DEF CleanTcp, CleanInv
    <3>2. w # <<>> => Head(w).op # "spent"
      BY <3>1 DEF Encodable
    <3> QED BY <3>2 DEF ServerSkip
  <2> QED BY <1>12, <2>2, <2>3 DEF Execute
<1>13. ASSUME NEW c \in Connections, TcpStep(c) PROVE Goal
  BY <1>11, <1>13 DEF TcpStep
<1>14. ASSUME Faulty PROVE Goal
  <2>1. PICK c \in Connections : TcpConnectFail(c) \/ TcpWriteFail(c) \/ TcpDrop(c)
    BY <1>14 DEF Faulty
  <2>2. ~TcpWriteFail(c) /\ UNCHANGED user
    BY <1>14 DEF Faulty, TcpWriteFail, Fault, Whole
  <2> QED BY <1>11, <2>1, <2>2
<1>15. ASSUME ReceiveTimeoutFires PROVE Goal
  <2>1. UNCHANGED <<dbox, tcp, outcome, executed>> /\ Tell("ReceiveTimeout")
    BY <1>15 DEF ReceiveTimeoutFires, FireReceiveTimeout, Tell
  <2> QED BY <1>s, <2>1 DEF ListenerSignals
<1>16. ASSUME UNCHANGED vars PROVE Goal
  BY <1>16, <1>u DEF vars
<1>17. Goal
  <2> HIDE DEF Goal
  <2> QED
    BY <1>2, <1>3, <1>4, <1>5, <1>6, <1>8, <1>9, <1>10, <1>12, <1>13, <1>14, <1>15, <1>16 DEF Next
<1> QED BY <1>17

-----------------------------------------------------------------------------
(* Every step is one of the service.                                       *)

(* The server executes what it had not executed.                           *)
LEMMA ExecutesOnce ==
    ASSUME executed \in Seq(Execution), NEW x, executed' = Append(executed, x),
           RanOnce(executed'), NEW l \in DOMAIN x.ids, x.ids[l] # Internal
    PROVE  x.ids[l] \notin Executed
<1> SUFFICES ASSUME x.ids[l] \in Executed PROVE FALSE
  OBVIOUS
<1> DEFINE xs == executed'
           n == Len(executed) + 1
<1>1. /\ \A m \in DOMAIN executed : m \in DOMAIN xs /\ xs[m] = executed[m] /\ m # n
      /\ n \in DOMAIN xs /\ xs[n] = x
  <2> DEFINE ys == Append(executed, x)
  <2>1. /\ \A m \in DOMAIN executed : m \in DOMAIN ys /\ ys[m] = executed[m] /\ m # n
        /\ n \in DOMAIN ys /\ ys[n] = x
    OBVIOUS
  <2> QED BY <2>1
<1>2. RanOnce(xs)
  OBVIOUS
<1> HIDE DEF xs, n
<1> DEFINE i == x.ids[l]
<1>4. PICK m \in DOMAIN executed : i \in {executed[m].ids[k] : k \in DOMAIN executed[m].ids}
  BY DEF Executed
<1>5. PICK k \in DOMAIN executed[m].ids : executed[m].ids[k] = i
  BY <1>4
<1>6. m \in DOMAIN xs /\ xs[m].ids[k] = i /\ k \in DOMAIN xs[m].ids
      /\ xs[n].ids[l] = i /\ l \in DOMAIN xs[n].ids /\ m # n
  BY <1>1, <1>5
<1>7. m = n
  BY <1>1, <1>2, <1>6 DEF RanOnce
<1> QED BY <1>6, <1>7

LEMMA ExecuteServes ==
    ASSUME TypeInv, Delivery', UNCHANGED outcome, NEW c \in Connections, ServerExecute(c)
    PROVE  Service!Next
<1>1. PICK p \in Reply, S \in SUBSET (Ids \cup {Internal}) :
        /\ Executed' = Executed \cup S
        /\ S = {} \/ \E x : executed' = Append(executed, x) /\ S = {x.ids[k] : k \in DOMAIN x.ids}
  BY ServerAnswers
<1> DEFINE T == S \ {Internal}
           ran == Executed \ {Internal}
<1>2. executed \in Seq(Execution) /\ RanOnce(executed')
  BY DEF TypeInv, TypeOK, TcpTypeOK, Delivery
<1>3. T \cap ran = {}
  <2>1. CASE S = {}
    BY <2>1
  <2>2. CASE \E x : executed' = Append(executed, x) /\ S = {x.ids[k] : k \in DOMAIN x.ids}
    <3>1. PICK x : executed' = Append(executed, x) /\ S = {x.ids[k] : k \in DOMAIN x.ids}
      BY <2>2
    <3>2. executed \in Seq(Execution)
      BY <1>2
    <3>3. RanOnce(executed')
      BY <1>2
    <3>4. ASSUME NEW l \in DOMAIN x.ids, x.ids[l] # Internal PROVE x.ids[l] \notin Executed
      BY <3>1, <3>2, <3>3, <3>4, ExecutesOnce
    <3>5. ASSUME NEW i \in S, i # Internal PROVE i \notin Executed
      <4>1. PICK l \in DOMAIN x.ids : i = x.ids[l]
        BY <3>1, <3>5
      <4> QED BY <3>4, <3>5, <4>1
    <3> QED BY <3>5
  <2> QED BY <1>1, <2>1, <2>2
<1>4. T \in SUBSET Ids /\ ran' = ran \cup T
  BY <1>1
<1>5. Service!Execute(T)
  BY <1>3, <1>4 DEF Service!Execute
<1> HIDE DEF T
<1> QED BY <1>4, <1>5 DEF Service!Next

LEMMA FinishServes ==
    ASSUME TypeInv, TypeInv', Sound', TruthInv', UNCHANGED executed, Settled, outcome' # outcome
    PROVE  Service!Next
<1> DEFINE S == {i \in Ids : outcome'[i] # outcome[i]}
           result == [i \in S |-> outcome'[i]]
           ran == Executed \ {Internal}
<1>1. outcome \in [Ids -> Outcomes] /\ outcome' \in [Ids -> Outcomes]
  BY DEF TypeInv, TypeOK
<1>2. S # {}
  BY <1>1
<1>3. \A i \in S : outcome[i] = "pending"
  BY DEF Settled
<1>4. result \in [S -> {"ok", "failed", "refused"}]
  <2> SUFFICES ASSUME NEW i \in S PROVE outcome'[i] \in {"ok", "failed", "refused"}
    OBVIOUS
  <2>1. outcome'[i] # "wrong" /\ outcome'[i] # "pending" /\ outcome'[i] \in Outcomes
    BY <1>1, <1>3 DEF Sound, RepliesReachTheirRequests
  <2> QED BY <2>1 DEF Outcomes
<1>5. Executed' = Executed /\ QuitIds' = QuitIds
  BY DEF Executed, QuitIds, Items
<1>6. \A i \in S : result[i] = "ok" => i \in ran \cup QuitIds
  <2> SUFFICES ASSUME NEW i \in S, outcome'[i] = "ok" PROVE i \in ran \cup QuitIds
    OBVIOUS
  <2>1. i \in Executed \cup QuitIds /\ i # Internal
    BY <1>5, SharedAssumption DEF TruthInv, TrueOutcomes
  <2> QED BY <2>1
<1>7. outcome' = [i \in Ids |-> IF i \in S THEN result[i] ELSE outcome[i]]
  <2>1. \A i \in Ids : outcome'[i] = IF i \in S THEN result[i] ELSE outcome[i]
    OBVIOUS
  <2> QED BY <1>1, <2>1
<1>8. ran' = ran /\ S \in SUBSET Ids
  BY <1>5
<1> HIDE DEF S, result
<1>9. Service!Finish(S)
  BY <1>2, <1>3, <1>4, <1>6, <1>7, <1>8 DEF Service!Finish
<1> QED BY <1>8, <1>9 DEF Service!Next

(* A request is executed at most once and completed at most once, and      *)
(* succeeds only when it was executed, whichever threads send, whatever    *)
(* the listener, its IOActors and decoders have in their mailboxes, and    *)
(* whenever the connection is lost or given up: the connection implements  *)
(* RequestService.  It is for every workload, and every system where no    *)
(* write fails, no IOActor crashes and no connection is dropped within a   *)
(* reply.                                                                  *)
THEOREM ConnectionImplementsService ==
    ASSUME Whole
    PROVE  Spec => ImplementsService
<1> DEFINE I == /\ TypeInv /\ LifeInv /\ Delivery /\ CleanInv /\ PairInv /\ Sound /\ AtomInv
                /\ TruthInv
           ran == Executed \ {Internal}
<1>1. Init => I
  BY TypeInit, LifeInit, DeliveryInit, CleanInit, PairInit, SoundInit, AtomInit, TruthInit
<1>2. I /\ [Next]_vars => I'
  <2> SUFFICES ASSUME I, [Next]_vars PROVE I'
    OBVIOUS
  <2>1. TypeInv'
    BY TypeStep
  <2>2. LifeInv' /\ Delivery'
    BY <2>1, LifeStep, DeliveryStep
  <2>3. CleanInv'
    BY <2>1, CleanStep
  <2>4. PairInv'
    BY <2>1, <2>2, PairStep
  <2>5. Sound'
    BY SoundStep
  <2>6. AtomInv'
    BY <2>1, AtomStep
  <2>7. TruthInv'
    BY TruthStep
  <2> QED BY <2>1, <2>2, <2>3, <2>4, <2>5, <2>6, <2>7
<1>3. Init => Service!Init
  <2> SUFFICES ASSUME Init PROVE Service!Init
    OBVIOUS
  <2>1. outcome = [i \in Ids |-> "pending"] /\ executed = <<>>
    BY DEF Init, TcpInit
  <2>2. ran = {}
    BY <2>1 DEF Executed
  <2> QED BY <2>1, <2>2 DEF Service!Init
<1>4. I /\ I' /\ [Next]_vars => [Service!Next]_<<outcome, ran>>
  <2> SUFFICES ASSUME I, I', [Next]_vars PROVE Service!Next \/ UNCHANGED <<outcome, ran>>
    OBVIOUS
  <2>1. \/ UNCHANGED executed /\ Settled
        \/ UNCHANGED outcome /\ \E c \in Connections : ServerExecute(c)
    BY TruthStep
  <2>2. CASE UNCHANGED executed /\ Settled
    <3>1. UNCHANGED ran
      BY <2>2 DEF Executed
    <3> HIDE DEF ran
    <3>2. CASE UNCHANGED outcome
      BY <3>1, <3>2
    <3>3. CASE outcome' # outcome
      BY <2>2, <3>3, FinishServes
    <3> QED BY <3>2, <3>3
  <2>3. CASE UNCHANGED outcome /\ \E c \in Connections : ServerExecute(c)
    BY <2>3, ExecuteServes
  <2> QED BY <2>1, <2>2, <2>3
<1> HIDE DEF I
<1>5. Spec => []I
  BY <1>1, <1>2, PTL DEF Spec
<1> QED BY <1>3, <1>4, <1>5, PTL DEF Spec, ImplementsService, Service!Spec

=============================================================================
